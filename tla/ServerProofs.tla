---------------------------- MODULE ServerProofs ----------------------------
(* What holds, proved, of the parts of the server that share nothing: of     *)
(* OtpLogin for every number of verify handlers, requests and ticks, of      *)
(* UploadGate for every number of requests and users and every order of      *)
(* events and timers, of MaintenanceJob for every number of parents, queues  *)
(* and rows, of ScanExchange for every number of pieces, and of FileContent  *)
(* for files of every kind.                                                  *)
EXTENDS OtpLogin, UploadGate, MaintenanceJob, ScanExchange, FileContent,
        SequenceTheorems, FiniteSetTheorems, TLAPS

-----------------------------------------------------------------------------
(* One-time passwords.                                                       *)

\* The types that the argument needs; those of the windows are in WindowInv.
RowTypes ==
  /\ otpClock \in Nat
  /\ otpLock \in Intents \cup {NoIntent}
  /\ intent \in [Intents -> Intent]
  /\ code \in [Intents -> Code]
  /\ guess \in [Guessers -> Guess]
  /\ opened \in [Intents -> Nat]

\* A request that has not ended has no code yet, and so opened no session: its
\* claim is the only one that makes the code, once.
Unclaimed(i) ==
  intent[i].step # "ended" => code[i].state = "none" /\ opened[i] = 0

\* A code that is alive has opened none.
Unopened(i) == code[i].state = "live" => opened[i] = 0

OtpInv ==
  /\ RowTypes
  /\ otpLock # NoIntent => intent[otpLock].step = "locked"
  /\ \A i \in Intents : Unclaimed(i) /\ Unopened(i) /\ opened[i] <= 1
  /\ \A g \in Guessers : guess[g].step \in {"reserve", "consume"}
                           => guess[g].code \in Intents

-----------------------------------------------------------------------------
LEMMA NoIntentIsNone == NoIntent \notin Intents
  BY DEF NoIntent, Intents

LEMMA OtpInitInv == OtpInit => OtpInv
<1>. QED
  BY DEF OtpInit, OtpInv, RowTypes, Unclaimed, Unopened, Intent, Code, Guess,
         NoCode, NoGuess

\* A step of a handler, or of the clock, that touches no request and no code.
LEMMA GuessOnly ==
  ASSUME OtpInv, otpClock' \in Nat, UNCHANGED <<otpLock, intent, code, opened>>,
         guess' \in [Guessers -> Guess],
         \A g \in Guessers : guess'[g].step \in {"reserve", "consume"}
                               => guess'[g].code \in Intents
  PROVE  OtpInv'
  BY DEF OtpInv, RowTypes, Unclaimed, Unopened

LEMMA BecomesStep ==
  ASSUME OtpInv, NEW g \in Guessers,
         NEW step \in {"idle", "pick", "consume"}, Becomes(g, step),
         step = "consume" => guess[g].step = "reserve"
  PROVE  /\ guess' \in [Guessers -> Guess]
         /\ \A h \in Guessers : guess'[h].step \in {"reserve", "consume"}
                                  => guess'[h].code \in Intents
<1>1. guess \in [Guessers -> Guess] /\ guess[g] \in Guess
  BY DEF OtpInv, RowTypes
<1>2. NoGuess \in Guess /\ NoGuess.step = "idle"
  BY DEF NoGuess, Guess
<1>3. [guess[g] EXCEPT !.step = step] \in Guess
  BY <1>1 DEF Guess
<1>4. \A h \in Guessers :
        guess'[h] = IF h # g THEN guess[h]
                    ELSE IF step = "idle" THEN NoGuess
                    ELSE [guess[g] EXCEPT !.step = step]
  BY <1>1 DEF Becomes
<1>5. guess' \in [Guessers -> Guess]
  BY <1>1, <1>2, <1>3 DEF Becomes
<1>6. ASSUME NEW h \in Guessers, guess'[h].step \in {"reserve", "consume"}
      PROVE  guess'[h].code \in Intents
  <2>1. CASE h # g
    BY <1>4, <1>6, <2>1 DEF OtpInv
  <2>2. CASE h = g
    <3>1. step = "consume" /\ guess[g].step = "reserve"
      BY <1>1, <1>2, <1>4, <1>6, <2>2 DEF Guess
    <3>2. guess'[g].code = guess[g].code
      BY <1>1, <1>4, <3>1 DEF Guess
    <3>. QED  BY <2>2, <3>1, <3>2 DEF OtpInv
  <2>. QED  BY <2>1, <2>2
<1>. QED  BY <1>5, <1>6

LEMMA ReserveRequestStep ==
  ASSUME OtpInv, NEW i \in Intents, ReserveRequest(i)
  PROVE  OtpInv'
<1>1. [step |-> "claim", at |-> otpClock] \in Intent
  BY DEF OtpInv, RowTypes, Intent
<1>2. /\ intent' \in [Intents -> Intent]
      /\ \A j \in Intents : intent'[j].step # "ended" => intent[j].step # "ended"
  BY <1>1 DEF OtpInv, RowTypes, ReserveRequest
<1>. QED
  BY <1>2, NoIntentIsNone DEF OtpInv, RowTypes, ReserveRequest, Unclaimed, Unopened

LEMMA ClaimLocksStep ==
  ASSUME OtpInv, NEW i \in Intents, ClaimLocks(i)
  PROVE  OtpInv'
<1>1. intent[i] \in Intent
  BY DEF OtpInv, RowTypes
<1>2. [intent[i] EXCEPT !.step = "locked"] \in Intent
  BY <1>1 DEF Intent
<1>3. /\ intent' \in [Intents -> Intent]
      /\ intent'[i].step = "locked"
      /\ \A j \in Intents : intent'[j].step # "ended" => intent[j].step # "ended"
  BY <1>1, <1>2 DEF OtpInv, RowTypes, ClaimLocks, Intent
<1>. QED
  BY <1>3 DEF OtpInv, RowTypes, ClaimLocks, Unclaimed, Unopened

LEMMA ClaimCommitsStep ==
  ASSUME OtpInv, NEW i \in Intents, ClaimCommits(i)
  PROVE  OtpInv'
<1>. DEFINE new == [state |-> "live", asked |-> intent[i].at,
                    at |-> otpClock, attempts |-> 0]
            void(c) == IF c.state = "live" THEN [c EXCEPT !.state = "consumed"]
                       ELSE c
<1>1. otpLock = i /\ intent[i].step = "locked" /\ opened[i] = 0
  BY NoIntentIsNone DEF OtpInv, ClaimCommits, Unclaimed
<1>2. new \in Code
  BY DEF OtpInv, RowTypes, Code, Intent
<1>3. \A c \in Code : /\ void(c) \in Code
                      /\ void(c).state # "live"
                      /\ c.state = "none" => void(c).state = "none"
  BY DEF Code
<1>. HIDE DEF new, void
<1>4. code' = [j \in Intents |-> IF j = i THEN new ELSE void(code[j])]
  BY DEF ClaimCommits, new, void
<1>5. \A j \in Intents : code[j] \in Code
  BY DEF OtpInv, RowTypes
<1>6. code' \in [Intents -> Code]
  BY <1>2, <1>3, <1>4, <1>5
<1>7. [step |-> "ended", at |-> 0] \in Intent
  BY DEF Intent
<1>8. /\ intent' \in [Intents -> Intent]
      /\ intent'[i].step = "ended"
      /\ \A j \in Intents : j # i => intent'[j] = intent[j]
  BY <1>7 DEF OtpInv, RowTypes, ClaimCommits
<1>9. otpLock' = NoIntent /\ UNCHANGED <<otpClock, guess, opened>>
  BY DEF ClaimCommits
<1>10. \A j \in Intents : Unclaimed(j)' /\ Unopened(j)'
  BY <1>1, <1>3, <1>4, <1>5, <1>8, <1>9 DEF OtpInv, Unclaimed, Unopened
<1>. QED
  BY <1>6, <1>8, <1>9, <1>10 DEF OtpInv, RowTypes

LEMMA ClaimEndsStep ==
  ASSUME OtpInv, NEW i \in Intents, ClaimEnds(i)
  PROVE  OtpInv'
<1>1. [step |-> "ended", at |-> 0] \in Intent
  BY DEF Intent
<1>2. /\ intent' \in [Intents -> Intent]
      /\ \A j \in Intents : intent'[j].step # "ended" => intent[j].step # "ended"
      /\ \A j \in Intents : j # i => intent'[j] = intent[j]
  BY <1>1 DEF OtpInv, RowTypes, ClaimEnds
<1>3. otpLock' \in {otpLock, NoIntent} /\ otpLock' # i
  BY NoIntentIsNone DEF ClaimEnds
<1>. QED
  BY <1>2, <1>3 DEF OtpInv, RowTypes, ClaimEnds, Unclaimed, Unopened

LEMMA PruneStep ==
  ASSUME OtpInv, NEW i \in Intents, PruneCode(i)
  PROVE  OtpInv'
<1>1. NoCode \in Code /\ NoCode.state = "none"
  BY DEF NoCode, Code
<1>2. /\ code' \in [Intents -> Code]
      /\ \A j \in Intents : code'[j] = IF j = i THEN NoCode ELSE code[j]
  BY <1>1 DEF OtpInv, RowTypes, PruneCode
<1>. QED
  BY <1>1, <1>2 DEF OtpInv, RowTypes, PruneCode, Unclaimed, Unopened

LEMMA PickStep ==
  ASSUME OtpInv, NEW g \in Guessers, Pick(g)
  PROVE  OtpInv'
<1>1. CASE Becomes(g, "idle")
  BY <1>1, BecomesStep, GuessOnly DEF Pick, OtpInv, RowTypes
<1>2. ASSUME NEW i \in Intents,
             guess' = [guess EXCEPT ![g] = [step |-> "reserve", code |-> i]]
      PROVE  OtpInv'
  <2>1. [step |-> "reserve", code |-> i] \in Guess
    BY DEF Guess
  <2>2. /\ guess' \in [Guessers -> Guess]
        /\ \A h \in Guessers : guess'[h].step \in {"reserve", "consume"}
                                 => guess'[h].code \in Intents
    BY <1>2, <2>1 DEF OtpInv, RowTypes
  <2>. QED  BY <2>2, GuessOnly DEF Pick, OtpInv, RowTypes
<1>. QED  BY <1>1, <1>2 DEF Pick

LEMMA ReserveStep ==
  ASSUME OtpInv, NEW g \in Guessers, Reserve(g)
  PROVE  OtpInv'
<1>. DEFINE i == guess[g].code
<1>1. guess[g].step = "reserve" /\ i \in Intents
  BY DEF Reserve, OtpInv
<1>2. guess' \in [Guessers -> Guess]
      /\ \A h \in Guessers : guess'[h].step \in {"reserve", "consume"}
                               => guess'[h].code \in Intents
  BY <1>1, BecomesStep DEF Reserve
<1>3. CASE code' = [code EXCEPT ![i].attempts = @ + 1]
  <2>1. code[i] \in Code
    BY <1>1 DEF OtpInv, RowTypes
  <2>2. [code[i] EXCEPT !.attempts = @ + 1] \in Code
    BY <2>1 DEF Code
  <2>3. code' \in [Intents -> Code]
    BY <1>1, <1>3, <2>2 DEF OtpInv, RowTypes
  <2>4. \A j \in Intents : code'[j].state = code[j].state
    BY <1>1, <1>3, <2>1 DEF OtpInv, RowTypes, Code
  <2>. QED
    BY <1>2, <2>3, <2>4 DEF Reserve, OtpInv, RowTypes, Unclaimed, Unopened
<1>4. CASE UNCHANGED code
  BY <1>2, <1>4, GuessOnly DEF Reserve, OtpInv, RowTypes
<1>. QED  BY <1>3, <1>4 DEF Reserve

LEMMA ConsumeStep ==
  ASSUME OtpInv, NEW g \in Guessers, Consume(g)
  PROVE  OtpInv'
<1>. DEFINE i == guess[g].code
<1>1. i \in Intents /\ code[i].state = "live" /\ code[i] \in Code
  BY DEF Consume, Consumable, OtpInv, RowTypes
<1>2. opened[i] = 0 /\ intent[i].step = "ended"
  BY <1>1 DEF OtpInv, Unclaimed, Unopened
<1>3. [code[i] EXCEPT !.state = "consumed"] \in Code
  BY <1>1 DEF Code
<1>4. /\ code' \in [Intents -> Code]
      /\ code'[i].state = "consumed"
      /\ \A j \in Intents : j # i => code'[j] = code[j]
  BY <1>1, <1>3 DEF Consume, OtpInv, RowTypes, Code
<1>5. /\ opened' \in [Intents -> Nat]
      /\ opened'[i] = 1
      /\ \A j \in Intents : j # i => opened'[j] = opened[j]
  BY <1>1, <1>2 DEF Consume, OtpInv, RowTypes
<1>6. guess' \in [Guessers -> Guess]
      /\ \A h \in Guessers : guess'[h].step \in {"reserve", "consume"}
                               => guess'[h].code \in Intents
  BY BecomesStep DEF Consume
<1>7. UNCHANGED <<otpClock, otpLock, intent>>
  BY DEF Consume
<1>. HIDE DEF i
<1>8. \A j \in Intents : Unclaimed(j)' /\ Unopened(j)' /\ opened'[j] <= 1
  BY <1>1, <1>2, <1>4, <1>5, <1>7 DEF OtpInv, Unclaimed, Unopened
<1>. QED  BY <1>4, <1>5, <1>6, <1>7, <1>8 DEF OtpInv, RowTypes

LEMMA OtpStepInv == OtpInv /\ [OtpNext]_otpVars => OtpInv'
<1>. SUFFICES ASSUME OtpInv, [OtpNext]_otpVars PROVE OtpInv'
  OBVIOUS
<1>1. CASE OtpTick
  BY <1>1 DEF OtpTick, OtpInv, RowTypes, Unclaimed, Unopened
<1>2. CASE UNCHANGED otpVars
  BY <1>2 DEF otpVars, OtpInv, RowTypes, Unclaimed, Unopened
<1>3. ASSUME NEW g \in Guessers, ReserveBudget(g) \/ GuessEnds(g)
      PROVE  OtpInv'
  BY <1>3, BecomesStep, GuessOnly DEF ReserveBudget, GuessEnds, OtpInv, RowTypes
<1>. QED
  BY <1>1, <1>2, <1>3, ReserveRequestStep, ClaimLocksStep, ClaimCommitsStep,
     ClaimEndsStep, PruneStep, PickStep, ReserveStep, ConsumeStep DEF OtpNext

-----------------------------------------------------------------------------
(* A live code is the newest one there is, and its request was fresh when it *)
(* was made.                                                                 *)

CodeDates(i) ==
  /\ Exists(i) => code[i].at <= otpClock
  /\ code[i].state = "live" =>
       /\ code[i].asked + IntentLife > code[i].at
       /\ \A j \in Intents : Exists(j) => code[j].at <= code[i].at

NewestInv == \A i \in Intents : CodeDates(i)

\* Codes are only voided, guessed at, pruned: a live one was live before.
LEMMA NoNewCode ==
  ASSUME NewestInv, OtpInv, otpClock' \in Nat, otpClock' >= otpClock,
         \A i \in Intents :
           \/ code'[i].state = "none"
           \/ /\ code'[i].state = code[i].state \/ code'[i].state = "consumed"
              /\ code'[i].at = code[i].at /\ code'[i].asked = code[i].asked
              /\ code[i].state # "none"
  PROVE  NewestInv'
<1>1. \A i \in Intents : code[i] \in Code
  BY DEF OtpInv, RowTypes
<1>2. ASSUME NEW i \in Intents PROVE CodeDates(i)'
  <2>1. Exists(i)' => code'[i].at <= otpClock'
    <3>. SUFFICES ASSUME code'[i].state # "none" PROVE code'[i].at <= otpClock'
      BY DEF Exists
    <3>1. code'[i].at = code[i].at /\ code[i].state # "none"
      OBVIOUS
    <3>2. code[i].at <= otpClock /\ code[i].at \in Nat /\ otpClock \in Nat
      BY <1>1, <3>1 DEF NewestInv, CodeDates, Exists, Code, OtpInv, RowTypes
    <3>. QED  BY <3>1, <3>2
  <2>2. ASSUME code'[i].state = "live"
        PROVE  /\ code'[i].asked + IntentLife > code'[i].at
               /\ \A j \in Intents : Exists(j)' => code'[j].at <= code'[i].at
    <3>1. /\ code[i].state = "live"
          /\ code'[i].at = code[i].at /\ code'[i].asked = code[i].asked
      BY <2>2
    <3>2. \A j \in Intents : Exists(j)' => Exists(j) /\ code'[j].at = code[j].at
      BY DEF Exists
    <3>. QED  BY <3>1, <3>2 DEF NewestInv, CodeDates
  <2>. QED  BY <2>1, <2>2 DEF CodeDates
<1>. QED  BY <1>2 DEF NewestInv

LEMMA ClaimDates ==
  ASSUME NewestInv, OtpInv, NEW i \in Intents, ClaimCommits(i)
  PROVE  NewestInv'
<1>1. intent[i] \in Intent /\ otpClock \in Nat /\ IntentLife \in Nat
  BY OtpConstants DEF OtpInv, RowTypes
<1>2. \A j \in Intents : code[j] \in Code
  BY DEF OtpInv, RowTypes
<1>3. code'[i] = [state |-> "live", asked |-> intent[i].at, at |-> otpClock,
                  attempts |-> 0]
  BY DEF ClaimCommits
<1>4. \A j \in Intents : j # i =>
        /\ code'[j].state # "live" /\ code'[j].at = code[j].at
        /\ code'[j].state # "none" => code[j].state # "none"
  BY <1>2 DEF ClaimCommits, Code
<1>5. otpClock' = otpClock /\ intent[i].at + IntentLife > otpClock
  BY DEF ClaimCommits, IntentFresh
<1>6. \A j \in Intents : Exists(j)' => code'[j].at <= otpClock
  BY <1>1, <1>3, <1>4 DEF NewestInv, CodeDates, Exists
<1>7. ASSUME NEW j \in Intents PROVE CodeDates(j)'
  <2>1. CASE j = i
    BY <1>1, <1>3, <1>5, <1>6, <2>1 DEF CodeDates
  <2>2. CASE j # i
    BY <1>4, <1>5, <1>6, <2>2 DEF CodeDates
  <2>. QED  BY <2>1, <2>2
<1>. QED  BY <1>7 DEF NewestInv

LEMMA NewestStep == OtpInv /\ NewestInv /\ [OtpNext]_otpVars => NewestInv'
<1>. SUFFICES ASSUME OtpInv, NewestInv, [OtpNext]_otpVars PROVE NewestInv'
  OBVIOUS
<1>. USE DEF OtpInv, RowTypes
<1>1. \A i \in Intents : code[i] \in Code
  OBVIOUS
<1>2. ASSUME UNCHANGED code, otpClock' \in Nat, otpClock' >= otpClock
      PROVE  NewestInv'
  BY <1>2, NoNewCode
<1>3. CASE UNCHANGED <<code, otpClock>>
  BY <1>2, <1>3
<1>4. CASE OtpTick
  BY <1>2, <1>4 DEF OtpTick
<1>5. ASSUME NEW i \in Intents, PruneCode(i) PROVE NewestInv'
  <2>1. \A j \in Intents : code'[j] = IF j = i THEN NoCode ELSE code[j]
    BY <1>5 DEF PruneCode
  <2>2. NoCode.state = "none"
    BY DEF NoCode
  <2>. QED  BY <1>5, <2>1, <2>2, NoNewCode DEF PruneCode
<1>6. ASSUME NEW g \in Guessers, Reserve(g) \/ Consume(g) PROVE NewestInv'
  <2>. DEFINE i == guess[g].code
  <2>1. i \in Intents
    BY <1>6 DEF Reserve, Consume
  <2>2. CASE Reserve(g) /\ ~UNCHANGED code
    <3>1. code' = [code EXCEPT ![i].attempts = @ + 1]
      BY <2>2 DEF Reserve
    <3>2. \A j \in Intents :
            /\ code'[j].state = code[j].state /\ code'[j].at = code[j].at
            /\ code'[j].asked = code[j].asked
      BY <1>1, <2>1, <3>1 DEF Code
    <3>. QED  BY <2>2, <3>2, NoNewCode DEF Reserve
  <2>3. CASE Consume(g)
    <3>1. \A j \in Intents :
            /\ code'[j].state = IF j = i THEN "consumed" ELSE code[j].state
            /\ code'[j].at = code[j].at /\ code'[j].asked = code[j].asked
      BY <1>1, <2>1, <2>3 DEF Consume, Code
    <3>2. code[i].state = "live"
      BY <2>3 DEF Consume, Consumable
    <3>. QED  BY <2>1, <2>3, <3>1, <3>2, NoNewCode DEF Consume
  <2>4. CASE Reserve(g) /\ UNCHANGED code
    BY <1>3, <2>4 DEF Reserve
  <2>. QED  BY <1>6, <2>2, <2>3, <2>4
<1>. QED
  BY <1>3, <1>4, <1>5, <1>6, ClaimDates
     DEF OtpNext, otpVars, ReserveRequest, ClaimLocks, ClaimEnds, ReserveBudget,
         Pick, GuessEnds

LEMMA ConsumeNewest ==
  ASSUME OtpInv, NewestInv, [OtpNext]_otpVars,
         NEW i \in Intents, opened'[i] > opened[i]
  PROVE  /\ Unexpired(i) /\ code[i].asked + IntentLife + CodeLife > otpClock
         /\ \A j \in Intents : code[j].at > code[i].at => ~Exists(j)
<1>1. \A j \in Intents : code[j] \in Code /\ opened[j] \in Nat
  BY DEF OtpInv, RowTypes
<1>2. PICK g \in Guessers : Consume(g)
  <2>1. ~UNCHANGED opened
    BY <1>1
  <2>. QED
    BY <2>1 DEF OtpNext, otpVars, OtpTick, ReserveRequest, ClaimLocks, ClaimCommits,
       ClaimEnds, PruneCode, ReserveBudget, Pick, Reserve, GuessEnds
<1>3. i = guess[g].code
  BY <1>1, <1>2 DEF Consume, OtpInv, RowTypes
<1>4. code[i].state = "live" /\ Unexpired(i)
  BY <1>2, <1>3 DEF Consume, Consumable
<1>5. otpClock \in Nat /\ IntentLife \in Nat /\ CodeLife \in Nat
  BY OtpConstants DEF OtpInv, RowTypes
<1>. QED
  BY <1>1, <1>4, <1>5 DEF NewestInv, CodeDates, Unexpired, Code, Exists

-----------------------------------------------------------------------------
(* The budgets.  An attempt of the last hour is under the pseudonym of this   *)
(* hour or of the one before, so what the two rows have is all that was       *)
(* granted, wherever the hour ends.                                           *)

\* What was granted in the last hour is what the rows have of it, and attempts of
\* one tick are counted from one.
RowOf(b, e) ==
  \A a \in bucket[b][e] : a.at <= otpClock /\ Epoch(a.at) = e
Granted(b) ==
  /\ \A a \in spent[b] : a.at <= otpClock /\ a.at + Hour > otpClock
                         /\ a \in bucket[b][Epoch(a.at)]
  /\ \A e \in Epochs : \A a \in bucket[b][e] : a.at + Hour > otpClock => a \in spent[b]
Bounded(b) ==
  IsFiniteSet(spent[b]) /\ Cardinality(spent[b]) <= Limit(b)
OfThisTick(b) == {a \in spent[b] : a.at = otpClock}
Numbered(b) == \A a \in OfThisTick(b) : a.nth <= Cardinality(OfThisTick(b))

WindowInv ==
  /\ otpClock \in 0..MaxTime
  /\ bucket \in [Budgets -> [Epochs -> SUBSET Attempt]]
  /\ spent \in [Budgets -> SUBSET Attempt]
  /\ \A b \in Budgets : /\ \A e \in Epochs : RowOf(b, e)
                        /\ Granted(b) /\ Bounded(b) /\ Numbered(b)

LEMMA Division ==
  ASSUME NEW t \in Nat, NEW h \in Nat \ {0}
  PROVE  t \div h \in Nat /\ h * (t \div h) <= t /\ t < h * (t \div h) + h
  BY SMT

LEMMA Multiples ==
  ASSUME NEW h \in Nat \ {0}, NEW p \in Nat, NEW q \in Nat, p < q
  PROVE  h * p + h <= h * q
<1>. DEFINE d == q - p - 1
<1>1. d \in Nat /\ q = p + 1 + d
  OBVIOUS
<1>2. h * d \in Nat
  BY <1>1
<1>3. h * q = h * p + h + h * d
  BY <1>1
<1>. QED  BY <1>2, <1>3

\* Pseudonyms change once an hour, so the last hour has two at most.
LEMMA EpochsOfAnHour ==
  ASSUME NEW t \in Nat, NEW c \in Nat, t <= c
  PROVE  /\ Epoch(t) \in Nat /\ Epoch(c) \in Nat /\ Epoch(t) <= Epoch(c)
         /\ t + Hour > c => Epoch(t) = Epoch(c) \/ Epoch(t) = Epoch(c) - 1
<1>. Hour \in Nat \ {0}
  BY OtpConstants
<1>1. Epoch(c) \in Nat /\ Hour * Epoch(c) <= c /\ c < Hour * Epoch(c) + Hour
  BY Division DEF Epoch
<1>2. Epoch(t) \in Nat /\ Hour * Epoch(t) <= t /\ t < Hour * Epoch(t) + Hour
  BY Division DEF Epoch
<1>3. Hour * Epoch(c) \in Nat /\ Hour * Epoch(t) \in Nat
  BY <1>1, <1>2
<1>4. Epoch(t) <= Epoch(c)
  BY <1>1, <1>2, <1>3, Multiples
<1>5. t + Hour > c => Epoch(t) >= Epoch(c) - 1
  <2>. SUFFICES ASSUME t + Hour > c, Epoch(t) + 1 < Epoch(c)  PROVE FALSE
    BY <1>1, <1>2
  <2>1. Hour * (Epoch(t) + 1) + Hour <= Hour * Epoch(c)
    BY <1>1, <1>2, Multiples
  <2>2. Hour * (Epoch(t) + 1) = Hour * Epoch(t) + Hour
    BY <1>2
  <2>. QED  BY <1>1, <1>2, <1>3, <2>1, <2>2
<1>. QED  BY <1>1, <1>2, <1>4, <1>5

LEMMA EpochInRange ==
  ASSUME NEW t \in 0..MaxTime
  PROVE  Epoch(t) \in Epochs
<1>. MaxTime \in Nat /\ t \in Nat /\ t <= MaxTime
  BY OtpConstants
<1>. QED  BY EpochsOfAnHour DEF Epochs

\* The two rows that are read have exactly what was granted in the last hour.
LEMMA CountedIsSpent ==
  ASSUME WindowInv, NEW b \in Budgets
  PROVE  /\ Counted(b) = spent[b]
         /\ {a \in CountedHere(b) : a.at = otpClock} = OfThisTick(b)
<1>. DEFINE now == Epoch(otpClock)
<1>1. otpClock \in Nat /\ now \in Epochs /\ now \in Nat /\ (now # 0 => now - 1 \in Epochs)
  <2>1. otpClock \in Nat /\ MaxTime \in Nat /\ otpClock <= MaxTime
    BY OtpConstants DEF WindowInv
  <2>2. now \in Nat /\ Epoch(MaxTime) \in Nat /\ now <= Epoch(MaxTime)
    BY <2>1, EpochsOfAnHour
  <2>. QED  BY <2>1, <2>2 DEF Epochs
<1>2. Granted(b) /\ spent[b] \subseteq Attempt /\ \A e \in Epochs : bucket[b][e] \subseteq Attempt
  BY DEF WindowInv
<1>3. ASSUME NEW a \in spent[b]
      PROVE  /\ a.at \in Nat /\ a.at <= otpClock /\ a.at + Hour > otpClock
             /\ a \in bucket[b][Epoch(a.at)]
             /\ Epoch(a.at) \in Nat /\ (Epoch(a.at) = now \/ Epoch(a.at) = now - 1)
  BY <1>1, <1>2, EpochsOfAnHour DEF Granted, Attempt
<1>4. Counted(b) \subseteq spent[b]
  BY <1>1, <1>2 DEF Counted, CountedHere, Within, Granted
<1>5. spent[b] \subseteq Counted(b)
  BY <1>1, <1>3 DEF Counted, CountedHere, Within
<1>6. CountedHere(b) \subseteq spent[b]
  BY <1>1, <1>2 DEF CountedHere, Within, Granted
<1>7. OfThisTick(b) \subseteq CountedHere(b)
  BY <1>3 DEF CountedHere, Within, OfThisTick
<1>. QED  BY <1>4, <1>5, <1>6, <1>7 DEF OfThisTick

\* An attempt is not taken for one that was granted before.
LEMMA AttemptsDiffer ==
  ASSUME WindowInv, NEW b \in Budgets
  PROVE  /\ NewAttempt(b) \in Attempt /\ NewAttempt(b).at = otpClock
         /\ NewAttempt(b) \notin spent[b]
         /\ NewAttempt(b).nth = Cardinality(OfThisTick(b)) + 1
         /\ IsFiniteSet(OfThisTick(b)) /\ Cardinality(OfThisTick(b)) \in Nat
<1>1. IsFiniteSet(OfThisTick(b))
  BY FS_Subset DEF WindowInv, Bounded, OfThisTick
<1>2. Cardinality(OfThisTick(b)) \in Nat
  BY <1>1, FS_CardinalityType
<1>3. NewAttempt(b) = [at |-> otpClock, nth |-> Cardinality(OfThisTick(b)) + 1]
  BY CountedIsSpent DEF NewAttempt
<1>4. NewAttempt(b) \notin spent[b]
  <2>. SUFFICES ASSUME NewAttempt(b) \in spent[b]  PROVE FALSE
    OBVIOUS
  <2>1. NewAttempt(b) \in OfThisTick(b)
    BY <1>3 DEF OfThisTick
  <2>2. NewAttempt(b).nth <= Cardinality(OfThisTick(b))
    BY <2>1 DEF WindowInv, Numbered
  <2>. QED  BY <1>2, <1>3, <2>2
<1>. QED  BY <1>1, <1>2, <1>3, <1>4 DEF WindowInv, Attempt

LEMMA SpendKeeps ==
  ASSUME WindowInv, NEW b \in Budgets, Spend(b), UNCHANGED otpClock
  PROVE  WindowInv'
<1>. DEFINE now == Epoch(otpClock)
            new == NewAttempt(b)
<1>1. /\ otpClock \in Nat /\ now \in Epochs /\ Hour \in Nat \ {0}
      /\ otpClock + Hour > otpClock
  BY EpochInRange, OtpConstants DEF WindowInv
<1>2. /\ new \in Attempt /\ new.at = otpClock /\ new \notin spent[b]
      /\ new.nth = Cardinality(OfThisTick(b)) + 1
      /\ IsFiniteSet(OfThisTick(b)) /\ Cardinality(OfThisTick(b)) \in Nat
  BY AttemptsDiffer
<1>3. /\ \A c \in Budgets : spent'[c] = IF c = b THEN spent[c] \cup {new} ELSE spent[c]
      /\ \A c \in Budgets, e \in Epochs :
           bucket'[c][e] = IF c = b /\ e = now THEN CountedHere(b) \cup {new}
                           ELSE Pruned(bucket[c][e])
      /\ Cardinality(spent[b]) < Limit(b)
  BY CountedIsSpent DEF Spend, WindowInv, CanSpend
<1>. HIDE DEF new
<1>4. \A c \in Budgets, e \in Epochs :
        Pruned(bucket[c][e]) = bucket[c][e] \/ Pruned(bucket[c][e]) = {}
  BY DEF Pruned
<1>5. CountedHere(b) = {a \in bucket[b][now] : a.at + Hour > otpClock}
  BY DEF CountedHere, Within
<1>6. \A c \in Budgets, e \in Epochs : bucket[c][e] \subseteq Attempt
  BY DEF WindowInv
<1>7. ASSUME NEW c \in Budgets, NEW e \in Epochs
      PROVE  bucket'[c][e] \subseteq Attempt
  <2>1. CASE c = b /\ e = now
    <3>1. bucket'[c][e] = CountedHere(b) \cup {new}
      BY <1>3, <2>1
    <3>2. CountedHere(b) \subseteq Attempt
      BY <1>1, <1>5, <1>6
    <3>. QED  BY <1>2, <3>1, <3>2
  <2>2. CASE ~(c = b /\ e = now)
    <3>1. bucket'[c][e] = Pruned(bucket[c][e])
      BY <1>3, <2>2
    <3>. QED  BY <1>4, <1>6, <3>1
  <2>. QED  BY <2>1, <2>2
<1>8. /\ bucket' \in [Budgets -> [Epochs -> SUBSET Attempt]]
      /\ spent' \in [Budgets -> SUBSET Attempt]
  <2>1. spent' \in [Budgets -> SUBSET Attempt]
    BY <1>2 DEF Spend, WindowInv, new
  <2>2. bucket' = [c \in Budgets |-> [e \in Epochs |-> bucket'[c][e]]]
    BY <1>3 DEF Spend, new
  <2>. QED  BY <1>7, <2>1, <2>2
\* An attempt of the last hour is in no row that is pruned.
<1>9. ASSUME NEW c \in Budgets, NEW e \in Epochs, NEW a \in bucket[c][e],
             a.at + Hour > otpClock
      PROVE  a \in bucket'[c][e]
  <2>1. a.at \in Nat /\ ~(a.at + 2 * Hour < otpClock)
    BY <1>1, <1>6, <1>9 DEF Attempt
  <2>2. Pruned(bucket[c][e]) = bucket[c][e]
    BY <2>1 DEF Pruned
  <2>. QED  BY <1>3, <1>5, <1>9, <2>2
<1>10. ASSUME NEW c \in Budgets, NEW e \in Epochs, NEW a \in bucket'[c][e]
       PROVE  a \in bucket[c][e] \/ (c = b /\ e = now /\ a = new)
  <2>1. CASE c = b /\ e = now
    <3>1. bucket'[c][e] = CountedHere(b) \cup {new}
      BY <1>3, <2>1
    <3>. QED  BY <1>5, <1>10, <2>1, <3>1
  <2>2. CASE ~(c = b /\ e = now)
    <3>1. bucket'[c][e] = Pruned(bucket[c][e])
      BY <1>3, <2>2
    <3>. QED  BY <1>4, <1>10, <3>1
  <2>. QED  BY <2>1, <2>2
<1>11. ASSUME NEW c \in Budgets, NEW e \in Epochs
       PROVE  RowOf(c, e)'
  <2>1. RowOf(c, e)
    BY DEF WindowInv
  <2>. QED  BY <1>1, <1>2, <1>10, <2>1 DEF RowOf, Epoch
<1>12. ASSUME NEW c \in Budgets
       PROVE  Granted(c)'
  <2>1. Granted(c) /\ spent[c] \subseteq Attempt
    BY DEF WindowInv
  <2>2. ASSUME NEW a \in spent'[c]
        PROVE  /\ a.at <= otpClock /\ a.at + Hour > otpClock
               /\ a \in bucket'[c][Epoch(a.at)]
    <3>1. CASE a \in spent[c]
      <4>1. a.at \in Nat /\ a.at <= otpClock /\ a.at + Hour > otpClock
            /\ a \in bucket[c][Epoch(a.at)]
        BY <2>1, <3>1 DEF Granted, Attempt
      <4>2. a.at \in 0..MaxTime
        BY <4>1, OtpConstants DEF WindowInv
      <4>3. Epoch(a.at) \in Epochs
        BY <4>2, EpochInRange
      <4>. QED  BY <1>9, <4>1, <4>3
    <3>2. CASE c = b /\ a = new
      BY <1>1, <1>2, <1>3, <3>2
    <3>. QED  BY <1>3, <3>1, <3>2
  <2>3. ASSUME NEW e \in Epochs, NEW a \in bucket'[c][e], a.at + Hour > otpClock
        PROVE  a \in spent'[c]
    <3>1. a \in bucket[c][e] => a \in spent[c]
      BY <2>1, <2>3 DEF Granted
    <3>2. spent[c] \subseteq spent'[c] /\ (c = b => new \in spent'[c])
      BY <1>3
    <3>. QED  BY <1>10, <2>3, <3>1, <3>2
  <2>. QED  BY <2>2, <2>3 DEF Granted, Epoch
<1>13. ASSUME NEW c \in Budgets
       PROVE  Bounded(c)'
  <2>1. Bounded(c) /\ Limit(c) \in Nat
    BY OtpConstants DEF WindowInv, Limit
  <2>2. CASE c = b
    <3>1. Cardinality(spent[b] \cup {new}) = Cardinality(spent[b]) + 1
          /\ IsFiniteSet(spent[b] \cup {new}) /\ Cardinality(spent[b]) \in Nat
      BY <1>2, <2>1, <2>2, FS_AddElement, FS_CardinalityType DEF Bounded
    <3>. QED  BY <1>3, <2>1, <2>2, <3>1 DEF Bounded, Limit
  <2>3. CASE c # b
    BY <1>3, <2>1, <2>3 DEF Bounded, Limit
  <2>. QED  BY <2>2, <2>3
<1>14. ASSUME NEW c \in Budgets
       PROVE  Numbered(c)'
  <2>1. OfThisTick(c)' = IF c = b THEN OfThisTick(c) \cup {new} ELSE OfThisTick(c)
    BY <1>2, <1>3 DEF OfThisTick
  <2>2. Numbered(c)
    BY DEF WindowInv
  <2>3. CASE c # b
    BY <2>1, <2>2, <2>3 DEF Numbered
  <2>4. CASE c = b
    <3>1. new \notin OfThisTick(b)
      BY <1>2 DEF OfThisTick
    <3>2. Cardinality(OfThisTick(b) \cup {new}) = Cardinality(OfThisTick(b)) + 1
      BY <1>2, <3>1, FS_AddElement
    <3>3. \A a \in OfThisTick(b) : a.nth \in Nat
      BY DEF OfThisTick, WindowInv, Attempt
    <3>4. ASSUME NEW a \in OfThisTick(b) \cup {new}
          PROVE  a.nth <= Cardinality(OfThisTick(b)) + 1
      BY <1>2, <2>2, <2>4, <3>3 DEF Numbered
    <3>. QED  BY <2>1, <2>4, <3>2, <3>4 DEF Numbered
  <2>. QED  BY <2>3, <2>4
<1>15. otpClock' \in 0..MaxTime
  BY DEF WindowInv
<1>. QED  BY <1>8, <1>11, <1>12, <1>13, <1>14, <1>15 DEF WindowInv

LEMMA TickKeeps ==
  ASSUME WindowInv, OtpTick
  PROVE  WindowInv'
<1>1. /\ otpClock \in Nat /\ Hour \in Nat \ {0} /\ otpClock' = otpClock + 1
      /\ otpClock' \in 0..MaxTime /\ MaxTime \in Nat
  BY OtpConstants DEF WindowInv, OtpTick
<1>2. /\ bucket' = bucket
      /\ \A b \in Budgets : spent'[b] = {a \in spent[b] : a.at + Hour > otpClock + 1}
      /\ spent' \in [Budgets -> SUBSET Attempt]
  BY DEF WindowInv, OtpTick
<1>3. \A b \in Budgets : /\ spent[b] \subseteq Attempt
                         /\ \A e \in Epochs : bucket[b][e] \subseteq Attempt
  BY DEF WindowInv
<1>4. ASSUME NEW b \in Budgets, NEW e \in Epochs
      PROVE  RowOf(b, e)'
  <2>1. \A a \in bucket[b][e] : a.at \in Nat /\ a.at <= otpClock /\ Epoch(a.at) = e
    BY <1>3 DEF WindowInv, RowOf, Attempt
  <2>. QED  BY <1>1, <1>2, <2>1 DEF RowOf, Epoch
<1>5. ASSUME NEW b \in Budgets
      PROVE  Granted(b)' /\ Bounded(b)' /\ Numbered(b)'
  <2>1. Granted(b) /\ Bounded(b)
    BY DEF WindowInv
  <2>2. \A a \in spent[b] : a.at \in Nat /\ a.at <= otpClock
    BY <1>3, <2>1 DEF Granted, Attempt
  <2>3. ASSUME NEW e \in Epochs, NEW a \in bucket[b][e], a.at + Hour > otpClock + 1
        PROVE  a \in spent'[b]
    <3>1. a.at \in Nat /\ a.at + Hour > otpClock
      BY <1>1, <1>3, <2>3 DEF Attempt
    <3>. QED  BY <1>2, <2>1, <2>3, <3>1 DEF Granted
  <2>4. Granted(b)'
    BY <1>1, <1>2, <2>1, <2>2, <2>3 DEF Granted, Epoch
  <2>5. Bounded(b)'
    <3>1. spent'[b] \subseteq spent[b]
      BY <1>2
    <3>2. /\ IsFiniteSet(spent'[b]) /\ Cardinality(spent'[b]) <= Cardinality(spent[b])
          /\ Cardinality(spent'[b]) \in Nat /\ Cardinality(spent[b]) \in Nat
      BY <2>1, <3>1, FS_Subset, FS_CardinalityType DEF Bounded
    <3>3. Limit(b) \in Nat
      BY OtpConstants DEF Limit
    <3>. QED  BY <2>1, <3>2, <3>3 DEF Bounded, Limit
  <2>6. OfThisTick(b)' = {}
    BY <1>1, <1>2, <2>2 DEF OfThisTick
  <2>7. Numbered(b)'
    BY <2>6 DEF Numbered
  <2>. QED  BY <2>4, <2>5, <2>7
<1>. QED  BY <1>1, <1>2, <1>4, <1>5 DEF WindowInv

LEMMA WindowStep == WindowInv /\ [OtpNext]_otpVars => WindowInv'
<1>. SUFFICES ASSUME WindowInv, [OtpNext]_otpVars  PROVE WindowInv'
  OBVIOUS
<1>1. CASE UNCHANGED <<otpClock, bucket, spent>>
  BY <1>1 DEF WindowInv, RowOf, Granted, Bounded, Numbered, OfThisTick
<1>2. CASE OtpTick
  BY <1>2, TickKeeps
<1>3. CASE \E i \in Intents : ReserveRequest(i)
  BY <1>3, SpendKeeps DEF ReserveRequest, Budgets
<1>4. CASE \E g \in Guessers : ReserveBudget(g)
  BY <1>4, SpendKeeps DEF ReserveBudget, Budgets
<1>5. CASE \E i \in Intents : ClaimLocks(i) \/ ClaimCommits(i) \/ ClaimEnds(i) \/ PruneCode(i)
  BY <1>1, <1>5 DEF ClaimLocks, ClaimCommits, ClaimEnds, PruneCode
<1>6. CASE \E g \in Guessers : Pick(g) \/ Reserve(g) \/ Consume(g) \/ GuessEnds(g)
  BY <1>1, <1>6 DEF Pick, Reserve, Consume, GuessEnds
<1>. QED  BY <1>1, <1>2, <1>3, <1>4, <1>5, <1>6 DEF OtpNext, otpVars

LEMMA WindowInit == OtpInit => WindowInv
<1>. SUFFICES ASSUME OtpInit  PROVE WindowInv
  OBVIOUS
<1>1. otpClock \in 0..MaxTime
  BY OtpConstants DEF OtpInit
<1>2. /\ bucket \in [Budgets -> [Epochs -> SUBSET Attempt]]
      /\ spent \in [Budgets -> SUBSET Attempt]
  BY DEF OtpInit
<1>3. ASSUME NEW b \in Budgets
      PROVE  spent[b] = {} /\ \A e \in Epochs : bucket[b][e] = {}
  BY DEF OtpInit
<1>4. \A b \in Budgets : Limit(b) \in Nat
  BY OtpConstants DEF Limit
<1>5. Cardinality({}) = 0 /\ IsFiniteSet({})
  BY FS_EmptySet
<1>6. ASSUME NEW b \in Budgets
      PROVE  (\A e \in Epochs : RowOf(b, e)) /\ Granted(b) /\ Bounded(b) /\ Numbered(b)
  <2>1. OfThisTick(b) = {}
    BY <1>3 DEF OfThisTick
  <2>2. Numbered(b)
    BY <2>1 DEF Numbered
  <2>3. Bounded(b)
    BY <1>3, <1>4, <1>5 DEF Bounded
  <2>. QED  BY <1>3, <2>2, <2>3 DEF RowOf, Granted
<1>. QED  BY <1>1, <1>2, <1>6 DEF WindowInv

-----------------------------------------------------------------------------
(* The theorems                                                             *)

\* A request makes at most one code, and nothing brings a code back to life: the
\* inductive invariant of requestOtp and verifyOtp.
THEOREM OtpInvariant == OtpSpec => []OtpInv
  BY OtpInitInv, OtpStepInv, PTL DEF OtpSpec

\* One code opens one session, however many handlers guess it rightly at once
\* and however claims, guesses and pruning interleave (consumeOtpForSession).
THEOREM OtpOpensOnce == OtpSpec => []OneSessionPerCode
<1>1. OtpInv => OneSessionPerCode
  BY DEF OtpInv, OneSessionPerCode
<1>. QED  BY <1>1, OtpInvariant, PTL

\* What opens a session is the newest code there is, neither it nor the request
\* it stands for being stale, however guesses race newer requests.
THEOREM OtpNewestOpens == OtpSpec => NewestOpens
<1>. DEFINE Opens == \A i \in Intents :
              opened'[i] > opened[i] =>
                /\ Unexpired(i) /\ code[i].asked + IntentLife + CodeLife > otpClock
                /\ \A j \in Intents : code[j].at > code[i].at => ~Exists(j)
<1>1. OtpInit => NewestInv
  BY DEF OtpInit, NewestInv, CodeDates, Exists, NoCode
<1>2. OtpInv /\ NewestInv /\ [OtpNext]_otpVars => [Opens]_otpVars
  BY ConsumeNewest
<1>. QED
  BY <1>1, <1>2, NewestStep, OtpInvariant, PTL DEF OtpSpec, NewestOpens

\* The types of the rows, of the windows and of what the handlers carry.
THEOREM OtpTypeCorrect == OtpSpec => []OtpTypeOK
<1>1. OtpInv /\ WindowInv => OtpTypeOK
  BY DEF OtpInv, RowTypes, WindowInv, OtpTypeOK
<1>. QED  BY <1>1, OtpInvariant, WindowInit, WindowStep, PTL DEF OtpSpec

\* No more than a budget is granted within any hour, although an attempt is kept
\* under a pseudonym that changes on the hour and rows are pruned (spend,
\* prune_auth_verify_buckets): for every limit and every length of an hour.
THEOREM OtpBudgetHolds == OtpSpec => []BudgetHolds
<1>1. WindowInv => BudgetHolds
  BY DEF WindowInv, Bounded, BudgetHolds
<1>. QED  BY <1>1, WindowInit, WindowStep, PTL DEF OtpSpec

-----------------------------------------------------------------------------
(* The way of an upload through one process.                                 *)

GateInv == GateTypeOK /\ GateMatches

-----------------------------------------------------------------------------
(* Queues without repetition.                                                *)

LEMMA AppendQueue ==
  ASSUME NEW S, NEW s \in Seq(S), NEW e \in S, e \notin Range(s), IsInjective(s)
  PROVE  /\ Append(s, e) \in Seq(S)
         /\ Range(Append(s, e)) = Range(s) \cup {e}
         /\ IsInjective(Append(s, e))
<1>. DEFINE t == Append(s, e)
<1>1. /\ t \in Seq(S) /\ Len(t) = Len(s) + 1 /\ Len(s) \in Nat
      /\ \A i \in 1..Len(s) : t[i] = s[i]
      /\ t[Len(s) + 1] = e
      /\ DOMAIN s = 1..Len(s) /\ DOMAIN t = 1..(Len(s) + 1)
  BY AppendProperties
<1>. HIDE DEF t
<1>2. Range(t) = Range(s) \cup {e}
  BY <1>1 DEF Range
<1>3. \A i \in 1..Len(s) : s[i] # e
  BY <1>1 DEF Range
<1>4. IsInjective(t)
  BY <1>1, <1>3 DEF IsInjective
<1>. QED  BY <1>1, <1>2, <1>4 DEF t

\* Leaving a place of the queue, the first one or another.
LEMMA LeaveQueue ==
  ASSUME NEW S, NEW s \in Seq(S), NEW n \in 1..Len(s), IsInjective(s),
         NEW t \in Seq(S), Len(t) = Len(s) - 1,
         \A i \in 1..Len(t) : t[i] = IF i < n THEN s[i] ELSE s[i + 1]
  PROVE  Range(t) = Range(s) \ {s[n]} /\ IsInjective(t)
<1>1. /\ Len(s) \in Nat /\ DOMAIN s = 1..Len(s) /\ DOMAIN t = 1..(Len(s) - 1)
      /\ n \in Nat
  OBVIOUS
<1>. DEFINE from(i) == IF i < n THEN i ELSE i + 1
<1>2. \A i \in 1..(Len(s) - 1) :
        from(i) \in 1..Len(s) /\ from(i) # n /\ t[i] = s[from(i)]
  BY <1>1
<1>3. \A i, j \in 1..(Len(s) - 1) : from(i) = from(j) => i = j
  BY <1>1
<1>4. ASSUME NEW j \in 1..Len(s), j # n
      PROVE  \E i \in 1..(Len(s) - 1) : t[i] = s[j]
  <2>1. CASE j < n
    <3>1. j \in 1..(Len(s) - 1) /\ from(j) = j
      BY <1>1, <2>1
    <3>. QED  BY <1>2, <3>1
  <2>2. CASE j > n
    <3>1. j - 1 \in 1..(Len(s) - 1) /\ from(j - 1) = j
      BY <1>1, <2>2
    <3>. QED  BY <1>2, <3>1
  <2>. QED  BY <1>1, <1>4, <2>1, <2>2
<1>. HIDE DEF from
<1>5. ASSUME NEW x \in Range(t) PROVE x \in Range(s) /\ x # s[n]
  <2>1. PICK i \in 1..(Len(s) - 1) : x = t[i]
    BY <1>1 DEF Range
  <2>2. from(i) \in 1..Len(s) /\ from(i) # n /\ x = s[from(i)]
    BY <1>2, <2>1
  <2>. QED  BY <1>1, <2>2 DEF Range, IsInjective
<1>6. ASSUME NEW x \in Range(s), x # s[n] PROVE x \in Range(t)
  <2>1. PICK j \in 1..Len(s) : x = s[j] /\ j # n
    BY <1>1, <1>6 DEF Range
  <2>2. PICK i \in 1..(Len(s) - 1) : t[i] = s[j]
    BY <1>4, <2>1
  <2>. QED  BY <1>1, <2>1, <2>2 DEF Range
<1>7. IsInjective(t)
  <2>. SUFFICES ASSUME NEW i \in 1..(Len(s) - 1), NEW j \in 1..(Len(s) - 1),
                       t[i] = t[j]
                PROVE  i = j
    BY <1>1 DEF IsInjective
  <2>1. s[from(i)] = s[from(j)] /\ from(i) \in 1..Len(s) /\ from(j) \in 1..Len(s)
    BY <1>2
  <2>2. from(i) = from(j)
    BY <1>1, <2>1 DEF IsInjective
  <2>. QED  BY <1>3, <2>2
<1>. QED  BY <1>5, <1>6, <1>7

LEMMA TailQueue ==
  ASSUME NEW S, NEW s \in Seq(S), s # <<>>, IsInjective(s)
  PROVE  /\ Tail(s) \in Seq(S) /\ Head(s) \in S /\ Head(s) \in Range(s)
         /\ Range(Tail(s)) = Range(s) \ {Head(s)}
         /\ IsInjective(Tail(s))
<1>1. /\ Tail(s) \in Seq(S) /\ Len(Tail(s)) = Len(s) - 1 /\ Head(s) \in S
      /\ \A i \in 1..Len(Tail(s)) : Tail(s)[i] = s[i + 1]
  BY HeadTailProperties
<1>2. 1 \in 1..Len(s) /\ s[1] = Head(s) /\ DOMAIN s = 1..Len(s)
  OBVIOUS
<1>3. \A i \in 1..Len(Tail(s)) : ~(i < 1)
  OBVIOUS
<1>4. Range(Tail(s)) = Range(s) \ {s[1]} /\ IsInjective(Tail(s))
  BY <1>1, <1>2, <1>3, LeaveQueue
<1>. QED  BY <1>1, <1>2, <1>4 DEF Range

LEMMA RemoveQueue ==
  ASSUME NEW S, NEW s \in Seq(S), NEW e \in Range(s), IsInjective(s)
  PROVE  /\ RemoveFirst(s, e) \in Seq(S)
         /\ Range(RemoveFirst(s, e)) = Range(s) \ {e}
         /\ IsInjective(RemoveFirst(s, e))
<1>1. DOMAIN s = 1..Len(s) /\ Len(s) \in Nat /\ \A i \in 1..Len(s) : s[i] \in S
  OBVIOUS
<1>2. PICK n \in 1..Len(s) : s[n] = e
  BY <1>1 DEF Range
<1>3. SelectInSeq(s, LAMBDA v : v = e) = n
  <2>. DEFINE I == {i \in 1..Len(s) : s[i] = e}
  <2>1. I = {n}
    BY <1>1, <1>2 DEF IsInjective
  <2>2. SelectInSeq(s, LAMBDA v : v = e) = IF I # {} THEN Min(I) ELSE 0
    BY DEF SelectInSeq
  <2>3. Min({n}) = n
    BY DEF Min
  <2>. HIDE DEF I
  <2>. QED  BY <2>1, <2>2, <2>3
<1>4. RemoveFirst(s, e) = RemoveAt(s, n)
  BY <1>2, <1>3 DEF RemoveFirst
<1>. DEFINE l == SubSeq(s, 1, n - 1)
            r == SubSeq(s, n + 1, Len(s))
            t == RemoveAt(s, n)
<1>5. /\ l \in Seq(S) /\ Len(l) = n - 1
      /\ \A i \in 1..(n - 1) : l[i] = s[i]
  BY <1>1, SubSeqProperties
<1>6. /\ r \in Seq(S) /\ Len(r) = Len(s) - n
      /\ \A i \in 1..(Len(s) - n) : r[i] = s[i + n]
  <2>1. n + 1 \in Int /\ Len(s) \in Int /\ \A i \in (n + 1)..Len(s) : s[i] \in S
    BY <1>1
  <2>2. /\ r \in Seq(S)
        /\ Len(r) = IF n + 1 <= Len(s) THEN Len(s) - (n + 1) + 1 ELSE 0
        /\ \A i \in 1..(Len(s) - (n + 1) + 1) : r[i] = s[(n + 1) + i - 1]
    BY <2>1, SubSeqProperties
  <2>3. Len(s) - (n + 1) + 1 = Len(s) - n
    BY <1>1
  <2>4. \A i \in 1..(Len(s) - n) : (n + 1) + i - 1 = i + n
    BY <1>1
  <2>. HIDE DEF r
  <2>5. Len(r) = Len(s) - n
    <3>1. \A k \in Nat : \A m \in 1..k :
            (IF m + 1 <= k THEN k - (m + 1) + 1 ELSE 0) = k - m
      OBVIOUS
    <3>. QED  BY <1>1, <2>2, <3>1
  <2>6. ASSUME NEW i \in 1..(Len(s) - n) PROVE r[i] = s[i + n]
    BY <2>2, <2>3, <2>4
  <2>. QED  BY <2>2, <2>5, <2>6
<1>7. t = l \o r
  BY DEF RemoveAt
<1>. HIDE DEF l, r, t
<1>8. /\ t \in Seq(S) /\ Len(t) = Len(s) - 1
      /\ \A i \in 1..Len(t) : t[i] = IF i <= n - 1 THEN l[i] ELSE r[i - (n - 1)]
  <2>1. /\ t \in Seq(S) /\ Len(t) = Len(l) + Len(r)
        /\ \A i \in 1..(Len(l) + Len(r)) :
             t[i] = IF i <= Len(l) THEN l[i] ELSE r[i - Len(l)]
    BY <1>5, <1>6, <1>7, ConcatProperties
  <2>2. Len(l) = n - 1 /\ Len(l) + Len(r) = Len(s) - 1
    BY <1>1, <1>5, <1>6
  <2>. QED  BY <2>1, <2>2
<1>9. \A i \in 1..Len(t) : t[i] = IF i < n THEN s[i] ELSE s[i + 1]
  <2>. TAKE i \in 1..Len(t)
  <2>1. CASE i < n
    BY <1>1, <1>5, <1>8, <2>1
  <2>2. CASE i >= n
    <3>1. i - (n - 1) \in 1..(Len(s) - n) /\ (i - (n - 1)) + n = i + 1
      BY <1>1, <1>8, <2>2
    <3>. QED  BY <1>1, <1>6, <1>8, <2>2, <3>1
  <2>. QED  BY <1>1, <1>8, <2>1, <2>2
<1>10. Range(t) = Range(s) \ {s[n]} /\ IsInjective(t)
  BY <1>8, <1>9, LeaveQueue
<1>. QED  BY <1>2, <1>4, <1>8, <1>10 DEF t

-----------------------------------------------------------------------------
(* Where the requests are, and how many there are of them.                   *)

Stages == {"new", "body", "acquire", "wait", "scan", "release", "respond", "done"}
InFlight == {"body", "acquire", "wait", "scan", "release", "respond"}
FlyingOf(s) == {a \in InStage(InFlight) : SubjectOf[a] = s}

LEMMA FlightsByUser ==
  FlightsMatch <=>
    /\ inFlightTotal = Cardinality(InStage(InFlight))
    /\ inFlightTotal <= MaxInFlightGlobal
    /\ \A s \in Subjects : /\ inFlightByUser[s] = Cardinality(FlyingOf(s))
                           /\ inFlightByUser[s] <= MaxInFlightPerUser
  BY DEF FlightsMatch, FlyingOf, InFlight

LEMMA Finite ==
  /\ \A ss : IsFiniteSet(InStage(ss))
  /\ \A s : IsFiniteSet(FlyingOf(s))
<1>1. IsFiniteSet(Arrivals)
  BY GateConstants
<1>2. \A ss : InStage(ss) \in SUBSET Arrivals
  BY DEF InStage
<1>3. \A s : FlyingOf(s) \in SUBSET Arrivals
  BY DEF InStage, FlyingOf
<1>. QED  BY <1>1, <1>2, <1>3, FS_Subset

LEMMA Limits ==
  /\ MaxInFlightPerUser \in Nat \ {0} /\ MaxInFlightGlobal \in Nat \ {0}
  /\ ScanLimit \in Nat \ {0}
  BY GateConstants

LEMMA StageGoes ==
  ASSUME GateTypeOK, NEW a \in Arrivals, NEW s \in Stages, Goes(a, s)
  PROVE  /\ stage' \in [Arrivals -> Stages]
         /\ \A b \in Arrivals : stage'[b] = IF b = a THEN s ELSE stage[b]
  BY DEF GateTypeOK, Goes, Stages

\* A step between two stages of flight does not touch the limiter.
LEMMA FlightsKept ==
  ASSUME GateInv, UNCHANGED limiter,
         \A b \in Arrivals : stage'[b] = stage[b] \/ {stage[b], stage'[b]} \subseteq InFlight
  PROVE  FlightsMatch'
<1>1. InStage(InFlight)' = InStage(InFlight)
  BY DEF InStage
<1>2. \A s : FlyingOf(s)' = FlyingOf(s)
  BY <1>1 DEF FlyingOf
<1>. QED
  BY <1>1, <1>2, FlightsByUser DEF GateInv, GateMatches, FlightsMatch, limiter,
     InFlight, FlyingOf

\* A step that neither takes nor gives a slot, nor joins nor leaves the queue.
LEMMA SlotsKept ==
  ASSUME GateInv, UNCHANGED semaphore,
         \A b \in Arrivals :
           \/ stage'[b] = stage[b]
           \/ {stage[b], stage'[b]} \subseteq {"scan", "release"}
           \/ {stage[b], stage'[b]} \cap {"wait", "scan", "release"} = {}
  PROVE  SlotsMatch'
<1>1. InStage({"wait"})' = InStage({"wait"})
  BY DEF InStage
<1>2. InStage({"scan", "release"})' = InStage({"scan", "release"})
  BY DEF InStage
<1>. QED
  BY <1>1, <1>2 DEF GateInv, GateMatches, SlotsMatch, semaphore

-----------------------------------------------------------------------------
(* The steps.                                                                *)

LEMMA AdmitStep ==
  ASSUME GateInv, NEW a \in Arrivals, Admit(a)
  PROVE  GateInv'
<1>. DEFINE u == SubjectOf[a]
<1>1. u \in Subjects /\ u # Address
  BY GateConstants DEF Subjects
<1>2. stage[a] = "new" /\ Admissible(u)
  BY DEF Admit, At
<1>3. /\ stage' \in [Arrivals -> Stages]
      /\ \A b \in Arrivals : stage'[b] = IF b = a THEN "body" ELSE stage[b]
  BY StageGoes DEF Admit, GateInv, Stages
<1>4. SlotsMatch'
  BY <1>2, <1>3, SlotsKept DEF Admit
<1>5. GateTypeOK'
  <2>1. /\ window \in [Subjects \cup {Address} -> Nat]
        /\ inFlightByUser \in [Subjects -> Nat] /\ inFlightTotal \in Nat
        /\ active \in Nat /\ waiters \in Seq(Arrivals)
    BY DEF GateInv, GateTypeOK
  <2>2. /\ window' = [window EXCEPT ![u] = @ + 1, ![Address] = @ + 1]
        /\ inFlightByUser' = [inFlightByUser EXCEPT ![u] = @ + 1]
        /\ inFlightTotal' = inFlightTotal + 1
        /\ UNCHANGED <<active, waiters>>
    BY <1>1 DEF Admit, semaphore
  <2>. HIDE DEF u
  <2>3. /\ window' \in [Subjects \cup {Address} -> Nat]
        /\ inFlightByUser' \in [Subjects -> Nat] /\ inFlightTotal' \in Nat
    BY <1>1, <2>1, <2>2
  <2>. QED  BY <1>3, <2>1, <2>2, <2>3 DEF GateTypeOK, Stages
<1>6. InStage(InFlight)' = InStage(InFlight) \cup {a} /\ a \notin InStage(InFlight)
  BY <1>2, <1>3 DEF InStage, InFlight
<1>7. \A s : FlyingOf(s)' = IF s = u THEN FlyingOf(s) \cup {a} ELSE FlyingOf(s)
  BY <1>6 DEF FlyingOf
<1>8. a \notin FlyingOf(u)
  BY <1>6 DEF FlyingOf
<1>9. /\ Cardinality(InStage(InFlight)') = Cardinality(InStage(InFlight)) + 1
      /\ Cardinality(FlyingOf(u) \cup {a}) = Cardinality(FlyingOf(u)) + 1
  BY <1>6, <1>8, Finite, FS_AddElement
<1>10. /\ inFlightTotal' = inFlightTotal + 1
       /\ inFlightByUser' = [inFlightByUser EXCEPT ![u] = @ + 1]
       /\ inFlightTotal < MaxInFlightGlobal
       /\ inFlightByUser[u] < MaxInFlightPerUser
       /\ inFlightTotal \in Nat /\ inFlightByUser \in [Subjects -> Nat]
  BY <1>2 DEF Admit, Admissible, GateInv, GateTypeOK
<1>11. /\ inFlightTotal = Cardinality(InStage(InFlight))
       /\ \A s \in Subjects : /\ inFlightByUser[s] = Cardinality(FlyingOf(s))
                              /\ inFlightByUser[s] <= MaxInFlightPerUser
  BY FlightsByUser DEF GateInv, GateMatches
<1>. HIDE DEF u
<1>12. /\ inFlightTotal' = Cardinality(InStage(InFlight)')
       /\ inFlightTotal' <= MaxInFlightGlobal
  BY <1>9, <1>10, <1>11, Limits
<1>13. ASSUME NEW s \in Subjects
       PROVE  /\ inFlightByUser'[s] = Cardinality(FlyingOf(s)')
              /\ inFlightByUser'[s] <= MaxInFlightPerUser
  BY <1>1, <1>7, <1>9, <1>10, <1>11, <1>13, Limits
<1>14. FlightsMatch'
  BY <1>12, <1>13 DEF FlightsMatch, FlyingOf, InFlight
<1>. QED  BY <1>4, <1>5, <1>14 DEF GateInv, GateMatches

LEMMA RespondStep ==
  ASSUME GateInv, NEW a \in Arrivals, Respond(a)
  PROVE  GateInv'
<1>. DEFINE u == SubjectOf[a]
<1>1. u \in Subjects
  BY DEF Subjects
<1>2. stage[a] = "respond"
  BY DEF Respond, At
<1>3. /\ stage' \in [Arrivals -> Stages]
      /\ \A b \in Arrivals : stage'[b] = IF b = a THEN "done" ELSE stage[b]
  BY StageGoes DEF Respond, GateInv, Stages
<1>4. SlotsMatch'
  BY <1>2, <1>3, SlotsKept DEF Respond
<1>6. InStage(InFlight)' = InStage(InFlight) \ {a} /\ a \in InStage(InFlight)
  BY <1>2, <1>3 DEF InStage, InFlight
<1>7. \A s : FlyingOf(s)' = IF s = u THEN FlyingOf(s) \ {a} ELSE FlyingOf(s)
  BY <1>6 DEF FlyingOf
<1>8. a \in FlyingOf(u)
  BY <1>6 DEF FlyingOf
<1>9. /\ Cardinality(InStage(InFlight)') = Cardinality(InStage(InFlight)) - 1
      /\ Cardinality(FlyingOf(u) \ {a}) = Cardinality(FlyingOf(u)) - 1
  BY <1>6, <1>8, Finite, FS_RemoveElement
<1>10. Cardinality(InStage(InFlight)) # 0 /\ Cardinality(FlyingOf(u)) # 0
  BY <1>6, <1>8, Finite, FS_EmptySet
<1>11. /\ inFlightTotal = Cardinality(InStage(InFlight))
       /\ inFlightTotal <= MaxInFlightGlobal
       /\ \A s \in Subjects : /\ inFlightByUser[s] = Cardinality(FlyingOf(s))
                              /\ inFlightByUser[s] <= MaxInFlightPerUser
  BY FlightsByUser DEF GateInv, GateMatches
<1>12. inFlightTotal \in Nat /\ inFlightByUser \in [Subjects -> Nat]
  BY DEF GateInv, GateTypeOK
<1>13. /\ inFlightTotal' = inFlightTotal - 1
       /\ inFlightByUser' = [inFlightByUser EXCEPT ![u] = inFlightByUser[u] - 1]
  BY <1>1, <1>10, <1>11 DEF Respond
<1>. HIDE DEF u
<1>14. inFlightTotal' \in Nat /\ inFlightByUser' \in [Subjects -> Nat]
  BY <1>1, <1>10, <1>11, <1>12, <1>13
<1>5. UNCHANGED <<window, active, waiters>>
  BY DEF Respond, semaphore
<1>15. GateTypeOK'
  <2>1. /\ window' \in [Subjects \cup {Address} -> Nat]
        /\ active' \in Nat /\ waiters' \in Seq(Arrivals)
    BY <1>5 DEF GateInv, GateTypeOK
  <2>. QED  BY <1>3, <1>14, <2>1 DEF GateTypeOK, Stages
<1>16. /\ inFlightTotal' = Cardinality(InStage(InFlight)')
       /\ inFlightTotal' <= MaxInFlightGlobal
  BY <1>9, <1>11, <1>12, <1>13, Limits
<1>17. ASSUME NEW s \in Subjects
       PROVE  /\ inFlightByUser'[s] = Cardinality(FlyingOf(s)')
              /\ inFlightByUser'[s] <= MaxInFlightPerUser
  BY <1>1, <1>7, <1>9, <1>11, <1>12, <1>13, <1>17, Limits
<1>18. FlightsMatch'
  BY <1>16, <1>17 DEF FlightsMatch, FlyingOf, InFlight
<1>. QED  BY <1>4, <1>15, <1>18 DEF GateInv, GateMatches

LEMMA BodyEndsStep ==
  ASSUME GateInv, NEW a \in Arrivals, NEW accepted \in BOOLEAN, BodyEnds(a, accepted)
  PROVE  GateInv'
<1>. DEFINE s == IF accepted THEN "acquire" ELSE "respond"
<1>1. stage[a] = "body" /\ Goes(a, s) /\ s \in {"acquire", "respond"}
  BY DEF BodyEnds, At
<1>2. /\ stage' \in [Arrivals -> Stages]
      /\ \A b \in Arrivals : stage'[b] = IF b = a THEN s ELSE stage[b]
  BY <1>1, StageGoes DEF GateInv, Stages
<1>3. UNCHANGED limiter /\ UNCHANGED semaphore
  BY DEF BodyEnds
<1>. HIDE DEF s
<1>4. FlightsMatch' /\ SlotsMatch'
  BY <1>1, <1>2, <1>3, FlightsKept, SlotsKept DEF InFlight
<1>. QED
  BY <1>2, <1>3, <1>4 DEF GateInv, GateMatches, GateTypeOK, Stages, limiter, semaphore

LEMMA ScanEndsStep ==
  ASSUME GateInv, NEW a \in Arrivals, ScanEnds(a)
  PROVE  GateInv'
<1>1. stage[a] = "scan" /\ UNCHANGED limiter /\ UNCHANGED semaphore
  BY DEF ScanEnds, At
<1>2. /\ stage' \in [Arrivals -> Stages]
      /\ \A b \in Arrivals : stage'[b] = IF b = a THEN "release" ELSE stage[b]
  BY StageGoes DEF ScanEnds, GateInv, Stages
<1>3. FlightsMatch' /\ SlotsMatch'
  BY <1>1, <1>2, FlightsKept, SlotsKept DEF InFlight
<1>. QED
  BY <1>1, <1>2, <1>3 DEF GateInv, GateMatches, GateTypeOK, Stages, limiter, semaphore

LEMMA AcquireStep ==
  ASSUME GateInv, NEW a \in Arrivals, Acquire(a)
  PROVE  GateInv'
<1>1. stage[a] = "acquire" /\ UNCHANGED limiter
  BY DEF Acquire, At
<1>2. /\ SlotsMatch /\ active \in Nat /\ waiters \in Seq(Arrivals)
  BY DEF GateInv, GateMatches, GateTypeOK
<1>3. CASE active < ScanLimit /\ active' = active + 1 /\ Goes(a, "scan") /\ UNCHANGED waiters
  <2>1. /\ stage' \in [Arrivals -> Stages]
        /\ \A b \in Arrivals : stage'[b] = IF b = a THEN "scan" ELSE stage[b]
    BY <1>3, StageGoes DEF GateInv, Stages
  <2>2. FlightsMatch'
    BY <1>1, <2>1, FlightsKept DEF InFlight
  <2>3. /\ InStage({"scan", "release"})' = InStage({"scan", "release"}) \cup {a}
        /\ a \notin InStage({"scan", "release"})
        /\ InStage({"wait"})' = InStage({"wait"})
    BY <1>1, <2>1 DEF InStage
  <2>4. Cardinality(InStage({"scan", "release"})') = Cardinality(InStage({"scan", "release"})) + 1
    BY <2>3, Finite, FS_AddElement
  <2>5. SlotsMatch'
    BY <1>2, <1>3, <2>3, <2>4, Limits DEF SlotsMatch
  <2>. QED
    BY <1>1, <1>2, <1>3, <2>1, <2>2, <2>5 DEF GateInv, GateMatches, GateTypeOK, Stages, limiter
<1>4. CASE active >= ScanLimit /\ waiters' = Append(waiters, a) /\ Goes(a, "wait")
           /\ UNCHANGED active
  <2>1. /\ stage' \in [Arrivals -> Stages]
        /\ \A b \in Arrivals : stage'[b] = IF b = a THEN "wait" ELSE stage[b]
    BY <1>4, StageGoes DEF GateInv, Stages
  <2>2. FlightsMatch'
    BY <1>1, <2>1, FlightsKept DEF InFlight
  <2>3. /\ InStage({"scan", "release"})' = InStage({"scan", "release"})
        /\ InStage({"wait"})' = InStage({"wait"}) \cup {a}
        /\ a \notin InStage({"wait"})
    BY <1>1, <2>1 DEF InStage
  <2>4. /\ waiters' \in Seq(Arrivals) /\ IsInjective(waiters')
        /\ Range(waiters') = Range(waiters) \cup {a}
    BY <1>2, <1>4, <2>3, AppendQueue DEF SlotsMatch
  <2>5. active = ScanLimit
    BY <1>2, <1>4, Limits DEF SlotsMatch
  <2>6. SlotsMatch'
    BY <1>2, <1>4, <2>3, <2>4, <2>5 DEF SlotsMatch
  <2>. QED
    BY <1>1, <1>2, <1>4, <2>1, <2>2, <2>4, <2>6
       DEF GateInv, GateMatches, GateTypeOK, Stages, limiter
<1>. QED  BY <1>3, <1>4 DEF Acquire

LEMMA QueueTimeoutStep ==
  ASSUME GateInv, NEW a \in Arrivals, QueueTimeout(a)
  PROVE  GateInv'
<1>1. /\ stage[a] = "wait" /\ UNCHANGED limiter /\ UNCHANGED active
      /\ waiters' = RemoveFirst(waiters, a)
  BY DEF QueueTimeout, At
<1>2. /\ SlotsMatch /\ active \in Nat /\ waiters \in Seq(Arrivals)
  BY DEF GateInv, GateMatches, GateTypeOK
<1>3. /\ stage' \in [Arrivals -> Stages]
      /\ \A b \in Arrivals : stage'[b] = IF b = a THEN "respond" ELSE stage[b]
  BY StageGoes DEF QueueTimeout, GateInv, Stages
<1>4. FlightsMatch'
  BY <1>1, <1>3, FlightsKept DEF InFlight
<1>5. /\ InStage({"scan", "release"})' = InStage({"scan", "release"})
      /\ InStage({"wait"})' = InStage({"wait"}) \ {a}
      /\ a \in InStage({"wait"})
  BY <1>1, <1>3 DEF InStage
<1>6. a \in Range(waiters) /\ waiters # <<>>
  BY <1>2, <1>5 DEF SlotsMatch, Range
<1>7. /\ waiters' \in Seq(Arrivals) /\ IsInjective(waiters')
      /\ Range(waiters') = Range(waiters) \ {a}
  BY <1>1, <1>2, <1>6, RemoveQueue DEF SlotsMatch
<1>8. SlotsMatch'
  BY <1>1, <1>2, <1>5, <1>6, <1>7 DEF SlotsMatch
<1>. QED
  BY <1>1, <1>2, <1>3, <1>4, <1>7, <1>8 DEF GateInv, GateMatches, GateTypeOK, Stages, limiter

LEMMA ReleaseStep ==
  ASSUME GateInv, NEW a \in Arrivals, Release(a)
  PROVE  GateInv'
<1>1. stage[a] = "release" /\ UNCHANGED limiter
  BY DEF Release, At
<1>2. /\ SlotsMatch /\ active \in Nat /\ waiters \in Seq(Arrivals)
      /\ stage \in [Arrivals -> Stages]
  BY DEF GateInv, GateMatches, GateTypeOK, Stages
<1>3. /\ a \in InStage({"scan", "release"})
      /\ Cardinality(InStage({"scan", "release"}) \ {a})
           = Cardinality(InStage({"scan", "release"})) - 1
      /\ Cardinality(InStage({"scan", "release"})) # 0
  <2>1. a \in InStage({"scan", "release"})
    BY <1>1 DEF InStage
  <2>. QED  BY <2>1, Finite, FS_RemoveElement, FS_EmptySet
<1>4. CASE waiters = <<>>
  <2>1. /\ active' = active - 1 /\ UNCHANGED waiters
        /\ stage' \in [Arrivals -> Stages]
        /\ \A b \in Arrivals : stage'[b] = IF b = a THEN "respond" ELSE stage[b]
    BY <1>4, StageGoes DEF Release, GateInv, Stages
  <2>2. FlightsMatch'
    BY <1>1, <2>1, FlightsKept DEF InFlight
  <2>3. /\ InStage({"scan", "release"})' = InStage({"scan", "release"}) \ {a}
        /\ InStage({"wait"})' = InStage({"wait"})
    BY <1>1, <2>1 DEF InStage
  <2>4. active = Cardinality(InStage({"scan", "release"})) /\ active <= ScanLimit
    BY <1>2 DEF SlotsMatch
  <2>5. /\ active' \in Nat /\ active' <= ScanLimit
        /\ active' = Cardinality(InStage({"scan", "release"}) \ {a})
    BY <1>2, <1>3, <2>1, <2>4, Limits
  <2>6. SlotsMatch'
    BY <1>2, <1>4, <2>1, <2>3, <2>5 DEF SlotsMatch
  <2>. QED
    BY <1>1, <1>2, <2>1, <2>2, <2>5, <2>6 DEF GateInv, GateMatches, GateTypeOK, Stages, limiter
<1>5. CASE waiters # <<>>
  <2>. DEFINE h == Head(waiters)
  <2>1. /\ Tail(waiters) \in Seq(Arrivals) /\ h \in Arrivals /\ h \in Range(waiters)
        /\ Range(Tail(waiters)) = Range(waiters) \ {h} /\ IsInjective(Tail(waiters))
    BY <1>2, <1>5, TailQueue DEF SlotsMatch
  <2>2. stage[h] = "wait"
    BY <1>2, <2>1 DEF SlotsMatch, InStage
  <2>3. /\ waiters' = Tail(waiters)
        /\ stage' = [stage EXCEPT ![a] = "respond", ![h] = "scan"]
        /\ active' = active
    BY <1>2, <1>5 DEF Release
  <2>. HIDE DEF h
  <2>4. a # h
    BY <1>1, <2>2
  <2>5. /\ stage' \in [Arrivals -> Stages]
        /\ \A b \in Arrivals :
             stage'[b] = IF b = a THEN "respond" ELSE IF b = h THEN "scan" ELSE stage[b]
    BY <1>2, <2>1, <2>3, <2>4 DEF Stages
  <2>6. FlightsMatch'
    BY <1>1, <2>2, <2>5, FlightsKept DEF InFlight
  <2>7. /\ InStage({"scan", "release"})' = (InStage({"scan", "release"}) \ {a}) \cup {h}
        /\ h \notin InStage({"scan", "release"}) \ {a}
        /\ InStage({"wait"})' = InStage({"wait"}) \ {h}
    BY <1>1, <2>1, <2>2, <2>5 DEF InStage
  <2>8. IsFiniteSet(InStage({"scan", "release"}) \ {a})
    BY Finite, FS_RemoveElement
  <2>9. Cardinality(InStage({"scan", "release"})') = Cardinality(InStage({"scan", "release"}))
    <3>1. Cardinality(InStage({"scan", "release"})')
            = Cardinality(InStage({"scan", "release"}) \ {a}) + 1
      BY <2>7, <2>8, FS_AddElement
    <3>2. Cardinality(InStage({"scan", "release"})) \in Nat
      BY <1>2 DEF SlotsMatch
    <3>. QED  BY <1>3, <3>1, <3>2
  <2>10. SlotsMatch'
    BY <1>2, <1>5, <2>1, <2>3, <2>7, <2>9 DEF SlotsMatch
  <2>. QED
    BY <1>1, <1>2, <2>1, <2>3, <2>5, <2>6, <2>10
       DEF GateInv, GateMatches, GateTypeOK, Stages, limiter
<1>. QED  BY <1>4, <1>5

LEMMA StillStep ==
  ASSUME GateInv, UNCHANGED <<stage, inFlightByUser, inFlightTotal, active, waiters>>,
         window' \in [Subjects \cup {Address} -> Nat]
  PROVE  GateInv'
  BY DEF GateInv, GateTypeOK, GateMatches, SlotsMatch, FlightsMatch, InStage

LEMMA GateInitInv == GateInit => GateInv
<1>. SUFFICES ASSUME GateInit PROVE GateInv
  OBVIOUS
<1>1. \A ss : "new" \notin ss => InStage(ss) = {}
  BY DEF GateInit, InStage
<1>2. FlightsMatch
  <2>1. InStage(InFlight) = {} /\ \A s : FlyingOf(s) = {}
    BY <1>1 DEF InFlight, FlyingOf
  <2>2. Cardinality({}) = 0
    BY FS_EmptySet
  <2>3. inFlightTotal = 0 /\ \A s \in Subjects : inFlightByUser[s] = 0
    BY DEF GateInit
  <2>4. 0 <= MaxInFlightGlobal /\ 0 <= MaxInFlightPerUser
    BY Limits
  <2>. QED  BY <2>1, <2>2, <2>3, <2>4, FlightsByUser
<1>3. SlotsMatch
  <2>1. InStage({"scan", "release"}) = {} /\ InStage({"wait"}) = {}
    BY <1>1
  <2>2. waiters = <<>> /\ Range(waiters) = {} /\ IsInjective(waiters)
    BY DEF GateInit, Range, IsInjective
  <2>3. Cardinality({}) = 0
    BY FS_EmptySet
  <2>4. active = 0 /\ 0 <= ScanLimit
    BY Limits DEF GateInit
  <2>. QED  BY <2>1, <2>2, <2>3, <2>4 DEF SlotsMatch
<1>4. GateTypeOK
  BY DEF GateInit, GateTypeOK
<1>. QED  BY <1>2, <1>3, <1>4 DEF GateInv, GateMatches

LEMMA GateStepInv == GateInv /\ [GateNext]_gateVars => GateInv'
<1>. SUFFICES ASSUME GateInv, [GateNext]_gateVars PROVE GateInv'
  OBVIOUS
<1>1. window \in [Subjects \cup {Address} -> Nat]
  BY DEF GateInv, GateTypeOK
<1>2. CASE UNCHANGED gateVars
  BY <1>1, <1>2, StillStep DEF gateVars
<1>3. ASSUME NEW k \in Subjects \cup {Address}, EntryExpires(k)
      PROVE  GateInv'
  <2>1. window' \in [Subjects \cup {Address} -> Nat]
    BY <1>1, <1>3 DEF EntryExpires
  <2>. QED  BY <1>3, <2>1, StillStep DEF EntryExpires, semaphore
<1>4. ASSUME NEW a \in Arrivals, Deny(a) PROVE GateInv'
  BY <1>1, <1>4, StillStep DEF Deny, gateVars
<1>. QED
  BY <1>2, <1>3, <1>4, AdmitStep, RespondStep, BodyEndsStep, AcquireStep,
     QueueTimeoutStep, ScanEndsStep, ReleaseStep DEF GateNext

-----------------------------------------------------------------------------
(* The theorems                                                              *)

\* What the limiter and the semaphore count is their whole inductive invariant.
THEOREM GateInvariant == GateSpec => []GateInv
  BY GateInitInv, GateStepInv, PTL DEF GateSpec

\* Every counter and every stage keeps its type: none ever falls below zero.
THEOREM GateTypeCorrect == GateSpec => []GateTypeOK
<1>1. GateInv => GateTypeOK
  BY DEF GateInv
<1>. QED  BY <1>1, GateInvariant, PTL

\* The semaphore of the scanner and the limiter of uploads count exactly the
\* requests they hold, whatever order admissions, refusals, timers, grants and
\* releases come in (UploadRateLimiter, createSemaphore).
THEOREM GateNeverDrifts == GateSpec => []GateMatches
<1>1. GateInv => GateMatches
  BY DEF GateInv
<1>. QED  BY <1>1, GateInvariant, PTL

-----------------------------------------------------------------------------
(* The maintenance job.                                                      *)

\* What a worker keeps for its next steps: it has an order while it goes through
\* the queues, and a page while it works on a row.
WorkerInv(p) ==
  /\ worker[p] \in Worker
  /\ worker[p].step \in {"turn", "rows", "busy"} => worker[p].order # <<>>
  /\ worker[p].step = "busy" => worker[p].page # <<>>

\* Whoever has the lock, or reports, was not overtaken since it began.
JobInv ==
  /\ JobTypeOK
  /\ \A p \in Parents : WorkerInv(p)
  /\ \A p \in Parents : lockHolder = p \/ parent[p] = "reports" => p \notin overtaken

-----------------------------------------------------------------------------
LEMMA NoWorkerIsOne == NoWorker \in Worker /\ NoWorker.step = "none"
  BY DEF NoWorker, Worker

LEMMA NewWorker ==
  ASSUME NEW s \in Alive \cup {"none", "sent", "failed"}
  PROVE  /\ [NoWorker EXCEPT !.step = s] \in Worker
         /\ [NoWorker EXCEPT !.step = s].step = s
<1>1. NoWorker \in Worker
  BY NoWorkerIsOne
<1>. QED  BY <1>1 DEF Worker

LEMMA RotatedType ==
  ASSUME NEW start \in Queues
  PROVE  Rotated(start) \in Seq(Queues) /\ Rotated(start) # <<>>
<1>1. QueueCount \in Nat \ {0}
  BY JobConstants
<1>2. \A n \in 1..QueueCount : ((start + n - 2) % QueueCount) + 1 \in Queues
  BY <1>1 DEF Queues
<1>3. Rotated(start) \in [1..QueueCount -> Queues]
  BY <1>2 DEF Rotated
<1>4. Rotated(start) \in Seq(Queues) /\ Len(Rotated(start)) = QueueCount
  BY <1>1, <1>3
<1>. QED  BY <1>1, <1>4

LEMMA AfterType ==
  ASSUME NEW q \in Queues, NEW c \in Nat
  PROVE  After(q, c) \in Seq(Nat)
<1>. DEFINE rest == RowCount[q] - (IF c = RowCount[q] THEN 0 ELSE c)
            from == RowCount[q] - rest
            size == IF rest < PageSize THEN rest ELSE PageSize
<1>1. RowCount[q] \in Nat /\ PageSize \in Nat
  BY JobConstants DEF Queues
<1>2. rest \in Int /\ from \in Nat
  BY <1>1
<1>. HIDE DEF rest, from
<1>3. size \in Int
  BY <1>1, <1>2
<1>4. After(q, c) = [n \in 1..size |-> from + n]
  BY DEF After, rest, from
<1>. HIDE DEF size
<1>5. CASE size >= 0
  BY <1>2, <1>3, <1>4, <1>5
<1>6. CASE size < 0
  <2>1. 1..size = {}
    BY <1>3, <1>6
  <2>2. After(q, c) = [n \in {} |-> from + n]
    BY <1>4, <2>1
  <2>3. [n \in {} |-> from + n] = <<>>
    OBVIOUS
  <2>. QED  BY <2>2, <2>3
<1>. QED  BY <1>3, <1>5, <1>6

LEMMA JobInitInv == JobInit => JobInv
<1>1. 1 \in Queues /\ MaxLosses \in Nat
  BY JobConstants DEF Queues
<1>. QED
  BY <1>1, NoWorkerIsOne, JobConstants DEF JobInit, JobInv, JobTypeOK, WorkerInv

\* A step of one worker keeps the types of all.
LEMMA WorkerStep ==
  ASSUME JobInv, NEW p \in Parents, NEW w \in Worker,
         worker' = [worker EXCEPT ![p] = w],
         w.step \in {"turn", "rows", "busy"} => w.order # <<>>,
         w.step = "busy" => w.page # <<>>
  PROVE  worker' \in [Parents -> Worker] /\ \A o \in Parents : WorkerInv(o)'
<1>1. worker \in [Parents -> Worker]
  BY DEF JobInv, JobTypeOK
<1>2. \A o \in Parents : worker'[o] = IF o = p THEN w ELSE worker[o]
  BY <1>1
<1>3. worker' \in [Parents -> Worker]
  BY <1>1
<1>4. ASSUME NEW o \in Parents PROVE WorkerInv(o)'
  BY <1>2, <1>4 DEF JobInv, WorkerInv
<1>. QED  BY <1>3, <1>4

LEMMA WorkerKept ==
  ASSUME JobInv, UNCHANGED worker
  PROVE  worker' \in [Parents -> Worker] /\ \A o \in Parents : WorkerInv(o)'
  BY DEF JobInv, JobTypeOK, WorkerInv

\* A step of a worker, which knows nothing of the lock.
LEMMA WorksKeeps ==
  ASSUME JobInv, UNCHANGED processes, turn' \in Queues, cursor' \in [Queues -> Nat],
         worker' \in [Parents -> Worker], \A o \in Parents : WorkerInv(o)'
  PROVE  JobInv'
  BY DEF JobInv, JobTypeOK, processes

LEMMA WorksStep ==
  ASSUME JobInv, NEW p \in Parents, Works(p)
  PROVE  JobInv'
<1>. DEFINE w == worker[p]
<1>1. w \in Worker /\ turn \in Queues /\ cursor \in [Queues -> Nat]
  BY DEF JobInv, JobTypeOK
<1>2. /\ w.step \in {"turn", "rows", "busy"} => w.order # <<>>
      /\ w.step = "busy" => w.page # <<>>
  BY DEF JobInv, WorkerInv
<1>3. w.order \in Seq(Queues) /\ w.page \in Seq(Nat)
  BY <1>1 DEF Worker
<1>4. worker \in [Parents -> Worker]
  BY DEF JobInv, JobTypeOK
<1>5. CASE ReadOrder(p)
  <2>. DEFINE v == [w EXCEPT !.step = "turn", !.order = Rotated(turn)]
  <2>1. Rotated(turn) \in Seq(Queues) /\ Rotated(turn) # <<>>
    BY <1>1, RotatedType
  <2>2. v \in Worker /\ v.step = "turn" /\ v.order = Rotated(turn)
    BY <1>1, <2>1 DEF Worker, Alive
  <2>3. worker' = [worker EXCEPT ![p] = v]
    BY <1>4, <1>5 DEF ReadOrder
  <2>. QED
    BY <1>1, <1>5, <2>1, <2>2, <2>3, WorkerStep, WorksKeeps DEF ReadOrder
<1>6. CASE StoreOrder(p)
  <2>. DEFINE v == [w EXCEPT !.step = "queue"]
  <2>1. Head(w.order) \in Queues
    BY <1>2, <1>3, <1>6 DEF StoreOrder
  <2>2. turn' \in Queues
    BY <2>1, <1>6, JobConstants DEF StoreOrder, Queues
  <2>3. v \in Worker /\ v.step = "queue"
    BY <1>1 DEF Worker, Alive
  <2>4. worker' = [worker EXCEPT ![p] = v]
    BY <1>4, <1>6 DEF StoreOrder
  <2>. QED
    BY <1>1, <1>6, <2>2, <2>3, <2>4, WorkerStep, WorksKeeps DEF StoreOrder
<1>7. CASE ReadPage(p)
  <2>. DEFINE q == Head(w.order)
              v == [w EXCEPT !.step = "rows", !.began = FALSE,
                             !.page = After(q, cursor[q])]
  <2>1. w.order # <<>> /\ q \in Queues
    BY <1>3, <1>7 DEF ReadPage
  <2>2. After(q, cursor[q]) \in Seq(Nat)
    BY <1>1, <2>1, AfterType
  <2>3. v \in Worker /\ v.step = "rows" /\ v.order = w.order
    BY <1>1, <2>2 DEF Worker, Alive
  <2>4. worker' = [worker EXCEPT ![p] = v]
    BY <1>4, <1>7 DEF ReadPage
  <2>. QED
    BY <1>1, <1>7, <2>1, <2>3, <2>4, WorkerStep, WorksKeeps DEF ReadPage
<1>8. CASE EndQueue(p)
  <2>. DEFINE rest == Tail(w.order)
              none == <<>>
              v == [w EXCEPT !.step = "queue", !.page = none, !.order = rest]
  <2>1. rest \in Seq(Queues) /\ none \in Seq(Nat)
    BY <1>2, <1>3, <1>8 DEF EndQueue
  <2>. HIDE DEF rest, none
  <2>2. v \in Worker /\ v.step = "queue"
    BY <1>1, <2>1 DEF Worker, Alive
  <2>3. worker' = [worker EXCEPT ![p] = v]
    BY <1>4, <1>8 DEF EndQueue, rest, none
  <2>. QED
    BY <1>1, <1>8, <2>2, <2>3, WorkerStep, WorksKeeps DEF EndQueue
<1>9. CASE Advance(p)
  <2>. DEFINE v == [w EXCEPT !.step = "busy", !.began = TRUE]
  <2>1. Head(w.order) \in Queues /\ Head(w.page) \in Nat
    BY <1>2, <1>3, <1>9 DEF Advance
  <2>2. cursor' \in [Queues -> Nat]
    BY <1>1, <1>9, <2>1 DEF Advance
  <2>3. v \in Worker /\ v.step = "busy" /\ v.order = w.order /\ v.page = w.page
    BY <1>1 DEF Worker, Alive
  <2>4. worker' = [worker EXCEPT ![p] = v]
    BY <1>4, <1>9 DEF Advance
  <2>5. w.order # <<>> /\ w.page # <<>>
    BY <1>2, <1>9 DEF Advance
  <2>. QED
    BY <1>1, <1>9, <2>2, <2>3, <2>4, <2>5, WorkerStep, WorksKeeps DEF Advance
<1>10. CASE RowDone(p)
  <2>. DEFINE v == [w EXCEPT !.step = "rows", !.page = Tail(@)]
  <2>1. Tail(w.page) \in Seq(Nat)
    BY <1>2, <1>3, <1>10 DEF RowDone
  <2>2. v \in Worker /\ v.step = "rows" /\ v.order = w.order
    BY <1>1, <2>1 DEF Worker, Alive
  <2>3. worker' = [worker EXCEPT ![p] = v]
    BY <1>4, <1>10 DEF RowDone
  <2>. QED
    BY <1>1, <1>2, <1>10, <2>2, <2>3, WorkerStep, WorksKeeps DEF RowDone
<1>11. CASE EndWork(p)
  <2>. DEFINE v == [w EXCEPT !.step = "report"]
  <2>1. v \in Worker /\ v.step = "report"
    BY <1>1 DEF Worker, Alive
  <2>2. worker' = [worker EXCEPT ![p] = v]
    BY <1>4, <1>11 DEF EndWork
  <2>. QED
    BY <1>1, <1>11, <2>1, <2>2, WorkerStep, WorksKeeps DEF EndWork
<1>12. CASE Send(p)
  <2>1. PICK s \in {"sent", "failed"} :
          worker' = [worker EXCEPT ![p] = [NoWorker EXCEPT !.step = s]]
    BY <1>12 DEF Send
  <2>. QED
    BY <1>1, <1>12, <2>1, NewWorker, WorkerStep, WorksKeeps DEF Send
<1>. QED
  BY <1>5, <1>6, <1>7, <1>8, <1>9, <1>10, <1>11, <1>12 DEF Works

\* A worker that stops, and the lock that goes with its parent's transaction.
LEMMA StopStep ==
  ASSUME JobInv, NEW p \in Parents, NEW s \in {"none", "sent", "failed"},
         worker' = [worker EXCEPT ![p] = IF s = "none" THEN NoWorker
                                         ELSE [NoWorker EXCEPT !.step = s]]
  PROVE  worker' \in [Parents -> Worker] /\ \A o \in Parents : WorkerInv(o)'
<1>1. CASE s = "none"
  BY <1>1, NoWorkerIsOne, WorkerStep
<1>2. CASE s # "none"
  BY <1>2, NewWorker, WorkerStep
<1>. QED  BY <1>1, <1>2

\* The steps of a parent and of its losses: they only give the lock up, and
\* nobody is overtaken by them.
LEMMA ParentKeeps ==
  ASSUME JobInv,
         lockHolder' \in {lockHolder, NoParent},
         parent' \in [Parents -> {"idle", "awaits", "commits", "reports", "dead"}],
         \A p \in Parents : parent'[p] = "reports" =>
                              parent[p] = "reports" \/ lockHolder = p,
         outcome' \in [Parents -> BOOLEAN],
         losses' \in 0..MaxLosses,
         worker' \in [Parents -> Worker], \A o \in Parents : WorkerInv(o)',
         UNCHANGED <<turn, cursor, overtaken>>
  PROVE  JobInv'
<1>1. \A p \in Parents : p # NoParent
  BY JobConstants
<1>. QED  BY <1>1 DEF JobInv, JobTypeOK

LEMMA StartStep ==
  ASSUME JobInv, NEW p \in Parents, StartJob(p)
  PROVE  JobInv'
<1>1. worker' \in [Parents -> Worker] /\ \A o \in Parents : WorkerInv(o)'
  <2>1. worker' = [worker EXCEPT ![p] = [NoWorker EXCEPT !.step = "order"]]
    BY DEF StartJob
  <2>. QED  BY <2>1, NewWorker, WorkerStep DEF Alive
<1>2. \A o \in Parents : parent'[o] = IF o = p THEN "awaits" ELSE parent[o]
  BY DEF StartJob, JobInv, JobTypeOK
<1>3. /\ lockHolder' \in Parents \cup {NoParent}
      /\ parent' \in [Parents -> {"idle", "awaits", "commits", "reports", "dead"}]
      /\ outcome' \in [Parents -> BOOLEAN]
      /\ overtaken' \subseteq Parents
      /\ UNCHANGED <<turn, cursor, losses>>
  BY DEF StartJob, JobInv, JobTypeOK
<1>4. ASSUME NEW o \in Parents, lockHolder' = o \/ parent'[o] = "reports"
      PROVE  o \notin overtaken'
  <2>1. CASE o = p
    BY <2>1 DEF StartJob
  <2>2. CASE o # p
    <3>1. parent[o] = "reports"
      BY <1>2, <1>4, <2>2 DEF StartJob
    <3>. QED  BY <3>1 DEF StartJob, JobInv
  <2>. QED  BY <2>1, <2>2
<1>. QED  BY <1>1, <1>3, <1>4 DEF JobInv, JobTypeOK

LEMMA ParentStep ==
  ASSUME JobInv, NEW p \in Parents,
         \/ LoseLock(p) \/ GiveUp(p) \/ GiveUpOnStall(p) \/ HearOutcome(p)
         \/ HearExit(p) \/ JobCommits(p) \/ JobFails(p) \/ RecordCompletion(p)
         \/ ParentDies(p) \/ Disconnect(p) \/ PoisonKills(p) \/ WorkThrows(p)
  PROVE  JobInv'
<1>. USE DEF JobInv, JobTypeOK
<1>1. losses < MaxLosses => losses + 1 \in 0..MaxLosses
  BY JobConstants
<1>2. ASSUME worker' = [worker EXCEPT ![p] = NoWorker]
      PROVE  worker' \in [Parents -> Worker] /\ \A o \in Parents : WorkerInv(o)'
  BY <1>2, NoWorkerIsOne, WorkerStep
<1>3. ASSUME Throws(p)
      PROVE  worker' \in [Parents -> Worker] /\ \A o \in Parents : WorkerInv(o)'
  BY <1>3, NewWorker, WorkerStep DEF Throws
<1>4. CASE LoseLock(p)
  BY <1>1, <1>4, WorkerKept, ParentKeeps DEF LoseLock
<1>5. CASE GiveUp(p) \/ GiveUpOnStall(p)
  <2>1. losses' \in 0..MaxLosses
    BY <1>1, <1>5 DEF GiveUp, GiveUpOnStall
  <2>2. Kills(p)
    BY <1>5 DEF GiveUp, GiveUpOnStall
  <2>. QED  BY <1>2, <2>1, <2>2, ParentKeeps DEF Kills
<1>6. CASE HearOutcome(p)
  BY <1>6, WorkerKept, ParentKeeps DEF HearOutcome
<1>7. CASE HearExit(p)
  BY <1>2, <1>7, ParentKeeps DEF HearExit
<1>8. CASE JobCommits(p)
  BY <1>8, WorkerKept, ParentKeeps DEF JobCommits
<1>9. CASE JobFails(p) \/ RecordCompletion(p)
  BY <1>9, WorkerKept, ParentKeeps DEF JobFails, RecordCompletion
<1>10. CASE ParentDies(p)
  BY <1>1, <1>10, WorkerKept, ParentKeeps DEF ParentDies
<1>11. CASE Disconnect(p)
  BY <1>2, <1>11, ParentKeeps DEF Disconnect
<1>12. CASE PoisonKills(p)
  BY <1>3, <1>12, WorksKeeps DEF PoisonKills
<1>13. CASE WorkThrows(p)
  BY <1>1, <1>3, <1>13, ParentKeeps DEF WorkThrows
<1>. QED
  BY <1>4, <1>5, <1>6, <1>7, <1>8, <1>9, <1>10, <1>11, <1>12, <1>13

LEMMA JobStepInv == JobInv /\ [JobNext]_jobVars => JobInv'
<1>1. CASE UNCHANGED jobVars
  BY <1>1 DEF jobVars, JobInv, JobTypeOK, WorkerInv
<1>. QED  BY <1>1, StartStep, ParentStep, WorksStep DEF JobNext

-----------------------------------------------------------------------------
(* The theorems                                                             *)

\* Types, the pages and orders that workers keep, and whose lock is whose: the
\* inductive invariant of a maintenance job and its worker.
THEOREM JobInvariant == JobSpec => []JobInv
  BY JobInitInv, JobStepInv, PTL DEF JobSpec

\* Every variable of a maintenance job keeps its type.
THEOREM JobTypeCorrect == JobSpec => []JobTypeOK
<1>1. JobInv => JobTypeOK
  BY DEF JobInv
<1>. QED  BY <1>1, JobInvariant, PTL

\* A completion is recorded only for a run beside which no other run of the job
\* began, whatever is lost and killed (runFileMaintenanceJob).
THEOREM JobReportsTruly == JobSpec => []ReportIsTrue
<1>1. JobInv => ReportIsTrue
  BY DEF JobInv, ReportIsTrue
<1>. QED  BY <1>1, JobInvariant, PTL

-----------------------------------------------------------------------------
(* The scan.                                                                 *)

\* The daemon judges when it has read everything, what has arrived is a part of
\* its answer that is short enough to be listened to, and a socket that is still
\* written to has pieces left.
ScanInv ==
  /\ ScanTypeOK
  /\ answer \in Answers => received = Pieces
  /\ Len(reply) \in Nat /\ (Listening => Len(reply) <= MaxReply)
  /\ exchange = "none" => reply = <<>>
  /\ exchange \in {"none", "connecting", "writing"} => written < Pieces
  /\ VerdictIsHeard

Words == {"stream:", "name", "OK", "FOUND", "limit exceeded", "ERROR", "NUL"}

LEMMA ShortTexts ==
  ASSUME NEW S, NEW p \in S, NEW q \in S, NEW r \in S, NEW s \in S
  PROVE  <<p, q, r>> \in Seq(S) /\ <<p, q, r, s>> \in Seq(S)
  OBVIOUS

LEMMA LongText ==
  ASSUME NEW S, NEW p \in S, NEW q \in S, NEW r \in S, NEW s \in S,
         NEW t \in S, NEW u \in S, NEW v \in S
  PROVE  <<p, q, r, s, t, u, v>> \in Seq(S)
  OBVIOUS

LEMMA AnswerTexts ==
  ASSUME NEW a \in Answers \cup {Refusal, Babble, <<>>}
  PROVE  /\ a \in Seq(Words)
         /\ \/ a = <<"stream:", "OK", "NUL">> /\ Len(a) = 3
               /\ a[1] = "stream:" /\ a[2] = "OK" /\ a[3] = "NUL"
            \/ a = <<"stream:", "name", "FOUND", "NUL">> /\ Len(a) = 4
               /\ a[1] = "stream:" /\ a[2] = "name" /\ a[3] = "FOUND" /\ a[4] = "NUL"
            \/ Len(a) = 3 /\ a[1] = "limit exceeded" /\ a[2] = "ERROR" /\ a[3] = "NUL"
            \/ /\ Len(a) = 7 /\ a[1] = "stream:"
               /\ a[2] = "name" /\ a[3] = "name" /\ a[4] = "name" /\ a[5] = "name"
            \/ Len(a) = 0
<1>1. \/ a = <<"stream:", "OK", "NUL">> \/ a = <<"stream:", "name", "FOUND", "NUL">>
      \/ a = Refusal \/ a = Babble \/ a = <<>>
  BY Zenon DEF Answers
<1>a. /\ "stream:" \in Words /\ "name" \in Words /\ "OK" \in Words /\ "FOUND" \in Words
      /\ "limit exceeded" \in Words /\ "ERROR" \in Words /\ "NUL" \in Words
  BY DEF Words
<1>2. CASE a = <<"stream:", "OK", "NUL">>
  <2>1. a \in Seq(Words)
    BY <1>2, <1>a, ShortTexts, Zenon
  <2>. QED  BY <1>2, <2>1
<1>3. CASE a = <<"stream:", "name", "FOUND", "NUL">>
  <2>1. a \in Seq(Words)
    BY <1>3, <1>a, ShortTexts, Zenon
  <2>. QED  BY <1>3, <2>1
<1>4. CASE a = Refusal
  <2>1. a \in Seq(Words)
    BY <1>4, <1>a, ShortTexts, Zenon DEF Refusal
  <2>. QED  BY <1>4, <2>1 DEF Refusal
<1>5. CASE a = Babble
  <2>1. a \in Seq(Words)
    BY <1>5, <1>a, LongText, Zenon DEF Babble
  <2>. QED  BY <1>5, <2>1 DEF Babble
<1>6. CASE a = <<>>
  BY <1>6
<1>. QED  BY <1>1, <1>2, <1>3, <1>4, <1>5, <1>6

\* The end of the first n parts, and of the first n without one NUL.
LEMMA EndingOfPart ==
  ASSUME NEW a \in Seq(Words), NEW n \in 1..Len(a)
  PROVE  /\ Ending(SubSeq(a, 1, n)) = a[n]
         /\ Ending(Unended(SubSeq(a, 1, n))) =
              IF a[n] # "NUL" THEN a[n]
              ELSE IF n = 1 THEN "nothing" ELSE a[n - 1]
<1>. DEFINE text == SubSeq(a, 1, n)
<1>1. /\ text \in Seq(Words) /\ Len(text) = n /\ text # <<>>
      /\ \A i \in 1..n : text[i] = a[i]
  BY SubSeqProperties
<1>. HIDE DEF text
<1>2. Ending(text) = a[n]
  BY <1>1 DEF Ending
<1>3. CASE a[n] # "NUL"
  BY <1>2, <1>3 DEF Unended, text
<1>4. CASE a[n] = "NUL" /\ n = 1
  <2>1. Unended(text) = SubSeq(text, 1, 0)
    BY <1>1, <1>2, <1>4 DEF Unended
  <2>2. SubSeq(text, 1, 0) = <<>>
    BY <1>1
  <2>. QED  BY <1>2, <1>4, <2>1, <2>2 DEF Ending, text
<1>5. CASE a[n] = "NUL" /\ n # 1
  <2>. DEFINE rest == SubSeq(text, 1, n - 1)
  <2>1. Unended(text) = rest
    BY <1>1, <1>2, <1>5 DEF Unended
  <2>2. rest # <<>> /\ Len(rest) = n - 1 /\ rest[n - 1] = text[n - 1]
    BY <1>1, <1>5, SubSeqProperties
  <2>. HIDE DEF rest
  <2>3. Ending(rest) = a[n - 1]
    BY <1>1, <1>5, <2>2 DEF Ending
  <2>. QED  BY <1>2, <1>5, <2>1, <2>3 DEF text
<1>. QED  BY <1>3, <1>4, <1>5

\* A part of an answer that is listened to says clean or found only if the
\* answer does.
LEMMA PartSaysTheSame ==
  ASSUME NEW a \in Answers \cup {Refusal, Babble, <<>>}, NEW n \in 0..Len(a), n <= MaxReply
  PROVE  /\ StatusOf(SubSeq(a, 1, n)) \in {"PASSED", "FAILED", "UNAVAILABLE"}
         /\ StatusOf(SubSeq(a, 1, n)) = "PASSED" => a = <<"stream:", "OK", "NUL">>
         /\ StatusOf(SubSeq(a, 1, n)) = "FAILED" => a = <<"stream:", "name", "FOUND", "NUL">>
<1>. DEFINE e == Ending(Unended(SubSeq(a, 1, n)))
<1>1. a \in Seq(Words)
  BY AnswerTexts
<1>2. CASE n = 0
  <2>1. SubSeq(a, 1, n) = <<>>
    BY <1>1, <1>2
  <2>2. e = "nothing"
    BY <2>1 DEF Ending, Unended
  <2>. QED  BY <2>2 DEF StatusOf
<1>3. CASE n # 0
  <2>1. n \in 1..Len(a)
    BY <1>1, <1>3
  <2>2. e = IF a[n] # "NUL" THEN a[n] ELSE IF n = 1 THEN "nothing" ELSE a[n - 1]
    BY <1>1, <2>1, EndingOfPart
  <2>3. n < 6
    BY BabbleIsTooLong, ScanConstants DEF Babble
  <2>. DEFINE Clean == a = <<"stream:", "OK", "NUL">>
              Found == a = <<"stream:", "name", "FOUND", "NUL">>
  <2>4. \/ Clean /\ Len(a) = 3 /\ a[1] = "stream:"
        \/ /\ Found /\ Len(a) = 4 /\ a[1] = "stream:" /\ a[2] = "name" /\ a[3] = "FOUND"
           /\ a[4] = "NUL"
        \/ Len(a) = 3 /\ a[1] = "limit exceeded" /\ a[2] = "ERROR" /\ a[3] = "NUL"
        \/ /\ Len(a) = 7 /\ a[1] = "stream:"
           /\ a[2] = "name" /\ a[3] = "name" /\ a[4] = "name" /\ a[5] = "name"
        \/ Len(a) = 0
    BY AnswerTexts, Zenon
  <2>4a. Clean => Len(a) = 3 /\ a[2] = "OK" /\ a[3] = "NUL"
    OBVIOUS
  <2>. HIDE DEF e, Clean, Found
  <2>5. n = 1 \/ n = 2 \/ n = 3 \/ n = 4 \/ n = 5
    BY <2>1, <2>3, <1>1
  <2>6. /\ n = 1 => e \in {a[1], "nothing"}
        /\ n = 2 => e = IF a[2] # "NUL" THEN a[2] ELSE a[1]
        /\ n = 3 => e = IF a[3] # "NUL" THEN a[3] ELSE a[2]
        /\ n = 4 => e = IF a[4] # "NUL" THEN a[4] ELSE a[3]
        /\ n = 5 => e = IF a[5] # "NUL" THEN a[5] ELSE a[4]
    BY <2>2
  <2>7. /\ n = 4 => Len(a) # 3
        /\ n = 5 => Len(a) # 3 /\ Len(a) # 4
        /\ Len(a) # 0
    <3>1. PICK k \in Nat : k = Len(a)
      BY <1>1
    <3>2. 1 <= n /\ n <= k
      BY <2>1, <3>1
    <3>3. (n = 4 => k # 3) /\ (n = 5 => k # 3 /\ k # 4) /\ k # 0
      BY <3>1, <3>2
    <3>. QED  BY <3>1, <3>3, Zenon
  <2>8. (e = "OK" => Clean) /\ (e = "FOUND" => Found)
    <3>1. CASE n = 1
      BY <2>4, <2>6, <2>7, <3>1
    <3>2. CASE n = 2
      BY <2>4, <2>4a, <2>6, <2>7, <3>2
    <3>3. CASE n = 3
      BY <2>4, <2>4a, <2>6, <2>7, <3>3
    <3>4. CASE n = 4
      BY <2>4, <2>4a, <2>6, <2>7, <3>4
    <3>5. CASE n = 5
      BY <2>4, <2>4a, <2>6, <2>7, <3>5
    <3>. QED  BY <2>5, <3>1, <3>2, <3>3, <3>4, <3>5
  <2>. QED  BY <2>8 DEF StatusOf, e, Clean, Found
<1>. QED  BY <1>2, <1>3

-----------------------------------------------------------------------------
LEMMA ScanInitial == ScanInit => ScanInv
<1>. SUFFICES ASSUME ScanInit PROVE ScanInv
  OBVIOUS
<1>1. Len(<<>>) = 0 /\ SubSeq(<<>>, 1, 0) = <<>>
  OBVIOUS
<1>2. <<>> \notin Answers
  BY DEF Answers
<1>3. Pieces \in Nat \ {0}
  BY ScanConstants DEF Pieces
<1>4. MaxReply >= 0
  BY ScanConstants
<1>. QED  BY <1>4, <1>1, <1>2, <1>3 DEF ScanInit, ScanInv, ScanTypeOK, Listening, VerdictIsHeard

\* A scan that settles with the verdict of what has arrived.
LEMMA SettlesWell ==
  ASSUME ScanInv, Listening,
         NEW n \in 0..Len(answer), n <= MaxReply, reply' = SubSeq(answer, 1, n),
         Settle(StatusOf(SubSeq(answer, 1, n)))
  PROVE  VerdictIsHeard' /\ scanned' \in {"PASSED", "FAILED", "UNAVAILABLE"}
<1>1. answer \in Answers \cup {Refusal, Babble, <<>>}
  BY DEF ScanInv, ScanTypeOK
<1>. DEFINE s == StatusOf(SubSeq(answer, 1, n))
<1>2. /\ s \in {"PASSED", "FAILED", "UNAVAILABLE"}
      /\ s = "PASSED" => answer = <<"stream:", "OK", "NUL">>
      /\ s = "FAILED" => answer = <<"stream:", "name", "FOUND", "NUL">>
  BY <1>1, PartSaysTheSame
<1>3. scanned' = s
  BY DEF Settle
<1>. HIDE DEF s
<1>4. answer \in {<<"stream:", "OK", "NUL">>, <<"stream:", "name", "FOUND", "NUL">>}
        => received = Pieces
  BY Zenon DEF ScanInv, Answers
<1>5. /\ answer = <<"stream:", "OK", "NUL">> => received = Pieces
      /\ answer = <<"stream:", "name", "FOUND", "NUL">> => received = Pieces
  BY <1>4, Zenon
<1>6. UNCHANGED <<received, answer>>
  BY DEF Settle
<1>. QED  BY <1>2, <1>3, <1>5, <1>6, Zenon DEF VerdictIsHeard, Pieces


LEMMA ScanNumbers ==
  ASSUME ScanInv
  PROVE  /\ Pieces \in Nat \ {0, 1} /\ written \in 0..Pieces /\ received \in 0..written
         /\ answer \in Seq(Words) /\ Len(answer) \in Nat /\ Len(reply) \in 0..Len(answer)
         /\ reply = SubSeq(answer, 1, Len(reply))
<1>1. answer \in Seq(Words)
  BY AnswerTexts DEF ScanInv, ScanTypeOK
<1>2. Len(answer) \in Nat
  BY <1>1
<1>. QED  BY <1>1, <1>2, ScanConstants DEF ScanInv, ScanTypeOK, Pieces

\* A step that neither hears nor settles.
LEMMA ScanGoesOn ==
  ASSUME ScanInv, UNCHANGED <<environment, reply, scanned>>, exchange # "settled",
         exchange' \in {"connecting", "writing", "draining", "written"},
         exchange' \in {"connecting", "writing"} => written' < Pieces,
         written' \in 0..Pieces, received' \in 0..written', received' >= received,
         answer' \in Answers \cup {Refusal, Babble, <<>>},
         answer' = answer \/ answer = <<>>,
         answer' # answer /\ answer' \in Answers => received' = Pieces
  PROVE  ScanInv'
<1>1. scanned = "none"
  BY ScanNumbers DEF ScanInv, ScanTypeOK
<1>2. VerdictIsHeard'
  BY <1>1 DEF VerdictIsHeard
<1>3. answer' \in Answers => received' = Pieces
  <2>1. CASE answer' = answer
    BY <2>1, ScanNumbers DEF ScanInv
  <2>. QED  BY <2>1
<1>4. Len(reply') \in Nat /\ (Listening' => Len(reply') <= MaxReply)
  <2>1. exchange = "none" \/ Listening
    BY DEF ScanInv, ScanTypeOK, Listening
  <2>2. reply = <<>> => Len(reply) = 0
    OBVIOUS
  <2>. QED  BY <2>1, <2>2, ScanConstants DEF ScanInv
<1>5. Len(reply') <= Len(answer') /\ reply' = SubSeq(answer', 1, Len(reply'))
  <2>1. CASE answer' = answer
    BY <2>1, ScanNumbers
  <2>2. CASE answer = <<>>
    <3>1. Len(reply) = 0
      BY <2>2, ScanNumbers
    <3>2. reply = <<>>
      BY <3>1, <2>2, ScanNumbers
    <3>3. answer' \in Seq(Words)
      BY AnswerTexts
    <3>4. Len(answer') \in Nat /\ SubSeq(answer', 1, 0) = <<>>
      BY <3>3, SubSeqProperties
    <3>. QED  BY <3>1, <3>2, <3>4
  <2>. QED  BY <2>1, <2>2
<1>6. ScanTypeOK'
  BY <1>1, <1>5 DEF ScanTypeOK, Pieces
<1>. QED  BY <1>2, <1>3, <1>4, <1>6 DEF ScanInv, Pieces

\* A scan that settles.
LEMMA ScanSettles ==
  ASSUME ScanInv, NEW status \in {"PASSED", "FAILED", "UNAVAILABLE"}, Settle(status),
         Len(reply') \in 0..Len(answer), reply' = SubSeq(answer, 1, Len(reply')),
         VerdictIsHeard'
  PROVE  ScanInv'
<1>1. ScanTypeOK'
  BY DEF ScanInv, ScanTypeOK, Settle, Pieces
<1>. QED  BY <1>1, ScanNumbers DEF ScanInv, Settle, Listening, Pieces

LEMMA Unheard ==
  ASSUME ScanInv, Settle("UNAVAILABLE")
  PROVE  VerdictIsHeard'
  BY DEF VerdictIsHeard, Settle

LEMMA ReplyStep == ScanInv /\ ReplyArrives => ScanInv'
<1>. SUFFICES ASSUME ScanInv, ReplyArrives PROVE ScanInv'
  OBVIOUS
<1>1. PICK n \in Len(reply) + 1 .. Len(answer) :
        /\ reply' = SubSeq(answer, 1, n)
        /\ \/ n > MaxReply /\ Settle("UNAVAILABLE")
           \/ n <= MaxReply /\ answer[n] = "NUL" /\ Settle(StatusOf(reply'))
           \/ /\ n <= MaxReply /\ answer[n] # "NUL"
              /\ UNCHANGED <<environment, honest, exchange, written, received, answer, scanned>>
  BY DEF ReplyArrives
<1>2. n \in 1..Len(answer) /\ n \in 0..Len(answer)
  BY ScanNumbers
<1>3. Len(reply') = n
  BY <1>1, <1>2, ScanNumbers, SubSeqProperties
<1>4. CASE n > MaxReply /\ Settle("UNAVAILABLE")
  BY <1>1, <1>2, <1>3, <1>4, Unheard, ScanSettles
<1>5. CASE n <= MaxReply /\ Settle(StatusOf(reply'))
  <2>1. VerdictIsHeard' /\ StatusOf(reply') \in {"PASSED", "FAILED", "UNAVAILABLE"}
    <3>1. Listening
      BY DEF ReplyArrives
    <3>2. Settle(StatusOf(SubSeq(answer, 1, n)))
      BY <1>1, <1>5
    <3>3. VerdictIsHeard'
      BY <1>1, <1>2, <1>5, <3>1, <3>2, SettlesWell
    <3>4. answer \in Answers \cup {Refusal, Babble, <<>>}
      BY DEF ScanInv, ScanTypeOK
    <3>. QED  BY <1>1, <1>2, <1>5, <3>3, <3>4, PartSaysTheSame
  <2>. QED  BY <1>1, <1>2, <1>3, <1>5, <2>1, ScanSettles
<1>6. CASE n <= MaxReply /\ UNCHANGED <<environment, honest, exchange, written, received, answer, scanned>>
  <2>1. ScanTypeOK'
    BY <1>1, <1>2, <1>3, <1>6, ScanNumbers DEF ScanInv, ScanTypeOK, Pieces
  <2>2. exchange # "none"
    BY DEF ReplyArrives, Listening
  <2>. QED  BY <1>2, <1>3, <1>6, <2>1, <2>2 DEF ScanInv, VerdictIsHeard, Listening, Pieces
<1>. QED  BY <1>1, <1>4, <1>5, <1>6

LEMMA CloseStep == ScanInv /\ SocketCloses => ScanInv'
<1>. SUFFICES ASSUME ScanInv, SocketCloses PROVE ScanInv'
  OBVIOUS
<1>1. Listening /\ Settle(StatusOf(reply)) /\ UNCHANGED reply
  BY DEF SocketCloses
<1>2. PICK n \in 0..Len(answer) : n = Len(reply) /\ reply = SubSeq(answer, 1, n)
  BY ScanNumbers
<1>3. n <= MaxReply
  BY <1>1, <1>2 DEF ScanInv
<1>4. VerdictIsHeard'
  BY <1>1, <1>2, <1>3, SettlesWell
<1>5. answer \in Answers \cup {Refusal, Babble, <<>>}
  BY DEF ScanInv, ScanTypeOK
<1>6. StatusOf(reply) \in {"PASSED", "FAILED", "UNAVAILABLE"}
  BY <1>2, <1>3, <1>5, PartSaysTheSame
<1>. QED  BY <1>1, <1>2, <1>4, <1>6, ScanSettles

LEMMA ScanStep == ScanInv /\ [ScanNext]_scanVars => ScanInv'
<1>. SUFFICES ASSUME ScanInv, [ScanNext]_scanVars PROVE ScanInv'
  OBVIOUS
<1>1. answer \in Answers \cup {Refusal, Babble, <<>>}
  BY DEF ScanInv, ScanTypeOK
<1>a. exchange \in {"connecting", "writing"} => written < Pieces
  BY DEF ScanInv, Pieces
<1>2. CASE BypassScan
  <2>1. Settle("PASSED") /\ UNCHANGED reply /\ Bypassed
    BY <1>2 DEF BypassScan
  <2>2. VerdictIsHeard'
    BY <2>1 DEF VerdictIsHeard, Settle, Bypassed
  <2>. QED  BY <2>1, <2>2, ScanNumbers, ScanSettles
<1>3. CASE ScanUnavailable
  BY <1>3, ScanNumbers, Unheard, ScanSettles DEF ScanUnavailable
<1>4. CASE BeginScan
  BY <1>1, <1>4, ScanNumbers, ScanGoesOn DEF ScanInv, BeginScan
<1>5. CASE ConnectSocket
  BY <1>1, <1>5, ScanNumbers, ScanGoesOn DEF ScanInv, ConnectSocket, Listening
<1>6. CASE WritePiece
  BY <1>1, <1>a, <1>6, ScanNumbers, ScanGoesOn DEF ScanInv, WritePiece, Listening
<1>7. CASE SocketDrains
  BY <1>1, <1>7, ScanNumbers, ScanGoesOn DEF ScanInv, SocketDrains, Listening
<1>8. CASE ReplyArrives
  BY <1>8, ReplyStep
<1>9. CASE SocketFails
  BY <1>9, ScanNumbers, Unheard, ScanSettles DEF SocketFails
<1>10. CASE SocketCloses
  BY <1>10, CloseStep
<1>11. CASE DaemonReads
  <2>1. /\ UNCHANGED <<environment, honest, exchange, written, answer, reply, scanned>>
        /\ exchange \in {"connecting", "writing", "draining", "written"}
    BY <1>11 DEF DaemonReads, Listening
  <2>2. received' \in 0..written /\ received' >= received
    BY <1>11, ScanNumbers DEF DaemonReads
  <2>. QED  BY <1>1, <1>a, <2>1, <2>2, ScanNumbers, ScanGoesOn
<1>12. CASE DaemonAnswers
  <2>1. /\ UNCHANGED <<environment, honest, exchange, written, received, reply, scanned>>
        /\ exchange \in {"writing", "draining", "written"} /\ answer = <<>>
        /\ answer' \in {Refusal, Babble} \cup (IF received = Pieces THEN Answers ELSE {})
    BY <1>12 DEF DaemonAnswers, Listening
  <2>2. Refusal \notin Answers /\ Babble \notin Answers
    <3>1. /\ Refusal[1] = "limit exceeded" /\ Babble[3] = "name"
      BY DEF Refusal, Babble
    <3>. QED  BY <3>1 DEF Answers, Refusal, Babble
  <2>3. /\ answer' \in Answers \cup {Refusal, Babble, <<>>}
        /\ answer' \in Answers => received = Pieces
    BY <2>1, <2>2
  <2>4. received' \in 0..written' /\ received' >= received
    BY <2>1, ScanNumbers
  <2>. QED  BY <1>1, <1>a, <2>1, <2>3, <2>4, ScanNumbers, ScanGoesOn
<1>13. CASE UNCHANGED scanVars
  BY <1>13 DEF scanVars, ScanInv, ScanTypeOK, Listening, VerdictIsHeard, Pieces
<1>. QED  BY <1>2, <1>3, <1>4, <1>5, <1>6, <1>7, <1>8, <1>9, <1>10, <1>11, <1>12, <1>13 DEF ScanNext

\* A file passes only when the daemon has read all of it and called it clean, or
\* by the switches of the owner and the developers, and fails only when something
\* was found, however the reply was cut and whatever closed, failed or ran out:
\* for every number of pieces, and every limit a babbling daemon exceeds.
THEOREM ScanVerdictIsHeard == ScanSpec => []VerdictIsHeard
<1>1. ScanSpec => []ScanInv
  BY ScanInitial, ScanStep, PTL DEF ScanSpec
<1>2. ScanInv => VerdictIsHeard
  BY DEF ScanInv
<1>. QED  BY <1>1, <1>2, PTL

-----------------------------------------------------------------------------
(***************************************************************************)
(* Files.  The verdict is reached part by part, and what was read so far   *)
(* is what an archive needs to be well formed, of its first members.       *)
(***************************************************************************)
Named == {"pdf", "doc", "docx", "xls", "xlsx", "csv", "zip", "jpg", "jpeg", "png",
          "webp", "heic", "heif"}
Kinds == {"PDF", "DOC", "DOCX", "XLS", "XLSX", "CSV", "ZIP", "JPG", "PNG", "WEBP", "HEIC"}

LEMMA TypesAre ==
  /\ DOMAIN ExtensionType = Named
  /\ FileTypes = Kinds
  /\ \A x \in Named : ExtensionType[x] \in Kinds
<1>1. DOMAIN ExtensionType = Named
  BY DEF ExtensionType, Named
<1>2. /\ ExtensionType["pdf"] = "PDF" /\ ExtensionType["doc"] = "DOC"
      /\ ExtensionType["docx"] = "DOCX" /\ ExtensionType["xls"] = "XLS"
      /\ ExtensionType["xlsx"] = "XLSX" /\ ExtensionType["csv"] = "CSV"
      /\ ExtensionType["zip"] = "ZIP" /\ ExtensionType["jpg"] = "JPG"
      /\ ExtensionType["jpeg"] = "JPG" /\ ExtensionType["png"] = "PNG"
      /\ ExtensionType["webp"] = "WEBP" /\ ExtensionType["heic"] = "HEIC"
      /\ ExtensionType["heif"] = "HEIC"
  BY DEF ExtensionType
<1>. HIDE DEF ExtensionType
<1>3. \A x \in Named : ExtensionType[x] \in Kinds
  BY <1>2 DEF Named, Kinds
<1>4. FileTypes = Kinds
  <2>1. FileTypes \subseteq Kinds
    BY <1>1, <1>3 DEF FileTypes
  <2>2. ASSUME NEW k \in Kinds PROVE \E x \in Named : ExtensionType[x] = k
    BY <1>2 DEF Kinds, Named
  <2>. QED  BY <1>1, <2>1, <2>2 DEF FileTypes
<1>. QED  BY <1>1, <1>3, <1>4

\* The first n members of f: their bytes, their names, and that their records
\* are as they should be and no name comes twice.
BytesTo(f, n) == UNION {{i} \X (1 .. f.members[i].unpacked) : i \in 1 .. n}
NamesTo(f, n) == {f.members[i].name : i \in 1 .. n}
SoundTo(f, n) ==
  /\ \A i \in 1 .. n : LET m == f.members[i] IN
       m.intact /\ m.readable /\ m.agrees /\ m.unpacked <= MaxRatio * m.packed
  /\ NamesTo(f, n) \cap Escaping = {}
  /\ \A i, j \in 1 .. n : f.members[i].name = f.members[j].name => i = j

LEMMA MembersAre ==
  ASSUME NEW f \in FileRecords
  PROVE  /\ f.members \in Seq(Members) /\ Len(f.members) \in Nat
         /\ DOMAIN f.members = 1 .. Len(f.members)
         /\ \A i \in 1 .. Len(f.members) :
              /\ f.members[i] \in Members
              /\ f.members[i].unpacked \in Nat /\ f.members[i].packed \in Nat
<1>1. f.members \in Seq(Members)
  BY DEF FileRecords
<1>2. ASSUME NEW s \in Seq(Members)
      PROVE /\ Len(s) \in Nat /\ DOMAIN s = 1 .. Len(s)
            /\ \A i \in 1 .. Len(s) : s[i] \in Members
  BY <1>2
<1>3. \A m \in Members : m.unpacked \in Nat /\ m.packed \in Nat
  BY DEF Members
<1>. QED  BY <1>1, <1>2, <1>3

\* The numbers from 1 to n.
LEMMA FirstNumbers ==
  ASSUME NEW n \in Nat
  PROVE  IsFiniteSet(1 .. n) /\ Cardinality(1 .. n) = n
BY FS_Interval

LEMMA BytesFinite ==
  ASSUME NEW f \in FileRecords, NEW n \in 0 .. Len(f.members)
  PROVE  IsFiniteSet(BytesTo(f, n)) /\ Cardinality(BytesTo(f, n)) \in Nat
<1>. DEFINE Of(i) == {i} \X (1 .. f.members[i].unpacked)
            T == {Of(i) : i \in 1 .. n}
            g == [i \in 1 .. n |-> Of(i)]
<1>1. Len(f.members) \in Nat /\ \A i \in 1 .. n : f.members[i].unpacked \in Nat
  BY MembersAre
<1>2. IsFiniteSet(T)
  <2>1. g \in Surjection(1 .. n, T)
    BY DEF Surjection
  <2>2. IsFiniteSet(1 .. n)
    BY <1>1, FirstNumbers
  <2>. QED  BY <2>1, <2>2, FS_Surjection
<1>3. ASSUME NEW i \in 1 .. n PROVE IsFiniteSet(Of(i))
  <2>1. IsFiniteSet({i})
    BY FS_Singleton
  <2>2. f.members[i].unpacked \in Nat
    BY <1>1
  <2>3. IsFiniteSet(1 .. f.members[i].unpacked)
    BY <2>2, FirstNumbers
  <2>. QED  BY <2>1, <2>3, FS_Product
<1>4. \A U \in T : IsFiniteSet(U)
  BY <1>3
<1>5. IsFiniteSet(UNION T)
  <2>. HIDE DEF T
  <2>. QED  BY <1>2, <1>4, FS_UNION
<1>6. BytesTo(f, n) = UNION T
  BY DEF BytesTo
<1>. QED  BY <1>5, <1>6, FS_CardinalityType

\* The next member adds its bytes.
LEMMA BytesGrow ==
  ASSUME NEW f \in FileRecords, NEW n \in Nat, n < Len(f.members)
  PROVE  Cardinality(BytesTo(f, n + 1)) =
           Cardinality(BytesTo(f, n)) + f.members[n + 1].unpacked
<1>. DEFINE size == f.members[n + 1].unpacked
            more == {n + 1} \X (1 .. size)
<1>1. Len(f.members) \in Nat /\ size \in Nat
  BY MembersAre
<1>2. IsFiniteSet(BytesTo(f, n)) /\ Cardinality(BytesTo(f, n)) \in Nat
  BY <1>1, BytesFinite
<1>3. IsFiniteSet(more) /\ Cardinality(more) = size
  <2>1. IsFiniteSet({n + 1}) /\ Cardinality({n + 1}) = 1
    BY FS_Singleton
  <2>2. IsFiniteSet(1 .. size) /\ Cardinality(1 .. size) = size
    BY <1>1, FirstNumbers
  <2>3. IsFiniteSet(more) /\ Cardinality(more) = Cardinality({n + 1}) * Cardinality(1 .. size)
    BY <2>1, <2>2, FS_Product
  <2>4. Cardinality({n + 1}) * Cardinality(1 .. size) = size
    BY <1>1, <2>1, <2>2
  <2>. QED  BY <2>3, <2>4
<1>4. 1 .. (n + 1) = (1 .. n) \cup {n + 1} /\ n + 1 \notin 1 .. n
  OBVIOUS
<1>5. \A k, z : z \in BytesTo(f, k) <=> \E i \in 1 .. k : z \in {i} \X (1 .. f.members[i].unpacked)
  BY DEF BytesTo
<1>6. BytesTo(f, n + 1) = BytesTo(f, n) \cup more
  BY <1>4, <1>5
<1>7. BytesTo(f, n) \cap more = {}
  BY <1>4, <1>5
<1>. HIDE DEF more, size
<1>8. Cardinality(BytesTo(f, n) \cup more) =
        Cardinality(BytesTo(f, n)) + Cardinality(more) - Cardinality({})
  BY <1>2, <1>3, <1>7, FS_Union
<1>9. Cardinality({}) = 0
  BY FS_EmptySet
<1>10. Cardinality(BytesTo(f, n + 1)) = Cardinality(BytesTo(f, n)) + size - 0
  BY <1>3, <1>6, <1>8, <1>9
<1>11. ASSUME NEW a \in Nat, NEW b \in Nat PROVE a + b - 0 = a + b
  OBVIOUS
<1>12. size \in Nat
  BY <1>1
<1>13. Cardinality(BytesTo(f, n)) + size - 0 = Cardinality(BytesTo(f, n)) + size
  BY <1>2, <1>11, <1>12
<1>. QED  BY <1>10, <1>13 DEF size

LEMMA BytesAtMostAll ==
  ASSUME NEW f \in FileRecords, NEW n \in 0 .. Len(f.members)
  PROVE  Cardinality(BytesTo(f, n)) <= Cardinality(BytesTo(f, Len(f.members)))
<1>1. Len(f.members) \in Nat
  BY MembersAre
<1>2. BytesTo(f, n) \in SUBSET BytesTo(f, Len(f.members))
  <2>1. 1 .. n \subseteq 1 .. Len(f.members)
    BY <1>1
  <2>. QED  BY <2>1 DEF BytesTo
<1>3. IsFiniteSet(BytesTo(f, Len(f.members)))
  BY <1>1, BytesFinite
<1>. QED  BY <1>2, <1>3, FS_Subset

\* As many names as members: none comes twice.
LEMMA NamesDiffer ==
  ASSUME NEW f \in FileRecords
  PROVE  Cardinality(Names(f)) = Len(f.members) <=>
           \A i, j \in 1 .. Len(f.members) : f.members[i].name = f.members[j].name => i = j
<1>. DEFINE n == Len(f.members)
            g == [i \in 1 .. n |-> f.members[i].name]
<1>1. n \in Nat /\ DOMAIN f.members = 1 .. n
  BY MembersAre
<1>2. g \in Surjection(1 .. n, Names(f))
  BY <1>1 DEF Surjection, Names
<1>3. IsFiniteSet(1 .. n) /\ Cardinality(1 .. n) = n
  BY <1>1, FS_Interval
<1>. HIDE DEF n
<1>4. Cardinality(Names(f)) = Cardinality(1 .. n) <=> g \in Injection(1 .. n, Names(f))
  <2>. HIDE DEF g
  <2>. QED  BY <1>2, <1>3, FS_Surjection
<1>5. g \in Injection(1 .. n, Names(f)) <=>
        \A i, j \in 1 .. n : f.members[i].name = f.members[j].name => i = j
  BY <1>2 DEF Injection, Surjection, IsInjective
<1>. QED  BY <1>3, <1>4, <1>5 DEF n

LEMMA WellFormedIs ==
  ASSUME NEW f \in FileRecords
  PROVE  WellFormed(f) <=>
           /\ f.directory = "sound" /\ f.ends /\ Len(f.members) <= MaxEntries
           /\ SoundTo(f, Len(f.members))
           /\ Cardinality(BytesTo(f, Len(f.members))) <= MaxUnpackedBytes
<1>1. DOMAIN f.members = 1 .. Len(f.members)
  BY MembersAre
<1>2. Names(f) = NamesTo(f, Len(f.members))
  BY <1>1 DEF Names, NamesTo
<1>3. UNION {{i} \X (1 .. f.members[i].unpacked) : i \in DOMAIN f.members}
        = BytesTo(f, Len(f.members))
  BY <1>1 DEF BytesTo
<1>. QED  BY <1>1, <1>2, <1>3, NamesDiffer DEF WellFormed, SoundTo

-----------------------------------------------------------------------------
\* What a verdict v has to be of a file f.
Right(f, v) ==
  LET promised == ExtensionType[f.extension] IN
  /\ v \in FileTypes => v = promised
  /\ v = promised <=> IsOfType(f, promised)
  /\ v = "CONTENT_TYPE_MISMATCH" \/ \A t \in FileTypes \ {promised} : ~IsOfType(f, t)

LEMMA PromiseIsType ==
  ASSUME NEW f \in FileRecords, f.extension \in DOMAIN ExtensionType
  PROVE  ExtensionType[f.extension] \in FileTypes
BY DEF FileTypes

LEMMA RefusedRightly ==
  ASSUME NEW f \in FileRecords, f.extension \in DOMAIN ExtensionType,
         NEW v \in {"CONTENT_CORRUPT", "ZIP_UNSAFE"},
         \A t \in FileTypes : ~IsOfType(f, t)
  PROVE  Right(f, v)
<1>1. v \notin FileTypes
  BY TypesAre DEF Kinds
<1>. QED  BY <1>1, PromiseIsType DEF Right

LEMMA TakenRightly ==
  ASSUME NEW f \in FileRecords, f.extension \in DOMAIN ExtensionType, NEW type,
         \A t \in FileTypes : IsOfType(f, t) <=> t = type
  PROVE  Right(f, IF type = ExtensionType[f.extension] THEN type ELSE "CONTENT_TYPE_MISMATCH")
<1>1. "CONTENT_TYPE_MISMATCH" \notin FileTypes
  BY TypesAre DEF Kinds
<1>. QED  BY <1>1, PromiseIsType DEF Right

LEMMA TypeOfOpening ==
  ASSUME NEW f \in FileRecords, OpensAsItself(f), NEW t \in FileTypes
  PROVE  IsOfType(f, t) <=> t = f.opening
BY DEF IsOfType, OpensAsItself, IsCompound, Archived, Images

LEMMA TypeOfCompound ==
  ASSUME NEW f \in FileRecords, IsCompound(f), NEW t \in FileTypes
  PROVE  /\ ~OpensAsItself(f)
         /\ IsOfType(f, t) <=>
              /\ f.whole
              /\ \/ t = "DOC" /\ "worddocument" \in f.streams
                 \/ t = "XLS" /\ "worddocument" \notin f.streams /\ f.streams # {}
BY DEF IsOfType, OpensAsItself, IsCompound, Archived, Images

LEMMA TypeOfRest ==
  ASSUME NEW f \in FileRecords, ~OpensAsItself(f), ~IsCompound(f), NEW t \in FileTypes
  PROVE  IsOfType(f, t) <=>
           \/ t = "CSV" /\ f.opening = "TEXT" /\ f.directory = "absent"
           \/ Archived(f, t)
BY DEF IsOfType

\* An archive that is not well formed is of no type.
LEMMA IllFormed ==
  ASSUME NEW f \in FileRecords, ~OpensAsItself(f), ~IsCompound(f),
         f.directory # "absent", ~WellFormed(f), NEW t \in FileTypes
  PROVE  ~IsOfType(f, t)
BY TypeOfRest DEF Archived

\* The policy for the members of a package, of one and of all.
LEMMA PackageIs ==
  ASSUME NEW f \in FileRecords
  PROVE  OnlyDocuments(f) <=> \A i \in 1 .. Len(f.members) : Passes(f.members[i])
<1>1. ASSUME NEW m \in Members
      PROVE HeadType(m) = "nothing" <=> m.holds = "nothing"
  BY DEF HeadType, OfficeParts
<1>2. ASSUME NEW i \in 1 .. Len(f.members)
      PROVE  Passes(f.members[i]) <=>
               (f.members[i].name \notin Ignored =>
                  /\ f.members[i].name \in DOMAIN MemberHead
                  /\ \/ f.members[i].holds = "nothing"
                     \/ HeadType(f.members[i]) = MemberHead[f.members[i].name])
  <2>1. f.members[i] \in Members
    BY MembersAre
  <2>. QED  BY <2>1, <1>1 DEF Passes
<1>. QED  BY <1>2, MembersAre DEF OnlyDocuments

-----------------------------------------------------------------------------
ReadsArchive ==
  /\ Supported /\ ~OpensAsItself(sample) /\ ~IsCompound(sample)
  /\ sample.directory = "sound" /\ Len(sample.members) <= MaxEntries

\* What the reading has found by now: of the records read, what their directory
\* needs for its archive to be well formed; then a well formed archive that is
\* no office document, whose first members may be in a package.
ContentInv ==
  /\ ContentTypeOK
  /\ reading = "upload" => at = 0 /\ seen = {} /\ unpacked = 0
  /\ reading = "directory" =>
       /\ ReadsArchive /\ SoundTo(sample, at)
       /\ seen = NamesTo(sample, at) /\ unpacked = Cardinality(BytesTo(sample, at))
  /\ reading = "members" =>
       /\ ReadsArchive /\ WellFormed(sample)
       /\ ~IsOffice("DOCX", Names(sample)) /\ ~IsOffice("XLSX", Names(sample))
       /\ \A i \in 1 .. at : Passes(sample.members[i])
  /\ reading = "judged" /\ Supported => Right(sample, verdict)

LEMMA VerdictsDiffer ==
  /\ "none" \notin FileTypes \cup Refusals
  /\ {"CONTENT_TYPE_MISMATCH", "CONTENT_CORRUPT", "ZIP_UNSAFE"} \subseteq Refusals
BY TypesAre DEF Kinds, Refusals

LEMMA JudgeStep ==
  ASSUME ContentInv, NEW v \in FileTypes \cup Refusals, Judge(v),
         Supported => Right(sample, v)
  PROVE  ContentInv'
<1>1. /\ sample' = sample /\ at' = at /\ unpacked' = unpacked
      /\ reading' = "judged" /\ verdict' = v /\ v # "none"
  BY VerdictsDiffer DEF Judge
<1>2. ContentTypeOK'
  BY <1>1 DEF ContentInv, ContentTypeOK
<1>3. (Supported => Right(sample, verdict))'
  BY <1>1 DEF Supported, Right
<1>. QED  BY <1>1, <1>2, <1>3 DEF ContentInv

LEMMA RefuseStep ==
  ASSUME ContentInv, Supported, NEW v \in {"CONTENT_CORRUPT", "ZIP_UNSAFE"}, Judge(v),
         \A t \in FileTypes : ~IsOfType(sample, t)
  PROVE  ContentInv'
<1>1. sample \in FileRecords /\ sample.extension \in DOMAIN ExtensionType
  BY DEF ContentInv, ContentTypeOK, Supported
<1>2. Right(sample, v)
  BY <1>1, RefusedRightly
<1>. QED  BY <1>2, JudgeStep, VerdictsDiffer

LEMMA ConcludeStep ==
  ASSUME ContentInv, Supported, NEW type, Conclude(type),
         \A t \in FileTypes : IsOfType(sample, t) <=> t = type
  PROVE  ContentInv'
<1>1. sample \in FileRecords /\ sample.extension \in DOMAIN ExtensionType
  BY DEF ContentInv, ContentTypeOK, Supported
<1>. DEFINE v == IF type = ExtensionType[sample.extension] THEN type ELSE "CONTENT_TYPE_MISMATCH"
<1>2. Right(sample, v)
  BY <1>1, TakenRightly
<1>3. v \in FileTypes \cup Refusals
  BY <1>1, PromiseIsType, VerdictsDiffer
<1>. QED  BY <1>2, <1>3, JudgeStep DEF Conclude

-----------------------------------------------------------------------------
LEMMA ContentInitially == ContentInit => ContentInv
<1>. SUFFICES ASSUME ContentInit PROVE ContentInv
  OBVIOUS
<1>1. sample \in FileRecords /\ MaxUnpackedBytes \in Nat
  BY ContentConstants DEF ContentInit
<1>2. Len(sample.members) \in Nat
  BY <1>1, MembersAre
<1>. QED  BY <1>1, <1>2 DEF ContentInit, ContentInv, ContentTypeOK

LEMMA RefuseUploadStep == ContentInv /\ RefuseUpload => ContentInv'
<1>. SUFFICES ASSUME ContentInv, RefuseUpload PROVE ContentInv'
  OBVIOUS
<1>1. ~Supported
  <2>1. MaxFileBytes \in Nat /\ sample.size \in Nat
    BY ContentConstants DEF ContentInv, ContentTypeOK, FileRecords
  <2>2. "nameless" \notin DOMAIN ExtensionType /\ "other" \notin DOMAIN ExtensionType
    BY TypesAre DEF Named
  <2>. QED  BY <2>1, <2>2 DEF RefuseUpload, Supported
<1>2. PICK v \in Refusals : Judge(v)
  BY DEF RefuseUpload, Refusals
<1>. QED  BY <1>1, <1>2, JudgeStep

LEMMA DetectOpeningStep == ContentInv /\ DetectOpening => ContentInv'
<1>. SUFFICES ASSUME ContentInv, DetectOpening PROVE ContentInv'
  OBVIOUS
<1>1. sample \in FileRecords
  BY DEF ContentInv, ContentTypeOK
<1>2. \A t \in FileTypes : IsOfType(sample, t) <=> t = sample.opening
  BY <1>1, TypeOfOpening DEF DetectOpening
<1>. QED  BY <1>2, ConcludeStep DEF DetectOpening

LEMMA DetectCompoundStep == ContentInv /\ DetectCompound => ContentInv'
<1>. SUFFICES ASSUME ContentInv, DetectCompound PROVE ContentInv'
  OBVIOUS
<1>1. sample \in FileRecords /\ Supported /\ IsCompound(sample)
  BY DEF ContentInv, ContentTypeOK, DetectCompound
<1>2. sample.streams \subseteq {"worddocument", "workbook", "book"}
  BY <1>1 DEF FileRecords
<1>3. CASE ~sample.whole \/ sample.streams = {}
  <2>1. \A t \in FileTypes : ~IsOfType(sample, t)
    BY <1>1, <1>3, TypeOfCompound
  <2>2. Judge("CONTENT_CORRUPT")
    BY <1>2, <1>3 DEF DetectCompound
  <2>. QED  BY <1>1, <2>1, <2>2, RefuseStep
<1>4. CASE sample.whole /\ "worddocument" \in sample.streams
  <2>1. \A t \in FileTypes : IsOfType(sample, t) <=> t = "DOC"
    BY <1>1, <1>4, TypeOfCompound
  <2>2. Conclude("DOC")
    BY <1>4 DEF DetectCompound
  <2>. QED  BY <1>1, <2>1, <2>2, ConcludeStep
<1>5. CASE sample.whole /\ "worddocument" \notin sample.streams /\ sample.streams # {}
  <2>1. \A t \in FileTypes : IsOfType(sample, t) <=> t = "XLS"
    BY <1>1, <1>5, TypeOfCompound
  <2>2. Conclude("XLS")
    BY <1>5 DEF DetectCompound
  <2>. QED  BY <1>1, <2>1, <2>2, ConcludeStep
<1>. QED  BY <1>3, <1>4, <1>5

LEMMA FindDirectoryStep == ContentInv /\ FindDirectory => ContentInv'
<1>. SUFFICES ASSUME ContentInv, FindDirectory PROVE ContentInv'
  OBVIOUS
<1>1. sample \in FileRecords /\ Supported /\ ~OpensAsItself(sample) /\ ~IsCompound(sample)
  BY DEF ContentInv, ContentTypeOK, FindDirectory
<1>2. Len(sample.members) \in Nat /\ MaxEntries \in Nat
  BY <1>1, MembersAre, ContentConstants
<1>3. CASE sample.directory = "absent" /\ Conclude(IF sample.opening = "TEXT" THEN "CSV" ELSE "none")
  <2>1. \A t \in FileTypes : ~Archived(sample, t)
    BY <1>3 DEF Archived, WellFormed
  <2>2. \A t \in FileTypes :
          IsOfType(sample, t) <=> t = IF sample.opening = "TEXT" THEN "CSV" ELSE "none"
    BY <1>1, <1>3, <2>1, TypeOfRest, VerdictsDiffer
  <2>. QED  BY <1>1, <1>3, <2>2, ConcludeStep
<1>4. CASE /\ sample.directory # "absent"
           /\ sample.directory = "strange" \/ Len(sample.members) > MaxEntries
           /\ Judge("ZIP_UNSAFE")
  <2>1. ~WellFormed(sample)
    BY <1>2, <1>4 DEF WellFormed
  <2>2. \A t \in FileTypes : ~IsOfType(sample, t)
    BY <1>1, <1>4, <2>1, IllFormed
  <2>. QED  BY <1>1, <1>4, <2>2, RefuseStep
<1>5. CASE /\ sample.directory = "sound" /\ Len(sample.members) <= MaxEntries
           /\ reading' = "directory" /\ UNCHANGED <<sample, at, seen, unpacked, verdict>>
  <2>1. at = 0 /\ seen = {} /\ unpacked = 0 /\ reading = "upload"
    BY DEF ContentInv, FindDirectory
  <2>2. BytesTo(sample, 0) = {} /\ NamesTo(sample, 0) = {} /\ SoundTo(sample, 0)
    BY DEF BytesTo, NamesTo, SoundTo
  <2>3. Cardinality(BytesTo(sample, 0)) = 0
    BY <2>2, FS_EmptySet
  <2>4. ContentTypeOK'
    BY <1>5, <2>1 DEF ContentInv, ContentTypeOK
  <2>5. /\ ReadsArchive' /\ SoundTo(sample, at)'
        /\ (seen = NamesTo(sample, at))' /\ (unpacked = Cardinality(BytesTo(sample, at)))'
    BY <1>1, <1>5, <2>1, <2>2, <2>3 DEF ReadsArchive, Supported
  <2>. QED  BY <1>5, <2>4, <2>5 DEF ContentInv
<1>. QED  BY <1>3, <1>4, <1>5 DEF FindDirectory

-----------------------------------------------------------------------------
\* A record at which the reading stops is one that no well formed archive has.
LEMMA RecordIsBad ==
  ASSUME NEW f \in FileRecords, NEW n \in Nat, n < Len(f.members), SoundTo(f, n),
         Cardinality(BytesTo(f, n)) <= MaxUnpackedBytes,
         WellFormed(f)
  PROVE  LET m == f.members[n + 1] IN
         /\ m.intact /\ m.agrees
         /\ Safe(m, NamesTo(f, n), Cardinality(BytesTo(f, n)) + m.unpacked)
<1>. DEFINE m == f.members[n + 1]
<1>1. Len(f.members) \in Nat /\ n \in 1 .. Len(f.members) \cup {0} /\ n + 1 \in 1 .. Len(f.members)
  BY MembersAre
<1>2. m.unpacked \in Nat /\ m.packed \in Nat /\ MaxUnpackedBytes \in Nat /\ MaxRatio \in Nat
  BY <1>1, MembersAre, ContentConstants
<1>3. SoundTo(f, Len(f.members)) /\ Cardinality(BytesTo(f, Len(f.members))) <= MaxUnpackedBytes
  BY WellFormedIs
<1>4. m.intact /\ m.readable /\ m.agrees /\ m.unpacked <= MaxRatio * m.packed
  BY <1>1, <1>3 DEF SoundTo
<1>5. m.name \notin Escaping
  BY <1>1, <1>3 DEF SoundTo, NamesTo
<1>6. m.name \notin NamesTo(f, n)
  <2>1. ASSUME NEW i \in 1 .. n, f.members[i].name = m.name PROVE FALSE
    <3>1. i \in 1 .. Len(f.members) /\ i # n + 1
      BY <1>1
    <3>. QED  BY <1>1, <1>3, <2>1, <3>1 DEF SoundTo
  <2>. QED  BY <2>1 DEF NamesTo
<1>7. Cardinality(BytesTo(f, n)) + m.unpacked <= MaxUnpackedBytes
  <2>1. n + 1 \in 0 .. Len(f.members)
    BY <1>1
  <2>2. Cardinality(BytesTo(f, n + 1)) <= Cardinality(BytesTo(f, Len(f.members)))
    BY <2>1, BytesAtMostAll
  <2>3. /\ Cardinality(BytesTo(f, n + 1)) \in Nat
        /\ Cardinality(BytesTo(f, Len(f.members))) \in Nat
    BY <1>1, <2>1, BytesFinite
  <2>4. Cardinality(BytesTo(f, n + 1)) <= MaxUnpackedBytes
    BY <1>2, <1>3, <2>2, <2>3
  <2>. QED  BY <2>4, BytesGrow
<1>8. m.packed = 0 => m.unpacked = 0
  <2>1. MaxRatio * 0 = 0
    BY <1>2
  <2>2. m.packed = 0 => m.unpacked <= 0
    BY <1>4, <2>1
  <2>. QED  BY <1>2, <2>2
<1>. QED  BY <1>4, <1>5, <1>6, <1>7, <1>8 DEF Safe, InBounds

LEMMA RecordIsGood ==
  ASSUME NEW f \in FileRecords, NEW n \in Nat, n < Len(f.members), SoundTo(f, n),
         f.members[n + 1].intact, f.members[n + 1].agrees,
         NEW total, Safe(f.members[n + 1], NamesTo(f, n), total)
  PROVE  /\ SoundTo(f, n + 1)
         /\ NamesTo(f, n + 1) = NamesTo(f, n) \cup {f.members[n + 1].name}
<1>1. 1 .. (n + 1) = (1 .. n) \cup {n + 1}
  OBVIOUS
<1>2. NamesTo(f, n + 1) = NamesTo(f, n) \cup {f.members[n + 1].name}
  BY <1>1 DEF NamesTo
<1>3. NamesTo(f, n + 1) \cap Escaping = {}
  BY <1>2 DEF SoundTo, Safe
<1>4. \A i \in 1 .. n : f.members[i].name # f.members[n + 1].name
  BY DEF Safe, NamesTo
<1>5. \A i, j \in 1 .. (n + 1) : f.members[i].name = f.members[j].name => i = j
  BY <1>1, <1>4 DEF SoundTo
<1>6. \A i \in 1 .. (n + 1) : LET m == f.members[i] IN
        m.intact /\ m.readable /\ m.agrees /\ m.unpacked <= MaxRatio * m.packed
  BY <1>1 DEF SoundTo, Safe, InBounds
<1>. QED  BY <1>2, <1>3, <1>5, <1>6 DEF SoundTo

LEMMA ReadRecordStep == ContentInv /\ ReadRecord => ContentInv'
<1>. SUFFICES ASSUME ContentInv, ReadRecord PROVE ContentInv'
  OBVIOUS
<1>. DEFINE m == sample.members[at + 1]
            good == Safe(m, seen, unpacked + m.unpacked)
<1>1. /\ sample \in FileRecords /\ reading = "directory" /\ at \in 0 .. Len(sample.members)
      /\ at < Len(sample.members) /\ ReadsArchive /\ SoundTo(sample, at)
      /\ seen = NamesTo(sample, at) /\ unpacked = Cardinality(BytesTo(sample, at))
      /\ unpacked <= MaxUnpackedBytes /\ unpacked \in Nat
  BY ContentConstants DEF ContentInv, ContentTypeOK, ReadRecord
<1>2. Len(sample.members) \in Nat /\ at \in Nat /\ MaxUnpackedBytes \in Nat
  BY <1>1, MembersAre, ContentConstants
<1>3. /\ Supported /\ ~OpensAsItself(sample) /\ ~IsCompound(sample) /\ sample.directory # "absent"
  BY <1>1 DEF ReadsArchive
<1>4. CASE ~(m.intact /\ good /\ m.agrees)
  <2>1. ~WellFormed(sample)
    BY <1>1, <1>2, <1>4, RecordIsBad
  <2>2. \A t \in FileTypes : ~IsOfType(sample, t)
    BY <1>1, <1>3, <2>1, IllFormed
  <2>3. Judge("CONTENT_CORRUPT") \/ Judge("ZIP_UNSAFE")
    BY <1>4 DEF ReadRecord
  <2>. QED  BY <1>3, <2>2, <2>3, RefuseStep
<1>5. CASE m.intact /\ good /\ m.agrees
  <2>1. /\ at' = at + 1 /\ seen' = seen \cup {m.name} /\ unpacked' = unpacked + m.unpacked
        /\ UNCHANGED <<sample, reading, verdict>>
    BY <1>5 DEF ReadRecord
  <2>2. /\ SoundTo(sample, at + 1)
        /\ NamesTo(sample, at + 1) = NamesTo(sample, at) \cup {m.name}
    BY <1>1, <1>2, <1>5, RecordIsGood
  <2>3. Cardinality(BytesTo(sample, at + 1)) = Cardinality(BytesTo(sample, at)) + m.unpacked
    BY <1>1, <1>2, BytesGrow
  <2>4. m.unpacked \in Nat /\ unpacked + m.unpacked <= MaxUnpackedBytes
    <3>1. at + 1 \in 1 .. Len(sample.members)
      BY <1>1, <1>2
    <3>. QED  BY <1>1, <1>5, <3>1, MembersAre DEF Safe, InBounds
  <2>5. at + 1 \in 0 .. Len(sample.members) /\ unpacked + m.unpacked \in 0 .. MaxUnpackedBytes
    BY <1>1, <1>2, <2>4
  <2>6. ContentTypeOK'
    BY <1>1, <2>1, <2>5 DEF ContentInv, ContentTypeOK
  <2>7. /\ ReadsArchive' /\ SoundTo(sample, at)'
        /\ (seen = NamesTo(sample, at))' /\ (unpacked = Cardinality(BytesTo(sample, at)))'
    BY <1>1, <2>1, <2>2, <2>3 DEF ReadsArchive, Supported
  <2>. QED  BY <1>1, <2>1, <2>6, <2>7 DEF ContentInv
<1>. QED  BY <1>4, <1>5

LEMMA CloseDirectoryStep == ContentInv /\ CloseDirectory => ContentInv'
<1>. SUFFICES ASSUME ContentInv, CloseDirectory PROVE ContentInv'
  OBVIOUS
<1>1. /\ sample \in FileRecords /\ reading = "directory" /\ at = Len(sample.members)
      /\ ReadsArchive /\ SoundTo(sample, Len(sample.members))
      /\ seen = NamesTo(sample, Len(sample.members))
      /\ Cardinality(BytesTo(sample, Len(sample.members))) <= MaxUnpackedBytes
  BY ContentConstants DEF ContentInv, ContentTypeOK, CloseDirectory
<1>2. Supported /\ ~OpensAsItself(sample) /\ ~IsCompound(sample) /\ sample.directory = "sound"
  BY <1>1 DEF ReadsArchive
<1>3. seen = Names(sample)
  BY <1>1, MembersAre DEF Names, NamesTo
<1>4. WellFormed(sample) <=> sample.ends
  BY <1>1, WellFormedIs DEF ReadsArchive
<1>5. \A t \in FileTypes : IsOfType(sample, t) <=> Archived(sample, t)
  BY <1>1, <1>2, TypeOfRest
<1>6. CASE ~sample.ends
  <2>1. \A t \in FileTypes : ~IsOfType(sample, t)
    BY <1>4, <1>5, <1>6 DEF Archived
  <2>2. Judge("CONTENT_CORRUPT")
    BY <1>6 DEF CloseDirectory
  <2>. QED  BY <1>2, <2>1, <2>2, RefuseStep
<1>7. CASE sample.ends /\ IsOffice("DOCX", seen)
  <2>1. CASE Holding(sample, ContentTypes, "Types") /\ Holding(sample, OfficeRoot.DOCX, "w:document")
    <3>1. \A t \in FileTypes : IsOfType(sample, t) <=> t = "DOCX"
      BY <1>2, <1>3, <1>4, <1>5, <1>7, <2>1 DEF Archived
    <3>2. Conclude("DOCX")
      BY <1>7, <2>1 DEF CloseDirectory
    <3>. QED  BY <1>2, <3>1, <3>2, ConcludeStep
  <2>2. CASE ~(Holding(sample, ContentTypes, "Types") /\ Holding(sample, OfficeRoot.DOCX, "w:document"))
    <3>1. \A t \in FileTypes : ~IsOfType(sample, t)
      BY <1>3, <1>5, <1>7, <2>2 DEF Archived
    <3>2. Judge("CONTENT_CORRUPT")
      BY <1>7, <2>2 DEF CloseDirectory
    <3>. QED  BY <1>2, <3>1, <3>2, RefuseStep
  <2>. QED  BY <2>1, <2>2
<1>8. CASE sample.ends /\ ~IsOffice("DOCX", seen) /\ IsOffice("XLSX", seen)
  <2>1. CASE Holding(sample, ContentTypes, "Types") /\ Holding(sample, OfficeRoot.XLSX, "workbook")
    <3>1. \A t \in FileTypes : IsOfType(sample, t) <=> t = "XLSX"
      BY <1>2, <1>3, <1>4, <1>5, <1>8, <2>1 DEF Archived
    <3>2. Conclude("XLSX")
      BY <1>8, <2>1 DEF CloseDirectory
    <3>. QED  BY <1>2, <3>1, <3>2, ConcludeStep
  <2>2. CASE ~(Holding(sample, ContentTypes, "Types") /\ Holding(sample, OfficeRoot.XLSX, "workbook"))
    <3>1. \A t \in FileTypes : ~IsOfType(sample, t)
      BY <1>3, <1>5, <1>8, <2>2 DEF Archived
    <3>2. Judge("CONTENT_CORRUPT")
      BY <1>8, <2>2 DEF CloseDirectory
    <3>. QED  BY <1>2, <3>1, <3>2, RefuseStep
  <2>. QED  BY <2>1, <2>2
<1>9. CASE sample.ends /\ ~IsOffice("DOCX", seen) /\ ~IsOffice("XLSX", seen)
  <2>1. reading' = "members" /\ at' = 0 /\ UNCHANGED <<sample, seen, unpacked, verdict>>
    BY <1>9 DEF CloseDirectory
  <2>2. 0 \in 0 .. Len(sample.members)
    BY <1>1, MembersAre
  <2>3. ContentTypeOK'
    BY <1>1, <2>1, <2>2 DEF ContentInv, ContentTypeOK
  <2>4. WellFormed(sample) /\ ~IsOffice("DOCX", Names(sample)) /\ ~IsOffice("XLSX", Names(sample))
    BY <1>3, <1>4, <1>9
  <2>5. (/\ ReadsArchive /\ WellFormed(sample)
         /\ ~IsOffice("DOCX", Names(sample)) /\ ~IsOffice("XLSX", Names(sample))
         /\ \A i \in 1 .. at : Passes(sample.members[i]))'
    <3>1. ReadsArchive'
      BY <1>1, <2>1 DEF ReadsArchive, Supported
    <3>2. \A i \in 1 .. at' : Passes(sample.members[i])
      BY <2>1
    <3>. QED  BY <2>1, <2>4, <3>1, <3>2
  <2>. QED  BY <2>1, <2>3, <2>5 DEF ContentInv
<1>. QED  BY <1>6, <1>7, <1>8, <1>9

LEMMA ReadMemberStep == ContentInv /\ ReadMember => ContentInv'
<1>. SUFFICES ASSUME ContentInv, ReadMember PROVE ContentInv'
  OBVIOUS
<1>1. /\ sample \in FileRecords /\ reading = "members" /\ at \in 0 .. Len(sample.members)
      /\ ReadsArchive /\ WellFormed(sample)
      /\ ~IsOffice("DOCX", Names(sample)) /\ ~IsOffice("XLSX", Names(sample))
      /\ \A i \in 1 .. at : Passes(sample.members[i])
  BY DEF ContentInv, ContentTypeOK, ReadMember
<1>2. Len(sample.members) \in Nat /\ at \in Nat
  BY <1>1, MembersAre
<1>3. Supported /\ ~OpensAsItself(sample) /\ ~IsCompound(sample) /\ sample.directory = "sound"
  BY <1>1 DEF ReadsArchive
<1>4. \A t \in FileTypes : IsOfType(sample, t) <=>
        t = "ZIP" /\ \A i \in 1 .. Len(sample.members) : Passes(sample.members[i])
  BY <1>1, <1>3, TypeOfRest, PackageIs DEF Archived
<1>5. CASE at = Len(sample.members) /\ Conclude("ZIP")
  <2>1. \A t \in FileTypes : IsOfType(sample, t) <=> t = "ZIP"
    BY <1>1, <1>4, <1>5
  <2>. QED  BY <1>3, <1>5, <2>1, ConcludeStep
<1>6. CASE /\ at < Len(sample.members) /\ Passes(sample.members[at + 1])
           /\ at' = at + 1 /\ UNCHANGED <<sample, reading, seen, unpacked, verdict>>
  <2>1. at + 1 \in 0 .. Len(sample.members)
    BY <1>2, <1>6
  <2>2. ContentTypeOK'
    BY <1>6, <2>1 DEF ContentInv, ContentTypeOK
  <2>3. \A i \in 1 .. (at + 1) : Passes(sample.members[i])
    <3>1. 1 .. (at + 1) = (1 .. at) \cup {at + 1}
      BY <1>2
    <3>. QED  BY <1>1, <1>6, <3>1
  <2>4. ReadsArchive'
    BY <1>1, <1>6 DEF ReadsArchive, Supported
  <2>. QED  BY <1>1, <1>6, <2>2, <2>3, <2>4 DEF ContentInv
<1>7. CASE at < Len(sample.members) /\ ~Passes(sample.members[at + 1])
  <2>1. at + 1 \in 1 .. Len(sample.members)
    BY <1>2, <1>7
  <2>2. \A t \in FileTypes : ~IsOfType(sample, t)
    BY <1>4, <1>7, <2>1
  <2>3. PICK v \in {"CONTENT_CORRUPT", "ZIP_UNSAFE"} : Judge(v)
    BY <1>2, <1>7 DEF ReadMember
  <2>. QED  BY <1>3, <2>2, <2>3, RefuseStep
<1>. QED  BY <1>2, <1>5, <1>6, <1>7 DEF ReadMember

LEMMA ContentStep == ContentInv /\ [ContentNext]_contentVars => ContentInv'
<1>. SUFFICES ASSUME ContentInv, [ContentNext]_contentVars PROVE ContentInv'
  OBVIOUS
<1>1. CASE UNCHANGED contentVars
  BY <1>1 DEF contentVars, ContentInv, ContentTypeOK, ReadsArchive, Supported
<1>2. CASE ContentNext
  BY <1>2, RefuseUploadStep, DetectOpeningStep, DetectCompoundStep, FindDirectoryStep,
     ReadRecordStep, CloseDirectoryStep, ReadMemberStep DEF ContentNext
<1>. QED  BY <1>1, <1>2

\* Whatever was read of a file by now, the reading knows of it what it must: the
\* inductive invariant behind what follows.
THEOREM ContentInvariant == ContentSpec => []ContentInv
BY ContentInitially, ContentStep, PTL DEF ContentSpec

\* However many members an archive has, and whatever they hold, the reading
\* stays within it and within the limit of its bytes (verifyFacilitiesUpload).
THEOREM ContentTypeCorrect == ContentSpec => []ContentTypeOK
<1>1. ContentInv => ContentTypeOK
  BY DEF ContentInv
<1>. QED  BY <1>1, ContentInvariant, PTL

\* For files of every kind, with archives of any number of members in any order,
\* and whatever the limits are: the verdict of the reading is what is true of
\* the file as a whole (verifyFacilitiesUpload, inspectZip, assertZipMemberPolicy).
THEOREM ContentVerdictIsRight == ContentSpec => []VerdictIsRight
<1>1. ContentInv => VerdictIsRight
  BY DEF ContentInv, VerdictIsRight, Right
<1>. QED  BY <1>1, ContentInvariant, PTL
=============================================================================
