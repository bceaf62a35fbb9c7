------------------------------ MODULE OtpLogin ------------------------------
(***************************************************************************)
(* One-time passwords of one mobile number (lib/auth/request.ts, lib/auth/ *)
(* verification.ts, lib/actions/auth.ts).  A request reserves its place in *)
(* the budgets and leaves an intent; its handler claims the intent, which  *)
(* makes the code, and sends it.  A guess spends from a budget of its own, *)
(* picks the newest code, reserves one of the code's few attempts,         *)
(* compares, and consumes the code for a session.  Each of these is a      *)
(* transaction of its own, and a handler may stop after any of them.       *)
(*                                                                         *)
(* An intent and its code have the same number.  Budgets are kept under a  *)
(* pseudonym of the mobile that changes with the hour, so that a window is *)
(* spread over two rows.  Time is counted in ticks.  The budgets of        *)
(* addresses and of the whole site, which use the same `spend' with other  *)
(* limits, and the check that all workers hash with one secret are left    *)
(* out: they only refuse more.                                             *)
(***************************************************************************)
EXTENDS FiniteSets, Naturals

CONSTANTS
  Guessers,       \* verify handlers that may run at once
  MaxIntents,     \* bound: requests that are granted
  MaxTime,        \* bound: ticks of the clock
  Hour, Cooldown, IntentLife, CodeLife, Retention,
  RequestLimit, VerifyLimit, MaxGuesses

ASSUME OtpConstants ==
  /\ {MaxIntents, MaxTime, IntentLife, CodeLife, Retention} \subseteq Nat
  /\ {Hour, Cooldown, RequestLimit, VerifyLimit, MaxGuesses} \subseteq Nat \ {0}
  /\ IntentLife <= Cooldown

VARIABLES
  otpClock,   \* the database's clock
  bucket,     \* attempts under each pseudonym
  spent,      \* every attempt of the last hour that was granted (not stored)
  otpLock,    \* the advisory lock, while a claim waits for the rows of codes
  intent,     \* AuthRequestIntent and what its handler does next
  code,       \* OtpCode
  guess,      \* what each verify handler is doing
  opened      \* sessions that were opened with each code

otpVars == <<otpClock, bucket, spent, otpLock, intent, code, guess, opened>>

Intents == 1..MaxIntents
NoIntent == 0
Budgets == {"request", "verify"}
Limit(b) == IF b = "request" THEN RequestLimit ELSE VerifyLimit
Epoch(t) == t \div Hour
Epochs == 0..Epoch(MaxTime)   \* one pseudonym each

\* A row is the set of its attempts, the n-th of a tick being one.
Attempt == [at : Nat, nth : Nat]
Intent == [step : {"none", "claim", "locked", "ended"},
           at : Nat]
Code == [state : {"none", "live", "consumed"}, asked : Nat, at : Nat,
         attempts : Nat]
NoCode == [state |-> "none", asked |-> 0, at |-> 0, attempts |-> 0]
Guess == [step : {"idle", "pick", "reserve", "consume"},
          code : Intents \cup {NoIntent}]
NoGuess == [step |-> "idle", code |-> NoIntent]

OtpInit ==
  /\ otpClock = 0
  /\ bucket = [b \in Budgets |-> [e \in Epochs |-> {}]]
  /\ spent = [b \in Budgets |-> {}]
  /\ otpLock = NoIntent
  /\ intent = [i \in Intents |-> [step |-> "none", at |-> 0]]
  /\ code = [i \in Intents |-> NoCode]
  /\ guess = [g \in Guessers |-> NoGuess]
  /\ opened = [i \in Intents |-> 0]

-----------------------------------------------------------------------------
(* The sliding windows.                                                     *)

Within(attempts, span) == {a \in attempts : a.at + span > otpClock}

\* Attempts of the last hour under this hour's pseudonym, which is what a mutant
\* counts, and under the one before as well.
CountedHere(b) == Within(bucket[b][Epoch(otpClock)], Hour)
Counted(b) ==
  IF Epoch(otpClock) = 0 THEN CountedHere(b)
  ELSE Within(bucket[b][Epoch(otpClock) - 1], Hour) \cup CountedHere(b)

\* Rows that nobody used for two hours are pruned by every transaction.
Pruned(row) == IF \A a \in row : a.at + 2 * Hour < otpClock THEN {} ELSE row

CanSpend(b) == Cardinality(Counted(b)) < Limit(b)
NewAttempt(b) ==
  [at |-> otpClock,
   nth |-> Cardinality({a \in CountedHere(b) : a.at = otpClock}) + 1]
Spend(b) ==
  /\ CanSpend(b)
  /\ bucket' = [c \in Budgets |-> [e \in Epochs |->
                  IF c = b /\ e = Epoch(otpClock)
                  THEN CountedHere(b) \cup {NewAttempt(b)}
                  ELSE Pruned(bucket[c][e])]]
  /\ spent' = [spent EXCEPT ![b] = @ \cup {NewAttempt(b)}]

OtpTick ==
  /\ otpClock < MaxTime
  /\ otpClock' = otpClock + 1
  /\ spent' = [b \in Budgets |->
                 {a \in spent[b] : a.at + Hour > otpClock + 1}]
  /\ UNCHANGED <<bucket, otpLock, intent, code, guess, opened>>

-----------------------------------------------------------------------------
(* A request: reserveOtpRequest, claimOtpDispatch and the message.          *)

Cooling == Within(Counted("request"), Cooldown) # {}

ReserveRequest(i) ==
  /\ otpLock = NoIntent
  /\ intent[i].step = "none" /\ \A j \in 1..(i - 1) : intent[j].step # "none"
  /\ ~Cooling /\ Spend("request")
  /\ intent' = [intent EXCEPT ![i] = [step |-> "claim", at |-> otpClock]]
  /\ UNCHANGED <<otpClock, otpLock, code, guess, opened>>

IntentFresh(i) == intent[i].at + IntentLife > otpClock

\* The claim takes the lock, finds the intent fresh and waits for the rows.
ClaimLocks(i) ==
  /\ intent[i].step = "claim" /\ otpLock = NoIntent
  /\ IntentFresh(i)
  /\ otpLock' = i
  /\ intent' = [intent EXCEPT ![i].step = "locked"]
  /\ UNCHANGED <<otpClock, bucket, spent, code, guess, opened>>

\* Mutant: the codes before it stay alive.
ClaimVoidsNothing(i) ==
  /\ otpLock = i /\ IntentFresh(i)
  /\ otpLock' = NoIntent
  /\ intent' = [intent EXCEPT ![i] = [step |-> "ended", at |-> 0]]
  /\ code' = [code EXCEPT ![i] = [state |-> "live", asked |-> intent[i].at,
                                 at |-> otpClock, attempts |-> 0]]
  /\ UNCHANGED <<otpClock, bucket, spent, guess, opened>>

\* With the rows it looks at the clock again, voids the codes before it and
\* makes its own, which the handler sends if it hears of the commit.
ClaimCommits(i) ==
  /\ otpLock = i /\ IntentFresh(i)
  /\ otpLock' = NoIntent
  /\ intent' = [intent EXCEPT ![i] = [step |-> "ended", at |-> 0]]
  /\ code' = [j \in Intents |->
                IF j = i
                THEN [state |-> "live", asked |-> intent[i].at,
                      at |-> otpClock, attempts |-> 0]
                ELSE IF code[j].state = "live"
                     THEN [code[j] EXCEPT !.state = "consumed"] ELSE code[j]]
  /\ UNCHANGED <<otpClock, bucket, spent, guess, opened>>

\* The claim is refused, times out or dies.
ClaimEnds(i) ==
  /\ intent[i].step \in {"claim", "locked"}
  /\ otpLock' = IF otpLock = i THEN NoIntent ELSE otpLock
  /\ intent' = [intent EXCEPT ![i] = [step |-> "ended", at |-> 0]]
  /\ UNCHANGED <<otpClock, bucket, spent, code, guess, opened>>

-----------------------------------------------------------------------------
(* A guess: verifyOtp.                                                      *)

Unexpired(i) == code[i].at + CodeLife > otpClock
Exists(i) == code[i].state # "none"

Becomes(g, step) ==
  guess' = [guess EXCEPT ![g] = IF step = "idle" THEN NoGuess
                                ELSE [@ EXCEPT !.step = step]]

ReserveBudget(g) ==
  /\ guess[g].step = "idle" /\ otpLock = NoIntent
  /\ Spend("verify")
  /\ Becomes(g, "pick")
  /\ UNCHANGED <<otpClock, otpLock, intent, code, opened>>

\* The newest code is chosen before its row is locked.
Pick(g) ==
  /\ guess[g].step = "pick"
  /\ \/ \E i \in Intents :
          /\ Exists(i)
          /\ \A j \in Intents : Exists(j) => code[j].at < code[i].at \/ j = i
                                             \/ (code[j].at = code[i].at /\ j < i)
          /\ guess' = [guess EXCEPT ![g] = [step |-> "reserve", code |-> i]]
     \/ /\ \A i \in Intents : ~Exists(i)
        /\ Becomes(g, "idle")
  /\ UNCHANGED <<otpClock, bucket, spent, otpLock, intent, code, opened>>

\* No other row is touched: a claim that holds the rows is waited for, and
\* its result is what the update sees.
Guessable(i) == /\ code[i].state = "live" /\ Unexpired(i)
                /\ code[i].attempts < MaxGuesses
Reserve(g) ==
  LET i == guess[g].code
  IN /\ guess[g].step = "reserve"
     /\ \/ /\ Guessable(i)
           /\ code' = [code EXCEPT ![i].attempts = @ + 1]
           /\ Becomes(g, "consume")
        \/ /\ ~Guessable(i)
           /\ Becomes(g, "idle")
           /\ UNCHANGED code
     /\ UNCHANGED <<otpClock, bucket, spent, otpLock, intent, opened>>

\* Mutant: the last look at the code does not ask whether it was consumed.
ConsumableAgain(i) == Unexpired(i) /\ code[i].attempts \in 1..MaxGuesses

Consumable(i) == /\ code[i].state = "live" /\ Unexpired(i)
                 /\ code[i].attempts \in 1..MaxGuesses

\* The handler opens the session (or dies first: that only opens fewer).
Consume(g) ==
  LET i == guess[g].code
  IN /\ guess[g].step = "consume" /\ Consumable(i)
     /\ code' = [code EXCEPT ![i].state = "consumed"]
     /\ opened' = [opened EXCEPT ![i] = @ + 1]
     /\ Becomes(g, "idle")
     /\ UNCHANGED <<otpClock, bucket, spent, otpLock, intent>>

\* Wrong code, rejected consumption, inactive administrator, error or crash.
GuessEnds(g) ==
  /\ guess[g].step # "idle"
  /\ Becomes(g, "idle")
  /\ UNCHANGED <<otpClock, bucket, spent, otpLock, intent, code, opened>>

\* The batch job removes old expired codes, in any order.
PruneCode(i) ==
  /\ Exists(i) /\ ~Unexpired(i) /\ code[i].at + Retention < otpClock
  /\ code' = [code EXCEPT ![i] = NoCode]
  /\ UNCHANGED <<otpClock, bucket, spent, otpLock, intent, guess, opened>>

OtpNext ==
  \/ OtpTick
  \/ \E i \in Intents :
       \/ ReserveRequest(i) \/ ClaimLocks(i) \/ ClaimCommits(i) \/ ClaimEnds(i) \/ PruneCode(i)
  \/ \E g \in Guessers :
       \/ ReserveBudget(g) \/ Pick(g) \/ Reserve(g) \/ Consume(g) \/ GuessEnds(g)

OtpSpec == OtpInit /\ [][OtpNext]_otpVars

-----------------------------------------------------------------------------
(* Properties.                                                              *)

\* Types of the rows and of what the handlers carry.
OtpTypeOK ==
  /\ otpClock \in Nat
  /\ bucket \in [Budgets -> [Epochs -> SUBSET Attempt]]
  /\ spent \in [Budgets -> SUBSET Attempt]
  /\ otpLock \in Intents \cup {NoIntent}
  /\ intent \in [Intents -> Intent]
  /\ code \in [Intents -> Code]
  /\ guess \in [Guessers -> Guess]
  /\ opened \in [Intents -> Nat]

\* One code opens one session, however many right guesses of it run at once.
OneSessionPerCode == \A i \in Intents : opened[i] <= 1

\* What opens a session is the newest code, and it has not expired: neither a
\* guess that began before a newer code was made nor a claim that waited lets
\* an older code through.
NewestOpens ==
  [][\A i \in Intents :
       opened'[i] > opened[i] =>
         /\ Unexpired(i) /\ code[i].asked + IntentLife + CodeLife > otpClock
         /\ \A j \in Intents : code[j].at > code[i].at => ~Exists(j)]_otpVars

\* The budgets hold over every hour, and not only over the hour on the clock
\* under whichever pseudonym an attempt is kept.
BudgetHolds == \A b \in Budgets : Cardinality(spent[b]) <= Limit(b)
=============================================================================
