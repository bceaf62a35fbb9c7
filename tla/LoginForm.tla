------------------------------ MODULE LoginForm ------------------------------
(***************************************************************************)
(* The login page of an applicant in one browser (components/auth/         *)
(* AuthFlow.tsx, OtpForm.tsx, MobileEntryForm.tsx).  The page asks for a   *)
(* code, and sends a guess by itself as soon as every slot has a digit: an *)
(* effect that runs after each render decides it from what is shown, so it *)
(* is part of every action that renders.  What the server makes of a call  *)
(* is OtpLogin; here it is answered in one way or another, or not in time. *)
(***************************************************************************)
EXTENDS Integers, Sequences, SequencesExt

CONSTANTS
  Digits, Blank,
  CodeLength,     \* slots of a code
  Countdown       \* ticks before another code may be asked for

ASSUME FormConstants ==
  /\ Blank \notin Digits
  /\ CodeLength \in Nat \ {0} /\ Countdown \in Nat

VARIABLES
  shown,          \* the form that is shown, or that the browser has left
  digits,         \* the slots
  call,           \* the call whose answer is awaited; `loading' is that there is one
  lastSubmitted,  \* OtpForm's memory of the code it sent by itself
  wait,           \* secondsRemaining
  leaving,        \* a guess was right and the browser is on its way
  entered         \* slots with a digit entered since the last refusal (not kept)

formVars == <<shown, digits, call, lastSubmitted, wait, leaving, entered>>

Slots == 1..CodeLength
Codes == [Slots -> Digits \cup {Blank}]
Cleared == [i \in Slots |-> Blank]
Complete(c) == \A i \in Slots : c[i] \in Digits

FormTypeOK ==
  /\ shown \in {"mobile", "otp", "left"}
  /\ {digits, lastSubmitted} \subseteq Codes
  /\ call \in {"none", "request", "guess"}
  /\ wait \in 0..Countdown /\ leaving \in BOOLEAN
  /\ entered \subseteq Slots

FormInit ==
  /\ shown = "mobile" /\ call = "none" /\ leaving = FALSE
  /\ digits = Cleared /\ lastSubmitted = Cleared
  /\ wait = 0 /\ entered = {}

\* A render of the slots c while a call is awaited, or none, and the effect
\* after it.  last is what the form remembers: nothing if it was just mounted.
ShowsCode(c, awaited, last) ==
  LET sends == Complete(c) /\ awaited = "none" /\ last # c
  IN /\ shown' = "otp" /\ digits' = c
     /\ call' = IF sends THEN "guess" ELSE awaited
     /\ lastSubmitted' = IF sends THEN c ELSE IF Complete(c) THEN last ELSE Cleared

\* A render of the form of the mobile number unmounts the other one.
ShowsMobile(c, awaited) ==
  /\ shown' = "mobile" /\ digits' = c /\ call' = awaited
  /\ lastSubmitted' = Cleared

\* The same form is rendered again.
Rerenders(c, awaited) ==
  IF shown = "otp" THEN ShowsCode(c, awaited, lastSubmitted)
                   ELSE ShowsMobile(c, awaited)

-----------------------------------------------------------------------------
(* The calls.                                                               *)

\* The submission of a number, or the request for another code.
RequestOtp ==
  /\ shown # "left" /\ call = "none"
  /\ shown = "otp" => wait = 0
  /\ call' = "request"
  /\ UNCHANGED <<shown, digits, lastSubmitted, wait, leaving, entered>>

\* A code was sent, or nobody knows whether it was.
RequestEnds ==
  /\ shown # "left" /\ call = "request"
  /\ ShowsCode(digits, "none", IF shown = "otp" THEN lastSubmitted ELSE Cleared)
  /\ wait' = Countdown
  /\ UNCHANGED <<leaving, entered>>

RequestRefused ==
  /\ shown # "left" /\ call = "request"
  /\ Rerenders(digits, "none")
  /\ UNCHANGED <<wait, leaving, entered>>

\* Mutant: a refused code stays in its slots, for the user to mend.
KeptAfterRefusal == digits

AfterRefusal == Cleared

GuessRefused ==
  /\ shown # "left" /\ call = "guess"
  /\ Rerenders(AfterRefusal, "none")
  /\ entered' = {}
  /\ UNCHANGED <<wait, leaving>>

\* The browser is sent to the dashboard; until it is there the form still works.
GuessAccepted ==
  /\ shown # "left" /\ call = "guess"
  /\ Rerenders(digits, "none")
  /\ leaving' = TRUE
  /\ UNCHANGED <<wait, entered>>

Leaves ==
  /\ shown # "left" /\ leaving
  /\ shown' = "left"
  /\ UNCHANGED <<digits, call, lastSubmitted, wait, leaving, entered>>

-----------------------------------------------------------------------------
(* The user.  The slots are disabled while a call is awaited; the button    *)
(* that goes back to the number is not.                                     *)

Edits(c, slots) ==
  /\ shown = "otp" /\ call = "none"
  /\ ShowsCode(c, "none", lastSubmitted)
  /\ entered' = {i \in entered \cup slots : c[i] # Blank}
  /\ UNCHANGED <<wait, leaving>>

HandleChange ==
  \E i \in Slots, d \in Digits \cup {Blank} :
    d # digits[i] /\ Edits([digits EXCEPT ![i] = d], {i})

\* Backspace clears its slot, or the one before if there is nothing in it.
HandleBackspace ==
  \E i \in Slots :
    LET cleared == IF digits[i] # Blank THEN i ELSE i - 1
    IN cleared \in Slots /\ Edits([digits EXCEPT ![cleared] = Blank], {})

HandlePaste ==
  \E i \in Slots : \E pasted \in BoundedSeq(Digits, CodeLength) :
    LET last == i + Len(pasted) - 1
        within == i..(IF last > CodeLength THEN CodeLength ELSE last)
    IN pasted # <<>>
       /\ Edits([j \in Slots |-> IF j \in within THEN pasted[j - i + 1] ELSE digits[j]],
                within)

Back ==
  /\ shown = "otp"
  /\ ShowsMobile(Cleared, call)
  /\ entered' = {}
  /\ UNCHANGED <<wait, leaving>>

\* A second passes; the page is rendered again.
Tick ==
  /\ shown # "left" /\ wait > 0
  /\ wait' = wait - 1
  /\ Rerenders(digits, call)
  /\ UNCHANGED <<leaving, entered>>

FormNext ==
  \/ RequestOtp \/ RequestEnds \/ RequestRefused
  \/ GuessRefused \/ GuessAccepted \/ Leaves
  \/ HandleChange \/ HandleBackspace \/ HandlePaste \/ Back \/ Tick

FormSpec == FormInit /\ [][FormNext]_formVars

-----------------------------------------------------------------------------
(* Properties                                                               *)

\* A guess spends one of the few a code allows, so none is sent that the user
\* did not mean: it is sent by an edit, and each of its digits was entered after
\* the last refusal (components/auth/AuthFlow.tsx:92-94, OtpForm.tsx:57-67).
GuessIsDeliberate ==
  [][call # "guess" /\ call' = "guess"
       => digits' # digits /\ entered' = Slots]_formVars
=============================================================================
