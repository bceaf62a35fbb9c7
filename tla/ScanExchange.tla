---------------------------- MODULE ScanExchange ----------------------------
(***************************************************************************)
(* One scan (lib/facilities-files/scanner.ts): which scanner the           *)
(* environment selects and, when it is the daemon, the exchange over its   *)
(* socket.  The file is written piece by piece while the reply may come in *)
(* fragments, the connection may close or fail and a timer may run out;    *)
(* whatever comes first settles the scan.  The daemon is external.         *)
(***************************************************************************)
EXTENDS Naturals, Sequences

CONSTANTS
  Chunks,      \* pieces that the bytes are cut into
  MaxReply     \* parts of a reply that are listened to

ASSUME ScanConstants == Chunks \in Nat \ {0} /\ MaxReply \in Nat

VARIABLES
  environment,  \* what the variables of the process say
  honest,       \* whether the request states the size of its bytes
  exchange,     \* how far it is
  written,      \* pieces that were written: the command, the chunks, the end mark
  received,     \* pieces that the daemon has read
  answer,       \* what the daemon has sent, part by part
  reply,        \* the parts that have arrived
  scanned       \* the status of the scan

scanVars == <<environment, honest, exchange, written, received, answer, reply, scanned>>

Pieces == Chunks + 2
Answers == {<<"stream:", "OK", "NUL">>, <<"stream:", "name", "FOUND", "NUL">>}
Refusal == <<"limit exceeded", "ERROR", "NUL">>
Babble == <<"stream:", "name", "name", "name", "name", "OK", "NUL">>

\* What the daemon babbles is more than what is listened to, before it ends.
ASSUME BabbleIsTooLong == MaxReply < Len(Babble) - 1

ScanInit ==
  /\ environment \in [disabled : BOOLEAN, production : BOOLEAN,
                      passthrough : BOOLEAN, configured : BOOLEAN]
  /\ honest \in BOOLEAN
  /\ exchange = "none" /\ written = 0 /\ received = 0
  /\ answer = <<>> /\ reply = <<>> /\ scanned = "none"

Settle(status) ==
  /\ exchange' = "settled" /\ scanned' = status
  /\ UNCHANGED <<environment, honest, written, received, answer>>

-----------------------------------------------------------------------------
(* The scan (createFacilitiesScannerFromEnv, scan).                         *)

Bypassed == environment.disabled \/ (environment.passthrough /\ ~environment.production)

BypassScan == exchange = "none" /\ Bypassed /\ Settle("PASSED") /\ UNCHANGED reply

ScanUnavailable ==
  /\ exchange = "none" /\ ~Bypassed /\ ~(environment.configured /\ honest)
  /\ Settle("UNAVAILABLE") /\ UNCHANGED reply

BeginScan ==
  /\ exchange = "none" /\ ~Bypassed /\ environment.configured /\ honest
  /\ exchange' = "connecting"
  /\ UNCHANGED <<environment, honest, written, received, answer, reply, scanned>>

\* The patterns of scan, each at the end of the text but for one NUL.
Ending(text) == IF text = <<>> THEN "nothing" ELSE text[Len(text)]
Unended(text) == IF Ending(text) = "NUL" THEN SubSeq(text, 1, Len(text) - 1) ELSE text

\* Mutant: whatever is not a finding passes.
PassedUnlessFound(text) == IF Ending(Unended(text)) = "FOUND" THEN "FAILED" ELSE "PASSED"

StatusOf(text) ==
  IF Ending(Unended(text)) = "OK" THEN "PASSED"
  ELSE IF Ending(Unended(text)) = "FOUND" THEN "FAILED" ELSE "UNAVAILABLE"

-----------------------------------------------------------------------------
(* The socket (sendClamdInstreamRequest).                                   *)

Listening == exchange \in {"connecting", "writing", "draining", "written"}

ConnectSocket ==
  /\ exchange = "connecting" /\ exchange' = "writing"
  /\ UNCHANGED <<environment, honest, written, received, answer, reply, scanned>>

\* The kernel takes a piece; its buffer may be full after it.
WritePiece ==
  /\ exchange = "writing"
  /\ written' = written + 1
  /\ exchange' \in {"draining", IF written' = Pieces THEN "written" ELSE "writing"}
  /\ UNCHANGED <<environment, honest, received, answer, reply, scanned>>

SocketDrains ==
  /\ exchange = "draining"
  /\ exchange' = IF written = Pieces THEN "written" ELSE "writing"
  /\ UNCHANGED <<environment, honest, written, received, answer, reply, scanned>>

\* A fragment of any length arrives; a reply that ends settles the scan.
ReplyArrives ==
  /\ Listening /\ exchange # "connecting"
  /\ \E n \in Len(reply) + 1 .. Len(answer) :
       /\ reply' = SubSeq(answer, 1, n)
       /\ \/ n > MaxReply /\ Settle("UNAVAILABLE")
          \/ n <= MaxReply /\ answer[n] = "NUL" /\ Settle(StatusOf(reply'))
          \/ /\ n <= MaxReply /\ answer[n] # "NUL"
             /\ UNCHANGED <<environment, honest, exchange, written, received, answer, scanned>>

\* The socket is idle for too long, cannot connect, or a write fails.
SocketFails == Listening /\ Settle("UNAVAILABLE") /\ UNCHANGED reply

\* The daemon closes: what has arrived by then is the reply.
SocketCloses ==
  /\ Listening /\ exchange # "connecting"
  /\ Settle(StatusOf(reply)) /\ UNCHANGED reply

\* The daemon reads, judges all of the bytes, or refuses or babbles at any time.
DaemonReads ==
  /\ Listening /\ received < written /\ answer = <<>> /\ received' = received + 1
  /\ UNCHANGED <<environment, honest, exchange, written, answer, reply, scanned>>

DaemonAnswers ==
  /\ Listening /\ exchange # "connecting" /\ answer = <<>>
  /\ answer' \in {Refusal, Babble} \cup (IF received = Pieces THEN Answers ELSE {})
  /\ UNCHANGED <<environment, honest, exchange, written, received, reply, scanned>>

ScanNext ==
  \/ BypassScan \/ ScanUnavailable \/ BeginScan \/ ConnectSocket \/ WritePiece \/ SocketDrains
  \/ ReplyArrives \/ SocketFails \/ SocketCloses \/ DaemonReads \/ DaemonAnswers

ScanSpec == ScanInit /\ [][ScanNext]_scanVars

ScanTypeOK ==
  /\ exchange \in {"none", "connecting", "writing", "draining", "written", "settled"}
  /\ written \in 0 .. Pieces /\ received \in 0 .. written
  /\ answer \in Answers \cup {Refusal, Babble, <<>>}
  /\ Len(reply) <= Len(answer) /\ reply = SubSeq(answer, 1, Len(reply))
  /\ scanned \in {"none", "PASSED", "FAILED", "UNAVAILABLE"}
  /\ exchange = "settled" <=> scanned # "none"

\* A verdict is the daemon's own, about all of the bytes: a file passes only when
\* it was read to the end and called clean, and fails only when something was
\* found in it, however the reply was cut to pieces and whatever closed, failed
\* or ran out meanwhile; the one way round the daemon is the switch of the owner
\* or, outside of production, that of the developers ("A timeout, socket error,
\* or malformed scanner interaction must never be treated as a clean scan").
VerdictIsHeard ==
  LET Said(a) == received = Pieces /\ answer = a IN
  /\ scanned = "PASSED" =>
       \/ Said(<<"stream:", "OK", "NUL">>)
       \/ environment.disabled
       \/ environment.passthrough /\ ~environment.production
  /\ scanned = "FAILED" => Said(<<"stream:", "name", "FOUND", "NUL">>)
=============================================================================
