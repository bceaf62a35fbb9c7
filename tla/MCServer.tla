------------------------------ MODULE MCServer ------------------------------
(* The parts of the system that share nothing, for TLC: on the server the   *)
(* one-time passwords of a mobile, the way of uploads through one process,  *)
(* the reading of a file, its scan, and a maintenance job; in the browser   *)
(* the login page, the visits that a session leads through, the facilities  *)
(* wizard and the last step of the legacy one.  One part runs, chosen for   *)
(* good.                                                                    *)
EXTENDS OtpLogin, UploadGate, FileContent, ScanExchange, MaintenanceJob,
        LoginForm, SessionVisits, FacilitiesWizard, FinalReview

CONSTANTS x1, x2, x3, x4, amir, bita, v1

VARIABLE part

MCSubjectOf == [a \in Arrivals |-> IF a = x4 THEN bita ELSE amir]
MCRowCount == <<2, 2>>
MCPoison == {<<1, 1>>}
MCPadding == [l \in Lists |-> 2]

\* The files: documents of every kind and size, containers of office documents,
\* and archives of up to three members, good ones and with each flaw.
File(size, extension, opening, whole) ==
  [size |-> size, extension |-> extension, opening |-> opening, whole |-> whole,
   streams |-> {}, directory |-> "absent", ends |-> TRUE, members |-> <<>>]
AnyFile == File(1, "pdf", "PDF", TRUE)
Member(name, holds) ==
  [name |-> name, intact |-> TRUE, readable |-> TRUE, packed |-> 1, unpacked |-> 1,
   agrees |-> TRUE, holds |-> holds]
Document == Member("scan.pdf", "PDF")
List == Member("list.csv", "TEXT")
Folder == Member("folder/", "nothing")

MCMembers ==
  {Document, List, Folder,
   Member("scan.pdf", "ARCHIVE"), Member("list.csv", "Types"), Member("other", "UNKNOWN"),
   Member("form.docx", "OOXML"), Member("form.docx", "undecodable"), Member("../scan.pdf", "PDF"),
   Member(ContentTypes, "Types"), Member(ContentTypes, "undecodable"),
   Member(OfficeRoot.DOCX, "w:document"), Member(OfficeRoot.DOCX, "PDF"),
   Member(OfficeRoot.XLSX, "workbook"), Member(OfficeRoot.XLSX, "workbook without sheets"),
   [Document EXCEPT !.intact = FALSE], [Document EXCEPT !.readable = FALSE],
   [Document EXCEPT !.agrees = FALSE], [Document EXCEPT !.packed = 0],
   [Document EXCEPT !.holds = "nothing", !.packed = 0, !.unpacked = 0],
   [Document EXCEPT !.unpacked = 3], [List EXCEPT !.unpacked = 2], [Folder EXCEPT !.unpacked = 2]}

MCFiles ==
  {File(s, x, o, w) : s \in 0 .. 2, x \in {"pdf", "jpeg", "csv", "zip", "other", "nameless"},
                      o \in {"PDF", "JPG", "TEXT", "BINARY"}, w \in BOOLEAN}
  \cup {[File(1, x, "CFB", w) EXCEPT !.streams = s] :
          x \in {"doc", "xls", "zip"}, w \in BOOLEAN, s \in SUBSET {"worddocument", "book"}}
  \cup {[File(1, "zip", o, TRUE) EXCEPT !.directory = d, !.ends = e, !.members = m] :
          o \in {"BINARY", "PDF"}, d \in {"strange", "sound"}, e \in BOOLEAN,
          m \in SeqOf({Document, Folder}, 3)}
  \cup {[File(1, x, "BINARY", TRUE) EXCEPT !.directory = "sound", !.members = m] :
          x \in {"zip", "docx", "xlsx"}, m \in SeqOf(MCMembers, 2)}

MCMemberHead ==
  [n \in {"scan.pdf", "list.csv", "form.docx"} |->
     CASE n = "scan.pdf" -> "PDF" [] n = "list.csv" -> "TEXT" [] OTHER -> "OOXML"]

serverVars == <<part, otpVars, gateVars, contentVars, scanVars, jobVars,
                formVars, visitVars, wizardVars, reviewVars>>

\* The parts that are not the one named.
NotOtp == <<part, gateVars, contentVars, scanVars, jobVars,
            formVars, visitVars, wizardVars, reviewVars>>
NotGate == <<part, otpVars, contentVars, scanVars, jobVars,
             formVars, visitVars, wizardVars, reviewVars>>
NotContent == <<part, otpVars, gateVars, scanVars, jobVars,
                formVars, visitVars, wizardVars, reviewVars>>
NotScan == <<part, otpVars, gateVars, contentVars, jobVars,
             formVars, visitVars, wizardVars, reviewVars>>
NotJob == <<part, otpVars, gateVars, contentVars, scanVars,
            formVars, visitVars, wizardVars, reviewVars>>
NotForm == <<part, otpVars, gateVars, contentVars, scanVars,
             jobVars, visitVars, wizardVars, reviewVars>>
NotVisit == <<part, otpVars, gateVars, contentVars, scanVars,
              jobVars, formVars, wizardVars, reviewVars>>
NotWizard == <<part, otpVars, gateVars, contentVars, scanVars,
               jobVars, formVars, visitVars, reviewVars>>
NotReview == <<part, otpVars, gateVars, contentVars, scanVars,
               jobVars, formVars, visitVars, wizardVars>>

Init ==
  /\ part \in {"otp", "gate", "content", "scan", "job", "form", "visit", "wizard", "review"}
  /\ ContentInit /\ (part # "content" => sample = AnyFile)
  /\ ScanInit /\ (part # "scan" => honest /\ \A x \in DOMAIN environment : environment[x])
  /\ WizardInit /\ (part # "wizard" => typed = v1)
  /\ ReviewInit /\ (part # "review" => standing = "unpaid")
  /\ OtpInit /\ GateInit /\ JobInit /\ FormInit /\ VisitInit

Next ==
  \/ part = "otp" /\ OtpNext /\ UNCHANGED NotOtp
  \/ part = "gate" /\ GateNext /\ UNCHANGED NotGate
  \/ part = "content" /\ ContentNext /\ UNCHANGED NotContent
  \/ part = "scan" /\ ScanNext /\ UNCHANGED NotScan
  \/ part = "job" /\ JobNext /\ UNCHANGED NotJob
  \/ part = "form" /\ FormNext /\ UNCHANGED NotForm
  \/ part = "visit" /\ VisitNext /\ UNCHANGED NotVisit
  \/ part = "wizard" /\ WizardNext /\ UNCHANGED NotWizard
  \/ part = "review" /\ ReviewNext /\ UNCHANGED NotReview

\* GateFairness and JobFairness, each for its part.
Fairness ==
  /\ \A a \in Arrivals :
       /\ WF_gateVars(part = "gate" /\ Respond(a))
       /\ WF_gateVars(part = "gate" /\ Acquire(a))
       /\ WF_gateVars(part = "gate" /\ \E accepted \in BOOLEAN : BodyEnds(a, accepted))
       /\ WF_gateVars(part = "gate" /\ QueueTimeout(a))
       /\ WF_gateVars(part = "gate" /\ Release(a))
       /\ WF_gateVars(part = "gate" /\ ScanEnds(a))
  /\ \A p \in Parents :
       /\ WF_jobVars(part = "job" /\ StartJob(p))
       /\ WF_jobVars(part = "job" /\ GiveUp(p))
       /\ WF_jobVars(part = "job" /\ HearExit(p))
       /\ WF_jobVars(part = "job" /\ JobCommits(p))
       /\ WF_jobVars(part = "job" /\ JobFails(p))
       /\ WF_jobVars(part = "job" /\ RecordCompletion(p))
       /\ WF_jobVars(part = "job" /\ Disconnect(p))
       /\ WF_jobVars(part = "job" /\ Works(p))

Spec == Init /\ [][Next]_serverVars /\ Fairness

TypeOK ==
  /\ OtpTypeOK /\ GateTypeOK /\ ContentTypeOK /\ ScanTypeOK /\ JobTypeOK
  /\ FormTypeOK /\ VisitTypeOK /\ WizardTypeOK /\ ReviewTypeOK

\* EveryRowVisited, while a job is what runs.
RowsAreVisited ==
  \A q \in Queues : \A r \in RowsOf(q) :
    []<>(part = "job" => \E p \in Parents : Visiting(p, q, r))
=============================================================================
