-------------------------- MODULE LegacyFilesProofs --------------------------
(* What holds of LegacyFiles for any number of pages, reviewers, slots,     *)
(* objects and writes of the draft, proved.                                 *)
EXTENDS LegacyFiles, TLAPS

-----------------------------------------------------------------------------
(* Types.                                                                    *)

Files == Objects \cup {None}
RequestSteps == {"none", "journal", "write", "ready", "commit", "respond", "ended"}
RequestType == [step : RequestSteps, by : Tabs \cup Admins \cup {None},
                generation : Nat, version : Nat]
StatusType == {"DRAFT", "PENDING_PAYMENT"} \cup Reviewed
PageType == [open : {TRUE}, version : Nat, text : SUBSET Tabs, files : [Slots -> Files],
             generations : [Slots -> Nat], readOnly : BOOLEAN]
DeskType == [open : {TRUE}, version : Nat, status : StatusType, text : SUBSET Tabs,
             files : [AllSlots -> Files]]
DraftType == [version : Nat, text : SUBSET Tabs, files : [Slots -> Files]]
BindingType == [file : Files, generation : Nat]

LegacyTypeOK ==
  /\ status \in StatusType /\ payment \in {"none", "progress", "settled"}
  /\ draft \in DraftType
  /\ binding \in [AllSlots -> BindingType]
  /\ candidate \in [Objects -> {"none", "STAGING", "READY", "COMMITTED", "ABANDONED"}]
  /\ bytes \subseteq Objects /\ unlinking \subseteq Objects
  /\ intent \in [Objects -> {"none", "PENDING", "AUTHORIZED", "RETAINED", "SUCCEEDED"}]
  /\ request \in [Objects -> RequestType]
  /\ page \in [Tabs -> PageType \cup {Closed}]
  /\ desk \in [Admins -> DeskType \cup {Closed}]

LEMMA IdleType == Idle \in RequestType /\ Idle.by = None /\ Idle.step = "none"
  BY DEF Idle, RequestType, RequestSteps

LEMMA ClosedPage == Closed.open = FALSE
  BY DEF Closed

\* An open page has the fields it was loaded with.
LEMMA OpenPages ==
  ASSUME LegacyTypeOK, NEW t \in Tabs, page[t].open
  PROVE  page[t] \in PageType
  BY ClosedPage DEF LegacyTypeOK

LEMMA OpenDesks ==
  ASSUME LegacyTypeOK, NEW a \in Admins, desk[a].open
  PROVE  desk[a] \in DeskType
  BY ClosedPage DEF LegacyTypeOK

LEMMA BlockedPages ==
  ASSUME LegacyTypeOK, NEW t \in Tabs, Blocks(t)
  PROVE  page' \in [Tabs -> PageType \cup {Closed}]
  BY DEF Blocks, LegacyTypeOK

\* The draft after a save, and the page that hears of it.
LEMMA SavedDraft ==
  ASSUME LegacyTypeOK, NEW t \in Tabs, page[t].open, Save(t)
  PROVE  /\ draft' \in DraftType /\ draft'.version = draft.version + 1
         /\ draft'.text = page[t].text /\ draft'.files = page[t].files
         /\ draft.version \in Nat
<1>1. page[t] \in PageType
  BY OpenPages
<1>2. page[t].text \in SUBSET Tabs /\ page[t].files \in [Slots -> Files]
  BY <1>1 DEF PageType
<1>3. draft.version \in Nat
  BY DEF LegacyTypeOK, DraftType
<1>. QED  BY <1>2, <1>3 DEF Save, DraftType

LEMMA HeardPages ==
  ASSUME LegacyTypeOK, NEW t \in Tabs, page[t].open, Hears(t)
  PROVE  page' \in [Tabs -> PageType \cup {Closed}]
<1>1. CASE Blocks(t)
  BY <1>1, BlockedPages
<1>2. CASE page' = [page EXCEPT ![t].version = draft.version + 1]
  <2>1. PICK row \in PageType, n \in Nat : row = page[t] /\ n = draft.version + 1
    BY OpenPages DEF LegacyTypeOK, DraftType
  <2>2. [row EXCEPT !.version = n] \in PageType
    BY DEF PageType
  <2>3. page' = [page EXCEPT ![t] = [row EXCEPT !.version = n]]
    BY <1>2, <2>1
  <2>. QED  BY <2>2, <2>3 DEF LegacyTypeOK
<1>. QED  BY <1>1, <1>2 DEF Hears

\* What a step of a request makes of its record.
LEMMA RequestChanges ==
  ASSUME LegacyTypeOK, NEW o \in Objects, NEW step \in RequestSteps
  PROVE  /\ [request EXCEPT ![o].step = step] \in [Objects -> RequestType]
         /\ [request EXCEPT ![o].step = step][o].by = request[o].by
         /\ [request EXCEPT ![o].step = step][o].step = step
         /\ \A p \in Objects \ {o} : [request EXCEPT ![o].step = step][p] = request[p]
         /\ [Idle EXCEPT !.step = step] \in RequestType
         /\ [Idle EXCEPT !.step = step].by = None
         /\ [Idle EXCEPT !.step = step].step = step
<1>1. PICK row \in RequestType : row = request[o]
  BY DEF LegacyTypeOK
<1>2. [row EXCEPT !.step = step] \in RequestType /\ [row EXCEPT !.step = step].by = row.by
      /\ [row EXCEPT !.step = step].step = step
  BY DEF RequestType
<1>3. [request EXCEPT ![o].step = step] = [request EXCEPT ![o] = [row EXCEPT !.step = step]]
  BY <1>1
<1>4. [Idle EXCEPT !.step = step] \in RequestType /\ [Idle EXCEPT !.step = step].by = None
      /\ [Idle EXCEPT !.step = step].step = step
  BY DEF Idle, RequestType
<1>. QED  BY <1>1, <1>2, <1>3, <1>4 DEF LegacyTypeOK

\* What a request may do without having stored anything: begin, end, or be left
\* by its page.
RequestsMove ==
  \A o \in Objects :
    /\ \/ request'[o].step = request[o].step
       \/ request[o].step = "none" /\ request'[o].step = "journal" /\ o \notin Historical
       \/ request[o].step # "none" /\ request'[o].step = "ended"
    /\ \/ request'[o].by = request[o].by
       \/ request'[o].by \notin Admins
       \/ SlotOf[o] = Certificate

\* The steps of pages and of reviewers that change nothing they share.
PageStep ==
  \/ \E t \in Tabs :
       \/ OpenPage(t) \/ Edit(t) \/ Refused(t)
       \/ \E o \in Objects : BeginUpload(t, o)
  \/ \E a \in Admins, o \in Objects : BeginCertificate(a, o)
  \/ \E o \in Objects : Respond(o) \/ RequestEnds(o)

LEMMA PageStepIs ==
  ASSUME LegacyTypeOK, PageStep
  PROVE  /\ UNCHANGED <<status, payment, draft, binding, candidate, bytes, unlinking, intent, desk>>
         /\ page' \in [Tabs -> PageType \cup {Closed}]
         /\ request' \in [Objects -> RequestType]
         /\ RequestsMove
<1>. USE DEF application, disk
<1>1. page \in [Tabs -> PageType \cup {Closed}] /\ request \in [Objects -> RequestType]
  BY DEF LegacyTypeOK
<1>2. UNCHANGED request => RequestsMove
  BY DEF RequestsMove
<1>3. ASSUME NEW t \in Tabs, OpenPage(t)
      PROVE  /\ page' \in [Tabs -> PageType \cup {Closed}]
             /\ request' \in [Objects -> RequestType] /\ RequestsMove
  <2>. DEFINE new == [open |-> TRUE, version |-> draft.version, text |-> draft.text,
                      files |-> draft.files,
                      generations |-> [s \in Slots |-> binding[s].generation],
                      readOnly |-> status \notin {"DRAFT", "NEEDS_EDIT"}]
  <2>1. draft.version \in Nat /\ draft.text \in SUBSET Tabs /\ draft.files \in [Slots -> Files]
    BY DEF LegacyTypeOK, DraftType
  <2>2. [s \in Slots |-> binding[s].generation] \in [Slots -> Nat]
    BY DEF LegacyTypeOK, BindingType, AllSlots
  <2>3. new \in PageType
    BY <2>1, <2>2 DEF PageType
  <2>4. page' = [page EXCEPT ![t] = new]
    BY <1>3 DEF OpenPage
  <2>. HIDE DEF new
  <2>5. page' \in [Tabs -> PageType \cup {Closed}]
    BY <1>1, <2>3, <2>4
  <2>6. ASSUME NEW row \in RequestType
        PROVE  /\ [row EXCEPT !.by = None] \in RequestType
               /\ [row EXCEPT !.by = None].step = row.step
               /\ [row EXCEPT !.by = None].by = None
    BY DEF RequestType
  <2>7. \A o \in Objects : /\ request'[o] \in RequestType
                           /\ request'[o].step = request[o].step
                           /\ request'[o].by \in {request[o].by, None}
    <3>. SUFFICES ASSUME NEW o \in Objects
                  PROVE  /\ request'[o] \in RequestType
                         /\ request'[o].step = request[o].step
                         /\ request'[o].by \in {request[o].by, None}
      OBVIOUS
    <3>1. PICK row \in RequestType : row = request[o]
      BY <1>1
    <3>2. request'[o] = [row EXCEPT !.by = None] \/ request'[o] = row
      BY <1>3, <3>1 DEF OpenPage
    <3>. QED  BY <2>6, <3>1, <3>2
  <2>8. request' \in [Objects -> RequestType]
    BY <1>3, <2>7 DEF OpenPage
  <2>. QED  BY <2>5, <2>7, <2>8, LegacyConstants DEF RequestsMove
<1>4. ASSUME NEW t \in Tabs, Edit(t)
      PROVE  page' \in [Tabs -> PageType \cup {Closed}]
  <2>1. PICK row \in PageType : row = page[t]
    BY <1>4, OpenPages DEF Edit
  <2>2. [row EXCEPT !.text = row.text \cup {t}] \in PageType
    BY DEF PageType
  <2>3. page' = [page EXCEPT ![t] = [row EXCEPT !.text = row.text \cup {t}]]
    BY <1>4, <2>1 DEF Edit
  <2>. QED  BY <1>1, <2>2, <2>3
<1>5. ASSUME NEW t \in Tabs, NEW o \in Objects, BeginUpload(t, o)
      PROVE  request' \in [Objects -> RequestType] /\ RequestsMove
  <2>1. PICK n : n = page[t].generations[SlotOf[o]]
    OBVIOUS
  <2>2. n \in Nat
    <3>1. page[t] \in PageType
      BY <1>5, OpenPages DEF BeginUpload, MayAct
    <3>2. SlotOf[o] \in Slots
      BY <1>5 DEF BeginUpload
    <3>. QED  BY <2>1, <3>1, <3>2 DEF PageType
  <2>. DEFINE new == [step |-> "journal", by |-> t, version |-> 0, generation |-> n]
  <2>3. new \in RequestType /\ new.step = "journal" /\ new.by = t
    BY <2>2 DEF RequestType, RequestSteps
  <2>4. request' = [request EXCEPT ![o] = new]
    BY <1>5, <2>1 DEF BeginUpload
  <2>. HIDE DEF new
  <2>5. request[o].step = "none" /\ o \notin Historical /\ t \notin Admins
    BY <1>5, LegacyConstants DEF BeginUpload
  <2>. QED  BY <1>1, <2>3, <2>4, <2>5 DEF RequestsMove
<1>6. ASSUME NEW a \in Admins, NEW o \in Objects, BeginCertificate(a, o)
      PROVE  request' \in [Objects -> RequestType] /\ RequestsMove
  <2>. DEFINE new == [Idle EXCEPT !.step = "journal", !.by = a]
  <2>1. new \in RequestType /\ new.step = "journal"
    BY DEF Idle, RequestType, RequestSteps
  <2>2. request' = [request EXCEPT ![o] = new] /\ SlotOf[o] = Certificate
        /\ request[o].step = "none"
    BY <1>6 DEF BeginCertificate
  <2>. HIDE DEF new
  <2>3. o \notin Historical
    BY <2>2, LegacyConstants
  <2>. QED  BY <1>1, <2>1, <2>2, <2>3 DEF RequestsMove
<1>7. ASSUME NEW o \in Objects, Respond(o) \/ RequestEnds(o)
      PROVE  request' \in [Objects -> RequestType] /\ RequestsMove
  <2>1. "ended" \in RequestSteps
    BY DEF RequestSteps
  <2>. DEFINE new == [Idle EXCEPT !.step = "ended"]
  <2>2. new \in RequestType /\ new.step = "ended" /\ new.by = None
    BY <2>1, RequestChanges
  <2>3. request' = [request EXCEPT ![o] = new] /\ request[o].step # "none"
    BY <1>7 DEF Respond, RequestEnds
  <2>. HIDE DEF new
  <2>. QED  BY <1>1, <2>2, <2>3, LegacyConstants DEF RequestsMove
<1>8. ASSUME NEW o \in Objects, Respond(o)
      PROVE  page' \in [Tabs -> PageType \cup {Closed}]
  <2>1. CASE page' = page
    BY <1>1, <2>1
  <2>2. CASE page' # page
    <3>. DEFINE t == request[o].by
                s == SlotOf[o]
    <3>1. t \in Tabs /\ page[t].open
      BY <1>8, <2>2 DEF Respond
    <3>2. PICK row \in PageType : row = page[t]
      BY <3>1, OpenPages
    <3>3. PICK n \in Nat, m \in Nat : n = request[o].version /\ m = request[o].generation + 1
      BY <1>1 DEF RequestType
    <3>4. [row EXCEPT !.version = n, !.files[s] = o, !.generations[s] = m] \in PageType
      BY DEF PageType, Files
    <3>5. page' = [page EXCEPT ![t] = [row EXCEPT !.version = n, !.files[s] = o,
                                                  !.generations[s] = m]]
      BY <1>8, <3>1, <3>2, <3>3 DEF Respond
    <3>. QED  BY <1>1, <3>1, <3>4, <3>5
  <2>. QED  BY <2>1, <2>2
<1>9. ASSUME NEW o \in Objects, RequestEnds(o)
      PROVE  page' \in [Tabs -> PageType \cup {Closed}]
  BY <1>1, <1>9, BlockedPages DEF RequestEnds
<1>10. CASE \E t \in Tabs : OpenPage(t)
  BY <1>3, <1>10 DEF OpenPage
<1>11. CASE \E t \in Tabs : Edit(t)
  BY <1>1, <1>2, <1>4, <1>11 DEF Edit
<1>12. CASE \E t \in Tabs : Refused(t)
  BY <1>1, <1>2, <1>12, BlockedPages DEF Refused
<1>13. CASE \E t \in Tabs, o \in Objects : BeginUpload(t, o)
  BY <1>1, <1>5, <1>13 DEF BeginUpload
<1>14. CASE \E a \in Admins, o \in Objects : BeginCertificate(a, o)
  BY <1>1, <1>6, <1>14 DEF BeginCertificate
<1>15. CASE \E o \in Objects : Respond(o)
  BY <1>7, <1>8, <1>15 DEF Respond
<1>16. CASE \E o \in Objects : RequestEnds(o)
  BY <1>7, <1>9, <1>16 DEF RequestEnds
<1>. QED  BY <1>10, <1>11, <1>12, <1>13, <1>14, <1>15, <1>16 DEF PageStep

-----------------------------------------------------------------------------
(* What the steps do to the draft, the objects and the pages, for the         *)
(* invariants that follow.                                                    *)

\* A save writes what the page shows, and submits or pays for it.
SaveStep == \E t \in Tabs : SaveDraft(t) \/ StartPayment(t) \/ Resubmit(t)

LEMMA SaveStepIs ==
  ASSUME LegacyTypeOK, SaveStep
  PROVE  /\ UNCHANGED <<binding, candidate, bytes, unlinking, intent, request, desk>>
         /\ status' \in StatusType /\ payment' \in {"none", "progress", "settled"}
         /\ page' \in [Tabs -> PageType \cup {Closed}]
         /\ draft' \in DraftType /\ draft.version \in Nat
         /\ draft'.version = draft.version + 1 /\ Fits(draft'.files)
         /\ status' = status \/ (status' = "SUBMITTED" /\ Qualified)
<1>. SUFFICES ASSUME NEW t \in Tabs, SaveDraft(t) \/ StartPayment(t) \/ Resubmit(t)
              PROVE  /\ UNCHANGED <<binding, candidate, bytes, unlinking, intent, request, desk>>
                     /\ status' \in StatusType /\ payment' \in {"none", "progress", "settled"}
                     /\ page' \in [Tabs -> PageType \cup {Closed}]
                     /\ draft' \in DraftType /\ draft.version \in Nat
                     /\ draft'.version = draft.version + 1 /\ Fits(draft'.files)
                     /\ status' = status \/ (status' = "SUBMITTED" /\ Qualified)
  BY DEF SaveStep
<1>1. page[t].open /\ Valid(t) /\ Save(t) /\ (Hears(t) \/ Blocks(t))
  BY DEF SaveDraft, StartPayment, Resubmit, MayAct
<1>2. page' \in [Tabs -> PageType \cup {Closed}]
  BY <1>1, HeardPages, BlockedPages
<1>3. /\ draft' \in DraftType /\ draft'.version = draft.version + 1
      /\ draft'.files = page[t].files /\ draft.version \in Nat
  BY <1>1, SavedDraft
<1>4. Fits(draft'.files)
  BY <1>1, <1>3 DEF Valid
<1>5. /\ UNCHANGED <<binding, candidate, bytes, unlinking, intent, request, desk>>
      /\ status' = status \/ (status' = "SUBMITTED" /\ Qualified)
      /\ payment' = payment \/ payment' = "progress"
  <2>1. CASE SaveDraft(t)
    BY <2>1 DEF SaveDraft, application, disk
  <2>2. CASE StartPayment(t)
    BY <2>2 DEF StartPayment, disk
  <2>3. CASE Resubmit(t)
    BY <2>3 DEF Resubmit, disk
  <2>. QED  BY <2>1, <2>2, <2>3
<1>6. status' \in StatusType /\ payment' \in {"none", "progress", "settled"}
  BY <1>5 DEF LegacyTypeOK, StatusType, Reviewed
<1>. QED  BY <1>2, <1>3, <1>4, <1>5, <1>6

\* The payment and the completion change nothing but the application's row.
LEMMA PayStepIs ==
  ASSUME LegacyTypeOK, Pays \/ Complete
  PROVE  /\ UNCHANGED <<draft, binding, candidate, bytes, unlinking, intent, request, page, desk>>
         /\ status' \in StatusType /\ payment' \in {"none", "progress", "settled"}
         /\ \/ status' = status
            \/ status' = "SUBMITTED" /\ Qualified
            \/ status' \notin Reviewed
  BY DEF Pays, Complete, LegacyTypeOK, StatusType, Reviewed, disk

\* A reviewer's page is opened, or decides on the version it was opened at.
LEMMA DeskStepIs ==
  ASSUME LegacyTypeOK, NEW a \in Admins, OpenDesk(a) \/ Decide(a)
  PROVE  /\ UNCHANGED <<payment, binding, candidate, bytes, unlinking, intent, request, page>>
         /\ status' \in StatusType /\ draft' \in DraftType /\ draft'.files = draft.files
         /\ desk' \in [Admins -> DeskType \cup {Closed}]
         /\ draft.version \in Nat
         /\ \A b \in Admins \ {a} : desk'[b] = desk[b]
         /\ \/ /\ UNCHANGED <<status, draft>>
               /\ desk'[a].version = draft.version /\ desk'[a].text = draft.text
               /\ desk'[a].status = status
               /\ \A s \in AllSlots : desk'[a].files[s] = binding[s].file
            \/ /\ Current(a) /\ draft'.version = draft.version + 1
               /\ status \in Reviewed /\ status' \in Reviewed \ {"VALIDATION_COMPLETED"}
               /\ desk'[a] = Closed
<1>. USE DEF disk, application
<1>1. /\ desk \in [Admins -> DeskType \cup {Closed}]
      /\ draft.version \in Nat /\ draft.text \in SUBSET Tabs /\ draft \in DraftType
      /\ status \in StatusType
      /\ binding \in [AllSlots -> BindingType]
  BY DEF LegacyTypeOK, DraftType
<1>2. CASE OpenDesk(a)
  <2>. DEFINE new == [open |-> TRUE, version |-> draft.version, status |-> status,
                      text |-> draft.text, files |-> [s \in AllSlots |-> binding[s].file]]
  <2>1. [s \in AllSlots |-> binding[s].file] \in [AllSlots -> Files]
    BY <1>1 DEF BindingType
  <2>2. new \in DeskType
    BY <1>1, <2>1 DEF DeskType
  <2>3. /\ new.version = draft.version /\ new.text = draft.text /\ new.status = status
        /\ \A s \in AllSlots : new.files[s] = binding[s].file
    OBVIOUS
  <2>4. desk' = [desk EXCEPT ![a] = new]
    BY <1>2 DEF OpenDesk
  <2>. HIDE DEF new
  <2>5. UNCHANGED <<status, payment, draft, binding, candidate, bytes, unlinking, intent,
                    request, page>>
    BY <1>2 DEF OpenDesk
  <2>. QED  BY <1>1, <2>2, <2>3, <2>4, <2>5
<1>3. CASE Decide(a)
  <2>1. /\ Current(a) /\ status' \in AllowedNext(status) \ {"VALIDATION_COMPLETED"}
        /\ draft' = [draft EXCEPT !.version = draft.version + 1]
        /\ desk' = [desk EXCEPT ![a] = Closed]
        /\ UNCHANGED <<payment, binding, candidate, bytes, unlinking, intent, request, page>>
    BY <1>3 DEF Decide
  <2>2. /\ draft' \in DraftType /\ draft'.files = draft.files
        /\ draft'.version = draft.version + 1
    BY <1>1, <2>1 DEF DraftType
  <2>3. status \in Reviewed /\ status' \in Reviewed \ {"VALIDATION_COMPLETED"}
    BY <2>1 DEF AllowedNext, Reviewed
  <2>. QED  BY <1>1, <2>1, <2>2, <2>3 DEF StatusType
<1>. QED  BY <1>2, <1>3

\* A new file on its way: journalled, written, ready.
LEMMA StoreStepIs ==
  ASSUME LegacyTypeOK, NEW o \in Objects, Journal(o) \/ Write(o) \/ MarkReady(o)
  PROVE  /\ UNCHANGED <<status, payment, draft, binding, unlinking, intent, page, desk>>
         /\ candidate' \in [Objects -> {"none", "STAGING", "READY", "COMMITTED", "ABANDONED"}]
         /\ bytes' \subseteq Objects
         /\ request' \in [Objects -> RequestType]
         /\ \A p \in Objects \ {o} : request'[p] = request[p] /\ candidate'[p] = candidate[p]
         /\ \A p \in Objects \ {o} : p \in bytes' <=> p \in bytes
         /\ request'[o].by = request[o].by
         /\ \/ /\ request[o].step = "journal" /\ request'[o].step = "write"
               /\ candidate'[o] = "STAGING" /\ bytes' = bytes
            \/ /\ request[o].step = "write" /\ request'[o].step = "ready"
               /\ candidate'[o] = candidate[o] /\ o \in bytes'
            \/ /\ request[o].step = "ready" /\ request'[o].step = "commit"
               /\ candidate[o] = "STAGING" /\ candidate'[o] = "READY" /\ bytes' = bytes
<1>. USE DEF application, disk, Steps
<1>1. /\ candidate \in [Objects -> {"none", "STAGING", "READY", "COMMITTED", "ABANDONED"}]
      /\ bytes \subseteq Objects
  BY DEF LegacyTypeOK
<1>2. {"write", "ready", "commit"} \subseteq RequestSteps
  BY DEF RequestSteps
<1>3. CASE Journal(o)
  <2>1. request' = [request EXCEPT ![o].step = "write"]
    BY <1>3 DEF Journal
  <2>2. /\ request' \in [Objects -> RequestType]
        /\ request'[o].by = request[o].by /\ request'[o].step = "write"
        /\ \A p \in Objects \ {o} : request'[p] = request[p]
    BY <1>2, <2>1, RequestChanges
  <2>. QED  BY <1>1, <1>3, <2>2 DEF Journal
<1>4. CASE Write(o)
  <2>1. request' = [request EXCEPT ![o].step = "ready"]
    BY <1>4 DEF Write
  <2>2. /\ request' \in [Objects -> RequestType]
        /\ request'[o].by = request[o].by /\ request'[o].step = "ready"
        /\ \A p \in Objects \ {o} : request'[p] = request[p]
    BY <1>2, <2>1, RequestChanges
  <2>. QED  BY <1>1, <1>4, <2>2 DEF Write
<1>5. CASE MarkReady(o)
  <2>1. request' = [request EXCEPT ![o].step = "commit"]
    BY <1>5 DEF MarkReady
  <2>2. /\ request' \in [Objects -> RequestType]
        /\ request'[o].by = request[o].by /\ request'[o].step = "commit"
        /\ \A p \in Objects \ {o} : request'[p] = request[p]
    BY <1>2, <2>1, RequestChanges
  <2>. QED  BY <1>1, <1>5, <2>2 DEF MarkReady
<1>. QED  BY <1>3, <1>4, <1>5

\* The two commits turn one binding to the new object.
LEMMA AttachIs ==
  ASSUME LegacyTypeOK, NEW o \in Objects, Attach(o)
  PROVE  /\ candidate[o] = "READY" /\ candidate'[o] = "COMMITTED"
         /\ candidate' \in [Objects -> {"none", "STAGING", "READY", "COMMITTED", "ABANDONED"}]
         /\ \A p \in Objects \ {o} : candidate'[p] = candidate[p]
         /\ binding' \in [AllSlots -> BindingType]
         /\ binding'[SlotOf[o]].file = o
         /\ \A s \in AllSlots \ {SlotOf[o]} : binding'[s] = binding[s]
         /\ intent' \in [Objects -> {"none", "PENDING", "AUTHORIZED", "RETAINED", "SUCCEEDED"}]
         /\ \A p \in Objects : \/ intent'[p] = intent[p]
                               \/ intent'[p] = "PENDING" /\ p = binding[SlotOf[o]].file
         /\ \A p \in Objects : p = binding[SlotOf[o]].file => intent'[p] = "PENDING"
<1>1. SlotOf[o] \in AllSlots
  BY LegacyConstants
<1>2. PICK s \in AllSlots : s = SlotOf[o]
  BY <1>1
<1>3. /\ binding \in [AllSlots -> BindingType]
      /\ candidate \in [Objects -> {"none", "STAGING", "READY", "COMMITTED", "ABANDONED"}]
      /\ intent \in [Objects -> {"none", "PENDING", "AUTHORIZED", "RETAINED", "SUCCEEDED"}]
  BY DEF LegacyTypeOK
<1>4. PICK n \in Nat : n = binding[s].generation + 1
  BY <1>3 DEF BindingType
<1>5. [file |-> o, generation |-> n] \in BindingType
  BY DEF BindingType, Files
<1>6. /\ candidate[o] = "READY" /\ candidate' = [candidate EXCEPT ![o] = "COMMITTED"]
      /\ binding' = [binding EXCEPT ![s] = [file |-> o, generation |-> n]]
      /\ intent' = [p \in Objects |-> IF p = binding[s].file THEN "PENDING" ELSE intent[p]]
  BY <1>2, <1>4 DEF Attach
<1>7. /\ candidate'[o] = "COMMITTED"
      /\ candidate' \in [Objects -> {"none", "STAGING", "READY", "COMMITTED", "ABANDONED"}]
      /\ \A p \in Objects \ {o} : candidate'[p] = candidate[p]
  BY <1>3, <1>6
<1>8. /\ binding' \in [AllSlots -> BindingType]
      /\ binding'[s].file = o
      /\ \A r \in AllSlots \ {s} : binding'[r] = binding[r]
  BY <1>3, <1>5, <1>6
<1>9. /\ intent' \in [Objects -> {"none", "PENDING", "AUTHORIZED", "RETAINED", "SUCCEEDED"}]
      /\ \A p \in Objects : IF p = binding[s].file THEN intent'[p] = "PENDING"
                            ELSE intent'[p] = intent[p]
  BY <1>3, <1>6
<1>. QED  BY <1>2, <1>6, <1>7, <1>8, <1>9

\* A commit stores the new object in its slot and counts the draft up.
CommitStep(o) == CommitUpload(o) \/ CommitCertificate(o)

LEMMA CommitStepIs ==
  ASSUME LegacyTypeOK, NEW o \in Objects, CommitStep(o)
  PROVE  /\ Attach(o) /\ UNCHANGED <<payment, bytes, unlinking, page>>
         /\ status' \in StatusType /\ draft' \in DraftType
         /\ draft.version \in Nat /\ draft'.version > draft.version
         /\ request' \in [Objects -> RequestType]
         /\ request[o].step = "commit" /\ request'[o].step \in {"respond", "ended"}
         /\ request'[o].by \in {request[o].by, None}
         /\ \A p \in Objects \ {o} : request'[p] = request[p]
         /\ desk' \in [Admins -> DeskType \cup {Closed}]
         /\ \/ /\ SlotOf[o] \in Slots /\ Editable /\ UNCHANGED <<status, desk>>
               /\ draft'.files[SlotOf[o]] = o
               /\ \A s \in Slots \ {SlotOf[o]} : draft'.files[s] = draft.files[s]
            \/ /\ request[o].by \in Admins /\ Current(request[o].by)
               /\ MayCertify /\ status' = "VALIDATION_COMPLETED"
               /\ draft'.files = draft.files
               /\ desk'[request[o].by] = Closed
               /\ \A b \in Admins \ {request[o].by} : desk'[b] = desk[b]
<1>. USE DEF disk, application
<1>1. /\ draft \in DraftType /\ draft.version \in Nat /\ draft.files \in [Slots -> Files]
      /\ request \in [Objects -> RequestType] /\ status \in StatusType
      /\ desk \in [Admins -> DeskType \cup {Closed}]
  BY DEF LegacyTypeOK, DraftType
<1>2. CASE CommitUpload(o)
  <2>1. PICK s \in Slots : s = SlotOf[o]
    BY <1>2 DEF CommitUpload
  <2>2. PICK n \in Nat : n = draft.version + 1
    BY <1>1
  <2>3. /\ Attach(o) /\ Editable /\ request[o].step = "commit"
        /\ draft' = [draft EXCEPT !.version = n, !.files[s] = o]
        /\ request' = [request EXCEPT ![o].step = "respond", ![o].version = n]
        /\ UNCHANGED <<status, payment, bytes, unlinking, page, desk>>
    BY <1>2, <2>1, <2>2 DEF CommitUpload
  <2>4. PICK files \in [Slots -> Files] : files = draft.files
    BY <1>1
  <2>5. PICK d \in DraftType : d = draft
    BY <1>1
  <2>6. [files EXCEPT ![s] = o] \in [Slots -> Files]
    BY DEF Files
  <2>7. draft' = [d EXCEPT !.version = n, !.files = [files EXCEPT ![s] = o]]
    BY <2>3, <2>4, <2>5
  <2>8. /\ draft' \in DraftType /\ draft'.version = n
        /\ draft'.files = [files EXCEPT ![s] = o]
    BY <2>6, <2>7 DEF DraftType
  <2>9. PICK row \in RequestType : row = request[o]
    BY <1>1
  <2>10. [row EXCEPT !.step = "respond", !.version = n] \in RequestType
         /\ [row EXCEPT !.step = "respond", !.version = n].step = "respond"
         /\ [row EXCEPT !.step = "respond", !.version = n].by = row.by
    BY DEF RequestType, RequestSteps
  <2>11. request' = [request EXCEPT ![o] = [row EXCEPT !.step = "respond", !.version = n]]
    BY <2>3, <2>9
  <2>12. /\ request' \in [Objects -> RequestType]
         /\ request'[o].step = "respond" /\ request'[o].by = request[o].by
         /\ \A p \in Objects \ {o} : request'[p] = request[p]
    BY <1>1, <2>9, <2>10, <2>11
  <2>13. draft'.files[s] = o /\ \A r \in Slots \ {s} : draft'.files[r] = draft.files[r]
    BY <2>4, <2>8
  <2>14. draft'.version > draft.version
    BY <1>1, <2>2, <2>8
  <2>. QED  BY <1>1, <2>1, <2>3, <2>8, <2>12, <2>13, <2>14
<1>3. CASE CommitCertificate(o)
  <2>1. PICK a \in Admins : a = request[o].by
    BY <1>3 DEF CommitCertificate
  <2>2. PICK n \in Nat : n = draft.version + (IF status = "VALIDATION_COMPLETED" THEN 1 ELSE 2)
    BY <1>1
  <2>3. /\ Attach(o) /\ Current(a) /\ MayCertify /\ request[o].step = "commit"
        /\ status' = "VALIDATION_COMPLETED"
        /\ draft' = [draft EXCEPT !.version = n]
        /\ desk' = [desk EXCEPT ![a] = Closed]
        /\ request' = [request EXCEPT ![o] = [Idle EXCEPT !.step = "ended"]]
        /\ UNCHANGED <<payment, bytes, unlinking, page>>
    BY <1>3, <2>1, <2>2 DEF CommitCertificate
  <2>4. draft' \in DraftType /\ draft'.version = n /\ draft'.files = draft.files
    BY <1>1, <2>3 DEF DraftType
  <2>5. n > draft.version
    BY <1>1, <2>2
  <2>6. "ended" \in RequestSteps
    BY DEF RequestSteps
  <2>. DEFINE new == [Idle EXCEPT !.step = "ended"]
  <2>7. new \in RequestType /\ new.by = None /\ new.step = "ended"
    BY <2>6, RequestChanges
  <2>. HIDE DEF new
  <2>8. /\ request' \in [Objects -> RequestType]
        /\ request'[o].step = "ended" /\ request'[o].by = None
        /\ \A p \in Objects \ {o} : request'[p] = request[p]
    BY <1>1, <2>3, <2>7 DEF new
  <2>9. /\ desk' \in [Admins -> DeskType \cup {Closed}]
        /\ desk'[a] = Closed /\ \A b \in Admins \ {a} : desk'[b] = desk[b]
    BY <1>1, <2>3
  <2>10. status' \in StatusType
    BY <2>3 DEF StatusType, Reviewed
  <2>. QED  BY <1>1, <2>1, <2>3, <2>4, <2>5, <2>8, <2>9, <2>10
<1>. QED  BY <1>2, <1>3 DEF CommitStep

\* The maintenance job touches only what is marked for deletion or abandoned.
JobStep(o) == Authorize(o) \/ Retain(o) \/ Abandon(o) \/ Unlink(o) \/ UnlinkFails(o)

LEMMA JobStepIs ==
  ASSUME LegacyTypeOK, NEW o \in Objects, JobStep(o)
  PROVE  /\ UNCHANGED <<status, payment, draft, binding, request, page, desk>>
         /\ candidate' \in [Objects -> {"none", "STAGING", "READY", "COMMITTED", "ABANDONED"}]
         /\ intent' \in [Objects -> {"none", "PENDING", "AUTHORIZED", "RETAINED", "SUCCEEDED"}]
         /\ bytes' \subseteq Objects /\ unlinking' \subseteq Objects
         /\ \A p \in Objects : (intent'[p] = "none") <=> (intent[p] = "none")
         /\ \/ /\ candidate[o] = "COMMITTED" /\ ~Referenced(o) /\ UNCHANGED <<candidate, bytes>>
               /\ unlinking' = unlinking \cup {o}
            \/ UNCHANGED <<candidate, bytes, unlinking>>
            \/ /\ candidate[o] \in {"STAGING", "READY", "ABANDONED"} /\ UNCHANGED bytes
               /\ candidate' = [candidate EXCEPT ![o] = "ABANDONED"]
               /\ unlinking' = unlinking \cup {o}
            \/ /\ o \in unlinking /\ UNCHANGED candidate
               /\ bytes' = bytes \ {o} /\ unlinking' = unlinking \ {o}
            \/ /\ UNCHANGED <<candidate, bytes>> /\ unlinking' = unlinking \ {o}
<1>. USE DEF disk, application
<1>1. /\ candidate \in [Objects -> {"none", "STAGING", "READY", "COMMITTED", "ABANDONED"}]
      /\ intent \in [Objects -> {"none", "PENDING", "AUTHORIZED", "RETAINED", "SUCCEEDED"}]
      /\ bytes \subseteq Objects /\ unlinking \subseteq Objects
  BY DEF LegacyTypeOK
<1>2. CASE Authorize(o)
  BY <1>1, <1>2 DEF Authorize
<1>3. CASE Retain(o)
  BY <1>1, <1>3 DEF Retain
<1>4. CASE Abandon(o)
  BY <1>1, <1>4 DEF Abandon
<1>5. CASE Unlink(o)
  <2>1. \/ intent' = intent
        \/ intent' = [intent EXCEPT ![o] = IF intent[o] = "AUTHORIZED" THEN "SUCCEEDED"
                                                                      ELSE intent[o]]
    BY <1>5 DEF Unlink
  <2>2. /\ intent' \in [Objects -> {"none", "PENDING", "AUTHORIZED", "RETAINED", "SUCCEEDED"}]
        /\ \A p \in Objects : (intent'[p] = "none") <=> (intent[p] = "none")
    BY <1>1, <2>1
  <2>. QED  BY <1>1, <1>5, <2>2 DEF Unlink
<1>6. CASE UnlinkFails(o)
  BY <1>1, <1>6 DEF UnlinkFails
<1>. QED  BY <1>2, <1>3, <1>4, <1>5, <1>6 DEF JobStep

\* Every step is one of these.
LEMMA StepKinds ==
  Next <=> \/ PageStep \/ SaveStep \/ Pays \/ Complete
           \/ \E a \in Admins : OpenDesk(a) \/ Decide(a)
           \/ \E o \in Objects : Journal(o) \/ Write(o) \/ MarkReady(o)
           \/ \E o \in Objects : CommitStep(o)
           \/ \E o \in Objects : JobStep(o)
  BY DEF Next, PageStep, SaveStep, CommitStep, JobStep

LEMMA TypesKept == LegacyTypeOK /\ [Next]_vars => LegacyTypeOK'
<1>. SUFFICES ASSUME LegacyTypeOK, [Next]_vars PROVE LegacyTypeOK'
  OBVIOUS
<1>1. CASE UNCHANGED vars
  BY <1>1 DEF vars, LegacyTypeOK
<1>2. CASE PageStep
  BY <1>2, PageStepIs DEF LegacyTypeOK
<1>3. CASE SaveStep
  BY <1>3, SaveStepIs DEF LegacyTypeOK
<1>4. CASE Pays \/ Complete
  BY <1>4, PayStepIs DEF LegacyTypeOK
<1>5. CASE \E a \in Admins : OpenDesk(a) \/ Decide(a)
  BY <1>5, DeskStepIs DEF LegacyTypeOK
<1>6. CASE \E o \in Objects : Journal(o) \/ Write(o) \/ MarkReady(o)
  BY <1>6, StoreStepIs DEF LegacyTypeOK
<1>7. CASE \E o \in Objects : CommitStep(o)
  BY <1>7, CommitStepIs, AttachIs DEF LegacyTypeOK
<1>8. CASE \E o \in Objects : JobStep(o)
  BY <1>8, JobStepIs DEF LegacyTypeOK
<1>. QED  BY <1>1, <1>2, <1>3, <1>4, <1>5, <1>6, <1>7, <1>8, StepKinds

-----------------------------------------------------------------------------
(* The objects: what has been stored, what is named and what may be unlinked. *)

\* Only what was committed, or was there before the journal, is ever named or
\* was; a candidate that is ready has its bytes; and what is about to be unlinked
\* can no longer become ready, nor is it named.
ObjectSound(o) ==
  /\ o \in Historical => candidate[o] = "none" /\ request[o].step = "none" /\ o \in bytes
  /\ request[o].step \in {"none", "journal"} => candidate[o] = "none"
  /\ request[o].step \in {"write", "ready"} => candidate[o] \in {"STAGING", "ABANDONED"}
  /\ request[o].step = "ready" /\ candidate[o] = "STAGING" => o \in bytes
  /\ candidate[o] = "READY" => o \in bytes
  /\ o \in unlinking => candidate[o] \in {"ABANDONED", "COMMITTED"}
  /\ WasShown(o) \/ Referenced(o) => o \in Historical \/ candidate[o] = "COMMITTED"
  /\ Referenced(o) => o \in bytes /\ o \notin unlinking
  /\ request[o].by \in Admins => SlotOf[o] = Certificate
ObjectInv == \A o \in Objects : ObjectSound(o)

\* A bound slot and the saved draft name the same file.
BoundInv ==
  \A s \in Slots : binding[s].file # None => draft.files[s] = binding[s].file

\* A reviewer's page of the draft's version shows what there is: whatever changes the
\* text or a binding counts the version up.
DeskInv ==
  \A a \in Admins : desk[a].open =>
    /\ desk[a].version <= draft.version
    /\ desk[a].version = draft.version =>
         /\ desk[a].text = draft.text
         /\ \A s \in AllSlots : desk[a].files[s] = binding[s].file

LegacyInv ==
  /\ LegacyTypeOK /\ ObjectInv /\ BoundInv /\ SubmittedIsComplete /\ DeskInv

\* Where no binding changes and the draft adopts no file, nothing new is named.
LEMMA NothingNewIsNamed ==
  ASSUME UNCHANGED <<binding, intent>>,
         \A s \in Slots : draft'.files[s] \in {draft.files[s], binding[s].file, None}
  PROVE  \A o \in Objects : /\ Referenced(o)' => Referenced(o)
                            /\ WasShown(o)' = WasShown(o)
  BY LegacyConstants DEF Referenced, WasShown, AllSlots

LEMMA SavedFilesFit ==
  ASSUME Fits(draft'.files)
  PROVE  \A s \in Slots : draft'.files[s] \in {draft.files[s], binding[s].file, None}
  BY DEF Fits

\* Steps of pages, saves and decisions leave the objects as they are.
LEMMA ObjectsFrame ==
  ASSUME ObjectInv, UNCHANGED <<binding, intent, candidate, bytes, unlinking>>,
         RequestsMove \/ UNCHANGED request,
         \A s \in Slots : draft'.files[s] \in {draft.files[s], binding[s].file, None}
  PROVE  ObjectInv'
<1>. SUFFICES ASSUME NEW o \in Objects PROVE ObjectSound(o)'
  BY DEF ObjectInv
<1>1. /\ Referenced(o)' => Referenced(o)
      /\ WasShown(o)' = WasShown(o)
  BY NothingNewIsNamed
<1>2. \/ request'[o] = request[o]
      \/ /\ \/ request'[o].step = request[o].step
            \/ request[o].step = "none" /\ request'[o].step = "journal" /\ o \notin Historical
            \/ request[o].step # "none" /\ request'[o].step = "ended"
         /\ \/ request'[o].by = request[o].by
            \/ request'[o].by \notin Admins
            \/ SlotOf[o] = Certificate
  BY DEF RequestsMove
<1>. QED  BY <1>1, <1>2 DEF ObjectInv, ObjectSound

\* A step of one object, and the bindings and drafts as they are.
LEMMA ObjectMoves ==
  ASSUME ObjectInv, NEW o \in Objects, UNCHANGED <<draft, binding, unlinking, intent>>,
         o \notin Historical, candidate[o] # "COMMITTED", o \notin unlinking \/ candidate'[o] = candidate[o],
         \A p \in Objects \ {o} : request'[p] = request[p] /\ candidate'[p] = candidate[p],
         \A p \in Objects \ {o} : p \in bytes' <=> p \in bytes,
         request'[o].by = request[o].by,
         request'[o].step \notin {"none", "journal"},
         request'[o].step \in {"write", "ready"} => candidate'[o] \in {"STAGING", "ABANDONED"},
         request'[o].step = "ready" => o \in bytes',
         candidate'[o] = "READY" => o \in bytes'
  PROVE  ObjectInv'
<1>1. \A p \in Objects : /\ Referenced(p)' = Referenced(p)
                         /\ WasShown(p)' = WasShown(p)
  BY DEF Referenced, WasShown
<1>2. ~Referenced(o) /\ ~WasShown(o)
  BY DEF ObjectInv, ObjectSound
<1>3. ASSUME NEW p \in Objects, p # o
      PROVE  ObjectSound(p)'
  <2>1. /\ request'[p] = request[p] /\ candidate'[p] = candidate[p]
        /\ p \in bytes' <=> p \in bytes
    BY <1>3
  <2>. QED  BY <1>1, <2>1 DEF ObjectInv, ObjectSound
<1>4. ObjectSound(o)'
  BY <1>1, <1>2 DEF ObjectInv, ObjectSound
<1>. QED  BY <1>3, <1>4 DEF ObjectInv

LEMMA StoreKeepsObjects ==
  ASSUME LegacyTypeOK, ObjectInv, NEW o \in Objects, Journal(o) \/ Write(o) \/ MarkReady(o)
  PROVE  ObjectInv'
<1>1. /\ UNCHANGED <<draft, binding, unlinking, intent>>
      /\ \A p \in Objects \ {o} : request'[p] = request[p] /\ candidate'[p] = candidate[p]
      /\ \A p \in Objects \ {o} : p \in bytes' <=> p \in bytes
      /\ request'[o].by = request[o].by
      /\ \/ /\ request[o].step = "journal" /\ request'[o].step = "write"
            /\ candidate'[o] = "STAGING" /\ bytes' = bytes
         \/ /\ request[o].step = "write" /\ request'[o].step = "ready"
            /\ candidate'[o] = candidate[o] /\ o \in bytes'
         \/ /\ request[o].step = "ready" /\ request'[o].step = "commit"
            /\ candidate[o] = "STAGING" /\ candidate'[o] = "READY" /\ bytes' = bytes
  BY StoreStepIs
<1>2. ObjectSound(o)
  BY DEF ObjectInv
<1>3. CASE /\ request[o].step = "journal" /\ request'[o].step = "write"
           /\ candidate'[o] = "STAGING" /\ bytes' = bytes
  BY <1>1, <1>2, <1>3, ObjectMoves DEF ObjectSound
<1>4. CASE /\ request[o].step = "write" /\ request'[o].step = "ready"
           /\ candidate'[o] = candidate[o] /\ o \in bytes'
  BY <1>1, <1>2, <1>4, ObjectMoves DEF ObjectSound
<1>5. CASE /\ request[o].step = "ready" /\ request'[o].step = "commit"
           /\ candidate[o] = "STAGING" /\ candidate'[o] = "READY" /\ bytes' = bytes
  BY <1>1, <1>2, <1>5, ObjectMoves DEF ObjectSound
<1>. QED  BY <1>1, <1>3, <1>4, <1>5

\* The object that is committed was ready, so it has its bytes and is not about to
\* be unlinked; the one it replaces was shown before.
LEMMA CommitKeepsObjects ==
  ASSUME LegacyTypeOK, ObjectInv, NEW o \in Objects, CommitStep(o)
  PROVE  ObjectInv'
<1>1. /\ UNCHANGED <<bytes, unlinking>>
      /\ request[o].step = "commit" /\ request'[o].step \in {"respond", "ended"}
      /\ request'[o].by \in {request[o].by, None}
      /\ \A p \in Objects \ {o} : request'[p] = request[p]
      /\ Attach(o)
  BY CommitStepIs
<1>2. /\ candidate[o] = "READY" /\ candidate'[o] = "COMMITTED"
      /\ \A p \in Objects \ {o} : candidate'[p] = candidate[p]
      /\ binding'[SlotOf[o]].file = o
      /\ \A s \in AllSlots \ {SlotOf[o]} : binding'[s] = binding[s]
      /\ \A p \in Objects : \/ intent'[p] = intent[p]
                            \/ intent'[p] = "PENDING" /\ p = binding[SlotOf[o]].file
  BY <1>1, AttachIs
<1>3. SlotOf[o] \in AllSlots
  BY LegacyConstants
<1>4. \A s \in Slots : draft'.files[s] = draft.files[s] \/ draft'.files[s] = o
  <2>1. CASE /\ SlotOf[o] \in Slots /\ draft'.files[SlotOf[o]] = o
             /\ \A s \in Slots \ {SlotOf[o]} : draft'.files[s] = draft.files[s]
    BY <2>1
  <2>2. CASE draft'.files = draft.files
    BY <2>2
  <2>. QED  BY <2>1, <2>2, CommitStepIs
<1>5. ASSUME NEW p \in Objects, p # o
      PROVE  /\ Referenced(p)' => Referenced(p)
             /\ WasShown(p)' => WasShown(p)
  <2>1. \A s \in AllSlots : binding'[s].file = p => binding[s].file = p
    BY <1>2, <1>5
  <2>2. intent'[p] = intent[p] \/ binding[SlotOf[o]].file = p
    BY <1>2
  <2>. QED  BY <1>3, <1>4, <1>5, <2>1, <2>2 DEF Referenced, WasShown
<1>6. ASSUME NEW p \in Objects, p # o
      PROVE  ObjectSound(p)'
  <2>1. /\ request'[p] = request[p] /\ candidate'[p] = candidate[p]
        /\ UNCHANGED <<bytes, unlinking>> /\ ObjectSound(p)
    BY <1>1, <1>2, <1>6 DEF ObjectInv
  <2>. QED  BY <1>5, <1>6, <2>1 DEF ObjectSound
<1>7. ObjectSound(o)'
  <2>1. ObjectSound(o)
    BY DEF ObjectInv
  <2>. QED  BY <1>1, <1>2, <2>1, LegacyConstants DEF ObjectSound
<1>. QED  BY <1>6, <1>7 DEF ObjectInv

LEMMA JobKeepsObjects ==
  ASSUME LegacyTypeOK, ObjectInv, NEW o \in Objects, JobStep(o)
  PROVE  ObjectInv'
<1>1. /\ UNCHANGED <<draft, binding, request>>
      /\ \A p \in Objects : (intent'[p] = "none") <=> (intent[p] = "none")
      /\ \/ /\ candidate[o] = "COMMITTED" /\ ~Referenced(o) /\ UNCHANGED <<candidate, bytes>>
            /\ unlinking' = unlinking \cup {o}
         \/ UNCHANGED <<candidate, bytes, unlinking>>
         \/ /\ candidate[o] \in {"STAGING", "READY", "ABANDONED"} /\ UNCHANGED bytes
            /\ candidate' = [candidate EXCEPT ![o] = "ABANDONED"]
            /\ unlinking' = unlinking \cup {o}
         \/ /\ o \in unlinking /\ UNCHANGED candidate
            /\ bytes' = bytes \ {o} /\ unlinking' = unlinking \ {o}
         \/ /\ UNCHANGED <<candidate, bytes>> /\ unlinking' = unlinking \ {o}
  BY JobStepIs
<1>2. \A p \in Objects : /\ Referenced(p)' = Referenced(p)
                         /\ WasShown(p)' = WasShown(p)
  BY <1>1 DEF Referenced, WasShown
<1>3. DOMAIN candidate = Objects /\ candidate \in [Objects -> {"none", "STAGING", "READY", "COMMITTED", "ABANDONED"}]
  BY DEF LegacyTypeOK
<1>. SUFFICES ASSUME NEW p \in Objects PROVE ObjectSound(p)'
  BY DEF ObjectInv
<1>4. ObjectSound(p) /\ ObjectSound(o)
  BY DEF ObjectInv
<1>5. CASE /\ candidate[o] = "COMMITTED" /\ ~Referenced(o) /\ UNCHANGED <<candidate, bytes>>
           /\ unlinking' = unlinking \cup {o}
  BY <1>1, <1>2, <1>4, <1>5 DEF ObjectSound
<1>6. CASE UNCHANGED <<candidate, bytes, unlinking>>
  BY <1>1, <1>2, <1>4, <1>6 DEF ObjectSound
<1>7. CASE /\ candidate[o] \in {"STAGING", "READY", "ABANDONED"} /\ UNCHANGED bytes
           /\ candidate' = [candidate EXCEPT ![o] = "ABANDONED"]
           /\ unlinking' = unlinking \cup {o}
  <2>1. CASE p = o
    BY <1>1, <1>2, <1>3, <1>4, <1>7, <2>1 DEF ObjectSound
  <2>2. CASE p # o
    <3>1. candidate'[p] = candidate[p] /\ (p \in unlinking' <=> p \in unlinking)
      BY <1>3, <1>7, <2>2
    <3>. QED  BY <1>1, <1>2, <1>4, <1>7, <3>1 DEF ObjectSound
  <2>. QED  BY <2>1, <2>2
<1>8. CASE /\ o \in unlinking /\ UNCHANGED candidate
           /\ bytes' = bytes \ {o} /\ unlinking' = unlinking \ {o}
  <2>1. CASE p = o
    BY <1>1, <1>2, <1>4, <1>8, <2>1 DEF ObjectSound
  <2>2. CASE p # o
    BY <1>1, <1>2, <1>4, <1>8, <2>2 DEF ObjectSound
  <2>. QED  BY <2>1, <2>2
<1>9. CASE UNCHANGED <<candidate, bytes>> /\ unlinking' = unlinking \ {o}
  BY <1>1, <1>2, <1>4, <1>9 DEF ObjectSound
<1>. QED  BY <1>1, <1>5, <1>6, <1>7, <1>8, <1>9

LEMMA ObjectsKept == LegacyTypeOK /\ ObjectInv /\ [Next]_vars => ObjectInv'
<1>. SUFFICES ASSUME LegacyTypeOK, ObjectInv, [Next]_vars PROVE ObjectInv'
  OBVIOUS
<1>1. CASE UNCHANGED vars
  BY <1>1, ObjectsFrame DEF vars
<1>2. CASE PageStep
  BY <1>2, PageStepIs, ObjectsFrame
<1>3. CASE SaveStep
  <2>1. \A s \in Slots : draft'.files[s] \in {draft.files[s], binding[s].file, None}
    BY <1>3, SaveStepIs, SavedFilesFit
  <2>. QED  BY <1>3, <2>1, SaveStepIs, ObjectsFrame
<1>4. CASE Pays \/ Complete
  BY <1>4, PayStepIs, ObjectsFrame
<1>5. CASE \E a \in Admins : OpenDesk(a) \/ Decide(a)
  BY <1>5, DeskStepIs, ObjectsFrame
<1>6. CASE \E o \in Objects : Journal(o) \/ Write(o) \/ MarkReady(o)
  BY <1>6, StoreKeepsObjects
<1>7. CASE \E o \in Objects : CommitStep(o)
  BY <1>7, CommitKeepsObjects
<1>8. CASE \E o \in Objects : JobStep(o)
  BY <1>8, JobKeepsObjects
<1>. QED  BY <1>1, <1>2, <1>3, <1>4, <1>5, <1>6, <1>7, <1>8, StepKinds

-----------------------------------------------------------------------------
(* The draft and its bindings, the documents of what is reviewed, and the     *)
(* reviewers' pages.                                                          *)

\* What most steps leave alone.
LEMMA OtherSteps ==
  ASSUME LegacyTypeOK, [Next]_vars
  PROVE  \/ SaveStep \/ Pays \/ Complete
         \/ \E a \in Admins : OpenDesk(a) \/ Decide(a)
         \/ \E o \in Objects : CommitStep(o)
         \/ UNCHANGED <<status, payment, draft, binding, desk>>
<1>1. CASE UNCHANGED vars
  BY <1>1 DEF vars
<1>2. CASE PageStep
  BY <1>2, PageStepIs
<1>3. CASE \E o \in Objects : Journal(o) \/ Write(o) \/ MarkReady(o)
  BY <1>3, StoreStepIs
<1>4. CASE \E o \in Objects : JobStep(o)
  BY <1>4, JobStepIs
<1>. QED  BY <1>1, <1>2, <1>3, <1>4, StepKinds

\* A commit for a slot of the draft, or for the certificate.
LEMMA CommitKinds ==
  ASSUME LegacyTypeOK, ObjectInv, NEW o \in Objects, CommitStep(o)
  PROVE  /\ binding'[SlotOf[o]].file = o
         /\ \A s \in AllSlots \ {SlotOf[o]} : binding'[s] = binding[s]
         /\ SlotOf[o] \in AllSlots /\ o # None
         /\ \/ /\ SlotOf[o] \in Slots /\ Editable /\ UNCHANGED <<status, payment, desk>>
               /\ draft'.files[SlotOf[o]] = o
               /\ \A s \in Slots \ {SlotOf[o]} : draft'.files[s] = draft.files[s]
            \/ /\ SlotOf[o] = Certificate /\ MayCertify /\ status' = "VALIDATION_COMPLETED"
               /\ UNCHANGED payment
               /\ draft'.files = draft.files
  BY CommitStepIs, AttachIs, LegacyConstants DEF ObjectInv, ObjectSound

LEMMA BoundKept ==
  ASSUME LegacyTypeOK, ObjectInv, BoundInv, [Next]_vars
  PROVE  BoundInv'
<1>1. CASE UNCHANGED <<binding, draft>>
  BY <1>1 DEF BoundInv
<1>2. CASE SaveStep
  BY <1>2, SaveStepIs DEF BoundInv, Fits
<1>3. CASE \E a \in Admins : OpenDesk(a) \/ Decide(a)
  BY <1>3, DeskStepIs DEF BoundInv
<1>4. CASE \E o \in Objects : CommitStep(o)
  BY <1>4, CommitKinds, LegacyConstants DEF BoundInv, AllSlots
<1>5. CASE Pays \/ Complete
  BY <1>1, <1>5, PayStepIs
<1>. QED  BY <1>1, <1>2, <1>3, <1>4, <1>5, OtherSteps

\* Whatever submits an application looks at its documents in the same
\* transaction, and no slot is ever emptied.
LEMMA CompleteKept ==
  ASSUME LegacyTypeOK, ObjectInv, SubmittedIsComplete, [Next]_vars
  PROVE  SubmittedIsComplete'
<1>1. Qualified => \A s \in Slots : binding[s].file # None
  BY LegacyConstants DEF Qualified, LegacyTypeOK
<1>2. "SUBMITTED" # "VALIDATION_COMPLETED" /\ "VALIDATION_COMPLETED" \in Reviewed
  BY DEF Reviewed
<1>3. CASE UNCHANGED <<binding, status>>
  BY <1>3 DEF SubmittedIsComplete
<1>4. CASE SaveStep \/ Pays \/ Complete
  <2>1. /\ binding' = binding
        /\ \/ status' = status
           \/ status' = "SUBMITTED" /\ Qualified
           \/ status' \notin Reviewed
    BY <1>4, SaveStepIs, PayStepIs
  <2>. QED  BY <1>1, <1>2, <1>3, <2>1 DEF SubmittedIsComplete
<1>5. CASE \E a \in Admins : OpenDesk(a) \/ Decide(a)
  <2>1. /\ binding' = binding
        /\ \/ status' = status
           \/ status \in Reviewed /\ status' \in Reviewed \ {"VALIDATION_COMPLETED"}
    BY <1>5, DeskStepIs
  <2>. QED  BY <1>3, <2>1 DEF SubmittedIsComplete
<1>6. CASE \E o \in Objects : CommitStep(o)
  <2>1. PICK o \in Objects : CommitStep(o)
    BY <1>6
  <2>2. \A s \in AllSlots : binding[s].file # None => binding'[s].file # None
    BY <2>1, CommitKinds
  <2>3. CASE status' = status
    BY <2>2, <2>3 DEF SubmittedIsComplete, AllSlots
  <2>4. CASE SlotOf[o] = Certificate /\ MayCertify /\ status' = "VALIDATION_COMPLETED"
    <3>1. status \in Reviewed
      BY <2>4, <1>2 DEF MayCertify, AllowedNext, Reviewed
    <3>2. binding'[Certificate].file # None
      BY <2>1, <2>4, CommitKinds
    <3>. QED  BY <2>2, <3>1, <3>2 DEF SubmittedIsComplete, AllSlots
  <2>. QED  BY <2>1, <2>3, <2>4, CommitKinds
<1>. QED  BY <1>3, <1>4, <1>5, <1>6, OtherSteps

LEMMA DesksFollow ==
  ASSUME LegacyTypeOK, DeskInv, [Next]_vars
  PROVE  DeskInv'
<1>1. /\ draft.version \in Nat
      /\ \A a \in Admins : desk[a].open => desk[a].version \in Nat
  <2>1. \A a \in Admins : desk[a].open => desk[a].version \in Nat
    BY OpenDesks DEF DeskType
  <2>. QED  BY <2>1 DEF LegacyTypeOK, DraftType
<1>2. CASE UNCHANGED <<draft, binding, desk>>
  BY <1>2 DEF DeskInv
<1>3. ASSUME draft'.version \in Nat, draft'.version > draft.version,
             \A a \in Admins : desk'[a].open => desk'[a] = desk[a]
      PROVE  DeskInv'
  <2>. SUFFICES ASSUME NEW a \in Admins, desk'[a].open
                PROVE  desk'[a].version <= draft'.version /\ desk'[a].version # draft'.version
    BY DEF DeskInv
  <2>. QED  BY <1>1, <1>3 DEF DeskInv
<1>4. CASE SaveStep
  <2>1. draft'.version \in Nat /\ draft'.version > draft.version /\ desk' = desk
    BY <1>4, SaveStepIs DEF DraftType
  <2>. QED  BY <1>3, <2>1
<1>5. CASE Pays \/ Complete
  BY <1>2, <1>5, PayStepIs
<1>6. CASE \E a \in Admins : OpenDesk(a) \/ Decide(a)
  <2>1. PICK a \in Admins : OpenDesk(a) \/ Decide(a)
    BY <1>6
  <2>2. CASE /\ UNCHANGED <<status, draft>>
             /\ desk'[a].version = draft.version /\ desk'[a].text = draft.text
             /\ desk'[a].status = status
             /\ \A s \in AllSlots : desk'[a].files[s] = binding[s].file
    <3>1. binding' = binding /\ \A b \in Admins \ {a} : desk'[b] = desk[b]
      BY <2>1, DeskStepIs
    <3>. QED  BY <1>1, <2>2, <3>1 DEF DeskInv
  <2>3. CASE /\ Current(a) /\ draft'.version = draft.version + 1
             /\ status \in Reviewed /\ status' \in Reviewed \ {"VALIDATION_COMPLETED"}
             /\ desk'[a] = Closed
    <3>1. \A b \in Admins : desk'[b].open => desk'[b] = desk[b]
      BY <2>1, <2>3, DeskStepIs, ClosedPage
    <3>2. draft'.version \in Nat /\ draft'.version > draft.version
      BY <1>1, <2>3
    <3>. QED  BY <1>3, <3>1, <3>2
  <2>. QED  BY <2>1, <2>2, <2>3, DeskStepIs
<1>7. CASE \E o \in Objects : CommitStep(o)
  <2>1. PICK o \in Objects : CommitStep(o)
    BY <1>7
  <2>2. draft'.version \in Nat /\ draft'.version > draft.version
    BY <2>1, CommitStepIs DEF DraftType
  <2>3. \A b \in Admins : desk'[b].open => desk'[b] = desk[b]
    BY <2>1, CommitStepIs, ClosedPage
  <2>. QED  BY <1>3, <2>2, <2>3
<1>. QED  BY <1>2, <1>4, <1>5, <1>6, <1>7, OtherSteps

LEMMA LegacyInit == Init => LegacyInv
<1>. SUFFICES ASSUME Init PROVE LegacyInv
  OBVIOUS
<1>. DEFINE Of(s, os) == IF \E o \in os : SlotOf[o] = s
                         THEN CHOOSE o \in os : SlotOf[o] = s ELSE None
<1>1. PICK bound \in SUBSET Historical, unresolved \in SUBSET Historical :
        /\ bound \cap unresolved = {}
        /\ draft = [version |-> 0, text |-> {},
                    files |-> [s \in Slots |-> Of(s, bound \cup unresolved)]]
        /\ binding = [s \in AllSlots |-> [file |-> Of(s, bound),
                                          generation |-> IF Of(s, bound) = None THEN 0 ELSE 1]]
  BY DEF Init
<1>2. /\ status = "DRAFT" /\ payment = "none"
      /\ candidate = [o \in Objects |-> "none"] /\ bytes = Historical
      /\ intent = [o \in Objects |-> "none"] /\ request = [o \in Objects |-> Idle]
      /\ page = [t \in Tabs |-> Closed] /\ desk = [a \in Admins |-> Closed]
      /\ unlinking = {}
  BY DEF Init
<1>3. ASSUME NEW s, NEW os \in SUBSET Historical
      PROVE  /\ Of(s, os) \in Historical \cup {None}
             /\ Of(s, os) # None => SlotOf[Of(s, os)] = s /\ Of(s, os) \in os
             /\ Of(s, os) = None => \A o \in os : SlotOf[o] # s
  <2>1. None \notin Historical
    BY LegacyConstants
  <2>2. CASE \E o \in os : SlotOf[o] = s
    BY <2>1, <2>2
  <2>3. CASE ~ \E o \in os : SlotOf[o] = s
    BY <2>3
  <2>. QED  BY <2>2, <2>3
<1>. HIDE DEF Of
<1>4. Historical \subseteq Objects
  BY LegacyConstants
<1>5. \A s \in Slots : draft.files[s] \in Historical \cup {None}
  BY <1>1, <1>3
<1>6. \A s \in AllSlots : binding[s].file \in Historical \cup {None}
  BY <1>1, <1>3
<1>7. LegacyTypeOK
  <2>1. draft \in DraftType
    <3>1. [s \in Slots |-> Of(s, bound \cup unresolved)] \in [Slots -> Files]
      BY <1>3, <1>4 DEF Files
    <3>. QED  BY <1>1, <3>1 DEF DraftType
  <2>2. binding \in [AllSlots -> BindingType]
    <3>1. ASSUME NEW s \in AllSlots PROVE Of(s, bound) \in Files
      BY <1>3, <1>4 DEF Files
    <3>. QED  BY <1>1, <3>1 DEF BindingType
  <2>. QED  BY <1>2, <1>4, <2>1, <2>2, IdleType DEF LegacyTypeOK, StatusType
<1>8. ObjectInv
  <2>. SUFFICES ASSUME NEW o \in Objects PROVE ObjectSound(o)
    BY DEF ObjectInv
  <2>1. WasShown(o) \/ Referenced(o) => o \in Historical
    BY <1>2, <1>5, <1>6, LegacyConstants DEF WasShown, Referenced
  <2>. QED  BY <1>2, <2>1, IdleType, LegacyConstants DEF ObjectSound
<1>9. BoundInv
  <2>. SUFFICES ASSUME NEW s \in Slots, Of(s, bound) # None
                PROVE  Of(s, bound \cup unresolved) = Of(s, bound)
    BY <1>1 DEF BoundInv, AllSlots
  <2>1. Of(s, bound) \in bound /\ SlotOf[Of(s, bound)] = s
    BY <1>3
  <2>2. Of(s, bound \cup unresolved) \in Historical
        /\ SlotOf[Of(s, bound \cup unresolved)] = s
    BY <1>3, <2>1
  <2>. QED  BY <2>1, <2>2, LegacyConstants
<1>10. SubmittedIsComplete
  BY <1>2 DEF SubmittedIsComplete, Reviewed
<1>11. DeskInv
  BY <1>2, ClosedPage DEF DeskInv
<1>. QED  BY <1>7, <1>8, <1>9, <1>10, <1>11 DEF LegacyInv

THEOREM LegacyFilesInvariant == Spec => []LegacyInv
<1>1. LegacyInv /\ [Next]_vars => LegacyInv'
  BY TypesKept, ObjectsKept, BoundKept, CompleteKept, DesksFollow DEF LegacyInv
<1>. QED  BY <1>1, LegacyInit, PTL DEF Spec

\* What the application names can be read, whatever sweeps, deletions and late
\* writers do (lib/uploads); a bound slot and the saved draft name the same file;
\* and an application under review has all its documents, one whose validation was
\* completed a certificate (qualifyLegacyApplicationDocuments, admin.ts).
THEOREM LegacyNeededIsThere == Spec => []NeededIsThere
<1>1. LegacyInv => NothingMissing
  BY LegacyConstants DEF LegacyInv, ObjectInv, ObjectSound, BoundInv, NothingMissing
<1>2. LegacyInv => SubmittedIsComplete
  BY DEF LegacyInv
<1>. QED  BY <1>1, <1>2, LegacyFilesInvariant, PTL DEF NeededIsThere

LEMMA DecisionsSee ==
  ASSUME LegacyInv, Next
  PROVE  DecisionSeen
<1>. SUFFICES ASSUME NEW a \in Admins, desk[a].open, ~desk'[a].open
              PROVE  /\ desk[a].text = draft.text /\ desk[a].status = status
                     /\ \A s \in AllSlots : desk[a].files[s] = binding[s].file
  BY DEF DecisionSeen
<1>1. Current(a)
  <2>1. LegacyTypeOK /\ [Next]_vars
    BY DEF LegacyInv
  <2>2. CASE desk' = desk
    BY <2>2
  <2>3. CASE \E b \in Admins : OpenDesk(b) \/ Decide(b)
    <3>1. PICK b \in Admins : OpenDesk(b) \/ Decide(b)
      BY <2>3
    <3>2. b = a
      BY <2>1, <3>1, DeskStepIs
    <3>3. CASE OpenDesk(a)
      <4>1. desk'[a].open
        BY <2>1, <3>3 DEF OpenDesk, LegacyTypeOK
      <4>. QED  BY <4>1
    <3>. QED  BY <3>1, <3>2, <3>3 DEF Decide
  <2>4. CASE \E o \in Objects : CommitStep(o)
    BY <2>1, <2>4, CommitStepIs
  <2>. QED  BY <2>1, <2>2, <2>3, <2>4, OtherSteps, SaveStepIs, PayStepIs
<1>. QED  BY <1>1 DEF LegacyInv, DeskInv, Current

\* A reviewer decides on what the page showed (assertReviewSnapshot): no save, upload
\* or correction of the applicant and no decision of a colleague came in between.
THEOREM LegacyDecisionIsInformed == Spec => DecisionIsInformed
<1>1. LegacyInv /\ [Next]_vars => [DecisionSeen]_vars
  BY DecisionsSee
<1>. QED  BY <1>1, LegacyFilesInvariant, PTL DEF Spec, DecisionIsInformed

-----------------------------------------------------------------------------
(* The refinement of SlotPromise.                                             *)

LEMMA ShownIs ==
  ASSUME NEW s \in AllSlots
  PROVE  /\ Shown[s] = binding[s].file
         /\ Shown'[s] = binding'[s].file
  BY DEF Shown

\* What neither shows nor submits anything is not seen, if it keeps the bytes of
\* what was shown.
LEMMA Unseen ==
  ASSUME UNCHANGED binding,
         \A o \in Objects : (intent'[o] = "none") <=> (intent[o] = "none"),
         \A o \in Objects : WasShown(o) => (o \in bytes' <=> o \in bytes),
         bytes \subseteq Objects, bytes' \subseteq Objects
  PROVE  UNCHANGED <<Shown, Spent, Kept>>
<1>1. \A o \in Objects : WasShown(o)' <=> WasShown(o)
  BY DEF WasShown
<1>2. Spent' = Spent
  BY <1>1 DEF Spent
<1>3. Kept' = Kept
  BY <1>1 DEF Kept
<1>. QED  BY <1>2, <1>3 DEF Shown

\* A change of the application's row submits it, with its documents, or opens it.
LEMMA RowIsSeen ==
  ASSUME LegacyInv, UNCHANGED <<Shown, Spent, Kept>>,
         Editable /\ ~Editable' =>
           \A s \in Slots : binding[s].file # None
  PROVE  [Promise!Next]_(Promise!promised)
<1>1. Editable \in BOOLEAN /\ Editable' \in BOOLEAN
  BY DEF Editable
<1>2. CASE Editable' = Editable
  BY <1>2 DEF Promise!promised
<1>3. CASE Editable' = TRUE
  <2>1. Promise!Return
    BY <1>3 DEF Promise!Return
  <2>. QED  BY <2>1 DEF Promise!Next
<1>4. CASE Editable = TRUE /\ Editable' = FALSE
  <2>1. ASSUME NEW s \in Slots PROVE Shown[s] \in Kept
    <3>1. PICK o \in Objects : o = binding[s].file
      BY <1>4 DEF LegacyInv, LegacyTypeOK, BindingType, Files, AllSlots
    <3>2. o \in bytes
      BY <3>1 DEF LegacyInv, ObjectInv, ObjectSound, Referenced, AllSlots
    <3>. QED  BY <3>1, <3>2, ShownIs DEF Kept, WasShown, AllSlots
  <2>2. Promise!Submit
    BY <1>4, <2>1 DEF Promise!Submit
  <2>. QED  BY <2>2 DEF Promise!Next
<1>. QED  BY <1>1, <1>2, <1>3, <1>4

LEMMA RowStepSeen ==
  ASSUME LegacyInv, SaveStep \/ Pays \/ Complete \/ \E a \in Admins : OpenDesk(a) \/ Decide(a)
  PROVE  [Promise!Next]_(Promise!promised)
<1>1. LegacyTypeOK
  BY DEF LegacyInv
<1>2. UNCHANGED <<binding, intent, bytes>>
  BY <1>1, SaveStepIs, PayStepIs, DeskStepIs
<1>3. UNCHANGED <<Shown, Spent, Kept>>
  BY <1>1, <1>2, Unseen DEF LegacyTypeOK
<1>4. ASSUME Editable, ~Editable'
      PROVE  \A s \in Slots : binding[s].file # None
  <2>1. Qualified => \A s \in Slots : binding[s].file # None
    BY <1>1, LegacyConstants DEF Qualified, LegacyTypeOK
  <2>2. status \in Reviewed => \A s \in Slots : binding[s].file # None
    BY DEF LegacyInv, SubmittedIsComplete
  <2>3. CASE SaveStep
    BY <1>4, <2>1, <2>3 DEF SaveStep, SaveDraft, StartPayment, Resubmit, Editable, application
  <2>4. CASE Pays
    BY <1>4, <2>4 DEF Pays, Editable
  <2>5. CASE Complete
    BY <1>4, <2>1, <2>5 DEF Complete, Editable
  <2>6. CASE \E a \in Admins : OpenDesk(a)
    BY <1>4, <2>6 DEF OpenDesk, Editable, application
  <2>7. CASE \E a \in Admins : Decide(a)
    BY <1>1, <2>2, <2>7, DeskStepIs DEF Decide, AllowedNext, Reviewed
  <2>. QED  BY <2>3, <2>4, <2>5, <2>6, <2>7
<1>. QED  BY <1>3, <1>4, RowIsSeen

\* What is on its way was never shown.
LEMMA StoreStepUnseen ==
  ASSUME LegacyInv, NEW o \in Objects, Journal(o) \/ Write(o) \/ MarkReady(o)
  PROVE  UNCHANGED Promise!promised
<1>1. /\ LegacyTypeOK /\ ObjectSound(o)
      /\ bytes \subseteq Objects
  BY DEF LegacyInv, ObjectInv, LegacyTypeOK
<1>2. /\ UNCHANGED <<status, payment, binding, intent>> /\ bytes' \subseteq Objects
      /\ \A p \in Objects \ {o} : p \in bytes' <=> p \in bytes
      /\ request[o].step \in {"journal", "write", "ready"}
  BY <1>1, StoreStepIs
<1>3. ~WasShown(o)
  BY <1>1, <1>2 DEF ObjectSound
<1>4. UNCHANGED <<Shown, Spent, Kept>>
  BY <1>1, <1>2, <1>3, Unseen
<1>5. UNCHANGED Editable
  BY <1>2 DEF Editable
<1>. QED  BY <1>4, <1>5 DEF Promise!promised

\* A commit shows a document for the first time.
LEMMA CommitShows ==
  ASSUME LegacyInv, NEW o \in Objects, CommitStep(o)
  PROVE  [Promise!Next]_(Promise!promised)
<1>. DEFINE s == SlotOf[o]
<1>1. /\ LegacyTypeOK /\ ObjectInv /\ ObjectSound(o)
      /\ bytes \subseteq Objects
  BY DEF LegacyInv, ObjectInv, LegacyTypeOK
<1>2. /\ candidate[o] = "READY" /\ binding'[s].file = o /\ s \in AllSlots
      /\ \A r \in AllSlots \ {s} : binding'[r] = binding[r]
      /\ UNCHANGED <<payment, bytes>>
      /\ \A p \in Objects : \/ intent'[p] = intent[p]
                            \/ intent'[p] = "PENDING" /\ p = binding[s].file
      /\ \A p \in Objects : p = binding[s].file => intent'[p] = "PENDING"
      /\ binding \in [AllSlots -> BindingType]
  BY <1>1, CommitStepIs, AttachIs, CommitKinds DEF LegacyTypeOK
<1>3. /\ ~WasShown(o) /\ o \in bytes
  BY <1>1, <1>2 DEF ObjectSound
<1>4. Shown' = [Shown EXCEPT ![s] = o]
  BY <1>2 DEF Shown
<1>5. WasShown(o)' /\ \A p \in Objects \ {o} : WasShown(p)' <=> WasShown(p)
  <2>1. WasShown(o)'
    BY <1>2 DEF WasShown
  <2>2. ASSUME NEW p \in Objects \ {o} PROVE WasShown(p)' <=> WasShown(p)
    <3>1. ASSUME WasShown(p)' PROVE WasShown(p)
      <4>1. CASE intent'[p] # "none"
        BY <1>2, <4>1 DEF WasShown
      <4>2. CASE \E r \in AllSlots : binding'[r].file = p
        BY <1>2, <2>2, <4>2 DEF WasShown
      <4>. QED  BY <3>1, <4>1, <4>2 DEF WasShown
    <3>2. ASSUME WasShown(p) PROVE WasShown(p)'
      <4>1. CASE intent[p] # "none"
        BY <1>2, <4>1 DEF WasShown
      <4>2. CASE \E r \in AllSlots : binding[r].file = p
        BY <1>2, <4>2 DEF WasShown
      <4>. QED  BY <3>2, <4>1, <4>2 DEF WasShown
    <3>. QED  BY <3>1, <3>2
  <2>. QED  BY <2>1, <2>2
<1>6. Spent' = Spent \cup {o} /\ o \notin Spent
  BY <1>3, <1>5 DEF Spent
<1>7. Kept' = Kept \cup {o}
  BY <1>1, <1>2, <1>3, <1>5 DEF Kept
<1>8. /\ UNCHANGED Editable
      /\ Editable \/ s \in {Certificate}
  <2>1. CASE SlotOf[o] \in Slots /\ Editable /\ UNCHANGED <<status, payment>>
    BY <2>1 DEF Editable
  <2>2. CASE SlotOf[o] = Certificate /\ MayCertify /\ status' = "VALIDATION_COMPLETED"
    BY <2>2 DEF Editable, MayCertify, AllowedNext
  <2>. QED  BY <1>1, <2>1, <2>2, CommitKinds
<1>. HIDE DEF s
<1>9. Promise!Show(s, o)
  BY <1>4, <1>6, <1>7, <1>8 DEF Promise!Show
<1>. QED  BY <1>2, <1>9 DEF Promise!Next

\* What is unlinked is not shown any more, or never was.
LEMMA JobDiscards ==
  ASSUME LegacyInv, NEW o \in Objects, JobStep(o)
  PROVE  [Promise!Next]_(Promise!promised)
<1>1. /\ LegacyTypeOK /\ ObjectSound(o)
      /\ bytes \subseteq Objects /\ unlinking \subseteq Objects
  BY DEF LegacyInv, ObjectInv, LegacyTypeOK
<1>2. /\ UNCHANGED <<status, payment, binding>> /\ bytes' \subseteq Objects
      /\ \A p \in Objects : (intent'[p] = "none") <=> (intent[p] = "none")
      /\ \/ UNCHANGED bytes
         \/ o \in unlinking /\ bytes' = bytes \ {o}
  BY <1>1, JobStepIs
<1>3. UNCHANGED Editable
  BY <1>2 DEF Editable
<1>4. \A p \in Objects : WasShown(p)' <=> WasShown(p)
  BY <1>2 DEF WasShown
<1>5. Spent' = Spent /\ Shown' = Shown
  BY <1>2, <1>4 DEF Spent, Shown
<1>6. CASE UNCHANGED bytes
  BY <1>2, <1>3, <1>6, <1>1, Unseen DEF Promise!promised
<1>7. CASE o \in unlinking /\ bytes' = bytes \ {o}
  <2>1. \A s \in AllSlots : Shown[s] # o
    BY <1>1, <1>7, ShownIs DEF ObjectSound, Referenced
  <2>2. Kept' = Kept \ {o}
    BY <1>1, <1>4, <1>7 DEF Kept
  <2>3. Promise!Discard(o)
    BY <1>3, <1>5, <2>1, <2>2 DEF Promise!Discard
  <2>. QED  BY <2>3 DEF Promise!Next
<1>. QED  BY <1>2, <1>6, <1>7

LEMMA PromiseStep ==
  LegacyInv /\ [Next]_vars => [Promise!Next]_(Promise!promised)
<1>. SUFFICES ASSUME LegacyInv, [Next]_vars
              PROVE  [Promise!Next]_(Promise!promised)
  OBVIOUS
<1>1. LegacyTypeOK
  BY DEF LegacyInv
<1>2. ASSUME UNCHANGED <<status, payment, binding, intent, bytes>>
      PROVE  UNCHANGED Promise!promised
  BY <1>2 DEF Promise!promised, Editable, Shown, Spent, Kept, WasShown
<1>3. CASE UNCHANGED vars
  BY <1>2, <1>3 DEF vars
<1>4. CASE PageStep
  BY <1>1, <1>2, <1>4, PageStepIs
<1>5. CASE SaveStep \/ Pays \/ Complete \/ \E a \in Admins : OpenDesk(a) \/ Decide(a)
  BY <1>5, RowStepSeen
<1>6. CASE \E o \in Objects : Journal(o) \/ Write(o) \/ MarkReady(o)
  BY <1>6, StoreStepUnseen
<1>7. CASE \E o \in Objects : CommitStep(o)
  BY <1>7, CommitShows
<1>8. CASE \E o \in Objects : JobStep(o)
  BY <1>8, JobDiscards
<1>. QED  BY <1>3, <1>4, <1>5, <1>6, <1>7, <1>8, StepKinds

LEMMA PromiseInit == Init => Promise!Init
<1>. SUFFICES ASSUME Init PROVE Promise!Init
  OBVIOUS
<1>1. /\ LegacyInv /\ Editable /\ bytes = Historical
      /\ candidate = [o \in Objects |-> "none"] /\ intent = [o \in Objects |-> "none"]
  BY LegacyInit DEF Init, Editable
<1>2. Shown \in [AllSlots -> Objects \cup {None}]
  BY <1>1 DEF Shown, LegacyInv, LegacyTypeOK, BindingType, Files
<1>3. Spent = {Shown[s] : s \in AllSlots} \ {None}
  BY <1>1, <1>2, LegacyConstants DEF Spent, WasShown, Shown
<1>4. Kept = Spent
  BY <1>1, LegacyConstants DEF Kept, Spent, LegacyInv, ObjectInv, ObjectSound
<1>. QED  BY <1>1, <1>2, <1>3, <1>4 DEF Promise!Init, Editable

\* LegacyFiles implements SlotPromise: with pages, reviewers, deletions, sweeps and late
\* writers at once, a document that was replaced does not come back, its bytes stay for
\* as long as it is shown, and nothing changes that is under review.
THEOREM LegacyFilesKeepPromise == Spec => KeepsPromise
  BY PromiseInit, PromiseStep, LegacyFilesInvariant, PTL DEF Spec, KeepsPromise, Promise!Spec
=============================================================================
