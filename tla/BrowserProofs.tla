---------------------------- MODULE BrowserProofs ----------------------------
(* What holds, proved, of the parts of the browser that share nothing: of     *)
(* LoginForm for every length of a code and every countdown, of SessionVisits *)
(* for every number of tabs, of FacilitiesWizard for every set of documents   *)
(* and details and any number of uploads at once, and of FinalReview for      *)
(* every set of lists and fields and any number of rows.  At the end these    *)
(* parts and those of the server are taken together, as MCServer has them.    *)
EXTENDS MCServer, ServerProofs

-----------------------------------------------------------------------------
(* The login page.                                                           *)

\* A code that is complete on the form is one that it remembers to have sent, and
\* each of its digits was entered since the last refusal.
FormInv ==
  /\ FormTypeOK
  /\ shown = "mobile" => digits = Cleared
  /\ shown = "otp" =>
       /\ Complete(digits) => lastSubmitted = digits
       /\ \A i \in Slots : digits[i] # Blank => i \in entered

LEMMA ClearedIsIncomplete == Cleared \in Codes /\ ~Complete(Cleared)
<1>1. 1 \in Slots
  BY FormConstants DEF Slots
<1>. QED  BY <1>1, FormConstants DEF Cleared, Codes, Complete

\* The form of a code is rendered: it remembers what it shows, if it is complete
\* and no call is awaited, and so it sends only what it did not remember.
LEMMA ShowsCodeRemembers ==
  ASSUME NEW c \in Codes, NEW last \in Codes, NEW awaited \in {"none", "request", "guess"},
         ShowsCode(c, awaited, last), awaited # "none" /\ Complete(c) => last = c
  PROVE  /\ shown' = "otp" /\ digits' = c /\ lastSubmitted' \in Codes
         /\ call' \in {"none", "request", "guess"}
         /\ Complete(c) => lastSubmitted' = c
         /\ Complete(c) /\ last = c => call' = awaited
         /\ ~Complete(c) => call' = awaited
  BY ClearedIsIncomplete DEF ShowsCode

\* The same form is rendered, with the same slots or with none filled.
LEMMA RerendersQuietly ==
  ASSUME FormInv, shown # "left", NEW awaited \in {"none", "request", "guess"},
         NEW c \in {digits, Cleared}, Rerenders(c, awaited)
  PROVE  /\ shown' = shown /\ digits' = c /\ lastSubmitted' \in Codes
         /\ call' = awaited
         /\ shown = "otp" /\ Complete(c) => lastSubmitted' = c
<1>1. digits \in Codes /\ lastSubmitted \in Codes /\ c \in Codes
  BY ClearedIsIncomplete DEF FormInv, FormTypeOK
<1>2. CASE shown = "otp"
  <2>1. ShowsCode(c, awaited, lastSubmitted)
    BY <1>2 DEF Rerenders
  <2>2. Complete(c) => lastSubmitted = c
    BY <1>2, ClearedIsIncomplete DEF FormInv
  <2>. QED  BY <1>1, <1>2, <2>1, <2>2, ShowsCodeRemembers
<1>3. CASE shown # "otp"
  BY <1>3, ClearedIsIncomplete DEF Rerenders, ShowsMobile, FormInv, FormTypeOK
<1>. QED  BY <1>2, <1>3

\* What may begin a guess: nothing, or an edit that completes the code.
Deliberate == call # "guess" /\ call' = "guess" => digits' # digits /\ entered' = Slots

LEMMA EditStep ==
  ASSUME FormInv, NEW c \in Codes, NEW slots \in SUBSET Slots, Edits(c, slots),
         \A i \in Slots \ slots : c[i] # digits[i] => c[i] = Blank
  PROVE  FormInv' /\ Deliberate
<1>1. /\ shown = "otp" /\ call = "none" /\ ShowsCode(c, "none", lastSubmitted)
      /\ entered' = {i \in entered \cup slots : c[i] # Blank}
      /\ UNCHANGED <<wait, leaving>>
  BY DEF Edits
<1>2. lastSubmitted \in Codes /\ entered \subseteq Slots
  BY DEF FormInv, FormTypeOK
<1>3. /\ shown' = "otp" /\ digits' = c /\ lastSubmitted' \in Codes
      /\ call' \in {"none", "request", "guess"}
      /\ Complete(c) => lastSubmitted' = c
      /\ ~Complete(c) \/ lastSubmitted = c => call' = "none"
  BY <1>1, <1>2, ShowsCodeRemembers
<1>4. \A i \in Slots : c[i] # Blank => i \in entered'
  BY <1>1 DEF FormInv
<1>5. Complete(c) => entered' = Slots
  BY <1>1, <1>2, <1>4, FormConstants DEF Complete
<1>6. FormInv'
  BY <1>1, <1>2, <1>3, <1>4, ClearedIsIncomplete DEF FormInv, FormTypeOK
<1>7. c = digits /\ Complete(c) => lastSubmitted = c
  BY <1>1 DEF FormInv
<1>. QED  BY <1>3, <1>5, <1>6, <1>7 DEF Deliberate

LEMMA HandleChangeStep == FormInv /\ HandleChange => FormInv' /\ Deliberate
<1>. SUFFICES ASSUME FormInv, HandleChange PROVE FormInv' /\ Deliberate
  OBVIOUS
<1>1. PICK i \in Slots, d \in Digits \cup {Blank} :
        d # digits[i] /\ Edits([digits EXCEPT ![i] = d], {i})
  BY DEF HandleChange
<1>2. digits \in Codes
  BY DEF FormInv, FormTypeOK
<1>. DEFINE c == [digits EXCEPT ![i] = d]
<1>3. c \in Codes /\ c # digits /\ \A j \in Slots \ {i} : c[j] = digits[j]
  BY <1>1, <1>2 DEF Codes
<1>. HIDE DEF c
<1>4. Edits(c, {i})
  BY <1>1 DEF c
<1>. QED  BY <1>3, <1>4, EditStep

LEMMA HandleBackspaceStep == FormInv /\ HandleBackspace => FormInv' /\ Deliberate
<1>. SUFFICES ASSUME FormInv, HandleBackspace PROVE FormInv' /\ Deliberate
  OBVIOUS
<1>1. PICK k \in Slots : Edits([digits EXCEPT ![k] = Blank], {})
  BY DEF HandleBackspace
<1>2. digits \in Codes
  BY DEF FormInv, FormTypeOK
<1>. DEFINE c == [digits EXCEPT ![k] = Blank]
<1>3. /\ c \in Codes /\ c[k] = Blank
      /\ \A j \in Slots : c[j] # digits[j] => c[j] = Blank
  BY <1>2 DEF Codes
<1>. HIDE DEF c
<1>4. Edits(c, {})
  BY <1>1 DEF c
<1>. QED  BY <1>3, <1>4, EditStep

LEMMA HandlePasteStep == FormInv /\ HandlePaste => FormInv' /\ Deliberate
<1>. SUFFICES ASSUME FormInv, HandlePaste PROVE FormInv' /\ Deliberate
  OBVIOUS
<1>. DEFINE Ends(k, pasted) == k + Len(pasted) - 1
            Covers(k, pasted) == k..(IF Ends(k, pasted) > CodeLength
                                     THEN CodeLength ELSE Ends(k, pasted))
            Pasted(k, pasted) == [j \in Slots |-> IF j \in Covers(k, pasted)
                                                 THEN pasted[j - k + 1] ELSE digits[j]]
<1>1. PICK k \in Slots, pasted \in BoundedSeq(Digits, CodeLength) :
        Edits(Pasted(k, pasted), Covers(k, pasted))
  BY DEF HandlePaste
<1>2. PICK m \in 0..CodeLength : pasted \in [1..m -> Digits]
  BY DEF BoundedSeq, SeqOf
<1>3. Len(pasted) = m /\ m \in Nat /\ k \in Nat /\ CodeLength \in Nat
  BY <1>2, FormConstants DEF Slots
<1>4. Covers(k, pasted) \in SUBSET Slots
  BY <1>3 DEF Slots
<1>5. \A j \in Covers(k, pasted) : pasted[j - k + 1] \in Digits
  <2>. SUFFICES ASSUME NEW j \in Covers(k, pasted) PROVE j - k + 1 \in 1..m
    BY <1>2
  <2>. QED  BY <1>3
<1>6. digits \in Codes
  BY DEF FormInv, FormTypeOK
<1>7. Pasted(k, pasted) \in Codes
  BY <1>5, <1>6 DEF Codes
<1>8. \A j \in Slots \ Covers(k, pasted) : Pasted(k, pasted)[j] = digits[j]
  OBVIOUS
<1>. HIDE DEF Pasted, Covers
<1>. QED  BY <1>1, <1>4, <1>7, <1>8, EditStep

LEMMA FormInitially == FormInit => FormInv
<1>. SUFFICES ASSUME FormInit PROVE FormInv
  OBVIOUS
<1>1. 0 \in 0..Countdown
  BY FormConstants
<1>. QED  BY <1>1, ClearedIsIncomplete DEF FormInit, FormInv, FormTypeOK

\* What is not an edit sends nothing.
LEMMA QuietStep ==
  ASSUME FormInv,
         \/ RequestOtp \/ RequestEnds \/ RequestRefused \/ GuessRefused \/ GuessAccepted
         \/ Leaves \/ Back \/ Tick \/ UNCHANGED formVars
  PROVE  FormInv' /\ (call # "guess" => call' # "guess")
<1>1. /\ digits \in Codes /\ lastSubmitted \in Codes
      /\ call \in {"none", "request", "guess"}
      /\ shown \in {"mobile", "otp", "left"}
  BY DEF FormInv, FormTypeOK
<1>2. CASE RequestOtp
  BY <1>2 DEF RequestOtp, FormInv, FormTypeOK
<1>3. CASE RequestEnds
  <2>. DEFINE last == IF shown = "otp" THEN lastSubmitted ELSE Cleared
  <2>1. /\ last \in Codes /\ ShowsCode(digits, "none", last)
        /\ wait' = Countdown /\ UNCHANGED <<leaving, entered>>
    BY <1>1, <1>3, ClearedIsIncomplete DEF RequestEnds
  <2>2. Complete(digits) => shown = "otp" /\ last = digits
    BY <1>1, <1>3, ClearedIsIncomplete DEF RequestEnds, FormInv
  <2>. HIDE DEF last
  <2>3. /\ shown' = "otp" /\ digits' = digits /\ lastSubmitted' \in Codes
        /\ call' = "none" /\ (Complete(digits) => lastSubmitted' = digits)
    BY <1>1, <2>1, <2>2, ShowsCodeRemembers
  <2>4. \A i \in Slots : digits[i] # Blank => i \in entered
    BY <1>1, <1>3 DEF RequestEnds, FormInv, Cleared
  <2>. QED  BY <2>1, <2>3, <2>4, FormConstants DEF FormInv, FormTypeOK
<1>4. CASE RequestRefused
  <2>1. /\ shown # "left" /\ Rerenders(digits, "none") /\ UNCHANGED <<wait, leaving, entered>>
    BY <1>4 DEF RequestRefused
  <2>. QED  BY <1>1, <2>1, RerendersQuietly DEF FormInv, FormTypeOK
<1>5. CASE GuessRefused
  <2>1. /\ shown # "left" /\ Rerenders(Cleared, "none") /\ UNCHANGED <<wait, leaving>>
        /\ entered' = {}
    BY <1>5 DEF GuessRefused, AfterRefusal
  <2>2. /\ shown' = shown /\ digits' = Cleared /\ lastSubmitted' \in Codes /\ call' = "none"
    BY <1>1, <2>1, RerendersQuietly
  <2>. QED  BY <1>1, <2>1, <2>2, ClearedIsIncomplete DEF FormInv, FormTypeOK, Cleared
<1>6. CASE GuessAccepted
  <2>1. /\ shown # "left" /\ Rerenders(digits, "none") /\ UNCHANGED <<wait, entered>>
        /\ leaving' = TRUE
    BY <1>6 DEF GuessAccepted
  <2>. QED  BY <1>1, <2>1, RerendersQuietly DEF FormInv, FormTypeOK
<1>7. CASE Leaves
  BY <1>7 DEF Leaves, FormInv, FormTypeOK
<1>8. CASE Back
  <2>1. /\ shown' = "mobile" /\ digits' = Cleared /\ call' = call /\ lastSubmitted' = Cleared
        /\ entered' = {} /\ UNCHANGED <<wait, leaving>>
    BY <1>8 DEF Back, ShowsMobile
  <2>. QED  BY <1>1, <2>1, ClearedIsIncomplete DEF FormInv, FormTypeOK
<1>9. CASE Tick
  <2>1. /\ shown # "left" /\ Rerenders(digits, call) /\ UNCHANGED <<leaving, entered>>
        /\ wait' \in 0..Countdown
    BY <1>9, FormConstants DEF Tick, FormInv, FormTypeOK
  <2>. QED  BY <1>1, <2>1, RerendersQuietly DEF FormInv, FormTypeOK
<1>10. CASE UNCHANGED formVars
  BY <1>10 DEF formVars, FormInv, FormTypeOK, Complete
<1>. QED  BY <1>2, <1>3, <1>4, <1>5, <1>6, <1>7, <1>8, <1>9, <1>10

LEMMA FormStep == FormInv /\ [FormNext]_formVars => FormInv' /\ Deliberate
<1>. SUFFICES ASSUME FormInv, [FormNext]_formVars PROVE FormInv' /\ Deliberate
  OBVIOUS
<1>1. CASE HandleChange \/ HandleBackspace \/ HandlePaste
  BY <1>1, HandleChangeStep, HandleBackspaceStep, HandlePasteStep
<1>2. CASE ~(HandleChange \/ HandleBackspace \/ HandlePaste)
  BY <1>2, QuietStep DEF FormNext, Deliberate
<1>. QED  BY <1>1, <1>2

\* The login page never sends a guess that the user did not mean: it takes an edit
\* to send one, and every digit of it was entered after the last refusal, for
\* every length of a code, whatever is answered late, refused or not at all.
THEOREM LoginGuessIsDeliberate == FormSpec => GuessIsDeliberate
<1>1. FormSpec => []FormInv
  BY FormInitially, FormStep, PTL DEF FormSpec
<1>2. FormInv /\ [FormNext]_formVars
        => [call # "guess" /\ call' = "guess" => digits' # digits /\ entered' = Slots]_formVars
  BY FormStep DEF Deliberate
<1>. QED  BY <1>1, <1>2, PTL DEF FormSpec, GuessIsDeliberate

-----------------------------------------------------------------------------
(* Where a browser ends up.                                                  *)

\* How many redirects a page is from one that is shown, at most, with a cookie
\* that nobody changes meanwhile: what the cookie is and whether its subject
\* exists decide which of two pages sends to which.
StrangerDistance(page) ==
  CASE page \in {"/", "/admin/login"} -> 0
    [] page = "/dashboard/facilities-application" -> 2
    [] page \notin {"/", "/admin/login", "/dashboard/facilities-application"} -> 1

AdminDistance(page) ==
  CASE page = "/admin/login" -> 0
    [] page = "/admin" -> 1
    [] page \in {"/", "/api/auth/session-reset"} -> 2
    [] page \in {"/dashboard", "/dashboard/application", "/dashboard/facilities-profile"} -> 3
    [] page = "/dashboard/facilities-application" -> 4

OutageDistance(page) ==
  CASE page \in {"/admin/login", "/dashboard", "/api/auth/session-reset"} -> 0
    [] page \in {"/", "/admin"} -> 1
    [] page \in {"/dashboard/application", "/dashboard/facilities-profile"} -> 2
    [] page = "/dashboard/facilities-application" -> 3

UserDistance(page) ==
  CASE page \in {"/admin/login", "/dashboard/facilities-profile"} -> 0
    [] page \in {"/admin", "/dashboard/facilities-application"} -> 1
    [] page = "/dashboard" -> IF "userExists" \in facts THEN 1 ELSE 2
    [] page = "/api/auth/session-reset" -> IF "userExists" \in facts THEN 2 ELSE 1
    [] page = "/" -> 3
    [] page = "/dashboard/application" -> 4

Distance(page, sent) ==
  IF Session(sent) = "none" THEN StrangerDistance(page)
  ELSE IF Session(sent) = "admin" THEN AdminDistance(page)
  ELSE IF HasDatabase THEN UserDistance(page) ELSE OutageDistance(page)

LEMMA DistanceIsNat ==
  ASSUME NEW page \in Pages, NEW sent \in Cookies
  PROVE  Distance(page, sent) \in Nat
  BY DEF Distance, StrangerDistance, AdminDistance, OutageDistance, UserDistance,
         Pages, Cookies, Session

\* A redirect leads nearer, or it cleared the cookie and leads to a page that is
\* shown to everyone without one.
LEMMA RedirectLeadsNearer ==
  ASSUME NEW page \in Pages, NEW sent \in Cookies, Reply(page, sent).kind = "redirect"
  PROVE  /\ Reply(page, sent).page \in Pages
         /\ ~Clears(page, sent) => Distance(Reply(page, sent).page, sent) < Distance(page, sent)
         /\ Distance(page, sent) > 0
         /\ Clears(page, sent) =>
              /\ Distance(Reply(page, sent).page, "none") = 0
              /\ sent # "none"
<1>0. Session(sent) \in {"none", "user", "admin"}
      /\ (Session(sent) # "none" => Session(sent) = sent)
  BY DEF Session, Cookies
<1>1. CASE page = "/"
  BY <1>0, <1>1 DEF Reply, Home, HomeOf, Shows, To, Distance, Clears, Pages,
    StrangerDistance, AdminDistance, OutageDistance, UserDistance
<1>2. CASE page = "/dashboard"
  BY <1>0, <1>2 DEF Reply, Dashboard, Shows, Fails, To, Distance, Clears, Pages,
    StrangerDistance, AdminDistance, OutageDistance, UserDistance
<1>3. CASE page = "/dashboard/application"
  BY <1>0, <1>3 DEF Reply, Application, Shows, To, Distance, Clears, Pages,
    StrangerDistance, AdminDistance, OutageDistance, UserDistance
<1>4. CASE page = "/dashboard/facilities-profile"
  BY <1>0, <1>4 DEF Reply, Profile, Shows, To, Distance, Clears, Pages,
    StrangerDistance, AdminDistance, OutageDistance, UserDistance
<1>5. CASE page = "/dashboard/facilities-application"
  BY <1>0, <1>5 DEF Reply, Facilities, Shows, To, Distance, Clears, Pages,
    StrangerDistance, AdminDistance, OutageDistance, UserDistance
<1>6. CASE page = "/admin"
  BY <1>0, <1>6 DEF Reply, Admin, Shows, To, Distance, Clears, Pages,
    StrangerDistance, AdminDistance, OutageDistance, UserDistance
<1>7. CASE page = "/admin/login"
  BY <1>7 DEF Reply, Shows
<1>8. CASE page = "/api/auth/session-reset"
  <2>1. Reply(page, sent) = SessionReset(sent)
    BY <1>8 DEF Reply
  <2>2. SessionReset(sent) = To(HomeOf(sent)) \/ SessionReset(sent) = To(Login(sent))
    BY <2>1 DEF SessionReset, Fails
  <2>. QED  BY <1>0, <1>8, <2>1, <2>2
            DEF SessionReset, HomeOf, Login, Live, Fails, To, Distance, Clears, Pages,
    StrangerDistance, AdminDistance, OutageDistance, UserDistance, Session
<1>. QED  BY <1>1, <1>2, <1>3, <1>4, <1>5, <1>6, <1>7, <1>8 DEF Pages

\* What a visit went through was answered with a redirect; with the cookie it has
\* now it was farther away, and a visit that was redirected has the cookie of all.
TrailInv(t) ==
  tab[t].at = "asks" =>
    /\ trail[t] # {} => tab[t].sent = cookie
    /\ \A v \in trail[t] :
         /\ Distance(v[1], v[2]) > 0
         /\ v[2] = tab[t].sent => Distance(v[1], v[2]) > Distance(tab[t].page, tab[t].sent)

VisitInv == VisitTypeOK /\ \A t \in Tabs : TrailInv(t)

LEMMA TypesOfTabs ==
  ASSUME VisitInv, NEW t \in Tabs
  PROVE  /\ tab[t].page \in Pages /\ tab[t].sent \in Cookies
         /\ tab[t] = [at |-> tab[t].at, page |-> tab[t].page, sent |-> tab[t].sent]
         /\ trail[t] \subseteq Visits /\ cookie \in Cookies
  BY DEF VisitInv, VisitTypeOK

LEMMA SameDistances ==
  ASSUME UNCHANGED <<facts, outage>>
  PROVE  \A page, sent : Distance(page, sent)' = Distance(page, sent)
  BY DEF Distance, StrangerDistance, AdminDistance, OutageDistance, UserDistance,
         Session, HasDatabase

\* A trail that begins anew is right, whatever else changed.
LEMMA AnewIsRight ==
  ASSUME NEW t \in Tabs, trail'[t] = {}
  PROVE  TrailInv(t)'
  BY DEF TrailInv

LEMMA Untouched ==
  ASSUME NEW t \in Tabs, VisitInv, tab'[t] = tab[t], trail'[t] = trail[t], cookie' = cookie,
         UNCHANGED <<facts, outage>>
  PROVE  TrailInv(t)'
<1>1. PICK p, s : p = tab[t].page /\ s = tab[t].sent
  OBVIOUS
<1>2. tab'[t].page = p /\ tab'[t].sent = s
  BY <1>1
<1>3. Distance(tab[t].page, tab[t].sent)' = Distance(p, s)'
  BY <1>2 DEF Distance, StrangerDistance, AdminDistance, OutageDistance, UserDistance, Session
<1>4. Distance(tab[t].page, tab[t].sent)' = Distance(tab[t].page, tab[t].sent)
  BY <1>1, <1>3, SameDistances
<1>. QED  BY <1>4, SameDistances DEF VisitInv, TrailInv

LEMMA RedirectStep ==
  ASSUME VisitInv, NEW t \in Tabs, Answer(t),
         Reply(tab[t].page, tab[t].sent).kind = "redirect"
  PROVE  TrailInv(t)' /\ Reply(tab[t].page, tab[t].sent).page \in Pages
<1>. DEFINE page == tab[t].page
            sent == tab[t].sent
            next == Reply(page, sent).page
<1>1. page \in Pages /\ sent \in Cookies /\ trail[t] \subseteq Visits /\ cookie \in Cookies
  BY TypesOfTabs
<1>2. /\ tab[t].at = "asks" /\ UNCHANGED <<facts, outage>>
      /\ cookie' = IF Clears(page, sent) THEN "none" ELSE cookie
      /\ tab' = [tab EXCEPT ![t] = [at |-> "asks", page |-> next, sent |-> cookie']]
      /\ trail' = [u \in Tabs |-> IF u = t THEN trail[u] \cup {<<page, sent>>}
                                  ELSE IF cookie' = cookie THEN trail[u] ELSE {}]
  BY DEF Answer, Asks
<1>3. /\ tab'[t] = [at |-> "asks", page |-> next, sent |-> cookie']
      /\ trail'[t] = trail[t] \cup {<<page, sent>>}
  BY <1>2 DEF VisitInv, VisitTypeOK
<1>4. /\ next \in Pages /\ Distance(page, sent) > 0
      /\ ~Clears(page, sent) => Distance(next, sent) < Distance(page, sent)
      /\ Clears(page, sent) => Distance(next, "none") = 0 /\ sent # "none"
  BY <1>1, RedirectLeadsNearer
<1>5. /\ trail[t] # {} => sent = cookie
      /\ \A v \in trail[t] :
           /\ Distance(v[1], v[2]) > 0
           /\ v[2] = sent => Distance(v[1], v[2]) > Distance(page, sent)
  BY <1>2 DEF VisitInv, TrailInv
<1>6. /\ Distance(page, sent) \in Nat /\ Distance(next, cookie') \in Nat
      /\ \A v \in trail[t] : Distance(v[1], v[2]) \in Nat
  <2>1. cookie' \in Cookies
    BY <1>1, <1>2 DEF Cookies
  <2>2. \A v \in trail[t] : v[1] \in Pages /\ v[2] \in Cookies
    BY <1>1 DEF Visits
  <2>. QED  BY <1>1, <1>4, <2>1, <2>2, DistanceIsNat
<1>. HIDE DEF page, sent, next
<1>7. ASSUME NEW v \in trail[t] \cup {<<page, sent>>}
      PROVE  /\ Distance(v[1], v[2]) > 0
             /\ v[2] = cookie' => Distance(v[1], v[2]) > Distance(next, cookie')
  <2>1. CASE v = <<page, sent>>
    <3>1. v[1] = page /\ v[2] = sent
      BY <2>1
    <3>2. CASE Clears(page, sent)
      BY <1>2, <1>4, <3>1, <3>2
    <3>3. CASE ~Clears(page, sent)
      BY <1>2, <1>4, <1>6, <3>1, <3>3
    <3>. QED  BY <3>2, <3>3
  <2>2. CASE v \in trail[t]
    <3>1. Distance(v[1], v[2]) > 0 /\ sent = cookie
      BY <1>5, <2>2
    <3>2. CASE Clears(page, sent)
      BY <1>2, <1>4, <3>1, <3>2
    <3>3. CASE ~Clears(page, sent)
      <4>1. v[2] = sent => Distance(v[1], v[2]) > Distance(page, sent)
        BY <1>5, <2>2
      <4>2. cookie' = sent
        BY <1>2, <3>1, <3>3
      <4>3. Distance(next, sent) < Distance(page, sent)
        BY <1>4, <3>3
      <4>4. /\ Distance(page, sent) \in Nat /\ Distance(next, sent) \in Nat
            /\ Distance(v[1], v[2]) \in Nat
        BY <1>6, <2>2, <4>2
      <4>. QED  BY <3>1, <4>1, <4>2, <4>3, <4>4
    <3>. QED  BY <3>2, <3>3
  <2>. QED  BY <2>1, <2>2
<1>8. \A v \in trail'[t] :
        /\ Distance(v[1], v[2])' > 0
        /\ v[2] = tab'[t].sent => Distance(v[1], v[2])' > Distance(next, cookie')
  BY <1>2, <1>3, <1>7, SameDistances
<1>9. Distance(tab[t].page, tab[t].sent)' = Distance(next, cookie')
  <2>1. PICK p, s : p = next /\ s = cookie'
    OBVIOUS
  <2>2. tab'[t].page = p /\ tab'[t].sent = s
    BY <1>3, <2>1
  <2>3. Distance(tab[t].page, tab[t].sent)' = Distance(p, s)'
    BY <2>2 DEF Distance, StrangerDistance, AdminDistance, OutageDistance, UserDistance, Session
  <2>. QED  BY <1>2, <2>1, <2>3, SameDistances
<1>. QED  BY <1>3, <1>4, <1>8, <1>9 DEF TrailInv, next, page, sent

LEMMA VisitInitially == VisitInit => VisitInv
<1>. SUFFICES ASSUME VisitInit PROVE VisitInv
  OBVIOUS
<1>1. VisitTypeOK
  BY DEF VisitInit, VisitTypeOK, Cookies, Facts, Pages
<1>. QED  BY <1>1 DEF VisitInit, VisitInv, TrailInv

LEMMA VisitStep == VisitInv /\ [VisitNext]_visitVars => VisitInv'
<1>. SUFFICES ASSUME VisitInv, [VisitNext]_visitVars PROVE VisitInv'
  OBVIOUS
<1>. USE DEF VisitInv, VisitTypeOK
<1>1. ASSUME NEW t \in Tabs, NEW page \in Pages, Visit(t, page) PROVE VisitInv'
  <2>1. VisitTypeOK'
    BY <1>1 DEF Visit, Asks
  <2>2. ASSUME NEW u \in Tabs PROVE TrailInv(u)'
    <3>1. CASE u = t
      BY <1>1, <3>1, AnewIsRight DEF Visit
    <3>2. CASE u # t
      <4>1. tab'[u] = tab[u] /\ trail'[u] = trail[u] /\ cookie' = cookie
            /\ UNCHANGED <<facts, outage>>
        BY <1>1, <3>2 DEF Visit, Asks
      <4>. QED  BY <4>1, Untouched
    <3>. QED  BY <3>1, <3>2
  <2>. QED  BY <2>1, <2>2
<1>2. ASSUME NEW t \in Tabs, Answer(t) PROVE VisitInv'
  <2>0. /\ Reply(tab[t].page, tab[t].sent).kind \in {"redirect", "show", "fail"}
    BY TypesOfTabs DEF Reply, Home, Dashboard, Application, Profile, Facilities, Admin,
                       SessionReset, Shows, Fails, To, Pages
  <2>1. /\ UNCHANGED <<facts, outage>> /\ cookie' \in Cookies
        /\ trail' = [u \in Tabs |-> IF u = t THEN trail[u] \cup {<<tab[t].page, tab[t].sent>>}
                                    ELSE IF cookie' = cookie THEN trail[u] ELSE {}]
    BY <1>2, TypesOfTabs DEF Answer, Cookies
  <2>2. \E page \in Pages, now \in {"asks", "shows", "failed"}, sent \in Cookies :
          /\ tab' = [tab EXCEPT ![t] = [at |-> now, page |-> page, sent |-> sent]]
          /\ now = "asks" <=> Reply(tab[t].page, tab[t].sent).kind = "redirect"
    <3>1. CASE Reply(tab[t].page, tab[t].sent).kind = "redirect"
      BY <1>2, <2>1, <3>1, RedirectStep DEF Answer, Asks
    <3>2. CASE Reply(tab[t].page, tab[t].sent).kind = "show"
      <4>1. tab' = [tab EXCEPT ![t].at = "shows"]
        BY <1>2, <3>2 DEF Answer
      <4>2. [tab[t] EXCEPT !.at = "shows"]
              = [at |-> "shows", page |-> tab[t].page, sent |-> tab[t].sent]
        OBVIOUS
      <4>3. tab' = [tab EXCEPT ![t] = [at |-> "shows", page |-> tab[t].page, sent |-> tab[t].sent]]
        BY <4>1, <4>2
      <4>. QED  BY <3>2, <4>3, TypesOfTabs
    <3>3. CASE Reply(tab[t].page, tab[t].sent).kind = "fail"
      <4>1. tab' = [tab EXCEPT ![t].at = "failed"]
        BY <1>2, <3>3 DEF Answer
      <4>2. [tab[t] EXCEPT !.at = "failed"]
              = [at |-> "failed", page |-> tab[t].page, sent |-> tab[t].sent]
        OBVIOUS
      <4>3. tab' = [tab EXCEPT ![t] = [at |-> "failed", page |-> tab[t].page, sent |-> tab[t].sent]]
        BY <4>1, <4>2
      <4>. QED  BY <3>3, <4>3, TypesOfTabs
    <3>. QED  BY <2>0, <3>1, <3>2, <3>3
  <2>3. VisitTypeOK'
    <3>1. tab' \in [Tabs -> [at : {"closed", "asks", "shows", "failed"},
                             page : Pages, sent : Cookies]]
      BY <2>2
    <3>2. trail' \in [Tabs -> SUBSET Visits]
      <4>1. <<tab[t].page, tab[t].sent>> \in Visits
        BY TypesOfTabs DEF Visits
      <4>. QED  BY <2>1, <4>1
    <3>. QED  BY <2>1, <3>1, <3>2
  <2>4. ASSUME NEW u \in Tabs PROVE TrailInv(u)'
    <3>1. CASE u = t
      <4>1. CASE Reply(tab[t].page, tab[t].sent).kind = "redirect"
        BY <1>2, <3>1, <4>1, RedirectStep
      <4>2. CASE Reply(tab[t].page, tab[t].sent).kind # "redirect"
        BY <2>2, <3>1, <4>2 DEF TrailInv
      <4>. QED  BY <4>1, <4>2
    <3>2. CASE u # t /\ cookie' = cookie
      <4>1. tab'[u] = tab[u] /\ trail'[u] = trail[u] /\ cookie' = cookie
            /\ UNCHANGED <<facts, outage>>
        BY <2>1, <2>2, <3>2
      <4>. QED  BY <4>1, Untouched
    <3>3. CASE u # t /\ cookie' # cookie
      BY <2>1, <3>3, AnewIsRight
    <3>. QED  BY <3>1, <3>2, <3>3
  <2>. QED  BY <2>3, <2>4
<1>3. ASSUME Anew, cookie' \in Cookies, facts' \subseteq Facts,
             outage' \in {"none", "database", "secret"},
             tab' \in [Tabs -> [at : {"closed", "asks", "shows", "failed"},
                                page : Pages, sent : Cookies]]
      PROVE  VisitInv'
  <2>1. \A t \in Tabs : trail'[t] = {}
    BY <1>3 DEF Anew
  <2>2. VisitTypeOK'
    BY <1>3 DEF Anew
  <2>. QED  BY <2>1, <2>2, AnewIsRight
<1>4. ASSUME NEW t \in Tabs, NEW kind \in {"user", "admin"}, LogIn(t, kind) PROVE VisitInv'
  <2>1. /\ cookie' \in Cookies /\ facts' \subseteq Facts /\ outage' = outage
        /\ tab' = [tab EXCEPT ![t] = [at |-> "asks", page |-> HomeOf(kind), sent |-> cookie']]
        /\ HomeOf(kind) \in Pages /\ Anew
    BY <1>4 DEF LogIn, Asks, Cookies, Facts, HomeOf, Pages
  <2>. QED  BY <1>3, <2>1
<1>5. ASSUME NEW t \in Tabs, LogOut(t) PROVE VisitInv'
  <2>1. /\ cookie' \in Cookies /\ facts' = facts /\ outage' = outage
        /\ tab' = [tab EXCEPT ![t] = [at |-> "asks", page |-> "/", sent |-> cookie']]
        /\ "/" \in Pages /\ Anew
    BY <1>5 DEF LogOut, Asks, Cookies, Pages
  <2>. QED  BY <1>3, <2>1
<1>6. ASSUME OutsideChange PROVE VisitInv'
  <2>1. CASE CookieSpoils
    BY <1>3, <1>6, <2>1 DEF OutsideChange, CookieSpoils, Cookies
  <2>2. CASE FactsChange
    <3>1. facts' \subseteq Facts
      BY <2>2 DEF FactsChange, Facts
    <3>. QED  BY <1>3, <1>6, <2>2, <3>1 DEF OutsideChange, FactsChange
  <2>3. CASE OutageChanges
    BY <1>3, <1>6, <2>3 DEF OutsideChange, OutageChanges
  <2>. QED  BY <1>6, <2>1, <2>2, <2>3 DEF OutsideChange
<1>7. CASE UNCHANGED visitVars
  <2>1. UNCHANGED <<tab, trail, cookie, facts, outage>>
    BY <1>7 DEF visitVars
  <2>2. ASSUME NEW u \in Tabs PROVE TrailInv(u)'
    BY <2>1, Untouched
  <2>. QED  BY <2>1, <2>2
<1>. QED  BY <1>1, <1>2, <1>4, <1>5, <1>6, <1>7 DEF VisitNext

\* No redirect leads a visit back to where it has been with the same cookie, for
\* any number of tabs, whatever the database and the secret lack and whenever users,
\* administrators and sessions come and go.
THEOREM VisitsDoNotLoop == VisitSpec => []NoRedirectLoop
<1>1. VisitSpec => []VisitInv
  BY VisitInitially, VisitStep, PTL DEF VisitSpec
<1>2. VisitInv => NoRedirectLoop
  <2>. SUFFICES ASSUME VisitInv, NEW t \in Tabs, tab[t].at = "asks",
                       <<tab[t].page, tab[t].sent>> \in trail[t]
                PROVE  FALSE
    BY DEF NoRedirectLoop
  <2>1. PICK v \in trail[t] : v[1] = tab[t].page /\ v[2] = tab[t].sent
    OBVIOUS
  <2>2. Distance(v[1], v[2]) > Distance(tab[t].page, tab[t].sent)
    BY <2>1 DEF VisitInv, TrailInv
  <2>3. Distance(v[1], v[2]) = Distance(tab[t].page, tab[t].sent)
    BY <2>1
  <2>4. Distance(tab[t].page, tab[t].sent) \in Nat
    BY TypesOfTabs, DistanceIsNat
  <2>. QED  BY <2>2, <2>3, <2>4
<1>. QED  BY <1>1, <1>2, PTL

-----------------------------------------------------------------------------
(* The facilities wizard.                                                    *)

\* A slot that the page takes for filled, or for filled before a replacement that
\* is awaited or failed, has a file at the server.
ShowsStored ==
  \A s \in Documents :
    docStatus[s].state = "done" \/ docStatus[s].name \/ docStatus[s].previousName => s \in stored

\* A save that has reached the server is what is saved, and a save under way sends
\* what is typed, unless something was typed meanwhile.
SavesTyped ==
  /\ saving.kind = "none" => ~saving.reached
  /\ saving.reached => saved = saving.value
  /\ saving.kind # "none" /\ ~missed => saving.value = typed

\* Past the details nothing is being saved, and what is typed is saved.
PastDetails ==
  screen \in {"documents", "confirm"} => saving.kind = "none" /\ (~missed => typed = saved)

WizardInv ==
  /\ WizardTypeOK /\ saving \in [kind : {"none", "create", "save"},
                                value : Details \cup {NoDetails}, reached : BOOLEAN]
  /\ ShowsStored /\ SavesTyped /\ PastDetails
  /\ screen = "confirm" => Required \subseteq stored

Statuses == {Status(s, n, p) : s \in {"none", "uploading", "done", "error"},
                               n \in BOOLEAN, p \in BOOLEAN}

LEMMA StatusIs ==
  ASSUME NEW s \in {"none", "uploading", "done", "error"}, NEW n \in BOOLEAN, NEW p \in BOOLEAN
  PROVE  /\ Status(s, n, p) \in Statuses
         /\ Status(s, n, p).state = s /\ Status(s, n, p).name = n
         /\ Status(s, n, p).previousName = p
  BY DEF Status, Statuses

LEMMA StatusHas ==
  ASSUME NEW d \in Statuses
  PROVE  /\ d.state \in {"none", "uploading", "done", "error"}
         /\ d.name \in BOOLEAN /\ d.previousName \in BOOLEAN
  BY DEF Status, Statuses

LEMMA SeededIsStored ==
  ASSUME NEW present
  PROVE  /\ Seeded(present) \in [Documents -> Statuses]
         /\ \A s \in Documents :
              (Seeded(present)[s].state = "done" \/ Seeded(present)[s].name
                \/ Seeded(present)[s].previousName) => s \in present
<1>1. \A s \in Documents : s \in present => Seeded(present)[s] = Status("done", TRUE, FALSE)
  BY DEF Seeded
<1>2. \A s \in Documents : s \notin present => Seeded(present)[s] = Status("none", FALSE, FALSE)
  BY DEF Seeded, Absent
<1>3. Seeded(present) = [s \in Documents |-> Seeded(present)[s]]
  BY DEF Seeded
<1>4. Status("done", TRUE, FALSE) \in Statuses /\ Status("none", FALSE, FALSE) \in Statuses
  BY StatusIs
<1>5. Seeded(present) \in [Documents -> Statuses]
  BY <1>1, <1>2, <1>3, <1>4
<1>. QED  BY <1>1, <1>2, <1>5, StatusIs

LEMMA NoCallIs ==
  /\ NoCall \in [kind : {"none", "create", "save"},
                 value : Details \cup {NoDetails}, reached : BOOLEAN]
  /\ NoCall.kind = "none" /\ NoCall.value = NoDetails /\ NoCall.reached = FALSE
  BY DEF NoCall

LEMMA WizardInitially == WizardInit => WizardInv
<1>. SUFFICES ASSUME WizardInit PROVE WizardInv
  OBVIOUS
<1>1. 0 \in 0..MaxUploads
  BY WizardConstants
<1>2. docStatus \in [Documents -> Statuses] /\ ShowsStored
  BY SeededIsStored DEF WizardInit, ShowsStored
<1>3. uploads \in [Documents -> 0..MaxUploads] /\ attachments \in 0..MaxUploads
  BY <1>1 DEF WizardInit
<1>4. /\ saved \in Details \cup {NoDetails} /\ stored \subseteq Documents /\ typed \in Details
      /\ saving = NoCall /\ saving.kind = "none" /\ saving.reached = FALSE
      /\ saving.value = NoDetails /\ screen = "choose"
      /\ uploading = FALSE /\ submitting = FALSE /\ missed = FALSE
  BY NoCallIs DEF WizardInit
<1>5. /\ saved \in Details \cup {NoDetails} /\ stored \subseteq Documents
      /\ screen \in {"choose", "details", "documents", "confirm", "left"}
      /\ typed \in Details /\ uploading \in BOOLEAN
      /\ saving.kind \in {"none", "create", "save"}
      /\ saving.value \in Details \cup {NoDetails} /\ saving.reached \in BOOLEAN
      /\ submitting \in BOOLEAN /\ missed \in BOOLEAN
  BY <1>4
<1>6. WizardTypeOK
  BY <1>2, <1>3, <1>5 DEF WizardTypeOK, Statuses
<1>. QED  BY <1>2, <1>4, <1>6, NoCallIs DEF WizardInv, SavesTyped, PastDetails

\* The details: everything but the documents.
LEMMA DetailsStep ==
  ASSUME WizardInv, UNCHANGED documentVars, typed' \in Details, missed' \in BOOLEAN,
         saved' \in Details \cup {NoDetails},
         saving' \in [kind : {"none", "create", "save"},
                      value : Details \cup {NoDetails}, reached : BOOLEAN],
         screen' \in {"choose", "details", "documents", "confirm", "left"},
         submitting' \in BOOLEAN, SavesTyped', PastDetails',
         screen' = "confirm" => screen = "confirm" \/ Missing = {}
  PROVE  WizardInv'
<1>1. UNCHANGED <<stored, docStatus, uploading, uploads, attachments>>
  BY DEF documentVars
<1>2. WizardTypeOK'
  BY <1>1 DEF WizardInv, WizardTypeOK
<1>3. ShowsStored'
  BY <1>1 DEF WizardInv, ShowsStored
<1>4. Missing = {} => Required \subseteq stored
  BY DEF Missing, WizardInv, ShowsStored, Documents
<1>. QED  BY <1>1, <1>2, <1>3, <1>4 DEF WizardInv

\* The documents: everything but the details.
LEMMA DocumentsStep ==
  ASSUME WizardInv, UNCHANGED <<saved, screen, typed, saving, submitting, missed>>,
         stored \subseteq stored', stored' \subseteq Documents,
         docStatus' \in [Documents -> Statuses], ShowsStored',
         uploading' \in BOOLEAN, uploads' \in [Documents -> 0..MaxUploads],
         attachments' \in 0..MaxUploads
  PROVE  WizardInv'
<1>1. WizardTypeOK'
  BY DEF WizardInv, WizardTypeOK, Statuses
<1>2. SavesTyped' /\ PastDetails'
  BY DEF WizardInv, SavesTyped, PastDetails
<1>. QED  BY <1>1, <1>2 DEF WizardInv

LEMMA ReloadStep == WizardInv /\ Reload => WizardInv'
<1>. SUFFICES ASSUME WizardInv, Reload PROVE WizardInv'
  OBVIOUS
<1>1. /\ screen' \in {"choose", "details", "left"}
      /\ typed' \in IF saved = NoDetails THEN Details ELSE {saved}
      /\ docStatus' = Seeded(stored) /\ uploading' = FALSE
      /\ uploads' = [s \in Documents |-> 0] /\ attachments' = 0
      /\ saving' = NoCall /\ submitting' = FALSE /\ missed' = FALSE
      /\ UNCHANGED <<saved, stored>>
  BY DEF Reload
<1>2. /\ 0 \in 0..MaxUploads /\ typed' \in Details
      /\ saved \in Details \cup {NoDetails} /\ stored \subseteq Documents
  BY <1>1, WizardConstants DEF WizardInv, WizardTypeOK
<1>3. docStatus' \in [Documents -> Statuses] /\ ShowsStored'
  BY <1>1, SeededIsStored DEF ShowsStored
<1>4. uploads' \in [Documents -> 0..MaxUploads] /\ attachments' \in 0..MaxUploads
  BY <1>1, <1>2
<1>5. /\ saved' \in Details \cup {NoDetails} /\ stored' \subseteq Documents /\ typed' \in Details
      /\ saving' = NoCall /\ saving'.kind = "none" /\ saving'.reached = FALSE
      /\ saving'.value = NoDetails /\ screen' \in {"choose", "details", "left"}
      /\ uploading' = FALSE /\ submitting' = FALSE /\ missed' = FALSE
  BY <1>1, <1>2, NoCallIs
<1>6. /\ saved' \in Details \cup {NoDetails} /\ stored' \subseteq Documents
      /\ screen' \in {"choose", "details", "documents", "confirm", "left"}
      /\ typed' \in Details /\ uploading' \in BOOLEAN
      /\ saving'.kind \in {"none", "create", "save"}
      /\ saving'.value \in Details \cup {NoDetails} /\ saving'.reached \in BOOLEAN
      /\ submitting' \in BOOLEAN /\ missed' \in BOOLEAN
  BY <1>5
<1>7. WizardTypeOK'
  BY <1>3, <1>4, <1>6 DEF WizardTypeOK, Statuses
<1>. QED  BY <1>3, <1>5, <1>7, NoCallIs DEF WizardInv, SavesTyped, PastDetails

\* The steps of the details, of the calls and of the wizard.
LEMMA SaveStepIsRight ==
  ASSUME WizardInv,
         \/ \E v \in Details : Types(v)
         \/ CreateDraft \/ SaveStep \/ CreateReaches \/ UpdateReaches
         \/ SaveSucceeds \/ SaveFails \/ GoNext \/ GoPrev \/ Submit \/ SubmitEnds
  PROVE  WizardInv'
<1>1. /\ saved \in Details \cup {NoDetails} /\ typed \in Details
      /\ missed \in BOOLEAN /\ submitting \in BOOLEAN
      /\ screen \in {"choose", "details", "documents", "confirm", "left"}
      /\ saving \in [kind : {"none", "create", "save"},
                     value : Details \cup {NoDetails}, reached : BOOLEAN]
      /\ SavesTyped /\ PastDetails
  BY DEF WizardInv, WizardTypeOK
<1>. USE DEF SavesTyped, PastDetails
<1>2. ASSUME NEW v \in Details, Types(v) PROVE WizardInv'
  BY <1>1, <1>2, DetailsStep DEF Types
<1>3. ASSUME NEW kind \in {"create", "save"}, Calls(kind), saving.kind = "none",
             screen \in {"choose", "details"}
      PROVE  WizardInv'
  BY <1>1, <1>3, DetailsStep DEF Calls
<1>4. ASSUME NEW kind \in {"create", "save"}, Reaches(kind) PROVE WizardInv'
  <2>1. UNCHANGED documentVars
    BY <1>4 DEF Reaches, documentVars
  <2>2. saving' = [saving EXCEPT !.reached = TRUE]
    BY <1>4 DEF Reaches
  <2>3. saving'.kind = kind /\ saving'.value = saving.value /\ saving'.reached = TRUE
        /\ saving' \in [kind : {"none", "create", "save"},
                        value : Details \cup {NoDetails}, reached : BOOLEAN]
    BY <1>1, <1>4, <2>2 DEF Reaches
  <2>. QED  BY <1>1, <1>4, <2>1, <2>3, DetailsStep DEF Reaches
<1>5. CASE SaveSucceeds
  BY <1>1, <1>5, NoCallIs, DetailsStep DEF SaveSucceeds
<1>6. CASE SaveFails
  BY <1>1, <1>6, NoCallIs, DetailsStep DEF SaveFails
<1>7. CASE GoNext
  BY <1>1, <1>7, DetailsStep DEF GoNext, GoTo
<1>8. CASE GoPrev
  BY <1>1, <1>8, DetailsStep DEF GoPrev, GoTo
<1>9. CASE Submit
  BY <1>1, <1>9, DetailsStep DEF Submit
<1>10. CASE SubmitEnds
  BY <1>1, <1>10, DetailsStep DEF SubmitEnds
<1>11. CASE CreateDraft
  BY <1>3, <1>11 DEF CreateDraft
<1>12. CASE SaveStep
  BY <1>3, <1>12 DEF SaveStep
<1>13. CASE CreateReaches
  BY <1>4, <1>13 DEF CreateReaches
<1>14. CASE UpdateReaches
  BY <1>4, <1>14 DEF UpdateReaches
<1>. QED  BY <1>2, <1>5, <1>6, <1>7, <1>8, <1>9, <1>10, <1>11, <1>12, <1>13, <1>14

LEMMA UploadStep ==
  ASSUME WizardInv,
         \/ \E s \in Documents :
              PickFile(s) \/ \E isStored, heard \in BOOLEAN : UploadEnds(s, isStored, heard)
         \/ \E n \in 1..MaxUploads : PickAttachments(n)
         \/ AttachmentEnds
  PROVE  WizardInv'
<1>1. /\ stored \subseteq Documents /\ docStatus \in [Documents -> Statuses] /\ ShowsStored
      /\ uploading \in BOOLEAN /\ uploads \in [Documents -> 0..MaxUploads]
      /\ attachments \in 0..MaxUploads /\ MaxUploads \in Nat
  BY WizardConstants DEF WizardInv, WizardTypeOK, Statuses
<1>2. ASSUME NEW s \in Documents, PickFile(s) PROVE WizardInv'
  <2>1. /\ UNCHANGED <<saved, stored, screen, typed, attachments, saving, submitting, missed>>
        /\ uploading' = TRUE
    BY <1>2 DEF PickFile
  <2>2. uploads' \in [Documents -> 0..MaxUploads]
    BY <1>1, <1>2 DEF PickFile
  <2>. DEFINE before == docStatus[s].name \/ docStatus[s].previousName
  <2>3. docStatus[s] \in Statuses /\ before \in BOOLEAN /\ (before => s \in stored)
    BY <1>1, StatusHas DEF ShowsStored
  <2>4. docStatus' = [docStatus EXCEPT ![s] = Status("uploading", FALSE, before)]
    BY <1>2 DEF PickFile
  <2>. HIDE DEF before
  <2>5. docStatus' \in [Documents -> Statuses]
    BY <1>1, <2>3, <2>4, StatusIs
  <2>6. ShowsStored'
    BY <1>1, <2>1, <2>3, <2>4, StatusIs DEF ShowsStored
  <2>. QED  BY <1>1, <2>1, <2>2, <2>5, <2>6, DocumentsStep
<1>3. ASSUME NEW s \in Documents, NEW isStored \in BOOLEAN, NEW heard \in BOOLEAN,
             UploadEnds(s, isStored, heard)
      PROVE  WizardInv'
  <2>1. /\ UNCHANGED <<saved, screen, typed, attachments, saving, submitting, missed>>
        /\ uploading' = FALSE /\ (heard => isStored)
        /\ stored' = IF isStored THEN stored \cup {s} ELSE stored
    BY <1>3 DEF UploadEnds
  <2>2. uploads' \in [Documents -> 0..MaxUploads]
    BY <1>1, <1>3 DEF UploadEnds
  <2>3. docStatus[s] \in Statuses /\ docStatus[s].previousName \in BOOLEAN
        /\ (docStatus[s].previousName => s \in stored)
    BY <1>1, StatusHas DEF ShowsStored
  <2>4. PICK d \in Statuses :
          /\ docStatus' = [docStatus EXCEPT ![s] = d]
          /\ d.state = "done" \/ d.name \/ d.previousName => s \in stored'
    <3>1. CASE heard
      BY <1>3, <2>1, <3>1, StatusIs DEF UploadEnds
    <3>2. CASE ~heard
      <4>1. docStatus' = [docStatus EXCEPT ![s] =
                            Status("error", FALSE, docStatus[s].previousName)]
        BY <1>3, <3>2 DEF UploadEnds
      <4>. QED  BY <2>1, <2>3, <4>1, StatusIs
    <3>. QED  BY <3>1, <3>2
  <2>5. docStatus' \in [Documents -> Statuses] /\ stored \subseteq stored' /\ stored' \subseteq Documents
    BY <1>1, <2>1, <2>4
  <2>6. ShowsStored'
    BY <1>1, <2>4, <2>5 DEF ShowsStored
  <2>. QED  BY <1>1, <2>1, <2>2, <2>5, <2>6, DocumentsStep
<1>4. ASSUME NEW n \in 1..MaxUploads, PickAttachments(n) PROVE WizardInv'
  <2>1. /\ UNCHANGED <<saved, stored, screen, typed, docStatus, uploads, saving, submitting, missed>>
        /\ uploading' = TRUE /\ attachments' \in 0..MaxUploads
    BY <1>1, <1>4 DEF PickAttachments
  <2>2. ShowsStored'
    BY <1>1, <2>1 DEF ShowsStored
  <2>. QED  BY <1>1, <2>1, <2>2, DocumentsStep
<1>5. CASE AttachmentEnds
  <2>1. /\ UNCHANGED <<saved, stored, screen, typed, docStatus, uploads, saving, submitting, missed>>
        /\ uploading' = FALSE /\ attachments' \in 0..MaxUploads
    BY <1>1, <1>5 DEF AttachmentEnds
  <2>2. ShowsStored'
    BY <1>1, <2>1 DEF ShowsStored
  <2>. QED  BY <1>1, <2>1, <2>2, DocumentsStep
<1>. QED  BY <1>2, <1>3, <1>4, <1>5

LEMMA WizardStep == WizardInv /\ [WizardNext]_wizardVars => WizardInv'
<1>. SUFFICES ASSUME WizardInv, [WizardNext]_wizardVars PROVE WizardInv'
  OBVIOUS
<1>1. CASE UNCHANGED wizardVars
  <2>1. UNCHANGED <<saved, stored, screen, typed, docStatus, uploading, uploads,
                    attachments, saving, submitting, missed>>
    BY <1>1 DEF wizardVars
  <2>. QED  BY <2>1 DEF WizardInv, WizardTypeOK, ShowsStored, SavesTyped, PastDetails
<1>2. CASE WizardNext
  BY <1>2, ReloadStep, SaveStepIsRight, UploadStep DEF WizardNext
<1>. QED  BY <1>1, <1>2

\* Whoever is asked to submit has every document the server requires, and sees the
\* details it has unless they were typed over a save, for any documents and details
\* and any number of uploads, whatever is answered late, lost or reloaded.
THEOREM WizardConfirmsWhatIsSaved == WizardSpec => []ConfirmsWhatIsSaved
<1>1. WizardSpec => []WizardInv
  BY WizardInitially, WizardStep, PTL DEF WizardSpec
<1>2. WizardInv => ConfirmsWhatIsSaved
  BY DEF WizardInv, PastDetails, ConfirmsWhatIsSaved
<1>. QED  BY <1>1, <1>2, PTL

-----------------------------------------------------------------------------
(* The last step of the legacy wizard.                                       *)

\* The page is open and the last save it queued was acceptable only if what it
\* shows is; while a payment is asked for the first time, all is complete.
ReviewInv ==
  /\ ReviewTypeOK /\ rows \in [Lists -> Seq(Row)]
  /\ ~blocked /\ queue # "invalid" => DraftAccepts(rows, employees)
  /\ asking /\ ~CanRetry => FinalAccepts /\ DraftAccepts(rows, employees)

\* The checklist of a list and the schema of it agree.
LEMMA ListAgrees ==
  ASSUME NEW list
  PROVE  YearFileMessages(list) = {} <=> YearFileRowsWithMinimum(list)
<1>1. YearFileMessages(list) = {}
        <=> /\ \A i \in DOMAIN list : Touched(list[i]) => Filled(list[i])
            /\ \E i \in DOMAIN list : Filled(list[i])
  BY DEF YearFileMessages
<1>2. \A i \in DOMAIN list : Filled(list[i]) => Touched(list[i])
  BY DEF Filled, Touched
<1>. QED  BY <1>1, <1>2 DEF YearFileRowsWithMinimum, FilledYearFileRows

\* The checklist and the schema of a submission differ in one thing: how many
\* employees there may be.
LEMMA ChecklistAgrees ==
  ASSUME given \subseteq Singles
  PROVE  FinalAccepts <=> ErrorItems = {} /\ IsCount(employees)
<1>1. ErrorItems = {}
        <=> /\ \A l \in Lists : YearFileMessages(rows[l]) = {}
            /\ Singles \subseteq given
            /\ employees > 0
            /\ ~(standing = "unpaid" /\ ~EffectiveTerms)
  BY DEF ErrorItems
<1>2. ~(standing = "unpaid" /\ ~EffectiveTerms) <=> EffectiveTerms
  BY DEF EffectiveTerms
<1>. QED  BY <1>1, <1>2, ListAgrees DEF FinalAccepts, IsCount

LEMMA ShownRows ==
  ASSUME ReviewInv, NEW l \in Lists
  PROVE  /\ Shown(l) \in Seq(Row) /\ Len(Shown(l)) \in 1..MaxRows
         /\ DOMAIN Shown(l) = 1..Len(Shown(l))
         /\ rows[l] \in Seq(Row) /\ Len(rows[l]) \in 0..MaxRows
<1>1. rows[l] \in Seq(Row) /\ Len(rows[l]) <= MaxRows /\ Len(rows[l]) \in Nat
  BY DEF ReviewInv, ReviewTypeOK
<1>2. NoRow \in Row
  BY DEF NoRow, Row
<1>3. PICK k \in 1..MaxRows :
        k = IF Len(rows[l]) > Padding[l] THEN Len(rows[l]) ELSE Padding[l]
  BY <1>1, ReviewConstants
<1>4. Shown(l) = [i \in 1..k |-> IF i <= Len(rows[l]) THEN rows[l][i] ELSE NoRow]
  BY <1>3 DEF Shown
<1>5. \A i \in 1..k : i <= Len(rows[l]) => rows[l][i] \in Row
  BY <1>1
<1>6. Shown(l) \in [1..k -> Row]
  BY <1>2, <1>4, <1>5
<1>7. Shown(l) \in Seq(Row) /\ Len(Shown(l)) = k
  BY <1>6
<1>. QED  BY <1>1, <1>3, <1>6, <1>7, ReviewConstants

LEMMA ReviewInitially == ReviewInit => ReviewInv
<1>. SUFFICES ASSUME ReviewInit PROVE ReviewInv
  OBVIOUS
<1>1. FullRow \in Row /\ FullRow.year # "empty"
  BY DEF FullRow, Row
<1>2. /\ <<>> \in Seq(Row) /\ Len(<<>>) = 0 /\ DOMAIN <<>> = {}
      /\ <<FullRow>> \in Seq(Row) /\ Len(<<FullRow>>) = 1 /\ DOMAIN <<FullRow>> = {1}
      /\ <<FullRow>>[1] = FullRow
  BY <1>1
<1>3. \A l \in Lists : MaxRows >= 1
  BY ReviewConstants
<1>4. MaxRows >= 0
  BY ReviewConstants
<1>5. \A l \in Lists : /\ rows[l] \in Seq(Row) /\ Len(rows[l]) <= MaxRows
                       /\ \A i \in DOMAIN rows[l] : rows[l][i].year # "empty"
  <2>1. CASE standing = "unpaid"
    BY <1>2, <1>4, <2>1 DEF ReviewInit
  <2>2. CASE standing # "unpaid"
    BY <1>1, <1>2, <1>3, <2>2 DEF ReviewInit
  <2>. QED  BY <2>1, <2>2
<1>6. rows \in [Lists -> Seq(Row)]
  BY <1>5 DEF ReviewInit
<1>7. /\ employees \in 0..MaxCount
      /\ employees = 0 \/ IsCount(employees)
  BY ReviewConstants DEF ReviewInit, IsCount
<1>8. ReviewTypeOK
  BY <1>5, <1>7 DEF ReviewInit, ReviewTypeOK
<1>. QED  BY <1>5, <1>6, <1>7, <1>8 DEF ReviewInit, ReviewInv, DraftAccepts

\* A list that is changed is saved.
LEMMA ListStep ==
  ASSUME ReviewInv, NEW l \in Lists, NEW list \in Seq(Row), ChangeList(l, list)
  PROVE  ReviewInv'
<1>1. /\ Editable /\ Len(list) <= MaxRows /\ rows' = [rows EXCEPT ![l] = list]
      /\ Persists(rows', employees)
      /\ UNCHANGED <<given, employees, acceptedTerms, standing, blocked, asking>>
  BY DEF ChangeList
<1>2. /\ rows' \in [Lists -> Seq(Row)]
      /\ \A k \in Lists : rows'[k] \in Seq(Row) /\ Len(rows'[k]) <= MaxRows
  BY <1>1 DEF ReviewInv, ReviewTypeOK
<1>3. /\ queue' \in {"valid", "invalid"}
      /\ queue' # "invalid" => DraftAccepts(rows', employees')
  BY <1>1 DEF Persists
<1>4. ReviewTypeOK'
  BY <1>1, <1>2, <1>3 DEF ReviewInv, ReviewTypeOK
<1>5. ~asking'
  BY <1>1 DEF Editable
<1>. QED  BY <1>2, <1>3, <1>4, <1>5 DEF ReviewInv

LEMMA FileStep ==
  ASSUME ReviewInv, NEW l \in Lists, NEW i \in 1..MaxRows, FileStored(l, i)
  PROVE  ReviewInv'
<1>. DEFINE old == rows[l]
<1>1. old \in Seq(Row) /\ Len(old) \in 0..MaxRows /\ MaxRows \in Nat
  BY ShownRows, ReviewConstants
<1>2. PICK k \in 1..MaxRows : k = (IF i > Len(old) THEN i ELSE Len(old)) /\ i \in 1..k
  BY <1>1
<1>. DEFINE list == [j \in 1..k |-> IF j <= Len(old) THEN old[j] ELSE NoRow]
            new == [list EXCEPT ![i].file = TRUE]
<1>3. /\ Editable /\ rows' = [rows EXCEPT ![l] = new]
      /\ UNCHANGED <<given, employees, acceptedTerms, standing, queue, blocked, asking>>
  BY <1>2 DEF FileStored
<1>4. NoRow \in Row /\ NoRow.year # "empty"
  BY DEF NoRow, Row
<1>5. list \in [1..k -> Row]
  BY <1>1, <1>4
<1>6. \A j \in 1..k : list[j] = IF j <= Len(old) THEN old[j] ELSE NoRow
  OBVIOUS
<1>. HIDE DEF list
<1>7. [list[i] EXCEPT !.file = TRUE] \in Row /\ [list[i] EXCEPT !.file = TRUE].year = list[i].year
  BY <1>2, <1>5 DEF Row
<1>8. new \in [1..k -> Row] /\ \A j \in 1..k : new[j].year = list[j].year
  BY <1>2, <1>5, <1>7
<1>. HIDE DEF new
<1>9. new \in Seq(Row) /\ Len(new) = k /\ DOMAIN new = 1..k
  BY <1>8
<1>10. /\ rows' \in [Lists -> Seq(Row)]
       /\ \A m \in Lists : rows'[m] \in Seq(Row) /\ Len(rows'[m]) <= MaxRows
  BY <1>1, <1>3, <1>9 DEF ReviewInv, ReviewTypeOK
<1>11. DraftAccepts(rows, employees) => DraftAccepts(rows', employees')
  <2>. SUFFICES ASSUME DraftAccepts(rows, employees), NEW m \in Lists, NEW j \in DOMAIN rows'[m]
                PROVE  rows'[m][j].year # "empty"
    BY <1>3 DEF DraftAccepts
  <2>1. CASE m = l
    <3>1. rows'[m] = new /\ j \in 1..k
      BY <1>3, <1>9, <2>1 DEF ReviewInv
    <3>2. j <= Len(old) => j \in DOMAIN old
      BY <1>1, <3>1
    <3>3. list[j].year # "empty"
      BY <1>4, <1>6, <3>1, <3>2 DEF DraftAccepts
    <3>. QED  BY <1>8, <3>1, <3>3
  <2>2. CASE m # l
    BY <1>3, <2>2 DEF ReviewInv, DraftAccepts
  <2>. QED  BY <2>1, <2>2
<1>12. ReviewTypeOK'
  BY <1>3, <1>10 DEF ReviewInv, ReviewTypeOK
<1>13. ~asking'
  BY <1>3 DEF Editable
<1>. QED  BY <1>3, <1>10, <1>11, <1>12, <1>13 DEF ReviewInv

LEMMA ReviewStep == ReviewInv /\ [ReviewNext]_reviewVars => ReviewInv'
<1>. SUFFICES ASSUME ReviewInv, [ReviewNext]_reviewVars PROVE ReviewInv'
  OBVIOUS
<1>1. ASSUME NEW l \in Lists, NEW i \in 1..MaxRows, NEW year \in {"empty", "chosen"},
             ChooseYear(l, i, year)
      PROVE  ReviewInv'
  <2>. DEFINE list == [Shown(l) EXCEPT ![i].year = year]
  <2>1. Shown(l) \in Seq(Row) /\ i \in DOMAIN Shown(l) /\ ChangeList(l, list)
    BY <1>1, ShownRows DEF ChooseYear
  <2>2. [Shown(l)[i] EXCEPT !.year = year] \in Row
    <3>1. PICK row \in Row : row = Shown(l)[i]
      BY <2>1
    <3>2. [row EXCEPT !.year = year] \in Row
      BY DEF Row
    <3>. QED  BY <3>1, <3>2
  <2>3. list \in Seq(Row)
    BY <2>1, <2>2
  <2>. HIDE DEF list
  <2>. QED  BY <2>1, <2>3, ListStep
<1>2. ASSUME NEW l \in Lists, AddYear(l) PROVE ReviewInv'
  <2>1. Append(Shown(l), NoRow) \in Seq(Row)
    BY ShownRows DEF NoRow, Row
  <2>. QED  BY <1>2, <2>1, ListStep DEF AddYear
<1>3. ASSUME NEW l \in Lists, NEW i \in 1..MaxRows, FileStored(l, i) PROVE ReviewInv'
  BY <1>3, FileStep
<1>4. ASSUME NEW n \in 0..MaxCount, CountEmployees(n) PROVE ReviewInv'
  BY <1>4 DEF CountEmployees, Persists, Editable, ReviewInv, ReviewTypeOK, DraftAccepts
<1>5. ASSUME NEW file \in Singles, SingleStored(file) PROVE ReviewInv'
  BY <1>5 DEF SingleStored, Editable, ReviewInv, ReviewTypeOK, DraftAccepts
<1>6. ASSUME NEW accepted \in BOOLEAN, AcceptTerms(accepted) PROVE ReviewInv'
  BY <1>6 DEF AcceptTerms, ReviewInv, ReviewTypeOK, DraftAccepts
<1>7. ASSUME NEW ok \in BOOLEAN, SaveEnds(ok) PROVE ReviewInv'
  BY <1>7 DEF SaveEnds, ReviewInv, ReviewTypeOK, DraftAccepts, CanRetry, FinalAccepts,
              EffectiveTerms
<1>8. CASE UploadBlocks
  BY <1>8 DEF UploadBlocks, Editable, ReviewInv, ReviewTypeOK, DraftAccepts
<1>9. CASE MoveToStep
  BY <1>9 DEF MoveToStep, Persists, Editable, ReviewInv, ReviewTypeOK, DraftAccepts
<1>10. CASE StartPayment
  BY <1>10 DEF StartPayment, CanStartPayment, ReviewInv, ReviewTypeOK, DraftAccepts, CanRetry,
              FinalAccepts, EffectiveTerms
<1>11. CASE PaymentDeclined
  BY <1>11 DEF PaymentDeclined, ReviewInv, ReviewTypeOK, DraftAccepts
<1>12. CASE UNCHANGED reviewVars
  BY <1>12 DEF reviewVars, ReviewInv, ReviewTypeOK, DraftAccepts, CanRetry, FinalAccepts,
               EffectiveTerms
<1>. QED  BY <1>1, <1>2, <1>3, <1>4, <1>5, <1>6, <1>7, <1>8, <1>9, <1>10, <1>11, <1>12
          DEF ReviewNext

\* The checklist of the last step finds complete whatever the schema of a submission
\* takes; once the saves of a page have ended and none was refused, the schema takes
\* whatever the checklist finds complete; and what is sent for the first time both
\* schemas accept: for every set of lists and files, any number of rows and of
\* employees, and any limit of the integers.
THEOREM ReviewsAgree == ReviewSpec => []ReviewAgrees
<1>1. ReviewSpec => []ReviewInv
  BY ReviewInitially, ReviewStep, PTL DEF ReviewSpec
<1>2. ReviewInv => ReviewAgrees
  <2>. SUFFICES ASSUME ReviewInv PROVE ReviewAgrees
    OBVIOUS
  <2>1. /\ employees \in Nat
        /\ FinalAccepts <=> ErrorItems = {} /\ IsCount(employees)
    BY ChecklistAgrees, ReviewConstants DEF ReviewInv, ReviewTypeOK
  <2>2. ErrorItems = {} => employees > 0
    BY DEF ErrorItems
  <2>3. ErrorItems = {} /\ queue = "idle" /\ ~blocked => IsCount(employees)
    BY <2>1, <2>2 DEF ReviewInv, DraftAccepts
  <2>. QED  BY <2>1, <2>3 DEF ReviewInv, ReviewAgrees
<1>. QED  BY <1>1, <1>2, PTL

-----------------------------------------------------------------------------
(* All parts together: a step of one is a step, or none, of each.            *)

LEMMA ServerInitially ==
  Init => /\ OtpInv /\ WindowInv /\ GateInv /\ ContentInv /\ ScanInv /\ JobInv
          /\ FormInv /\ VisitInv /\ WizardInv /\ ReviewInv
<1>1. Init => OtpInit /\ GateInit /\ ContentInit /\ ScanInit /\ JobInit
              /\ FormInit /\ VisitInit /\ WizardInit /\ ReviewInit
  BY DEF Init
<1>. QED
  BY <1>1, OtpInitInv, WindowInit, GateInitInv, ContentInitially, ScanInitial, JobInitInv,
     FormInitially, VisitInitially, WizardInitially, ReviewInitially

LEMMA PartSteps ==
  ASSUME [Next]_serverVars
  PROVE  /\ [OtpNext]_otpVars /\ [GateNext]_gateVars /\ [ContentNext]_contentVars
         /\ [ScanNext]_scanVars /\ [JobNext]_jobVars /\ [FormNext]_formVars
         /\ [VisitNext]_visitVars /\ [WizardNext]_wizardVars /\ [ReviewNext]_reviewVars
<1>1. CASE UNCHANGED serverVars
  BY <1>1 DEF serverVars
<1>2. CASE part = "otp" /\ OtpNext /\ UNCHANGED NotOtp
  BY <1>2 DEF NotOtp
<1>3. CASE part = "gate" /\ GateNext /\ UNCHANGED NotGate
  BY <1>3 DEF NotGate
<1>4. CASE part = "content" /\ ContentNext /\ UNCHANGED NotContent
  BY <1>4 DEF NotContent
<1>5. CASE part = "scan" /\ ScanNext /\ UNCHANGED NotScan
  BY <1>5 DEF NotScan
<1>6. CASE part = "job" /\ JobNext /\ UNCHANGED NotJob
  BY <1>6 DEF NotJob
<1>7. CASE part = "form" /\ FormNext /\ UNCHANGED NotForm
  BY <1>7 DEF NotForm
<1>8. CASE part = "visit" /\ VisitNext /\ UNCHANGED NotVisit
  BY <1>8 DEF NotVisit
<1>9. CASE part = "wizard" /\ WizardNext /\ UNCHANGED NotWizard
  BY <1>9 DEF NotWizard
<1>10. CASE part = "review" /\ ReviewNext /\ UNCHANGED NotReview
  BY <1>10 DEF NotReview
<1>. QED  BY <1>1, <1>2, <1>3, <1>4, <1>5, <1>6, <1>7, <1>8, <1>9, <1>10 DEF Next

\* The parts share nothing, so that each keeps its own inductive invariant, and
\* every variable of every part its type, whatever else there is: on the server
\* and in the browser, for all values of their constants.
THEOREM ServerTypeCorrect == Spec => []TypeOK
<1>. DEFINE All == /\ OtpInv /\ WindowInv /\ GateInv /\ ContentInv /\ ScanInv /\ JobInv
                   /\ FormInv /\ VisitInv /\ WizardInv /\ ReviewInv
<1>1. Init => All
  BY ServerInitially
<1>2. All /\ [Next]_serverVars => All'
  BY PartSteps, OtpStepInv, WindowStep, GateStepInv, ContentStep, ScanStep, JobStepInv,
     FormStep, VisitStep, WizardStep, ReviewStep
<1>3. All => TypeOK
  <2>1. OtpInv /\ WindowInv => OtpTypeOK
    BY DEF OtpInv, RowTypes, WindowInv, OtpTypeOK
  <2>2. /\ GateInv => GateTypeOK
        /\ ContentInv => ContentTypeOK
        /\ ScanInv => ScanTypeOK
        /\ JobInv => JobTypeOK
        /\ FormInv => FormTypeOK
        /\ VisitInv => VisitTypeOK
        /\ WizardInv => WizardTypeOK
        /\ ReviewInv => ReviewTypeOK
    BY DEF GateInv, ContentInv, ScanInv, JobInv, FormInv, VisitInv, WizardInv, ReviewInv
  <2>. QED  BY <2>1, <2>2 DEF TypeOK
<1>. HIDE DEF All
<1>. QED  BY <1>1, <1>2, <1>3, PTL DEF Spec
=============================================================================
