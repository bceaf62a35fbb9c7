---------------------------- MODULE SessionVisits ----------------------------
(***************************************************************************)
(* Where a browser ends up.  The session is a signed cookie that stays     *)
(* valid when its user is gone, and most pages answer what they cannot     *)
(* show with a redirect to another page that judges the cookie by other    *)
(* means (lib/auth/session.ts, app/(public)/page.tsx, app/dashboard/,      *)
(* app/admin/page.tsx, app/api/auth/session-reset/, app/api/auth/logout/). *)
(* A tab asks for a page with the cookie of that moment; the answer is     *)
(* made from the database as it then is, and may redirect or clear the     *)
(* cookie that all tabs share.  The pages of the admin panel that behave   *)
(* like its first page are one page here.                                  *)
(***************************************************************************)
EXTENDS Naturals, FiniteSets

CONSTANTS Tabs

ASSUME VisitConstants == IsFiniteSet(Tabs)

VARIABLES
  cookie,    \* what the browser has: nothing, an unusable token, or a session
  facts,     \* what the server knows of the two subjects
  outage,    \* what the server lacks: nothing, its database or its secret
  tab,       \* the page each tab asks for or shows, and the cookie it sent
  trail      \* what each visit went through since anything else changed (not kept)

visitVars == <<cookie, facts, outage, tab, trail>>

Pages == {"/", "/dashboard", "/dashboard/application",
          "/dashboard/facilities-profile", "/dashboard/facilities-application",
          "/admin", "/admin/login", "/api/auth/session-reset"}
Cookies == {"none", "invalid", "user", "admin"}
Facts == {"userExists", "adminActive", "profileComplete"}
Visits == Pages \X Cookies

VisitTypeOK ==
  /\ cookie \in Cookies /\ facts \subseteq Facts
  /\ outage \in {"none", "database", "secret"}
  /\ tab \in [Tabs -> [at : {"closed", "asks", "shows", "failed"},
                       page : Pages, sent : Cookies]]
  /\ trail \in [Tabs -> SUBSET Visits]

VisitInit ==
  /\ cookie = "none" /\ facts = {"userExists", "adminActive"} /\ outage = "none"
  /\ tab = [t \in Tabs |-> [at |-> "closed", page |-> "/", sent |-> "none"]]
  /\ trail = [t \in Tabs |-> {}]

-----------------------------------------------------------------------------
(* What a page makes of a request.                                          *)

\* inspectSession: without the secret no token can be read, so that getSession
\* takes everyone for a stranger while the reset can tell the difference.
Session(sent) == IF outage # "secret" /\ sent \in {"user", "admin"} THEN sent ELSE "none"

HasDatabase == outage # "database"
Shows == [kind |-> "show"]
Fails == [kind |-> "fail"]
To(page) == [kind |-> "redirect", page |-> page]

HomeOf(kind) == IF kind = "admin" THEN "/admin" ELSE "/dashboard"
Login(sent) == IF Session(sent) = "admin" THEN "/admin/login" ELSE "/"

\* The first page trusts the cookie.
Home(sent) == IF Session(sent) = "none" THEN Shows ELSE To(HomeOf(sent))

\* Mutant: whoever cannot see the dashboard is sent to the first page.
DashboardHome(sent) ==
  IF Session(sent) # "user" THEN To("/")
  ELSE IF ~HasDatabase THEN Fails
  ELSE IF "userExists" \notin facts THEN To("/")
  ELSE IF "profileComplete" \notin facts THEN To("/dashboard/facilities-profile")
  ELSE Shows

Dashboard(sent) ==
  IF Session(sent) # "user" THEN To("/")
  ELSE IF ~HasDatabase THEN Fails
  ELSE IF "userExists" \notin facts THEN To("/api/auth/session-reset")
  ELSE IF "profileComplete" \notin facts THEN To("/dashboard/facilities-profile")
  ELSE Shows

\* The number of the company is there once the profile was completed.
Application(sent) ==
  IF Session(sent) # "user" \/ ~HasDatabase \/ "userExists" \notin facts THEN To("/")
  ELSE IF "profileComplete" \notin facts THEN To("/dashboard/facilities-profile")
  ELSE Shows

\* The form of the profile is also for those who have none yet.
Profile(sent) ==
  IF Session(sent) = "user" /\ HasDatabase THEN Shows ELSE To("/")

Facilities(sent) ==
  IF Session(sent) = "user" /\ HasDatabase /\ {"userExists", "profileComplete"} \subseteq facts
  THEN Shows ELSE To("/dashboard/facilities-profile")

Admin(sent) ==
  IF Session(sent) = "admin" /\ HasDatabase /\ "adminActive" \in facts
  THEN Shows ELSE To("/admin/login")

\* The subject of the session that was sent may still use it.
Live(sent) ==
  \/ Session(sent) = "user" /\ "userExists" \in facts
  \/ Session(sent) = "admin" /\ "adminActive" \in facts

SessionReset(sent) ==
  IF sent # "none" /\ outage = "secret" THEN Fails
  ELSE IF Session(sent) # "none" /\ ~HasDatabase THEN Fails
  ELSE IF Live(sent) THEN To(HomeOf(sent))
  ELSE To(Login(sent))

Clears(page, sent) ==
  /\ page = "/api/auth/session-reset" /\ sent # "none"
  /\ SessionReset(sent) = To(Login(sent))

Reply(page, sent) ==
  CASE page = "/" -> Home(sent)
    [] page = "/dashboard" -> Dashboard(sent)
    [] page = "/dashboard/application" -> Application(sent)
    [] page = "/dashboard/facilities-profile" -> Profile(sent)
    [] page = "/dashboard/facilities-application" -> Facilities(sent)
    [] page = "/admin" -> Admin(sent)
    [] page = "/admin/login" -> Shows
    [] page = "/api/auth/session-reset" -> SessionReset(sent)

-----------------------------------------------------------------------------
(* The tabs.                                                                *)

Asks(t, page, sent) == tab' = [tab EXCEPT ![t] = [at |-> "asks", page |-> page, sent |-> sent]]

\* Something other than the visit of t changed: every trail begins anew.
Anew == trail' = [t \in Tabs |-> {}]

\* A link or an address.
Visit(t, page) ==
  /\ tab[t].at # "asks"
  /\ Asks(t, page, cookie)
  /\ trail' = [trail EXCEPT ![t] = {}]
  /\ UNCHANGED <<cookie, facts, outage>>

\* The browser follows a redirect with the cookie that the answer left it.
Answer(t) ==
  LET page == tab[t].page
      sent == tab[t].sent
      reply == Reply(page, sent)
  IN /\ tab[t].at = "asks"
     /\ cookie' = IF Clears(page, sent) THEN "none" ELSE cookie
     /\ CASE reply.kind = "redirect" -> Asks(t, reply.page, cookie')
          [] reply.kind = "show" -> tab' = [tab EXCEPT ![t].at = "shows"]
          [] reply.kind = "fail" -> tab' = [tab EXCEPT ![t].at = "failed"]
     /\ trail' = [u \in Tabs |-> IF u = t THEN trail[u] \cup {<<page, sent>>}
                                 ELSE IF cookie' = cookie THEN trail[u] ELSE {}]
     /\ UNCHANGED <<facts, outage>>

\* A code was right (OtpLogin); an applicant who had no account has one now.
LogIn(t, kind) ==
  /\ tab[t].at = "shows" /\ tab[t].page = (IF kind = "admin" THEN "/admin/login" ELSE "/")
  /\ outage = "none"
  /\ kind = "admin" => "adminActive" \in facts
  /\ cookie' = kind
  /\ facts' = IF kind = "user" THEN facts \cup {"userExists"} ELSE facts
  /\ Asks(t, HomeOf(kind), cookie') /\ Anew
  /\ UNCHANGED outage

\* The button of every page with a menu.
LogOut(t) ==
  /\ tab[t].at = "shows" /\ tab[t].page \notin {"/", "/admin/login"}
  /\ cookie' = "none"
  /\ Asks(t, "/", cookie') /\ Anew
  /\ UNCHANGED <<facts, outage>>

-----------------------------------------------------------------------------
(* What else changes.                                                       *)

\* A token expires, or its signature is no longer accepted.
CookieSpoils ==
  /\ cookie \in {"user", "admin"}
  /\ cookie' \in {"none", "invalid"}
  /\ UNCHANGED <<facts, outage>>

\* A user goes with the company and its profile; an administrator is switched
\* off and on; a profile is completed.
FactsChange ==
  /\ facts' \in { facts \ {"userExists", "profileComplete"},
                  facts \ {"adminActive"}, facts \cup {"adminActive"},
                  IF "userExists" \in facts THEN facts \cup {"profileComplete"} ELSE facts }
  /\ facts' # facts
  /\ UNCHANGED <<cookie, outage>>

OutageChanges ==
  /\ outage' \in {"none", "database", "secret"} \ {outage}
  /\ UNCHANGED <<cookie, facts>>

OutsideChange == (CookieSpoils \/ FactsChange \/ OutageChanges) /\ Anew /\ UNCHANGED tab

VisitNext ==
  \/ \E t \in Tabs :
       \/ \E page \in Pages : Visit(t, page)
       \/ Answer(t)
       \/ \E kind \in {"user", "admin"} : LogIn(t, kind)
       \/ LogOut(t)
  \/ OutsideChange

VisitSpec == VisitInit /\ [][VisitNext]_visitVars

-----------------------------------------------------------------------------
(* Properties                                                               *)

\* While nothing else changes, no redirect leads a visit to a page it has been
\* to with the same cookie: every visit ends with a page or a message, and the
\* loop of a valid cookie without its user is broken
\* (app/dashboard/page.tsx:29-33).
NoRedirectLoop ==
  \A t \in Tabs : tab[t].at = "asks" => <<tab[t].page, tab[t].sent>> \notin trail[t]
=============================================================================
