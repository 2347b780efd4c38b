-------------------------------- MODULE SignIn --------------------------------
(***************************************************************************)
(* Signing in and out: hooks/useAuth.ts, authStore.ts, middleware.ts, the  *)
(* pages that redirect (frontend/src) and _sync_user in                    *)
(* backend/app/services/auth_service.py.                                   *)
(*                                                                         *)
(* Abstractions.  "app" stands for every protected route, which all mount  *)
(* AuthHydrator.  Two equal requests are one.  A token is its account.     *)
(* Another tab signing in is left out.                                     *)
(***************************************************************************)
EXTENDS Naturals

CONSTANTS Accounts, NoAccount

ASSUME SignInAssumption == NoAccount \notin Accounts

VARIABLES page,    \* home, login, register, callback, app
          effect,  \* the effect of the page has not run yet
          cookie,  \* qlearn-auth, which the middleware looks at
          session, \* Supabase's own storage, survives a reload
          jwt,     \* authStore, persisted,
          user,    \* and not persisted
          me,      \* requests that have the backend look up the user's row
          rows,    \* public.users
          quiet,   \* history: rows inserted for a request nobody awaits a profile from
          missed,  \* history: no profile came since one was asked for last
          hops     \* history: redirects since something happened

signInVars == <<page, effect, cookie, session, jwt, user, me, rows, quiet, missed, hops>>

Pages == {"home", "login", "register", "callback", "app"}
\* Of /auth/me, awaited by completeSession or hydrate; or one whose answer sets
\* no profile: of a page that is gone, or for something else than the profile.
\* What such a request is answered is left out.
MeRequest == [account : Accounts, by : {"completeSession", "hydrate", "nobody"}, stage : {"sent", "absent", "known"}]
Orphans(rs) == {[r EXCEPT !.by = "nobody"] : r \in {q \in rs : q.stage # "known"}}

SignInInit ==
  /\ page = "home" /\ effect = TRUE /\ cookie = FALSE /\ session = NoAccount /\ jwt = NoAccount
  /\ user = NoAccount /\ me = {} /\ rows = {} /\ quiet = {} /\ missed = FALSE /\ hops = 0

profile == <<me, rows, quiet, missed>>

-----------------------------------------------------------------------------
(* middleware.ts                                                           *)

Middleware(p, flag) ==
  IF p = "app" /\ ~flag THEN "login"
  ELSE IF p \in {"login", "register"} /\ flag THEN "app"
  ELSE p

\* The page a request for p ends on, with the cookie flag; n redirects led to
\* the request.
Arrive(p, flag, n) ==
  LET q == Middleware(p, flag) IN
  /\ page' = q /\ effect' = TRUE
  /\ hops' = n + IF q = p THEN 0 ELSE 1

\* A link of the page.
Visit(p) == Arrive(p, cookie, 0) /\ UNCHANGED <<cookie, session, jwt, user, profile>>

\* The address bar or the reload button loads a document: the profile in the
\* store goes, and so does whoever awaits an answer.  The backend goes on.
LoadPage(p) ==
  /\ user' = NoAccount /\ me' = Orphans(me)
  /\ Arrive(p, cookie, 0) /\ UNCHANGED <<cookie, session, jwt, rows, quiet, missed>>

-----------------------------------------------------------------------------
(* useAuth.ts                                                              *)

AskForProfile(a, by) ==
  /\ me' = me \cup {[account |-> a, by |-> by, stage |-> "sent"]}
  /\ missed' = FALSE /\ UNCHANGED <<rows, quiet>>

\* learningStore.loadCourses and every other request of a protected page, with
\* the token of the session or the one that is stored.
AskOther ==
  LET token == IF session # NoAccount THEN session ELSE jwt IN
  /\ page = "app" /\ token # NoAccount
  /\ me' = me \cup {[account |-> token, by |-> "nobody", stage |-> "sent"]}
  /\ UNCHANGED <<page, effect, cookie, session, jwt, user, rows, quiet, missed, hops>>

\* completeSession: the token, the cookie, the redirect, and the profile in
\* the background.
CompleteSession(a, n) ==
  /\ jwt' = a /\ cookie' = TRUE
  /\ Arrive("app", TRUE, n)
  /\ AskForProfile(a, "completeSession")
  /\ UNCHANGED <<session, user>>

\* login and register, when Supabase returns a session; without one they only
\* show a message.
Login(a) ==
  /\ page \in {"login", "register"}
  /\ jwt' = a /\ cookie' = TRUE /\ session' = a
  /\ Arrive("app", TRUE, 0)
  /\ AskForProfile(a, "completeSession")
  /\ UNCHANGED user

\* loginWithGoogle leaves for Google, which comes back to the callback page.
ReturnFromGoogle ==
  page \in {"login", "register"} /\ LoadPage("callback")

\* supabase-js exchanges the code, and the listener of the page is called.
CodeExchanged(a) ==
  /\ page = "callback" /\ session = NoAccount /\ session' = a
  /\ effect' = TRUE /\ hops' = 0
  /\ UNCHANGED <<page, cookie, jwt, user, profile>>

\* logout.  signOut reports an error in its result, which is not looked at, and
\* may leave the session.
Logout ==
  /\ page = "app"
  /\ session' \in {session, NoAccount} /\ user' = NoAccount /\ jwt' = NoAccount /\ cookie' = FALSE
  /\ Arrive("login", FALSE, 0) /\ UNCHANGED profile

\* redirectIfAuthenticated, from the effect of the login page.
MLoginEffect ==
  /\ page = "login" /\ effect
  /\ IF session = NoAccount
     THEN effect' = FALSE /\ UNCHANGED <<page, hops, cookie, jwt>>
     ELSE jwt' = session /\ UNCHANGED cookie /\ Arrive("app", cookie, hops + 1)
  /\ UNCHANGED <<session, user, profile>>
LoginEffect ==
  /\ page = "login" /\ effect
  /\ IF session = NoAccount
     THEN effect' = FALSE /\ UNCHANGED <<page, hops, cookie, jwt>>
     ELSE jwt' = session /\ cookie' = TRUE /\ Arrive("app", TRUE, hops + 1)
  /\ UNCHANGED <<session, user, profile>>

\* hydrate, from AuthHydrator on every protected page.
MHydrate ==
  /\ page = "app" /\ effect /\ effect' = FALSE
  /\ IF session = NoAccount \/ jwt # NoAccount THEN UNCHANGED <<jwt, cookie, profile>>
     ELSE jwt' = session /\ cookie' = TRUE /\ AskForProfile(session, "hydrate")
  /\ UNCHANGED <<page, hops, session, user>>
Hydrate ==
  /\ page = "app" /\ effect /\ effect' = FALSE
  /\ IF session = NoAccount \/ user # NoAccount THEN UNCHANGED <<jwt, cookie, profile>>
     ELSE jwt' = session /\ cookie' = TRUE /\ AskForProfile(session, "hydrate")
  /\ UNCHANGED <<page, hops, session, user>>

\* The landing page, and the callback page, which runs once per session.
HomeEffect ==
  /\ page = "home" /\ effect
  /\ IF cookie THEN Arrive("app", cookie, hops + 1) ELSE effect' = FALSE /\ UNCHANGED <<page, hops>>
  /\ UNCHANGED <<cookie, session, jwt, user, profile>>
CallbackEffect ==
  /\ page = "callback" /\ effect
  /\ IF session # NoAccount THEN CompleteSession(session, hops + 1)
     ELSE effect' = FALSE /\ UNCHANGED <<page, hops, cookie, jwt, session, user, profile>>

-----------------------------------------------------------------------------
(* _sync_user, for every request with a token: it reads the row and inserts *)
(* it when there is none.                                                  *)

browserSide == <<page, effect, cookie, session, jwt, hops>>
MeMoves(r, s) ==
  r \in me /\ me' = (me \ {r}) \cup (IF r.by = "nobody" /\ s = "known" THEN {} ELSE {[r EXCEPT !.stage = s]})

SelectUser(r) ==
  /\ r.stage = "sent" /\ MeMoves(r, IF r.account \in rows THEN "known" ELSE "absent")
  /\ UNCHANGED <<browserSide, user, rows, quiet, missed>>

\* The primary key refuses all but one of the first requests: an error 500.
InsertUser(r) ==
  /\ r.stage = "absent"
  /\ IF r.account \in rows
     THEN /\ r \in me /\ me' = me \ {r} /\ UNCHANGED <<rows, quiet>>
          /\ missed' = (missed \/ (r.by # "nobody" /\ r.account \in quiet))
     ELSE /\ MeMoves(r, "known") /\ rows' = rows \cup {r.account}
          /\ quiet' = quiet \cup (IF r.by = "nobody" THEN {r.account} ELSE {})
          /\ UNCHANGED missed
  /\ UNCHANGED <<browserSide, user>>

\* setUser, whoever is signed in by now.
ProfileArrives(r) ==
  /\ r \in me /\ r.stage = "known" /\ me' = me \ {r} /\ user' = r.account
  /\ UNCHANGED <<browserSide, rows, quiet, missed>>

\* A cold start, a 401, a lost answer, after which the backend may go on: the
\* session is kept.
ProfileFails(r) ==
  /\ r \in me /\ me' \in {me \ {r}, (me \ {r}) \cup Orphans({r})}
  /\ missed' = (missed \/ r.by # "nobody")
  /\ UNCHANGED <<browserSide, user, rows, quiet>>

\* Seven days pass; the refresh token is refused.
CookieExpires ==
  cookie /\ cookie' = FALSE /\ hops' = 0 /\ UNCHANGED <<page, effect, session, jwt, user, profile>>
SessionEnds ==
  session # NoAccount /\ session' = NoAccount /\ hops' = 0 /\ UNCHANGED <<page, effect, cookie, jwt, user, profile>>

Effects == LoginEffect \/ Hydrate \/ HomeEffect \/ CallbackEffect
Served(r) == SelectUser(r) \/ InsertUser(r) \/ ProfileArrives(r) \/ ProfileFails(r)

SignInNext ==
  \/ Effects \/ AskOther \/ ReturnFromGoogle \/ Logout \/ CookieExpires \/ SessionEnds
  \/ \E p \in Pages : Visit(p) \/ LoadPage(p)
  \/ \E a \in Accounts : Login(a) \/ CodeExchanged(a)
  \/ \E r \in me : Served(r)

\* React runs the effects of a page that stays, and what the backend is asked for
\* the profile gets on.
Attended(by) == \E r \in me : r.by = by /\ Served(r)
SignInFairness ==
  WF_signInVars(Effects) /\ \A by \in {"completeSession", "hydrate"} : WF_signInVars(Attended(by))

SignInSpec == SignInInit /\ [][SignInNext]_signInVars /\ SignInFairness

-----------------------------------------------------------------------------
(* Properties                                                              *)

SignInTypeOK ==
  /\ page \in Pages /\ effect \in BOOLEAN /\ cookie \in BOOLEAN /\ missed \in BOOLEAN /\ hops \in Nat
  /\ session \in Accounts \cup {NoAccount} /\ jwt \in Accounts \cup {NoAccount}
  /\ user \in Accounts \cup {NoAccount} /\ me \subseteq MeRequest /\ rows \subseteq Accounts /\ quiet \subseteq rows

\* useAuth.ts:112-119: the middleware, which knows the cookie, and the login
\* page, which knows the session, never send a visitor to and fro, whatever
\* became of either: two redirects at most.
NoRedirectLoop == hops <= 2

\* Whoever has a session does not stay in front of the sign-in form.
SignedInReachesApp ==
  (session # NoAccount /\ page \in {"login", "callback"})
    ~> (page \notin {"login", "callback"} \/ session = NoAccount)

\* A student who stays on a page gets the profile, unless a request for it was
\* lost, or was refused since a request that brings none inserted the row: one
\* of a document that is gone, or one for the courses.  That the requests of
\* completeSession and hydrate refuse each other costs nothing, nor does any
\* number of reloads.
FirstSignInHasProfile ==
  (page = "app" /\ session # NoAccount /\ ~effect)
    ~> (user # NoAccount \/ session = NoAccount \/ missed \/ page # "app" \/ effect)

\* useAuth.ts:21-45,128-148: a sign-in completes, whatever redirects, reloads and
\* expired cookies it meets: it leads away from the form and, as far as
\* requests for the profile are not lost or refused, to a profile.
SignInCompletes == SignedInReachesApp /\ FirstSignInHasProfile
===============================================================================
