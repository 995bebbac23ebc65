------------------------------ MODULE Console -------------------------------
(***************************************************************************)
(* One tab of the web console (apps/web): the gate that shows the wizard,  *)
(* the routes and their two guards (App.tsx), the session query, signing   *)
(* in and out, and the redemption of an invitation.  The pages behind the  *)
(* guards are in module Pages.                                             *)
(*                                                                         *)
(* The server is the browser's session, the accounts and the rows; each    *)
(* section of what it answers has a version, which the user's changes      *)
(* raise.  What the user, the other tabs and the network may do is bounded *)
(* by "left".                                                              *)
(***************************************************************************)
EXTENDS QueryClient, SetupPage, FiniteSets, Sequences

CONSTANTS People,   \* the accounts
          Guest,    \* the person an invitation was sent to
          Rows,     \* the workspaces; the image releases, on their page
          Nobody, NoRow, NoPage,
          Scenes    \* where a behaviour starts, and its bounds

ASSUME ConsoleAssumption == Guest \in People /\ Nobody \notin People

VARIABLES configured,  \* the platform has its domains
          cookie,      \* whose session the browser's cookie is
          made,        \* the accounts that exist
          admins,
          row,         \* the status of each workspace
          version,     \* of each section: how often the user has changed it
          gate,        \* what App knows of the setup: "asking", "page", "done"
          path, at,    \* the page shown, and the row it is about
          over,        \* the dialog, sheet or menu open on it
          next,        \* the page the login leads back to
          cache,       \* the query cache
          auth,        \* the sign-in, sign-out or redemption under way
          phase, wrong,  \* AcceptInvitePage: phase, isError
          req,         \* the other mutations, in the order they were asked
          era,         \* history: sign-outs answered in this document
          mine,        \* history: this visit's redemption made the account
          unheard,     \* history: and its answer was lost
          left         \* what may still happen

serverVars == <<configured, cookie, made, admins, row, version>>
pageVars == <<path, at, over, next>>
inviteVars == <<phase, wrong, mine, unheard>>

Spend(what) == left[what] > 0 /\ left' = [left EXCEPT ![what] = @ - 1]

-----------------------------------------------------------------------------
(* The query keys (lib/query-keys.ts) and what the server answers.         *)

Session == <<"session">>
Mine == <<"instances">>
Fleet == <<"admin", "instances">>
Users == <<"admin", "users">>
Invitations == <<"admin", "invitations">>
Versions == <<"admin", "images">>
Sessions == <<"sessions">>
Instance(r) == <<"instance", r>>
Image(r) == <<"instance-image", r>>
AdminImage(r) == <<"admin", "instance-image", r>>

AdminKeys == {Fleet, Users, Invitations, Versions} \cup {AdminImage(r) : r \in Rows}
OfRow(r) == {Instance(r), Image(r), AdminImage(r)}
Keys == {Session, Mine, Sessions} \cup AdminKeys \cup UNION {OfRow(r) : r \in Rows}

Sections == {"me", "instances", "users", "invitations", "versions", "tags", "sessions"}
SectionOf(k) ==
    IF k = Session THEN "me"
    ELSE IF k = Users THEN "users"
    ELSE IF k = Invitations THEN "invitations"
    ELSE IF k = Versions THEN "versions"
    ELSE IF k = Sessions THEN "sessions"
    ELSE IF \E r \in Rows : k \in {Image(r), AdminImage(r)} THEN "tags"
    ELSE "instances"

There == {r \in Rows : row[r] # "gone"}

\* The rows a list or a detail shows.
Seen(k) ==
    IF k \in {Mine, Fleet} THEN row
    ELSE IF \E r \in There : k = Instance(r)
    THEN [r \in {s \in There : k = Instance(s)} |-> row[r]]
    ELSE <<>>

\* The session query answers null to a stranger; the others 401, 403 or 404.
Allowed(k, who) ==
    /\ configured /\ who # Nobody
    /\ k \in AdminKeys => who \in admins
    /\ \A r \in Rows : k \in OfRow(r) => r \in There

\* Whose session a request was sent with, if it still is one.
Caller(k) == IF configured /\ cache[k].as = cookie THEN cookie ELSE Nobody
Answers(k) == (k = Session /\ configured) \/ Allowed(k, Caller(k))

Answer(k) ==
    [who |-> Caller(k), admin |-> Caller(k) \in admins, era |-> era,
     version |-> version[SectionOf(k)], rows |-> Seen(k)]

-----------------------------------------------------------------------------
(* Routes and guards (App.tsx).                                            *)

Public == {"login", "invite"}
AdminPages == {"overview", "fleet", "users", "versions"}
RowPages == {"detail", "open", "settings"}
Pages == Public \cup AdminPages \cup RowPages
         \cup {"home", "workspaces", "new", "account", "security", "devices"}

\* The page of a workspace is the page of one.
ASSUME ScenesAssumption == \A s \in Scenes : s.path \in RowPages => s.at \in Rows

Signed(c) == c[Session].data # NoData /\ c[Session].data.who # Nobody

\* RequireAuth, then RequireAdmin.
Lands(c, p) ==
    IF p \in Public \/ Waiting(c[Session]) THEN p
    ELSE IF ~Signed(c) THEN "login"
    ELSE IF p \in AdminPages /\ ~c[Session].data.admin THEN "home"
    ELSE p

\* The pages behind the guards are mounted.
Inside == gate = "done" /\ path \notin Public /\ Signed(cache)
User == cache[Session].data

\* The queries each page mounts (AppLayout's and RequireAdmin's use of the
\* session included where the page reads it).
HomePage == {Session, Mine}
InstancesPage == {Mine}
InstanceDetailPage(r) == {Instance(r)}
OpenWorkspacePage(r) == {Instance(r)}

\* The versions are asked for once the workspace is there (VersionCard).
WorkspaceSettingsPage(c, r) ==
    {Instance(r)} \cup {k \in {Image(r)} : c[Instance(r)].data # NoData}

ProfileCard == {Session}
SessionsCard == {Sessions}
AdminOverviewPage == {Session, Fleet, Users}
AdminInstancesPage == {Session, Fleet}
AdminUsersPage == {Session, Users, Invitations}
AdminVersionsPage == {Session, Versions}

PageKeys(c, p, r) ==
    CASE p = "home"       -> HomePage
      [] p = "workspaces" -> InstancesPage
      [] p = "detail"     -> InstanceDetailPage(r)
      [] p = "open"       -> OpenWorkspacePage(r)
      [] p = "settings"   -> WorkspaceSettingsPage(c, r)
      [] p = "account"    -> ProfileCard
      [] p = "devices"    -> SessionsCard
      [] p = "overview"   -> AdminOverviewPage
      [] p = "fleet"      -> AdminInstancesPage
      [] p = "users"      -> AdminUsersPage
      [] p = "versions"   -> AdminVersionsPage
      [] OTHER            -> {}

Nothing == [what |-> "nothing", row |-> NoRow]
OverKeys(o) ==
    CASE o.what = "menu"                        -> {Mine}
      [] o.what \in {"image", "adminRollback"} -> {AdminImage(o.row)}
      [] OTHER                                  -> {}

Watched ==
    IF gate # "done" \/ path \in Public THEN {}
    ELSE IF ~Inside THEN {Session}
    ELSE {Session} \cup PageKeys(cache, path, at) \cup OverKeys(over)

MountIn(c, ks, who) == [k \in Keys |-> IF k \in ks THEN Mount(c[k], who) ELSE c[k]]

\* The document, with the cache c, is taken to page p by the user, a redirect
\* or a navigate(): the guards decide where it lands, and the queries of what
\* is new on the screen are mounted.
Shows(c, p, r, who) ==
    LET outside == gate # "done" \/ path \in Public
        c1 == IF outside /\ p \notin Public THEN MountIn(c, {Session}, who) ELSE c
        to == Lands(c1, p)
        of == IF to = p THEN r ELSE NoRow
        stays == path = to /\ at = of /\ (Inside \/ to \in Public)
        fresh == IF to \in Public \/ ~Signed(c1) THEN {}
                 ELSE PageKeys(c1, to, of) \ IF stays THEN Watched ELSE {}
    IN  /\ path' = to
        /\ at' = of
        /\ over' = IF stays THEN over ELSE Nothing
        /\ next' = IF to # "login" THEN NoPage
                   ELSE IF p # "login" THEN <<p, r>>
                   ELSE IF path = "login" THEN next ELSE NoPage
        /\ cache' = MountIn(c1, fresh, who)

\* The mutations of a page that is left go on, nobody watches them any more.
LeavePage(q) ==
    req' = IF path' = path /\ at' = at THEN q
           ELSE [n \in DOMAIN q |-> [q[n] EXCEPT !.here = FALSE]]

NoAuth == [op |-> "none", st |-> "none", who |-> Nobody, next |-> NoPage]

\* A new document: what the old one was waiting for is never heard of.
Load(p, r) ==
    /\ gate' = "asking"
    /\ path' = p /\ at' = r /\ over' = Nothing /\ next' = NoPage
    /\ cache' = [k \in Keys |-> Blank]
    /\ auth' = NoAuth
    /\ phase' = "idle" /\ wrong' = FALSE /\ mine' = FALSE /\ unheard' = FALSE
    /\ req' = <<>>
    /\ era' = 0

-----------------------------------------------------------------------------
(* The document starts; useSetupState decides what it shows.  An answer    *)
(* that never comes counts as a configured platform.                       *)

AppStarts ==
    /\ gate = "asking"
    /\ \/ configured /\ UNCHANGED left
       \/ Spend("fail")
    /\ gate' = "done"
    /\ Shows(cache, path, at, cookie)
    /\ UNCHANGED <<serverVars, inviteVars, auth, req, era, wizard>>

WizardOpens ==
    /\ gate = "asking" /\ ~configured
    /\ gate' = "page"
    /\ UNCHANGED <<serverVars, pageVars, inviteVars, cache, auth, req, era,
                   left, wizard>>

\* The server's side of a submission: it refuses once the domains are stored,
\* and the answer of one that stores them may be lost on the way.
Submitted ==
    \/ wizard'.submit = "done" /\ ~configured /\ configured' = TRUE /\ UNCHANGED left
    \/ wizard'.submit = "error" /\ UNCHANGED <<configured, left>>
    \/ wizard'.submit = "error" /\ ~configured /\ Spend("fail") /\ configured' = TRUE

\* SetupPage is all there is, until the page is loaded again or replaced.
Wizard ==
    /\ gate = "page"
    /\ \/ Spend("type") /\ (\E i \in Inputs : Type(i)) /\ UNCHANGED configured
       \/ (ProbeLeaves \/ ProbeAnswers \/ Waive \/ Submit) /\ UNCHANGED <<left, configured>>
       \/ SubmitAnswers /\ Submitted
    /\ UNCHANGED <<cookie, made, admins, row, version, pageVars, inviteVars,
                   gate, cache, auth, req, era>>

-----------------------------------------------------------------------------
(* The queries.                                                            *)

Served(k) ==
    /\ cache[k].fetch = "sent"
    /\ cache' = [cache EXCEPT ![k] = IF Answers(k) THEN Read(@, Answer(k)) ELSE Refuse(@)]
    /\ UNCHANGED <<serverVars, pageVars, inviteVars, gate, auth, req, era,
                   left, wizard>>

\* The session stays fresh for 30 s (SessionAges); the guards render again.
Arrives(k) ==
    /\ cache[k].fetch \in {"read", "refused"}
    /\ Shows([cache EXCEPT ![k] = IF @.fetch = "read" THEN Arrived(@, k = Session)
                                  ELSE Failed(@)], path, at, cookie)
    /\ LeavePage(req)
    /\ UNCHANGED <<serverVars, inviteVars, gate, auth, era, left, wizard>>

Drops(k) ==
    /\ cache[k].fetch \in {"sent", "read"}
    /\ Spend("fail")
    /\ Shows([cache EXCEPT ![k] = Failed(@)], path, at, cookie)
    /\ LeavePage(req)
    /\ UNCHANGED <<serverVars, inviteVars, gate, auth, era, wizard>>

SessionAges ==
    /\ User # NoData /\ ~cache[Session].old /\ left.tab > 0
    /\ cache' = [cache EXCEPT ![Session].old = TRUE]
    /\ UNCHANGED <<serverVars, pageVars, inviteVars, gate, auth, req, era,
                   left, wizard>>

-----------------------------------------------------------------------------
(* Signing in (LoginPage), redeeming an invitation (AcceptInvitePage),     *)
(* signing out (SidebarUser).                                              *)

Asks(op, p) ==
    /\ gate = "done" /\ auth = NoAuth
    /\ Spend("auth")
    /\ auth' = [op |-> op, st |-> "sent", who |-> p, next |-> next]

AskSignIn(p) ==
    /\ path = "login"
    /\ Asks("signIn", p)
    /\ UNCHANGED <<serverVars, pageVars, inviteVars, gate, cache, req, era, wizard>>

AskAccept ==
    /\ path = "invite"
    /\ Asks("accept", Guest)
    /\ wrong' = FALSE
    /\ UNCHANGED <<serverVars, pageVars, gate, cache, req, era, wizard,
                   phase, mine, unheard>>

AskSignOut ==
    /\ Inside
    /\ Asks("signOut", Nobody)
    /\ UNCHANGED <<serverVars, pageVars, inviteVars, gate, cache, req, era, wizard>>

\* The server: a sign-in may be refused (password, ban, limit), an invitation
\* may be spent or expired; a sign-out ends the session at once.
ServeAuth ==
    /\ auth.st = "sent"
    /\ \/ auth.op \in {"signIn", "signInAfter"} /\ auth.who \in made
          /\ auth' = [auth EXCEPT !.st = "served"]
          /\ UNCHANGED <<cookie, made, mine>>
       \/ auth.op = "accept" /\ Guest \notin made
          /\ auth' = [auth EXCEPT !.st = "served"]
          /\ made' = made \cup {Guest} /\ mine' = TRUE
          /\ UNCHANGED cookie
       \/ auth.op = "signOut"
          /\ auth' = [auth EXCEPT !.st = "served"]
          /\ cookie' = Nobody
          /\ UNCHANGED <<made, mine>>
       \/ auth.op # "signOut"
          /\ auth' = [auth EXCEPT !.st = "refused"]
          /\ UNCHANGED <<cookie, made, mine>>
    /\ UNCHANGED <<configured, admins, row, version, pageVars, gate, cache, req, era,
                   left, wizard, phase, wrong, unheard>>

SignedIn(p) ==
    [cache EXCEPT ![Session] =
        SetData(@, [who |-> p, admin |-> p \in admins, era |-> era,
                    version |-> version["me"], rows |-> <<>>])]

\* setQueryData, then the page that sent the user here: safeLoginRedirect
\* makes an absolute address of it, so that the browser loads a new document;
\* without one the router goes to the home page.
SignInAnswered ==
    /\ auth.op = "signIn" /\ auth.st = "served"
    /\ cookie' = auth.who
    /\ IF auth.next # NoPage THEN Load(auth.next[1], auth.next[2]) ELSE
         /\ Shows(SignedIn(auth.who), "home", NoRow, auth.who)
         /\ LeavePage(req)
         /\ auth' = NoAuth
         /\ UNCHANGED <<gate, era, inviteVars>>
    /\ UNCHANGED <<configured, made, admins, row, version, left, wizard>>

\* Slip: the phase is set when everything has succeeded.
AcceptAnsweredQuietly ==
    /\ auth.op = "accept" /\ auth.st = "served"
    /\ auth' = [auth EXCEPT !.op = "signInAfter", !.st = "sent"]
    /\ UNCHANGED <<serverVars, pageVars, gate, cache, req, era, left, wizard,
                   inviteVars>>

\* The account exists: setPhase, then the sign-in of the same submission.
AcceptAnswered ==
    /\ auth.op = "accept" /\ auth.st = "served"
    /\ auth' = [auth EXCEPT !.op = "signInAfter", !.st = "sent"]
    /\ phase' = IF path = "invite" THEN "accepted" ELSE phase
    /\ UNCHANGED <<serverVars, pageVars, gate, cache, req, era, left, wizard,
                   wrong, mine, unheard>>

InviteLeft == phase' = "idle" /\ wrong' = FALSE /\ mine' = FALSE /\ unheard' = FALSE

SignInAfterAnswered ==
    /\ auth.op = "signInAfter" /\ auth.st = "served"
    /\ cookie' = auth.who
    /\ auth' = NoAuth
    /\ Shows(SignedIn(auth.who), "home", NoRow, auth.who)
    /\ LeavePage(req)
    /\ InviteLeft
    /\ UNCHANGED <<configured, made, admins, row, version, gate, era, left, wizard>>

\* Slip: the cache outlives the sign-out.
SignOutKeepsCache ==
    /\ auth.op = "signOut" /\ auth.st = "served"
    /\ auth' = NoAuth
    /\ era' = era + 1
    /\ path' = "login" /\ at' = NoRow /\ over' = Nothing /\ next' = NoPage
    /\ LeavePage(req)
    /\ UNCHANGED <<serverVars, inviteVars, gate, cache, left, wizard>>

\* queryClient.clear(), fetches under way included, then /login.
SignOutAnswered ==
    /\ auth.op = "signOut" /\ auth.st = "served"
    /\ auth' = NoAuth
    /\ era' = era + 1
    /\ cache' = [k \in Keys |-> Blank]
    /\ path' = "login" /\ at' = NoRow /\ over' = Nothing /\ next' = NoPage
    /\ LeavePage(req)
    /\ UNCHANGED <<serverVars, inviteVars, gate, left, wizard>>

\* An error, from the server or for want of an answer.
AuthFails ==
    /\ \/ auth.st = "refused" /\ UNCHANGED left
       \/ auth.st \in {"sent", "served"} /\ Spend("fail")
    /\ auth' = NoAuth
    /\ wrong' = (path = "invite" /\ auth.op \in {"accept", "signInAfter"})
    /\ unheard' = (unheard \/ (auth.op = "accept" /\ auth.st = "served"))
    /\ UNCHANGED <<serverVars, pageVars, gate, cache, req, era, wizard, phase, mine>>

-----------------------------------------------------------------------------
(* The user goes somewhere.                                                *)

\* A link, a shortcut or the history; the invitation's page offers /login
\* once its account exists.
Move(p, r) ==
    /\ gate = "done" /\ <<p, r>> # <<path, at>>
    /\ (r # NoRow) = (p \in RowPages)
    /\ \/ Inside /\ p \notin Public /\ (p \in AdminPages => User.admin)
          /\ UNCHANGED inviteVars
       \/ path = "login" /\ p = "home"
          /\ UNCHANGED inviteVars
       \/ path = "invite" /\ wrong /\ phase = "accepted" /\ p = "login"
          /\ auth = NoAuth
          /\ InviteLeft
    /\ Spend("move")
    /\ Shows(cache, p, r, cookie)
    /\ LeavePage(req)
    /\ UNCHANGED <<serverVars, gate, auth, era, wizard>>

\* The address bar, or a reload.
Reload(p, r) ==
    /\ gate # "asking"
    /\ (r # NoRow) = (p \in RowPages)
    /\ Spend("load")
    /\ Load(p, r)
    /\ UNCHANGED <<serverVars, wizard>>

\* Another tab, an administrator or the clock: the browser's session ends, or
\* is somebody else's.
SessionChanges ==
    /\ Spend("tab")
    /\ \E c \in (made \cup {Nobody}) \ {cookie} : cookie' = c
    /\ UNCHANGED <<configured, made, admins, row, version, pageVars, inviteVars,
                   gate, cache, auth, req, era, wizard>>

-----------------------------------------------------------------------------
InitConsole ==
    \E s \in Scenes :
      /\ configured = s.configured /\ cookie = s.cookie /\ admins = s.admins
      /\ made = s.made
      /\ row = s.row /\ version = [x \in Sections |-> 0]
      /\ gate = "asking" /\ path = s.path /\ at = s.at /\ over = Nothing /\ next = NoPage
      /\ cache = [k \in Keys |-> Blank]
      /\ auth = NoAuth /\ phase = "idle" /\ wrong = FALSE
      /\ req = <<>>
      /\ era = 0 /\ mine = FALSE /\ unheard = FALSE
      /\ left = s.left
      /\ wizard \in {BlankWizard(t) : t \in IF configured THEN {FALSE} ELSE BOOLEAN}

AuthAnswered ==
    SignInAnswered \/ AcceptAnswered \/ SignInAfterAnswered \/ SignOutAnswered

NextConsole ==
    \/ AppStarts \/ WizardOpens \/ Wizard
    \/ \E k \in Keys : Served(k) \/ Arrives(k) \/ Drops(k)
    \/ SessionAges
    \/ \E p \in People : AskSignIn(p)
    \/ AskAccept \/ AskSignOut \/ ServeAuth \/ AuthAnswered \/ AuthFails
    \/ \E p \in left.pages, r \in Rows \cup {NoRow} : Move(p, r) \/ Reload(p, r)
    \/ SessionChanges

-----------------------------------------------------------------------------
(* Whatever is on the screen, and whatever is still to arrive there, was   *)
(* read after the last sign-out of this document: the next user of the tab *)
(* is shown nothing of the former one's (sidebar-user.tsx: "clear          *)
(* everything on leaving").                                                *)
ShownIsOwn ==
    \A k \in Watched :
      /\ cache[k].data # NoData => cache[k].data.era = era
      /\ cache[k].answer # NoData => cache[k].answer.era = era

(* When the redemption of an invitation ends in an error, the page says    *)
(* that the account exists exactly when this visit has made it, whichever  *)
(* of its two requests failed; only an answer that was lost hides it       *)
(* (AcceptInvitePage.tsx).                                                 *)
InviteTellsTruth ==
    wrong /\ ~unheard => (phase = "accepted") = mine

=============================================================================
