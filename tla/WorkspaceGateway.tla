-------------------------- MODULE WorkspaceGateway --------------------------
(***************************************************************************)
(* The way into one workspace: the console's authorisation endpoint        *)
(* (http/workspace-authorization.ts), the gateway that proxies requests    *)
(* and streams (http/workspace-gateway.ts, forward-auth.ts,                *)
(* workspace-login.ts, access-lease.ts, authorization-*.ts) and the rows   *)
(* they read (db/workspace-access-repo.ts), while the owner signs out or   *)
(* is banned and the workspace stops, goes and comes back.                 *)
(*                                                                         *)
(* Every await is a step of its own; database reads may stall and may      *)
(* fail.  Time is counted in ticks of five seconds.                        *)
(***************************************************************************)
EXTENDS Naturals, FiniteSets

CONSTANTS Requests,    \* requests the gateway may have at hand
          MaxAdmit,    \* slots for authorisations and code exchanges
          MaxRenew,    \* slots for the renewals of open streams
          Deadline,    \* ticks an authorisation or a renewal may take
          Interval,    \* ticks between two renewals of a stream
          Sessions,    \* console sessions, each opened at most once
          Mine,        \* those of the owner of the workspace
          Ports,       \* host ports a workspace may get
          NoPort,      \* findTargetPort answers undefined
          NoSession,   \* getSession answers null
          MaxRows,     \* bound: how often the workspace is created
          MaxGrants,   \* bound: how many codes are issued
          MaxChanges   \* bound: how often the world around the gateway changes

ASSUME GatewayAssumption ==
    /\ {MaxAdmit, MaxRenew, Deadline, Interval, MaxRows, MaxGrants} \subseteq Nat \ {0}
    /\ MaxChanges \in Nat
    /\ Mine \subseteq Sessions
    /\ NoSession \notin Sessions
    /\ NoPort \notin Ports

VARIABLES workspace, \* the live row of the slug; its id is 0 when there is none
          made,      \* how many rows the slug has had
          opened,    \* the console sessions signed in so far
          live,      \* the console sessions that have a row
          banned,    \* user.banned of the owner
          grants,    \* workspace_grant rows, by number of the code
          tokens,    \* workspace_session rows, by the code each was minted from
          minted,    \* history: how many sessions each code gave
          console,   \* the request at the console's endpoint
          req,       \* the requests and streams of the gateway
          admitted,  \* `active` of admit
          renewing,  \* `active` of renew
          closing,   \* shutdown has been called
          age,       \* history: ticks since a request was entitled to its answer
          changes    \* how often the world has changed

rows == <<workspace, made, opened, live, banned, grants, tokens, minted>>
slots == <<admitted, renewing>>
vars == <<rows, console, req, slots, closing, age, changes>>

-----------------------------------------------------------------------------
(* The queries.                                                            *)

GrantIds == 1..MaxGrants
Gone == [id |-> 0, status |-> "stopped", port |-> NoPort]
NoGrant == [state |-> "free", row |-> 0, session |-> NoSession]

\* Slip: anyone who is signed in.
LiveForAnyone(row, s) ==
    /\ row = workspace.id /\ row # 0
    /\ workspace.status = "running"
    /\ s \in live
    /\ ~banned

\* The conditions every query on a workspace identity repeats.
LiveIdentity(row, s) ==
    /\ row = workspace.id /\ row # 0
    /\ workspace.status = "running"
    /\ s \in live
    /\ s \in Mine
    /\ ~banned

\* resolveWorkspaceSession
Resolves(n, row) ==
    /\ n \in tokens
    /\ grants[n].row = row
    /\ LiveIdentity(row, grants[n].session)

FindTargetPort ==
    IF workspace.id # 0 /\ workspace.status # "stopped" THEN workspace.port ELSE NoPort

-----------------------------------------------------------------------------
(* Requests.  `at` is the await at which its work stands, `http` whether   *)
(* somebody waits for the answer or holds a stream, `timer` the ticks left *)
(* before the deadline or the next renewal.                                *)

Blank == [at |-> "none", http |-> "idle", timer |-> 0,
          cookie |-> 0, row |-> 0, user |-> FALSE, port |-> NoPort]

Free == [at |-> "none", session |-> NoSession, row |-> 0]

Authorising == {"slug", "row", "identity", "port", "callback", "exchange"}
Renewing == {"checkRow", "checkIdentity", "checkOwner", "checkPort"}

InWork(places) == {r \in Requests : req[r].at \in places}
Open == {r \in Requests : req[r].http = "stream"}

\* Whoever asks: the session behind the cookie is good for the workspace
\* now, and a stream leads to that workspace.
Entitled(q) ==
    /\ Resolves(q.cookie, workspace.id)
    /\ q.http = "stream" => q.port = workspace.port

TooOld == Interval + 2 * Deadline + 1

Init ==
    /\ workspace \in [id : {1}, status : {"running"}, port : Ports]
    /\ made = 1
    /\ opened = Mine
    /\ live = Mine
    /\ banned = FALSE
    /\ grants = [n \in GrantIds |-> NoGrant]
    /\ tokens = {}
    /\ minted = [n \in GrantIds |-> 0]
    /\ console = Free
    /\ req = [r \in Requests |-> Blank]
    /\ admitted = 0
    /\ renewing = 0
    /\ closing = FALSE
    /\ age = [r \in Requests |-> TooOld]
    /\ changes = 0

-----------------------------------------------------------------------------
(* The world around the gateway.                                           *)

Remembered == age' = [r \in Requests |-> IF Entitled(req[r])' THEN 0 ELSE age[r]]

Changes ==
    /\ changes < MaxChanges
    /\ changes' = changes + 1
    /\ UNCHANGED <<console, req, slots, closing>>
    /\ Remembered

\* A sign-in.  It may have looked at the flag before a ban set it.
SignIn(s) ==
    /\ s \notin opened
    /\ opened' = opened \cup {s}
    /\ live' = live \cup {s}
    /\ UNCHANGED <<workspace, made, banned, grants, tokens, minted>>
    /\ Changes

\* Sign-out, revocation, expiry: the grants and workspace sessions of the
\* session go with its row (on delete cascade).
SessionEnds(s) ==
    /\ s \in live
    /\ live' = live \ {s}
    /\ tokens' = {n \in tokens : grants[n].session # s}
    /\ grants' = [n \in GrantIds |->
                     IF grants[n].state = "open" /\ grants[n].session = s
                     THEN [grants[n] EXCEPT !.state = "used"] ELSE grants[n]]
    /\ UNCHANGED <<workspace, made, opened, banned, minted>>
    /\ Changes

\* The first half of a ban, and its reversal; the second half, the end of
\* the sessions, comes later or, when it fails, never.
SetUserBanned(b) ==
    /\ banned # b
    /\ banned' = b
    /\ UNCHANGED <<workspace, made, opened, live, grants, tokens, minted>>
    /\ Changes

\* The provisioner and the reconciler.  A deleted row keeps its grants and
\* sessions; a new workspace under the slug is a new row.
WorkspaceMoves(status) ==
    /\ workspace.id # 0 /\ workspace.status # status
    /\ workspace' = [workspace EXCEPT !.status = status]
    /\ UNCHANGED <<made, opened, live, banned, grants, tokens, minted>>
    /\ Changes

WorkspaceDeleted ==
    /\ workspace.id # 0
    /\ workspace' = Gone
    /\ UNCHANGED <<made, opened, live, banned, grants, tokens, minted>>
    /\ Changes

WorkspaceCreated ==
    /\ workspace.id = 0
    /\ made < MaxRows
    /\ made' = made + 1
    /\ \E p \in Ports : workspace' = [id |-> made', status |-> "running", port |-> p]
    /\ UNCHANGED <<opened, live, banned, grants, tokens, minted>>
    /\ Changes

\* A grant lives a minute, a workspace session as long as its console session
\* and at most twelve hours; the clean-up timer deletes what no query sees any more.
GrantExpires(n) ==
    /\ grants[n].state = "open"
    /\ grants' = [grants EXCEPT ![n].state = "used"]
    /\ UNCHANGED <<workspace, made, opened, live, banned, tokens, minted>>
    /\ Changes

TokenExpires(n) ==
    /\ n \in tokens
    /\ tokens' = tokens \ {n}
    /\ UNCHANGED <<workspace, made, opened, live, banned, grants, minted>>
    /\ Changes

World ==
    \/ \E s \in Sessions : SignIn(s) \/ SessionEnds(s)
    \/ \E b \in BOOLEAN : SetUserBanned(b)
    \/ \E status \in {"running", "error", "stopped"} : WorkspaceMoves(status)
    \/ WorkspaceDeleted
    \/ WorkspaceCreated
    \/ \E n \in GrantIds : GrantExpires(n) \/ TokenExpires(n)

-----------------------------------------------------------------------------
(* GET /api/workspace/authorize: one request at a time, so that its own    *)
(* 32 slots never matter here.  When its deadline passes, or a read fails, *)
(* the answer is lost, and a code that is issued all the same stays unused.*)

AskConsole ==
    /\ console.at = "none"
    /\ \E n \in GrantIds : grants[n].state = "free"
    /\ console' = [console EXCEPT !.at = "session"]
    /\ UNCHANGED <<rows, req, slots, closing, age, changes>>

ConsoleSession ==
    /\ console.at = "session"
    /\ \E s \in live \cup {NoSession} :
         console' = IF s = NoSession THEN Free
                    ELSE [console EXCEPT !.at = "row", !.session = s]
    /\ UNCHANGED <<rows, req, slots, closing, age, changes>>

ConsoleRow ==
    /\ console.at = "row"
    /\ console' = IF workspace.id = 0 THEN Free
                  ELSE [console EXCEPT !.at = "issue", !.row = workspace.id]
    /\ UNCHANGED <<rows, req, slots, closing, age, changes>>

\* issueWorkspaceGrant: one statement inserts what the conditions select.
IssueGrant ==
    /\ console.at = "issue"
    /\ console' = Free
    /\ IF LiveIdentity(console.row, console.session)
       THEN \E n \in GrantIds :
              /\ grants[n].state = "free"
              /\ \A m \in GrantIds : m < n => grants[m].state # "free"
              /\ grants' = [grants EXCEPT ![n] =
                   [state |-> "open", row |-> console.row, session |-> console.session]]
       ELSE UNCHANGED grants
    /\ UNCHANGED <<workspace, made, opened, live, banned, tokens, minted,
                   req, slots, closing, age, changes>>

ConsoleGivesUp ==
    /\ console.at # "none"
    /\ console' = Free
    /\ UNCHANGED <<rows, req, slots, closing, age, changes>>

Console == AskConsole \/ ConsoleSession \/ ConsoleRow \/ IssueGrant \/ ConsoleGivesUp

-----------------------------------------------------------------------------
(* The gateway: authorisations and code exchanges.                         *)

Goes(r, q) == req' = [req EXCEPT ![r] = q] /\ UNCHANGED <<rows, console, closing, changes>>

Moves(r, place) == Goes(r, [req[r] EXCEPT !.at = place]) /\ UNCHANGED <<slots, age>>

\* The slot goes back when the work settles, whoever has gone meanwhile.
Settles(r, q) ==
    /\ Goes(r, q)
    /\ admitted' = admitted - 1
    /\ UNCHANGED <<renewing, age>>

\* A request, or the callback of a login with the code n, takes a slot; if
\* there is none it is answered 503 at once and leaves no trace.
Arrive(r, place, n) ==
    /\ req[r] = Blank
    /\ ~closing
    /\ admitted < MaxAdmit
    /\ admitted' = admitted + 1
    /\ Goes(r, [Blank EXCEPT !.at = place, !.http = "waiting", !.timer = Deadline, !.cookie = n])
    /\ age' = [age EXCEPT ![r] = IF Entitled(req'[r]) THEN 0 ELSE TooOld]
    /\ UNCHANGED renewing

ArriveRequest(r) == \E n \in {0} \cup {m \in GrantIds : minted[m] > 0} : Arrive(r, "slug", n)
ArriveCallback(r) == \E n \in GrantIds : grants[n].state # "free" /\ Arrive(r, "callback", n)

\* decideForwardAuth: 404 without a workspace; without a token resolveUserId
\* asks nothing more, and the login begins.
ReadSlug(r) ==
    /\ req[r].at = "slug"
    /\ IF workspace.id = 0 \/ req[r].cookie = 0 THEN Settles(r, Blank) ELSE Moves(r, "row")

ReadRow(r) ==
    /\ req[r].at = "row"
    /\ IF workspace.id = 0 THEN Settles(r, Blank)
       ELSE Goes(r, [req[r] EXCEPT !.at = "identity", !.row = workspace.id])
            /\ UNCHANGED <<slots, age>>

ReadIdentity(r) ==
    /\ req[r].at = "identity"
    /\ IF Resolves(req[r].cookie, req[r].row) THEN Moves(r, "port") ELSE Settles(r, Blank)

\* The target is known.  Nobody may be waiting any more: the deadline has
\* passed, the client has left, or the server is closing.
ReadPort(r) ==
    /\ req[r].at = "port"
    /\ IF FindTargetPort = NoPort \/ req[r].http # "waiting" \/ closing
       THEN Settles(r, Blank)
       ELSE Settles(r, [req[r] EXCEPT !.at = "none", !.http = "stream", !.timer = Interval,
                                      !.row = 0, !.port = FindTargetPort])

\* login.exchange
ReadCallback(r) ==
    /\ req[r].at = "callback"
    /\ IF workspace.id = 0 THEN Settles(r, Blank)
       ELSE Goes(r, [req[r] EXCEPT !.at = "exchange", !.row = workspace.id])
            /\ UNCHANGED <<slots, age>>

Redeemed(n, row) == grants[n].state = "open" /\ grants[n].row = row

\* Slip: the grant is looked up, and deleted by the clean-up.
ExchangeKeepsGrant(r) ==
    /\ req[r].at = "exchange"
    /\ LET n == req[r].cookie IN
         /\ UNCHANGED grants
         /\ IF Redeemed(n, req[r].row) /\ LiveIdentity(grants[n].row, grants[n].session)
            THEN tokens' = tokens \cup {n} /\ minted' = [minted EXCEPT ![n] = @ + 1]
            ELSE UNCHANGED <<tokens, minted>>
    /\ req' = [req EXCEPT ![r] = Blank]
    /\ admitted' = admitted - 1
    /\ UNCHANGED <<workspace, made, opened, live, banned, console, renewing, closing, changes>>
    /\ Remembered

\* exchangeWorkspaceGrant: the grant is deleted whether or not the identity
\* still holds; it mints a session only if it does.
Exchange(r) ==
    /\ req[r].at = "exchange"
    /\ LET n == req[r].cookie IN
         IF Redeemed(n, req[r].row)
         THEN /\ grants' = [grants EXCEPT ![n].state = "used"]
              /\ IF LiveIdentity(grants[n].row, grants[n].session)
                 THEN tokens' = tokens \cup {n} /\ minted' = [minted EXCEPT ![n] = @ + 1]
                 ELSE UNCHANGED <<tokens, minted>>
         ELSE UNCHANGED <<grants, tokens, minted>>
    /\ req' = [req EXCEPT ![r] = Blank]
    /\ admitted' = admitted - 1
    /\ UNCHANGED <<workspace, made, opened, live, banned, console, renewing, closing, changes>>
    /\ Remembered

\* A query fails: 503.
ReadFails(r) == req[r].at \in Authorising /\ Settles(r, Blank)

\* Slip: the slot goes back with the answer.
DeadlineFreesSlot(r) ==
    /\ req[r].http = "waiting" /\ req[r].timer = 0
    /\ Goes(r, [req[r] EXCEPT !.http = "idle"])
    /\ admitted' = admitted - 1
    /\ UNCHANGED <<renewing, age>>

\* Slip: an exchange has no deadline.
DeadlineOfPages(r) ==
    /\ req[r].http = "waiting" /\ req[r].timer = 0
    /\ req[r].at \notin {"callback", "exchange"}
    /\ Goes(r, [req[r] EXCEPT !.http = "idle"])
    /\ UNCHANGED <<slots, age>>

\* authorizationDeadline: 503, and the work goes on.
DeadlinePasses(r) ==
    /\ req[r].http = "waiting" /\ req[r].timer = 0
    /\ Goes(r, [req[r] EXCEPT !.http = "idle"])
    /\ UNCHANGED <<slots, age>>

\* The socket closes; `stop` ends the monitoring, work that runs goes on.
HangUp(q) == IF q.at = "none" THEN Blank ELSE [q EXCEPT !.http = "idle", !.timer = 0]

ClientLeaves(r) ==
    /\ req[r].http # "idle"
    /\ Goes(r, HangUp(req[r]))
    /\ UNCHANGED <<slots, age>>

-----------------------------------------------------------------------------
(* The lease of an open stream (monitorAccess).                            *)

\* Slip: a renewal that finds no slot is put off.
RenewLater(r) ==
    /\ req[r].http = "stream" /\ req[r].at = "none" /\ req[r].timer = 0
    /\ IF renewing < MaxRenew
       THEN /\ Goes(r, [req[r] EXCEPT !.at = "checkRow", !.timer = Deadline])
            /\ renewing' = renewing + 1
            /\ UNCHANGED <<admitted, age>>
       ELSE /\ Goes(r, [req[r] EXCEPT !.timer = Interval])
            /\ UNCHANGED <<slots, age>>

\* The renewal is due; if there is no slot for it the stream ends.
Renew(r) ==
    /\ req[r].http = "stream" /\ req[r].at = "none" /\ req[r].timer = 0
    /\ IF renewing < MaxRenew
       THEN /\ Goes(r, [req[r] EXCEPT !.at = "checkRow", !.timer = Deadline])
            /\ renewing' = renewing + 1
            /\ UNCHANGED <<admitted, age>>
       ELSE Goes(r, Blank) /\ UNCHANGED <<slots, age>>

CheckRow(r) ==
    /\ req[r].at = "checkRow"
    /\ Goes(r, IF workspace.id = 0 THEN [req[r] EXCEPT !.at = "checkOwner"]
               ELSE [req[r] EXCEPT !.at = "checkIdentity", !.row = workspace.id])
    /\ UNCHANGED <<slots, age>>

CheckIdentity(r) ==
    /\ req[r].at = "checkIdentity"
    /\ Goes(r, [req[r] EXCEPT !.at = "checkOwner", !.row = 0,
                              !.user = Resolves(req[r].cookie, req[r].row)])
    /\ UNCHANGED <<slots, age>>

\* The answer: an allowed stream goes on for an interval, unless it has been
\* closed meanwhile; any other ends.
Verdict(r, allowed) ==
    /\ Goes(r, IF allowed /\ req[r].http = "stream"
               THEN [req[r] EXCEPT !.at = "none", !.timer = Interval, !.user = FALSE]
               ELSE Blank)
    /\ renewing' = renewing - 1
    /\ UNCHANGED <<admitted, age>>

CheckOwner(r) ==
    /\ req[r].at = "checkOwner"
    /\ IF req[r].user /\ workspace.id # 0 THEN Moves(r, "checkPort") ELSE Verdict(r, FALSE)

CheckPort(r) == req[r].at = "checkPort" /\ Verdict(r, FindTargetPort = req[r].port)

CheckFails(r) == req[r].at \in Renewing /\ Verdict(r, FALSE)

\* The renewal is late: the stream ends now, whatever the answer will be.
RenewalTimesOut(r) ==
    /\ req[r].http = "stream" /\ req[r].at \in Renewing /\ req[r].timer = 0
    /\ Goes(r, [req[r] EXCEPT !.http = "idle"])
    /\ UNCHANGED <<slots, age>>

\* shutdown destroys every socket.
Shutdown ==
    /\ ~closing
    /\ closing' = TRUE
    /\ req' = [r \in Requests |-> HangUp(req[r])]
    /\ UNCHANGED <<rows, console, slots, age, changes>>

\* Five seconds pass.  A timer that is due fires first.
Tick ==
    /\ \A r \in Requests : req[r].http # "idle" => req[r].timer > 0
    /\ req' = [r \in Requests |->
                 IF req[r].http = "idle" THEN req[r] ELSE [req[r] EXCEPT !.timer = @ - 1]]
    /\ age' = [r \in Requests |->
                 CASE Entitled(req[r]) -> 0
                   [] ~Entitled(req[r]) /\ age[r] < TooOld -> age[r] + 1
                   [] OTHER -> TooOld]
    /\ UNCHANGED <<rows, console, slots, closing, changes>>

Serve(r) ==
    \/ ArriveRequest(r) \/ ArriveCallback(r)
    \/ ReadSlug(r) \/ ReadRow(r) \/ ReadIdentity(r) \/ ReadPort(r)
    \/ ReadCallback(r) \/ Exchange(r) \/ ReadFails(r)
    \/ ClientLeaves(r)
    \/ CheckRow(r) \/ CheckIdentity(r) \/ CheckOwner(r) \/ CheckPort(r) \/ CheckFails(r)

Fires(r) == DeadlinePasses(r) \/ Renew(r) \/ RenewalTimesOut(r)

Next ==
    \/ World
    \/ Console
    \/ \E r \in Requests : Serve(r) \/ Fires(r)
    \/ Shutdown
    \/ Tick

\* Time passes and timers fire.  Nothing is assumed of the database, of the
\* clients or of the rest of the platform.
Fairness == WF_vars(Tick) /\ \A r \in Requests : WF_vars(Fires(r))

Spec == Init /\ [][Next]_vars /\ Fairness

-----------------------------------------------------------------------------
(* Properties.                                                             *)

Places == {"none"} \cup Authorising \cup Renewing

\* Type invariant: the rows, the requests and the counters have the shapes
\* workspace-access-repo.ts and workspace-gateway.ts give them.
TypeOK ==
    /\ workspace \in [id : 0..MaxRows, status : {"running", "error", "stopped"},
                      port : Ports \cup {NoPort}]
    /\ made \in 1..MaxRows
    /\ live \subseteq opened /\ opened \subseteq Sessions
    /\ banned \in BOOLEAN
    /\ grants \in [GrantIds -> [state : {"free", "open", "used"}, row : 0..MaxRows,
                                session : Sessions \cup {NoSession}]]
    /\ tokens \subseteq GrantIds
    /\ minted \in [GrantIds -> Nat]
    /\ console \in [at : {"none", "session", "row", "issue"},
                    session : Sessions \cup {NoSession}, row : 0..MaxRows]
    /\ req \in [Requests -> [at : Places, http : {"idle", "waiting", "stream"},
                             timer : Nat, cookie : 0..MaxGrants, row : 0..MaxRows,
                             user : BOOLEAN, port : Ports \cup {NoPort}]]
    /\ admitted \in 0..MaxAdmit /\ renewing \in 0..MaxRenew
    /\ closing \in BOOLEAN
    /\ age \in [Requests -> 0..TooOld]
    /\ changes \in 0..MaxChanges

\* A stream was open to its holder when it began, and outlives the right to
\* it by one interval and two deadlines at most (35 seconds), however the
\* reads of a renewal interleave with what they read and however long they stall.
StreamsEndInTime == \A r \in Open : age[r] <= Interval + 2 * Deadline

\* The counters of authorizationCapacity are the work under way: at no time
\* do more authorisations or renewals than the limits run against the
\* database, those nobody waits for any more included, and no slot is lost.
SlotsAreWork ==
    /\ admitted = Cardinality(InWork(Authorising))
    /\ renewing = Cardinality(InWork(Renewing))

\* A code gives one workspace session at most, however many callbacks present it.
CodeIsUsedOnce == \A n \in GrantIds : minted[n] <= 1

\* A workspace session hangs on a console session of the owner that has not
\* ended: nobody else's login, and no revoked one, ever has one.
TokensHangOnOwner == \A n \in tokens : grants[n].session \in live \cap Mine

\* Whoever waits for an authorisation or a login gets an answer, or is gone,
\* even if the database never answers.
EveryRequestAnswered ==
    \A r \in Requests : req[r].http = "waiting" ~> req[r].http # "waiting"
=============================================================================
