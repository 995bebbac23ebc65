------------------------------- MODULE Pages --------------------------------
(***************************************************************************)
(* The pages behind the guards (apps/web/src/pages and components): what   *)
(* their buttons and dialogs ask of the server, what disables them while   *)
(* an answer is awaited, what an answer refreshes and closes, and the      *)
(* polls.                                                                  *)
(*                                                                         *)
(* A mutation is named by what it does ("kind") and by its row: the        *)
(* workspace, account, invitation, session or release of the line it was   *)
(* asked on.  A page has one observer (useMutation) for each kind, which   *)
(* follows the latest request of that kind only.                           *)
(***************************************************************************)
EXTENDS Console

CardKinds == {"start", "stop", "restart", "remove"}
OpenKinds == {"openStart", "openRetry"}
SettingsKinds == {"upgrade", "rollback"}
FleetKinds == {"quota", "image", "adminRollback"}
UserKinds == {"ban", "unban", "userQuota", "role"}
InviteKinds == {"invite", "revokeInvite"}
VersionKinds == {"check", "publish", "unpublish", "setDefault"}

Kinds ==
    [workspaces |-> CardKinds, open |-> OpenKinds, settings |-> SettingsKinds,
     new |-> {"create"}, account |-> {"name"}, security |-> {"password"},
     devices |-> {"revokeSession"}, fleet |-> FleetKinds,
     users |-> UserKinds \cup InviteKinds, versions |-> VersionKinds]

Here == IF path \in DOMAIN Kinds THEN Kinds[path] ELSE {}
AdminKinds == FleetKinds \cup UserKinds \cup InviteKinds \cup VersionKinds

\* A dialog is confirmed as often as its button is pressed: it is not closed
\* by it (only the card's is), and the button is never disabled.
Confirmed == {"remove", "rollback", "revokeSession", "adminRollback", "ban", "role", "unpublish"}
Forms == {"quota", "image"}
Sheets == {"warm", "logs"}

\* One observer for the whole page, whatever the row.
Single == {"create", "name", "password", "quota", "image", "adminRollback", "invite", "check"}

\* busyFor, rowPending, busy: the kinds that disable each other.
OnRelease == {"publish", "unpublish", "setDefault"}
OnImage == {"image", "adminRollback"}

\* Slip: a restart under way disables nothing.
DisabledByFew(kind) ==
    CASE kind \in CardKinds               -> CardKinds \ {"restart"}
      [] kind \in SettingsKinds           -> SettingsKinds
      [] kind \in OnImage                 -> OnImage
      [] kind \in OnRelease \cup {"warm"} -> OnRelease
      [] OTHER                            -> {kind}

DisabledBy(kind) ==
    CASE kind \in CardKinds               -> CardKinds
      [] kind \in SettingsKinds           -> SettingsKinds
      [] kind \in OnImage                 -> OnImage
      [] kind \in OnRelease \cup {"warm"} -> OnRelease
      [] OTHER                            -> {kind}

InFlight(n) == req[n].st # "settled"

\* What the observer of n's kind follows is n.
Latest(n) ==
    /\ req[n].here
    /\ \A m \in n + 1 .. Len(req) : req[m].here => req[m].kind # req[n].kind

Busy(kind, r) ==
    \E n \in DOMAIN req :
      /\ req[n].kind \in DisabledBy(kind) /\ Latest(n) /\ InFlight(n)
      /\ kind \in Single \/ req[n].row = r

-----------------------------------------------------------------------------
(* What the page offers.                                                   *)

Has(k) == cache[k].data # NoData
Status(k, r) == IF r \in DOMAIN cache[k].data.rows THEN cache[k].data.rows[r] ELSE "gone"

\* InstanceCard: nothing but logs while the workspace is being made.
CardOffers(kind, r) ==
    /\ Has(Mine)
    /\ CASE kind = "start" -> Status(Mine, r) = "stopped"
         [] kind = "stop"  -> Status(Mine, r) = "running"
         [] OTHER          -> Status(Mine, r) \notin {"gone", "provisioning"}

\* OpenWorkspacePage: the card of a stopped workspace, or that of a broken one.
OpenOffers(kind, r) ==
    /\ r = at
    /\ CASE kind = "openStart" -> Has(Instance(r)) /\ Status(Instance(r), r) = "stopped"
         [] OTHER -> \/ cache[Instance(r)].failed
                     \/ Has(Instance(r)) /\ Status(Instance(r), r) = "error"

\* VersionCard, once it has the versions.
SettingsOffers(r) == r = at /\ Has(Instance(r)) /\ Has(Image(r))

\* CreateInstanceForm, until it gives way to the link.
FormOffers(r) == over = Nothing /\ r \notin There

\* The rows of the tables.
FleetOffers(r) == Has(Fleet) /\ Status(Fleet, r) # "gone"
UsersOffer == Has(Users)
InvitationsOffer == Has(Invitations)
DevicesOffer == Has(Sessions)
VersionsOffer == Has(Versions)

\* What is asked of no row in particular.
Plain == {"name", "password", "invite", "check"}

\* There is a button for it on the screen.
Listed(kind, r) ==
    /\ kind \in Plain <=> r = NoRow
    /\ CASE kind \in Plain                    -> TRUE
         [] kind \in CardKinds                -> CardOffers(kind, r)
         [] kind \in OpenKinds                -> OpenOffers(kind, r)
         [] kind \in SettingsKinds            -> SettingsOffers(r)
         [] kind = "create"                   -> FormOffers(r)
         [] kind = "revokeSession"            -> DevicesOffer
         [] kind \in FleetKinds \cup {"logs"} -> FleetOffers(r)
         [] kind \in UserKinds                -> UsersOffer
         [] kind = "revokeInvite"             -> InvitationsOffer
         [] OTHER                             -> VersionsOffer

Opens(kind, r) ==
    /\ Inside
    /\ over' = [what |-> kind, row |-> r]
    /\ UNCHANGED <<serverVars, inviteVars, path, at, next, gate, auth, era, wizard>>

\* A menu item or a trigger; the image dialog holds the trigger of its
\* roll-back.
OpenDialog(kind, r) ==
    /\ kind \in Here \cap (Confirmed \cup Forms)
    /\ Inside /\ Listed(kind, r)
    /\ over = IF kind = "adminRollback" THEN [what |-> "image", row |-> r] ELSE Nothing
    /\ kind \in Forms \/ ~Busy(kind, r)
    /\ left.ask > 0
    /\ Opens(kind, r)
    /\ cache' = MountIn(cache, IF kind = "image" THEN {AdminImage(r)} ELSE {}, cookie)
    /\ UNCHANGED <<req, left>>

\* The logs of a row, or the warming up of a release (PullDialog).
OpenSheet(kind, r) ==
    /\ \/ kind = "logs" /\ path = "fleet"
       \/ kind = "warm" /\ path = "versions" /\ ~Busy(kind, r)
    /\ over = Nothing /\ Listed(kind, r)
    /\ Spend(IF kind = "logs" THEN "logs" ELSE "ask")
    /\ Opens(kind, r)
    /\ UNCHANGED <<cache, req>>

\* The command menu (⌘K) lists the workspaces while it is open.
OpenMenu ==
    /\ over = Nothing /\ left.menu > 0
    /\ Opens("menu", NoRow)
    /\ Spend("menu")
    /\ cache' = MountIn(cache, {Mine}, cookie)
    /\ UNCHANGED req

CloseOver ==
    /\ over # Nothing /\ over.what # "created"
    /\ IF over.what = "adminRollback" THEN Opens("image", over.row)
       ELSE Opens("nothing", NoRow)
    /\ UNCHANGED <<cache, req, left>>

\* A button that is enabled, or the confirmation of a dialog.
Ask(kind, r) ==
    /\ Inside /\ kind \in Here
    /\ IF kind \in Confirmed THEN over = [what |-> kind, row |-> r]
       ELSE /\ over = IF kind \in Forms THEN [what |-> kind, row |-> r] ELSE Nothing
            /\ Listed(kind, r) /\ ~Busy(kind, r)
            /\ kind = "image" => Has(AdminImage(r))
    /\ Spend("ask")
    /\ req' = Append(req, [kind |-> kind, row |-> r, st |-> "sent", here |-> TRUE,
                           as |-> cookie])
    /\ over' = IF kind = "remove" THEN Nothing ELSE over
    /\ UNCHANGED <<serverVars, inviteVars, path, at, next, gate, cache, auth, era, wizard>>

-----------------------------------------------------------------------------
(* The server carries the request out, or refuses it.                      *)

\* The row "left.self" of the accounts is the user's own.
OwnRole(kind, r) == kind = "role" /\ r = left.self

Changes(kind, r) ==
    CASE kind \in SettingsKinds \cup OnImage    -> {"instances", "tags"}
      [] kind = "name"                          -> {"me"}
      [] kind \in {"password", "revokeSession"} -> {"sessions"}
      [] kind \in InviteKinds                   -> {"invitations"}
      [] kind \in UserKinds -> {"users"} \cup {x \in {"me"} : OwnRole(kind, r)}
      [] kind \in VersionKinds                  -> {"versions"}
      [] OTHER                                  -> {"instances"}

Becomes(kind, status) ==
    CASE kind = "stop"                                           -> "stopped"
      [] kind = "remove"                                         -> "gone"
      [] kind = "create"                                         -> "provisioning"
      [] kind \in {"start", "restart", "openStart", "openRetry"} -> "running"
      [] OTHER                                                   -> status

OnWorkspace(kind) ==
    kind \in CardKinds \cup OpenKinds \cup SettingsKinds \cup FleetKinds \cup {"create"}

\* The user's own role is taken away, unless it is the last administrator's.
Accepts(q) ==
    /\ q.as = cookie /\ cookie # Nobody /\ configured
    /\ q.kind \in AdminKinds => cookie \in admins
    /\ OnWorkspace(q.kind) => (q.kind = "create") = (row[q.row] = "gone")
    /\ q.kind \in CardKinds \ {"stop"} => row[q.row] # "provisioning"
    /\ OwnRole(q.kind, q.row) => admins # {cookie}

Carries(n) ==
    LET q == req[n] IN
      /\ req[n].st = "sent" /\ Accepts(q)
      /\ version' = [x \in Sections |->
                       version[x] + IF x \in Changes(q.kind, q.row) THEN 1 ELSE 0]
      /\ row' = IF OnWorkspace(q.kind) THEN [row EXCEPT ![q.row] = Becomes(q.kind, @)] ELSE row
      /\ admins' = IF OwnRole(q.kind, q.row) THEN admins \ {cookie} ELSE admins
      /\ req' = [req EXCEPT ![n].st = "served"]
      /\ UNCHANGED <<configured, cookie, made, pageVars, inviteVars, gate, cache, auth, era,
                     left, wizard>>

\* A refusal (state, limit, role, session), or a container that does not start.
Refuses(n) ==
    /\ req[n].st = "sent"
    /\ \/ ~Accepts(req[n]) /\ UNCHANGED row
       \/ /\ Accepts(req[n]) /\ Spend("refuse")
          /\ row' = IF Becomes(req[n].kind, "stopped") = "running"
                    THEN [row EXCEPT ![req[n].row] = "error"] ELSE row
    /\ ~Accepts(req[n]) => UNCHANGED left
    /\ req' = [req EXCEPT ![n].st = "refused"]
    /\ UNCHANGED <<configured, cookie, made, admins, version, pageVars, inviteVars, gate,
                   cache, auth, era, wizard>>

-----------------------------------------------------------------------------
(* The answer: onSuccess of the mutation, wherever the user is by now, and *)
(* the onSuccess of the call, on the page that made it, if nothing of the  *)
(* kind was asked since.                                                   *)

Lists == {Mine, Fleet}

\* Slip: the other list is forgotten.
RefreshesOne(kind, r) ==
    CASE kind \in CardKinds \cup {"create"}    -> Lists
      [] kind \in FleetKinds                   -> {Mine}
      [] kind \in OpenKinds \cup SettingsKinds -> Lists \cup OfRow(r)
      [] kind = "name"                         -> {Session}
      [] kind = "revokeSession"                -> {Sessions}
      [] kind \in InviteKinds                  -> {Invitations}
      [] kind \in UserKinds -> {IF OwnRole(kind, r) THEN Session ELSE Users}
      [] kind \in VersionKinds                 -> {Versions}
      [] OTHER                                 -> {}

\* invalidateInstances and its like: the pages of a row name it, the lists do
\* not.
Refreshes(kind, r) ==
    CASE kind \in CardKinds \cup {"create"} \cup FleetKinds -> Lists
      [] kind \in OpenKinds \cup SettingsKinds              -> Lists \cup OfRow(r)
      [] kind = "name"                                      -> {Session}
      [] kind = "revokeSession"                             -> {Sessions}
      [] kind \in InviteKinds                               -> {Invitations}
      [] kind \in UserKinds -> {IF OwnRole(kind, r) THEN Session ELSE Users}
      [] kind \in VersionKinds                              -> {Versions}
      [] OTHER                                              -> {}

\* What must not show less than this change from now on: the lists of its
\* section, wherever the user is, and what the page it was made on shows.
\* Left out are the sessions after a new password, which refreshes nothing;
\* the image dialog, which the answer closes; and the administrator's lists
\* for a user who has just left their number.
Owes(q, k) ==
    /\ SectionOf(k) \in Changes(q.kind, q.row)
    /\ k \in UNION {OfRow(r) : r \in Rows} =>
         q.here /\ k \in Watched /\ q.kind \notin FleetKinds
    /\ q.kind # "password"
    /\ OwnRole(q.kind, q.row) => k = Session

Refreshed(q) ==
    [k \in Keys |->
       LET e == IF Owes(q, k) THEN [cache[k] EXCEPT !.owed = version[SectionOf(k)]]
                ELSE cache[k]
       IN  IF k \in Refreshes(q.kind, q.row) THEN Invalidate(e, k \in Watched, cookie) ELSE e]

Settled(n) == [req EXCEPT ![n].st = "settled"]

\* quota and image close whatever dialog of theirs is open by now; the form
\* of a new workspace gives way to a link to it.
Over(n) ==
    LET q == req[n] IN
      IF ~Latest(n) THEN over
      ELSE IF q.kind = "quota" /\ over.what = "quota" THEN Nothing
      ELSE IF q.kind \in OnImage /\ over.what \in OnImage THEN Nothing
      ELSE IF q.kind = "create" THEN [what |-> "created", row |-> q.row]
      ELSE over

\* An administrator who took his own role away is sent home.
Answered(n) ==
    LET q == req[n]
        c == Refreshed(q)
    IN  /\ q.st = "served"
        /\ IF OwnRole(q.kind, q.row) THEN
             /\ Shows(c, "home", NoRow, cookie)
             /\ LeavePage(Settled(n))
           ELSE
             /\ cache' = c /\ over' = Over(n) /\ req' = Settled(n)
             /\ UNCHANGED <<path, at, next>>
        /\ UNCHANGED <<serverVars, inviteVars, gate, auth, era, left, wizard>>

\* onError, or no answer at all.
AskFails(n) ==
    /\ \/ req[n].st = "refused" /\ UNCHANGED left
       \/ req[n].st \in {"sent", "served"} /\ Spend("fail")
    /\ req' = Settled(n)
    /\ UNCHANGED <<serverVars, pageVars, inviteVars, gate, cache, auth, era, wizard>>

\* The release is on the host, or its pull has failed; after three broken
\* connections the dialog gives up and refreshes nothing.
PullSettles ==
    /\ over.what = "warm"
    /\ over' = [over EXCEPT !.what = "warmed"]
    /\ \/ /\ version' = [version EXCEPT !["versions"] = @ + 1]
          /\ cache' = [cache EXCEPT ![Versions] =
                 Invalidate([@ EXCEPT !.owed = version["versions"] + 1], TRUE, cookie)]
          /\ UNCHANGED left
       \/ Spend("fail") /\ UNCHANGED <<version, cache>>
    /\ UNCHANGED <<configured, cookie, made, admins, row, path, at, next, inviteVars, gate,
                   auth, req, era, wizard>>

-----------------------------------------------------------------------------
(* The polls: 3 s while something is in transition, 10 s otherwise, from   *)
(* the first answer on.                                                    *)

Polled ==
    IF ~Inside THEN {}
    ELSE CASE path \in {"home", "workspaces"} -> {Mine}
           [] path \in {"detail", "open"} -> {Instance(at)}
           [] path = "fleet"              -> {Fleet}
           [] OTHER                       -> {}

\* Slip: nothing is polled once everything has settled.
PollsInTransition(k) ==
    /\ k \in Polled /\ Has(k) /\ Idle(cache[k])
    /\ \E r \in DOMAIN cache[k].data.rows : cache[k].data.rows[r] = "provisioning"
    /\ cache' = [cache EXCEPT ![k] = Poll(@, cookie)]
    /\ UNCHANGED <<serverVars, pageVars, inviteVars, gate, auth, req, era, left, wizard>>

Polls(k) ==
    /\ k \in Polled /\ Has(k) /\ Idle(cache[k])
    /\ cache' = [cache EXCEPT ![k] = Poll(@, cookie)]
    /\ UNCHANGED <<serverVars, pageVars, inviteVars, gate, auth, req, era, left, wizard>>

\* OpenWorkspacePage: 700 ms after the workspace is seen running, its window
\* opens and the page goes back to where the user came from; the launch
\* button does the same.  A blocked window leaves the user here.
WorkspaceOpens ==
    /\ Inside /\ path = "open"
    /\ Has(Instance(at)) /\ Status(Instance(at), at) = "running"
    /\ \E p \in left.pages \cap {"home", "workspaces", "detail"} :
         Shows(cache, p, IF p = "detail" THEN at ELSE NoRow, cookie)
    /\ LeavePage(req)
    /\ UNCHANGED <<serverVars, inviteVars, gate, auth, era, left, wizard>>

\* The container of a workspace stops, crashes or comes back; its
\* provisioning ends.
Drifts(r) ==
    /\ row[r] \notin {"gone", "provisioning"}
    /\ Spend("drift")
    /\ \E s \in {"running", "stopped", "error"} \ {row[r]} : row' = [row EXCEPT ![r] = s]
    /\ UNCHANGED <<configured, cookie, made, admins, version, pageVars, inviteVars, gate,
                   cache, auth, req, era, wizard>>

Provisioned(r) ==
    /\ row[r] = "provisioning"
    /\ \E s \in {"running", "error"} : row' = [row EXCEPT ![r] = s]
    /\ UNCHANGED <<configured, cookie, made, admins, version, pageVars, inviteVars, gate,
                   cache, auth, req, era, left, wizard>>

-----------------------------------------------------------------------------
NextPages ==
    \/ NextConsole
    \/ \E kind \in Here, r \in Rows \cup {NoRow} : OpenDialog(kind, r) \/ Ask(kind, r)
    \/ \E kind \in Sheets, r \in Rows : OpenSheet(kind, r)
    \/ OpenMenu \/ CloseOver
    \/ \E n \in DOMAIN req : Carries(n) \/ Refuses(n) \/ Answered(n) \/ AskFails(n)
    \/ PullSettles \/ WorkspaceOpens
    \/ \E k \in Keys : Polls(k)
    \/ \E r \in Rows : Drifts(r) \/ Provisioned(r)

-----------------------------------------------------------------------------
(* Once a change has been answered, every list of its section and what the *)
(* page that made it shows are at least as new, in whatever order fetches  *)
(* and answers come and wherever the user goes, but for a fetch that was   *)
(* under way already and for an error on the screen (query-keys.ts: "this  *)
(* side changed and that side did not").                                   *)
OwnChangeShown ==
    \A k \in Watched :
      LET e == cache[k] IN
        Idle(e) /\ e.data # NoData /\ ~e.failed /\ ~e.late => e.data.version >= e.owed

(* Two requests for one workspace are not under way from one visit of the  *)
(* list, unless the observer of the first has gone on to another workspace *)
(* in between (InstancesPage.tsx: busyFor).                                *)
AsksOnce ==
    \A n, m \in DOMAIN req :
      /\ n < m /\ InFlight(n) /\ InFlight(m)
      /\ req[n].here /\ req[m].here
      /\ req[n].kind \in CardKinds /\ req[m].kind \in CardKinds
      /\ req[n].row = req[m].row
      => \E j \in n + 1 .. m : req[j].kind = req[n].kind /\ req[j].row # req[n].row

(* What a polled page shows of the workspaces comes to be true again after *)
(* every change that nobody told it of, settled or not (instance-status.ts *)
(* on why the polling never stops).                                        *)
Current(k) ==
    \/ ~Has(k) \/ ~Allowed(k, cookie)
    \/ cache[k].data.rows = Seen(k)

PollShowsTruth == []<>(\A k \in Polled : Current(k))

=============================================================================
