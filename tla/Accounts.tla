------------------------------ MODULE Accounts ------------------------------
(***************************************************************************)
(* Accounts, sessions, bans, roles and invitations (account.ts,            *)
(* invitation.ts, app.ts, db/user-repo.ts, db/invitation-repo.ts,          *)
(* http/admin-routes.ts, http/session-routes.ts, scripts/seed.ts).         *)
(*                                                                         *)
(* A request reads, decides and writes in statements of their own: a call  *)
(* stands at the statement it will run next, and other calls run between   *)
(* two of its statements.  Module Setup adds the process that serves the   *)
(* calls, and composes the two.                                            *)
(***************************************************************************)
EXTENDS Naturals, FiniteSets, Sequences

CONSTANTS People,    \* e-mail addresses; the unique key of the user table
          Nobody,    \* not an address
          Sessions,  \* session rows that may exist at once
          Invites,   \* invitation rows that may exist at once
          NoInvite,  \* not an invitation
          Calls,     \* requests that may be under way at once
          MaxCalls,  \* bound: how many requests are made
          MaxFaults  \* bound: how many statements fail and processes die

ASSUME AccountsAssumption ==
    /\ IsFiniteSet(People)
    /\ Nobody \notin People
    /\ NoInvite \notin Invites
    /\ {MaxCalls, MaxFaults} \subseteq Nat

VARIABLES user,      \* the account of an address, and whether it has a password
          session,   \* whose a session is
          across,    \* history: sessions whose sign-in looked before a ban and wrote after it
          half,      \* history: people banned by a call that never revoked their sessions
          invite,    \* the invitations
          call,      \* the requests under way
          asked,     \* how many requests have been made
          faults     \* how many things have gone wrong

accountVars == <<user, session, across, half, invite, call, asked, faults>>

-----------------------------------------------------------------------------
(* The tables.                                                             *)

NoAccount == [role |-> "none", password |-> FALSE, banned |-> FALSE]
NoRow == [state |-> "free", email |-> Nobody]

Accounts == {p \in People : user[p].role # "none"}
Admins == {p \in People : user[p].role = "admin"}
Open == {s \in Sessions : session[s] # Nobody}

\* An account whose holder is let in: it has a password and no ban.
MaySignIn(p) == user[p].password /\ ~user[p].banned

-----------------------------------------------------------------------------
(* Calls.                                                                  *)

Idle == [op |-> "none", at |-> "idle", who |-> Nobody, inv |-> NoInvite,
         seen |-> 0, todo |-> <<>>]

Busy == {c \in Calls : call[c] # Idle}

At(c, op, place) == call[c].op = op /\ call[c].at = place

\* A request is made; the process that takes it is looked at in Setup.
Begins(c, op, place, p, i) ==
    /\ call[c] = Idle
    /\ asked < MaxCalls
    /\ asked' = asked + 1
    /\ call' = [call EXCEPT ![c] = [Idle EXCEPT !.op = op, !.at = place, !.who = p, !.inv = i]]
    /\ UNCHANGED <<user, session, across, half, invite, faults>>

Goes(c, place) == call' = [call EXCEPT ![c].at = place] /\ UNCHANGED <<asked, faults>>
Ends(c) == call' = [call EXCEPT ![c] = Idle] /\ UNCHANGED <<asked, faults>>

\* The rejections a caller sees as an answer: the call ends, nothing changes.
Refused(c) == Ends(c) /\ UNCHANGED <<user, session, across, half, invite>>
Reads(c, place) == Goes(c, place) /\ UNCHANGED <<user, session, across, half, invite>>

-----------------------------------------------------------------------------
(* Signing in and out (better-auth): the account is looked at, then the    *)
(* session is written.                                                     *)

AskSignIn(c) == \E p \in People : Begins(c, "signIn", "check", p, NoInvite)

CheckSignIn(c) ==
    /\ At(c, "signIn", "check")
    /\ IF MaySignIn(call[c].who) THEN Reads(c, "open") ELSE Refused(c)

OpenSession(c) ==
    /\ At(c, "signIn", "open")
    /\ \E s \in Sessions \ Open :
         /\ session' = [session EXCEPT ![s] = call[c].who]
         /\ across' = IF user[call[c].who].banned THEN across \cup {s} ELSE across
    /\ Ends(c)
    /\ UNCHANGED <<user, half, invite>>

\* A sign-out, an expiry, or DELETE /api/sessions/:id by the holder.
SessionEnds(s) ==
    /\ s \in Open
    /\ session' = [session EXCEPT ![s] = Nobody]
    /\ across' = across \ {s}
    /\ UNCHANGED <<user, half, invite, call, asked, faults>>

-----------------------------------------------------------------------------
(* The administration.  The hook before every route wants a session of an  *)
(* administrator at that moment; nobody looks again later.                 *)

AdminAsks(c, op, place, p, i) ==
    /\ \E s \in Open :
         /\ user[session[s]].role = "admin"
         /\ op = "ban" => session[s] # p
    /\ Begins(c, op, place, p, i)

AskBan(c) == \E p \in Accounts : AdminAsks(c, "ban", "flag", p, NoInvite)
AskUnban(c) == \E p \in Accounts : AdminAsks(c, "unban", "flag", p, NoInvite)

\* setUserBanned
SetUserBanned(c) ==
    /\ call[c].at = "flag"
    /\ user' = [user EXCEPT ![call[c].who].banned = (call[c].op = "ban")]
    /\ IF call[c].op = "ban" THEN Goes(c, "revoke") /\ UNCHANGED half
       ELSE Ends(c) /\ half' = half \ {call[c].who}
    /\ UNCHANGED <<session, across, invite>>

\* Slip: the sessions are left to expire.
RevokeNothing(c) ==
    /\ At(c, "ban", "revoke")
    /\ half' = half \ {call[c].who}
    /\ Ends(c)
    /\ UNCHANGED <<user, session, across, invite>>

\* revokeUserSessions
RevokeUserSessions(c) ==
    /\ At(c, "ban", "revoke")
    /\ session' = [s \in Sessions |-> IF session[s] = call[c].who THEN Nobody ELSE session[s]]
    /\ across' = {s \in across : session[s] # call[c].who}
    /\ half' = half \ {call[c].who}
    /\ Ends(c)
    /\ UNCHANGED <<user, invite>>

AskRole(c) ==
    \E p \in Accounts, op \in {"promote", "demote"} : AdminAsks(c, op, "target", p, NoInvite)

\* findUserById: only the demotion of an administrator counts.
ReadTarget(c) ==
    /\ call[c].at = "target"
    /\ Reads(c, IF call[c].op = "demote" /\ call[c].who \in Admins THEN "count" ELSE "role")

\* Slip: off by one.
CountAdminsLoosely(c) ==
    /\ At(c, "demote", "count")
    /\ call' = [call EXCEPT ![c].at = "role", ![c].seen = Cardinality(Admins)]
    /\ UNCHANGED <<user, session, across, half, invite, asked, faults>>

\* countAdmins.  It counts whoever has the role, banned or not.
CountAdmins(c) ==
    /\ At(c, "demote", "count")
    /\ IF Cardinality(Admins) <= 1 THEN Refused(c)
       ELSE /\ call' = [call EXCEPT ![c].at = "role", ![c].seen = Cardinality(Admins)]
            /\ UNCHANGED <<user, session, across, half, invite, asked, faults>>

SetUserRole(c) ==
    /\ call[c].at = "role"
    /\ user' = [user EXCEPT ![call[c].who].role =
                   IF call[c].op = "demote" THEN "user" ELSE "admin"]
    /\ Ends(c)
    /\ UNCHANGED <<session, across, half, invite>>

-----------------------------------------------------------------------------
(* Invitations.                                                            *)

AskInvite(c) == \E p \in People : AdminAsks(c, "invite", "exists", p, NoInvite)

LookForAccount(c) ==
    /\ At(c, "invite", "exists")
    /\ IF call[c].who \in Accounts THEN Refused(c) ELSE Reads(c, "pending")

\* findPendingInvitationByEmail: an expired one is pending too.
LookForPending(c) ==
    /\ At(c, "invite", "pending")
    /\ IF \E i \in Invites : invite[i].email = call[c].who /\ invite[i].state \in {"open", "expired"}
       THEN Refused(c) ELSE Reads(c, "insert")

CreateInvitation(c) ==
    /\ At(c, "invite", "insert")
    /\ \E i \in Invites :
         /\ invite[i] = NoRow
         /\ invite' = [invite EXCEPT ![i] = [state |-> "open", email |-> call[c].who]]
    /\ Ends(c)
    /\ UNCHANGED <<user, session, across, half>>

InviteExpires(i) ==
    /\ invite[i].state = "open"
    /\ invite' = [invite EXCEPT ![i].state = "expired"]
    /\ UNCHANGED <<user, session, across, half, call, asked, faults>>

AskRevokeInvite(c) ==
    \E i \in Invites : invite[i] # NoRow /\ AdminAsks(c, "revoke", "delete", Nobody, i)

\* deleteInvitation: an accepted one stays.
DeleteInvitation(c) ==
    /\ At(c, "revoke", "delete")
    /\ invite' = IF invite[call[c].inv].state \in {"open", "expired"}
                 THEN [invite EXCEPT ![call[c].inv].state = "revoked"] ELSE invite
    /\ Ends(c)
    /\ UNCHANGED <<user, session, across, half>>

AskAccept(c) ==
    \E i \in Invites : invite[i] # NoRow /\ Begins(c, "accept", "find", invite[i].email, i)

\* findUsableInvitation
FindUsable(c) ==
    /\ At(c, "accept", "find")
    /\ IF invite[call[c].inv].state = "open" THEN Reads(c, "lookup") ELSE Refused(c)

\* markInvitationAccepted.  A revoked row matches nothing: the call fails,
\* and the account stays.
MarkAccepted(c) ==
    /\ At(c, "accept", "mark")
    /\ invite' = IF invite[call[c].inv].state \in {"open", "expired"}
                 THEN [invite EXCEPT ![call[c].inv].state = "accepted"] ELSE invite
    /\ Ends(c)
    /\ UNCHANGED <<user, session, across, half>>

-----------------------------------------------------------------------------
(* createUserWithPassword: for an invitation, for the wizard, for the seed. *)

\* What comes after it.
Then(op) == CASE op = "accept" -> "mark" [] op = "submit" -> "save" [] op = "seed" -> "done"

LookUpEmail(c) ==
    /\ call[c].at = "lookup"
    /\ IF call[c].who \in Accounts THEN Refused(c) ELSE Reads(c, "create")

\* Slip: whoever writes second takes the account over.
CreateUserAnyway(c) ==
    /\ call[c].at = "create"
    /\ user' = [user EXCEPT ![call[c].who] =
                 [NoAccount EXCEPT !.role = IF call[c].op = "accept" THEN "user" ELSE "admin"]]
    /\ Goes(c, "link")
    /\ UNCHANGED <<session, across, half, invite>>

\* The unique key of the address turns the second of two callers away.
CreateUser(c) ==
    /\ call[c].at = "create"
    /\ IF call[c].who \in Accounts THEN Refused(c)
       ELSE /\ user' = [user EXCEPT ![call[c].who] =
                 [NoAccount EXCEPT !.role = IF call[c].op = "accept" THEN "user" ELSE "admin"]]
            /\ Goes(c, "link")
            /\ UNCHANGED <<session, across, half, invite>>

LinkAccount(c) ==
    /\ call[c].at = "link"
    /\ user' = [user EXCEPT ![call[c].who].password = TRUE]
    /\ IF call[c].op = "seed" THEN Ends(c) ELSE Goes(c, Then(call[c].op))
    /\ UNCHANGED <<session, across, half, invite>>

-----------------------------------------------------------------------------
(* scripts/seed.ts, a process of its own.                                  *)

AskSeed(c) == \E p \in People : Begins(c, "seed", "any", p, NoInvite)

CountForSeed(c) ==
    /\ At(c, "seed", "any")
    /\ IF Admins # {} THEN Refused(c) ELSE Reads(c, "seek")

SeekForSeed(c) ==
    /\ At(c, "seed", "seek")
    /\ Reads(c, IF call[c].who \in Accounts THEN "role" ELSE "lookup")

-----------------------------------------------------------------------------

\* What is lost with a call: the other half of a ban.
Unfinished(lost) == {call[c].who : c \in {d \in lost : At(d, "ban", "revoke")}}

\* A statement fails: 500.
Fails(c) ==
    /\ call[c] # Idle
    /\ faults < MaxFaults
    /\ faults' = faults + 1
    /\ call' = [call EXCEPT ![c] = Idle]
    /\ half' = half \cup Unfinished({c})
    /\ UNCHANGED <<user, session, across, invite, asked>>

\* What a process serves, and what its calls do next.
Ask(c) ==
    \/ AskSignIn(c) \/ AskBan(c) \/ AskUnban(c) \/ AskRole(c)
    \/ AskInvite(c) \/ AskRevokeInvite(c) \/ AskAccept(c)

Statement(c) ==
    \/ CheckSignIn(c) \/ OpenSession(c)
    \/ SetUserBanned(c) \/ RevokeUserSessions(c)
    \/ ReadTarget(c) \/ CountAdmins(c) \/ SetUserRole(c)
    \/ LookForAccount(c) \/ LookForPending(c) \/ CreateInvitation(c)
    \/ DeleteInvitation(c) \/ FindUsable(c) \/ MarkAccepted(c)
    \/ LookUpEmail(c) \/ CreateUser(c) \/ LinkAccount(c)
    \/ CountForSeed(c) \/ SeekForSeed(c)

Time == (\E s \in Sessions : SessionEnds(s)) \/ (\E i \in Invites : InviteExpires(i))

-----------------------------------------------------------------------------
(* Properties.                                                             *)

\* A ban holds: a session of a banned user belongs to a sign-in that looked
\* before the ban and wrote after it, or the ban is about to end the
\* sessions, or it failed before it could (setUserBanned, then revokeUserSessions).
BansHold ==
    \A s \in Open \ across : user[session[s]].banned =>
        \/ session[s] \in half
        \/ \E c \in Calls : At(c, "ban", "revoke") /\ call[c].who = session[s]

\* The key of the address decides between two visitors of one link: nobody
\* who has made the account finds that another has used the invitation up,
\* and an accepted invitation stands for an account with a password.
InvitationsSettle ==
    /\ \A c \in Calls : At(c, "accept", "mark") => invite[call[c].inv].state # "accepted"
    /\ \A i \in Invites : invite[i].state = "accepted" => user[invite[i].email].password

\* The last administrator is demoted only by a call that acts on a stale
\* read: another demotion was written after it counted, or it saw a mere
\* user, whom it need not count, and somebody promoted him since (setRole).
LastAdminStays ==
    [][(Admins # {} /\ Admins' = {}) =>
         \E c \in Calls : At(c, "demote", "role") /\ call[c].seen # Cardinality(Admins)]_user
=============================================================================
