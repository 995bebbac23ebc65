------------------------------- MODULE Setup --------------------------------
(***************************************************************************)
(* The control plane's own start (index.ts), the setup wizard              *)
(* (http/setup-routes.ts, db/platform-setting-repo.ts), and the three      *)
(* files that decide where the public door of the machine leads            *)
(* (instance/platform-routes.ts, instance/dynamic-config.ts); the accounts *)
(* behind it are those of module Accounts.                                 *)
(*                                                                         *)
(* The environment holds no domain (production: the domain has one home,   *)
(* the table), the process serves the console itself (WEB_DIST_DIR).       *)
(***************************************************************************)
EXTENDS Accounts

CONSTANT Tls  \* PUBLIC_SCHEME is https

ASSUME SetupAssumption == Tls \in BOOLEAN

VARIABLES setting,   \* the platform_setting row: who wrote the domains last
          proc,      \* the control plane
          file,      \* the files the proxy reads
          tmp,       \* the files about to be renamed
          shared,    \* of those names, the ones two writers have opened at once
          torn,      \* the files whose text two writers may have mixed up or cut
          answered   \* history: a submission has been answered 200

platformVars == <<setting, proc, file, tmp, shared, torn, answered>>
vars == <<accountVars, platformVars>>

-----------------------------------------------------------------------------
(* projectPlatformRoutes, as the statements it runs one after another.     *)

Write(f) == <<[do |-> "write", file |-> f], [do |-> "rename", file |-> f]>>
Drop(f) == <<[do |-> "drop", file |-> f]>>

\* Slip: the exposure is closed first.
DropFirst(mode) ==
    IF mode = "bootstrap"
    THEN Drop("platform") \o Drop("redirect") \o Write("bootstrap")
    ELSE Drop("bootstrap") \o Write("platform")
         \o (IF Tls THEN Write("redirect") ELSE Drop("redirect"))

Projection(mode) ==
    IF mode = "bootstrap"
    THEN Write("bootstrap") \o Drop("platform") \o Drop("redirect")
    ELSE Write("platform")
         \o (IF Tls THEN Write("redirect") ELSE Drop("redirect"))
         \o Drop("bootstrap")

\* Every writer uses the same temporary name: the rename fails when another
\* writer has renamed it away.
CanRun(step) == step.do = "rename" => step.file \in tmp

\* A submission has opened the temporary file and not yet renamed it.  (A
\* projection at boot has the files to itself.)
Writing(f) ==
    \E c \in Calls :
        /\ call[c].op = "submit" /\ call[c].at = "project" /\ call[c].todo # <<>>
        /\ Head(call[c].todo) = [do |-> "rename", file |-> f]

\* writeFile opens, truncates and fills, all of it within "write" and the wait
\* for "rename": who opens a file another is still writing cuts its text off,
\* and either may be the one to rename what they have made of it.
Run(step) ==
    LET f == step.file IN
    /\ CanRun(step)
    /\ CASE step.do = "write" ->
              /\ tmp' = tmp \cup {f}
              /\ shared' = IF Writing(f) THEN shared \cup {f} ELSE shared \ {f}
              /\ UNCHANGED <<file, torn>>
         [] step.do = "rename" ->
              /\ file' = file \cup {f} /\ tmp' = tmp \ {f}
              /\ torn' = IF f \in shared THEN torn \cup {f} ELSE torn \ {f}
              /\ UNCHANGED shared
         [] OTHER ->
              /\ file' = file \ {f} /\ torn' = torn \ {f}
              /\ UNCHANGED <<tmp, shared>>

-----------------------------------------------------------------------------
(* The process.                                                            *)

Down == [at |-> "down", mode |-> "none", todo |-> <<>>]
Listening(mode) == proc.at = "listening" /\ proc.mode = mode

\* withPlatformDomains
Mode == IF setting = "none" THEN "bootstrap" ELSE "configured"

Start ==
    /\ proc = Down
    /\ proc' = [at |-> "boot", mode |-> Mode, todo |-> Projection(Mode)]
    /\ UNCHANGED <<accountVars, setting, file, tmp, shared, torn, answered>>

\* projectPlatform, before the port is opened.
BootProjects ==
    /\ proc.at = "boot" /\ proc.todo # <<>>
    /\ Run(Head(proc.todo))
    /\ proc' = [proc EXCEPT !.todo = Tail(@)]
    /\ UNCHANGED <<accountVars, setting, answered>>

Listen ==
    /\ proc.at = "boot" /\ proc.todo = <<>>
    /\ proc' = [proc EXCEPT !.at = "listening"]
    /\ UNCHANGED <<accountVars, setting, file, tmp, shared, torn, answered>>

\* The process dies, with its calls; an error at boot is no different.  The
\* scripts are processes of their own.
Crash ==
    /\ proc # Down
    /\ faults < MaxFaults
    /\ faults' = faults + 1
    /\ proc' = Down
    /\ LET lost == {c \in Calls : call[c].op # "seed"} IN
         /\ call' = [c \in Calls |-> IF c \in lost THEN Idle ELSE call[c]]
         /\ half' = half \cup Unfinished(lost)
    /\ UNCHANGED <<user, session, across, invite, asked, setting, file, tmp, shared, torn, answered>>

\* shutdown: app.close waits for the requests under way.
Exit ==
    /\ proc.at = "closing"
    /\ \A c \in Busy : call[c].op = "seed"
    /\ proc' = Down
    /\ UNCHANGED <<accountVars, setting, file, tmp, shared, torn, answered>>

-----------------------------------------------------------------------------
(* POST /api/setup with the token: createAdmin, then saveDomains.          *)

\* Slip: the domains first.
AskSubmitDomains(c) ==
    /\ Listening("bootstrap")
    /\ \E p \in People : Begins(c, "submit", "save", p, NoInvite)
    /\ UNCHANGED platformVars

AskSubmit(c) ==
    /\ Listening("bootstrap")
    /\ \E p \in People : Begins(c, "submit", "lookup", p, NoInvite)
    /\ UNCHANGED platformVars

SavePlatformDomains(c) ==
    /\ At(c, "submit", "save")
    /\ setting' = "wizard"
    /\ call' = [call EXCEPT ![c].at = "project", ![c].todo = Projection("configured")]
    /\ UNCHANGED <<user, session, across, half, invite, asked, faults,
                   proc, file, tmp, shared, torn, answered>>

SubmitProjects(c) ==
    /\ At(c, "submit", "project") /\ call[c].todo # <<>>
    /\ Run(Head(call[c].todo))
    /\ call' = [call EXCEPT ![c].todo = Tail(@)]
    /\ UNCHANGED <<user, session, across, half, invite, asked, faults,
                   setting, proc, answered>>

\* The rename finds nothing: 500, and no restart.
SubmitProjectionFails(c) ==
    /\ At(c, "submit", "project") /\ call[c].todo # <<>>
    /\ ~CanRun(Head(call[c].todo))
    /\ Refused(c)
    /\ UNCHANGED platformVars

Answer(c) ==
    /\ At(c, "submit", "project") /\ call[c].todo = <<>>
    /\ answered' = TRUE
    /\ Reads(c, "flush")
    /\ UNCHANGED <<setting, proc, file, tmp, shared, torn>>

\* The response is flushed: SIGTERM to ourselves.  When the client has gone
\* before, or SELF_CONTAINER is not set, nothing restarts the process.
Finish(c, restarts) ==
    /\ At(c, "submit", "flush")
    /\ proc' = IF restarts THEN [proc EXCEPT !.at = "closing"] ELSE proc
    /\ Refused(c)
    /\ UNCHANGED <<setting, file, tmp, shared, torn, answered>>

\* scripts/domain.ts
DomainScript ==
    /\ setting # "script"
    /\ setting' = "script"
    /\ UNCHANGED <<accountVars, proc, file, tmp, shared, torn, answered>>

-----------------------------------------------------------------------------
(* A fresh machine, or one that has been set up and serves.                *)

Fresh ==
    /\ user = [p \in People |-> NoAccount]
    /\ session = [s \in Sessions |-> Nobody]
    /\ invite = [i \in Invites |-> NoRow]
    /\ setting = "none"
    /\ proc = Down
    /\ file = {}
    /\ answered = FALSE

Established ==
    /\ user \in [People -> {NoAccount} \cup
                   [role : {"user", "admin"}, password : {TRUE}, banned : {FALSE}]]
    /\ Admins # {}
    /\ session \in [Sessions -> Accounts \cup {Nobody}]
    /\ invite \in [Invites -> {NoRow} \cup
                     [state : {"open"}, email : People \ Accounts]]
    /\ setting = "wizard"
    /\ proc = [at |-> "listening", mode |-> "configured", todo |-> <<>>]
    /\ file = {"platform"} \cup (IF Tls THEN {"redirect"} ELSE {})
    /\ answered = TRUE

Init ==
    /\ Fresh \/ Established
    /\ across = {}
    /\ half = {}
    /\ call = [c \in Calls |-> Idle]
    /\ asked = 0
    /\ faults = 0
    /\ tmp = {} /\ shared = {} /\ torn = {}

Submits(c) ==
    \/ AskSubmit(c) \/ SavePlatformDomains(c) \/ SubmitProjects(c)
    \/ SubmitProjectionFails(c) \/ Answer(c)
    \/ \E restarts \in BOOLEAN : Finish(c, restarts)

Serves(c) ==
    /\ \/ Listening("configured") /\ Ask(c)
       \/ AskSeed(c)
       \/ Statement(c)
       \/ Fails(c)
    /\ UNCHANGED platformVars

Process == Start \/ BootProjects \/ Listen \/ Crash \/ Exit

Next ==
    \/ \E c \in Calls : Serves(c) \/ Submits(c)
    \/ Time /\ UNCHANGED platformVars
    \/ DomainScript
    \/ Process

Spec == Init /\ [][Next]_vars

-----------------------------------------------------------------------------
(* Properties.                                                             *)

Files == {"bootstrap", "platform", "redirect"}
Steps == [do : {"write", "rename", "drop"}, file : Files]

\* Type invariant: the tables, the calls and the process have the shapes
\* user-repo.ts, invitation-repo.ts, app.ts and index.ts give them.
TypeOK ==
    /\ user \in [People -> {NoAccount} \cup
                   [role : {"user", "admin"}, password : BOOLEAN, banned : BOOLEAN]]
    /\ session \in [Sessions -> Accounts \cup {Nobody}]
    /\ across \subseteq Open
    /\ half \subseteq Accounts
    /\ \A i \in Invites :
         /\ invite[i].email \in People \cup {Nobody}
         /\ invite[i].state \in {"free", "open", "expired", "accepted", "revoked"}
         /\ invite[i].state = "free" <=> invite[i].email = Nobody
    /\ \A c \in Calls :
         /\ call[c].who \in People \cup {Nobody} /\ call[c].inv \in Invites \cup {NoInvite}
         /\ call[c].seen \in Nat /\ call[c].todo \in Seq(Steps)
         /\ call[c].at \in {"flag", "revoke", "target", "count", "role", "link"} =>
              call[c].who \in People
    /\ asked \in 0..MaxCalls /\ faults \in 0..MaxFaults
    /\ setting \in {"none", "wizard", "script"}
    /\ proc.at \in {"down", "boot", "listening", "closing"} /\ proc.todo \in Seq(Steps)
    /\ file \subseteq Files /\ tmp \subseteq Files
    /\ shared \subseteq Files /\ torn \subseteq Files
    /\ answered \in BOOLEAN

\* Domains the wizard stores come after an account that can sign in: a
\* machine is never configured by it and left without anybody to enter,
\* whatever fails and whoever submits at the same time.
DomainsComeWithAccount ==
    /\ setting = "wizard" => \E p \in People : user[p].password
    /\ \A c \in Calls : call[c].op = "submit" /\ call[c].at \in {"save", "project", "flush"} =>
         user[call[c].who].password

\* The public door: once a submission has been answered the open setup page
\* is gone for good, a configured process never serves behind it nor behind a
\* console file that two submissions have left torn, and while a process
\* listens some door leads to it (the order of projectPlatformRoutes, and its
\* run at every start).  The page's own process may have a torn console file,
\* until the restart, when two submissions overlap.
DoorIsRight ==
    /\ answered => "bootstrap" \notin file
    /\ Listening("configured") => "bootstrap" \notin file /\ "platform" \in file \ torn
    /\ proc.at \in {"listening", "closing"} => file \cap {"bootstrap", "platform"} # {}

\* What the guard of setRole is there for (app.ts:324, admin-routes.ts:276):
\* once the wizard has been through, an administrator who can sign in remains.
AnAdminCanSignIn == answered => \E p \in Admins : MaySignIn(p)
=============================================================================
