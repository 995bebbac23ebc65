---------------------------- MODULE SetupProofs -----------------------------
(***************************************************************************)
(* What module Setup promises, for any number of people, sessions,         *)
(* invitations and calls.  The invariant SInv says where a call may stand  *)
(* and whom it is about (Shaped, Known); that a call which has made its    *)
(* account is the only one to have made it, and has given it its password  *)
(* once it is past "link" (Makers, Passwords); that no call saw a single   *)
(* administrator and went on (Counted); and what every projection under    *)
(* way has still to do (Doors, Submitting): whatever steps of how many     *)
(* projections interleave, the way in is opened before the page is closed; *)
(* and what a start has written of the console's file by itself (Whole).   *)
(***************************************************************************)
EXTENDS Setup, FiniteSetTheorems, SequenceTheorems, TLAPS

\* Where a call of an operation may stand.
Stands ==
    {<<"none", "idle">>,
     <<"signIn", "check">>, <<"signIn", "open">>,
     <<"ban", "flag">>, <<"ban", "revoke">>, <<"unban", "flag">>,
     <<"promote", "target">>, <<"promote", "role">>,
     <<"demote", "target">>, <<"demote", "count">>, <<"demote", "role">>,
     <<"invite", "exists">>, <<"invite", "pending">>, <<"invite", "insert">>,
     <<"revoke", "delete">>,
     <<"accept", "find">>, <<"accept", "lookup">>, <<"accept", "create">>, <<"accept", "link">>,
     <<"accept", "mark">>,
     <<"submit", "lookup">>, <<"submit", "create">>, <<"submit", "link">>, <<"submit", "save">>,
     <<"submit", "project">>, <<"submit", "flush">>,
     <<"seed", "any">>, <<"seed", "seek">>, <<"seed", "role">>, <<"seed", "lookup">>,
     <<"seed", "create">>, <<"seed", "link">>}

\* Where it comes in.
Firsts == {"check", "flag", "target", "exists", "delete", "find", "lookup", "any"}

\* Where it goes from there.
Follows ==
    {<<"check", "open">>, <<"flag", "revoke">>, <<"target", "count">>, <<"target", "role">>,
     <<"count", "role">>, <<"exists", "pending">>, <<"pending", "insert">>, <<"find", "lookup">>,
     <<"lookup", "create">>, <<"create", "link">>, <<"link", "mark">>, <<"link", "save">>,
     <<"save", "project">>, <<"project", "project">>, <<"project", "flush">>,
     <<"any", "seek">>, <<"seek", "role">>, <<"seek", "lookup">>}

Requests == [op : {s[1] : s \in Stands}, at : {s[2] : s \in Stands},
             who : People \cup {Nobody}, inv : Invites \cup {NoInvite},
             seen : Nat, todo : Seq(Steps)]

\* Every call is a request that stands where its operation may.
Shaped ==
    /\ call \in [Calls -> Requests]
    /\ \A c \in Calls : <<call[c].op, call[c].at>> \in Stands

Rows == [state : {"free", "open", "expired", "accepted", "revoked"}, email : People \cup {Nobody}]

\* The tables.
Users == [People -> {NoAccount} \cup [role : {"user", "admin"}, password : BOOLEAN, banned : BOOLEAN]]
Tables ==
    /\ user \in Users
    /\ session \in [Sessions -> Accounts \cup {Nobody}]
    /\ across \subseteq Open
    /\ half \subseteq Accounts
    /\ invite \in [Invites -> Rows]
    /\ \A i \in Invites : invite[i].state = "free" <=> invite[i].email = Nobody

\* Whom a call is about.
Known ==
    \A c \in Calls :
        /\ call[c].op \notin {"none", "revoke"} => call[c].who \in People
        /\ call[c].at \in {"open", "flag", "revoke", "target", "count", "role",
                           "link", "mark", "save", "project", "flush"} => call[c].who \in Accounts
        /\ call[c].op \in {"accept", "revoke"} => call[c].inv \in Invites
        /\ call[c].op = "accept" => invite[call[c].inv].email = call[c].who

\* What a step does to a call.
Begun(c) ==
    /\ call[c] = Idle
    /\ call'[c].at \in Firsts /\ call'[c].op # "none" /\ call'[c].seen = 0
    /\ call'[c].op \notin {"none", "revoke"} => call'[c].who \in People
    /\ call'[c].at \in {"flag", "target"} => call'[c].who \in Accounts
    /\ call'[c].op \in {"accept", "revoke"} => call'[c].inv \in Invites
    /\ call'[c].op = "accept" => invite[call'[c].inv].email = call'[c].who
    /\ call'[c].op = "submit" => Listening("bootstrap")

Gone(c) ==
    /\ call'[c].op = call[c].op /\ call'[c].who = call[c].who /\ call'[c].inv = call[c].inv
    /\ <<call[c].at, call'[c].at>> \in Follows
    /\ <<call[c].at, call'[c].at>> \in {<<"check", "open">>, <<"seek", "role">>} => call[c].who \in Accounts
    /\ call'[c].at = "link" => call[c].who \notin Accounts

Moved(c) == call'[c] = call[c] \/ call'[c] = Idle \/ Begun(c) \/ Gone(c)

-----------------------------------------------------------------------------
\* No call is a call.
LEMMA IdleTyped ==
  /\ Idle \in Requests /\ <<Idle.op, Idle.at>> \in Stands
  /\ Idle.op = "none" /\ Idle.at = "idle" /\ Idle.who = Nobody /\ Idle.seen = 0 /\ Idle.todo = <<>>
<1>1. {"none", "idle"} \subseteq {s[1] : s \in Stands} \cup {s[2] : s \in Stands} /\ "none" \in {s[1] : s \in Stands}
      /\ "idle" \in {s[2] : s \in Stands}
  BY DEF Stands
<1>2. <<>> \in Seq(Steps)
  OBVIOUS
<1> QED BY <1>1, <1>2 DEF Idle, Requests, Stands

\* A call that goes to a place its operation has.
LEMMA CallMoves ==
  ASSUME Shaped, NEW c \in Calls, NEW place, <<call[c].op, place>> \in Stands,
         call' = [call EXCEPT ![c].at = place]
  PROVE  /\ Shaped'
         /\ call'[c].at = place /\ call'[c].op = call[c].op /\ call'[c].who = call[c].who
         /\ call'[c].inv = call[c].inv /\ call'[c].seen = call[c].seen /\ call'[c].todo = call[c].todo
         /\ \A d \in Calls \ {c} : call'[d] = call[d]
<1>1. place \in {s[2] : s \in Stands}
  OBVIOUS
<1>2. call[c] \in Requests
  BY DEF Shaped
<1>3. call' = [call EXCEPT ![c] = [call[c] EXCEPT !.at = place]]
  OBVIOUS
<1>4. [call[c] EXCEPT !.at = place] \in Requests
  BY <1>1, <1>2 DEF Requests
<1>5. call' \in [Calls -> Requests] /\ call'[c] = [call[c] EXCEPT !.at = place]
      /\ \A d \in Calls \ {c} : call'[d] = call[d]
  BY <1>3, <1>4 DEF Shaped
<1>6. /\ call'[c].at = place /\ call'[c].op = call[c].op /\ call'[c].who = call[c].who
      /\ call'[c].inv = call[c].inv /\ call'[c].seen = call[c].seen /\ call'[c].todo = call[c].todo
  BY <1>2, <1>5 DEF Requests
<1> QED BY <1>5, <1>6 DEF Shaped

\* A call that ends.
LEMMA CallEnds ==
  ASSUME Shaped, NEW c \in Calls, call' = [call EXCEPT ![c] = Idle]
  PROVE  Shaped' /\ call'[c] = Idle /\ \A d \in Calls \ {c} : call'[d] = call[d]
  BY IdleTyped DEF Shaped

\* A request begins one call, and knows whom it is about.
LEMMA AskMoves ==
  ASSUME Shaped, Tables, NEW c \in Calls, Ask(c) \/ AskSubmit(c) \/ AskSeed(c)
  PROVE  Shaped' /\ Begun(c) /\ \A d \in Calls \ {c} : call'[d] = call[d]
<1>1. ASSUME NEW op, NEW place, NEW p \in People \cup {Nobody}, NEW i \in Invites \cup {NoInvite},
             Begins(c, op, place, p, i), <<op, place>> \in Stands, place \in Firsts, op # "none",
             op # "revoke" => p \in People, place \in {"flag", "target"} => p \in Accounts,
             op \in {"accept", "revoke"} => i \in Invites,
             op = "accept" => invite[i].email = p,
             op = "submit" => Listening("bootstrap")
      PROVE  Shaped' /\ Begun(c) /\ \A d \in Calls \ {c} : call'[d] = call[d]
  <2> DEFINE n == [Idle EXCEPT !.op = op, !.at = place, !.who = p, !.inv = i]
  <2>1. call[c] = Idle /\ call' = [call EXCEPT ![c] = n]
    BY <1>1 DEF Begins
  <2>2. /\ Shaped'
        /\ call'[c].at = place /\ call'[c].op = op /\ call'[c].who = p /\ call'[c].inv = i
        /\ call'[c].seen = 0
        /\ \A d \in Calls \ {c} : call'[d] = call[d]
    <3>1. place \in {s[2] : s \in Stands} /\ op \in {s[1] : s \in Stands}
      BY <1>1
    <3>2. n \in Requests
      BY <3>1, IdleTyped DEF Requests
    <3>3. n.at = place /\ n.op = op /\ n.who = p /\ n.inv = i /\ n.seen = 0
      BY DEF Idle
    <3> HIDE DEF n
    <3>4. call' \in [Calls -> Requests] /\ call'[c] = n /\ \A d \in Calls \ {c} : call'[d] = call[d]
      BY <2>1, <3>2 DEF Shaped
    <3> QED BY <1>1, <3>3, <3>4 DEF Shaped
  <2> HIDE DEF n
  <2>3. /\ call'[c].at \in Firsts /\ call'[c].op # "none" /\ call'[c].seen = 0
        /\ call'[c].op \notin {"none", "revoke"} => call'[c].who \in People
        /\ call'[c].at \in {"flag", "target"} => call'[c].who \in Accounts
    BY <1>1, <2>2
  <2>4. /\ call'[c].op \in {"accept", "revoke"} => call'[c].inv \in Invites
        /\ call'[c].op = "accept" => invite[call'[c].inv].email = call'[c].who
        /\ call'[c].op = "submit" => Listening("bootstrap")
    BY <1>1, <2>2
  <2> QED BY <2>1, <2>2, <2>3, <2>4 DEF Begun
<1>2. Accounts \subseteq People /\ \A i \in Invites : invite[i] # NoRow => invite[i].email \in People
  <2>1. ASSUME NEW i \in Invites, invite[i].email = Nobody PROVE invite[i] = NoRow
    <3>1. invite[i] \in Rows /\ invite[i].state = "free"
      BY <2>1 DEF Tables
    <3> QED BY <2>1, <3>1 DEF Rows, NoRow
  <2>2. \A i \in Invites : invite[i].email \in People \cup {Nobody}
    BY DEF Tables, Rows
  <2> QED BY <2>1, <2>2 DEF Accounts
<1>3. CASE AskSignIn(c)
  BY <1>1, <1>3 DEF AskSignIn, Stands, Firsts
<1>4. CASE AskBan(c) \/ AskUnban(c)
  BY <1>1, <1>2, <1>4 DEF AskBan, AskUnban, AdminAsks, Stands, Firsts
<1>5. CASE AskRole(c)
  BY <1>1, <1>2, <1>5 DEF AskRole, AdminAsks, Stands, Firsts
<1>6. CASE AskInvite(c)
  BY <1>1, <1>6 DEF AskInvite, AdminAsks, Stands, Firsts
<1>7. CASE AskRevokeInvite(c)
  BY <1>1, <1>7 DEF AskRevokeInvite, AdminAsks, Stands, Firsts
<1>8. CASE AskAccept(c)
  BY <1>1, <1>2, <1>8 DEF AskAccept, Stands, Firsts
<1>9. CASE AskSubmit(c)
  BY <1>1, <1>9 DEF AskSubmit, Stands, Firsts
<1>10. CASE AskSeed(c)
  BY <1>1, <1>10 DEF AskSeed, Stands, Firsts
<1> QED BY <1>3, <1>4, <1>5, <1>6, <1>7, <1>8, <1>9, <1>10 DEF Ask

\* A statement ends its call or takes it one place further.
LEMMA StatementMoves ==
  ASSUME Shaped, Tables, Known, NEW c \in Calls, Statement(c)
  PROVE  /\ Shaped' /\ \A d \in Calls \ {c} : call'[d] = call[d]
         /\ call'[c] = Idle \/ Gone(c)
<1> DEFINE Result == /\ Shaped' /\ \A d \in Calls \ {c} : call'[d] = call[d]
                     /\ call'[c] = Idle \/ Gone(c)
<1>1. ASSUME Ends(c) PROVE Result
  BY <1>1, CallEnds DEF Ends
<1>2. ASSUME Refused(c) PROVE Result
  BY <1>1, <1>2 DEF Refused
<1>3. ASSUME NEW place, Goes(c, place), <<call[c].op, place>> \in Stands,
             <<call[c].at, place>> \in Follows,
             place \in {"open", "role"} /\ call[c].at \in {"check", "seek"} => call[c].who \in Accounts,
             place = "link" => call[c].who \notin Accounts
      PROVE  Result
  <2>1. call' = [call EXCEPT ![c].at = place]
    BY <1>3 DEF Goes
  <2> QED BY <1>3, <2>1, CallMoves DEF Gone
<1>4. ASSUME NEW place, Reads(c, place) PROVE Goes(c, place)
  BY <1>4 DEF Reads
<1>5. <<call[c].op, call[c].at>> \in Stands /\ call[c] \in Requests
  BY DEF Shaped
<1> SUFFICES Result
  OBVIOUS
<1> HIDE DEF Result
<1>6. CASE CheckSignIn(c)
  <2>1. CASE Reads(c, "open") /\ MaySignIn(call[c].who)
    <3>1. call[c].who \in Accounts
      BY <1>6, <2>1 DEF CheckSignIn, At, Known, MaySignIn, Tables, Users, NoAccount, Accounts
    <3> QED BY <1>3, <1>4, <1>6, <2>1, <3>1 DEF CheckSignIn, At, Stands, Follows
  <2> QED BY <1>2, <1>6, <2>1 DEF CheckSignIn
<1>7. CASE OpenSession(c)
  BY <1>1, <1>7 DEF OpenSession
<1>8. CASE SetUserBanned(c)
  <2>1. CASE call[c].op = "ban" /\ Goes(c, "revoke")
    BY <1>3, <1>8, <2>1 DEF SetUserBanned, Stands, Follows
  <2> QED BY <1>1, <1>8, <2>1 DEF SetUserBanned
<1>9. CASE RevokeUserSessions(c)
  BY <1>1, <1>9 DEF RevokeUserSessions
<1>10. CASE ReadTarget(c)
  <2>1. CASE Reads(c, "count") /\ call[c].op = "demote"
    BY <1>3, <1>4, <1>10, <2>1 DEF ReadTarget, Stands, Follows
  <2>2. CASE Reads(c, "role")
    BY <1>3, <1>4, <1>5, <1>10, <2>2 DEF ReadTarget, Stands, Follows
  <2> QED BY <1>10, <2>1, <2>2 DEF ReadTarget
<1>11. CASE CountAdmins(c)
  <2>1. CASE call' = [call EXCEPT ![c].at = "role", ![c].seen = Cardinality(Admins)]
    <3>1. Cardinality(Admins) \in Nat
      BY AccountsAssumption, FS_Subset, FS_CardinalityType DEF Admins
    <3>2. "role" \in {s[2] : s \in Stands}
      BY DEF Stands
    <3>3. /\ call' \in [Calls -> Requests] /\ \A d \in Calls \ {c} : call'[d] = call[d]
          /\ call'[c].op = call[c].op /\ call'[c].who = call[c].who /\ call'[c].inv = call[c].inv
          /\ call'[c].at = "role"
      BY <2>1, <3>1, <3>2 DEF Shaped, Requests
    <3> QED BY <1>11, <3>3 DEF Result, CountAdmins, At, Shaped, Stands, Follows, Gone
  <2> QED BY <1>2, <1>11, <2>1 DEF CountAdmins
<1>12. CASE SetUserRole(c)
  BY <1>1, <1>12 DEF SetUserRole
<1>13. CASE LookForAccount(c)
  BY <1>2, <1>3, <1>4, <1>13 DEF LookForAccount, At, Stands, Follows
<1>14. CASE LookForPending(c)
  BY <1>2, <1>3, <1>4, <1>14 DEF LookForPending, At, Stands, Follows
<1>15. CASE CreateInvitation(c) \/ DeleteInvitation(c) \/ MarkAccepted(c)
  BY <1>1, <1>15 DEF CreateInvitation, DeleteInvitation, MarkAccepted
<1>16. CASE FindUsable(c)
  BY <1>2, <1>3, <1>4, <1>16 DEF FindUsable, At, Stands, Follows
<1>17. CASE LookUpEmail(c)
  BY <1>2, <1>3, <1>4, <1>5, <1>17 DEF LookUpEmail, Stands, Follows
<1>18. CASE CreateUser(c)
  BY <1>2, <1>3, <1>5, <1>18 DEF CreateUser, Stands, Follows
<1>19. CASE LinkAccount(c)
  <2>1. CASE call[c].op # "seed" /\ Goes(c, Then(call[c].op))
    <3>1. \/ call[c].op = "accept" /\ Goes(c, "mark")
          \/ call[c].op = "submit" /\ Goes(c, "save")
      BY <1>5, <1>19, <2>1 DEF LinkAccount, Stands, Then
    <3> QED BY <1>3, <1>5, <1>19, <3>1 DEF LinkAccount, Stands, Follows
  <2> QED BY <1>1, <1>19, <2>1 DEF LinkAccount
<1>20. CASE CountForSeed(c)
  BY <1>2, <1>3, <1>4, <1>20 DEF CountForSeed, At, Stands, Follows
<1>21. CASE SeekForSeed(c)
  <2>1. CASE Reads(c, "role") /\ call[c].who \in Accounts
    BY <1>3, <1>4, <1>21, <2>1 DEF SeekForSeed, At, Stands, Follows
  <2>2. CASE Reads(c, "lookup")
    BY <1>3, <1>4, <1>21, <2>2 DEF SeekForSeed, At, Stands, Follows
  <2> QED BY <1>21, <2>1, <2>2 DEF SeekForSeed
<1> QED
  BY <1>6, <1>7, <1>8, <1>9, <1>10, <1>11, <1>12, <1>13, <1>14, <1>15, <1>16, <1>17, <1>18, <1>19, <1>20, <1>21
     DEF Statement

\* A projection is a list of steps.
LEMMA ProjectionTyped ==
  ASSUME NEW mode
  PROVE  Projection(mode) \in Seq(Steps)
<1>1. \A f \in Files : Write(f) \in Seq(Steps) /\ Drop(f) \in Seq(Steps)
  BY DEF Write, Drop, Steps
<1>2. {"bootstrap", "platform", "redirect"} = Files
  BY DEF Files
<1>3. \A s, t \in Seq(Steps) : s \o t \in Seq(Steps)
  OBVIOUS
<1> HIDE DEF Steps
<1>4. (IF Tls THEN Write("redirect") ELSE Drop("redirect")) \in Seq(Steps)
  BY <1>1, <1>2
<1> QED BY <1>1, <1>2, <1>3, <1>4 DEF Projection

\* So does a step of a submission.
LEMMA SubmitMoves ==
  ASSUME Shaped, Tables, NEW c \in Calls, Submits(c)
  PROVE  Shaped' /\ Moved(c) /\ \A d \in Calls \ {c} : call'[d] = call[d]
<1>1. ASSUME NEW place, Reads(c, place), <<call[c].op, place>> \in Stands,
             <<call[c].at, place>> \in Follows, place \notin {"open", "role", "link"}
      PROVE  Shaped' /\ Moved(c) /\ \A d \in Calls \ {c} : call'[d] = call[d]
  <2>1. call' = [call EXCEPT ![c].at = place]
    BY <1>1 DEF Reads, Goes
  <2> QED BY <1>1, <2>1, CallMoves DEF Moved, Gone
<1>2. ASSUME Refused(c)
      PROVE  Shaped' /\ Moved(c) /\ \A d \in Calls \ {c} : call'[d] = call[d]
  BY <1>2, CallEnds DEF Refused, Ends, Moved
<1>3. CASE AskSubmit(c)
  BY <1>3, AskMoves DEF Moved
<1>4. ASSUME NEW n \in Requests, call' = [call EXCEPT ![c] = n],
             <<call[c].op, n.at>> \in Stands, <<call[c].at, n.at>> \in Follows, n.at = "project",
             n.op = call[c].op, n.who = call[c].who, n.inv = call[c].inv
      PROVE  Shaped' /\ Moved(c) /\ \A d \in Calls \ {c} : call'[d] = call[d]
  <2>1. call' \in [Calls -> Requests] /\ call'[c] = n /\ \A d \in Calls \ {c} : call'[d] = call[d]
    BY <1>4 DEF Shaped
  <2> QED BY <1>4, <2>1 DEF Shaped, Moved, Gone
<1>5. CASE SavePlatformDomains(c)
  <2> DEFINE n == [call[c] EXCEPT !.at = "project", !.todo = Projection("configured")]
  <2>1. call' = [call EXCEPT ![c] = n]
    BY <1>5 DEF SavePlatformDomains
  <2>2. call[c] \in Requests /\ call[c].op = "submit" /\ call[c].at = "save"
    BY <1>5 DEF SavePlatformDomains, At, Shaped
  <2>3. "project" \in {s[2] : s \in Stands}
    BY DEF Stands
  <2>4. n \in Requests /\ n.at = "project" /\ n.op = call[c].op /\ n.who = call[c].who /\ n.inv = call[c].inv
    BY <2>2, <2>3, ProjectionTyped DEF Requests
  <2> HIDE DEF n
  <2>5. <<call[c].op, n.at>> \in Stands /\ <<call[c].at, n.at>> \in Follows
    BY <2>2, <2>4 DEF Stands, Follows
  <2> QED BY <1>4, <2>1, <2>4, <2>5
<1>6. CASE SubmitProjects(c)
  <2> DEFINE n == [call[c] EXCEPT !.todo = Tail(call[c].todo)]
  <2>1. call' = [call EXCEPT ![c] = n]
    BY <1>6 DEF SubmitProjects
  <2>2. call[c] \in Requests /\ call[c].op = "submit" /\ call[c].at = "project" /\ call[c].todo # <<>>
    BY <1>6 DEF SubmitProjects, At, Shaped
  <2>3. Tail(call[c].todo) \in Seq(Steps)
    BY <2>2 DEF Requests
  <2>4. n \in Requests /\ n.at = "project" /\ n.op = call[c].op /\ n.who = call[c].who /\ n.inv = call[c].inv
    BY <2>2, <2>3 DEF Requests
  <2> HIDE DEF n
  <2>5. <<call[c].op, n.at>> \in Stands /\ <<call[c].at, n.at>> \in Follows
    BY <2>2, <2>4 DEF Stands, Follows
  <2> QED BY <1>4, <2>1, <2>4, <2>5
<1>7. CASE SubmitProjectionFails(c) \/ \E restarts \in BOOLEAN : Finish(c, restarts)
  BY <1>2, <1>7 DEF SubmitProjectionFails, Finish
<1>8. CASE Answer(c)
  BY <1>1, <1>8 DEF Answer, At, Stands, Follows
<1> QED BY <1>3, <1>5, <1>6, <1>7, <1>8 DEF Submits

\* Every call is where it was, new, ended or one statement further.
LEMMA NextMoves ==
  ASSUME Shaped, Tables, Known, [Next]_vars
  PROVE  Shaped' /\ \A c \in Calls : Moved(c)
<1>1. CASE UNCHANGED call
  BY <1>1 DEF Shaped, Moved
<1>2. ASSUME NEW c \in Calls, Serves(c)
      PROVE  Shaped' /\ \A d \in Calls : Moved(d)
  <2>1. CASE Fails(c)
    BY <2>1, CallEnds DEF Fails, Moved
  <2>2. CASE (Listening("configured") /\ Ask(c)) \/ AskSeed(c)
    BY <2>2, AskMoves DEF Moved
  <2>3. CASE Statement(c)
    BY <2>3, StatementMoves DEF Moved
  <2> QED BY <1>2, <2>1, <2>2, <2>3 DEF Serves
<1>3. ASSUME NEW c \in Calls, Submits(c)
      PROVE  Shaped' /\ \A d \in Calls : Moved(d)
  BY <1>3, SubmitMoves DEF Moved
<1>4. CASE Crash
  <2>1. /\ call' = [c \in Calls |-> IF call[c].op # "seed" THEN Idle ELSE call[c]]
    BY <1>4 DEF Crash
  <2> QED BY <2>1, IdleTyped DEF Shaped, Moved
<1>5. CASE UNCHANGED vars
  BY <1>1, <1>5 DEF vars, accountVars
<1>6. CASE Time \/ DomainScript \/ Start \/ BootProjects \/ Listen \/ Exit
  BY <1>1, <1>6 DEF Time, SessionEnds, InviteExpires, DomainScript, Start, BootProjects, Listen, Exit, accountVars
<1> QED BY <1>2, <1>3, <1>4, <1>5, <1>6 DEF Next, Process

-----------------------------------------------------------------------------
(* The tables.                                                             *)

\* A call moves when it is served, submits, or goes down with the process.
LEMMA Actor ==
  ASSUME Shaped, Tables, Known, [Next]_vars, NEW c \in Calls, call'[c] # call[c]
  PROVE  Serves(c) \/ Submits(c) \/ Crash
<1>1. ASSUME NEW d \in Calls, Serves(d)
      PROVE  \A e \in Calls \ {d} : call'[e] = call[e]
  <2>1. CASE Fails(d)
    BY <2>1, CallEnds DEF Fails
  <2>2. CASE (Listening("configured") /\ Ask(d)) \/ AskSeed(d)
    BY <2>2, AskMoves
  <2>3. CASE Statement(d)
    BY <2>3, StatementMoves
  <2> QED BY <1>1, <2>1, <2>2, <2>3 DEF Serves
<1>2. ASSUME NEW d \in Calls, Submits(d)
      PROVE  \A e \in Calls \ {d} : call'[e] = call[e]
  BY <1>2, SubmitMoves
<1>3. CASE UNCHANGED vars \/ Time \/ DomainScript \/ Start \/ BootProjects \/ Listen \/ Exit
  BY <1>3 DEF vars, Time, SessionEnds, InviteExpires, DomainScript, Start, BootProjects, Listen, Exit, accountVars
<1> QED BY <1>1, <1>2, <1>3 DEF Next, Process

\* An account is made at the statement before the password.
LEMMA Creates ==
  ASSUME Shaped, Tables, Known, [Next]_vars, NEW c \in Calls,
         call[c].at = "create", call'[c].at = "link"
  PROVE  CreateUser(c)
<1>1. Serves(c) \/ Submits(c) \/ Crash
  BY Actor
<1>2. CASE Crash
  BY <1>2, IdleTyped DEF Crash, Shaped
<1>3. CASE Submits(c)
  BY <1>3, IdleTyped
     DEF Submits, AskSubmit, Begins, SavePlatformDomains, SubmitProjects, SubmitProjectionFails, Answer, Finish, At
<1>4. CASE Fails(c)
  BY <1>4, CallEnds, IdleTyped DEF Fails
<1>5. CASE Ask(c) \/ AskSeed(c)
  <2>1. Begun(c)
    BY <1>5, AskMoves
  <2> QED BY <2>1, IdleTyped DEF Begun
<1>6. CASE Statement(c)
  BY <1>6 DEF Statement, CheckSignIn, OpenSession, SetUserBanned, RevokeUserSessions, ReadTarget, CountAdmins,
       SetUserRole, LookForAccount, LookForPending, CreateInvitation, DeleteInvitation, FindUsable, MarkAccepted,
       LookUpEmail, LinkAccount, CountForSeed, SeekForSeed, At
<1> QED BY <1>1, <1>2, <1>3, <1>4, <1>5, <1>6 DEF Serves

\* The actions that write no table.
LEMMA ReadsOnly ==
  ASSUME NEW c \in Calls,
         \/ Ask(c) \/ AskSeed(c)
         \/ Submits(c)
         \/ CountAdmins(c) \/ (CreateUser(c) /\ call[c].who \in Accounts)
         \/ CheckSignIn(c) \/ ReadTarget(c) \/ LookForAccount(c) \/ LookForPending(c)
         \/ FindUsable(c) \/ LookUpEmail(c) \/ CountForSeed(c) \/ SeekForSeed(c)
  PROVE  UNCHANGED <<user, session, across, half, invite>>
<1>1. ASSUME Refused(c) \/ \E place : Reads(c, place)
      PROVE  UNCHANGED <<user, session, across, half, invite>>
  BY <1>1 DEF Refused, Reads
<1>2. CASE Ask(c) \/ AskSeed(c)
  BY <1>2 DEF Ask, AskSignIn, AskBan, AskUnban, AskRole, AskInvite, AskRevokeInvite, AskAccept, AskSeed,
              AdminAsks, Begins
<1>3. CASE Submits(c)
  BY <1>3 DEF Submits, AskSubmit, Begins, SavePlatformDomains, SubmitProjects, SubmitProjectionFails, Answer,
              Finish, Refused, Reads
<1>4. CASE CountAdmins(c) \/ (CreateUser(c) /\ call[c].who \in Accounts)
  BY <1>1, <1>4 DEF CountAdmins, CreateUser
<1>5. CASE CheckSignIn(c) \/ ReadTarget(c) \/ LookForAccount(c) \/ LookForPending(c)
  BY <1>5 DEF CheckSignIn, ReadTarget, LookForAccount, LookForPending, Refused, Reads
<1>6. CASE FindUsable(c) \/ LookUpEmail(c) \/ CountForSeed(c) \/ SeekForSeed(c)
  BY <1>6 DEF FindUsable, LookUpEmail, CountForSeed, SeekForSeed, Refused, Reads
<1> QED BY <1>2, <1>3, <1>4, <1>5, <1>6

\* An account whose entry is written.
LEMMA UserSet ==
  ASSUME user \in Users, NEW p \in People, NEW r, user' = [user EXCEPT ![p] = r],
         r \in [role : {"user", "admin"}, password : BOOLEAN, banned : BOOLEAN]
  PROVE  /\ user' \in Users /\ user'[p] = r /\ p \in Accounts' /\ Accounts \subseteq Accounts'
         /\ \A q \in People \ {p} : user'[q] = user[q]
<1>1. user'[p] = r /\ \A q \in People \ {p} : user'[q] = user[q]
  BY DEF Users
<1>2. user' \in Users
  BY DEF Users
<1> QED BY <1>1, <1>2 DEF Accounts

\* What the four statements that write accounts write.
LEMMA UserWrites ==
  ASSUME Shaped, Tables, Known, NEW c \in Calls
  PROVE  LET p == call[c].who
             Written(r) == /\ p \in People /\ user'[p] = r /\ user' \in Users
                           /\ p \in Accounts' /\ Accounts \subseteq Accounts'
                           /\ \A q \in People \ {p} : user'[q] = user[q]
         IN  /\ SetUserBanned(c) => p \in Accounts /\ Written([user[p] EXCEPT !.banned = (call[c].op = "ban")])
             /\ SetUserRole(c) => p \in Accounts /\ Written([user[p] EXCEPT !.role = IF call[c].op = "demote" THEN "user" ELSE "admin"])
             /\ CreateUser(c) /\ p \notin Accounts =>
                  Written([NoAccount EXCEPT !.role = IF call[c].op = "accept" THEN "user" ELSE "admin"])
             /\ LinkAccount(c) => p \in Accounts /\ Written([user[p] EXCEPT !.password = TRUE])
<1> DEFINE p == call[c].who
           Full == [role : {"user", "admin"}, password : BOOLEAN, banned : BOOLEAN]
<1>1. <<call[c].op, call[c].at>> \in Stands /\ user \in Users
  BY DEF Shaped, Tables
<1>2. ASSUME NEW r \in Full, user' = [user EXCEPT ![p] = r], p \in People
      PROVE  /\ p \in People /\ user'[p] = r /\ user' \in Users
             /\ p \in Accounts' /\ Accounts \subseteq Accounts'
             /\ \A q \in People \ {p} : user'[q] = user[q]
  BY <1>1, <1>2, UserSet
<1>3. ASSUME p \in Accounts PROVE p \in People /\ user[p] \in Full
  BY <1>1, <1>3 DEF Accounts, Users, NoAccount
<1>4. CASE SetUserBanned(c)
  <2>1. p \in Accounts
    BY <1>4 DEF SetUserBanned, Known
  <2>2. user' = [user EXCEPT ![p] = [user[p] EXCEPT !.banned = (call[c].op = "ban")]]
    BY <1>4 DEF SetUserBanned
  <2>3. [user[p] EXCEPT !.banned = (call[c].op = "ban")] \in Full
    BY <1>3, <2>1
  <2>4. ~SetUserRole(c) /\ ~CreateUser(c) /\ ~LinkAccount(c)
    BY <1>4 DEF SetUserBanned, SetUserRole, CreateUser, LinkAccount
  <2> QED BY <1>2, <1>3, <2>1, <2>2, <2>3, <2>4
<1>5. CASE SetUserRole(c)
  <2>1. p \in Accounts
    BY <1>5 DEF SetUserRole, Known
  <2>2. user' = [user EXCEPT ![p] = [user[p] EXCEPT !.role = IF call[c].op = "demote" THEN "user" ELSE "admin"]]
    BY <1>5 DEF SetUserRole
  <2>3. [user[p] EXCEPT !.role = IF call[c].op = "demote" THEN "user" ELSE "admin"] \in Full
    BY <1>3, <2>1
  <2>4. ~SetUserBanned(c) /\ ~CreateUser(c) /\ ~LinkAccount(c)
    BY <1>5 DEF SetUserBanned, SetUserRole, CreateUser, LinkAccount
  <2> QED BY <1>2, <1>3, <2>1, <2>2, <2>3, <2>4
<1>6. CASE CreateUser(c) /\ p \notin Accounts
  <2>1. p \in People
    BY <1>1, <1>6 DEF CreateUser, Known, Stands
  <2>2. user' = [user EXCEPT ![p] = [NoAccount EXCEPT !.role = IF call[c].op = "accept" THEN "user" ELSE "admin"]]
    BY <1>6 DEF CreateUser
  <2>3. [NoAccount EXCEPT !.role = IF call[c].op = "accept" THEN "user" ELSE "admin"] \in Full
    BY DEF NoAccount
  <2>4. ~SetUserBanned(c) /\ ~SetUserRole(c) /\ ~LinkAccount(c)
    BY <1>6 DEF SetUserBanned, SetUserRole, CreateUser, LinkAccount
  <2> QED BY <1>2, <1>6, <2>1, <2>2, <2>3, <2>4
<1>7. CASE LinkAccount(c)
  <2>1. p \in Accounts
    BY <1>7 DEF LinkAccount, Known
  <2>2. user' = [user EXCEPT ![p] = [user[p] EXCEPT !.password = TRUE]]
    BY <1>7 DEF LinkAccount
  <2>3. [user[p] EXCEPT !.password = TRUE] \in Full
    BY <1>3, <2>1
  <2>4. ~SetUserBanned(c) /\ ~SetUserRole(c) /\ ~CreateUser(c)
    BY <1>7 DEF SetUserBanned, SetUserRole, CreateUser, LinkAccount
  <2> QED BY <1>2, <1>3, <2>1, <2>2, <2>3, <2>4
<1> QED BY <1>4, <1>5, <1>6, <1>7

\* The tables keep their types, accounts stay, and a row stays its address's.
LEMMA TablesHold ==
  ASSUME Shaped, Tables, Known, [Next]_vars
  PROVE  /\ Tables' /\ Accounts \subseteq Accounts'
         /\ \A i \in Invites : invite[i].email # Nobody => invite'[i].email = invite[i].email
<1> DEFINE Result == /\ Tables' /\ Accounts \subseteq Accounts'
                     /\ \A i \in Invites : invite[i].email # Nobody => invite'[i].email = invite[i].email
<1> SUFFICES Result
  OBVIOUS
<1>1. ASSUME UNCHANGED <<user, session, across, half, invite>> PROVE Result
  BY <1>1 DEF Tables, Accounts, Open
<1>2. ASSUME UNCHANGED <<session, across, invite>>, user' \in Users, Accounts \subseteq Accounts',
             half' \subseteq Accounts'
      PROVE  Result
  BY <1>2 DEF Tables, Open
<1>3. ASSUME UNCHANGED <<user, invite>>, session' \in [Sessions -> Accounts \cup {Nobody}],
             across' \subseteq Open', half' \subseteq half
      PROVE  Result
  BY <1>3 DEF Tables, Accounts
<1>4. ASSUME UNCHANGED <<user, session, across, half>>,
             NEW i \in Invites, NEW r \in Rows, invite' = [invite EXCEPT ![i] = r],
             r.state # "free", r.email # Nobody, invite[i].email # Nobody => r.email = invite[i].email
      PROVE  Result
  BY <1>4 DEF Tables, Accounts, Open
<1>5. Nobody \notin Accounts
  BY AccountsAssumption DEF Accounts
<1> HIDE DEF Result
<1>6. ASSUME NEW c \in Calls, Statement(c)
      PROVE  Result
  <2>1. CASE \/ CheckSignIn(c) \/ ReadTarget(c) \/ CountAdmins(c) \/ LookForAccount(c) \/ LookForPending(c)
             \/ FindUsable(c) \/ LookUpEmail(c) \/ CountForSeed(c) \/ SeekForSeed(c)
    BY <1>1, <2>1, ReadsOnly
  <2>2. CASE OpenSession(c)
    <3>1. call[c].who \in Accounts
      BY <2>2 DEF OpenSession, At, Known
    <3>2. PICK s \in Sessions \ Open :
             /\ session' = [session EXCEPT ![s] = call[c].who]
             /\ across' \subseteq across \cup {s}
      BY <2>2 DEF OpenSession
    <3>3. session' \in [Sessions -> Accounts \cup {Nobody}] /\ across' \subseteq Open'
      BY <1>5, <3>1, <3>2 DEF Tables, Open
    <3> QED BY <1>3, <2>2, <3>3 DEF OpenSession
  <2>3. CASE SetUserBanned(c)
    <3>1. /\ user' \in Users /\ Accounts \subseteq Accounts'
      BY <2>3, UserWrites
    <3>2. half' \subseteq half
      BY <2>3 DEF SetUserBanned
    <3> QED BY <1>2, <2>3, <3>1, <3>2 DEF SetUserBanned, Tables
  <2>4. CASE RevokeUserSessions(c)
    <3>1. session' \in [Sessions -> Accounts \cup {Nobody}] /\ across' \subseteq Open'
      BY <2>4 DEF RevokeUserSessions, Tables, Open
    <3> QED BY <1>3, <2>4, <3>1 DEF RevokeUserSessions
  <2>5. CASE SetUserRole(c) \/ LinkAccount(c)
    <3>1. /\ user' \in Users /\ Accounts \subseteq Accounts'
      BY <2>5, UserWrites
    <3> QED BY <1>2, <2>5, <3>1 DEF SetUserRole, LinkAccount, Tables
  <2>6. CASE CreateUser(c)
    <3>1. CASE call[c].who \in Accounts
      BY <1>1, <2>6, <3>1, ReadsOnly
    <3>2. CASE call[c].who \notin Accounts
      <4>1. /\ user' \in Users /\ Accounts \subseteq Accounts'
        BY <2>6, <3>2, UserWrites
      <4> QED BY <1>2, <2>6, <3>2, <4>1 DEF CreateUser, Tables
    <3> QED BY <3>1, <3>2
  <2>7. CASE CreateInvitation(c)
    <3>1. PICK i \in Invites : /\ invite[i] = NoRow
                               /\ invite' = [invite EXCEPT ![i] = [state |-> "open", email |-> call[c].who]]
      BY <2>7 DEF CreateInvitation
    <3>2. call[c].who \in People /\ invite[i].email = Nobody /\ [state |-> "open", email |-> call[c].who] \in Rows
      BY <2>7, <3>1 DEF CreateInvitation, At, Known, NoRow, Rows
    <3>3. UNCHANGED <<user, session, across, half>>
      BY <2>7 DEF CreateInvitation
    <3> QED BY <1>4, <3>1, <3>2, <3>3, AccountsAssumption
  <2>8. ASSUME NEW i \in Invites, invite[i].state \in {"open", "expired"},
               NEW st \in {"accepted", "revoked"}, invite' = [invite EXCEPT ![i].state = st],
               UNCHANGED <<user, session, across, half>>
        PROVE  Result
    <3> DEFINE r == [invite[i] EXCEPT !.state = st]
    <3>1. r \in Rows /\ r.state = st /\ r.email = invite[i].email /\ invite' = [invite EXCEPT ![i] = r]
      BY <2>8 DEF Tables, Rows
    <3>2. invite[i].email # Nobody
      BY <2>8 DEF Tables
    <3> HIDE DEF r
    <3> QED BY <1>4, <2>8, <3>1, <3>2
  <2>9. CASE DeleteInvitation(c) \/ MarkAccepted(c)
    <3>1. call[c].inv \in Invites
      BY <2>9 DEF DeleteInvitation, MarkAccepted, At, Known
    <3>2. UNCHANGED <<user, session, across, half>>
      BY <2>9 DEF DeleteInvitation, MarkAccepted
    <3>3. CASE UNCHANGED invite
      BY <1>1, <3>2, <3>3
    <3>4. CASE invite[call[c].inv].state \in {"open", "expired"}
      BY <2>8, <2>9, <3>1, <3>2, <3>4 DEF DeleteInvitation, MarkAccepted
    <3> QED BY <2>9, <3>3, <3>4 DEF DeleteInvitation, MarkAccepted
  <2> QED BY <1>6, <2>1, <2>2, <2>3, <2>4, <2>5, <2>6, <2>7, <2>9 DEF Statement
<1>7. ASSUME NEW lost \in SUBSET Calls, half' = half \cup Unfinished(lost), UNCHANGED <<user, session, across, invite>>
      PROVE  Result
  <2>1. Unfinished(lost) \subseteq Accounts
    BY DEF Unfinished, At, Known
  <2>2. user' \in Users /\ Accounts' = Accounts
    BY <1>7 DEF Tables, Accounts
  <2>3. half' \subseteq Accounts'
    BY <1>7, <2>1, <2>2 DEF Tables
  <2> QED BY <1>2, <1>7, <2>2, <2>3
<1>8. ASSUME NEW c \in Calls, Serves(c)
      PROVE  Result
  <2>1. CASE Ask(c) \/ AskSeed(c)
    BY <1>1, <2>1, ReadsOnly
  <2>2. CASE Fails(c)
    BY <1>7, <2>2 DEF Fails
  <2> QED BY <1>6, <1>8, <2>1, <2>2 DEF Serves
<1>9. ASSUME NEW c \in Calls, Submits(c)
      PROVE  Result
  BY <1>1, <1>9, ReadsOnly
<1>10. CASE Crash
  BY <1>7, <1>10 DEF Crash
<1>11. CASE Time
  <2>1. ASSUME NEW s \in Sessions, SessionEnds(s) PROVE Result
    <3>1. session' \in [Sessions -> Accounts \cup {Nobody}] /\ across' \subseteq Open'
      BY <2>1 DEF SessionEnds, Tables, Open
    <3> QED BY <1>3, <2>1, <3>1 DEF SessionEnds
  <2>2. ASSUME NEW i \in Invites, InviteExpires(i) PROVE Result
    <3> DEFINE r == [invite[i] EXCEPT !.state = "expired"]
    <3>1. r \in Rows /\ r.state = "expired" /\ r.email = invite[i].email /\ invite' = [invite EXCEPT ![i] = r]
      BY <2>2 DEF Tables, Rows, InviteExpires
    <3>2. invite[i].email # Nobody /\ UNCHANGED <<user, session, across, half>>
      BY <2>2 DEF Tables, InviteExpires
    <3> HIDE DEF r
    <3> QED BY <1>4, <3>1, <3>2
  <2> QED BY <1>11, <2>1, <2>2 DEF Time
<1>12. CASE UNCHANGED vars \/ DomainScript \/ Start \/ BootProjects \/ Listen \/ Exit
  <2>1. UNCHANGED <<user, session, across, half, invite>>
    BY <1>12 DEF vars, DomainScript, Start, BootProjects, Listen, Exit, accountVars
  <2> QED BY <1>1, <2>1
<1> QED BY <1>8, <1>9, <1>10, <1>11, <1>12 DEF Next, Process

\* What calls are about stays so.
LEMMA KnownHolds ==
  ASSUME Shaped, Tables, Known, [Next]_vars
  PROVE  Known'
<1>1. Shaped' /\ Accounts \subseteq Accounts' /\ \A c \in Calls : Moved(c)
  BY NextMoves, TablesHold
<1>2. \A i \in Invites : invite[i].email # Nobody => invite'[i].email = invite[i].email
  BY TablesHold
<1> SUFFICES ASSUME NEW c \in Calls
    PROVE  /\ call'[c].op \notin {"none", "revoke"} => call'[c].who \in People
           /\ call'[c].at \in {"open", "flag", "revoke", "target", "count", "role",
                              "link", "mark", "save", "project", "flush"} => call'[c].who \in Accounts'
           /\ call'[c].op \in {"accept", "revoke"} => call'[c].inv \in Invites
           /\ call'[c].op = "accept" => invite'[call'[c].inv].email = call'[c].who
  BY DEF Known
<1>3. Nobody \notin People
  BY AccountsAssumption
<1>4. CASE call'[c] = call[c]
  BY <1>1, <1>2, <1>3, <1>4 DEF Known
<1>5. CASE call'[c] = Idle
  BY <1>5, IdleTyped
<1>6. CASE Begun(c)
  BY <1>1, <1>2, <1>3, <1>6 DEF Begun, Firsts
<1>7. CASE Gone(c)
  <2>1. CASE call[c].at = "create" /\ call'[c].at = "link"
    <3>1. CreateUser(c) /\ call[c].who \notin Accounts
      BY <1>7, <2>1, Creates DEF Gone
    <3>2. call[c].who \in Accounts'
      BY <3>1, UserWrites
    <3> QED BY <1>1, <1>2, <1>3, <1>7, <2>1, <3>2 DEF Gone, Known
  <2>2. CASE ~(call[c].at = "create" /\ call'[c].at = "link")
    <3>1. call'[c].at \in {"open", "flag", "revoke", "target", "count", "role",
                           "link", "mark", "save", "project", "flush"} => call[c].who \in Accounts
      BY <1>7, <2>2 DEF Gone, Follows, Known
    <3> QED BY <1>1, <1>2, <1>3, <1>7, <3>1 DEF Gone, Known
  <2> QED BY <2>1, <2>2
<1> QED BY <1>1, <1>4, <1>5, <1>6, <1>7 DEF Moved

-----------------------------------------------------------------------------
(* Bans.                                                                   *)

\* Every step keeps a ban, or leaves behind the call that will finish it.
LEMMA BansKeep ==
  ASSUME Shaped, Tables, Known, BansHold, [Next]_vars
  PROVE  BansHold'
<1> SUFFICES BansHold'
  OBVIOUS
<1>0. Open \subseteq Sessions /\ Accounts \subseteq People /\ \A s \in Open : session[s] \in Accounts
  BY DEF Open, Accounts, Tables
<1>1. ASSUME UNCHANGED <<session, across, half>>, \A p \in Accounts : user'[p].banned = user[p].banned,
             \A c \in Calls : At(c, "ban", "revoke") => call'[c] = call[c]
      PROVE  BansHold'
  BY <1>0, <1>1 DEF BansHold, Open, At
<1>2. ASSUME NEW c \in Calls, Statement(c), call[c].at # "revoke"
      PROVE  \A d \in Calls : At(d, "ban", "revoke") => call'[d] = call[d]
  BY <1>2, StatementMoves DEF At
<1>3. ASSUME NEW c \in Calls, Statement(c)
      PROVE  BansHold'
  <2>1. CASE \/ CheckSignIn(c) \/ ReadTarget(c) \/ CountAdmins(c) \/ LookForAccount(c) \/ LookForPending(c)
             \/ FindUsable(c) \/ LookUpEmail(c) \/ CountForSeed(c) \/ SeekForSeed(c)
    <3>1. call[c].at # "revoke"
      BY <2>1 DEF CheckSignIn, ReadTarget, CountAdmins, LookForAccount, LookForPending, FindUsable, LookUpEmail,
                  CountForSeed, SeekForSeed, At
    <3>2. UNCHANGED <<user, session, across, half>>
      BY <2>1, ReadsOnly
    <3> QED BY <1>1, <1>2, <1>3, <3>1, <3>2
  <2>2. CASE OpenSession(c)
    <3>1. PICK s \in Sessions \ Open :
             /\ session' = [session EXCEPT ![s] = call[c].who]
             /\ across' = IF user[call[c].who].banned THEN across \cup {s} ELSE across
      BY <2>2 DEF OpenSession
    <3>2. call[c].at # "revoke" /\ UNCHANGED <<user, half>>
      BY <2>2 DEF OpenSession, At
    <3>3. \A d \in Calls : At(d, "ban", "revoke") => call'[d] = call[d]
      BY <1>2, <1>3, <3>2
    <3>4. /\ session'[s] = call[c].who /\ \A t \in Sessions \ {s} : session'[t] = session[t]
      BY <3>1 DEF Tables
    <3> QED BY <3>1, <3>2, <3>3, <3>4 DEF BansHold, Open, At
  <2>3. CASE SetUserBanned(c)
    <3> DEFINE p == call[c].who
    <3>1. /\ p \in Accounts
          /\ user'[p] = [user[p] EXCEPT !.banned = (call[c].op = "ban")]
          /\ \A q \in People \ {p} : user'[q] = user[q]
      BY <2>3, UserWrites
    <3>2. UNCHANGED <<session, across>> /\ call[c].at = "flag" /\ <<call[c].op, call[c].at>> \in Stands
      BY <2>3 DEF SetUserBanned, Shaped
    <3>3. user'[p].banned = (call[c].op = "ban")
      BY <3>1 DEF Tables, Users, NoAccount, Accounts
    <3>4. \A d \in Calls : At(d, "ban", "revoke") => call'[d] = call[d]
      BY <1>2, <1>3, <3>2
    <3>5. CASE call[c].op = "ban"
      <4>1. call' = [call EXCEPT ![c].at = "revoke"] /\ UNCHANGED half
        BY <2>3, <3>5 DEF SetUserBanned, Goes
      <4>2. call'[c].op = "ban" /\ call'[c].at = "revoke" /\ call'[c].who = p
        <5>1. <<call[c].op, "revoke">> \in Stands
          BY <3>5 DEF Stands
        <5> QED BY <3>5, <4>1, <5>1, CallMoves
      <4> HIDE DEF p
      <4> QED BY <1>0, <3>1, <3>2, <3>4, <4>1, <4>2 DEF BansHold, Open, At
    <3>6. CASE call[c].op # "ban"
      <4>1. half' = half \ {p}
        BY <2>3, <3>6 DEF SetUserBanned
      <4>2. ~user'[p].banned
        BY <3>3, <3>6
      <4>3. \A q \in Accounts : user'[q].banned => q # p /\ user[q].banned
        BY <1>0, <3>1, <4>2
      <4> HIDE DEF p
      <4> QED BY <1>0, <3>2, <3>4, <4>1, <4>3 DEF BansHold, Open, At
    <3> QED BY <3>5, <3>6
  <2>4. CASE RevokeUserSessions(c)
    <3>1. /\ \A s \in Sessions : session'[s] = IF session[s] = call[c].who THEN Nobody ELSE session[s]
          /\ across' = {s \in across : session[s] # call[c].who}
          /\ half' = half \ {call[c].who} /\ UNCHANGED user
      BY <2>4 DEF RevokeUserSessions, Tables
    <3>2. \A d \in Calls \ {c} : call'[d] = call[d]
      BY <1>3, StatementMoves
    <3> QED BY <1>0, <3>1, <3>2 DEF BansHold, Open, At
  <2>5. CASE SetUserRole(c) \/ LinkAccount(c)
    <3> DEFINE p == call[c].who
    <3>1. /\ p \in Accounts
          /\ \/ user'[p] = [user[p] EXCEPT !.role = IF call[c].op = "demote" THEN "user" ELSE "admin"]
             \/ user'[p] = [user[p] EXCEPT !.password = TRUE]
          /\ \A q \in People \ {p} : user'[q] = user[q]
      BY <2>5, UserWrites
    <3>2. user'[p].banned = user[p].banned
      BY <3>1 DEF Tables, Users, NoAccount, Accounts
    <3>3. call[c].at # "revoke" /\ UNCHANGED <<session, across, half>>
      BY <2>5 DEF SetUserRole, LinkAccount
    <3> HIDE DEF p
    <3>4. \A q \in Accounts : user'[q].banned = user[q].banned
      BY <1>0, <3>1, <3>2
    <3> QED BY <1>1, <1>2, <1>3, <3>3, <3>4
  <2>6. CASE CreateUser(c)
    <3>1. call[c].at # "revoke"
      BY <2>6 DEF CreateUser
    <3>2. CASE call[c].who \in Accounts
      <4>1. UNCHANGED <<user, session, across, half>>
        BY <2>6, <3>2, ReadsOnly
      <4> QED BY <1>1, <1>2, <1>3, <3>1, <4>1
    <3>3. CASE call[c].who \notin Accounts
      <4>1. \A q \in People \ {call[c].who} : user'[q] = user[q]
        BY <2>6, <3>3, UserWrites
      <4>2. UNCHANGED <<session, across, half>>
        BY <2>6, <3>3 DEF CreateUser
      <4>3. \A q \in Accounts : user'[q].banned = user[q].banned
        BY <1>0, <3>3, <4>1
      <4> QED BY <1>1, <1>2, <1>3, <3>1, <4>2, <4>3
    <3> QED BY <3>2, <3>3
  <2>7. CASE CreateInvitation(c) \/ DeleteInvitation(c) \/ MarkAccepted(c)
    <3>1. call[c].at # "revoke" /\ UNCHANGED <<user, session, across, half>>
      BY <2>7 DEF CreateInvitation, DeleteInvitation, MarkAccepted, At
    <3> QED BY <1>1, <1>2, <1>3, <3>1
  <2> QED BY <1>3, <2>1, <2>2, <2>3, <2>4, <2>5, <2>6, <2>7 DEF Statement
<1>4. ASSUME NEW lost \in SUBSET Calls, half' = half \cup Unfinished(lost), UNCHANGED <<user, session, across>>,
             \A d \in Calls \ lost : call'[d] = call[d]
      PROVE  BansHold'
  BY <1>0, <1>4 DEF BansHold, Open, At, Unfinished
<1>5. ASSUME NEW c \in Calls, Serves(c)
      PROVE  BansHold'
  <2>1. CASE Ask(c) \/ AskSeed(c)
    <3>1. UNCHANGED <<user, session, across, half>>
      BY <2>1, ReadsOnly
    <3>2. \A d \in Calls : At(d, "ban", "revoke") => call'[d] = call[d]
      BY <2>1, AskMoves, IdleTyped DEF Begun, At
    <3> QED BY <1>1, <3>1, <3>2
  <2>2. CASE Fails(c)
    <3>1. half' = half \cup Unfinished({c}) /\ UNCHANGED <<user, session, across>>
      BY <2>2 DEF Fails
    <3>2. \A d \in Calls \ {c} : call'[d] = call[d]
      BY <2>2, CallEnds DEF Fails
    <3> QED BY <1>4, <3>1, <3>2
  <2> QED BY <1>3, <1>5, <2>1, <2>2 DEF Serves
<1>6. ASSUME NEW c \in Calls, Submits(c)
      PROVE  BansHold'
  <2>1. UNCHANGED <<user, session, across, half>>
    BY <1>6, ReadsOnly
  <2>2. call[c].at # "revoke"
    BY <1>6, IdleTyped DEF Submits, AskSubmit, Begins, SavePlatformDomains, SubmitProjects, SubmitProjectionFails,
                           Answer, Finish, At
  <2>3. \A d \in Calls : At(d, "ban", "revoke") => call'[d] = call[d]
    BY <1>6, <2>2, SubmitMoves DEF At
  <2> QED BY <1>1, <2>1, <2>3
<1>7. CASE Crash
  <2> DEFINE gone == {c \in Calls : call[c].op # "seed"}
  <2>1. half' = half \cup Unfinished(gone) /\ UNCHANGED <<user, session, across>>
    BY <1>7 DEF Crash
  <2>2. \A d \in Calls \ gone : call'[d] = call[d]
    BY <1>7 DEF Crash
  <2>3. gone \in SUBSET Calls
    OBVIOUS
  <2> HIDE DEF gone
  <2> QED BY <1>4, <2>1, <2>2, <2>3
<1>8. CASE Time
  <2>1. ASSUME NEW s \in Sessions, SessionEnds(s) PROVE BansHold'
    <3>1. /\ session'[s] = Nobody /\ \A t \in Sessions \ {s} : session'[t] = session[t]
          /\ across' = across \ {s} /\ UNCHANGED <<user, half, call>>
      BY <2>1 DEF SessionEnds, Tables
    <3> QED BY <3>1 DEF BansHold, Open, At
  <2>2. ASSUME NEW i \in Invites, InviteExpires(i) PROVE BansHold'
    <3>1. UNCHANGED <<user, session, across, half, call>>
      BY <2>2 DEF InviteExpires
    <3> QED BY <1>1, <3>1
  <2> QED BY <1>8, <2>1, <2>2 DEF Time
<1>9. CASE UNCHANGED vars \/ DomainScript \/ Start \/ BootProjects \/ Listen \/ Exit
  <2>1. UNCHANGED <<user, session, across, half, call>>
    BY <1>9 DEF vars, DomainScript, Start, BootProjects, Listen, Exit, accountVars
  <2> QED BY <1>1, <2>1
<1> QED BY <1>5, <1>6, <1>7, <1>8, <1>9 DEF Next, Process

-----------------------------------------------------------------------------
(* Invitations.                                                            *)

\* A call that has made its account is the only one to have made it, and the
\* account has its password as soon as the call has passed "link".
Made(c) == call[c].at \in {"link", "mark", "save", "project", "flush"}
Makers == \A c, d \in Calls : Made(c) /\ Made(d) /\ call[c].who = call[d].who => c = d
Passwords == \A c \in Calls : Made(c) => (user[call[c].who].password <=> call[c].at # "link")

Settled == Makers /\ Passwords /\ InvitationsSettle

\* A password is set by the statement that links the account, and stays.
LEMMA PasswordMoves ==
  ASSUME Shaped, Tables, Known, [Next]_vars, NEW p \in People
  PROVE  /\ user[p].password => user'[p].password
         /\ user'[p].password /\ ~user[p].password => \E c \in Calls : LinkAccount(c) /\ call[c].who = p
<1> DEFINE Result == /\ user[p].password => user'[p].password
                     /\ user'[p].password /\ ~user[p].password =>
                            \E c \in Calls : LinkAccount(c) /\ call[c].who = p
<1> SUFFICES Result
  OBVIOUS
<1>1. ASSUME user'[p].password <=> user[p].password PROVE Result
  BY <1>1
<1>2. /\ p \in Accounts => user[p] \in [role : {"user", "admin"}, password : BOOLEAN, banned : BOOLEAN]
      /\ p \notin Accounts => ~user[p].password
  <2>1. user[p] = NoAccount \/ user[p] \in [role : {"user", "admin"}, password : BOOLEAN, banned : BOOLEAN]
    BY DEF Tables, Users
  <2>2. CASE user[p] = NoAccount
    BY <2>2 DEF NoAccount, Accounts
  <2>3. CASE user[p] \in [role : {"user", "admin"}, password : BOOLEAN, banned : BOOLEAN]
    BY <2>3 DEF Accounts
  <2> QED BY <2>1, <2>2, <2>3
<1>3. ASSUME NEW c \in Calls, SetUserBanned(c)
      PROVE  Result
  <2>1. /\ call[c].who \in Accounts
        /\ user'[call[c].who] = [user[call[c].who] EXCEPT !.banned = (call[c].op = "ban")]
        /\ \A q \in People \ {call[c].who} : user'[q] = user[q]
    BY <1>3, UserWrites
  <2>2. user'[p].password <=> user[p].password
    <3>1. CASE p = call[c].who BY <1>2, <2>1, <3>1
    <3>2. CASE p # call[c].who BY <2>1, <3>2
    <3> QED BY <3>1, <3>2
  <2> QED BY <1>1, <2>2
<1>4. ASSUME NEW c \in Calls, SetUserRole(c)
      PROVE  Result
  <2>1. /\ call[c].who \in Accounts
        /\ user'[call[c].who] = [user[call[c].who] EXCEPT !.role = IF call[c].op = "demote" THEN "user" ELSE "admin"]
        /\ \A q \in People \ {call[c].who} : user'[q] = user[q]
    BY <1>4, UserWrites
  <2>2. user'[p].password <=> user[p].password
    <3>1. CASE p = call[c].who BY <1>2, <2>1, <3>1
    <3>2. CASE p # call[c].who BY <2>1, <3>2
    <3> QED BY <3>1, <3>2
  <2> QED BY <1>1, <2>2
<1>5. ASSUME NEW c \in Calls, LinkAccount(c)
      PROVE  Result
  <2>1. \A q \in People \ {call[c].who} : user'[q] = user[q]
    BY <1>5, UserWrites
  <2>2. user'[call[c].who] = [user[call[c].who] EXCEPT !.password = TRUE] /\ call[c].who \in Accounts
    BY <1>5, UserWrites
  <2>3. CASE p = call[c].who
    BY <1>2, <1>5, <2>2, <2>3
  <2>4. CASE p # call[c].who
    BY <1>1, <2>1, <2>4
  <2> QED BY <2>3, <2>4
<1>6. ASSUME NEW c \in Calls, CreateUser(c)
      PROVE  Result
  <2>1. CASE call[c].who \in Accounts
    BY <1>1, <1>6, <2>1, ReadsOnly
  <2>2. CASE call[c].who \notin Accounts
    <3>1. /\ user'[call[c].who] = [NoAccount EXCEPT !.role = IF call[c].op = "accept" THEN "user" ELSE "admin"]
          /\ \A q \in People \ {call[c].who} : user'[q] = user[q]
      BY <1>6, <2>2, UserWrites
    <3>2. user'[p].password <=> user[p].password
      <4>1. CASE p = call[c].who BY <1>2, <2>2, <3>1, <4>1 DEF NoAccount
      <4>2. CASE p # call[c].who BY <3>1, <4>2
      <4> QED BY <4>1, <4>2
    <3> QED BY <1>1, <3>2
  <2> QED BY <2>1, <2>2
<1> HIDE DEF Result
<1>7. CASE UNCHANGED user
  BY <1>1, <1>7
<1>8. ASSUME NEW c \in Calls, Statement(c) PROVE Result
  <2>1. CASE \/ CheckSignIn(c) \/ ReadTarget(c) \/ CountAdmins(c) \/ LookForAccount(c) \/ LookForPending(c)
             \/ FindUsable(c) \/ LookUpEmail(c) \/ CountForSeed(c) \/ SeekForSeed(c)
    BY <1>7, <2>1, ReadsOnly
  <2>2. CASE OpenSession(c) \/ RevokeUserSessions(c) \/ CreateInvitation(c) \/ DeleteInvitation(c) \/ MarkAccepted(c)
    BY <1>7, <2>2 DEF OpenSession, RevokeUserSessions, CreateInvitation, DeleteInvitation, MarkAccepted
  <2> QED BY <1>3, <1>4, <1>5, <1>6, <1>8, <2>1, <2>2 DEF Statement
<1>9. ASSUME NEW c \in Calls, Serves(c) PROVE Result
  <2>1. CASE Ask(c) \/ AskSeed(c)
    BY <1>7, <2>1, ReadsOnly
  <2>2. CASE Fails(c)
    BY <1>7, <2>2 DEF Fails
  <2> QED BY <1>8, <1>9, <2>1, <2>2 DEF Serves
<1>10. ASSUME NEW c \in Calls, Submits(c) PROVE Result
  BY <1>7, <1>10, ReadsOnly
<1>11. CASE UNCHANGED vars \/ DomainScript \/ Start \/ BootProjects \/ Listen \/ Exit \/ Crash \/ Time
  BY <1>7, <1>11 DEF vars, DomainScript, Start, BootProjects, Listen, Exit, Crash, Time, SessionEnds, InviteExpires, accountVars
<1> QED BY <1>9, <1>10, <1>11 DEF Next, Process

\* A call gets past "link" by linking.
LEMMA Links ==
  ASSUME Shaped, Tables, Known, [Next]_vars, NEW c \in Calls,
         call[c].at = "link", call'[c].at \in {"mark", "save"}
  PROVE  LinkAccount(c)
<1>1. Serves(c) \/ Submits(c) \/ Crash
  BY Actor
<1>2. CASE Crash
  BY <1>2, IdleTyped DEF Crash, Shaped
<1>3. CASE Submits(c)
  BY <1>3, IdleTyped
     DEF Submits, AskSubmit, Begins, SavePlatformDomains, SubmitProjects, SubmitProjectionFails, Answer, Finish, At
<1>4. CASE Fails(c)
  BY <1>4, CallEnds, IdleTyped DEF Fails
<1>5. CASE Ask(c) \/ AskSeed(c)
  <2>1. Begun(c)
    BY <1>5, AskMoves
  <2> QED BY <2>1, IdleTyped DEF Begun
<1>6. CASE Statement(c)
  BY <1>6 DEF Statement, CheckSignIn, OpenSession, SetUserBanned, RevokeUserSessions, ReadTarget, CountAdmins,
       SetUserRole, LookForAccount, LookForPending, CreateInvitation, DeleteInvitation, FindUsable, MarkAccepted,
       LookUpEmail, CreateUser, CountForSeed, SeekForSeed, At
<1> QED BY <1>1, <1>2, <1>3, <1>4, <1>5, <1>6 DEF Serves

\* An invitation is accepted by the call that marks it.
LEMMA Marks ==
  ASSUME Shaped, Tables, Known, [Next]_vars, NEW i \in Invites,
         invite'[i].state = "accepted", invite[i].state # "accepted"
  PROVE  \E c \in Calls : At(c, "accept", "mark") /\ call[c].inv = i /\ call'[c] = Idle
<1> DEFINE Result == \E c \in Calls : At(c, "accept", "mark") /\ call[c].inv = i /\ call'[c] = Idle
<1> SUFFICES Result
  OBVIOUS
<1> HIDE DEF Result
<1>1. ~UNCHANGED invite
  OBVIOUS
<1>2. ASSUME NEW c \in Calls, Statement(c) PROVE Result
  <2>1. CASE \/ CheckSignIn(c) \/ ReadTarget(c) \/ CountAdmins(c) \/ LookForAccount(c) \/ LookForPending(c)
             \/ FindUsable(c) \/ LookUpEmail(c) \/ CountForSeed(c) \/ SeekForSeed(c)
    BY <1>1, <2>1, ReadsOnly
  <2>2. CASE OpenSession(c) \/ RevokeUserSessions(c) \/ SetUserBanned(c) \/ SetUserRole(c) \/ LinkAccount(c)
    BY <1>1, <2>2 DEF OpenSession, RevokeUserSessions, SetUserBanned, SetUserRole, LinkAccount
  <2>3. CASE CreateUser(c)
    BY <1>1, <2>3, ReadsOnly DEF CreateUser
  <2>4. CASE CreateInvitation(c)
    <3>1. PICK j \in Invites : invite' = [invite EXCEPT ![j] = [state |-> "open", email |-> call[c].who]]
      BY <2>4 DEF CreateInvitation
    <3>2. invite'[i].state = "open" \/ invite'[i] = invite[i]
      BY <3>1 DEF Tables
    <3> QED BY <3>2
  <2>6. CASE DeleteInvitation(c)
    <3>1. \/ UNCHANGED invite
          \/ invite' = [invite EXCEPT ![call[c].inv] = [invite[call[c].inv] EXCEPT !.state = "revoked"]]
      BY <2>6 DEF DeleteInvitation
    <3>2. CASE invite' = [invite EXCEPT ![call[c].inv] = [invite[call[c].inv] EXCEPT !.state = "revoked"]]
      <4>1. invite[i] \in Rows
        BY DEF Tables
      <4> QED BY <3>2, <4>1 DEF Tables, Rows
    <3> QED BY <1>1, <3>1, <3>2
  <2>5. CASE MarkAccepted(c)
    <3>1. At(c, "accept", "mark") /\ call'[c] = Idle
      BY <2>5, CallEnds DEF MarkAccepted, Ends
    <3>2. call[c].inv = i
      BY <2>5 DEF MarkAccepted, Tables
    <3> QED BY <3>1, <3>2 DEF Result
  <2> QED BY <1>2, <2>1, <2>2, <2>3, <2>4, <2>5, <2>6 DEF Statement
<1>3. ASSUME NEW c \in Calls, Serves(c) PROVE Result
  <2>1. CASE Ask(c) \/ AskSeed(c)
    BY <1>1, <2>1, ReadsOnly
  <2>2. CASE Fails(c)
    BY <1>1, <2>2 DEF Fails
  <2> QED BY <1>2, <1>3, <2>1, <2>2 DEF Serves
<1>4. ASSUME NEW c \in Calls, Submits(c) PROVE Result
  BY <1>1, <1>4, ReadsOnly
<1>5. CASE Time
  <2>1. ASSUME NEW j \in Invites, InviteExpires(j) PROVE Result
    <3>1. invite' = [invite EXCEPT ![j] = [invite[j] EXCEPT !.state = "expired"]] /\ invite[i] \in Rows
      BY <2>1 DEF InviteExpires, Tables
    <3> QED BY <3>1 DEF Tables, Rows
  <2> QED BY <1>1, <1>5, <2>1 DEF Time, SessionEnds
<1>6. CASE UNCHANGED vars \/ DomainScript \/ Start \/ BootProjects \/ Listen \/ Exit \/ Crash
  BY <1>1, <1>6 DEF vars, DomainScript, Start, BootProjects, Listen, Exit, Crash, accountVars
<1> QED BY <1>3, <1>4, <1>5, <1>6 DEF Next, Process

\* A call that has made its account did so before, or makes it now, alone.
LEMMA MadeBefore ==
  ASSUME Shaped, Tables, Known, [Next]_vars, NEW c \in Calls, Made(c)'
  PROVE  \/ /\ Made(c) /\ call'[c].who = call[c].who /\ call'[c].inv = call[c].inv
            /\ \/ call'[c] = call[c]
               \/ LinkAccount(c) /\ call[c].at = "link" /\ call'[c].at # "link"
               \/ call[c].at # "link" /\ call'[c].at \notin {"link", "mark"}
         \/ /\ CreateUser(c) /\ call[c].who \notin Accounts /\ call'[c].at = "link"
            /\ call'[c].who = call[c].who
            /\ \A d \in Calls \ {c} : call'[d] = call[d]
<1>1. Moved(c)
  BY NextMoves
<1>2. CASE call'[c] = call[c]
  BY <1>2 DEF Made
<1>3. CASE call'[c] = Idle \/ Begun(c)
  BY <1>3, IdleTyped DEF Made, Begun, Firsts
<1>4. CASE Gone(c)
  <2>1. CASE call'[c].at = "link"
    <3>1. call[c].at = "create"
      BY <1>4, <2>1 DEF Gone, Follows
    <3>2. CreateUser(c) /\ call[c].who \notin Accounts
      BY <1>4, <2>1, <3>1, Creates DEF Gone
    <3>3. Statement(c)
      BY <3>2 DEF Statement
    <3> QED BY <1>4, <2>1, <3>2, <3>3, StatementMoves DEF Gone
  <2>2. CASE call[c].at = "link"
    <3>1. call'[c].at \in {"mark", "save"}
      BY <1>4, <2>2 DEF Gone, Follows
    <3> QED BY <1>4, <2>2, <3>1, Links DEF Gone, Made
  <2>3. CASE call'[c].at # "link" /\ call[c].at # "link"
    BY <1>4, <2>3 DEF Gone, Follows, Made
  <2> QED BY <2>1, <2>2, <2>3
<1> QED BY <1>1, <1>2, <1>3, <1>4 DEF Moved

\* The unique key settles who made the account, and so whose mark it is.
LEMMA SettledKeeps ==
  ASSUME Shaped, Tables, Known, Settled, [Next]_vars
  PROVE  Settled'
<1>1. Makers'
  <2> SUFFICES ASSUME NEW c \in Calls, NEW d \in Calls, Made(c)', Made(d)', call'[c].who = call'[d].who, c # d
               PROVE  FALSE
    BY DEF Makers
  <2>1. CASE Made(c) /\ Made(d) /\ call'[c].who = call[c].who /\ call'[d].who = call[d].who
    BY <2>1 DEF Settled, Makers
  <2>2. ASSUME NEW e \in {c, d}, NEW f \in {c, d} \ {e}, CreateUser(e), call[e].who \notin Accounts,
               call'[e].who = call[e].who, call'[f] = call[f]
        PROVE  FALSE
    BY <2>2 DEF Known, Made
  <2> QED BY <2>1, <2>2, MadeBefore
<1>2. Passwords'
  <2> SUFFICES ASSUME NEW c \in Calls, Made(c)'
               PROVE  user'[call'[c].who].password <=> call'[c].at # "link"
    BY DEF Passwords
  <2>1. CASE /\ CreateUser(c) /\ call[c].who \notin Accounts /\ call'[c].at = "link"
             /\ call'[c].who = call[c].who
    <3>1. user'[call[c].who] = [NoAccount EXCEPT !.role = IF call[c].op = "accept" THEN "user" ELSE "admin"]
      BY <2>1, UserWrites
    <3> QED BY <2>1, <3>1 DEF NoAccount
  <2>2. CASE Made(c) /\ call'[c].who = call[c].who
    <3>0. call[c].who \in People /\ (user[call[c].who].password <=> call[c].at # "link")
      BY <2>2 DEF Settled, Passwords, Made, Known, Accounts
    <3>1. CASE call'[c] = call[c]
      <4>1. CASE call[c].at # "link"
        BY <3>0, <3>1, <4>1, PasswordMoves
      <4>2. CASE call[c].at = "link" /\ user'[call[c].who].password
        <5>1. PICK d \in Calls : LinkAccount(d) /\ call[d].who = call[c].who
          BY <3>0, <4>2, PasswordMoves
        <5>2. d = c
          BY <2>2, <5>1 DEF LinkAccount, Made, Settled, Makers
        <5>3. Gone(c) \/ call'[c] = Idle
          BY <5>1, <5>2, StatementMoves DEF Statement
        <5> QED BY <3>1, <4>2, <5>3, IdleTyped DEF Gone, Follows
      <4> QED BY <3>1, <4>1, <4>2
    <3>2. CASE LinkAccount(c) /\ call'[c].at # "link"
      <4>1. user'[call[c].who] = [user[call[c].who] EXCEPT !.password = TRUE] /\ call[c].who \in Accounts
        BY <3>2, UserWrites
      <4>2. user[call[c].who] \in [role : {"user", "admin"}, password : BOOLEAN, banned : BOOLEAN]
        BY <4>1 DEF Tables, Users, NoAccount, Accounts
      <4>3. user'[call[c].who].password = TRUE
        BY <4>1, <4>2
      <4> QED BY <2>2, <3>2, <4>3
    <3>3. CASE call[c].at # "link" /\ call'[c].at # "link"
      BY <2>2, <3>0, <3>3, PasswordMoves
    <3>4. ~CreateUser(c)
      BY <2>2 DEF CreateUser, Made
    <3> QED BY <2>2, <3>1, <3>2, <3>3, <3>4, MadeBefore
  <2> QED BY <2>1, <2>2, MadeBefore
<1>3. ASSUME NEW c \in Calls, At(c, "accept", "mark")'
      PROVE  invite'[call'[c].inv].state # "accepted"
  <2>1. call'[c].at = "mark" /\ Made(c)' /\ call'[c].op = "accept" /\ call[c] \in Requests
    BY <1>3 DEF At, Made, Shaped
  <2>2. /\ Made(c) /\ call'[c].who = call[c].who /\ call'[c].inv = call[c].inv
        /\ call'[c] = call[c] \/ (LinkAccount(c) /\ call[c].at = "link")
    BY <2>1, MadeBefore
  <2>3. call[c].op = "accept"
    <3>1. CASE call'[c] = call[c] BY <2>1, <3>1
    <3>2. CASE LinkAccount(c)
      <4>1. Gone(c) \/ call'[c] = Idle
        BY <3>2, StatementMoves DEF Statement
      <4> QED BY <2>1, <4>1, IdleTyped DEF Gone
    <3> QED BY <2>2, <3>1, <3>2
  <2>4. call[c].inv \in Invites /\ invite[call[c].inv].email = call[c].who /\ call[c].who \in People
    BY <2>3 DEF Known
  <2>5. invite[call[c].inv].state # "accepted"
    <3>1. CASE call'[c] = call[c]
      BY <1>3, <3>1 DEF At, Settled, InvitationsSettle
    <3>2. CASE call[c].at = "link"
      BY <2>2, <2>4, <3>2 DEF Settled, InvitationsSettle, Passwords
    <3> QED BY <2>2, <3>1, <3>2
  <2>6. ASSUME invite'[call[c].inv].state = "accepted"
        PROVE  FALSE
    <3>1. PICK d \in Calls : At(d, "accept", "mark") /\ call[d].inv = call[c].inv /\ call'[d] = Idle
      BY <2>4, <2>5, <2>6, Marks
    <3>2. Made(d) /\ call[d].who = call[c].who
      BY <2>4, <3>1 DEF At, Made, Known
    <3>3. c = d
      BY <2>2, <3>2 DEF Settled, Makers
    <3> QED BY <2>1, <3>1, <3>3, IdleTyped
  <2> QED BY <2>2, <2>6
<1>4. ASSUME NEW i \in Invites, invite'[i].state = "accepted"
      PROVE  user'[invite'[i].email].password
  <2>1. CASE invite[i].state = "accepted"
    <3>1. user[invite[i].email].password /\ invite[i].email # Nobody /\ invite[i].email \in People
      BY <2>1 DEF Settled, InvitationsSettle, Tables, Rows
    <3>2. invite'[i].email = invite[i].email
      BY <3>1, TablesHold
    <3> QED BY <3>1, <3>2, PasswordMoves
  <2>2. CASE invite[i].state # "accepted"
    <3>1. PICK c \in Calls : At(c, "accept", "mark") /\ call[c].inv = i
      BY <1>4, <2>2, Marks
    <3>2. invite[i].email = call[c].who /\ call[c].who \in People /\ user[call[c].who].password
      BY <3>1 DEF At, Known, Settled, Passwords, Made
    <3>3. invite'[i].email = invite[i].email
      BY <3>2, TablesHold, AccountsAssumption
    <3> QED BY <3>2, <3>3, PasswordMoves
  <2> QED BY <2>1, <2>2
<1>5. InvitationsSettle'
  BY <1>3, <1>4 DEF InvitationsSettle
<1> QED BY <1>1, <1>2, <1>5 DEF Settled

-----------------------------------------------------------------------------
(* The last administrator.                                                 *)

\* No call ever saw one administrator and went on: countAdmins turns it away.
Counted == \A c \in Calls : call[c].seen # 1

\* What a call has counted is what it counted when it was let through.
LEMMA CountedKeeps ==
  ASSUME Shaped, Tables, Known, Counted, [Next]_vars
  PROVE  Counted'
<1> SUFFICES ASSUME NEW c \in Calls PROVE call'[c].seen # 1
  BY DEF Counted
<1>1. call[c].seen # 1 /\ call[c] \in Requests
  BY DEF Counted, Shaped
<1>2. ASSUME NEW place, call' = [call EXCEPT ![c].at = place] PROVE call'[c].seen # 1
  <2>1. call'[c] = [call[c] EXCEPT !.at = place]
    BY <1>2 DEF Shaped
  <2> QED BY <1>1, <2>1 DEF Requests
<1>3. ASSUME call'[c] = Idle PROVE call'[c].seen # 1
  BY <1>3, IdleTyped
<1>4. ASSUME Refused(c) \/ Ends(c) PROVE call'[c].seen # 1
  BY <1>3, <1>4, CallEnds DEF Refused, Ends
<1>5. ASSUME NEW place, Reads(c, place) \/ Goes(c, place) PROVE call'[c].seen # 1
  BY <1>2, <1>5 DEF Reads, Goes
<1>6. CASE Ask(c) \/ AskSeed(c) \/ AskSubmit(c)
  BY <1>6, AskMoves DEF Begun
<1>7. CASE Statement(c)
  <2>1. CASE CheckSignIn(c) \/ OpenSession(c) \/ SetUserBanned(c) \/ RevokeUserSessions(c) \/ ReadTarget(c)
    BY <1>4, <1>5, <2>1 DEF CheckSignIn, OpenSession, SetUserBanned, RevokeUserSessions, ReadTarget
  <2>2. CASE SetUserRole(c) \/ LookForAccount(c) \/ LookForPending(c) \/ CreateInvitation(c) \/ DeleteInvitation(c)
    BY <1>4, <1>5, <2>2 DEF SetUserRole, LookForAccount, LookForPending, CreateInvitation, DeleteInvitation
  <2>3. CASE FindUsable(c) \/ MarkAccepted(c) \/ LookUpEmail(c) \/ CreateUser(c)
    BY <1>4, <1>5, <2>3 DEF FindUsable, MarkAccepted, LookUpEmail, CreateUser
  <2>4. CASE LinkAccount(c) \/ CountForSeed(c) \/ SeekForSeed(c)
    BY <1>4, <1>5, <2>4 DEF LinkAccount, CountForSeed, SeekForSeed
  <2>5. CASE CountAdmins(c)
    <3>1. CASE Cardinality(Admins) <= 1
      BY <1>4, <2>5, <3>1 DEF CountAdmins
    <3>2. CASE ~(Cardinality(Admins) <= 1)
      <4>1. call' = [call EXCEPT ![c] = [call[c] EXCEPT !.at = "role", !.seen = Cardinality(Admins)]]
        BY <2>5, <3>2 DEF CountAdmins
      <4>2. call'[c] = [call[c] EXCEPT !.at = "role", !.seen = Cardinality(Admins)]
        BY <4>1 DEF Shaped
      <4>3. call'[c].seen = Cardinality(Admins)
        BY <1>1, <4>2 DEF Requests
      <4>4. Cardinality(Admins) \in Nat
        BY AccountsAssumption, FS_Subset, FS_CardinalityType DEF Admins
      <4> QED BY <3>2, <4>3, <4>4
    <3> QED BY <3>1, <3>2
  <2> QED BY <1>7, <2>1, <2>2, <2>3, <2>4, <2>5 DEF Statement
<1>8. CASE Fails(c)
  BY <1>3, <1>8, CallEnds DEF Fails
<1>9. CASE Submits(c)
  <2>1. CASE SubmitProjectionFails(c) \/ Answer(c) \/ \E restarts \in BOOLEAN : Finish(c, restarts)
    BY <1>4, <1>5, <2>1 DEF SubmitProjectionFails, Answer, Finish
  <2>2. CASE SavePlatformDomains(c)
    <3>1. call' = [call EXCEPT ![c] = [call[c] EXCEPT !.at = "project", !.todo = Projection("configured")]]
      BY <2>2 DEF SavePlatformDomains
    <3>2. call'[c] = [call[c] EXCEPT !.at = "project", !.todo = Projection("configured")]
      BY <3>1 DEF Shaped
    <3> QED BY <1>1, <3>2 DEF Requests
  <2>3. CASE SubmitProjects(c)
    <3>1. call' = [call EXCEPT ![c] = [call[c] EXCEPT !.todo = Tail(call[c].todo)]]
      BY <2>3 DEF SubmitProjects
    <3>2. call'[c] = [call[c] EXCEPT !.todo = Tail(call[c].todo)]
      BY <3>1 DEF Shaped
    <3> QED BY <1>1, <3>2 DEF Requests
  <2> QED BY <1>6, <1>9, <2>1, <2>2, <2>3 DEF Submits
<1>10. CASE Crash
  BY <1>1, <1>10, IdleTyped DEF Crash
<1>11. CASE call'[c] = call[c]
  BY <1>1, <1>11
<1> QED BY <1>6, <1>7, <1>8, <1>9, <1>10, <1>11, Actor DEF Serves

\* Only a demotion takes the role from an administrator.
LEMMA AdminGoes ==
  ASSUME Shaped, Tables, Known, [Next]_vars, NEW p \in Admins, p \notin Admins'
  PROVE  \E c \in Calls : /\ At(c, "demote", "role") /\ call[c].who = p
                          /\ \A q \in People \ {p} : user'[q] = user[q]
<1> DEFINE Result == \E c \in Calls : /\ At(c, "demote", "role") /\ call[c].who = p
                                      /\ \A q \in People \ {p} : user'[q] = user[q]
<1> SUFFICES Result
  OBVIOUS
<1> HIDE DEF Result
<1>1. /\ p \in People /\ user[p].role = "admin" /\ p \in Accounts
      /\ user[p] \in [role : {"user", "admin"}, password : BOOLEAN, banned : BOOLEAN]
  BY DEF Admins, Accounts, Tables, Users, NoAccount
<1>2. user'[p].role # "admin"
  BY <1>1 DEF Admins
<1>3. ASSUME user'[p] = user[p] PROVE Result
  BY <1>1, <1>2, <1>3
<1>4. ASSUME NEW c \in Calls, SetUserBanned(c) PROVE Result
  <2>1. /\ user'[call[c].who] = [user[call[c].who] EXCEPT !.banned = (call[c].op = "ban")]
        /\ \A q \in People \ {call[c].who} : user'[q] = user[q]
    BY <1>4, UserWrites
  <2>2. p = call[c].who => user'[p].role = user[p].role
    BY <1>1, <2>1
  <2> QED BY <1>1, <1>2, <1>3, <2>1, <2>2
<1>5. ASSUME NEW c \in Calls, LinkAccount(c) PROVE Result
  <2>1. /\ user'[call[c].who] = [user[call[c].who] EXCEPT !.password = TRUE]
        /\ \A q \in People \ {call[c].who} : user'[q] = user[q]
    BY <1>5, UserWrites
  <2>2. p = call[c].who => user'[p].role = user[p].role
    BY <1>1, <2>1
  <2> QED BY <1>1, <1>2, <1>3, <2>1, <2>2
<1>6. ASSUME NEW c \in Calls, CreateUser(c) PROVE Result
  <2>1. CASE call[c].who \in Accounts
    BY <1>3, <1>6, <2>1, ReadsOnly
  <2>2. CASE call[c].who \notin Accounts
    <3>1. \A q \in People \ {call[c].who} : user'[q] = user[q]
      BY <1>6, <2>2, UserWrites
    <3> QED BY <1>1, <1>3, <2>2, <3>1
  <2> QED BY <2>1, <2>2
<1>7. ASSUME NEW c \in Calls, SetUserRole(c) PROVE Result
  <2>1. /\ user'[call[c].who] = [user[call[c].who] EXCEPT !.role = IF call[c].op = "demote" THEN "user" ELSE "admin"]
        /\ \A q \in People \ {call[c].who} : user'[q] = user[q]
    BY <1>7, UserWrites
  <2>2. p = call[c].who
    BY <1>1, <1>2, <2>1
  <2>3. call[c].op = "demote"
    BY <1>1, <1>2, <2>1, <2>2
  <2> QED BY <1>7, <2>1, <2>2, <2>3 DEF Result, SetUserRole, At
<1>8. CASE UNCHANGED user
  BY <1>3, <1>8
<1>9. ASSUME NEW c \in Calls, Statement(c) PROVE Result
  <2>1. CASE \/ CheckSignIn(c) \/ ReadTarget(c) \/ CountAdmins(c) \/ LookForAccount(c) \/ LookForPending(c)
             \/ FindUsable(c) \/ LookUpEmail(c) \/ CountForSeed(c) \/ SeekForSeed(c)
    BY <1>8, <2>1, ReadsOnly
  <2>2. CASE OpenSession(c) \/ RevokeUserSessions(c) \/ CreateInvitation(c) \/ DeleteInvitation(c) \/ MarkAccepted(c)
    BY <1>8, <2>2 DEF OpenSession, RevokeUserSessions, CreateInvitation, DeleteInvitation, MarkAccepted
  <2> QED BY <1>4, <1>5, <1>6, <1>7, <1>9, <2>1, <2>2 DEF Statement
<1>10. ASSUME NEW c \in Calls, Serves(c) PROVE Result
  <2>1. CASE Ask(c) \/ AskSeed(c)
    BY <1>8, <2>1, ReadsOnly
  <2>2. CASE Fails(c)
    BY <1>8, <2>2 DEF Fails
  <2> QED BY <1>9, <1>10, <2>1, <2>2 DEF Serves
<1>11. ASSUME NEW c \in Calls, Submits(c) PROVE Result
  BY <1>8, <1>11, ReadsOnly
<1>12. CASE UNCHANGED vars \/ DomainScript \/ Start \/ BootProjects \/ Listen \/ Exit \/ Crash \/ Time
  BY <1>8, <1>12 DEF vars, DomainScript, Start, BootProjects, Listen, Exit, Crash, Time, SessionEnds, InviteExpires, accountVars
<1> QED BY <1>10, <1>11, <1>12 DEF Next, Process

\* The last administrator: whoever is demoted alone was not counted alone.
LEMMA LastOneStays ==
  ASSUME Shaped, Tables, Known, Counted, [Next]_vars, Admins # {}, Admins' = {}
  PROVE  \E c \in Calls : At(c, "demote", "role") /\ call[c].seen # Cardinality(Admins)
<1>1. PICK p \in Admins : p \in People
  BY DEF Admins
<1>2. PICK c \in Calls : /\ At(c, "demote", "role") /\ call[c].who = p
                         /\ \A q \in People \ {p} : user'[q] = user[q]
  BY <1>1, AdminGoes
<1>3. Admins = {p}
  BY <1>1, <1>2 DEF Admins
<1>4. Cardinality(Admins) = 1
  BY <1>3, FS_Singleton
<1> QED BY <1>2, <1>4 DEF Counted

-----------------------------------------------------------------------------
(* What is left of a projection.                                           *)

Left(t, do, f) == \E i \in 1..Len(t) : t[i].do = do /\ t[i].file = f

\* What the setup page's own projection has still to do: while it goes on no
\* step closes the page, and at its end the page stands.
Opening(t, files) ==
    /\ ~Left(t, "drop", "bootstrap")
    /\ ~Left(t, "rename", "bootstrap") => "bootstrap" \in files

\* What the projection of a configured machine has still to do: the way in is
\* opened before the setup page is closed, and at its end both are done.
Leading(t, files) ==
    /\ ~Left(t, "rename", "bootstrap") /\ ~Left(t, "drop", "platform")
    /\ ~Left(t, "rename", "platform") => "platform" \in files
    /\ ~Left(t, "drop", "bootstrap") => "bootstrap" \notin files
    /\ \A i, j \in 1..Len(t) :
         /\ t[i].do = "drop" /\ t[i].file = "bootstrap"
         /\ t[j].do = "rename" /\ t[j].file = "platform"
         => j < i

\* What is left of two lists, one after the other.
LEMMA LeftBoth ==
  ASSUME NEW s \in Seq(Steps), NEW t \in Seq(Steps), NEW do, NEW f
  PROVE  /\ s \o t \in Seq(Steps)
         /\ Left(s \o t, do, f) <=> Left(s, do, f) \/ Left(t, do, f)
<1> DEFINE u == s \o t
<1>1. /\ u \in Seq(Steps) /\ Len(u) = Len(s) + Len(t)
      /\ \A i \in 1..Len(s) : u[i] = s[i]
      /\ \A i \in 1..Len(t) : u[i + Len(s)] = t[i]
      /\ \A i \in 1..Len(u) : i \in 1..Len(s) \/ i - Len(s) \in 1..Len(t)
      /\ Len(s) \in Nat /\ Len(t) \in Nat
  OBVIOUS
<1> HIDE DEF u
<1>2. Left(u, do, f) => Left(s, do, f) \/ Left(t, do, f)
  <2>1. SUFFICES ASSUME NEW i \in 1..Len(u), u[i].do = do, u[i].file = f
                 PROVE  Left(s, do, f) \/ Left(t, do, f)
    BY DEF Left
  <2>2. CASE i \in 1..Len(s)
    BY <1>1, <2>1, <2>2 DEF Left
  <2>3. CASE i - Len(s) \in 1..Len(t)
    <3>1. u[i] = t[i - Len(s)]
      BY <1>1, <2>3
    <3> QED BY <2>1, <2>3, <3>1 DEF Left
  <2> QED BY <1>1, <2>2, <2>3
<1>3. Left(s, do, f) => Left(u, do, f)
  BY <1>1 DEF Left
<1>4. Left(t, do, f) => Left(u, do, f)
  <2>1. SUFFICES ASSUME NEW i \in 1..Len(t), t[i].do = do, t[i].file = f
                 PROVE  Left(u, do, f)
    BY DEF Left
  <2>2. i + Len(s) \in 1..Len(u) /\ u[i + Len(s)] = t[i]
    BY <1>1
  <2> QED BY <2>1, <2>2 DEF Left
<1> QED BY <1>1, <1>2, <1>3, <1>4 DEF u

\* What is left once the first step has been run.
LEMMA LeftAfter ==
  ASSUME NEW t \in Seq(Steps), t # <<>>, NEW do, NEW f
  PROVE  /\ Head(t) \in Steps /\ Tail(t) \in Seq(Steps)
         /\ Left(Tail(t), do, f) => Left(t, do, f)
         /\ Left(t, do, f) => Left(Tail(t), do, f) \/ (Head(t).do = do /\ Head(t).file = f)
         /\ Head(t).do = do /\ Head(t).file = f => Left(t, do, f)
<1>1. /\ Len(t) \in Nat \ {0} /\ Head(t) = t[1] /\ t[1] \in Steps
      /\ Tail(t) \in Seq(Steps) /\ Len(Tail(t)) = Len(t) - 1
      /\ \A i \in 1..(Len(t) - 1) : Tail(t)[i] = t[i + 1]
  OBVIOUS
<1>2. Left(Tail(t), do, f) => Left(t, do, f)
  <2>1. SUFFICES ASSUME NEW i \in 1..(Len(t) - 1), Tail(t)[i].do = do, Tail(t)[i].file = f
                 PROVE  Left(t, do, f)
    BY <1>1 DEF Left
  <2>2. i + 1 \in 1..Len(t) /\ t[i + 1] = Tail(t)[i]
    BY <1>1
  <2> QED BY <2>1, <2>2 DEF Left
<1>3. Left(t, do, f) => Left(Tail(t), do, f) \/ (Head(t).do = do /\ Head(t).file = f)
  <2>1. SUFFICES ASSUME NEW i \in 1..Len(t), t[i].do = do, t[i].file = f, i # 1
                 PROVE  Left(Tail(t), do, f)
    BY <1>1 DEF Left
  <2>2. i - 1 \in 1..Len(Tail(t)) /\ Tail(t)[i - 1] = t[i]
    BY <1>1, <2>1
  <2> QED BY <2>1, <2>2 DEF Left
<1>4. Head(t).do = do /\ Head(t).file = f => Left(t, do, f)
  BY <1>1 DEF Left
<1> QED BY <1>1, <1>2, <1>3, <1>4

\* What a step of a projection does to the two doors.
LEMMA RunMoves ==
  ASSUME NEW step \in Steps, Run(step), file \subseteq Files, tmp \subseteq Files
  PROVE  /\ file' \subseteq Files /\ tmp' \subseteq Files
         /\ \A f \in Files :
              f \in file' <=> \/ step.do = "rename" /\ step.file = f
                              \/ f \in file /\ ~(step.do = "drop" /\ step.file = f)
<1>1. step.file \in Files /\ step.do \in {"write", "rename", "drop"}
  BY DEF Steps
<1> QED BY <1>1 DEF Run

\* What one step does to the texts: nothing but a rename of a temporary file
\* two writers share tears a file.
LEMMA TextMoves ==
  ASSUME NEW step \in Steps, Run(step), shared \subseteq Files, torn \subseteq Files
  PROVE  /\ shared' \subseteq Files /\ torn' \subseteq Files
         /\ \A f \in Files :
              /\ step.do = "write" /\ step.file = f /\ ~Writing(f) => f \notin shared'
              /\ step.do = "rename" /\ step.file = f /\ f \notin shared => f \notin torn'
              /\ f \notin torn /\ ~(step.do = "rename" /\ step.file = f) => f \notin torn'
<1>1. step.file \in Files /\ step.do \in {"write", "rename", "drop"}
  BY DEF Steps
<1> QED BY <1>1 DEF Run

\* The two projections as projectPlatformRoutes orders them.
LEMMA ProjectionsLead ==
  ASSUME NEW files
  PROVE  Opening(Projection("bootstrap"), files) /\ Leading(Projection("configured"), files)
<1> DEFINE rest == IF Tls THEN Write("redirect") ELSE Drop("redirect")
           way == Write("platform") \o rest
<1>1. \A f \in Files : Write(f) \in Seq(Steps) /\ Drop(f) \in Seq(Steps)
  BY DEF Write, Drop, Steps
<1>2. "bootstrap" \in Files /\ "platform" \in Files /\ "redirect" \in Files
  BY DEF Files
<1>3. \A f, g, do : /\ Left(Write(f), do, g) <=> f = g /\ do \in {"write", "rename"}
                    /\ Left(Drop(f), do, g) <=> f = g /\ do = "drop"
  BY DEF Left, Write, Drop
<1>4. Opening(Projection("bootstrap"), files)
  <2> DEFINE page == Write("bootstrap")
             gone == Drop("platform")
             last == Drop("redirect")
  <2>1. /\ page \in Seq(Steps) /\ ~Left(page, "drop", "bootstrap") /\ Left(page, "rename", "bootstrap")
        /\ gone \in Seq(Steps) /\ ~Left(gone, "drop", "bootstrap")
        /\ last \in Seq(Steps) /\ ~Left(last, "drop", "bootstrap")
    BY <1>1, <1>2, <1>3
  <2>2. Projection("bootstrap") = (page \o gone) \o last
    BY DEF Projection
  <2> HIDE DEF page, gone, last
  <2>3. /\ page \o gone \in Seq(Steps) /\ ~Left(page \o gone, "drop", "bootstrap")
        /\ Left(page \o gone, "rename", "bootstrap")
    BY <2>1, LeftBoth
  <2> DEFINE both == page \o gone
  <2>4. both \in Seq(Steps) /\ ~Left(both, "drop", "bootstrap") /\ Left(both, "rename", "bootstrap")
    BY <2>3
  <2> HIDE DEF both
  <2>5. ~Left(both \o last, "drop", "bootstrap") /\ Left(both \o last, "rename", "bootstrap")
    BY <2>1, <2>4, LeftBoth
  <2> QED BY <2>2, <2>5 DEF both, Opening
<1>5. rest \in Seq(Steps) /\ ~Left(rest, "rename", "bootstrap") /\ ~Left(rest, "drop", "platform")
      /\ ~Left(rest, "rename", "platform") /\ ~Left(rest, "drop", "bootstrap")
  BY <1>1, <1>2, <1>3
<1> HIDE DEF rest
<1>6. way \in Seq(Steps) /\ ~Left(way, "rename", "bootstrap") /\ ~Left(way, "drop", "platform")
      /\ Left(way, "rename", "platform") /\ ~Left(way, "drop", "bootstrap")
  BY <1>1, <1>2, <1>3, <1>5, LeftBoth
<1> DEFINE end == Drop("bootstrap")
           all == way \o end
<1>7. Projection("configured") = all
  BY DEF Projection, rest
<1>8. end \in Seq(Steps) /\ ~Left(end, "rename", "bootstrap") /\ ~Left(end, "drop", "platform")
      /\ ~Left(end, "rename", "platform") /\ Left(end, "drop", "bootstrap")
  BY <1>1, <1>2, <1>3
<1> HIDE DEF way, end
<1>9. all \in Seq(Steps) /\ ~Left(all, "rename", "bootstrap") /\ ~Left(all, "drop", "platform")
      /\ Left(all, "rename", "platform") /\ Left(all, "drop", "bootstrap")
  BY <1>6, <1>8, LeftBoth
<1>10. ASSUME NEW i \in 1..Len(all), NEW j \in 1..Len(all),
              all[i].do = "drop", all[i].file = "bootstrap", all[j].do = "rename", all[j].file = "platform"
       PROVE  j < i
  <2>1. /\ Len(way) \in Nat /\ Len(end) \in Nat /\ Len(all) = Len(way) + Len(end)
        /\ \A k \in 1..Len(way) : all[k] = way[k]
        /\ \A k \in 1..Len(end) : all[k + Len(way)] = end[k]
    BY <1>6, <1>8
  <2> HIDE DEF all
  <2>2. i \notin 1..Len(way)
    BY <1>6, <1>10, <2>1 DEF Left
  <2>3. j \in 1..Len(way)
    <3>1. SUFFICES ASSUME j - Len(way) \in 1..Len(end) PROVE FALSE
      BY <2>1
    <3>2. all[j] = end[j - Len(way)]
      BY <2>1, <3>1
    <3> QED BY <1>8, <1>10, <3>1, <3>2 DEF Left
  <2> QED BY <2>1, <2>2, <2>3
<1> HIDE DEF all
<1>11. Leading(all, files)
  BY <1>9, <1>10 DEF Leading
<1> QED BY <1>4, <1>7, <1>11

\* The setup page is opened for good by what opens it.
LEMMA OpeningRuns ==
  ASSUME file \subseteq Files, tmp \subseteq Files, NEW t \in Seq(Steps), t # <<>>, Run(Head(t)), Opening(t, file)
  PROVE  Opening(Tail(t), file')
<1>1. Head(t) \in Steps /\ "bootstrap" \in Files
  BY LeftAfter DEF Files
<1>2. "bootstrap" \in file' <=> \/ Head(t).do = "rename" /\ Head(t).file = "bootstrap"
                                \/ "bootstrap" \in file /\ ~(Head(t).do = "drop" /\ Head(t).file = "bootstrap")
  BY <1>1, RunMoves
<1>3. ~Left(t, "drop", "bootstrap") /\ (~Left(t, "rename", "bootstrap") => "bootstrap" \in file)
  BY DEF Opening
<1>4. ~(Head(t).do = "drop" /\ Head(t).file = "bootstrap")
  BY <1>3, LeftAfter
<1>5. ~Left(Tail(t), "drop", "bootstrap")
  BY <1>3, LeftAfter
<1>6. ~Left(Tail(t), "rename", "bootstrap") =>
         ~Left(t, "rename", "bootstrap") \/ (Head(t).do = "rename" /\ Head(t).file = "bootstrap")
  BY LeftAfter
<1> QED BY <1>2, <1>3, <1>4, <1>5, <1>6 DEF Opening

\* A step of a configured machine's projection opens the way in or closes the
\* setup page, and closes it only when the way in is open.
LEMMA LeadingRuns ==
  ASSUME file \subseteq Files, tmp \subseteq Files, NEW t \in Seq(Steps), t # <<>>, Run(Head(t)), Leading(t, file)
  PROVE  /\ Leading(Tail(t), file')
         /\ "bootstrap" \in file' => "bootstrap" \in file
         /\ "platform" \in file => "platform" \in file'
         /\ file \cap {"bootstrap", "platform"} # {} => file' \cap {"bootstrap", "platform"} # {}
<1>1. Head(t) \in Steps /\ Tail(t) \in Seq(Steps) /\ "bootstrap" \in Files /\ "platform" \in Files
  BY LeftAfter DEF Files
<1>2. \A f \in {"bootstrap", "platform"} :
         f \in file' <=> \/ Head(t).do = "rename" /\ Head(t).file = f
                         \/ f \in file /\ ~(Head(t).do = "drop" /\ Head(t).file = f)
  BY <1>1, RunMoves
<1>3. /\ ~Left(t, "rename", "bootstrap") /\ ~Left(t, "drop", "platform")
      /\ ~Left(t, "rename", "platform") => "platform" \in file
      /\ ~Left(t, "drop", "bootstrap") => "bootstrap" \notin file
  BY DEF Leading
<1>4. /\ ~(Head(t).do = "rename" /\ Head(t).file = "bootstrap")
      /\ ~(Head(t).do = "drop" /\ Head(t).file = "platform")
  BY <1>3, LeftAfter
<1>5. /\ "bootstrap" \in file' => "bootstrap" \in file
      /\ "platform" \in file => "platform" \in file'
  BY <1>2, <1>4
<1>6. ASSUME Head(t).do = "drop", Head(t).file = "bootstrap"
      PROVE  "platform" \in file
  <2>1. /\ Len(t) \in Nat \ {0} /\ Head(t) = t[1]
    OBVIOUS
  <2>2. \A j \in 1..Len(t) : ~(t[j].do = "rename" /\ t[j].file = "platform")
    BY <1>6, <2>1 DEF Leading
  <2> QED BY <1>3, <2>2 DEF Left
<1>7. file \cap {"bootstrap", "platform"} # {} => file' \cap {"bootstrap", "platform"} # {}
  BY <1>2, <1>5, <1>6
<1>8. ~Left(Tail(t), "rename", "bootstrap") /\ ~Left(Tail(t), "drop", "platform")
  BY <1>3, LeftAfter
<1>9. ~Left(Tail(t), "rename", "platform") => "platform" \in file'
  <2>1. ~Left(Tail(t), "rename", "platform") =>
          ~Left(t, "rename", "platform") \/ (Head(t).do = "rename" /\ Head(t).file = "platform")
    BY LeftAfter
  <2> QED BY <1>2, <1>3, <1>5, <2>1
<1>10. ~Left(Tail(t), "drop", "bootstrap") => "bootstrap" \notin file'
  <2>1. ~Left(Tail(t), "drop", "bootstrap") =>
          ~Left(t, "drop", "bootstrap") \/ (Head(t).do = "drop" /\ Head(t).file = "bootstrap")
    BY LeftAfter
  <2> QED BY <1>2, <1>3, <1>5, <2>1
<1>11. ASSUME NEW i \in 1..Len(Tail(t)), NEW j \in 1..Len(Tail(t)),
              Tail(t)[i].do = "drop", Tail(t)[i].file = "bootstrap",
              Tail(t)[j].do = "rename", Tail(t)[j].file = "platform"
       PROVE  j < i
  <2>1. /\ i + 1 \in 1..Len(t) /\ Tail(t)[i] = t[i + 1]
        /\ j + 1 \in 1..Len(t) /\ Tail(t)[j] = t[j + 1]
    OBVIOUS
  <2>2. j + 1 < i + 1
    BY <1>11, <2>1 DEF Leading
  <2> QED BY <2>1, <2>2
<1> QED BY <1>5, <1>7, <1>8, <1>9, <1>10, <1>11 DEF Leading

-----------------------------------------------------------------------------
(* The door.                                                               *)

Procs == [at : {"down", "boot", "listening", "closing"}, mode : {"none", "bootstrap", "configured"},
          todo : Seq(Steps)]

Platform ==
    /\ setting \in {"none", "wizard", "script"}
    /\ proc \in Procs
    /\ file \subseteq Files /\ tmp \subseteq Files
    /\ shared \subseteq Files /\ torn \subseteq Files
    /\ answered \in BOOLEAN

\* The process takes requests, or finishes those it has taken.
Up == proc.at \in {"listening", "closing"}

Doors ==
    /\ proc.at = "down" => proc = Down
    /\ proc # Down => proc.mode \in {"bootstrap", "configured"}
    /\ Up => proc.todo = <<>> /\ file \cap {"bootstrap", "platform"} # {}
    /\ proc.mode = "configured" => setting # "none" /\ Leading(proc.todo, file)
    /\ proc.mode = "bootstrap" /\ proc.at = "boot" => Opening(proc.todo, file)
    /\ answered => /\ setting # "none" /\ "bootstrap" \notin file
                   /\ ~(proc.mode = "bootstrap" /\ proc.at = "boot")

\* Submissions run in a process that came up on the setup page.
Submitting ==
    \A c \in Calls : call[c].op = "submit" =>
        /\ Up /\ proc.mode = "bootstrap"
        /\ call[c].at = "project" => Leading(call[c].todo, file)
        /\ call[c].at \in {"project", "flush"} => setting # "none"
        /\ call[c].at = "flush" => answered

\* What a configured process has written of the console's file by itself: the
\* projection is all to do, or the temporary file is its own, or the file is.
Rewritten(t, names, texts) ==
    \/ t = Projection("configured")
    \/ t = Tail(Projection("configured")) /\ "platform" \notin names
    \/ ~Left(t, "rename", "platform") /\ "platform" \notin texts
Whole == proc.mode = "configured" => Rewritten(proc.todo, shared, torn)

\* With nothing left to do.
LEMMA NothingLeft ==
  ASSUME NEW files
  PROVE  /\ Leading(<<>>, files) <=> "platform" \in files /\ "bootstrap" \notin files
         /\ Opening(<<>>, files) <=> "bootstrap" \in files
<1>1. \A do, f : ~Left(<<>>, do, f)
  BY DEF Left
<1> QED BY <1>1 DEF Leading, Opening

\* The files and the process keep their types.
LEMMA PlatformHolds ==
  ASSUME Shaped, Tables, Known, Platform, [Next]_vars
  PROVE  Platform'
<1>1. CASE UNCHANGED platformVars
  BY <1>1 DEF Platform, platformVars
<1>2. proc \in Procs
  BY DEF Platform
<1>3. Down \in Procs
  BY DEF Down, Procs
<1>4. ASSUME NEW c \in Calls, Submits(c) PROVE Platform'
  <2>1. CASE AskSubmit(c) \/ SubmitProjectionFails(c)
    BY <1>1, <2>1 DEF AskSubmit, SubmitProjectionFails
  <2>2. CASE SavePlatformDomains(c)
    BY <2>2 DEF SavePlatformDomains, Platform
  <2>3. CASE SubmitProjects(c)
    <3>1. Head(call[c].todo) \in Steps
      BY <2>3, LeftAfter DEF SubmitProjects, Shaped, Requests
    <3> QED BY <2>3, <3>1, RunMoves, TextMoves DEF SubmitProjects, Platform
  <2>4. CASE Answer(c)
    BY <2>4 DEF Answer, Platform
  <2>5. ASSUME NEW restarts \in BOOLEAN, Finish(c, restarts) PROVE Platform'
    <3>1. proc' \in Procs
      BY <1>2, <2>5 DEF Finish, Procs
    <3> QED BY <2>5, <3>1 DEF Finish, Platform
  <2> QED BY <1>4, <2>1, <2>2, <2>3, <2>4, <2>5 DEF Submits
<1>5. CASE Start
  <2>1. Mode \in {"bootstrap", "configured"}
    BY DEF Mode
  <2>2. proc' \in Procs
    BY <1>5, <2>1, ProjectionTyped DEF Start, Procs
  <2> QED BY <1>5, <2>2 DEF Start, Platform
<1>6. CASE BootProjects
  <2>1. Head(proc.todo) \in Steps /\ Tail(proc.todo) \in Seq(Steps)
    BY <1>2, <1>6, LeftAfter DEF BootProjects, Procs
  <2>2. proc' \in Procs
    BY <1>2, <1>6, <2>1 DEF BootProjects, Procs
  <2> QED BY <1>6, <2>1, <2>2, RunMoves, TextMoves DEF BootProjects, Platform
<1>7. CASE Listen
  <2>1. proc' \in Procs
    BY <1>2, <1>7 DEF Listen, Procs
  <2> QED BY <1>7, <2>1 DEF Listen, Platform
<1>8. CASE Crash \/ Exit \/ DomainScript
  BY <1>3, <1>8 DEF Crash, Exit, DomainScript, Platform
<1>9. ASSUME NEW c \in Calls, Serves(c) PROVE Platform'
  BY <1>1, <1>9 DEF Serves
<1> QED BY <1>1, <1>4, <1>5, <1>6, <1>7, <1>8, <1>9 DEF Next, Process, vars

\* A statement of the tables leaves no submission among the files.
LEMMA StatementStands ==
  ASSUME Shaped, Tables, Known, NEW c \in Calls, Statement(c)
  PROVE  call'[c].at \notin {"project", "flush"}
<1>1. CASE call'[c] = Idle
  BY <1>1, IdleTyped
<1>2. CASE Gone(c)
  <2>1. <<call[c].op, call[c].at>> \in Stands
    BY DEF Shaped
  <2>2. call[c].at \notin {"save", "project"}
    BY <2>1 DEF Stands, Statement, CheckSignIn, OpenSession, SetUserBanned, RevokeUserSessions, ReadTarget,
         CountAdmins, SetUserRole, LookForAccount, LookForPending, CreateInvitation, DeleteInvitation, FindUsable,
         MarkAccepted, LookUpEmail, CreateUser, LinkAccount, CountForSeed, SeekForSeed, At
  <2> QED BY <1>2, <2>2 DEF Gone, Follows
<1> QED BY <1>1, <1>2, StatementMoves

\* What a step of a submission does to the call that takes it.
LEMMA SubmitSteps ==
  ASSUME Shaped, NEW c \in Calls
  PROVE  /\ SavePlatformDomains(c) => /\ call'[c].op = "submit" /\ call'[c].at = "project"
                                      /\ call'[c].todo = Projection("configured")
         /\ SubmitProjects(c) => /\ call'[c].op = "submit" /\ call'[c].at = "project"
                                 /\ call'[c].todo = Tail(call[c].todo)
         /\ Answer(c) => call'[c].op = "submit" /\ call'[c].at = "flush"
<1>1. call[c] \in Requests
  BY DEF Shaped
<1>2. ASSUME SavePlatformDomains(c)
      PROVE  /\ call'[c].op = "submit" /\ call'[c].at = "project"
             /\ call'[c].todo = Projection("configured")
  <2> DEFINE list == Projection("configured")
  <2>1. call' = [call EXCEPT ![c] = [call[c] EXCEPT !.at = "project", !.todo = list]] /\ call[c].op = "submit"
    BY <1>2 DEF SavePlatformDomains, At
  <2> HIDE DEF list
  <2>2. call'[c] = [call[c] EXCEPT !.at = "project", !.todo = list]
    BY <2>1 DEF Shaped
  <2>3. call'[c].op = "submit" /\ call'[c].at = "project" /\ call'[c].todo = list
    BY <1>1, <2>1, <2>2 DEF Requests
  <2> QED BY <2>3 DEF list
<1>3. ASSUME SubmitProjects(c)
      PROVE  /\ call'[c].op = "submit" /\ call'[c].at = "project"
             /\ call'[c].todo = Tail(call[c].todo)
  <2>1. /\ call' = [call EXCEPT ![c] = [call[c] EXCEPT !.todo = Tail(call[c].todo)]]
        /\ call[c].op = "submit" /\ call[c].at = "project"
    BY <1>3 DEF SubmitProjects, At
  <2>2. call'[c] = [call[c] EXCEPT !.todo = Tail(call[c].todo)]
    BY <2>1 DEF Shaped
  <2> QED BY <1>1, <2>1, <2>2 DEF Requests
<1>4. ASSUME Answer(c)
      PROVE  call'[c].op = "submit" /\ call'[c].at = "flush"
  <2>1. call' = [call EXCEPT ![c] = [call[c] EXCEPT !.at = "flush"]] /\ call[c].op = "submit"
    BY <1>4 DEF Answer, Reads, Goes, At
  <2>2. call'[c] = [call[c] EXCEPT !.at = "flush"]
    BY <2>1 DEF Shaped
  <2> QED BY <1>1, <2>1, <2>2 DEF Requests
<1> QED BY <1>2, <1>3, <1>4

\* The door stays right, whoever submits at the same time.
LEMMA DoorsKeep ==
  ASSUME Shaped, Tables, Known, Platform, Doors, Submitting, [Next]_vars
  PROVE  Doors' /\ Submitting'
<1> DEFINE Result == Doors' /\ Submitting'
<1> SUFFICES Result
  OBVIOUS
<1> DEFINE Fits(d) == call'[d].op = "submit" =>
               /\ Up' /\ proc'.mode = "bootstrap"
               /\ call'[d].at = "project" => Leading(call'[d].todo, file')
               /\ call'[d].at \in {"project", "flush"} => setting' # "none"
               /\ call'[d].at = "flush" => answered'
<1>0. Idle.op = "none" /\ Shaped' /\ proc \in Procs /\ file \subseteq Files /\ tmp \subseteq Files
  BY IdleTyped, NextMoves DEF Platform
<1>1. ASSUME \A d \in Calls : Fits(d) PROVE Submitting'
  BY <1>1 DEF Submitting
<1>2. ASSUME UNCHANGED platformVars PROVE Doors'
  BY <1>2 DEF Doors, Up, platformVars
<1>3. ASSUME UNCHANGED platformVars, NEW d \in Calls, call'[d] = call[d] PROVE Fits(d)
  BY <1>3 DEF Submitting, Up, platformVars
<1>4. ASSUME NEW d \in Calls, call'[d] = Idle PROVE Fits(d)
  BY <1>0, <1>4
<1>5. ASSUME UNCHANGED platformVars, NEW d \in Calls, Begun(d) PROVE Fits(d)
  BY <1>5 DEF Begun, Firsts, Listening, Up, platformVars
<1>6. ASSUME NEW c \in Calls, Serves(c) PROVE Result
  <2>1. UNCHANGED platformVars
    BY <1>6 DEF Serves
  <2>2. CASE Ask(c) \/ AskSeed(c)
    <3>1. Begun(c) /\ \A d \in Calls \ {c} : call'[d] = call[d]
      BY <2>2, AskMoves
    <3> QED BY <1>1, <1>2, <1>3, <1>5, <2>1, <3>1
  <2>3. CASE Fails(c)
    <3>1. call'[c] = Idle /\ \A d \in Calls \ {c} : call'[d] = call[d]
      BY <2>3, CallEnds DEF Fails
    <3> QED BY <1>1, <1>2, <1>3, <1>4, <2>1, <3>1
  <2>4. CASE Statement(c)
    <3>1. /\ call'[c] = Idle \/ Gone(c)
          /\ \A d \in Calls \ {c} : call'[d] = call[d]
      BY <2>4, StatementMoves
    <3>2. call'[c].at \notin {"project", "flush"}
      BY <2>4, StatementStands
    <3>3. CASE Gone(c)
      <4>1. Fits(c)
        BY <2>1, <3>2, <3>3 DEF Gone, Submitting, Up, platformVars
      <4> QED BY <1>1, <1>2, <1>3, <2>1, <3>1, <4>1
    <3>4. CASE call'[c] = Idle
      BY <1>1, <1>2, <1>3, <1>4, <2>1, <3>1, <3>4
    <3> QED BY <3>1, <3>3, <3>4
  <2> QED BY <1>6, <2>2, <2>3, <2>4 DEF Serves
<1>7. ASSUME NEW c \in Calls, Submits(c) PROVE Result
  <2>0. \A d \in Calls \ {c} : call'[d] = call[d]
    BY <1>7, SubmitMoves
  <2>1. CASE AskSubmit(c)
    <3>1. Begun(c) /\ UNCHANGED platformVars
      BY <2>1, AskMoves DEF AskSubmit
    <3> QED BY <1>1, <1>2, <1>3, <1>5, <2>0, <3>1
  <2>2. CASE SubmitProjectionFails(c)
    <3>1. call'[c] = Idle /\ UNCHANGED platformVars
      BY <2>2, CallEnds DEF SubmitProjectionFails, Refused, Ends
    <3> QED BY <1>1, <1>2, <1>3, <1>4, <2>0, <3>1
  <2>3. CASE SavePlatformDomains(c)
    <3>1. setting' = "wizard" /\ UNCHANGED <<proc, file, tmp, answered>> /\ call[c].op = "submit"
      BY <2>3 DEF SavePlatformDomains, At
    <3>2. Doors'
      BY <3>1 DEF Doors, Up
    <3>3. /\ call'[c].at = "project" /\ Leading(call'[c].todo, file')
      BY <2>3, <3>1, SubmitSteps, ProjectionsLead
    <3>4. Fits(c)
      BY <3>1, <3>3 DEF Submitting, Up
    <3>5. \A d \in Calls \ {c} : Fits(d)
      BY <2>0, <3>1 DEF Submitting, Up
    <3> QED BY <1>1, <3>2, <3>4, <3>5
  <2>4. CASE SubmitProjects(c)
    <3> DEFINE t == call[c].todo
    <3>1. /\ UNCHANGED <<setting, proc, answered>> /\ Run(Head(t)) /\ t # <<>> /\ t \in Seq(Steps)
          /\ call[c].op = "submit" /\ call[c].at = "project"
      BY <2>4 DEF SubmitProjects, At, Shaped, Requests
    <3>2. Up /\ proc.mode = "bootstrap" /\ Leading(t, file) /\ setting # "none"
      BY <3>1 DEF Submitting
    <3>3. call'[c].at = "project" /\ call'[c].todo = Tail(t)
      BY <2>4, SubmitSteps
    <3> HIDE DEF t
    <3>4. /\ Leading(Tail(t), file')
          /\ "bootstrap" \in file' => "bootstrap" \in file
          /\ "platform" \in file => "platform" \in file'
          /\ file \cap {"bootstrap", "platform"} # {} => file' \cap {"bootstrap", "platform"} # {}
      BY <1>0, <3>1, <3>2, LeadingRuns
    <3>5. Doors'
      BY <3>1, <3>2, <3>4 DEF Doors, Up
    <3>6. Fits(c)
      BY <3>1, <3>2, <3>3, <3>4 DEF Up
    <3>7. \A d \in Calls \ {c} : Fits(d)
      BY <2>0, <3>1, <3>4 DEF Submitting, Up, Leading
    <3> QED BY <1>1, <3>5, <3>6, <3>7
  <2>5. CASE Answer(c)
    <3>1. UNCHANGED <<setting, proc, file, tmp>> /\ answered' = TRUE /\ call[c].op = "submit" /\ call[c].at = "project"
          /\ call[c].todo = <<>>
      BY <2>5 DEF Answer, At
    <3>2. Up /\ proc.mode = "bootstrap" /\ "bootstrap" \notin file /\ setting # "none"
      BY <3>1, NothingLeft DEF Submitting
    <3>3. call'[c].at = "flush"
      BY <2>5, SubmitSteps
    <3>4. Doors'
      BY <3>1, <3>2 DEF Doors, Up
    <3>5. Fits(c)
      BY <3>1, <3>2, <3>3 DEF Up
    <3>6. \A d \in Calls \ {c} : Fits(d)
      BY <2>0, <3>1 DEF Submitting, Up
    <3> QED BY <1>1, <3>4, <3>5, <3>6
  <2>6. ASSUME NEW restarts \in BOOLEAN, Finish(c, restarts) PROVE Result
    <3>1. /\ UNCHANGED <<setting, file, tmp, answered>> /\ call'[c] = Idle /\ call[c].op = "submit"
      BY <2>6, CallEnds DEF Finish, Refused, Ends, At
    <3>2. Up /\ proc.mode = "bootstrap"
      BY <3>1 DEF Submitting
    <3>3. /\ proc'.at \in {"listening", "closing"} /\ proc'.mode = "bootstrap" /\ proc'.todo = proc.todo
      BY <1>0, <2>6, <3>2 DEF Finish, Up, Procs
    <3>4. Doors'
      BY <3>1, <3>2, <3>3 DEF Doors, Up
    <3>5. \A d \in Calls \ {c} : Fits(d)
      BY <2>0, <3>1, <3>2, <3>3 DEF Submitting, Up
    <3> QED BY <1>1, <1>4, <3>1, <3>4, <3>5
  <2> QED BY <1>7, <2>1, <2>2, <2>3, <2>4, <2>5, <2>6 DEF Submits
<1>8. ASSUME proc' = Down, UNCHANGED <<setting, file, answered>>, \A d \in Calls : call'[d].op # "submit" PROVE Result
  <2>1. Doors'
    BY <1>8 DEF Doors, Up, Down
  <2> QED BY <1>1, <1>8, <2>1
<1>9. CASE Crash
  <2>1. \A d \in Calls : call'[d].op # "submit"
    BY <1>0, <1>9 DEF Crash
  <2> QED BY <1>8, <1>9, <2>1 DEF Crash
<1>10. CASE Exit
  <2>1. \A d \in Calls : call'[d] = call[d]
    BY <1>10 DEF Exit, accountVars
  <2>2. \A d \in Calls : call'[d].op # "submit"
    BY <1>0, <1>10, <2>1 DEF Exit, Busy
  <2> QED BY <1>8, <1>10, <2>2 DEF Exit
<1>11. ASSUME UNCHANGED call, proc.at \notin {"listening", "closing"}
       PROVE  Submitting'
  BY <1>11 DEF Submitting, Up
<1>12. CASE Start
  <2>1. /\ proc = Down /\ proc' = [at |-> "boot", mode |-> Mode, todo |-> Projection(Mode)]
        /\ UNCHANGED <<call, setting, file, tmp, answered>>
    BY <1>12 DEF Start, accountVars
  <2>2. Submitting'
    BY <1>11, <2>1 DEF Down
  <2>3. proc'.at = "boot" /\ proc'.mode = Mode /\ proc'.todo = Projection(Mode)
    BY <2>1
  <2>4. CASE setting = "none"
    <3>1. Mode = "bootstrap"
      BY <2>4 DEF Mode
    <3>2. Opening(proc'.todo, file')
      BY <2>3, <3>1, ProjectionsLead
    <3> QED BY <2>1, <2>2, <2>3, <2>4, <3>1, <3>2 DEF Doors, Up
  <2>5. CASE setting # "none"
    <3>1. Mode = "configured"
      BY <2>5 DEF Mode
    <3>2. Leading(proc'.todo, file')
      BY <2>3, <3>1, ProjectionsLead
    <3> QED BY <2>1, <2>2, <2>3, <2>5, <3>1, <3>2 DEF Doors, Up
  <2> QED BY <2>4, <2>5
<1>13. CASE BootProjects
  <2> DEFINE t == proc.todo
  <2>1. /\ proc.at = "boot" /\ t # <<>> /\ Run(Head(t)) /\ UNCHANGED <<call, setting, answered>>
        /\ t \in Seq(Steps)
    BY <1>0, <1>13 DEF BootProjects, accountVars, Procs
  <2>2. /\ proc'.at = "boot" /\ proc'.mode = proc.mode /\ proc'.todo = Tail(t)
    BY <1>0, <1>13, <2>1 DEF BootProjects, Procs
  <2>3. proc.mode \in {"bootstrap", "configured"}
    BY <2>1 DEF Doors, Down
  <2>4. Submitting'
    BY <1>11, <2>1
  <2>5. CASE proc.mode = "bootstrap"
    <3>1. Opening(t, file)
      BY <2>1, <2>5 DEF Doors
    <3>2. ~answered
      BY <2>1, <2>5 DEF Doors
    <3> HIDE DEF t
    <3>3. Opening(Tail(t), file')
      BY <1>0, <2>1, <3>1, OpeningRuns
    <3> QED BY <2>1, <2>2, <2>4, <2>5, <3>2, <3>3 DEF Doors, Up
  <2>6. CASE proc.mode = "configured"
    <3>1. Leading(t, file) /\ setting # "none"
      BY <2>6 DEF Doors
    <3> HIDE DEF t
    <3>2. /\ Leading(Tail(t), file')
          /\ "bootstrap" \in file' => "bootstrap" \in file
      BY <1>0, <2>1, <3>1, LeadingRuns
    <3> QED BY <2>1, <2>2, <2>4, <2>6, <3>1, <3>2 DEF Doors, Up
  <2> QED BY <2>3, <2>5, <2>6
<1>14. CASE Listen
  <2>1. /\ proc.at = "boot" /\ proc.todo = <<>> /\ UNCHANGED <<call, setting, file, tmp, answered>>
    BY <1>14 DEF Listen, accountVars
  <2>2. proc'.at = "listening" /\ proc'.mode = proc.mode /\ proc'.todo = <<>>
    BY <1>0, <1>14, <2>1 DEF Listen, Procs
  <2>3. proc.mode \in {"bootstrap", "configured"}
    BY <2>1 DEF Doors, Down
  <2>4. Submitting'
    BY <1>11, <2>1
  <2>5. file \cap {"bootstrap", "platform"} # {}
    BY <2>1, <2>3, NothingLeft DEF Doors
  <2> QED BY <2>1, <2>2, <2>3, <2>4, <2>5 DEF Doors, Up
<1>15. CASE DomainScript
  <2>1. setting' = "script" /\ UNCHANGED <<call, proc, file, tmp, answered>>
    BY <1>15 DEF DomainScript, accountVars
  <2>2. Doors'
    BY <2>1 DEF Doors, Up
  <2> QED BY <2>1, <2>2 DEF Submitting, Up
<1>16. CASE UNCHANGED vars \/ (Time /\ UNCHANGED platformVars)
  <2>1. UNCHANGED platformVars /\ UNCHANGED call
    BY <1>16 DEF vars, accountVars, Time, SessionEnds, InviteExpires
  <2> QED BY <1>1, <1>2, <1>3, <2>1
<1> QED BY <1>6, <1>7, <1>9, <1>10, <1>12, <1>13, <1>14, <1>15, <1>16 DEF Next, Process

\* The steps of what is left once the first has been run.
LEMMA Shifted ==
  ASSUME NEW t \in Seq(Steps), t # <<>>
  PROVE  /\ Head(t) = t[1] /\ Tail(t) \in Seq(Steps) /\ Len(Tail(t)) = Len(t) - 1
         /\ \A i \in 1..(Len(t) - 1) : Tail(t)[i] = t[i + 1]
OBVIOUS

\* The first step of two lists, one after the other, is the first of the first.
LEMMA FirstOfBoth ==
  ASSUME NEW s \in Seq(Steps), NEW t \in Seq(Steps), s # <<>>
  PROVE  /\ s \o t # <<>> /\ Head(s \o t) = Head(s)
         /\ Tail(s \o t) = Tail(s) \o t
<1> DEFINE u == s \o t
<1>1. /\ u \in Seq(Steps) /\ Len(u) = Len(s) + Len(t)
      /\ \A i \in 1..Len(s) : u[i] = s[i]
      /\ \A i \in 1..Len(t) : u[i + Len(s)] = t[i]
      /\ Len(s) \in Nat \ {0} /\ Len(t) \in Nat
  OBVIOUS
<1> DEFINE v == Tail(s) \o t
<1>2. /\ Tail(s) \in Seq(Steps) /\ Len(Tail(s)) = Len(s) - 1
      /\ \A i \in 1..(Len(s) - 1) : Tail(s)[i] = s[i + 1]
  OBVIOUS
<1>3. /\ v \in Seq(Steps) /\ Len(v) = Len(s) - 1 + Len(t)
      /\ \A i \in 1..(Len(s) - 1) : v[i] = Tail(s)[i]
      /\ \A i \in 1..Len(t) : v[i + (Len(s) - 1)] = t[i]
  BY <1>1, <1>2
<1> HIDE DEF u, v
<1>4. /\ u # <<>> /\ Head(u) = s[1] /\ Tail(u) \in Seq(Steps) /\ Len(Tail(u)) = Len(u) - 1
      /\ \A i \in 1..(Len(u) - 1) : Tail(u)[i] = u[i + 1]
  <2>1. u \in Seq(Steps) /\ u # <<>> /\ 1 \in 1..Len(s)
    BY <1>1
  <2> QED BY <1>1, <2>1, Shifted
<1>5. ASSUME NEW i \in 1..Len(v) PROVE Tail(u)[i] = v[i]
  <2>1. Tail(u)[i] = u[i + 1]
    BY <1>1, <1>3, <1>4
  <2>2. CASE i <= Len(s) - 1
    BY <1>1, <1>2, <1>3, <2>1, <2>2
  <2>3. CASE i > Len(s) - 1
    <3> DEFINE j == i - (Len(s) - 1)
    <3>1. j \in 1..Len(t) /\ i = j + (Len(s) - 1) /\ i + 1 = j + Len(s)
      BY <1>1, <1>3, <2>3
    <3> HIDE DEF j
    <3>2. v[i] = t[j] /\ u[i + 1] = t[j]
      BY <1>1, <1>3, <3>1
    <3> QED BY <2>1, <3>2
  <2> QED BY <1>1, <1>3, <2>2, <2>3
<1>6. Len(Tail(u)) = Len(v)
  BY <1>1, <1>3, <1>4
<1>7. Tail(u) = v
  BY <1>3, <1>4, <1>5, <1>6, SeqEqual
<1> QED BY <1>4, <1>7 DEF u, v

\* The projection of a configured machine, step by step as far as the
\* console's file is concerned.
LEMMA FirstTheConsole ==
  LET P == Projection("configured")
  IN  /\ P # <<>> /\ Head(P) = [do |-> "write", file |-> "platform"]
      /\ Tail(P) # <<>> /\ Head(Tail(P)) = [do |-> "rename", file |-> "platform"]
      /\ ~Left(Tail(Tail(P)), "rename", "platform")
<1> DEFINE P == Projection("configured")
           way == Write("platform")
           rest == IF Tls THEN Write("redirect") ELSE Drop("redirect")
           end == Drop("bootstrap")
<1>1. \A f \in Files : Write(f) \in Seq(Steps) /\ Drop(f) \in Seq(Steps)
  BY DEF Write, Drop, Steps
<1>2. "bootstrap" \in Files /\ "platform" \in Files /\ "redirect" \in Files
  BY DEF Files
<1>3. /\ way # <<>> /\ Head(way) = [do |-> "write", file |-> "platform"]
      /\ Tail(way) # <<>> /\ Head(Tail(way)) = [do |-> "rename", file |-> "platform"]
      /\ Tail(Tail(way)) = <<>>
  BY DEF Write
<1>4. ~Left(rest, "rename", "platform") /\ ~Left(end, "rename", "platform")
  BY DEF Left, Write, Drop
<1>5. ~Left(<<>>, "rename", "platform") /\ <<>> \in Seq(Steps)
  BY DEF Left
<1>6. P = (way \o rest) \o end
  BY DEF Projection
<1>7. way \in Seq(Steps) /\ Tail(way) \in Seq(Steps) /\ rest \in Seq(Steps) /\ end \in Seq(Steps)
  <2>1. way \in Seq(Steps) /\ end \in Seq(Steps) /\ rest \in Seq(Steps)
    BY <1>1, <1>2
  <2> QED BY <1>3, <2>1, LeftAfter
<1> HIDE DEF P, way, rest, end
<1> DEFINE u == way \o rest
           v == Tail(way) \o rest
           w == <<>> \o rest
           x == v \o end
           y == w \o end
<1>8. /\ u \in Seq(Steps) /\ u # <<>> /\ Head(u) = Head(way) /\ Tail(u) = v
  BY <1>3, <1>7, FirstOfBoth, LeftBoth
<1>9. v \in Seq(Steps)
  BY <1>7, LeftBoth
<1>10. v # <<>> /\ Head(v) = Head(Tail(way)) /\ Tail(v) = w
  <2>1. v # <<>> /\ Head(v) = Head(Tail(way)) /\ Tail(v) = Tail(Tail(way)) \o rest
    BY <1>3, <1>7, FirstOfBoth
  <2> QED BY <1>3, <2>1
<1>11. w \in Seq(Steps) /\ ~Left(w, "rename", "platform")
  BY <1>4, <1>5, <1>7, LeftBoth
<1>12. P = u \o end
  BY <1>6
<1> HIDE DEF u, v, w
<1>13. P # <<>> /\ Head(P) = Head(way) /\ Tail(P) = x
  BY <1>7, <1>8, <1>12, FirstOfBoth
<1>14. x # <<>> /\ Head(x) = Head(Tail(way)) /\ Tail(x) = y
  BY <1>7, <1>9, <1>10, FirstOfBoth
<1>15. ~Left(y, "rename", "platform")
  BY <1>4, <1>7, <1>11, LeftBoth
<1> HIDE DEF x, y
<1> QED BY <1>3, <1>13, <1>14, <1>15 DEF P

\* At boot no submission is left to write beside the projection, so that the
\* console's file a configured process serves behind is its own.
LEMMA WholeKeeps ==
  ASSUME Shaped, Tables, Known, Platform, Doors, Submitting, Whole, [Next]_vars
  PROVE  Whole'
<1>0. proc \in Procs /\ shared \subseteq Files /\ torn \subseteq Files /\ "platform" \in Files
  BY DEF Platform, Files
<1>1. ASSUME UNCHANGED <<shared, torn>>, UNCHANGED proc \/ proc'.mode # "configured" PROVE Whole'
  BY <1>1 DEF Whole, Rewritten
<1>2. ASSUME NEW c \in Calls, Submits(c) PROVE Whole'
  <2>1. CASE SubmitProjects(c)
    <3>1. proc.mode = "bootstrap" /\ UNCHANGED proc
      BY <2>1 DEF SubmitProjects, At, Submitting
    <3> QED BY <3>1 DEF Whole
  <2>2. ASSUME NEW restarts \in BOOLEAN, Finish(c, restarts) PROVE Whole'
    <3>1. proc.mode = "bootstrap"
      BY <2>2 DEF Finish, At, Submitting
    <3>2. proc'.mode = "bootstrap"
      BY <1>0, <2>2, <3>1 DEF Finish, Procs
    <3> QED BY <3>2 DEF Whole
  <2>3. CASE AskSubmit(c) \/ SavePlatformDomains(c) \/ SubmitProjectionFails(c) \/ Answer(c)
    BY <1>1, <2>3 DEF AskSubmit, SavePlatformDomains, SubmitProjectionFails, Answer, platformVars
  <2> QED BY <1>2, <2>1, <2>2, <2>3 DEF Submits
<1>3. CASE Start
  BY <1>3 DEF Start, Whole, Rewritten
<1>4. CASE BootProjects
  <2> DEFINE t == proc.todo
             P == Projection("configured")
  <2>1. /\ proc.at = "boot" /\ t # <<>> /\ t \in Seq(Steps) /\ Run(Head(t))
        /\ proc'.mode = proc.mode /\ proc'.todo = Tail(t)
    BY <1>0, <1>4 DEF BootProjects, Procs
  <2>2. \A f : ~Writing(f)
    BY <2>1 DEF Writing, Submitting, Up
  <2>3. SUFFICES ASSUME proc.mode = "configured" PROVE Rewritten(Tail(t), shared', torn')
    BY <2>1 DEF Whole
  <2>4. Rewritten(t, shared, torn)
    BY <2>3 DEF Whole
  <2>5. Head(t) \in Steps
    BY <2>1, LeftAfter
  <2>6. /\ Head(P) = [do |-> "write", file |-> "platform"]
        /\ Head(Tail(P)) = [do |-> "rename", file |-> "platform"]
        /\ ~Left(Tail(Tail(P)), "rename", "platform")
    BY FirstTheConsole
  <2> HIDE DEF t
  <2>7. CASE t = P
    <3> HIDE DEF P
    <3>1. "platform" \notin shared'
      BY <1>0, <2>1, <2>2, <2>5, <2>6, <2>7, TextMoves
    <3> QED BY <2>7, <3>1 DEF Rewritten, P
  <2>8. CASE t = Tail(P) /\ "platform" \notin shared
    <3> HIDE DEF P
    <3>1. "platform" \notin torn'
      BY <1>0, <2>1, <2>5, <2>6, <2>8, TextMoves
    <3> QED BY <2>6, <2>8, <3>1 DEF Rewritten
  <2>9. CASE ~Left(t, "rename", "platform") /\ "platform" \notin torn
    <3>1. ~Left(Tail(t), "rename", "platform") /\ ~(Head(t).do = "rename" /\ Head(t).file = "platform")
      BY <2>1, <2>9, LeftAfter
    <3>2. "platform" \notin torn'
      BY <1>0, <2>1, <2>5, <2>9, <3>1, TextMoves
    <3> QED BY <3>1, <3>2 DEF Rewritten
  <2> QED BY <2>4, <2>7, <2>8, <2>9 DEF Rewritten
<1>5. CASE Listen
  <2>1. proc'.mode = proc.mode /\ proc'.todo = proc.todo /\ UNCHANGED <<shared, torn>>
    BY <1>0, <1>5 DEF Listen, Procs
  <2> QED BY <2>1 DEF Whole
<1>6. CASE Crash \/ Exit
  <2>1. proc'.mode = "none"
    BY <1>6 DEF Crash, Exit, Down
  <2> QED BY <2>1 DEF Whole
<1>7. CASE DomainScript \/ UNCHANGED vars \/ (Time /\ UNCHANGED platformVars)
  BY <1>1, <1>7 DEF DomainScript, vars, platformVars
<1>8. ASSUME NEW c \in Calls, Serves(c) PROVE Whole'
  BY <1>1, <1>8 DEF Serves, platformVars
<1> QED BY <1>2, <1>3, <1>4, <1>5, <1>6, <1>7, <1>8 DEF Next, Process

-----------------------------------------------------------------------------
(* The theorems.                                                           *)

\* Domains the wizard stored come after an account with a password.
Stored == setting = "wizard" => \E p \in People : user[p].password

\* The invariant: shapes, what calls are about, and what each property needs.
Bounded == asked \in 0..MaxCalls /\ faults \in 0..MaxFaults
SInv ==
    /\ Shaped /\ Tables /\ Known /\ Bounded /\ Platform
    /\ BansHold /\ Settled /\ Counted /\ Stored
    /\ Doors /\ Submitting /\ Whole

\* The wizard writes the domains for an account it has given its password.
LEMMA StoredKeeps ==
  ASSUME Shaped, Tables, Known, Settled, Stored, [Next]_vars
  PROVE  Stored'
<1>1. ASSUME NEW p \in People, user[p].password PROVE Stored'
  <2>1. user'[p].password
    BY <1>1, PasswordMoves
  <2> QED BY <2>1 DEF Stored
<1>2. ASSUME NEW c \in Calls, SavePlatformDomains(c) PROVE Stored'
  <2>1. call[c].at = "save"
    BY <1>2 DEF SavePlatformDomains, At
  <2>2. call[c].who \in People
    BY <2>1 DEF Known, Accounts
  <2>3. user[call[c].who].password
    BY <2>1 DEF Settled, Passwords, Made
  <2> QED BY <1>1, <2>2, <2>3
<1>3. CASE setting' # "wizard"
  BY <1>3 DEF Stored
<1>4. CASE UNCHANGED setting
  BY <1>1, <1>3, <1>4 DEF Stored
<1>5. ASSUME NEW c \in Calls, Submits(c) PROVE Stored'
  BY <1>2, <1>4, <1>5 DEF Submits, AskSubmit, SubmitProjects, SubmitProjectionFails, Answer, Finish, platformVars
<1>6. CASE DomainScript
  BY <1>3, <1>6 DEF DomainScript
<1>7. ASSUME NEW c \in Calls, Serves(c) PROVE Stored'
  BY <1>4, <1>7 DEF Serves, platformVars
<1>8. CASE UNCHANGED vars \/ (Time /\ UNCHANGED platformVars) \/ Process
  BY <1>4, <1>8 DEF vars, platformVars, Process, Start, BootProjects, Listen, Crash, Exit
<1> QED BY <1>5, <1>6, <1>7, <1>8 DEF Next

\* The bounds are bounds.
LEMMA BoundsHold ==
  ASSUME Bounded, [Next]_vars
  PROVE  Bounded'
<1>0. MaxCalls \in Nat /\ MaxFaults \in Nat
  BY AccountsAssumption
<1>1. ASSUME \/ UNCHANGED <<asked, faults>>
             \/ asked < MaxCalls /\ asked' = asked + 1 /\ faults' = faults
             \/ faults < MaxFaults /\ faults' = faults + 1 /\ asked' = asked
      PROVE  Bounded'
  BY <1>0, <1>1 DEF Bounded
<1>2. ASSUME NEW c \in Calls, \/ Refused(c) \/ Ends(c)
                              \/ \E place : Reads(c, place) \/ Goes(c, place)
                              \/ \E op, place, p, i : Begins(c, op, place, p, i)
      PROVE  Bounded'
  BY <1>1, <1>2 DEF Refused, Ends, Reads, Goes, Begins
<1>3. ASSUME NEW c \in Calls, Ask(c) \/ AskSeed(c) \/ AskSubmit(c) PROVE Bounded'
  <2>1. \E op, place, p, i : Begins(c, op, place, p, i)
    BY <1>3 DEF Ask, AskSignIn, AskBan, AskUnban, AskRole, AskInvite, AskRevokeInvite, AskAccept, AskSeed, AskSubmit,
                AdminAsks
  <2> QED BY <1>2, <2>1
<1>4. ASSUME NEW c \in Calls, Statement(c) PROVE Bounded'
  <2>1. CASE CheckSignIn(c) \/ OpenSession(c) \/ SetUserBanned(c) \/ RevokeUserSessions(c) \/ ReadTarget(c)
    BY <1>2, <2>1 DEF CheckSignIn, OpenSession, SetUserBanned, RevokeUserSessions, ReadTarget
  <2>2. CASE SetUserRole(c) \/ LookForAccount(c) \/ LookForPending(c) \/ CreateInvitation(c) \/ DeleteInvitation(c)
    BY <1>2, <2>2 DEF SetUserRole, LookForAccount, LookForPending, CreateInvitation, DeleteInvitation
  <2>3. CASE FindUsable(c) \/ MarkAccepted(c) \/ LookUpEmail(c) \/ CreateUser(c)
    BY <1>2, <2>3 DEF FindUsable, MarkAccepted, LookUpEmail, CreateUser
  <2>4. CASE LinkAccount(c) \/ CountForSeed(c) \/ SeekForSeed(c)
    BY <1>2, <2>4 DEF LinkAccount, CountForSeed, SeekForSeed
  <2>5. CASE CountAdmins(c)
    BY <1>1, <1>2, <2>5 DEF CountAdmins
  <2> QED BY <1>4, <2>1, <2>2, <2>3, <2>4, <2>5 DEF Statement
<1>5. ASSUME NEW c \in Calls, Serves(c) PROVE Bounded'
  BY <1>1, <1>3, <1>4, <1>5 DEF Serves, Fails
<1>6. ASSUME NEW c \in Calls, Submits(c) PROVE Bounded'
  <2>1. CASE SavePlatformDomains(c) \/ SubmitProjects(c)
    BY <1>1, <2>1 DEF SavePlatformDomains, SubmitProjects
  <2>2. CASE SubmitProjectionFails(c) \/ Answer(c) \/ \E restarts \in BOOLEAN : Finish(c, restarts)
    BY <1>2, <2>2 DEF SubmitProjectionFails, Answer, Finish
  <2> QED BY <1>3, <1>6, <2>1, <2>2 DEF Submits
<1>7. CASE UNCHANGED vars \/ Time \/ DomainScript \/ Process
  BY <1>1, <1>7 DEF vars, accountVars, Time, SessionEnds, InviteExpires, DomainScript, Process, Start, BootProjects,
                    Listen, Crash, Exit
<1> QED BY <1>5, <1>6, <1>7 DEF Next

\* A fresh machine and one that serves both begin in the invariant.
LEMMA SInvBegins == Init => SInv
<1> SUFFICES ASSUME Init PROVE SInv
  OBVIOUS
<1>0. Nobody \notin People /\ MaxCalls \in Nat /\ MaxFaults \in Nat
  BY AccountsAssumption
<1>1. \A c \in Calls : call[c] = Idle
  BY DEF Init
<1>2. Shaped /\ Known /\ Submitting /\ Counted /\ Bounded
  <2>1. Shaped
    BY IdleTyped DEF Init, Shaped
  <2>2. Known
    BY <1>1, IdleTyped DEF Known
  <2>3. Submitting /\ Counted
    BY <1>1, IdleTyped DEF Submitting, Counted
  <2>4. Bounded
    BY <1>0 DEF Init, Bounded
  <2> QED BY <2>1, <2>2, <2>3, <2>4
<1>3. Makers /\ Passwords /\ \A c \in Calls : ~At(c, "accept", "mark")
  BY <1>1, IdleTyped DEF Makers, Passwords, Made, At
<1>4. CASE Fresh
  <2>1. Tables
    <3>1. user \in Users
      BY <1>4 DEF Fresh, Users
    <3>2. session \in [Sessions -> Accounts \cup {Nobody}] /\ across \subseteq Open /\ half \subseteq Accounts
      BY <1>4 DEF Fresh, Init
    <3>3. NoRow \in Rows /\ NoRow.state = "free" /\ NoRow.email = Nobody
      BY DEF Rows, NoRow
    <3>4. invite \in [Invites -> Rows] /\ \A i \in Invites : invite[i] = NoRow
      BY <1>4, <3>3 DEF Fresh
    <3> QED BY <3>1, <3>2, <3>3, <3>4 DEF Tables
  <2>2. BansHold
    BY <1>4 DEF Fresh, BansHold, Open
  <2>3. InvitationsSettle
    BY <1>3, <1>4 DEF Fresh, InvitationsSettle, NoRow
  <2>4. Stored /\ Platform
    <3>1. Down \in Procs
      BY DEF Down, Procs
    <3>2. tmp = {} /\ shared = {} /\ torn = {}
      BY DEF Init
    <3> QED BY <1>4, <3>1, <3>2 DEF Fresh, Stored, Platform
  <2>5. Doors /\ Whole
    BY <1>4 DEF Fresh, Doors, Whole, Up, Down
  <2> QED BY <1>2, <1>3, <2>1, <2>2, <2>3, <2>4, <2>5 DEF SInv, Settled
<1>5. CASE Established
  <2>0. \A p \in People : /\ user[p] \in {NoAccount} \cup [role : {"user", "admin"}, password : {TRUE}, banned : {FALSE}]
                          /\ ~user[p].banned /\ (p \in Accounts => user[p].password)
    <3> SUFFICES ASSUME NEW p \in People
                 PROVE  /\ user[p] \in {NoAccount} \cup [role : {"user", "admin"}, password : {TRUE}, banned : {FALSE}]
                        /\ ~user[p].banned /\ (p \in Accounts => user[p].password)
      OBVIOUS
    <3>1. user[p] = NoAccount \/ user[p] \in [role : {"user", "admin"}, password : {TRUE}, banned : {FALSE}]
      BY <1>5 DEF Established
    <3>2. CASE user[p] = NoAccount
      BY <3>2 DEF NoAccount, Accounts
    <3>3. CASE user[p] \in [role : {"user", "admin"}, password : {TRUE}, banned : {FALSE}]
      <4>1. user[p].password = TRUE /\ user[p].banned = FALSE
        BY <3>3
      <4> QED BY <3>3, <4>1
    <3> QED BY <3>1, <3>2, <3>3
  <2>1. Tables
    <3>1. user \in Users
      BY <1>5 DEF Established, Users
    <3>2. session \in [Sessions -> Accounts \cup {Nobody}] /\ across \subseteq Open /\ half \subseteq Accounts
      BY <1>5 DEF Established, Init
    <3>3. NoRow \in Rows /\ NoRow.state = "free" /\ NoRow.email = Nobody
      BY DEF Rows, NoRow
    <3>4. [state : {"open"}, email : People \ Accounts] \subseteq Rows
      BY DEF Rows
    <3>5. invite \in [Invites -> Rows]
      BY <1>5, <3>3, <3>4 DEF Established
    <3>6. ASSUME NEW i \in Invites PROVE invite[i].state = "free" <=> invite[i].email = Nobody
      BY <1>0, <1>5, <3>3 DEF Established
    <3> QED BY <3>1, <3>2, <3>5, <3>6 DEF Tables
  <2>2. BansHold
    BY <2>0, <1>5 DEF Established, BansHold, Open, Accounts
  <2>3. InvitationsSettle
    BY <1>3, <1>5 DEF Established, InvitationsSettle, NoRow
  <2>4. Stored
    BY <2>0, <1>5 DEF Established, Stored, Admins, Accounts
  <2>5. Platform
    BY <1>5 DEF Established, Platform, Init, Procs, Files
  <2>6. Doors
    <3>1. "platform" \in file /\ "bootstrap" \notin file
      BY <1>5 DEF Established
    <3>2. proc.at = "listening" /\ proc.mode = "configured" /\ proc.todo = <<>> /\ setting = "wizard"
      BY <1>5 DEF Established
    <3> QED BY <3>1, <3>2, NothingLeft DEF Doors, Up, Down
  <2>7. Whole
    <3>1. proc.todo = <<>> /\ torn = {}
      BY <1>5 DEF Established, Init
    <3> QED BY <3>1 DEF Whole, Rewritten, Left
  <2> QED BY <1>2, <1>3, <2>1, <2>2, <2>3, <2>4, <2>5, <2>6, <2>7 DEF SInv, Settled
<1> QED BY <1>4, <1>5 DEF Init

\* Every step keeps it.
LEMMA SInvKeeps == SInv /\ [Next]_vars => SInv'
<1> SUFFICES ASSUME SInv, [Next]_vars PROVE SInv'
  OBVIOUS
<1>1. /\ Shaped /\ Tables /\ Known /\ Bounded /\ Platform
      /\ BansHold /\ Settled /\ Counted /\ Stored /\ Doors /\ Submitting /\ Whole
  BY DEF SInv
<1>2. Shaped' /\ Tables' /\ Known'
  BY <1>1, NextMoves, TablesHold, KnownHolds
<1>3. Bounded' /\ Platform'
  BY <1>1, BoundsHold, PlatformHolds
<1>4. BansHold' /\ Settled' /\ Counted' /\ Stored'
  BY <1>1, BansKeep, SettledKeeps, CountedKeeps, StoredKeeps
<1>5. Doors' /\ Submitting' /\ Whole'
  BY <1>1, DoorsKeep, WholeKeeps
<1> QED BY <1>2, <1>3, <1>4, <1>5 DEF SInv

\* The invariant holds all the way.
LEMMA SInvHolds == Spec => []SInv
  BY SInvBegins, SInvKeeps, PTL DEF Spec

\* The tables of user-repo.ts and invitation-repo.ts, the calls of app.ts and
\* the process of index.ts keep their shapes, for any number of people,
\* sessions, invitations and calls.
THEOREM TypeCorrect == Spec => []TypeOK
<1>1. SInv => TypeOK
  <2> SUFFICES ASSUME SInv PROVE TypeOK
    OBVIOUS
  <2>1. Shaped /\ Tables /\ Known /\ Bounded /\ Platform
    BY DEF SInv
  <2>2. ASSUME NEW i \in Invites
        PROVE  /\ invite[i].email \in People \cup {Nobody}
               /\ invite[i].state \in {"free", "open", "expired", "accepted", "revoked"}
               /\ invite[i].state = "free" <=> invite[i].email = Nobody
    BY <2>1 DEF Tables, Rows
  <2>3. ASSUME NEW c \in Calls
        PROVE  /\ call[c].who \in People \cup {Nobody} /\ call[c].inv \in Invites \cup {NoInvite}
               /\ call[c].seen \in Nat /\ call[c].todo \in Seq(Steps)
               /\ call[c].at \in {"flag", "revoke", "target", "count", "role", "link"} =>
                    call[c].who \in People
    <3>1. call[c] \in Requests
      BY <2>1 DEF Shaped
    <3>2. call[c].at \in {"flag", "revoke", "target", "count", "role", "link"} => call[c].who \in People
      BY <2>1 DEF Known, Accounts
    <3> QED BY <3>1, <3>2 DEF Requests
  <2>4. /\ user \in [People -> {NoAccount} \cup
                       [role : {"user", "admin"}, password : BOOLEAN, banned : BOOLEAN]]
        /\ session \in [Sessions -> Accounts \cup {Nobody}]
        /\ across \subseteq Open /\ half \subseteq Accounts
    BY <2>1 DEF Tables, Users
  <2>5. /\ setting \in {"none", "wizard", "script"}
        /\ proc.at \in {"down", "boot", "listening", "closing"} /\ proc.todo \in Seq(Steps)
        /\ file \subseteq Files /\ tmp \subseteq Files
        /\ shared \subseteq Files /\ torn \subseteq Files
        /\ answered \in BOOLEAN
    BY <2>1 DEF Platform, Procs
  <2> QED BY <2>1, <2>2, <2>3, <2>4, <2>5 DEF TypeOK, Bounded
<1> QED BY <1>1, SInvHolds, PTL

\* A ban holds whatever else is written between its two statements, and a
\* session that outlives it is one of a sign-in that raced it or of a ban cut
\* in half (setUserBanned, revokeUserSessions).
THEOREM BansAlwaysHold == Spec => []BansHold
<1>1. SInv => BansHold
  BY DEF SInv
<1> QED BY <1>1, SInvHolds, PTL

\* Of any number of visitors of one link one gets the account, and nobody who
\* has made it is turned away at the mark (invitation.ts, the unique key of
\* the address).
THEOREM InvitationsAlwaysSettle == Spec => []InvitationsSettle
<1>1. SInv => InvitationsSettle
  BY DEF SInv, Settled
<1> QED BY <1>1, SInvHolds, PTL

\* The wizard stores no domains for a machine nobody can sign in to
\* (setup-routes.ts: createAdmin, then saveDomains).
THEOREM DomainsAlwaysComeWithAccount == Spec => []DomainsComeWithAccount
<1>1. SInv => DomainsComeWithAccount
  BY DEF SInv, Stored, Settled, Passwords, Made, DomainsComeWithAccount
<1> QED BY <1>1, SInvHolds, PTL

\* The door is right through crashes, restarts and submissions that write the
\* same files at once: the order of projectPlatformRoutes is enough for it.
THEOREM DoorAlwaysRight == Spec => []DoorIsRight
<1>1. SInv => DoorIsRight
  <2> SUFFICES ASSUME Doors, Whole PROVE DoorIsRight
    BY DEF SInv
  <2>1. Listening("configured") => "bootstrap" \notin file /\ "platform" \in file
    BY NothingLeft DEF Doors, Up, Listening
  <2>2. ASSUME Listening("configured") PROVE "platform" \notin torn
    <3>1. proc.todo = <<>> /\ Rewritten(<<>>, shared, torn)
      BY <2>2 DEF Doors, Whole, Up, Listening
    <3> QED BY <3>1, FirstTheConsole DEF Rewritten
  <2> QED BY <2>1, <2>2 DEF Doors, Up, DoorIsRight
<1> QED BY <1>1, SInvHolds, PTL

\* The guard of setRole lets the last administrator go only on a stale read.
THEOREM LastAdminAlwaysStays == Spec => LastAdminStays
<1>1. SInv /\ [Next]_vars =>
        [(Admins # {} /\ Admins' = {}) =>
           \E c \in Calls : At(c, "demote", "role") /\ call[c].seen # Cardinality(Admins)]_user
  <2> SUFFICES ASSUME SInv, [Next]_vars, Admins # {}, Admins' = {}
               PROVE  \E c \in Calls : At(c, "demote", "role") /\ call[c].seen # Cardinality(Admins)
    OBVIOUS
  <2> QED BY LastOneStays DEF SInv
<1> QED BY <1>1, SInvHolds, PTL DEF Spec, LastAdminStays
=============================================================================
