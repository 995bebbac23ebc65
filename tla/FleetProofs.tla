---------------------------- MODULE FleetProofs ----------------------------
(***************************************************************************)
(* What module Fleet promises, for any number of workspaces, names, owners, *)
(* versions, requests and ports.  The invariant FInv has three parts that   *)
(* hardly meet:                                                            *)
(*   Requested  what a request is about, and that a version which a         *)
(*     setDefault goes over to is published or was taken back meanwhile;    *)
(*   Working  the rows hold ports and names of their own, a container is    *)
(*     where its row says, the container still being made for nobody is     *)
(*     where no other row is, and what the running operation relies on at   *)
(*     each of its steps;                                                  *)
(*   Filed  a projection that nobody overlaps has the temporary file for     *)
(*     itself, and routes.yml is a file that nobody writes.                 *)
(***************************************************************************)
EXTENDS Fleet, FiniteSetTheorems, TLAPS

\* Requests that are about a version.
About == {"publish", "publish_reads", "publish_inserts", "unpublish", "default",
          "pull", "pull_opens", "pull_streams"} \cup Defaulting

Requested ==
    /\ ReleasesOK
    /\ \A c \in Calls :
         /\ admin[c].at \in About => admin[c].ref \in Refs
         /\ admin[c].at \in Defaulting /\ admin[c].ref \notin published => admin[c].gone

\* Where an operation may stand, and where it needs its workspace alive.
Works == {"prepare", "allocate", "probe", "make", "save", "start", "started", "stop", "stopped",
          "removing", "rm_stop", "retain"}
Places == Works \cup {"idle", "fail", "sync"}
Nexts == {"idle", "thrown", "rm_stop"}

Operations ==
    [at : Places, do : {"none", "create", "restart", "start", "stop", "remove"},
     id : Ids \cup {None}, taken : SUBSET Ports, port : 0..(LastPort + 1),
     bare : BOOLEAN, then : Nexts]

Machines == [state : {"absent", "down", "running"}, port : Ports \cup {NoPort}]

Alive(r) == {i \in Ids : r[i].status \notin {"none", "retained"}}
IsUp(m, s) == m[s].state = "running"

\* A row is unused, or of a workspace that was once made; what it holds.
FilledRow(x) ==
    /\ x.status # "none" /\ x.slug \in Slugs /\ x.owner \in Owners /\ x.image \in Refs
    /\ x.cid => x.port # NoPort

RowsKept(r) ==
    /\ r \in [Ids -> Rows]
    /\ \A i \in Ids : r[i] = NoRow \/ FilledRow(r[i])
    /\ \A i, j \in Alive(r) : i # j =>
          r[i].slug # r[j].slug /\ (r[i].port = r[j].port => r[i].port = NoPort)
    /\ \A i, j \in Ids : r[i].slug = r[j].slug => r[i].owner = r[j].owner

\* A container is where its row says, and answers at no other row's port.
AtHome(r, m) ==
    /\ m \in [Slugs -> Machines]
    /\ \A i \in Alive(r) : r[i].port # NoPort =>
         /\ m[r[i].slug].state # "absent" => m[r[i].slug].port = r[i].port
         /\ \A s \in Slugs : IsUp(m, s) /\ m[s].port = r[i].port => s = r[i].slug

\* A container is being made for nobody: where no other row is.
Orphan(r, j) ==
    /\ j \in Rows
    /\ j # NoRow =>
         /\ j.slug \in Slugs /\ j.port \in Ports
         /\ \A i \in Alive(r) : r[i].port # NoPort => (r[i].port = j.port <=> r[i].slug = j.slug)

\* The port the operation goes for is no other workspace's.
Chosen(r, o) ==
    /\ o.port \in Ports
    /\ r[o.id].port \in {NoPort, o.port}
    /\ \A i \in Alive(r) \ {o.id} : r[i].port # o.port

\* What the operation relies on at each of its steps.
Relies(o, r, m, j) ==
    /\ o.at = "idle" => o = NoOp
    /\ o.at # "idle" => o.id \in Ids
    /\ o.at \in Works \/ (o.at = "sync" /\ o.then = "rm_stop") => o.id \in Alive(r)
    /\ o.at \in {"allocate", "probe"} => r[o.id].port = NoPort
    /\ o.at = "probe" => o.port # 0 /\ \A i \in Alive(r) : r[i].port # NoPort => r[i].port \in o.taken
    /\ o.at \in {"make", "save"} => Chosen(r, o)
    /\ o.at = "save" =>
         /\ j = NoRow
         /\ m[r[o.id].slug].state # "absent" => m[r[o.id].slug].port = o.port
         /\ \A s \in Slugs : IsUp(m, s) /\ m[s].port = o.port => s = r[o.id].slug
    /\ o.at = "start" => r[o.id].cid

Working ==
    /\ RowsKept(rows) /\ AtHome(rows, machine) /\ Orphan(rows, job)
    /\ foreign \in SUBSET Ports
    /\ op \in Operations /\ Relies(op, rows, machine, job)

Projections == [at : {"off", "read", "open", "write", "rename"}, want : SUBSET Slugs,
                fd : Inodes \cup {None}, alone : BOOLEAN]
Texts == [kind : {"whole", "empty", "torn"}, slugs : SUBSET Slugs]

Busied(p, x) == p[x].at \in {"write", "rename"}

\* The files of a projection alone, and of the proxy.
Filed(p, t, c, x, s) ==
    /\ p \in [Projectors -> Projections]
    /\ t \in Inodes \cup {None} /\ c \in Inodes /\ x \in [Inodes -> Texts] /\ s \in BOOLEAN
    /\ t # c
    /\ \A y \in Projectors :
         /\ p[y].at = "write" <=> p[y].fd # None
         /\ \A z \in Projectors : y # z /\ Busied(p, y) /\ Busied(p, z) => ~p[y].alone
         /\ p[y].at = "write" /\ p[y].alone => t = p[y].fd /\ x[t].kind = "empty"
         /\ p[y].at = "rename" /\ p[y].alone => t # None /\ x[t].kind = "whole"
         /\ s => p[y].fd # c
    /\ s => x[c].kind = "whole"

Files == Filed(proj, tmp, conf, text, settled)

\* The queue projects only for an operation that waits for it.
Awaited == proj["queue"].at # "off" => op.at = "sync"

FInv == Requested /\ Working /\ Files /\ Awaited


-----------------------------------------------------------------------------
(* Requests.                                                               *)

Asked == [at : Points, ref : Refs \cup {None}, seen : SUBSET Refs,
          none : BOOLEAN, held : BOOLEAN, left : BOOLEAN, gone : BOOLEAN]

\* What a request may be when the versions in p are published.
Sound(x, p) ==
    /\ x \in Asked
    /\ x.at \in About => x.ref \in Refs
    /\ x.at \in Defaulting /\ x.ref \notin p => x.gone

\* No request is a sound one.
LEMMA NoCallSound == \A p : Sound(NoCall, p)
  BY DEF Sound, NoCall, Asked, Points, About, Defaulting

\* A request that moves alone, where no version is taken back.
LEMMA CallMoves ==
  ASSUME Requested, NEW c \in Calls, NEW x, admin' = [admin EXCEPT ![c] = x], Sound(x, published'),
         published \subseteq published', published' \in SUBSET Refs,
         default' \in published' \cup {None}, catalog' \in SUBSET Refs, local' \in SUBSET Refs,
         called' \in 0..MaxCalls, faults' \in 0..MaxFaults
  PROVE  Requested'
<1>1. admin \in [Calls -> Asked]
  BY DEF Requested, ReleasesOK, Asked
<1>2. admin' \in [Calls -> Asked] /\ admin'[c] = x /\ \A d \in Calls \ {c} : admin'[d] = admin[d]
  BY <1>1 DEF Sound
<1>3. ReleasesOK'
  BY <1>2 DEF ReleasesOK, Asked
<1>4. ASSUME NEW d \in Calls
      PROVE  /\ admin'[d].at \in About => admin'[d].ref \in Refs
             /\ admin'[d].at \in Defaulting /\ admin'[d].ref \notin published' => admin'[d].gone
  <2>1. CASE d = c
    BY <1>2, <2>1 DEF Sound
  <2>2. CASE d # c
    BY <1>2, <2>2 DEF Requested
  <2> QED BY <2>1, <2>2
<1> QED BY <1>3, <1>4 DEF Requested

\* The bounds on requests and faults.
LEMMA Bounds ==
  /\ \A n \in Nat : called \in 0..MaxCalls /\ Costs(n) => called' \in 0..MaxCalls
  /\ faults \in 0..MaxFaults /\ Fault => faults' \in 0..MaxFaults
  BY ReleasesAssumption DEF Costs, Fault

\* A change that leaves the requests alone, and adds to the images at most.
LEMMA RequestsRest ==
  ASSUME Requested, UNCHANGED <<tables, admin>>, local' \in SUBSET Refs,
         called' \in 0..MaxCalls, faults' \in 0..MaxFaults
  PROVE  Requested'
  BY DEF Requested, ReleasesOK, tables

\* A new request.
LEMMA AskMoves ==
  ASSUME Requested, NEW c \in Calls, NEW x, Asks(c, x), Sound(x, published)
  PROVE  Requested'
<1>1. called' \in 0..MaxCalls
  BY Bounds DEF Requested, ReleasesOK, Asks
<1>2. /\ admin' = [admin EXCEPT ![c] = x] /\ published' = published /\ default' = default
      /\ catalog' = catalog /\ local' = local /\ faults' = faults
  BY DEF Asks, tables
<1>3. ReleasesOK
  BY DEF Requested
<1>4. /\ published' \in SUBSET Refs /\ default' \in published' \cup {None} /\ catalog' \in SUBSET Refs
      /\ local' \in SUBSET Refs /\ faults' \in 0..MaxFaults
  BY <1>2, <1>3 DEF ReleasesOK
<1>5. Sound(x, published')
  BY <1>2 DEF Sound
<1> QED BY <1>1, <1>2, <1>4, <1>5, CallMoves

\* A request as it stands is sound.
LEMMA SoundNow == ASSUME Requested, NEW c \in Calls PROVE Sound(admin[c], published)
  BY DEF Requested, ReleasesOK, Sound, Asked

\* What a request is when it goes on to another place.
LEMMA SoundMoves ==
  ASSUME NEW p, NEW x, Sound(x, p), NEW at \in Points,
         at \in Defaulting => x.ref \in p \/ x.at \in Defaulting,
         at \in About => x.at \in About
  PROVE  Sound([x EXCEPT !.at = at], p)
<1>1. [x EXCEPT !.at = at] \in Asked /\ [x EXCEPT !.at = at].at = at
      /\ [x EXCEPT !.at = at].ref = x.ref /\ [x EXCEPT !.at = at].gone = x.gone
  BY DEF Sound, Asked
<1> QED BY <1>1 DEF Sound


\* A request of its own that changes no table goes on or ends.
LEMMA GoesMoves ==
  ASSUME Requested, NEW c \in Calls, NEW x, Sound(x, published), Goes(c, x), UNCHANGED tables,
         local' \in SUBSET Refs, faults' = faults \/ Fault
  PROVE  Requested'
<1>1. ReleasesOK
  BY DEF Requested
<1>2. /\ published' = published /\ default' = default /\ catalog' = catalog /\ called' = called
      /\ admin' = [admin EXCEPT ![c] = x]
  BY DEF Goes, tables
<1>3. /\ published' \in SUBSET Refs /\ default' \in published' \cup {None} /\ catalog' \in SUBSET Refs
      /\ called' \in 0..MaxCalls /\ published \subseteq published'
  BY <1>1, <1>2 DEF ReleasesOK
<1>4. faults' \in 0..MaxFaults
  BY <1>1, Bounds DEF ReleasesOK
<1>5. Sound(x, published')
  BY <1>2
<1> QED BY <1>2, <1>3, <1>4, <1>5, CallMoves

\* Publishing.
LEMMA PublishMoves ==
  ASSUME Requested, NEW c \in Calls, Publishing(c)
  PROVE  Requested'
<1>0. Sound(admin[c], published) /\ ReleasesOK /\ local \in SUBSET Refs
  BY SoundNow DEF Requested, ReleasesOK
<1>1. CASE PublishChecks(c)
  <2>1. local' \in SUBSET Refs /\ UNCHANGED tables /\ (faults' = faults \/ Fault)
    BY <1>0, <1>1 DEF PublishChecks
  <2>2. CASE Ends(c)
    BY <2>1, <2>2, NoCallSound, GoesMoves DEF Ends
  <2>3. CASE admin[c].at = "publish" /\ Goes(c, [admin[c] EXCEPT !.at = "publish_reads"])
    <3>1. Sound([admin[c] EXCEPT !.at = "publish_reads"], published)
      BY <1>0, <2>3, SoundMoves DEF About, Defaulting, Points
    <3> QED BY <2>1, <2>3, <3>1, GoesMoves
  <2> QED BY <1>1, <2>2, <2>3 DEF PublishChecks
<1>2. CASE PublishReads(c)
  <2> DEFINE x == [admin[c] EXCEPT !.at = "publish_inserts", !.none = (default = None)]
  <2>1. Sound(x, published)
    BY <1>0, <1>2 DEF PublishReads, Sound, Asked, Points, About, Defaulting
  <2>2. Goes(c, x) /\ UNCHANGED tables /\ local' \in SUBSET Refs /\ faults' = faults
    BY <1>0, <1>2 DEF PublishReads
  <2> HIDE DEF x
  <2> QED BY <2>1, <2>2, GoesMoves
<1>3. CASE PublishInserts(c)
  <2>1. admin[c].ref \in Refs
    BY <1>0, <1>3 DEF PublishInserts, Sound, About
  <2>2. admin' = [admin EXCEPT ![c] = NoCall] /\ called' = called
    BY <1>3 DEF PublishInserts, Ends, Goes
  <2>3. /\ published \subseteq published' /\ published' \in SUBSET Refs
        /\ default' \in published' \cup {None}
    BY <1>0, <1>3, <2>1 DEF PublishInserts, ReleasesOK
  <2>4. catalog' \in SUBSET Refs /\ local' \in SUBSET Refs /\ called' \in 0..MaxCalls /\ faults' \in 0..MaxFaults
    BY <1>0, <1>3, <2>2 DEF PublishInserts, ReleasesOK
  <2>5. Sound(NoCall, published')
    BY NoCallSound
  <2> QED BY <2>2, <2>3, <2>4, <2>5, CallMoves
<1> QED BY <1>1, <1>2, <1>3 DEF Publishing

\* Taking a version back marks the requests that are going over to it.
LEMMA UnpublishMoves ==
  ASSUME Requested, NEW c \in Calls, Unpublish(c)
  PROVE  Requested'
<1>0. /\ ReleasesOK /\ admin \in [Calls -> Asked]
      /\ UNCHANGED <<default, catalog, local, called, faults>>
  BY DEF Requested, ReleasesOK, Asked, Unpublish
<1>1. CASE /\ admin[c].ref \in published /\ admin[c].ref # default
           /\ published' = published \ {admin[c].ref} /\ admin' = Missed(c, admin[c].ref)
  <2> DEFINE r == admin[c].ref
  <2>1. \A d \in Calls : admin'[d] = IF d = c THEN NoCall
                     ELSE IF admin[d].at \in Defaulting /\ admin[d].ref = r
                     THEN [admin[d] EXCEPT !.gone = TRUE] ELSE admin[d]
    BY <1>1 DEF Missed
  <2>2. ASSUME NEW d \in Calls PROVE Sound(admin'[d], published')
    <3>1. Sound(admin[d], published)
      BY SoundNow
    <3>2. CASE d = c
      BY <2>1, <3>2, NoCallSound
    <3>3. CASE d # c /\ admin[d].at \in Defaulting /\ admin[d].ref = r
      <4>1. admin'[d] = [admin[d] EXCEPT !.gone = TRUE]
        BY <2>1, <3>3
      <4> QED BY <3>1, <4>1 DEF Sound, Asked
    <3>4. CASE d # c /\ ~(admin[d].at \in Defaulting /\ admin[d].ref = r)
      <4>1. admin'[d] = admin[d]
        BY <2>1, <3>4
      <4>2. Sound(admin[d], published')
        BY <1>1, <3>1, <3>4 DEF Sound
      <4> QED BY <4>1, <4>2
    <3> QED BY <3>2, <3>3, <3>4
  <2>3. admin' \in [Calls -> Asked]
    <3>1. admin' = [d \in Calls |-> admin'[d]]
      BY <1>1 DEF Missed
    <3> QED BY <2>2, <3>1 DEF Sound
  <2>4. ReleasesOK'
    BY <1>0, <1>1, <2>3 DEF ReleasesOK, Asked
  <2> QED BY <2>2, <2>4 DEF Requested, Sound
<1>2. CASE admin' = [admin EXCEPT ![c] = NoCall] /\ UNCHANGED published
  <2>1. Goes(c, NoCall) /\ UNCHANGED tables /\ local' \in SUBSET Refs /\ faults' = faults
    BY <1>0, <1>2 DEF Goes, tables, ReleasesOK
  <2> QED BY <2>1, NoCallSound, GoesMoves
<1> QED BY <1>1, <1>2 DEF Unpublish

\* A request whose end lets the transactions behind it go on.
LEMMA ReleaseMoves ==
  ASSUME Requested, NEW c \in Calls, NEW d, admin' = Released(c, d),
         UNCHANGED <<published, catalog, local, called>>, faults' = faults \/ Fault,
         default' \in published \cup {None}
  PROVE  Requested'
<1>0. ReleasesOK
  BY DEF Requested
<1>1. ASSUME NEW x \in Calls PROVE Sound(admin'[x], published')
  <2>0. Sound(admin[x], published) /\ published' = published
    BY SoundNow
  <2>1. CASE x = c
    <3>1. admin'[x] = NoCall
      BY <2>1 DEF Released
    <3> QED BY <3>1, NoCallSound
  <2>2. CASE x # c /\ admin[c].held /\ admin[x].at = "default_waits"
    <3> DEFINE at == IF d = default THEN "default_clears" ELSE "default_marks"
    <3>1. admin'[x] = [admin[x] EXCEPT !.at = at]
      BY <2>2 DEF Released
    <3>2. at \in Points /\ admin[x].at \in Defaulting /\ admin[x].at \in About
      BY <2>2 DEF Points, Defaulting, About
    <3> HIDE DEF at
    <3>3. Sound([admin[x] EXCEPT !.at = at], published)
      BY <2>0, <3>2, SoundMoves
    <3> QED BY <2>0, <3>1, <3>3
  <2>3. CASE x # c /\ ~(admin[c].held /\ admin[x].at = "default_waits")
    <3>1. admin'[x] = admin[x]
      BY <2>3 DEF Released
    <3> QED BY <2>0, <3>1
  <2> QED BY <2>1, <2>2, <2>3
<1>2. admin' \in [Calls -> Asked]
  <2>1. admin' = [x \in Calls |-> admin'[x]]
    BY DEF Released
  <2> QED BY <1>1, <2>1 DEF Sound
<1>3. faults' \in 0..MaxFaults
  BY <1>0, Bounds DEF ReleasesOK
<1>4. ReleasesOK'
  BY <1>0, <1>2, <1>3 DEF ReleasesOK, Asked
<1> QED BY <1>1, <1>4 DEF Requested, Sound

\* The default after setDefault's last statement is published, or none.
LEMMA MarkIsPublished ==
  ASSUME Requested, NEW c \in Calls, admin[c].at = "default_marks"
  PROVE  AfterMark(c) \in published \cup {None}
  BY DEF Requested, ReleasesOK, AfterMark

\* Changing the default.
LEMMA DefaultMoves ==
  ASSUME Requested, NEW c \in Calls, SettingDefault(c)
  PROVE  Requested'
<1>0. Sound(admin[c], published) /\ ReleasesOK
  BY SoundNow DEF Requested
<1>1. CASE DefaultLooks(c)
  <2>1. UNCHANGED tables /\ local' \in SUBSET Refs /\ faults' = faults
    BY <1>0, <1>1 DEF DefaultLooks, ReleasesOK
  <2>2. CASE Ends(c)
    BY <2>1, <2>2, NoCallSound, GoesMoves DEF Ends
  <2>3. CASE admin[c].ref \in published /\ Goes(c, [admin[c] EXCEPT !.at = "default_clears"])
    <3>1. Sound([admin[c] EXCEPT !.at = "default_clears"], published)
      BY <1>0, <1>1, <2>3, SoundMoves DEF DefaultLooks, About, Defaulting, Points
    <3> QED BY <2>1, <2>3, <3>1, GoesMoves
  <2> QED BY <1>1, <2>2, <2>3 DEF DefaultLooks
<1>2. CASE DefaultClears(c)
  <2>1. UNCHANGED tables /\ local' \in SUBSET Refs /\ faults' = faults
    BY <1>0, <1>2 DEF DefaultClears, ReleasesOK
  <2>2. CASE Goes(c, [admin[c] EXCEPT !.at = "default_waits"])
    <3>1. Sound([admin[c] EXCEPT !.at = "default_waits"], published)
      BY <1>0, <1>2, SoundMoves DEF DefaultClears, About, Defaulting, Points
    <3> QED BY <2>1, <2>2, <3>1, GoesMoves
  <2>3. CASE Goes(c, [admin[c] EXCEPT !.at = "default_marks", !.held = (default # None)])
    <3>1. Sound([admin[c] EXCEPT !.at = "default_marks", !.held = (default # None)], published)
      BY <1>0, <1>2 DEF DefaultClears, About, Defaulting, Points, Sound, Asked
    <3> QED BY <2>1, <2>3, <3>1, GoesMoves
  <2> QED BY <1>2, <2>2, <2>3 DEF DefaultClears
<1>3. CASE DefaultMarks(c)
  <2>1. default' \in published \cup {None} /\ admin' = Released(c, default')
        /\ UNCHANGED <<published, catalog, local, called>> /\ faults' = faults
    BY <1>3, MarkIsPublished DEF DefaultMarks
  <2> QED BY <2>1, ReleaseMoves
<1>4. CASE DefaultFails(c)
  <2>1. default' \in published \cup {None} /\ admin' = Released(c, default)
        /\ UNCHANGED <<published, catalog, local, called>> /\ Fault
    BY <1>0, <1>4 DEF DefaultFails, tables, ReleasesOK
  <2> QED BY <2>1, ReleaseMoves
<1> QED BY <1>1, <1>2, <1>3, <1>4 DEF SettingDefault

\* Synchronising the snapshot of the registry.
LEMMA SyncMoves ==
  ASSUME Requested, NEW c \in Calls, Synchronising(c)
  PROVE  Requested'
<1>0. Sound(admin[c], published) /\ ReleasesOK
  BY SoundNow DEF Requested
<1>1. ASSUME NEW seen \in SUBSET Refs, SyncReads(c, seen) PROVE Requested'
  <2>1. UNCHANGED tables /\ local' \in SUBSET Refs /\ (faults' = faults \/ Fault)
    BY <1>0, <1>1 DEF SyncReads, ReleasesOK
  <2>2. CASE Ends(c)
    BY <2>1, <2>2, NoCallSound, GoesMoves DEF Ends
  <2>3. CASE Goes(c, [admin[c] EXCEPT !.at = "sync_saves", !.seen = seen])
    <3>1. Sound([admin[c] EXCEPT !.at = "sync_saves", !.seen = seen], published)
      BY <1>0 DEF Sound, Asked, Points, About, Defaulting
    <3> QED BY <2>1, <2>3, <3>1, GoesMoves
  <2> QED BY <1>1, <2>2, <2>3 DEF SyncReads
<1>2. admin[c].seen \in SUBSET Refs
  BY <1>0 DEF Sound, Asked
<1>3. CASE SyncSaves(c)
  <2> DEFINE x == [admin[c] EXCEPT !.at = "sync_prunes"]
  <2>1. Sound(x, published)
    BY <1>0, SoundMoves DEF Points, About, Defaulting
  <2>2. admin' = [admin EXCEPT ![c] = x] /\ UNCHANGED <<published, default, local, faults, called>>
        /\ catalog' = catalog \cup admin[c].seen
    BY <1>3 DEF SyncSaves, Goes
  <2>3. /\ published \subseteq published' /\ published' \in SUBSET Refs /\ default' \in published' \cup {None}
        /\ catalog' \in SUBSET Refs /\ local' \in SUBSET Refs /\ called' \in 0..MaxCalls /\ faults' \in 0..MaxFaults
    BY <1>0, <1>2, <2>2 DEF ReleasesOK
  <2>4. Sound(x, published')
    BY <2>1, <2>2
  <2> HIDE DEF x
  <2> QED BY <2>2, <2>3, <2>4, CallMoves
<1>4. CASE SyncPrunes(c)
  <2>2. admin' = [admin EXCEPT ![c] = NoCall] /\ UNCHANGED <<published, default, local, faults, called>>
        /\ catalog' = catalog \cap admin[c].seen
    BY <1>4 DEF SyncPrunes, Goes, Ends
  <2>3. /\ published \subseteq published' /\ published' \in SUBSET Refs /\ default' \in published' \cup {None}
        /\ catalog' \in SUBSET Refs /\ local' \in SUBSET Refs /\ called' \in 0..MaxCalls /\ faults' \in 0..MaxFaults
    BY <1>0, <1>2, <2>2 DEF ReleasesOK
  <2>4. Sound(NoCall, published')
    BY NoCallSound
  <2> QED BY <2>2, <2>3, <2>4, CallMoves
<1> QED BY <1>1, <1>3, <1>4 DEF Synchronising

\* Downloading an image.
LEMMA PullMoves ==
  ASSUME Requested, NEW c \in Calls, NEW busy, PullSteps(c, busy)
  PROVE  Requested'
<1>0. Sound(admin[c], published) /\ ReleasesOK
  BY SoundNow DEF Requested
<1>1. CASE PullBegins(c, busy)
  <2>1. UNCHANGED tables /\ local' \in SUBSET Refs /\ faults' = faults
    BY <1>0, <1>1 DEF PullBegins, ReleasesOK
  <2>2. Sound([admin[c] EXCEPT !.at = "pull_opens"], published)
    BY <1>0, <1>1, SoundMoves DEF PullBegins, Points, About, Defaulting
  <2> QED BY <1>1, <2>1, <2>2, NoCallSound, GoesMoves DEF PullBegins, Ends
<1>2. CASE PullOpens(c)
  <2>1. UNCHANGED tables /\ local' \in SUBSET Refs /\ faults' = faults
    BY <1>0, <1>2 DEF PullOpens, ReleasesOK
  <2>2. Sound([admin[c] EXCEPT !.at = "pull_streams"], published)
    BY <1>0, <1>2, SoundMoves DEF PullOpens, Points, About, Defaulting
  <2> QED BY <1>2, <2>1, <2>2, NoCallSound, GoesMoves DEF PullOpens, Ends
<1>3. CASE BrowserLeaves(c)
  <2>1. UNCHANGED tables /\ local' \in SUBSET Refs /\ faults' = faults
    BY <1>0, <1>3 DEF BrowserLeaves, ReleasesOK
  <2>2. Sound([admin[c] EXCEPT !.left = TRUE], published)
    BY <1>0 DEF Sound, Asked
  <2> QED BY <1>3, <2>1, <2>2, NoCallSound, GoesMoves DEF BrowserLeaves, Ends
<1>4. CASE PullEnds(c)
  <2>1. admin[c].ref \in Refs
    BY <1>0, <1>4 DEF PullEnds, Sound, About
  <2>2. UNCHANGED tables /\ local' \in SUBSET Refs /\ (faults' = faults \/ Fault) /\ Goes(c, NoCall)
    BY <1>0, <1>4, <2>1 DEF PullEnds, ReleasesOK, Ends
  <2> QED BY <2>2, NoCallSound, GoesMoves
<1> QED BY <1>1, <1>2, <1>3, <1>4 DEF PullSteps

\* Every step of an administrator's request.
LEMMA AdminMoves ==
  ASSUME Requested, NEW c \in Calls, NEW busy, Requests(c, busy)
  PROVE  Requested'
<1>1. ASSUME NEW r \in Refs, AskPublish(c, r) \/ AskUnpublish(c, r) \/ AskDefault(c, r) \/ AskPull(c, r)
      PROVE  Requested'
  <2>1. \A at \in {"publish", "unpublish", "default", "pull"} :
           Sound([NoCall EXCEPT !.at = at, !.ref = r], published)
    BY DEF NoCall, Sound, Asked, Points, About, Defaulting
  <2>2. PICK at \in {"publish", "unpublish", "default", "pull"} : Asks(c, [NoCall EXCEPT !.at = at, !.ref = r])
    BY <1>1 DEF AskPublish, AskUnpublish, AskDefault, AskPull
  <2> QED BY <2>1, <2>2, AskMoves
<1>2. CASE AskSync(c)
  <2>1. Sound([NoCall EXCEPT !.at = "sync"], published)
    BY DEF NoCall, Sound, Asked, Points, About, Defaulting
  <2> QED BY <1>2, <2>1, AskMoves DEF AskSync
<1> QED BY <1>1, <1>2, PublishMoves, UnpublishMoves, DefaultMoves, SyncMoves, PullMoves DEF Requests

-----------------------------------------------------------------------------
(* Projections.                                                            *)

\* No projection has its place and its types.
LEMMA NoProjTyped == NoProj \in Projections /\ NoProj.at = "off" /\ NoProj.fd = None
  BY DEF NoProj, Projections

\* A projection that begins, or has read: it has no file.
LEMMA EarlyMoves ==
  ASSUME Files, NEW y \in Projectors, NEW q \in Projections, q.at \notin {"write", "rename"}, q.fd = None,
         proj' = [proj EXCEPT ![y] = q], UNCHANGED files
  PROVE  Files'
<1>1. /\ proj' \in [Projectors -> Projections] /\ proj'[y] = q
      /\ \A z \in Projectors \ {y} : proj'[z] = proj[z]
  BY DEF Files, Filed
<1>2. tmp' = tmp /\ conf' = conf /\ text' = text /\ settled' = settled
  BY DEF files
<1>3. \A z \in Projectors : /\ proj'[z].at = "write" => proj'[z] = proj[z]
                            /\ Busied(proj', z) => proj'[z] = proj[z] /\ Busied(proj, z)
  BY <1>1 DEF Busied
<1>4. ASSUME NEW z \in Projectors
      PROVE  /\ proj'[z].at = "write" <=> proj'[z].fd # None
             /\ \A w \in Projectors : z # w /\ Busied(proj', z) /\ Busied(proj', w) => ~proj'[z].alone
             /\ proj'[z].at = "write" /\ proj'[z].alone => tmp' = proj'[z].fd /\ text'[tmp'].kind = "empty"
             /\ proj'[z].at = "rename" /\ proj'[z].alone => tmp' # None /\ text'[tmp'].kind = "whole"
             /\ settled' => proj'[z].fd # conf'
  <2>1. CASE z = y
    <3>1. conf # None
      BY FleetAssumption DEF Files, Filed, Inodes
    <3> QED BY <1>1, <1>2, <2>1, <3>1 DEF Busied
  <2>2. CASE z # y
    BY <1>1, <1>2, <1>3, <2>2 DEF Files, Filed, Busied
  <2> QED BY <2>1, <2>2
<1> QED BY <1>1, <1>2, <1>4 DEF Files, Filed

\* The names that are routed.
LEMMA RoutableTyped == RowsKept(rows) => \A seen : Routable(seen) \in SUBSET Slugs
<1> SUFFICES ASSUME RowsKept(rows), NEW i \in Live PROVE rows[i].slug \in Slugs
  BY DEF Routable
<1> QED BY DEF RowsKept, FilledRow, Live, NoRow

\* A projection reads.
LEMMA ReadMoves ==
  ASSUME Files, RowsKept(rows), NEW x \in Projectors, ReadRoutes(x)
  PROVE  Files'
<1>1. PICK w \in SUBSET Slugs : proj' = [proj EXCEPT ![x].at = "open", ![x].want = w]
  BY RoutableTyped DEF ReadRoutes
<1>2. proj[x] \in Projections /\ proj[x].at = "read" /\ proj[x].fd = None
  BY DEF Files, Filed, ReadRoutes
<1> DEFINE q == [proj[x] EXCEPT !.at = "open", !.want = w]
<1>3. proj' = [proj EXCEPT ![x] = q]
  BY <1>1
<1>4. q \in Projections /\ q.at = "open" /\ q.fd = None
  BY <1>2 DEF Projections
<1>5. UNCHANGED files
  BY DEF ReadRoutes
<1> HIDE DEF q
<1> QED BY <1>3, <1>4, <1>5, EarlyMoves

\* There is a file that nobody uses when the temporary one is gone.
LEMMA UnusedIsFree ==
  ASSUME Files, NEW x \in Projectors, proj[x].fd = None, tmp = None
  PROVE  Unused \in Inodes /\ Unused # conf /\ \A y \in Projectors : proj[y].fd # Unused
<1>1. PICK b : \A y \in Projectors : y # x => proj[y].fd = b
  BY DEF Projectors
<1>2. PICK n \in Inodes : n # conf /\ n # b
  BY DEF Inodes
<1>3. n # None
  BY FleetAssumption
<1>4. n \notin {tmp, conf} \cup {proj[y].fd : y \in Projectors}
  BY <1>1, <1>2, <1>3
<1>5. Unused \in Inodes /\ Unused \notin {tmp, conf} \cup {proj[y].fd : y \in Projectors}
  BY <1>4 DEF Unused
<1> QED BY <1>5

\* A projection opens the temporary file: a new one, or another's.
LEMMA OpenMoves ==
  ASSUME Files, NEW x \in Projectors, OpenFile(x)
  PROVE  Files'
<1> DEFINE n == IF tmp = None THEN Unused ELSE tmp
           lone == \A y \in Projectors \ {x} : ~Writing(y)
<1>1. proj[x].at = "open" /\ proj[x].fd = None /\ proj[x] \in Projections
  BY DEF OpenFile, Files, Filed
<1>2. n \in Inodes /\ n # conf /\ n # None
  BY <1>1, UnusedIsFree, FleetAssumption DEF Files, Filed
<1>3. /\ tmp' = n /\ text' = [text EXCEPT ![n] = Empty] /\ conf' = conf /\ settled' = settled
      /\ proj' = [y \in Projectors |->
                IF y = x THEN [proj[x] EXCEPT !.at = "write", !.fd = n, !.alone = lone]
                ELSE IF Writing(y) THEN [proj[y] EXCEPT !.alone = FALSE] ELSE proj[y]]
  BY DEF OpenFile
<1>4. lone \in BOOLEAN
  OBVIOUS
<1>5. proj'[x] = [proj[x] EXCEPT !.at = "write", !.fd = n, !.alone = lone]
  BY <1>3
<1>6. /\ proj'[x] \in Projections /\ proj'[x].at = "write" /\ proj'[x].fd = n
      /\ proj'[x].alone => lone
  BY <1>1, <1>2, <1>4, <1>5 DEF Projections
<1>7. ASSUME NEW y \in Projectors \ {x}
      PROVE  /\ proj'[y] \in Projections /\ proj'[y].at = proj[y].at /\ proj'[y].fd = proj[y].fd
             /\ Busied(proj', y) => ~proj'[y].alone /\ ~lone
  <2>1. proj'[y] = IF Writing(y) THEN [proj[y] EXCEPT !.alone = FALSE] ELSE proj[y]
    BY <1>3
  <2>2. proj[y] \in Projections
    BY DEF Files, Filed
  <2>3. CASE Writing(y)
    <3>1. proj'[y] = [proj[y] EXCEPT !.alone = FALSE]
      BY <2>1, <2>3
    <3> QED BY <2>2, <2>3, <3>1 DEF Projections
  <2>4. CASE ~Writing(y)
    <3>1. proj'[y] = proj[y]
      BY <2>1, <2>4
    <3> QED BY <2>2, <2>4, <3>1 DEF Busied, Writing
  <2> QED BY <2>3, <2>4
<1>8. text' \in [Inodes -> Texts] /\ text'[n] = Empty /\ \A k \in Inodes : k # n => text'[k] = text[k]
  BY <1>2, <1>3 DEF Files, Filed, Texts, Empty
<1>9. Empty.kind = "empty"
  BY DEF Empty
<1>10. proj' \in [Projectors -> Projections]
  BY <1>3, <1>6, <1>7
<1>11. conf \in Inodes /\ settled \in BOOLEAN /\ (settled => text[conf].kind = "whole")
  BY DEF Files, Filed
<1> HIDE DEF n, lone
<1>12. ASSUME NEW y \in Projectors
       PROVE  /\ proj'[y].at = "write" <=> proj'[y].fd # None
              /\ \A z \in Projectors : y # z /\ Busied(proj', y) /\ Busied(proj', z) => ~proj'[y].alone
              /\ proj'[y].at = "write" /\ proj'[y].alone => tmp' = proj'[y].fd /\ text'[tmp'].kind = "empty"
              /\ proj'[y].at = "rename" /\ proj'[y].alone => tmp' # None /\ text'[tmp'].kind = "whole"
              /\ settled' => proj'[y].fd # conf'
  <2>1. CASE y = x
    BY <1>2, <1>3, <1>6, <1>7, <1>8, <1>9, <2>1
  <2>2. CASE y # x
    <3>1. /\ proj[y].at = "write" <=> proj[y].fd # None
          /\ settled => proj[y].fd # conf
      BY DEF Files, Filed
    <3> QED BY <1>3, <1>7, <2>2, <3>1 DEF Busied
  <2> QED BY <2>1, <2>2
<1> QED BY <1>2, <1>3, <1>8, <1>10, <1>11, <1>12 DEF Files, Filed

\* A projection writes; alone, over an empty file.
LEMMA WriteMoves ==
  ASSUME Files, NEW x \in Projectors, WriteFile(x)
  PROVE  Files'
<1>1. /\ proj[x] \in Projections /\ proj[x].at = "write" /\ proj[x].fd \in Inodes
      /\ proj[x].want \in SUBSET Slugs
  BY DEF WriteFile, Files, Filed, Projections
<1>2. PICK t \in Over(proj[x].want, text[proj[x].fd]) : text' = [text EXCEPT ![proj[x].fd] = t]
  BY DEF WriteFile
<1>3. /\ proj' = [proj EXCEPT ![x].at = "rename", ![x].fd = None]
      /\ tmp' = tmp /\ conf' = conf /\ settled' = settled
  BY DEF WriteFile
<1>4. t \in Texts /\ (text[proj[x].fd].kind = "empty" => t.kind = "whole")
  BY <1>1 DEF Over, Whole, Torn, Texts
<1>5. text' \in [Inodes -> Texts] /\ text'[proj[x].fd] = t
      /\ \A k \in Inodes : k # proj[x].fd => text'[k] = text[k]
  BY <1>1, <1>2, <1>4 DEF Files, Filed
<1>6. /\ proj' \in [Projectors -> Projections] /\ proj'[x] = [proj[x] EXCEPT !.at = "rename", !.fd = None]
      /\ \A y \in Projectors \ {x} : proj'[y] = proj[y]
  BY <1>1, <1>3 DEF Files, Filed, Projections
<1>7. proj'[x].at = "rename" /\ proj'[x].fd = None /\ proj'[x].alone = proj[x].alone
  BY <1>1, <1>6 DEF Projections
<1>8. conf \in Inodes /\ conf # None /\ settled \in BOOLEAN /\ tmp \in Inodes \cup {None} /\ tmp # conf
      /\ (settled => text[conf].kind = "whole")
  BY FleetAssumption DEF Files, Filed
<1>9. settled => proj[x].fd # conf
  BY DEF Files, Filed
<1>10. ASSUME NEW y \in Projectors
       PROVE  /\ proj'[y].at = "write" <=> proj'[y].fd # None
              /\ \A z \in Projectors : y # z /\ Busied(proj', y) /\ Busied(proj', z) => ~proj'[y].alone
              /\ proj'[y].at = "write" /\ proj'[y].alone => tmp' = proj'[y].fd /\ text'[tmp'].kind = "empty"
              /\ proj'[y].at = "rename" /\ proj'[y].alone => tmp' # None /\ text'[tmp'].kind = "whole"
              /\ settled' => proj'[y].fd # conf'
  <2>0. /\ proj[y].at = "write" <=> proj[y].fd # None
        /\ \A z \in Projectors : y # z /\ Busied(proj, y) /\ Busied(proj, z) => ~proj[y].alone
        /\ proj[y].at = "write" /\ proj[y].alone => tmp = proj[y].fd /\ text[tmp].kind = "empty"
        /\ proj[y].at = "rename" /\ proj[y].alone => tmp # None /\ text[tmp].kind = "whole"
        /\ settled => proj[y].fd # conf
    BY DEF Files, Filed
  <2>1. CASE y = x
    <3>1. \A z \in Projectors : x # z /\ Busied(proj', z) => ~proj'[x].alone
      BY <1>1, <1>6, <1>7, <2>0, <2>1 DEF Busied
    <3>2. proj'[x].alone => tmp # None /\ text'[tmp].kind = "whole"
      BY <1>1, <1>4, <1>5, <1>7, <2>0, <2>1, FleetAssumption
    <3> QED BY <1>3, <1>7, <1>8, <2>1, <3>1, <3>2
  <2>2. CASE y # x
    <3>1. proj'[y] = proj[y] /\ (Busied(proj, y) => ~proj[y].alone)
      BY <1>1, <1>6, <2>0, <2>2 DEF Busied
    <3> QED BY <1>3, <2>0, <3>1 DEF Busied
  <2> QED BY <2>1, <2>2
<1>11. settled' => text'[conf'].kind = "whole"
  BY <1>3, <1>5, <1>8, <1>9
<1> QED BY <1>3, <1>5, <1>6, <1>8, <1>10, <1>11 DEF Files, Filed

\* A projection renames: alone, a whole file that nobody writes any more.
LEMMA RenameMoves ==
  ASSUME Files, NEW x \in Projectors, RenameFile(x)
  PROVE  Files'
<1>1. proj[x].at = "rename" /\ proj' = [proj EXCEPT ![x] = NoProj]
  BY DEF RenameFile
<1>2. /\ proj' \in [Projectors -> Projections] /\ proj'[x] = NoProj
      /\ \A y \in Projectors \ {x} : proj'[y] = proj[y]
  BY <1>1, NoProjTyped DEF Files, Filed
<1>3. \/ tmp # None /\ conf' = tmp /\ tmp' = None /\ settled' = proj[x].alone
      \/ tmp = None /\ tmp' = tmp /\ conf' = conf /\ settled' = settled
  BY DEF RenameFile
<1>4. text' = [n \in Inodes |->
                   IF n \in {tmp', conf'} \cup {proj[y].fd : y \in Projectors} THEN text[n] ELSE Empty]
  BY DEF RenameFile
<1>5. Empty \in Texts
  BY DEF Empty, Texts
<1>6. text' \in [Inodes -> Texts]
  BY <1>4, <1>5 DEF Files, Filed
<1>7. conf' \in Inodes /\ tmp' \in Inodes \cup {None} /\ tmp' # conf' /\ settled' \in BOOLEAN /\ tmp' = None
  BY <1>2, <1>3, FleetAssumption DEF Files, Filed, Projections
<1>8. text'[conf'] = text[conf']
  BY <1>4, <1>7
<1>9. settled' => text'[conf'].kind = "whole"
  BY <1>1, <1>3, <1>8 DEF Files, Filed
<1>10. ASSUME NEW y \in Projectors, y # x
       PROVE  /\ proj[y].at = "write" <=> proj[y].fd # None
              /\ Busied(proj, y) => ~proj[y].alone /\ ~proj[x].alone
              /\ settled => proj[y].fd # conf
  BY <1>1, <1>10 DEF Files, Filed, Busied
<1>11. ASSUME NEW y \in Projectors
       PROVE  /\ proj'[y].at = "write" <=> proj'[y].fd # None
              /\ \A z \in Projectors : y # z /\ Busied(proj', y) /\ Busied(proj', z) => ~proj'[y].alone
              /\ proj'[y].at = "write" /\ proj'[y].alone => tmp' = proj'[y].fd /\ text'[tmp'].kind = "empty"
              /\ proj'[y].at = "rename" /\ proj'[y].alone => tmp' # None /\ text'[tmp'].kind = "whole"
              /\ settled' => proj'[y].fd # conf'
  <2>1. CASE y = x
    BY <1>2, <1>7, <2>1, NoProjTyped, FleetAssumption DEF Busied
  <2>2. CASE y # x
    <3>1. conf' # None
      BY <1>7, FleetAssumption
    <3> QED BY <1>2, <1>3, <1>10, <2>2, <3>1 DEF Busied
  <2> QED BY <2>1, <2>2
<1> QED BY <1>2, <1>6, <1>7, <1>9, <1>11 DEF Files, Filed

-----------------------------------------------------------------------------
(* Rows, containers, and the container made for nobody.                    *)

\* An unused row.
LEMMA NoRowTyped ==
  NoRow \in Rows /\ NoRow.status = "none" /\ NoRow.port = NoPort /\ ~NoRow.cid /\ NoRow.slug = None
  BY DEF NoRow, Rows

\* A live workspace has a name, an owner, an image; its container a port.
LEMMA AliveFilled ==
  ASSUME NEW r, RowsKept(r), NEW i \in Alive(r)
  PROVE  i \in Ids /\ r[i] \in Rows /\ FilledRow(r[i])
  BY NoRowTyped DEF RowsKept, Alive

\* The rows in r2 are those in r, with another status at most, or no container.
Alike(r, r2) ==
    /\ r2 \in [Ids -> Rows]
    /\ Alive(r2) \subseteq Alive(r)
    /\ \A i \in Ids : /\ r2[i] = NoRow \/ FilledRow(r2[i])
                      /\ r2[i].slug = r[i].slug /\ r2[i].owner = r[i].owner /\ r2[i].port = r[i].port

\* Neither names nor ports change, so nothing does that depends on them.
LEMMA AlikeKeeps ==
  ASSUME NEW r, NEW r2, NEW m, NEW j, RowsKept(r), Alike(r, r2)
  PROVE  RowsKept(r2) /\ (AtHome(r, m) => AtHome(r2, m)) /\ (Orphan(r, j) => Orphan(r2, j))
<1>0. Alive(r2) \subseteq Ids
  BY DEF Alive
<1>1. RowsKept(r2)
  BY <1>0 DEF RowsKept, Alike
<1>2. ASSUME AtHome(r, m) PROVE AtHome(r2, m)
  BY <1>0, <1>2 DEF AtHome, Alike
<1>3. ASSUME Orphan(r, j) PROVE Orphan(r2, j)
  BY <1>0, <1>3 DEF Orphan, Alike
<1> QED BY <1>1, <1>2, <1>3

\* One row gets another status, or loses its container.
LEMMA StatusAlike ==
  ASSUME NEW r, RowsKept(r), NEW i \in Alive(r), NEW x \in Rows,
         x.status # "none", x.slug = r[i].slug, x.owner = r[i].owner, x.image = r[i].image,
         x.port = r[i].port, x.cid => r[i].cid
  PROVE  Alike(r, [r EXCEPT ![i] = x])
<1> DEFINE r2 == [r EXCEPT ![i] = x]
<1>1. i \in Ids /\ FilledRow(r[i])
  BY AliveFilled
<1>2. FilledRow(x)
  BY <1>1 DEF FilledRow
<1>3. r2 \in [Ids -> Rows] /\ r2[i] = x /\ \A k \in Ids \ {i} : r2[k] = r[k]
  BY <1>1 DEF RowsKept
<1>4. Alive(r2) \subseteq Alive(r)
  BY <1>3 DEF Alive
<1> HIDE DEF r2
<1>5. ASSUME NEW k \in Ids
      PROVE  /\ r2[k] = NoRow \/ FilledRow(r2[k])
             /\ r2[k].slug = r[k].slug /\ r2[k].owner = r[k].owner /\ r2[k].port = r[k].port
  BY <1>2, <1>3 DEF RowsKept
<1>6. Alike(r, r2)
  BY <1>3, <1>4, <1>5 DEF Alike
<1> QED BY <1>6 DEF r2

\* The containers in m2 are among those in m, and run only where they did.
Quieter(m, m2) ==
    /\ m2 \in [Slugs -> Machines]
    /\ \A s \in Slugs : /\ m2[s].state # "absent" => m[s].state # "absent" /\ m2[s].port = m[s].port
                        /\ IsUp(m2, s) => IsUp(m, s)

\* A container that stops or goes is in nobody's way.
LEMMA QuieterKeeps ==
  ASSUME NEW r, NEW m, NEW m2, NEW o, NEW j, RowsKept(r), Quieter(m, m2)
  PROVE  (AtHome(r, m) => AtHome(r, m2))
         /\ (Relies(o, r, m, j) => Relies(o, r, m2, j))
<1>0. \A i \in Alive(r) : r[i].slug \in Slugs
  BY AliveFilled DEF FilledRow
<1>1. \A s \in Slugs : IsUp(m2, s) => m2[s].port = m[s].port
  BY DEF Quieter, IsUp
<1>2. ASSUME AtHome(r, m) PROVE AtHome(r, m2)
  BY <1>0, <1>1, <1>2 DEF AtHome, Quieter
<1>3. ASSUME Relies(o, r, m, j) PROVE Relies(o, r, m2, j)
  <2>1. ASSUME o.at = "save"
        PROVE  /\ m2[r[o.id].slug].state # "absent" => m2[r[o.id].slug].port = o.port
               /\ \A s \in Slugs : IsUp(m2, s) /\ m2[s].port = o.port => s = r[o.id].slug
    <3>1. /\ m[r[o.id].slug].state # "absent" => m[r[o.id].slug].port = o.port
          /\ \A s \in Slugs : IsUp(m, s) /\ m[s].port = o.port => s = r[o.id].slug
          /\ o.id \in Alive(r)
      BY <1>3, <2>1 DEF Relies, Works
    <3> QED BY <1>0, <1>1, <3>1 DEF Quieter
  <2> QED BY <1>3, <2>1 DEF Relies
<1> QED BY <1>2, <1>3

\* One container stops or goes.
LEMMA OneQuieter ==
  ASSUME NEW m \in [Slugs -> Machines], NEW s \in Slugs
  PROVE  /\ Quieter(m, m)
         /\ Quieter(m, [m EXCEPT ![s] = NoMachine])
         /\ m[s].state # "absent" => Quieter(m, [m EXCEPT ![s].state = "down"])
<1>1. NoMachine \in Machines /\ NoMachine.state = "absent"
  BY DEF NoMachine, Machines
<1>2. [m[s] EXCEPT !.state = "down"] \in Machines /\ [m[s] EXCEPT !.state = "down"].state = "down"
      /\ [m[s] EXCEPT !.state = "down"].port = m[s].port
  BY DEF Machines
<1>3. Quieter(m, m)
  BY DEF Quieter
<1>4. Quieter(m, [m EXCEPT ![s] = NoMachine])
  BY <1>1 DEF Quieter, IsUp
<1>5. m[s].state # "absent" => Quieter(m, [m EXCEPT ![s].state = "down"])
  BY <1>2 DEF Quieter, IsUp
<1> QED BY <1>3, <1>4, <1>5

\* A container is made where the row says, or where no row is: every
\* container is at home, and nobody else answers where it runs.
LEMMA MadeAtHome ==
  ASSUME NEW r, RowsKept(r), AtHome(r, machine), NEW s \in Slugs, NEW p \in Ports,
         \A i \in Alive(r) : r[i].port # NoPort => (r[i].port = p <=> r[i].slug = s)
  PROVE  /\ AtHome(r, Made(s, p))
         /\ Made(s, p)[s].port = p
         /\ Made(s, p)[s].state = "running" =>
              \A x \in Slugs : IsUp(Made(s, p), x) /\ Made(s, p)[x].port = p => x = s
<1> DEFINE busy == p \in foreign \cup {machine[x].port : x \in {y \in Slugs \ {s} : Up(y)}}
           c == [state |-> IF busy THEN "down" ELSE "running", port |-> p]
           m == Made(s, p)
<1>1. c \in Machines /\ c.port = p /\ (c.state = "running" => ~busy) /\ c.state # "absent"
  BY DEF Machines
<1>2. m = [machine EXCEPT ![s] = c]
  BY DEF Made
<1>3. m \in [Slugs -> Machines] /\ m[s] = c /\ \A x \in Slugs \ {s} : m[x] = machine[x]
  BY <1>1, <1>2 DEF AtHome
<1>4. ~busy => \A x \in Slugs \ {s} : IsUp(m, x) => m[x].port # p
  BY <1>3 DEF IsUp, Up
<1> HIDE DEF c, m, busy
<1>5. ASSUME NEW i \in Alive(r), r[i].port # NoPort
      PROVE  /\ m[r[i].slug].state # "absent" => m[r[i].slug].port = r[i].port
             /\ \A x \in Slugs : IsUp(m, x) /\ m[x].port = r[i].port => x = r[i].slug
  <2>0. r[i].slug \in Slugs
    BY AliveFilled DEF FilledRow
  <2>1. /\ machine[r[i].slug].state # "absent" => machine[r[i].slug].port = r[i].port
        /\ \A x \in Slugs : IsUp(machine, x) /\ machine[x].port = r[i].port => x = r[i].slug
        /\ r[i].port = p <=> r[i].slug = s
    BY <1>5 DEF AtHome
  <2>2. CASE r[i].slug = s
    <3>1. ASSUME NEW x \in Slugs, IsUp(m, x), m[x].port = r[i].port PROVE x = s
      BY <1>3, <2>1, <2>2, <3>1 DEF IsUp
    <3> QED BY <1>1, <1>3, <2>1, <2>2, <3>1
  <2>3. CASE r[i].slug # s
    <3>1. ASSUME NEW x \in Slugs, IsUp(m, x), m[x].port = r[i].port PROVE x = r[i].slug
      BY <1>1, <1>3, <2>1, <2>3, <3>1 DEF IsUp
    <3> QED BY <1>3, <2>0, <2>1, <2>3, <3>1
  <2> QED BY <2>2, <2>3
<1>6. AtHome(r, m)
  BY <1>3, <1>5 DEF AtHome
<1> QED BY <1>1, <1>3, <1>4, <1>6 DEF m

-----------------------------------------------------------------------------
(* Operations.                                                             *)

\* No operation relies on anything.
LEMMA NoOpRelies == NoOp \in Operations /\ NoOp.at = "idle" /\ \A r, m, j : Relies(NoOp, r, m, j)
<1>1. {} \in SUBSET Ports /\ 0 \in 0..(LastPort + 1)
  BY FleetAssumption
<1>2. NoOp \in Operations
  BY <1>1 DEF NoOp, Operations, Places, Works, Nexts, NoPort
<1> QED BY <1>2 DEF NoOp, Relies, Works

\* Where an operation relies on nothing but its workspace.
Plain == {"prepare", "started", "stop", "stopped", "removing", "rm_stop", "retain"}

\* An operation that goes on to such a step.
LEMMA PlainRelies ==
  ASSUME NEW o \in Operations, NEW r, NEW m, NEW j, o.id \in Alive(r), o.at \in Plain
  PROVE  Relies(o, r, m, j)
  BY DEF Relies, Plain, Works, Alive

\* An operation whose step has thrown.
LEMMA ThrowsRelies ==
  ASSUME op \in Operations, op.id \in Ids, Throws, NEW r, NEW m, NEW j
  PROVE  op' \in Operations /\ Relies(op', r, m, j) /\ op'.at # "sync"
<1>1. CASE op' = NoOp
  BY <1>1, NoOpRelies
<1>2. CASE op' = [op EXCEPT !.at = "fail"]
  <2>1. op' \in Operations /\ op'.at = "fail" /\ op'.id \in Ids
    BY <1>2 DEF Operations, Places
  <2> QED BY <2>1 DEF Relies, Works
<1> QED BY <1>1, <1>2 DEF Throws

\* An operation that projects the routes.
LEMMA SyncRelies ==
  ASSUME op \in Operations, op.id \in Ids, NEW then \in Nexts, Sync(then), Files, UNCHANGED files,
         NEW r, NEW m, NEW j, then = "rm_stop" => op.id \in Alive(r)
  PROVE  op' \in Operations /\ Relies(op', r, m, j) /\ Files' /\ Awaited'
<1>1. op' = [op EXCEPT !.at = "sync", !.then = then]
  BY DEF Sync
<1>2. op' \in Operations /\ op'.at = "sync" /\ op'.then = then /\ op'.id = op.id
  BY <1>1 DEF Operations, Places
<1>3. Relies(op', r, m, j)
  BY <1>2 DEF Relies, Works
<1> DEFINE q == [NoProj EXCEPT !.at = "read"]
<1>4. q \in Projections /\ q.at = "read" /\ q.fd = None
  BY NoProjTyped DEF Projections
<1>5. proj' = [proj EXCEPT !["queue"] = q]
  BY DEF Sync
<1>6. "queue" \in Projectors
  BY DEF Projectors
<1> HIDE DEF q
<1>7. Files'
  BY <1>4, <1>5, <1>6, EarlyMoves
<1> QED BY <1>2, <1>3, <1>7 DEF Awaited

\* What an operation has at its steps.
LEMMA OpStands ==
  ASSUME Working
  PROVE  /\ op \in Operations
         /\ op.at # "idle" => op.id \in Ids
         /\ op.at \in Works => op.id \in Alive(rows) /\ op.id \in Ids /\ FilledRow(Row) /\ Row \in Rows
         /\ op = NoOp <=> op.at = "idle"
<1>1. op.at # "idle" => op.id \in Ids
  BY DEF Working, Relies
<1>2. op.at \in Works => op.id \in Alive(rows) /\ op.id \in Ids /\ FilledRow(Row) /\ Row \in Rows
  BY AliveFilled DEF Working, Relies, Row
<1>3. op = NoOp <=> op.at = "idle"
  BY NoOpRelies DEF Working, Relies
<1> QED BY <1>1, <1>2, <1>3 DEF Working

\* A step that leaves the projections alone.
LEMMA RouteStill ==
  ASSUME Files, Awaited, UNCHANGED routeVars, op.at # "sync" \/ op' = op
  PROVE  Files' /\ Awaited'
<1>1. proj' = proj /\ tmp' = tmp /\ conf' = conf /\ text' = text /\ settled' = settled
  BY DEF routeVars, files
<1> QED BY <1>1 DEF Files, Filed, Busied, Awaited

\* A step of an operation that leaves rows, containers and projections alone.
LEMMA OpOnly ==
  ASSUME Working, Files, Awaited, op.at # "sync", UNCHANGED <<rows, machine, foreign, job, routeVars>>,
         op' \in Operations, Relies(op', rows, machine, job)
  PROVE  Working' /\ Files' /\ Awaited'
  BY RouteStill DEF Working

\* The queue takes an operation.
LEMMA BeginMoves ==
  ASSUME Working, Files, Awaited, NEW i \in Ids, Restart(i) \/ Start(i) \/ Stop(i) \/ Delete(i)
  PROVE  Working' /\ Files' /\ Awaited'
<1>0. i \in Alive(rows) /\ op = NoOp /\ op.at = "idle"
      /\ UNCHANGED <<rows, machine, foreign, job, routeVars>>
  BY NoOpRelies DEF Restart, Start, Stop, Delete, Begins, Live, Alive
<1>1. ASSUME NEW at \in Plain \cup {"start"}, NEW d \in {"restart", "start", "stop", "remove"}, NEW b \in BOOLEAN,
             at = "start" => rows[i].cid,
             op' = [NoOp EXCEPT !.at = at, !.do = d, !.id = i, !.bare = b]
      PROVE  op' \in Operations /\ Relies(op', rows, machine, job)
  <2>1. op' \in Operations /\ op'.at = at /\ op'.id = i
    BY <1>1, NoOpRelies DEF Operations, Plain, Places, Works
  <2>2. CASE at \in Plain
    BY <1>0, <2>1, <2>2, PlainRelies
  <2>3. CASE at = "start"
    BY <1>0, <1>1, <2>1, <2>3 DEF Relies, Works, Alive
  <2> QED BY <2>2, <2>3
<1>2. NoOp.bare = FALSE /\ rows[i].cid \in BOOLEAN
  BY <1>0, AliveFilled DEF NoOp, Working, Rows
<1>3. CASE Restart(i)
  <2>1. PICK at \in {"prepare"} : op' = [NoOp EXCEPT !.at = at, !.do = "restart", !.id = i, !.bare = FALSE]
    BY <1>2, <1>3 DEF Restart, Begins, NoOp
  <2>2. op' \in Operations /\ Relies(op', rows, machine, job)
    BY <1>1, <2>1 DEF Plain
  <2> QED BY <1>0, <2>2, OpOnly
<1>4. CASE Start(i)
  <2>1. CASE rows[i].cid
    <3>1. op' = [NoOp EXCEPT !.at = "start", !.do = "start", !.id = i, !.bare = FALSE]
      BY <1>2, <1>4, <2>1 DEF Start, Begins
    <3>2. op' \in Operations /\ Relies(op', rows, machine, job)
      BY <1>1, <2>1, <3>1
    <3> QED BY <1>0, <3>2, OpOnly
  <2>2. CASE ~rows[i].cid
    <3>1. PICK at \in {"prepare"} : op' = [NoOp EXCEPT !.at = at, !.do = "start", !.id = i, !.bare = TRUE]
      BY <1>2, <1>4, <2>2 DEF Start, Begins
    <3>2. op' \in Operations /\ Relies(op', rows, machine, job)
      BY <1>1, <3>1 DEF Plain
    <3> QED BY <1>0, <3>2, OpOnly
  <2> QED BY <2>1, <2>2
<1>5. CASE Stop(i)
  <2>1. PICK at \in {"stop", "stopped"} : op' = [NoOp EXCEPT !.at = at, !.do = "stop", !.id = i, !.bare = FALSE]
    BY <1>2, <1>5 DEF Stop, Begins, NoOp
  <2>2. op' \in Operations /\ Relies(op', rows, machine, job)
    BY <1>1, <2>1 DEF Plain
  <2> QED BY <1>0, <2>2, OpOnly
<1>6. CASE Delete(i)
  <2>1. PICK at \in {"removing"} : op' = [NoOp EXCEPT !.at = at, !.do = "remove", !.id = i, !.bare = FALSE]
    BY <1>2, <1>6 DEF Delete, Begins, NoOp
  <2>2. op' \in Operations /\ Relies(op', rows, machine, job)
    BY <1>1, <2>1 DEF Plain
  <2> QED BY <1>0, <2>2, OpOnly
<1> QED BY <1>3, <1>4, <1>5, <1>6

\* create: a new row, with no port yet.
LEMMA CreateMoves ==
  ASSUME Requested, Working, Files, Awaited, NEW i \in Ids, NEW s \in Slugs, NEW o \in Owners,
         NEW r \in Refs \cup {None}, Create(i, s, o, r)
  PROVE  Working' /\ Files' /\ Awaited'
<1> DEFINE image == IF r = None THEN default ELSE r
           x == [NoRow EXCEPT !.status = "provisioning", !.slug = s, !.owner = o, !.image = image]
<1>1. /\ rows[i] = NoRow /\ op = NoOp /\ image \in Refs
      /\ \A j \in Ids : rows[j].slug = s => j \notin Live /\ rows[j].owner = o
      /\ rows' = [rows EXCEPT ![i] = x]
      /\ op' = [NoOp EXCEPT !.at = "prepare", !.do = "create", !.id = i]
      /\ UNCHANGED <<machine, foreign, job, routeVars>>
  BY DEF Create, Requested, ReleasesOK
<1>2. /\ x \in Rows /\ x.status = "provisioning" /\ x.slug = s /\ x.owner = o /\ x.port = NoPort
      /\ x.image = image /\ ~x.cid
  BY <1>1 DEF NoRow, Rows, Transit
<1> HIDE DEF image, x
<1>3. rows' \in [Ids -> Rows] /\ rows'[i] = x /\ \A j \in Ids \ {i} : rows'[j] = rows[j]
  BY <1>1, <1>2 DEF Working, RowsKept
<1>4. FilledRow(x)
  BY <1>1, <1>2 DEF FilledRow
<1>5. Alive(rows') = Alive(rows) \cup {i} /\ i \notin Alive(rows)
  BY <1>1, <1>2, <1>3, NoRowTyped DEF Alive
<1>6. RowsKept(rows')
  <2>1. \A j \in Ids : rows'[j] = NoRow \/ FilledRow(rows'[j])
    BY <1>3, <1>4 DEF Working, RowsKept
  <2>2. ASSUME NEW j \in Alive(rows'), NEW k \in Alive(rows'), j # k
        PROVE  rows'[j].slug # rows'[k].slug /\ (rows'[j].port = rows'[k].port => rows'[j].port = NoPort)
    <3>1. j \in Ids /\ k \in Ids
      BY DEF Alive
    <3>2. Live = Alive(rows)
      BY DEF Live, Alive
    <3>3. CASE j = i
      BY <1>1, <1>2, <1>3, <1>5, <2>2, <3>1, <3>2, <3>3
    <3>4. CASE k = i
      BY <1>1, <1>2, <1>3, <1>5, <2>2, <3>1, <3>2, <3>4
    <3>5. CASE j # i /\ k # i
      BY <1>3, <1>5, <2>2, <3>1, <3>5 DEF Working, RowsKept
    <3> QED BY <3>3, <3>4, <3>5
  <2>3. ASSUME NEW j \in Ids, NEW k \in Ids, rows'[j].slug = rows'[k].slug
        PROVE  rows'[j].owner = rows'[k].owner
    <3>1. CASE j = i \/ k = i
      BY <1>1, <1>2, <1>3, <2>3, <3>1
    <3>2. CASE j # i /\ k # i
      BY <1>3, <2>3, <3>2 DEF Working, RowsKept
    <3> QED BY <3>1, <3>2
  <2> QED BY <1>3, <2>1, <2>2, <2>3 DEF RowsKept
<1>7. AtHome(rows', machine)
  BY <1>2, <1>3, <1>5 DEF Working, AtHome, Alive
<1>8. Orphan(rows', job)
  BY <1>2, <1>3, <1>5 DEF Working, Orphan, Alive
<1>9. op' \in Operations /\ op'.at = "prepare" /\ op'.id = i
  BY <1>1, NoOpRelies DEF Operations, Places, Works
<1>10. Relies(op', rows', machine, job)
  BY <1>5, <1>9, PlainRelies DEF Plain
<1>11. op.at = "idle"
  BY <1>1, NoOpRelies
<1>12. Files' /\ Awaited'
  BY <1>1, <1>11, RouteStill
<1> QED BY <1>1, <1>6, <1>7, <1>8, <1>9, <1>10, <1>12 DEF Working

\* The rows change their status at most: everything else is as it was.
LEMMA RowsMove ==
  ASSUME Working, Alike(rows, rows'), UNCHANGED <<machine, foreign, job>>,
         op' \in Operations, Relies(op', rows', machine, job)
  PROVE  Working'
<1>1. RowsKept(rows') /\ AtHome(rows', machine) /\ Orphan(rows', job)
  BY AlikeKeeps DEF Working
<1> QED BY <1>1 DEF Working

\* An update of the operation's row.
LEMMA UpdateMoves ==
  ASSUME Working, Files, Awaited, NEW at \in Works, NEW x \in Rows, NEW then \in Nexts,
         Update(at, x, then), x.status # "none", x.slug = Row.slug, x.owner = Row.owner,
         x.image = Row.image, x.port = Row.port, x.cid => Row.cid,
         then = "rm_stop" => x.status # "retained"
  PROVE  Working' /\ Files' /\ Awaited'
<1>0. /\ op \in Operations /\ op.id \in Alive(rows) /\ op.id \in Ids /\ op.at = at
      /\ op.at # "sync" /\ RowsKept(rows)
      /\ UNCHANGED <<machine, foreign, job>> /\ UNCHANGED files
  BY OpStands DEF Update, Quiet, Works, Working
<1>1. CASE Changes(x) /\ Sync(then)
  <2>1. rows' = [rows EXCEPT ![op.id] = x]
    BY <1>1 DEF Changes
  <2>2. Alike(rows, rows')
    BY <1>0, <2>1, StatusAlike DEF Row
  <2>3. then = "rm_stop" => op.id \in Alive(rows')
    BY <1>0, <2>1 DEF Alive, RowsKept
  <2>4. op' \in Operations /\ Relies(op', rows', machine, job) /\ Files' /\ Awaited'
    BY <1>0, <1>1, <2>3, SyncRelies
  <2> QED BY <1>0, <2>2, <2>4, RowsMove
<1>2. CASE Throws /\ UNCHANGED <<rows, proj>>
  <2>1. op' \in Operations /\ Relies(op', rows, machine, job)
    BY <1>0, <1>2, ThrowsRelies
  <2>2. UNCHANGED routeVars
    BY <1>0, <1>2 DEF routeVars
  <2> QED BY <1>0, <1>2, <2>1, <2>2, OpOnly
<1> QED BY <1>1, <1>2 DEF Update

\* The updates of starting, stopping and deleting.
LEMMA UpdatingMoves ==
  ASSUME Working, Files, Awaited, Updating
  PROVE  Working' /\ Files' /\ Awaited'
<1>0. op.at \in Works => Row \in Rows
  BY OpStands
<1>1. CASE Update("started", [Row EXCEPT !.status = "running"], "idle")
  <2> DEFINE x == [Row EXCEPT !.status = "running"]
  <2>1. Row \in Rows
    BY <1>0, <1>1 DEF Update, Works
  <2>2. x \in Rows /\ x.status = "running" /\ x.slug = Row.slug /\ x.owner = Row.owner
        /\ x.image = Row.image /\ x.port = Row.port /\ x.cid = Row.cid
    BY <2>1 DEF Rows
  <2>3. "started" \in Works /\ "idle" \in Nexts
    BY DEF Works, Nexts
  <2> QED BY <1>1, <2>2, <2>3, UpdateMoves
<1>2. CASE Update("stopped", [Row EXCEPT !.status = "stopped"], "idle")
  <2> DEFINE x == [Row EXCEPT !.status = "stopped"]
  <2>1. Row \in Rows
    BY <1>0, <1>2 DEF Update, Works
  <2>2. x \in Rows /\ x.status = "stopped" /\ x.slug = Row.slug /\ x.owner = Row.owner
        /\ x.image = Row.image /\ x.port = Row.port /\ x.cid = Row.cid
    BY <2>1 DEF Rows
  <2>3. "stopped" \in Works /\ "idle" \in Nexts
    BY DEF Works, Nexts
  <2> QED BY <1>2, <2>2, <2>3, UpdateMoves
<1>3. CASE Update("removing", [Row EXCEPT !.status = "removing"], "rm_stop")
  <2> DEFINE x == [Row EXCEPT !.status = "removing"]
  <2>1. Row \in Rows
    BY <1>0, <1>3 DEF Update, Works
  <2>2. x \in Rows /\ x.status = "removing" /\ x.slug = Row.slug /\ x.owner = Row.owner
        /\ x.image = Row.image /\ x.port = Row.port /\ x.cid = Row.cid
    BY <2>1 DEF Rows, Transit
  <2>3. "removing" \in Works /\ "rm_stop" \in Nexts
    BY DEF Works, Nexts
  <2> QED BY <1>3, <2>2, <2>3, UpdateMoves
<1>4. CASE Update("retain", [Row EXCEPT !.status = "retained", !.cid = FALSE], "idle")
  <2> DEFINE x == [Row EXCEPT !.status = "retained", !.cid = FALSE]
  <2>1. Row \in Rows
    BY <1>0, <1>4 DEF Update, Works
  <2>2. x \in Rows /\ x.status = "retained" /\ x.slug = Row.slug /\ x.owner = Row.owner
        /\ x.image = Row.image /\ x.port = Row.port /\ x.cid = FALSE
    BY <2>1 DEF Rows
  <2>3. "retain" \in Works /\ "idle" \in Nexts
    BY DEF Works, Nexts
  <2> QED BY <1>4, <2>2, <2>3, UpdateMoves
<1> QED BY <1>1, <1>2, <1>3, <1>4 DEF Updating

\* failWith: the row of a live workspace takes the error.
LEMMA FailMoves ==
  ASSUME Working, Files, Awaited, FailWith
  PROVE  Working' /\ Files' /\ Awaited'
<1>0. /\ op.at = "fail" /\ op \in Operations /\ op.id \in Ids /\ RowsKept(rows)
      /\ UNCHANGED <<machine, foreign, job>> /\ UNCHANGED files
  BY OpStands DEF FailWith, Quiet, Working
<1>1. CASE Sync("thrown") /\ (IF op.id \in Live THEN Changes([Row EXCEPT !.status = "error"]) ELSE UNCHANGED rows)
  <2>1. "thrown" \in Nexts /\ "thrown" # "rm_stop"
    BY DEF Nexts
  <2>2. op' \in Operations /\ Relies(op', rows', machine, job) /\ Files' /\ Awaited'
    BY <1>0, <1>1, <2>1, SyncRelies
  <2>3. CASE op.id \in Live
    <3> DEFINE x == [Row EXCEPT !.status = "error"]
    <3>1. op.id \in Alive(rows) /\ Row \in Rows
      BY <1>0, <2>3, AliveFilled DEF Live, Alive, Row
    <3>2. x \in Rows /\ x.status = "error" /\ x.slug = Row.slug /\ x.owner = Row.owner
          /\ x.image = Row.image /\ x.port = Row.port /\ x.cid = Row.cid
      BY <3>1 DEF Rows
    <3>3. rows' = [rows EXCEPT ![op.id] = x]
      BY <1>1, <2>3 DEF Changes
    <3> HIDE DEF x
    <3>4. Alike(rows, rows')
      BY <1>0, <3>1, <3>2, <3>3, StatusAlike DEF Row
    <3> QED BY <1>0, <2>2, <3>4, RowsMove
  <2>4. CASE op.id \notin Live
    BY <1>0, <1>1, <2>2, <2>4 DEF Working
  <2> QED BY <2>3, <2>4
<1>2. CASE op' = NoOp /\ UNCHANGED <<rows, proj>>
  <2>1. op' \in Operations /\ Relies(op', rows, machine, job)
    BY <1>2, NoOpRelies
  <2>2. UNCHANGED routeVars
    BY <1>0, <1>2 DEF routeVars
  <2> QED BY <1>0, <1>2, <2>1, <2>2, OpOnly
<1> QED BY <1>1, <1>2 DEF FailWith

\* A step in which containers stop or go at most.
LEMMA QuietMoves ==
  ASSUME Working, Files, Awaited, op.at # "sync", UNCHANGED <<rows, foreign, job, routeVars>>,
         Quieter(machine, machine'), op' \in Operations, Relies(op', rows, machine, job)
  PROVE  Working' /\ Files' /\ Awaited'
<1>1. AtHome(rows, machine') /\ Relies(op', rows, machine', job)
  BY QuieterKeeps DEF Working
<1>2. Files' /\ Awaited'
  BY RouteStill
<1> QED BY <1>1, <1>2 DEF Working

\* The container of the operation's workspace is stopped, or was not there.
Stopped(s) == [machine EXCEPT ![s] = IF @.state = "absent" THEN @ ELSE [@ EXCEPT !.state = "down"]]

\* To stop one is a quiet step.
LEMMA StoppedQuieter ==
  ASSUME machine \in [Slugs -> Machines], NEW s \in Slugs
  PROVE  Quieter(machine, Stopped(s))
<1>1. CASE machine[s].state = "absent"
  <2>1. Stopped(s) = machine
    BY <1>1 DEF Stopped
  <2> QED BY <2>1, OneQuieter
<1>2. CASE machine[s].state # "absent"
  <2>1. Stopped(s) = [machine EXCEPT ![s].state = "down"]
    BY <1>2 DEF Stopped
  <2> QED BY <1>2, <2>1, OneQuieter
<1> QED BY <1>1, <1>2

\* applyRuntime up to the port.
LEMMA PrepareMoves ==
  ASSUME Working, Files, Awaited, Prepare
  PROVE  Working' /\ Files' /\ Awaited'
<1>0. /\ op.at = "prepare" /\ op \in Operations /\ op.id \in Alive(rows) /\ op.id \in Ids
      /\ FilledRow(Row) /\ Row \in Rows /\ op.at # "sync"
      /\ RowsKept(rows) /\ machine \in [Slugs -> Machines] /\ Row.slug \in Slugs
      /\ UNCHANGED <<rows, foreign, job, routeVars>>
  BY OpStands DEF Prepare, Works, Working, AtHome, FilledRow
<1>1. CASE /\ machine' = Stopped(Row.slug)
           /\ op' = [op EXCEPT !.at = IF Row.port = NoPort THEN "allocate" ELSE "make", !.port = Row.port]
  <2>1. Quieter(machine, machine')
    BY <1>0, <1>1, StoppedQuieter
  <2>2. Row.port \in 0..(LastPort + 1) /\ (Row.port # NoPort => Row.port \in Ports)
    BY <1>0, FleetAssumption DEF Rows, Ports, NoPort
  <2>3. /\ op' \in Operations /\ op'.id = op.id /\ op'.port = Row.port
        /\ op'.at = IF Row.port = NoPort THEN "allocate" ELSE "make"
    BY <1>0, <1>1, <2>2 DEF Operations, Places, Works
  <2>4. CASE Row.port = NoPort
    BY <1>0, <2>3, <2>4, QuietMoves, <2>1 DEF Relies, Works, Row, Alive
  <2>5. CASE Row.port # NoPort
    <3>1. Chosen(rows, op')
      BY <1>0, <2>2, <2>3, <2>5 DEF Chosen, Row, RowsKept
    <3>2. Relies(op', rows, machine, job)
      BY <1>0, <2>3, <2>5, <3>1 DEF Relies, Works
    <3> QED BY <1>0, <2>1, <2>3, <3>2, QuietMoves
  <2> QED BY <2>4, <2>5
<1>2. CASE Throws /\ UNCHANGED machine
  <2>1. op' \in Operations /\ Relies(op', rows, machine, job)
    BY <1>0, <1>2, ThrowsRelies
  <2> QED BY <1>0, <1>2, <2>1, OpOnly
<1> QED BY <1>1, <1>2 DEF Prepare, Stopped

\* allocateHostPort reads the ports of the live rows.
LEMMA AllocateMoves ==
  ASSUME Working, Files, Awaited, Allocate
  PROVE  Working' /\ Files' /\ Awaited'
<1>0. /\ op.at = "allocate" /\ op \in Operations /\ op.id \in Alive(rows) /\ op.id \in Ids
      /\ op.at # "sync" /\ rows \in [Ids -> Rows] /\ Row.port = NoPort
      /\ UNCHANGED <<rows, machine, foreign, job, routeVars>>
  BY OpStands DEF Allocate, Works, Working, RowsKept, Relies, Row
<1> DEFINE taken == {rows[i].port : i \in Live} \ {NoPort}
<1>1. op' = [op EXCEPT !.at = "probe", !.port = 1, !.taken = taken]
  BY DEF Allocate
<1>2. taken \in SUBSET Ports /\ \A i \in Alive(rows) : rows[i].port # NoPort => rows[i].port \in taken
  BY <1>0 DEF Rows, Live, Alive
<1>3. 1 \in 0..(LastPort + 1)
  BY FleetAssumption
<1> HIDE DEF taken
<1>4. op' \in Operations /\ op'.id = op.id /\ op'.port = 1 /\ op'.taken = taken /\ op'.at = "probe"
  BY <1>0, <1>1, <1>2, <1>3 DEF Operations, Places, Works
<1>5. Relies(op', rows, machine, job)
  BY <1>0, <1>2, <1>4 DEF Relies, Works, Row
<1> QED BY <1>0, <1>4, <1>5, OpOnly

\* A port is taken for the workspace that no live row holds.
LEMMA ProbeMoves ==
  ASSUME Working, Files, Awaited, Probe
  PROVE  Working' /\ Files' /\ Awaited'
<1>0. /\ op.at = "probe" /\ op \in Operations /\ op.id \in Alive(rows) /\ op.id \in Ids
      /\ op.at # "sync" /\ rows \in [Ids -> Rows] /\ Row.port = NoPort /\ op.port # 0
      /\ \A i \in Alive(rows) : rows[i].port # NoPort => rows[i].port \in op.taken
      /\ op.port \in 0..(LastPort + 1)
      /\ UNCHANGED <<rows, machine, foreign, job, routeVars>>
  BY OpStands DEF Probe, Works, Working, RowsKept, Relies, Row, Operations
<1>1. CASE Throws
  <2>1. op' \in Operations /\ Relies(op', rows, machine, job)
    BY <1>0, <1>1, ThrowsRelies
  <2> QED BY <1>0, <2>1, OpOnly
<1>2. CASE op.port <= LastPort /\ op' = [op EXCEPT !.port = @ + 1]
  <2>1. op.port + 1 \in 0..(LastPort + 1) /\ op.port + 1 # 0
    BY <1>0, <1>2, FleetAssumption
  <2>2. op' \in Operations /\ op'.id = op.id /\ op'.at = op.at /\ op'.taken = op.taken /\ op'.port = op.port + 1
    BY <1>0, <1>2, <2>1 DEF Operations
  <2>3. Relies(op', rows, machine, job)
    BY <1>0, <2>1, <2>2 DEF Relies, Works, Row
  <2> QED BY <1>0, <2>2, <2>3, OpOnly
<1>3. CASE op.port <= LastPort /\ op.port \notin op.taken \cup Bound /\ op' = [op EXCEPT !.at = "make", !.taken = {}]
  <2>1. op.port \in Ports
    BY <1>0, <1>3, FleetAssumption DEF Ports
  <2>2. op' \in Operations /\ op'.id = op.id /\ op'.at = "make" /\ op'.port = op.port
    BY <1>0, <1>3 DEF Operations, Places, Works
  <2>3. NoPort \notin Ports
    BY DEF NoPort, Ports
  <2>4. Chosen(rows, op')
    BY <1>0, <1>3, <2>1, <2>2, <2>3 DEF Chosen, Row
  <2>5. Relies(op', rows, machine, job)
    BY <1>0, <2>2, <2>4 DEF Relies, Works
  <2> QED BY <1>0, <2>2, <2>5, OpOnly
<1>4. op.port > LastPort \/ op.port <= LastPort
  BY <1>0, FleetAssumption
<1> QED BY <1>0, <1>1, <1>2, <1>3, <1>4, FleetAssumption DEF Probe

\* Another container is made for the operation, where nobody else's is.
LEMMA ChosenFree ==
  ASSUME Working, op.id \in Alive(rows), Chosen(rows, op)
  PROVE  \A i \in Alive(rows) : rows[i].port # NoPort => (rows[i].port = op.port <=> rows[i].slug = Row.slug)
<1> SUFFICES ASSUME NEW i \in Alive(rows), rows[i].port # NoPort
             PROVE  rows[i].port = op.port <=> rows[i].slug = Row.slug
  OBVIOUS
<1>1. CASE i = op.id
  BY <1>1 DEF Chosen, Row
<1>2. CASE i # op.id
  BY <1>2 DEF Chosen, Row, Working, RowsKept
<1> QED BY <1>1, <1>2

\* The node makes the container, for the operation or for nobody.
LEMMA MakeMoves ==
  ASSUME Working, Files, Awaited, Make
  PROVE  Working' /\ Files' /\ Awaited'
<1>0. /\ op.at = "make" /\ op \in Operations /\ op.id \in Alive(rows) /\ op.id \in Ids
      /\ op.at # "sync" /\ RowsKept(rows) /\ AtHome(rows, machine) /\ Chosen(rows, op)
      /\ Row.slug \in Slugs /\ op.port \in Ports /\ machine \in [Slugs -> Machines]
      /\ UNCHANGED <<rows, foreign, routeVars>>
  BY OpStands DEF Make, Works, Working, Relies, FilledRow, Chosen, AtHome
<1> DEFINE m == Made(Row.slug, op.port)
<1>1. /\ AtHome(rows, m) /\ m[Row.slug].port = op.port
      /\ m[Row.slug].state = "running" => \A x \in Slugs : IsUp(m, x) /\ m[x].port = op.port => x = Row.slug
  BY <1>0, ChosenFree, MadeAtHome
<1> HIDE DEF m
<1>2. Throws => op' \in Operations /\ Relies(op', rows, machine', job')
  BY <1>0, ThrowsRelies
<1>3. Files' /\ Awaited'
  BY <1>0, RouteStill
<1>4. CASE ~Busy /\ machine' = m /\ Throws /\ UNCHANGED job
  BY <1>0, <1>1, <1>2, <1>3, <1>4 DEF Working
<1>5. CASE ~Busy /\ machine' = m /\ machine'[Row.slug].state = "running" /\ Steps("save") /\ UNCHANGED job
  <2>1. op' \in Operations /\ op'.at = "save" /\ op'.id = op.id /\ op'.port = op.port
    BY <1>0, <1>5 DEF Steps, Operations, Places, Works
  <2>2. Chosen(rows, op')
    BY <1>0, <2>1 DEF Chosen
  <2>3. job = NoRow
    BY <1>5 DEF Busy
  <2>4. Relies(op', rows, m, job)
    BY <1>0, <1>1, <1>5, <2>1, <2>2, <2>3 DEF Relies, Works, Row
  <2> QED BY <1>0, <1>1, <1>3, <1>5, <2>1, <2>4 DEF Working
<1>6. CASE Throws /\ UNCHANGED <<machine, job>>
  BY <1>0, <1>2, <1>3, <1>6 DEF Working
<1>7. CASE Throws /\ job' = [NoRow EXCEPT !.slug = Row.slug, !.port = op.port] /\ UNCHANGED machine
  <2>1. job' \in Rows /\ job'.slug = Row.slug /\ job'.port = op.port
    BY <1>0, <1>7, NoRowTyped DEF Rows
  <2>2. Orphan(rows, job')
    BY <1>0, <2>1, ChosenFree DEF Orphan
  <2> QED BY <1>0, <1>2, <1>3, <1>7, <2>2 DEF Working
<1>8. CASE Throws /\ machine' = [machine EXCEPT ![Row.slug] = NoMachine] /\ UNCHANGED job
  <2>1. AtHome(rows, machine')
    BY <1>0, <1>8, OneQuieter, QuieterKeeps
  <2> QED BY <1>0, <1>2, <1>3, <1>8, <2>1 DEF Working
<1> QED BY <1>4, <1>5, <1>6, <1>7, <1>8 DEF Make, m

\* The row takes the port at which its container was made.
LEMMA SaveMoves ==
  ASSUME Working, Files, Awaited, SaveMade
  PROVE  Working' /\ Files' /\ Awaited'
<1>0. /\ op.at = "save" /\ op \in Operations /\ op.id \in Alive(rows) /\ op.id \in Ids
      /\ op.at # "sync" /\ RowsKept(rows) /\ AtHome(rows, machine) /\ Chosen(rows, op)
      /\ Row \in Rows /\ FilledRow(Row) /\ job = NoRow
      /\ machine[Row.slug].state # "absent" => machine[Row.slug].port = op.port
      /\ \A s \in Slugs : IsUp(machine, s) /\ machine[s].port = op.port => s = Row.slug
      /\ UNCHANGED <<machine, foreign, job>> /\ UNCHANGED files
  BY OpStands DEF SaveMade, Works, Working, Relies, Quiet, Row
<1>1. CASE Throws /\ UNCHANGED <<rows, proj>>
  <2>1. op' \in Operations /\ Relies(op', rows, machine, job)
    BY <1>0, <1>1, ThrowsRelies
  <2>2. UNCHANGED routeVars
    BY <1>0, <1>1 DEF routeVars
  <2> QED BY <1>0, <1>1, <2>1, <2>2, OpOnly
<1>2. CASE Changes([Row EXCEPT !.status = "running", !.cid = TRUE, !.port = op.port]) /\ Sync("idle")
  <2> DEFINE x == [Row EXCEPT !.status = "running", !.cid = TRUE, !.port = op.port]
  <2>0. op.port \in Ports /\ op.port # NoPort
    BY <1>0 DEF Chosen, Ports, NoPort
  <2>1. x \in Rows /\ x.status = "running" /\ x.slug = Row.slug /\ x.owner = Row.owner /\ x.image = Row.image
        /\ x.port = op.port
    BY <1>0, <2>0 DEF Rows
  <2>2. rows' = [rows EXCEPT ![op.id] = x]
    BY <1>2 DEF Changes
  <2> HIDE DEF x
  <2>3. FilledRow(x)
    BY <1>0, <2>0, <2>1 DEF FilledRow
  <2>4. rows' \in [Ids -> Rows] /\ rows'[op.id] = x /\ \A i \in Ids \ {op.id} : rows'[i] = rows[i]
    BY <1>0, <2>1, <2>2 DEF RowsKept
  <2>5. Alive(rows') = Alive(rows)
    BY <1>0, <2>1, <2>4 DEF Alive
  <2>6. \A i \in Ids : rows'[i].slug = rows[i].slug /\ rows'[i].owner = rows[i].owner
    BY <2>1, <2>4 DEF Row
  <2>7. \A i \in Alive(rows) \ {op.id} : rows'[i] = rows[i] /\ rows[i].port # op.port
    BY <1>0, <2>4 DEF Chosen, Alive
  <2>8. RowsKept(rows')
    <3>1. \A i \in Ids : rows'[i] = NoRow \/ FilledRow(rows'[i])
      BY <1>0, <2>3, <2>4 DEF RowsKept
    <3>2. ASSUME NEW i \in Alive(rows'), NEW j \in Alive(rows'), i # j
          PROVE  rows'[i].slug # rows'[j].slug /\ (rows'[i].port = rows'[j].port => rows'[i].port = NoPort)
      <4>1. i \in Ids /\ j \in Ids
        BY DEF Alive
      <4>2. rows'[i].slug # rows'[j].slug
        BY <1>0, <2>5, <2>6, <3>2, <4>1 DEF RowsKept
      <4>3. CASE i # op.id /\ j # op.id
        BY <1>0, <2>5, <2>7, <3>2, <4>2, <4>3 DEF RowsKept
      <4>4. CASE i = op.id \/ j = op.id
        BY <2>1, <2>4, <2>5, <2>7, <3>2, <4>2, <4>4
      <4> QED BY <4>3, <4>4
    <3> QED BY <1>0, <2>4, <2>6, <3>1, <3>2 DEF RowsKept
  <2>9. AtHome(rows', machine)
    <3>1. ASSUME NEW i \in Alive(rows'), rows'[i].port # NoPort
          PROVE  /\ machine[rows'[i].slug].state # "absent" => machine[rows'[i].slug].port = rows'[i].port
                 /\ \A s \in Slugs : IsUp(machine, s) /\ machine[s].port = rows'[i].port => s = rows'[i].slug
      <4>1. CASE i = op.id
        BY <1>0, <2>1, <2>4, <4>1
      <4>2. CASE i # op.id
        BY <1>0, <2>5, <2>7, <3>1, <4>2 DEF AtHome
      <4> QED BY <4>1, <4>2
    <3> QED BY <1>0, <3>1 DEF AtHome
  <2>10. Orphan(rows', job)
    BY <1>0, NoRowTyped DEF Orphan
  <2>11. "idle" \in Nexts /\ "idle" # "rm_stop"
    BY DEF Nexts
  <2>12. op' \in Operations /\ Relies(op', rows', machine, job) /\ Files' /\ Awaited'
    BY <1>0, <1>2, <2>11, SyncRelies
  <2> QED BY <1>0, <2>8, <2>9, <2>10, <2>12 DEF Working
<1> QED BY <1>1, <1>2 DEF SaveMade

\* A container that is started answers at its row's port.
LEMMA StartedAtHome ==
  ASSUME NEW r, NEW m, RowsKept(r), AtHome(r, m), NEW i \in Alive(r), r[i].cid,
         m[r[i].slug].state # "absent"
  PROVE  AtHome(r, [m EXCEPT ![r[i].slug].state = "running"])
<1> DEFINE s == r[i].slug
           m2 == [m EXCEPT ![s].state = "running"]
<1>1. s \in Slugs /\ r[i].port # NoPort
  BY AliveFilled DEF FilledRow
<1>2. m[s] \in Machines /\ m[s].port = r[i].port
  BY <1>1 DEF AtHome
<1>3. m2 \in [Slugs -> Machines] /\ m2[s].port = m[s].port /\ m2[s].state # "absent"
      /\ \A x \in Slugs \ {s} : m2[x] = m[x]
  BY <1>1, <1>2 DEF AtHome, Machines
<1> HIDE DEF m2, s
<1>4. ASSUME NEW k \in Alive(r), r[k].port # NoPort
      PROVE  /\ m2[r[k].slug].state # "absent" => m2[r[k].slug].port = r[k].port
             /\ \A x \in Slugs : IsUp(m2, x) /\ m2[x].port = r[k].port => x = r[k].slug
  <2>1. /\ m[r[k].slug].state # "absent" => m[r[k].slug].port = r[k].port
        /\ \A x \in Slugs : IsUp(m, x) /\ m[x].port = r[k].port => x = r[k].slug
        /\ r[k].slug \in Slugs
    BY <1>4, AliveFilled DEF AtHome, FilledRow
  <2>2. r[k].port = r[i].port => k = i
    BY <1>4 DEF RowsKept
  <2>3. r[k].slug = s <=> k = i
    BY DEF RowsKept, s
  <2> QED BY <1>2, <1>3, <2>1, <2>2, <2>3 DEF IsUp
<1>5. AtHome(r, m2)
  BY <1>3, <1>4 DEF AtHome
<1> QED BY <1>5 DEF m2, s

\* start of a container that is there, or a rebuild without it.
LEMMA StartMoves ==
  ASSUME Working, Files, Awaited, StartMachine
  PROVE  Working' /\ Files' /\ Awaited'
<1>0. /\ op.at = "start" /\ op \in Operations /\ op.id \in Alive(rows) /\ op.id \in Ids
      /\ op.at # "sync" /\ RowsKept(rows) /\ AtHome(rows, machine) /\ rows[op.id].cid
      /\ UNCHANGED <<rows, foreign, job, routeVars>>
  BY OpStands DEF StartMachine, Works, Working, Relies
<1>1. ASSUME NEW at \in {"prepare", "started"}, Steps(at)
      PROVE  op' \in Operations /\ Relies(op', rows, machine', job)
  <2>1. op' \in Operations /\ op'.at \in Plain /\ op'.id = op.id
    BY <1>0, <1>1 DEF Steps, Operations, Places, Works, Plain
  <2> QED BY <1>0, <2>1, PlainRelies
<1>2. CASE Steps("prepare") /\ UNCHANGED machine
  <2>1. op' \in Operations /\ Relies(op', rows, machine, job)
    BY <1>1, <1>2
  <2> QED BY <1>0, <1>2, <2>1, OpOnly
<1>3. CASE Throws /\ UNCHANGED machine
  <2>1. op' \in Operations /\ Relies(op', rows, machine, job)
    BY <1>0, <1>3, ThrowsRelies
  <2> QED BY <1>0, <1>3, <2>1, OpOnly
<1>4. CASE /\ machine[Row.slug].state # "absent"
           /\ machine' = [machine EXCEPT ![Row.slug].state = "running"] /\ Steps("started")
  <2>1. AtHome(rows, machine')
    BY <1>0, <1>4, StartedAtHome DEF Row
  <2>2. op' \in Operations /\ Relies(op', rows, machine', job)
    BY <1>1, <1>4
  <2>3. Files' /\ Awaited'
    BY <1>0, RouteStill
  <2> QED BY <1>0, <2>1, <2>2, <2>3 DEF Working
<1> QED BY <1>2, <1>3, <1>4 DEF StartMachine

\* A container is stopped, or stopped and removed.
LEMMA StopMoves ==
  ASSUME Working, Files, Awaited, StopMachine
  PROVE  Working' /\ Files' /\ Awaited'
<1>0. /\ op.at \in {"stop", "rm_stop"} /\ op \in Operations /\ op.id \in Alive(rows) /\ op.id \in Ids
      /\ op.at # "sync" /\ RowsKept(rows) /\ machine \in [Slugs -> Machines] /\ Row.slug \in Slugs
      /\ UNCHANGED <<rows, foreign, job, routeVars>>
  BY OpStands DEF StopMachine, Works, Working, AtHome, FilledRow
<1>1. Throws => op' \in Operations /\ Relies(op', rows, machine, job)
  BY <1>0, ThrowsRelies
<1>2. CASE Steps(IF op.at = "stop" THEN "stopped" ELSE "retain")
           /\ machine' = [machine EXCEPT ![Row.slug] =
                            IF op.at = "rm_stop" THEN NoMachine
                            ELSE IF @.state = "absent" THEN @ ELSE [@ EXCEPT !.state = "down"]]
  <2>1. op' \in Operations /\ op'.at \in Plain /\ op'.id = op.id
    BY <1>0, <1>2 DEF Steps, Operations, Places, Works, Plain
  <2>2. Relies(op', rows, machine, job)
    BY <1>0, <2>1, PlainRelies
  <2>3. CASE op.at = "stop"
    <3>1. machine' = Stopped(Row.slug)
      BY <1>2, <2>3 DEF Stopped
    <3> QED BY <1>0, <2>1, <2>2, <3>1, StoppedQuieter, QuietMoves
  <2>4. CASE op.at = "rm_stop"
    <3>1. machine' = [machine EXCEPT ![Row.slug] = NoMachine]
      BY <1>2, <2>4
    <3> QED BY <1>0, <2>1, <2>2, <3>1, OneQuieter, QuietMoves
  <2> QED BY <1>0, <2>3, <2>4
<1>3. CASE Throws /\ machine' \in {machine, [machine EXCEPT ![Row.slug] = NoMachine]}
  <2>1. Quieter(machine, machine')
    BY <1>0, <1>3, OneQuieter
  <2> QED BY <1>0, <1>1, <1>3, <2>1, QuietMoves
<1> QED BY <1>2, <1>3 DEF StopMachine

-----------------------------------------------------------------------------
(* The world, and the projections.                                         *)

\* The node finishes the container made for nobody: no operation that relies
\* on what it made is under way.
LEMMA JobMoves ==
  ASSUME Working, Files, Awaited, JobEnds
  PROVE  Working' /\ Files' /\ Awaited'
<1>1. /\ job # NoRow /\ machine' = Made(job.slug, job.port) /\ job' = NoRow
      /\ UNCHANGED <<rows, foreign, op, routeVars>>
  BY DEF JobEnds
<1>2. /\ RowsKept(rows) /\ AtHome(rows, machine) /\ job.slug \in Slugs /\ job.port \in Ports
      /\ \A i \in Alive(rows) : rows[i].port # NoPort => (rows[i].port = job.port <=> rows[i].slug = job.slug)
  BY <1>1 DEF Working, Orphan
<1>3. AtHome(rows, machine')
  BY <1>1, <1>2, MadeAtHome
<1>4. Orphan(rows, job')
  BY <1>1, NoRowTyped DEF Orphan
<1>5. op.at # "save"
  BY <1>1 DEF Working, Relies
<1>6. Relies(op, rows, machine', job')
  BY <1>5 DEF Working, Relies
<1>7. Files' /\ Awaited'
  BY <1>1, RouteStill
<1> QED BY <1>1, <1>3, <1>4, <1>6, <1>7 DEF Working

\* The reconciler between operations.
LEMMA ReconcileMoves ==
  ASSUME Working, Files, Awaited, Reconcile
  PROVE  Working' /\ Files' /\ Awaited'
<1>1. /\ op = NoOp /\ proj["timer"] = NoProj /\ rows' = [i \in Ids |-> Reconciled(rows[i])]
      /\ proj' = [proj EXCEPT !["timer"].at = "read"]
      /\ UNCHANGED <<machine, foreign, op, job, files>>
  BY DEF Reconcile
<1>2. ASSUME NEW x \in Rows, x = NoRow \/ FilledRow(x)
      PROVE  /\ Reconciled(x) \in Rows /\ (Reconciled(x) = NoRow \/ FilledRow(Reconciled(x)))
             /\ Reconciled(x).slug = x.slug /\ Reconciled(x).owner = x.owner /\ Reconciled(x).port = x.port
             /\ Reconciled(x).status \notin {"none", "retained"} => x.status \notin {"none", "retained"}
  <2>1. CASE ~x.cid \/ x.status \notin {"running", "stopped"}
    BY <1>2, <2>1 DEF Reconciled
  <2>2. CASE x.cid /\ x.status \in {"running", "stopped"}
    <3>1. FilledRow(x)
      BY <1>2, <2>2, NoRowTyped
    <3>2. PICK t \in {"running", "stopped"} : Reconciled(x) = [x EXCEPT !.status = t]
      BY <2>2 DEF Reconciled
    <3> QED BY <1>2, <2>2, <3>1, <3>2 DEF FilledRow, Rows
  <2> QED BY <2>1, <2>2
<1>3. \A i \in Ids : rows[i] \in Rows /\ (rows[i] = NoRow \/ FilledRow(rows[i])) /\ rows'[i] = Reconciled(rows[i])
  BY <1>1 DEF Working, RowsKept
<1>4. Alike(rows, rows')
  BY <1>1, <1>2, <1>3 DEF Alike, Alive
<1>5. Relies(op', rows', machine, job) /\ op' \in Operations
  BY <1>1, NoOpRelies
<1> DEFINE q == [NoProj EXCEPT !.at = "read"]
<1>6. q \in Projections /\ q.at = "read" /\ q.fd = None
  BY NoProjTyped DEF Projections
<1>7. proj' = [proj EXCEPT !["timer"] = q] /\ "timer" \in Projectors /\ proj \in [Projectors -> Projections]
  BY <1>1 DEF Projectors, Files, Filed
<1> HIDE DEF q
<1>8. Files'
  BY <1>1, <1>6, <1>7, EarlyMoves
<1>9. Awaited'
  BY <1>1, <1>7 DEF Awaited, Projectors
<1> QED BY <1>1, <1>4, <1>5, <1>8, <1>9, RowsMove

\* Containers that go, and other programs.
LEMMA OutsideMoves ==
  ASSUME Working, Files, Awaited,
         \/ \E s \in Slugs : MachineGoes(s)
         \/ \E p \in Ports : ProgramListens(p) \/ ProgramLeaves(p)
  PROVE  Working' /\ Files' /\ Awaited'
<1>1. ASSUME NEW s \in Slugs, MachineGoes(s) PROVE Working' /\ Files' /\ Awaited'
  <2>1. UNCHANGED <<rows, foreign, op, job, routeVars>>
    BY <1>1 DEF MachineGoes
  <2>2. machine \in [Slugs -> Machines]
    BY DEF Working, AtHome
  <2>3. Quieter(machine, machine')
    BY <1>1, <2>2, OneQuieter DEF MachineGoes, Up
  <2>4. AtHome(rows, machine') /\ Relies(op, rows, machine', job)
    BY <2>3, QuieterKeeps DEF Working
  <2>5. Files' /\ Awaited'
    BY <2>1, RouteStill
  <2> QED BY <2>1, <2>4, <2>5 DEF Working
<1>2. ASSUME NEW p \in Ports, ProgramListens(p) \/ ProgramLeaves(p) PROVE Working' /\ Files' /\ Awaited'
  <2>1. UNCHANGED <<rows, machine, op, job, routeVars>> /\ (foreign \in SUBSET Ports => foreign' \in SUBSET Ports)
    BY <1>2 DEF ProgramListens, ProgramLeaves
  <2>2. Files' /\ Awaited'
    BY <2>1, RouteStill
  <2> QED BY <2>1, <2>2 DEF Working
<1> QED BY <1>1, <1>2

\* A projection, and how the operation that waits for it goes on.
LEMMA ProjectMoves ==
  ASSUME Working, Files, Awaited, NEW x \in Projectors, Projecting(x)
  PROVE  Working' /\ Files' /\ Awaited'
<1>0. RowsKept(rows) /\ proj \in [Projectors -> Projections] /\ NoProj.at = "off" /\ x \in {"queue", "timer"}
  BY NoProjTyped DEF Working, Files, Filed, Projectors
<1>1. CASE ReadRoutes(x) \/ OpenFile(x) \/ WriteFile(x)
  <2>1. Files'
    BY <1>0, <1>1, ReadMoves, OpenMoves, WriteMoves
  <2>2. UNCHANGED workspaces
    BY <1>1 DEF ReadRoutes, OpenFile, WriteFile
  <2>3. Working'
    BY <2>2 DEF workspaces, Working
  <2>4. proj[x].at # "off"
    BY <1>1 DEF ReadRoutes, OpenFile, WriteFile
  <2>5. proj'["queue"].at # "off" => proj["queue"].at # "off"
    <3>1. CASE x = "queue"
      BY <2>4, <3>1
    <3>2. CASE x # "queue"
      <4>1. CASE ReadRoutes(x) \/ WriteFile(x)
        <5>1. proj'["queue"] = proj["queue"]
          BY <1>0, <3>2, <4>1 DEF ReadRoutes, WriteFile, Projectors
        <5> QED BY <5>1
      <4>2. CASE OpenFile(x)
        <5>1. proj'["queue"] = IF Writing("queue") THEN [proj["queue"] EXCEPT !.alone = FALSE] ELSE proj["queue"]
          BY <3>2, <4>2 DEF OpenFile, Projectors
        <5>2. proj["queue"] \in Projections
          BY <1>0 DEF Projectors
        <5> QED BY <5>1, <5>2 DEF Projections
      <4> QED BY <1>1, <4>1, <4>2
    <3> QED BY <3>1, <3>2
  <2> QED BY <2>1, <2>2, <2>3, <2>5 DEF Awaited, workspaces
<1>2. CASE RenameFile(x)
  <2>1. Files'
    BY <1>2, RenameMoves
  <2>2. UNCHANGED <<rows, machine, foreign, job>> /\ proj' = [proj EXCEPT ![x] = NoProj] /\ proj[x].at = "rename"
        /\ (Projected(x, TRUE) \/ Projected(x, FALSE))
    BY <1>2 DEF RenameFile
  <2>3. CASE x = "timer"
    <3>1. op' = op
      BY <2>2, <2>3 DEF Projected
    <3>2. proj'["queue"] = proj["queue"]
      BY <1>0, <2>2, <2>3 DEF Projectors
    <3> QED BY <2>1, <2>2, <3>1, <3>2 DEF Working, Awaited
  <2>4. CASE x = "queue"
    <3>1. op.at = "sync" /\ op \in Operations /\ op.id \in Ids
      BY <2>2, <2>4, OpStands DEF Awaited
    <3>2. proj'["queue"].at = "off"
      BY <1>0, <2>2, <2>4
    <3>3. CASE op' = NoOp
      <4>1. op' \in Operations /\ Relies(op', rows, machine, job)
        BY <3>3, NoOpRelies
      <4> QED BY <2>1, <2>2, <3>2, <4>1 DEF Working, Awaited
    <3>4. CASE Throws
      <4>1. op' \in Operations /\ Relies(op', rows, machine, job)
        BY <3>1, <3>4, ThrowsRelies
      <4> QED BY <2>1, <2>2, <3>2, <4>1 DEF Working, Awaited
    <3>5. CASE op.then \notin {"idle", "thrown"} /\ op' = [op EXCEPT !.at = op.then]
      <4>1. op.then = "rm_stop"
        BY <3>1, <3>5 DEF Operations, Nexts
      <4>2. op.id \in Alive(rows)
        BY <3>1, <4>1 DEF Working, Relies
      <4>3. op' \in Operations /\ op'.at \in Plain /\ op'.id = op.id
        BY <3>1, <3>5, <4>1 DEF Operations, Places, Works, Plain
      <4>4. Relies(op', rows, machine, job)
        BY <4>2, <4>3, PlainRelies
      <4> QED BY <2>1, <2>2, <3>2, <4>3, <4>4 DEF Working, Awaited
    <3> QED BY <2>2, <2>4, <3>3, <3>4, <3>5 DEF Projected
  <2> QED BY <1>0, <2>3, <2>4
<1> QED BY <1>1, <1>2 DEF Projecting

-----------------------------------------------------------------------------
(* The invariant.                                                          *)

\* What the operations and the world do to the versions: a download at most.
LEMMA VersionsMove ==
  ASSUME Requested, Working, Operation \/ World \/ \E x \in Projectors : Projecting(x)
  PROVE  Requested' /\ UNCHANGED <<published, default, admin>>
<1> DEFINE Still == /\ UNCHANGED <<published, default, catalog, admin>> /\ local' \in SUBSET Refs
                    /\ called' = called \/ Costs(2)
                    /\ faults' = faults \/ Fault
<1>0. ReleasesOK
  BY DEF Requested
<1>1. local \in SUBSET Refs
  BY <1>0 DEF ReleasesOK
<1>2. ASSUME NEW i \in Ids,
             \/ \E s \in Slugs, o \in Owners, r \in Refs \cup {None} : Create(i, s, o, r)
             \/ Restart(i) \/ Start(i) \/ Stop(i) \/ Delete(i)
      PROVE  Still
  BY <1>1, <1>2 DEF Create, Restart, Start, Stop, Delete, Begins, images, tables
<1>3. ASSUME Prepare PROVE Still
  <2>1. Row.image \in Refs
    BY <1>3, OpStands DEF Prepare, Works, FilledRow
  <2> QED BY <1>1, <1>3, <2>1 DEF Prepare, tables
<1>4. ASSUME Allocate \/ Probe \/ Make \/ SaveMade PROVE Still
  BY <1>1, <1>4 DEF Allocate, Probe, Make, SaveMade, Quiet, releaseVars, images, tables
<1>5. ASSUME StartMachine \/ StopMachine \/ FailWith PROVE Still
  BY <1>1, <1>5 DEF StartMachine, StopMachine, FailWith, Quiet, images, tables
<1>6. ASSUME Updating PROVE Still
  BY <1>1, <1>6 DEF Updating, Update, Quiet, images, tables
<1>7. ASSUME World PROVE Still
  BY <1>1, <1>7 DEF World, JobEnds, Reconcile, MachineGoes, ProgramListens, ProgramLeaves, releaseVars, images, tables
<1>8. ASSUME NEW x \in Projectors, Projecting(x) PROVE Still
  BY <1>1, <1>8 DEF Projecting, ReadRoutes, OpenFile, WriteFile, RenameFile, releaseVars, images, tables
<1>9. Still
  BY <1>2, <1>3, <1>4, <1>5, <1>6, <1>7, <1>8 DEF Operation, Rebuilding
<1>10. called' \in 0..MaxCalls /\ faults' \in 0..MaxFaults
  BY <1>0, <1>9, Bounds DEF ReleasesOK
<1> QED BY <1>9, <1>10, RequestsRest DEF tables

\* It holds at first.
LEMMA FInvInit == Init => FInv
<1> SUFFICES ASSUME Init PROVE FInv
  OBVIOUS
<1>1. Requested
  <2>1. \A c \in Calls : admin[c] = NoCall
    BY DEF Init, NoRequests
  <2>2. \A c \in Calls : Sound(admin[c], published)
    BY <2>1, NoCallSound
  <2>3. NoCall \in Asked
    BY NoCallSound DEF Sound
  <2>4. admin \in [Calls -> Asked] /\ called \in 0..MaxCalls /\ faults \in 0..MaxFaults
    BY <2>3, ReleasesAssumption DEF Init, NoRequests
  <2>5. published \in SUBSET Refs /\ default \in published \cup {None} /\ catalog \in SUBSET Refs /\ local \in SUBSET Refs
    BY DEF Init, Fresh, Established, NothingPublished, AllPublished
  <2>6. ReleasesOK
    BY <2>4, <2>5 DEF ReleasesOK, Asked
  <2> QED BY <2>2, <2>6 DEF Requested, Sound
<1>2. NoMachine \in Machines /\ NoMachine.state = "absent"
  BY DEF NoMachine, Machines
<1>3. op = NoOp /\ job = NoRow /\ foreign = {}
  BY DEF Init
<1>4. RowsKept(rows) /\ AtHome(rows, machine)
  <2>1. CASE Fresh
    <3>1. rows = [i \in Ids |-> NoRow] /\ machine = [s \in Slugs |-> NoMachine]
      BY <2>1 DEF Fresh
    <3>2. Alive(rows) = {}
      BY <3>1, NoRowTyped DEF Alive
    <3> QED BY <1>2, <3>1, <3>2, NoRowTyped DEF RowsKept, AtHome
  <2>2. ASSUME NEW i \in Ids, NEW s \in Slugs, NEW o \in Owners, NEW r \in Refs, Established(i, s, o, r)
        PROVE  RowsKept(rows) /\ AtHome(rows, machine)
    <3> DEFINE x == [status |-> "running", slug |-> s, owner |-> o, image |-> r, port |-> 1, cid |-> TRUE]
               up == [state |-> "running", port |-> 1]
    <3>1. rows = [j \in Ids |-> IF j # i THEN NoRow ELSE x]
          /\ machine = [y \in Slugs |-> IF y = s THEN up ELSE NoMachine]
      BY <2>2 DEF Established
    <3>2. 1 \in Ports /\ 1 # NoPort
      BY FleetAssumption DEF Ports, NoPort
    <3>3. x \in Rows /\ FilledRow(x) /\ x.status = "running" /\ x.slug = s /\ x.port = 1
      BY <3>2 DEF Rows, FilledRow
    <3>4. up \in Machines /\ up.port = 1 /\ up.state = "running"
      BY <3>2 DEF Machines
    <3> HIDE DEF x, up
    <3>5. Alive(rows) = {i} /\ rows[i] = x /\ \A j \in Ids \ {i} : rows[j] = NoRow
      BY <3>1, <3>3, NoRowTyped DEF Alive
    <3>6. RowsKept(rows)
      <4>1. \A j, k \in Ids : rows[j].slug = rows[k].slug => rows[j].owner = rows[k].owner
        BY <3>3, <3>5, NoRowTyped, FleetAssumption
      <4> QED BY <3>1, <3>3, <3>5, <4>1, NoRowTyped DEF RowsKept
    <3>7. machine \in [Slugs -> Machines]
      BY <1>2, <3>1, <3>4
    <3>8. AtHome(rows, machine)
      BY <1>2, <3>1, <3>3, <3>4, <3>5, <3>7 DEF AtHome, IsUp
    <3> QED BY <3>6, <3>8
  <2> QED BY <2>1, <2>2 DEF Init
<1>5. Working
  BY <1>3, <1>4, NoOpRelies, NoRowTyped DEF Working, Orphan
<1>6. Files
  <2>1. \A n \in Inodes : text[n] \in Texts
    BY DEF Init, Whole, Empty, Texts
  <2>2. text \in [Inodes -> Texts] /\ text[1].kind = "whole" /\ conf = 1 /\ 1 \in Inodes /\ tmp = None /\ settled = TRUE
    BY <2>1 DEF Init, Whole, Inodes
  <2>3. proj \in [Projectors -> Projections] /\ \A y \in Projectors : proj[y] = NoProj
    BY NoProjTyped DEF Init
  <2>4. None # 1
    BY <2>2, FleetAssumption
  <2> QED BY <2>2, <2>3, <2>4, NoProjTyped DEF Files, Filed, Busied
<1>7. Awaited
  BY NoProjTyped DEF Init, Awaited, Projectors
<1> QED BY <1>1, <1>5, <1>6, <1>7 DEF FInv

\* Every step keeps it.
LEMMA FInvNext == FInv /\ [Next]_vars => FInv'
<1> SUFFICES ASSUME FInv, [Next]_vars PROVE FInv'
  OBVIOUS
<1>0. Requested /\ Working /\ Files /\ Awaited
  BY DEF FInv
<1>1. CASE Administration
  <2>1. PICK c \in Calls : Requests(c, NodeBusy) /\ UNCHANGED <<workspaces, routeVars>>
    BY <1>1 DEF Administration
  <2>2. Requested'
    BY <1>0, <2>1, AdminMoves
  <2>3. Working' /\ Files' /\ Awaited'
    BY <1>0, <2>1, RouteStill DEF Working, workspaces
  <2> QED BY <2>2, <2>3 DEF FInv
<1>2. CASE Operation
  <2>1. Requested'
    BY <1>0, <1>2, VersionsMove
  <2>2. Working' /\ Files' /\ Awaited'
    BY <1>0, <1>2, CreateMoves, BeginMoves, PrepareMoves, AllocateMoves, ProbeMoves, MakeMoves, SaveMoves,
       StartMoves, StopMoves, UpdatingMoves, FailMoves DEF Operation, Rebuilding
  <2> QED BY <2>1, <2>2 DEF FInv
<1>3. CASE World
  <2>1. Requested'
    BY <1>0, <1>3, VersionsMove
  <2>2. Working' /\ Files' /\ Awaited'
    BY <1>0, <1>3, JobMoves, ReconcileMoves, OutsideMoves DEF World
  <2> QED BY <2>1, <2>2 DEF FInv
<1>4. CASE \E x \in Projectors : Projecting(x)
  <2>1. Requested'
    BY <1>0, <1>4, VersionsMove
  <2>2. Working' /\ Files' /\ Awaited'
    BY <1>0, <1>4, ProjectMoves
  <2> QED BY <2>1, <2>2 DEF FInv
<1>5. CASE UNCHANGED vars
  <2>1. UNCHANGED <<published, default, catalog, local, admin, called, faults>>
        /\ UNCHANGED <<rows, machine, foreign, op, job>> /\ UNCHANGED routeVars
    BY <1>5 DEF vars, releaseVars, images, tables, workspaces
  <2>2. Requested'
    BY <1>0, <2>1 DEF Requested, ReleasesOK
  <2>3. Working' /\ Files' /\ Awaited'
    BY <1>0, <2>1, RouteStill DEF Working
  <2> QED BY <2>2, <2>3 DEF FInv
<1> QED BY <1>1, <1>2, <1>3, <1>4, <1>5 DEF Next

\* FInv holds throughout.
LEMMA FleetInvariant == Spec => []FInv
  BY FInvInit, FInvNext, PTL DEF Spec

\* Versions, rows, containers and files keep their types, whatever the
\* workspaces, ports and requests; and the default is a published version.
THEOREM TypeCorrect == Spec => []TypeOK
<1>1. FInv => TypeOK
  <2> SUFFICES ASSUME FInv PROVE TypeOK
    OBVIOUS
  <2>1. ReleasesOK /\ foreign \in SUBSET Ports /\ job \in Rows /\ rows \in [Ids -> Rows]
    BY DEF FInv, Requested, Working, Orphan, RowsKept
  <2>2. machine \in [Slugs -> [state : {"absent", "down", "running"}, port : Ports \cup {NoPort}]]
    BY DEF FInv, Working, AtHome, Machines
  <2>3. tmp \in Inodes \cup {None} /\ conf \in Inodes /\ text \in [Inodes -> Texts]
        /\ proj \in [Projectors -> Projections]
    BY DEF FInv, Files, Filed
  <2> QED BY <2>1, <2>2, <2>3 DEF TypeOK, Texts, Projections
<1> QED BY <1>1, FleetInvariant, PTL

\* Visitors of a workspace are never sent to another one's container, however
\* many workspaces and ports there are: the port of a row is its container's,
\* or nobody's (provisioner.ts, port-allocator.ts).
THEOREM VisitorsLedHome == Spec => []LeadsHome
<1>1. FInv => LeadsHome
  <2> SUFFICES ASSUME FInv PROVE LeadsHome
    OBVIOUS
  <2>1. RowsKept(rows) /\ AtHome(rows, machine) /\ Live = Alive(rows)
    BY DEF FInv, Working, Live, Alive
  <2> QED BY <2>1 DEF LeadsHome, RowsKept, AtHome, IsUp, Up
<1> QED BY <1>1, FleetInvariant, PTL

\* A projection that no other overlaps leaves a whole file, for any workspaces
\* (dynamic-config.ts).
THEOREM RoutesAlwaysWhole == Spec => []RoutesWhole
<1>1. FInv => RoutesWhole
  BY DEF FInv, Files, Filed, RoutesWhole
<1> QED BY <1>1, FleetInvariant, PTL

\* The default is lost only to a setDefault whose version was taken back after
\* it had looked (image-release-repo.ts), however many requests run at once.
THEOREM DefaultAlwaysKept == Spec => DefaultKept
<1>1. ASSUME FInv, [Next]_vars, default # None, default' = None
      PROVE  \E c \in Calls : admin[c].held /\ admin[c].gone
  <2>0. Requested /\ Working /\ default' # default /\ \A r \in Refs : r # None
    BY <1>1, ReleasesAssumption DEF FInv
  <2>1. CASE Administration
    <3>1. PICK c \in Calls : Requests(c, NodeBusy)
      BY <2>1 DEF Administration
    <3>2. admin[c].at \in About => admin[c].ref \in Refs
      BY <2>0 DEF Requested
    <3>3. CASE Publishing(c)
      BY <1>1, <2>0, <3>2, <3>3 DEF Publishing, PublishChecks, PublishReads, PublishInserts, tables, About
    <3>4. CASE DefaultMarks(c)
      <4>1. default' = AfterMark(c) /\ admin[c].at = "default_marks"
        BY <3>4 DEF DefaultMarks
      <4>2. admin[c].ref \in Refs
        BY <3>2, <4>1 DEF About, Defaulting
      <4>3. admin[c].held /\ admin[c].ref \notin published
        BY <1>1, <2>0, <4>1, <4>2 DEF AfterMark
      <4>4. admin[c].gone
        BY <2>0, <4>1, <4>3 DEF Requested, Defaulting
      <4> QED BY <4>3, <4>4
    <3>5. CASE DefaultLooks(c) \/ DefaultClears(c) \/ DefaultFails(c)
      BY <2>0, <3>5 DEF DefaultLooks, DefaultClears, DefaultFails, tables
    <3>6. CASE Unpublish(c) \/ Synchronising(c) \/ PullSteps(c, NodeBusy)
      BY <2>0, <3>6 DEF Unpublish, Synchronising, SyncReads, SyncSaves, SyncPrunes, PullSteps, PullBegins,
                        PullOpens, BrowserLeaves, PullEnds, tables
    <3>7. CASE AskSync(c) \/ \E r \in Refs : AskPublish(c, r) \/ AskUnpublish(c, r) \/ AskDefault(c, r) \/ AskPull(c, r)
      BY <2>0, <3>7 DEF AskSync, AskPublish, AskUnpublish, AskDefault, AskPull, Asks, tables
    <3> QED BY <3>1, <3>3, <3>4, <3>5, <3>6, <3>7 DEF Requests, SettingDefault
  <2>2. CASE Operation \/ World \/ \E x \in Projectors : Projecting(x)
    BY <2>0, <2>2, VersionsMove
  <2>3. CASE UNCHANGED vars
    BY <2>0, <2>3 DEF vars, releaseVars, images, tables
  <2> QED BY <1>1, <2>1, <2>2, <2>3 DEF Next
<1>2. FInv /\ [Next]_vars => [default # None /\ default' = None
                               => \E c \in Calls : admin[c].held /\ admin[c].gone]_vars
  BY <1>1
<1> QED BY <1>2, FleetInvariant, PTL DEF Spec, DefaultKept
=============================================================================
