------------------------------- MODULE Fleet -------------------------------
(***************************************************************************)
(* Several workspaces on one machine: their rows and names                 *)
(* (db/instance-repo.ts), the host ports their containers publish           *)
(* (instance/port-allocator.ts, instance/provisioner.ts), the images they   *)
(* are made from (ImageReleases), and the one file the proxy reads its       *)
(* routes from, written by two projections at once                         *)
(* (instance/routes-sync.ts, instance/dynamic-config.ts).                   *)
(*                                                                         *)
(* InstanceLifecycle looks at one workspace in depth: its data, its         *)
(* snapshots, boot and crashes.  Here those are left out, and what several  *)
(* workspaces share is kept.                                               *)
(***************************************************************************)
EXTENDS ImageReleases

CONSTANTS Ids,      \* workspaces, each used once
          Slugs,    \* their names, which are also their machines' names
          Owners,
          LastPort, \* the ports are 1 .. LastPort
          Limit     \* workspaces a user may have

Inodes == 1..3

ASSUME FleetAssumption ==
    /\ None \notin Ids \cup Slugs \cup Owners \cup Inodes
    /\ LastPort \in Nat \ {0}
    /\ Limit \in Nat

VARIABLES rows,     \* the instance table, deleted rows included
          machine,  \* the containers, by name
          foreign,  \* the ports other programs of the machine listen on
          op,       \* the operation the queue runs
          job,      \* a container being made though its caller gave up
          proj,     \* the route projections: the queue's and the timer's
          tmp,      \* the file that routes.yml.tmp names, None without one
          conf,     \* the file that routes.yml names
          text,     \* what each file holds
          settled   \* history: routes.yml comes from a projection nobody overlapped

workspaces == <<rows, machine, foreign, op, job>>
files == <<tmp, conf, text, settled>>
routeVars == <<proj, files>>
vars == <<releaseVars, workspaces, routeVars>>

Ports == 1..LastPort
NoPort == 0

Transit == {"provisioning", "removing"}
NoRow == [status |-> "none", slug |-> None, owner |-> None, image |-> None,
          port |-> NoPort, cid |-> FALSE]

Live == {i \in Ids : rows[i].status \notin {"none", "retained"}}

NoMachine == [state |-> "absent", port |-> NoPort]
Up(s) == machine[s].state = "running"
Bound == foreign \cup {machine[s].port : s \in {x \in Slugs : Up(x)}}

\* taken, port: what allocateHostPort has read, and the port it tries.
\* bare: start without a container rebuilds outside the try block.
\* then: where the operation goes on after its projection.
NoOp == [at |-> "idle", do |-> "none", id |-> None, taken |-> {}, port |-> NoPort,
         bare |-> FALSE, then |-> "idle"]

Row == rows[op.id]

Changes(r) == rows' = [rows EXCEPT ![op.id] = r]
Steps(at) == op' = [op EXCEPT !.at = at]
Throws == op' = IF op.bare THEN NoOp ELSE [op EXCEPT !.at = "fail"]

\* The node runs one mutation at a time; a pull is one.
Busy == job # NoRow \/ Pulling

-----------------------------------------------------------------------------
(* The projection of the routes (writeDynamicConfig): read, open the         *)
(* temporary file, write it, rename it.                                    *)

Projectors == {"queue", "timer"}
NoProj == [at |-> "off", want |-> {}, fd |-> None, alone |-> TRUE]

Whole(w) == [kind |-> "whole", slugs |-> w]
Empty == [kind |-> "empty", slugs |-> {}]
Torn == [kind |-> "torn", slugs |-> {}]

Writing(x) == proj[x].at \in {"write", "rename"}
Unused == CHOOSE n \in Inodes : n \notin {tmp, conf} \cup {proj[x].fd : x \in Projectors}

Routable(seen) ==
    {rows[i].slug : i \in {j \in Live :
        /\ rows[j].status \notin Transit
        /\ rows[j].port # NoPort
        /\ IF seen THEN Up(rows[j].slug) ELSE rows[j].status = "running"}}

\* listAllInstances and listInstanceStates; without the states, the intent.
ReadRoutes(x) ==
    /\ proj[x].at = "read"
    /\ \/ proj' = [proj EXCEPT ![x].at = "open", ![x].want = Routable(TRUE)] /\ UNCHANGED faults
       \/ Fault /\ proj' = [proj EXCEPT ![x].at = "open", ![x].want = Routable(FALSE)]
    /\ UNCHANGED <<images, called, workspaces, files>>

\* Slip: routes.yml itself is opened and cut.
OpenInPlace(x) ==
    /\ proj[x].at = "open"
    /\ proj' = [proj EXCEPT ![x].at = "write", ![x].fd = conf]
    /\ text' = [text EXCEPT ![conf] = Empty]
    /\ tmp' = conf
    /\ UNCHANGED <<releaseVars, workspaces, conf, settled>>

\* Open for writing: a new file, or the one somebody else is writing, cut to
\* nothing.
OpenFile(x) ==
    /\ proj[x].at = "open"
    /\ LET n == IF tmp = None THEN Unused ELSE tmp
           lone == \A y \in Projectors \ {x} : ~Writing(y)
       IN /\ tmp' = n
          /\ text' = [text EXCEPT ![n] = Empty]
          /\ proj' = [y \in Projectors |->
                IF y = x THEN [proj[x] EXCEPT !.at = "write", !.fd = n, !.alone = lone]
                ELSE IF Writing(y) THEN [proj[y] EXCEPT !.alone = FALSE] ELSE proj[y]]
    /\ UNCHANGED <<releaseVars, workspaces, conf, settled>>

\* The text goes over what is there from the start: something longer shows
\* behind its end.
Over(new, old) ==
    IF old.kind = "empty" \/ (old.kind = "whole" /\ old.slugs \subseteq new)
    THEN {Whole(new)} ELSE {Whole(new), Torn}

WriteFile(x) ==
    /\ proj[x].at = "write"
    /\ \E t \in Over(proj[x].want, text[proj[x].fd]) : text' = [text EXCEPT ![proj[x].fd] = t]
    /\ proj' = [proj EXCEPT ![x].at = "rename", ![x].fd = None]
    /\ UNCHANGED <<releaseVars, workspaces, tmp, conf, settled>>

\* What follows: the operation goes on, or fails; the timer only warns.
Projected(x, ok) ==
    IF x = "timer" THEN UNCHANGED op
    ELSE IF ok \/ op.then = "thrown" THEN op' = IF op.then \in {"idle", "thrown"} THEN NoOp
                                                ELSE [op EXCEPT !.at = op.then]
    ELSE Throws

\* Whoever renames second finds no such file.  A file without a name that
\* nobody writes is gone.
RenameFile(x) ==
    /\ proj[x].at = "rename"
    /\ proj' = [proj EXCEPT ![x] = NoProj]
    /\ IF tmp # None
       THEN /\ conf' = tmp /\ tmp' = None
            /\ settled' = proj[x].alone
            /\ Projected(x, TRUE)
       ELSE UNCHANGED <<tmp, conf, settled>> /\ Projected(x, FALSE)
    /\ text' = [n \in Inodes |->
                   IF n \in {tmp', conf'} \cup {proj[y].fd : y \in Projectors} THEN text[n] ELSE Empty]
    /\ UNCHANGED <<releaseVars, rows, machine, foreign, job>>

Projecting(x) == ReadRoutes(x) \/ OpenFile(x) \/ WriteFile(x) \/ RenameFile(x)

\* syncRoutes as a step of the running operation.
Sync(then) ==
    /\ op' = [op EXCEPT !.at = "sync", !.then = then]
    /\ proj' = [proj EXCEPT !["queue"] = [NoProj EXCEPT !.at = "read"]]

-----------------------------------------------------------------------------
(* The operations of the provisioner.                                      *)

Begins(o) ==
    /\ op = NoOp
    /\ Costs(2)
    /\ op' = o
    /\ UNCHANGED <<images, faults, rows, machine, foreign, job, routeVars>>

Quiet == UNCHANGED <<images, called, foreign, files>>

\* failWith: the error is recorded (a deleted row takes no update: the deletion
\* is done although its projection failed), and the routes are projected,
\* whatever comes of that.
FailWith ==
    /\ op.at = "fail"
    /\ \/ /\ IF op.id \in Live THEN Changes([Row EXCEPT !.status = "error"]) ELSE UNCHANGED rows
          /\ Sync("thrown")
          /\ UNCHANGED faults
       \/ Fault /\ op' = NoOp /\ UNCHANGED <<rows, proj>>
    /\ UNCHANGED <<machine, job>> /\ Quiet

\* create: image, name and owner come with the request.
Create(i, s, o, r) ==
    /\ rows[i] = NoRow
    /\ op = NoOp
    /\ Costs(2)
    /\ LET image == IF r = None THEN default ELSE r
           free == \A j \in Ids : rows[j].slug = s => j \notin Live /\ rows[j].owner = o
           used == Cardinality({j \in Live : rows[j].owner = o})
       IN /\ image # None /\ image \in published
          /\ used < Limit
          /\ free
          /\ rows' = [rows EXCEPT ![i] = [NoRow EXCEPT !.status = "provisioning", !.slug = s,
                                                       !.owner = o, !.image = image]]
          /\ op' = [NoOp EXCEPT !.at = "prepare", !.do = "create", !.id = i]
    /\ UNCHANGED <<images, faults, machine, foreign, job, routeVars>>

Restart(i) == i \in Live /\ Begins([NoOp EXCEPT !.at = "prepare", !.do = "restart", !.id = i])

\* applyRuntime up to the port: data, image, stop.
Prepare ==
    /\ op.at = "prepare"
    /\ \/ /\ ~Busy
          /\ local' = local \cup {Row.image}
          /\ machine' = [machine EXCEPT ![Row.slug] =
                            IF @.state = "absent" THEN @ ELSE [@ EXCEPT !.state = "down"]]
          /\ op' = [op EXCEPT !.at = IF Row.port = NoPort THEN "allocate" ELSE "make",
                              !.port = Row.port]
          /\ UNCHANGED faults
       \/ Busy /\ Throws /\ UNCHANGED <<local, machine, faults>>
       \/ Fault /\ Throws /\ UNCHANGED <<local, machine>>
    /\ UNCHANGED <<tables, admin, called, rows, foreign, job, routeVars>>

\* allocateHostPort: the rows' ports, then one port after another: not one of
\* those, and free when tried.
Allocate ==
    /\ op.at = "allocate"
    /\ op' = [op EXCEPT !.at = "probe", !.port = 1,
                        !.taken = {rows[i].port : i \in Live} \ {NoPort}]
    /\ UNCHANGED <<releaseVars, rows, machine, foreign, job, routeVars>>

\* Slip: a port is tried although a row holds it.
ProbeOnly ==
    /\ op.at = "probe"
    /\ IF op.port > LastPort THEN Throws
       ELSE IF op.port \in Bound THEN op' = [op EXCEPT !.port = @ + 1]
       ELSE op' = [op EXCEPT !.at = "make", !.taken = {}]
    /\ UNCHANGED <<releaseVars, rows, machine, foreign, job, routeVars>>

Probe ==
    /\ op.at = "probe"
    /\ IF op.port > LastPort THEN Throws
       ELSE IF op.port \in op.taken \cup Bound THEN op' = [op EXCEPT !.port = @ + 1]
       ELSE op' = [op EXCEPT !.at = "make", !.taken = {}]
    /\ UNCHANGED <<releaseVars, rows, machine, foreign, job, routeVars>>

\* DockerDriver.create on the node: the old container goes, a new one is made
\* and started; started it is only if the port is free.
Made(s, p) ==
    [machine EXCEPT ![s] = [state |-> IF p \in foreign \cup {machine[x].port : x \in {y \in Slugs \ {s} : Up(y)}}
                                      THEN "down" ELSE "running", port |-> p]]

Make ==
    /\ op.at = "make"
    /\ \/ /\ ~Busy
          /\ machine' = Made(Row.slug, op.port)
          /\ IF machine'[Row.slug].state = "running" THEN Steps("save") ELSE Throws
          /\ UNCHANGED <<job, faults>>
       \/ Busy /\ Throws /\ UNCHANGED <<machine, job, faults>>
       \/ /\ ~Busy /\ Fault /\ Throws
          /\ \/ job' = [NoRow EXCEPT !.slug = Row.slug, !.port = op.port] /\ UNCHANGED machine
             \/ /\ machine' \in {[machine EXCEPT ![Row.slug] = NoMachine], Made(Row.slug, op.port)}
                /\ UNCHANGED job
    /\ UNCHANGED <<images, called, rows, foreign, routeVars>>

\* The node finishes what nobody waits for.
JobEnds ==
    /\ job # NoRow
    /\ machine' = Made(job.slug, job.port)
    /\ job' = NoRow
    /\ UNCHANGED <<releaseVars, rows, foreign, op, routeVars>>

\* The index on host_port refuses a second live row.
SaveMade ==
    /\ op.at = "save"
    /\ \/ /\ IF \E i \in Live \ {op.id} : rows[i].port = op.port
             THEN Throws /\ UNCHANGED <<rows, proj>>
             ELSE /\ Changes([Row EXCEPT !.status = "running", !.cid = TRUE, !.port = op.port])
                  /\ Sync("idle")
          /\ UNCHANGED faults
       \/ Fault /\ Throws /\ UNCHANGED <<rows, proj>>
    /\ UNCHANGED <<machine, job>> /\ Quiet

Rebuilding == Prepare \/ Allocate \/ Probe \/ Make \/ SaveMade

-----------------------------------------------------------------------------

Start(i) ==
    /\ i \in Live
    /\ Begins([NoOp EXCEPT !.at = IF rows[i].cid THEN "start" ELSE "prepare",
                           !.do = "start", !.id = i, !.bare = ~rows[i].cid])

\* Without the container it is made again; a port somebody else has taken
\* meanwhile fails the start.
StartMachine ==
    /\ op.at = "start"
    /\ LET s == Row.slug
       IN \/ machine[s].state = "absent" /\ Steps("prepare") /\ UNCHANGED <<machine, faults>>
          \/ /\ machine[s].state # "absent" /\ ~Busy
             /\ IF Up(s) \/ machine[s].port \notin Bound
                THEN machine' = [machine EXCEPT ![s].state = "running"] /\ Steps("started")
                ELSE Throws /\ UNCHANGED machine
             /\ UNCHANGED faults
          \/ Busy /\ Throws /\ UNCHANGED <<machine, faults>>
          \/ Fault /\ Throws /\ UNCHANGED machine
    /\ UNCHANGED <<images, called, rows, foreign, job, routeVars>>

Stop(i) ==
    /\ i \in Live
    /\ Begins([NoOp EXCEPT !.at = IF rows[i].cid THEN "stop" ELSE "stopped", !.do = "stop", !.id = i])

StopMachine ==
    /\ op.at \in {"stop", "rm_stop"}
    /\ \/ /\ ~Busy
          /\ machine' = [machine EXCEPT ![Row.slug] =
                            IF op.at = "rm_stop" THEN NoMachine
                            ELSE IF @.state = "absent" THEN @ ELSE [@ EXCEPT !.state = "down"]]
          /\ Steps(IF op.at = "stop" THEN "stopped" ELSE "retain")
          /\ UNCHANGED faults
       \/ Busy /\ Throws /\ UNCHANGED <<machine, faults>>
       \/ Fault /\ Throws /\ machine' \in {machine, [machine EXCEPT ![Row.slug] = NoMachine]}
    /\ UNCHANGED <<images, called, rows, foreign, job, routeVars>>

Delete(i) == i \in Live /\ Begins([NoOp EXCEPT !.at = "removing", !.do = "remove", !.id = i])

\* The UPDATE of the operation and the projection after it.
Update(at, r, then) ==
    /\ op.at = at
    /\ \/ Changes(r) /\ Sync(then) /\ UNCHANGED faults
       \/ Fault /\ Throws /\ UNCHANGED <<rows, proj>>
    /\ UNCHANGED <<machine, job>> /\ Quiet

Updating ==
    \/ Update("started", [Row EXCEPT !.status = "running"], "idle")
    \/ Update("stopped", [Row EXCEPT !.status = "stopped"], "idle")
    \/ Update("removing", [Row EXCEPT !.status = "removing"], "rm_stop")
    \/ Update("retain", [Row EXCEPT !.status = "retained", !.cid = FALSE], "idle")

-----------------------------------------------------------------------------
(* The reconciler, one timer run at a time; its projection is out of the    *)
(* queue.                                                                  *)

Reconciled(r) ==
    IF ~r.cid \/ r.status \notin {"running", "stopped"} THEN r
    ELSE [r EXCEPT !.status = IF Up(r.slug) THEN "running" ELSE "stopped"]

Reconcile ==
    /\ op = NoOp /\ proj["timer"] = NoProj
    /\ rows' = [i \in Ids |-> Reconciled(rows[i])]
    /\ rows' # rows
    /\ proj' = [proj EXCEPT !["timer"].at = "read"]
    /\ UNCHANGED <<releaseVars, machine, foreign, op, job, files>>

-----------------------------------------------------------------------------
(* The machine.                                                            *)

\* The workload ends, or somebody removes the container.
MachineGoes(s) ==
    /\ Fault
    /\ \/ Up(s) /\ machine' = [machine EXCEPT ![s].state = "down"]
       \/ machine[s] # NoMachine /\ machine' = [machine EXCEPT ![s] = NoMachine]
    /\ UNCHANGED <<images, called, rows, foreign, op, job, routeVars>>

ProgramListens(p) ==
    /\ p \notin Bound
    /\ Fault
    /\ foreign' = foreign \cup {p}
    /\ UNCHANGED <<images, called, rows, machine, op, job, routeVars>>

ProgramLeaves(p) ==
    /\ p \in foreign
    /\ foreign' = foreign \ {p}
    /\ UNCHANGED <<releaseVars, rows, machine, op, job, routeVars>>

-----------------------------------------------------------------------------

\* A new machine, or one where a workspace runs; a table of versions without a
\* default is left by a platform that did not set one.
Fresh ==
    /\ NothingPublished
    /\ rows = [i \in Ids |-> NoRow]
    /\ machine = [s \in Slugs |-> NoMachine]

Established(i, s, o, r) ==
    /\ AllPublished
    /\ rows = [j \in Ids |-> IF j # i THEN NoRow
                              ELSE [status |-> "running", slug |-> s, owner |-> o, image |-> r,
                                    port |-> 1, cid |-> TRUE]]
    /\ machine = [x \in Slugs |-> IF x = s THEN [state |-> "running", port |-> 1] ELSE NoMachine]

Init ==
    /\ \/ Fresh
       \/ \E i \in Ids, s \in Slugs, o \in Owners, r \in Refs : Established(i, s, o, r)
    /\ NoRequests
    /\ foreign = {}
    /\ op = NoOp
    /\ job = NoRow
    /\ proj = [x \in Projectors |-> NoProj]
    /\ tmp = None
    /\ conf = 1
    /\ text = [n \in Inodes |-> IF n = 1 THEN Whole({}) ELSE Empty]
    /\ settled = TRUE

NodeBusy == job # NoRow
Administration ==
    \E c \in Calls : Requests(c, NodeBusy) /\ UNCHANGED <<workspaces, routeVars>>

Operation ==
    \/ \E i \in Ids : \/ \E s \in Slugs, o \in Owners, r \in Refs \cup {None} : Create(i, s, o, r)
                      \/ Restart(i) \/ Start(i) \/ Stop(i) \/ Delete(i)
    \/ Rebuilding \/ StartMachine \/ StopMachine \/ Updating \/ FailWith

World ==
    \/ JobEnds \/ Reconcile
    \/ \E s \in Slugs : MachineGoes(s)
    \/ \E p \in Ports : ProgramListens(p) \/ ProgramLeaves(p)

Next == Administration \/ Operation \/ World \/ \E x \in Projectors : Projecting(x)

Spec == Init /\ [][Next]_vars

-----------------------------------------------------------------------------

Rows == [status : {"none", "running", "stopped", "error", "retained"} \cup Transit,
         slug : Slugs \cup {None}, owner : Owners \cup {None}, image : Refs \cup {None},
         port : Ports \cup {NoPort}, cid : BOOLEAN]

\* Types; and the default is one of the published versions, whichever of
\* publishing, unpublishing and changing the default come together.
TypeOK ==
    /\ ReleasesOK
    /\ rows \in [Ids -> Rows]
    /\ machine \in [Slugs -> [state : {"absent", "down", "running"}, port : Ports \cup {NoPort}]]
    /\ foreign \in SUBSET Ports
    /\ job \in Rows
    /\ tmp \in Inodes \cup {None} /\ conf \in Inodes
    /\ \A n \in Inodes : text[n].kind \in {"whole", "empty", "torn"} /\ text[n].slugs \in SUBSET Slugs
    /\ \A x \in Projectors : proj[x].want \in SUBSET Slugs /\ proj[x].fd \in Inodes \cup {None}

\* The port a workspace's visitors are sent to (findTargetPort, whatever its
\* status) is never one at which the container of another workspace answers:
\* neither after a container was made for a caller who had given up, nor
\* after other programs took ports and left.  No two live workspaces share a
\* name or a port, and the name under which a browser keeps their cookies
\* never passes to another owner.
LeadsHome ==
    /\ \A i \in Live, s \in Slugs :
         rows[i].port # NoPort /\ Up(s) /\ machine[s].port = rows[i].port => s = rows[i].slug
    /\ \A i, j \in Live : i # j => /\ rows[i].slug # rows[j].slug
                                   /\ rows[i].port = rows[j].port => rows[i].port = NoPort
    /\ \A i, j \in Ids : rows[i].slug = rows[j].slug => rows[i].owner = rows[j].owner

\* A projection that no other overlapped between its open and its rename
\* leaves a whole file, which stays whole until another is renamed over it,
\* and it finds its temporary file.  (Two that overlap may leave a torn one.)
RoutesWhole ==
    /\ settled => text[conf].kind = "whole"
    /\ \A x \in Projectors : proj[x].at = "rename" /\ proj[x].alone => tmp # None

\* Once there is a default, it is lost only when the version that setDefault
\* goes over to is taken back after setDefault had found it: unpublishing
\* never takes the default, whatever runs beside it.
DefaultKept ==
    [][default # None /\ default' = None
        => \E c \in Calls : admin[c].held /\ admin[c].gone]_vars

=============================================================================
