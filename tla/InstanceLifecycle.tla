------------------------- MODULE InstanceLifecycle -------------------------
(***************************************************************************)
(* One workspace under the control plane: the operations of                *)
(* instance/provisioner.ts, the reconciler, the boot sequence and the route *)
(* projection, against a node agent that may be busy, fail half way, or     *)
(* finish a call after its caller has given up.                             *)
(*                                                                         *)
(* The operation queue (OperationQueue) lets one workflow run at a time, so *)
(* one program counter stands for all of them; a workflow is cut at every   *)
(* await.  What runs outside the queue has actions of its own: the route    *)
(* projection that follows a reconciliation, the container, and a node call *)
(* nobody waits for any more.  Workflows of other workspaces touch neither   *)
(* this row nor its keys: they are stuttering steps, except that they can   *)
(* keep the node busy, which is one of the failures of Ask.                 *)
(***************************************************************************)
EXTENDS RuntimeNode

CONSTANTS FaultKinds,  \* what may go wrong: a subset of AllFaults
          MaxFaults    \* bound: how many of them happen

AllFaults == {"node",   \* a node call fails, wholly or half way, or is refused as busy
              "lost",   \* the caller gives a mutation up, the node carries on
              "db",     \* a database statement fails
              "route",  \* a route projection fails as a whole
              "crash",  \* the control plane dies
              "late",   \* the projection outside the queue is overtaken
              "prune"}  \* somebody removes the container by hand

ASSUME LifecycleAssumption ==
    /\ FaultKinds \subseteq AllFaults
    /\ MaxFaults \in Nat

VARIABLES row,     \* the workspace's row in the instance table
          node,    \* its storage and container (RuntimeNode)
          job,     \* the mutation the node works on though its caller left
          routed,  \* whether the route file sends traffic to the container
          stray,   \* the projection a reconciliation left outside the queue
          pc,      \* where the running workflow is, or "idle"
          op,      \* that workflow's local variables
          faults,  \* how many faults have happened
          clock,   \* history: how often the workload changed its data
          latest,  \* history: the contents the owner must find again
          doomed   \* history: the destruction of the data has begun

routes == <<routed, stray>>
history == <<clock, latest, doomed>>
vars == <<row, node, job, routed, stray, pc, op, faults, clock, latest, doomed>>

Transit == {"provisioning", "removing"}
Statuses == {"none", "running", "stopped", "error", "retained"} \cup Transit

\* cid and port: whether containerId and hostPort are set.
Rows == [status : Statuses, image : Images \cup {None}, prev : Images \cup {None},
         quota : Quotas \cup {None}, cid : BOOLEAN, port : BOOLEAN]

NoRow == [status |-> "none", image |-> None, prev |-> None,
          quota |-> None, cid |-> FALSE, port |-> FALSE]

Listed == row.status \notin {"none", "retained"}

\* home: who called, a user or the boot sequence.
\* stage: what surrounds applyRuntime: no catch block ("bare"), one that
\*   records the error ("plain"), the upgrade's or the rollback's around it.
\* was, had, to, quota: wasRunning, "the row had a container", the image to
\*   go to, the quota to set; the reconciler keeps its reading in was and had.
Ops == [home : {"user", "boot"}, stage : {"bare", "plain", "upgrade", "rollback"},
        was : BOOLEAN, had : BOOLEAN, to : Images \cup {None}, quota : Quotas \cup {None}]

NoOp == [home |-> "user", stage |-> "plain", was |-> FALSE, had |-> FALSE,
         to |-> None, quota |-> None]

PCs == {"idle", "end", "failed", "fail_with", "fail_twice", "boot", "boot_mark", "boot_sync",
        "make", "read", "ensure", "image", "quiet", "chown", "create", "save", "sync",
        "stop", "stop_save", "stop_sync", "inspect", "start_ensure", "start", "start_save",
        "start_sync", "rm_mark", "rm_sync", "rm_stop", "rm_ctr", "rm_live", "rm_prev",
        "rm_recovery", "rm_retain", "rm_final", "q_resize", "q_save", "q_rm",
        "i_stop", "i_inval", "i_wipe", "i_copy", "i_save", "rb_mark", "rb_sync", "rb_stop",
        "rb_ctr", "rb_ensure", "rb_keep", "rb_wipe", "rb_copy", "rb_save", "rb_finish",
        "rec", "rec_save"}

Init ==
    /\ row = NoRow
    /\ node = EmptyNode
    /\ job = Nothing
    /\ routed = FALSE
    /\ stray = "none"
    /\ pc = "idle"
    /\ op = NoOp
    /\ faults = 0
    /\ clock = 0
    /\ latest = Missing
    /\ doomed = FALSE

-----------------------------------------------------------------------------
\* What a step of a workflow can be.

Fault(kind) ==
    /\ kind \in FaultKinds
    /\ faults < MaxFaults
    /\ faults' = faults + 1

\* Slip: the agent does not refuse a second mutation.
AskWhileBusy(here, m, next, fail) ==
    /\ pc = here
    /\ \/ node' \in Done(m, node) /\ pc' = next /\ UNCHANGED <<job, faults>>
       \/ node' \in Denied(m, node) /\ pc' = fail /\ UNCHANGED <<job, faults>>
       \/ Fault("lost") /\ job' = m /\ pc' = fail /\ UNCHANGED node

\* A mutation sent to the node.  The agent runs one at a time: while it works
\* on an abandoned one the answer is node-busy.  A timeout, or a crash of the
\* caller, leaves the call running on the node.
Ask(here, m, next, fail) ==
    /\ pc = here
    /\ \/ /\ job # Nothing
          /\ pc' = fail
          /\ UNCHANGED <<node, job, faults>>
       \/ /\ job = Nothing
          /\ \/ node' \in Done(m, node) /\ pc' = next /\ UNCHANGED <<job, faults>>
             \/ node' \in Denied(m, node) /\ pc' = fail /\ UNCHANGED <<job, faults>>
             \/ Fault("node") /\ node' \in Broken(m, node) /\ pc' = fail /\ UNCHANGED job
             \/ /\ Fault("lost")
                /\ job' = m
                /\ pc' \in {fail} \cup (IF "crash" \in FaultKinds THEN {"boot"} ELSE {})
                /\ UNCHANGED node

Call(here, m, next, fail) ==
    Ask(here, m, next, fail) /\ UNCHANGED <<row, routes, op, history>>

\* A question to the node that changes nothing.
Look(here, holds, next, fail) ==
    /\ pc = here
    /\ \/ pc' = (IF holds THEN next ELSE fail) /\ UNCHANGED faults
       \/ Fault("node") /\ pc' = fail
    /\ UNCHANGED <<row, node, job, routes, op, history>>

\* updateInstance: a conditional UPDATE that only sees rows not deleted.
Save(here, r, next, fail) ==
    /\ pc = here
    /\ \/ row' = r /\ pc' = next /\ UNCHANGED faults
       \/ Fault("db") /\ pc' = fail /\ UNCHANGED row
    /\ UNCHANGED <<node, job, routes>>

Store(here, r, next, fail) == Save(here, r, next, fail) /\ UNCHANGED <<op, history>>

\* routableInstances, with the container states and without them.
Routable == row.status \notin Transit /\ Listed /\ row.port /\ Running(node)
RoutableByIntent == row.status = "running" /\ row.port

\* syncRoutes within a workflow.
Publish(here, next, fail) ==
    /\ pc = here
    /\ \/ routed' = Routable /\ pc' = next /\ UNCHANGED faults
       \/ Fault("node") /\ routed' = RoutableByIntent /\ pc' = next
       \/ Fault("route") /\ pc' = fail /\ UNCHANGED routed
    /\ UNCHANGED <<row, node, job, stray, op, history>>

\* An operation leaves the queue's front and begins.
Begin(next, locals) ==
    /\ pc = "idle"
    /\ pc' = next
    /\ op' = locals
    /\ UNCHANGED <<row, node, job, routes, faults, history>>

\* The operation returns or throws; boot goes on with its next phase.
Return ==
    /\ pc \in {"end", "failed"}
    /\ pc' = IF op.home = "user" THEN "idle" ELSE IF pc = "end" THEN "rec" ELSE "boot_mark"
    /\ op' = [NoOp EXCEPT !.home = op.home]
    /\ UNCHANGED <<row, node, job, routes, faults, history>>

\* Slip: failWith projects the routes but does not record the error.
FailSilently ==
    /\ pc \in {"fail_with", "fail_twice"}
    /\ routed' = Routable
    /\ pc' = "failed"
    /\ UNCHANGED <<row, node, job, stray, op, faults, history>>

\* Slip: a rollback that fails within an upgrade is rolled back again.
FailAgain ==
    /\ pc \in {"fail_with", "fail_twice"}
    /\ row' = [row EXCEPT !.status = "error"]
    /\ pc' = IF op.stage \in {"upgrade", "rollback"} THEN "rb_mark" ELSE "failed"
    /\ UNCHANGED <<node, job, routes, op, faults, history>>

\* failWith: record the error, project the routes again, throw.  If the
\* UPDATE itself fails, its error is thrown and nothing is projected; a
\* failing projection is swallowed.  What catches the throw: nothing, the
\* upgrade (which rolls back), or the rollback around restart (once more).
FailWith ==
    /\ pc \in {"fail_with", "fail_twice"}
    /\ \/ /\ row' = IF Listed THEN [row EXCEPT !.status = "error"] ELSE row
          /\ \/ routed' = (Listed /\ row.port /\ Running(node)) /\ UNCHANGED faults
             \/ Fault("node") /\ routed' = FALSE
             \/ Fault("route") /\ UNCHANGED routed
       \/ Fault("db") /\ UNCHANGED <<row, routed>>
    /\ IF pc = "fail_twice" THEN pc' = "fail_with" /\ UNCHANGED op
       ELSE IF op.stage = "upgrade"
       THEN pc' = "rb_mark" /\ op' = [op EXCEPT !.stage = "rollback"]
       ELSE pc' = "failed" /\ UNCHANGED op
    /\ UNCHANGED <<node, job, stray, history>>

-----------------------------------------------------------------------------
\* applyRuntime, as create, restart, start and the image workflows run it.

RebuildFails ==
    CASE op.stage = "bare" -> "failed"
      [] op.stage = "rollback" -> "fail_twice"
      [] OTHER -> "fail_with"

\* restart reads the row again before its try block.
RebuildRead ==
    /\ pc = "read"
    /\ \/ pc' = "ensure" /\ UNCHANGED <<op, faults>>
       \/ /\ Fault("db")
          /\ pc' = CASE op.stage = "upgrade" -> "rb_mark"
                     [] op.stage = "rollback" -> "fail_with"
                     [] OTHER -> "failed"
          /\ op' = [op EXCEPT !.stage = IF @ = "upgrade" THEN "rollback" ELSE @]
    /\ UNCHANGED <<row, node, job, routes, history>>

RebuildEnsure == Look("ensure", Usable(node, "live"), "image", RebuildFails)

\* ensureImage asks for a pull only when the image is not on the node.
RebuildImage ==
    /\ \/ Ask("image", PullCall, "quiet", RebuildFails)
       \/ pc = "image" /\ pc' = "quiet" /\ UNCHANGED <<node, job, faults>>
    /\ UNCHANGED <<row, routes, op, history>>

RebuildQuiet == Call("quiet", StopCall, "chown", RebuildFails)

RebuildChown == Call("chown", ChownCall, "create", RebuildFails)

\* A port that cannot be allocated fails the call with nothing done.
RebuildCreate == Call("create", CreateCall(row.image, row.quota), "save", RebuildFails)

RebuildSave ==
    Store("save", [row EXCEPT !.status = "running", !.cid = TRUE, !.port = TRUE],
            "sync", RebuildFails)

RebuildSync ==
    Publish("sync", IF op.stage = "rollback" THEN "rb_finish" ELSE "end", RebuildFails)

Rebuild == \/ RebuildRead \/ RebuildEnsure \/ RebuildImage \/ RebuildQuiet
           \/ RebuildChown \/ RebuildCreate \/ RebuildSave \/ RebuildSync

-----------------------------------------------------------------------------
\* create: a new row, under a new id and storage key; a deleted workspace's
\* name may be used again by its owner.
Create(i, q) ==
    /\ pc = "idle"
    /\ ~Listed
    /\ row' = [NoRow EXCEPT !.status = "provisioning", !.image = i, !.quota = q]
    /\ node' = [node EXCEPT !.disk = EmptyNode.disk]
    /\ latest' = Missing
    /\ doomed' = FALSE
    /\ pc' = "make"
    /\ op' = NoOp
    /\ UNCHANGED <<job, routes, faults, clock>>

CreateData == Call("make", MakeCall, "image", "fail_with")

-----------------------------------------------------------------------------

Restart == Listed /\ Begin("read", NoOp)

Stop == Listed /\ Begin(IF row.cid THEN "stop" ELSE "stop_save", NoOp)

StopContainer == Call("stop", StopCall, "stop_save", "fail_with")

StopSave ==
    Store("stop_save", [row EXCEPT !.status = "stopped"], "stop_sync", "fail_with")

StopSync == Publish("stop_sync", "end", "fail_with")

Stopping == StopContainer \/ StopSave \/ StopSync

-----------------------------------------------------------------------------
\* start: without a container on record it rebuilds outside the try block.

StartLocals(home) ==
    [NoOp EXCEPT !.home = home, !.stage = IF row.cid THEN "plain" ELSE "bare"]

Start == Listed /\ Begin(IF row.cid THEN "inspect" ELSE "ensure", StartLocals("user"))

StartInspect == Look("inspect", TRUE, IF node.ctr.state = "absent" THEN "ensure" ELSE "start_ensure",
                     "fail_with")

StartEnsure == Look("start_ensure", Usable(node, "live"), "start", "fail_with")

StartContainer == Call("start", StartCall, "start_save", "fail_with")

StartSave ==
    Store("start_save", [row EXCEPT !.status = "running"], "start_sync", "fail_with")

StartSync == Publish("start_sync", "end", "fail_with")

Starting == StartInspect \/ StartEnsure \/ StartContainer \/ StartSave \/ StartSync

-----------------------------------------------------------------------------
\* remove: off the routes, stop, discard the container, destroy the data,
\* keep the row as the owner's claim on the name.

Delete == Listed /\ Begin("rm_mark", NoOp)

RemoveMark ==
    Store("rm_mark", [row EXCEPT !.status = "removing"], "rm_sync", "fail_with")

RemoveSync == Publish("rm_sync", "rm_stop", "fail_with")

RemoveStop == Call("rm_stop", StopCall, "rm_ctr", "fail_with")

RemoveContainer == Call("rm_ctr", RemoveCall, "rm_live", "fail_with")

DestroyLive ==
    /\ Ask("rm_live", WipeCall("live"), "rm_prev", "fail_with")
    /\ doomed' = (doomed \/ pc' = "rm_prev" \/ node' # node \/ job' # job)
    /\ UNCHANGED <<row, routes, op, clock, latest>>

DestroySnapshot == Call("rm_prev", WipeCall("prev"), "rm_recovery", "fail_with")

\* Slip: destroy forgets the recovery copy.
DestroyTwoKeys == pc = "rm_recovery" /\ pc' = "rm_retain" /\ UNCHANGED <<row, node, job, routes, op, faults, history>>

DestroyRecovery == Call("rm_recovery", WipeCall("recovery"), "rm_retain", "fail_with")

\* retainInstanceRecord
RemoveRetain ==
    Store("rm_retain", [row EXCEPT !.status = "retained", !.cid = FALSE], "rm_final", "fail_with")

RemoveFinal == Publish("rm_final", "end", "fail_with")

Removing == \/ RemoveMark \/ RemoveSync \/ RemoveStop \/ RemoveContainer \/ DestroyLive
            \/ DestroySnapshot \/ DestroyRecovery \/ RemoveRetain \/ RemoveFinal

-----------------------------------------------------------------------------
\* setQuota: the disk limit first, then the row, then the container.  No
\* failure before the restart is recorded.

SetQuota(q, disk) ==
    /\ Listed
    /\ disk \/ q # row.quota
    /\ Begin(IF disk THEN "q_resize" ELSE "q_save",
             [NoOp EXCEPT !.was = (row.status = "running"), !.had = row.cid, !.quota = q])

QuotaResize == Call("q_resize", ResizeCall, "q_save", "failed")

QuotaThen == IF op.was THEN "read" ELSE "end"

\* Slip: the row keeps vouching for the container built with the old quota.
QuotaSaveOnly ==
    Store("q_save", [row EXCEPT !.quota = op.quota],
            IF op.had THEN "q_rm" ELSE QuotaThen, "failed")

QuotaSave ==
    Store("q_save",
            [row EXCEPT !.quota = op.quota, !.cid = @ /\ op.quota = row.quota],
            IF op.quota = row.quota THEN "end" ELSE IF op.had THEN "q_rm" ELSE QuotaThen,
            "failed")

QuotaDiscard == Call("q_rm", RemoveCall, QuotaThen, "failed")

Quota == QuotaResize \/ QuotaSave \/ QuotaDiscard

-----------------------------------------------------------------------------
\* setImage: stop, forget the old snapshot, take a new one, record the new
\* image with the old one as the way back, rebuild; roll back if that fails.

SetImage(i) ==
    /\ Listed
    /\ i # row.image
    /\ Begin("i_stop", [NoOp EXCEPT !.was = (row.status = "running"), !.to = i])

ImageStop == Call("i_stop", StopCall, IF row.prev = None THEN "i_wipe" ELSE "i_inval", "failed")

\* Slip: the old snapshot is cleared while the row still offers it.
ImageKeepsOffer == pc = "i_inval" /\ pc' = "i_wipe" /\ UNCHANGED <<row, node, job, routes, op, faults, history>>

ImageInvalidate ==
    Store("i_inval", [row EXCEPT !.prev = None], "i_wipe", "failed")

SnapshotFails == IF op.was THEN "read" ELSE "failed"

\* DataStore.snapshot, in two calls
SnapshotClear == Call("i_wipe", WipeCall("prev"), "i_copy", SnapshotFails)

SnapshotCopy == Call("i_copy", CopyCall("live", "prev", row.image), "i_save", SnapshotFails)

ImageSave ==
    /\ Save("i_save", [row EXCEPT !.image = op.to, !.prev = row.image, !.cid = FALSE],
            IF op.was THEN "read" ELSE "end", "failed")
    /\ op' = IF pc' = "read" THEN [op EXCEPT !.stage = "upgrade", !.to = row.image] ELSE op
    /\ UNCHANGED history

Upgrade == ImageStop \/ ImageInvalidate \/ SnapshotClear \/ SnapshotCopy \/ ImageSave

-----------------------------------------------------------------------------
\* rollbackTo, asked for by the owner or by a failed upgrade.

\* Slip: the check for a previous image is dropped.
RollbackUnchecked ==
    /\ Listed
    /\ Begin("rb_mark", [NoOp EXCEPT !.stage = "rollback", !.to = row.prev,
                                     !.was = (row.status = "running")])

Rollback ==
    /\ Listed
    /\ row.prev # None
    /\ Begin("rb_mark", [NoOp EXCEPT !.stage = "rollback", !.to = row.prev,
                                     !.was = (row.status = "running")])

RollbackMark ==
    Store("rb_mark", [row EXCEPT !.status = "provisioning"], "rb_sync", "fail_with")

RollbackSync == Publish("rb_sync", "rb_stop", "fail_with")

RollbackStop == Call("rb_stop", StopCall, "rb_ctr", "fail_with")

\* Slip: the stopped container is kept while its data is replaced.
RollbackStopsOnly == pc = "rb_ctr" /\ pc' = "rb_ensure" /\ UNCHANGED <<row, node, job, routes, op, faults, history>>

RollbackDiscard == Call("rb_ctr", RemoveCall, "rb_ensure", "fail_with")

\* DataStore.restoreSnapshot: check the snapshot, keep the live data aside,
\* clear it, copy the snapshot in its place.
RestoreCheck == Look("rb_ensure", Usable(node, "prev"), "rb_keep", "fail_with")

\* Slip: the live data is cleared without being kept aside.
RestoreWithoutKeeping == pc = "rb_keep" /\ pc' = "rb_wipe" /\ UNCHANGED <<row, node, job, routes, op, faults, history>>

RestoreKeep == Call("rb_keep", CopyCall("live", "recovery", None), "rb_wipe", "fail_with")

RestoreClear == Call("rb_wipe", WipeCall("live"), "rb_copy", "fail_with")

RestoreCopy == Call("rb_copy", CopyCall("prev", "live", None), "rb_save", "fail_with")

\* Committing the rollback makes the restored data the owner's data.
RollbackSave ==
    /\ Save("rb_save", [row EXCEPT !.image = op.to, !.prev = None, !.cid = FALSE,
                                   !.status = "stopped"],
            IF op.was THEN "read" ELSE "rb_finish", "fail_with")
    /\ latest' = IF pc' = "fail_with" \/ latest = Missing THEN latest
                 ELSE node.disk["live"].dir
    /\ UNCHANGED <<op, clock, doomed>>

\* DataStore.finishRestore
RestoreFinish == Call("rb_finish", WipeCall("recovery"), "end", "fail_with")

RollingBack == \/ RollbackMark \/ RollbackSync \/ RollbackStop \/ RollbackDiscard
               \/ RestoreCheck \/ RestoreKeep \/ RestoreClear \/ RestoreCopy
               \/ RollbackSave \/ RestoreFinish

-----------------------------------------------------------------------------
\* The reconciler: the timer waits for its last run, projection included.

Tick == Listed /\ stray = "none" /\ Begin("rec", NoOp)

InScope == row.status \in {"running", "stopped"} /\ row.cid

\* inspectStatus; what cannot be inspected is left alone.
ReconcileRead ==
    /\ pc = "rec"
    /\ pc' = "rec_save"
    /\ \/ op' = [op EXCEPT !.had = InScope, !.was = InScope /\ Running(node)] /\ UNCHANGED faults
       \/ InScope /\ Fault("node") /\ UNCHANGED op
    /\ UNCHANGED <<row, node, job, routes, history>>

\* The UPDATE, then the list of container names, then, out of the queue, the
\* projection when something changed.  A container that is gone reads as
\* "unknown", which is not live.
Drift == op.had /\ op.was # (row.status = "running")

\* Slip: only a container found running is reconciled.
ReconciledUp == IF Drift /\ op.was THEN [row EXCEPT !.status = "running"] ELSE row

Reconciled ==
    IF Drift THEN [row EXCEPT !.status = IF op.was THEN "running" ELSE "stopped"] ELSE row

ReconcileSave ==
    /\ pc = "rec_save"
    /\ \/ /\ row' = Reconciled
          /\ pc' = IF op.home = "boot" THEN "boot_sync" ELSE "idle"
          /\ IF Drift /\ op.home = "user"
             THEN \/ routed' = Routable /\ UNCHANGED <<stray, faults>>
                  \/ Fault("late") /\ stray' = "due" /\ UNCHANGED routed
             ELSE UNCHANGED <<routes, faults>>
       \/ /\ \/ Drift /\ Fault("db") /\ UNCHANGED row
             \/ Fault("node") /\ row' = Reconciled
          /\ pc' = IF op.home = "boot" THEN "boot" ELSE "idle"
          /\ UNCHANGED routes
    /\ op' = NoOp
    /\ UNCHANGED <<node, job, history>>

Reconciling == ReconcileRead \/ ReconcileSave

\* That projection when other work overtakes it: what it read is what it
\* writes, however late.
StrayRead ==
    /\ stray = "due"
    /\ pc # "boot"
    /\ \/ stray' = (IF Routable THEN "with" ELSE "without") /\ UNCHANGED faults
       \/ Fault("node") /\ stray' = (IF RoutableByIntent THEN "with" ELSE "without")
       \/ Fault("route") /\ stray' = "none"
    /\ UNCHANGED <<row, node, job, routed, pc, op, history>>

StrayWrite ==
    /\ stray \in {"with", "without"}
    /\ pc # "boot"
    /\ routed' = (stray = "with")
    /\ stray' = "none"
    /\ UNCHANGED <<row, node, job, pc, op, faults, history>>

-----------------------------------------------------------------------------
\* Boot: mark interrupted workflows, check the data, start what was running,
\* reconcile, project, and only then listen.  An exception ends the process.

BootCheck ==
    LET start == IF row.cid THEN "inspect" ELSE "ensure"
    IN /\ pc = "boot"
       /\ stray' = "none"
       /\ op' = IF row.status = "running" THEN StartLocals("boot") ELSE [NoOp EXCEPT !.home = "boot"]
       /\ \/ /\ pc' = IF Listed /\ (row.status \in Transit \/ ~Usable(node, "live")) THEN "boot_mark"
                    ELSE IF row.status = "running" THEN start ELSE "rec"
             /\ UNCHANGED faults
          \/ /\ Listed /\ row.status \notin Transit
             /\ Fault("node")
             /\ pc' = "boot_mark"
       /\ UNCHANGED <<row, node, job, routed, history>>

BootMark ==
    Store("boot_mark", [row EXCEPT !.status = "error"], "rec", "boot")

BootSync == Publish("boot_sync", "idle", "boot")

Booting == BootCheck \/ BootMark \/ BootSync

-----------------------------------------------------------------------------
\* What happens around the control plane.

Crash ==
    /\ pc # "boot"
    /\ Fault("crash")
    /\ pc' = "boot"
    /\ UNCHANGED <<row, node, job, routes, op, history>>

\* The node ends an abandoned call, in whatever way that call can end.
NodeFinishes ==
    /\ job # Nothing
    /\ node' \in Done(job, node) \cup Denied(job, node) \cup Broken(job, node)
    /\ job' = Nothing
    /\ UNCHANGED <<row, routes, pc, op, faults, history>>

\* The workload exits, or the host restarts: nothing starts it again.
ContainerExits ==
    /\ Running(node)
    /\ node' = Halted(node)
    /\ UNCHANGED <<row, job, routes, pc, op, faults, history>>

Prune ==
    /\ node.ctr.state # "absent"
    /\ Fault("prune")
    /\ node' = Become(node, "absent", None, None)
    /\ UNCHANGED <<row, job, routes, pc, op, history>>

\* The workload changes its data.
Work ==
    /\ Running(node)
    /\ node.disk["live"].dir \in Versions
    /\ clock < MaxWrites
    /\ clock' = clock + 1
    /\ latest' = clock + 1
    /\ node' = Put(node, "live", clock + 1, node.disk["live"].rec, node.disk["live"].tag)
    /\ UNCHANGED <<row, job, routes, pc, op, faults, doomed>>

Request ==
    \/ \E i \in Images, q \in Quotas : Create(i, q)
    \/ Restart \/ Stop \/ Start \/ Delete \/ Rollback \/ Tick
    \/ \E q \in Quotas, disk \in BOOLEAN : SetQuota(q, disk)
    \/ \E i \in Images : SetImage(i)

Workflow == \/ CreateData \/ Rebuild \/ Stopping \/ Starting \/ Removing \/ Quota
            \/ Upgrade \/ RollingBack \/ Reconciling \/ Booting \/ FailWith \/ Return

Stray == StrayRead \/ StrayWrite

Around == Crash \/ NodeFinishes \/ ContainerExits \/ Prune \/ Work

Next == Request \/ Workflow \/ Stray \/ Around

Spec == Init /\ [][Next]_vars

\* Every await of a workflow ends (the node client and the database have
\* deadlines), the node ends the calls it has begun, and the reconciler,
\* queued like any operation, gets its turn however many operations come
\* (OperationQueue's AdmittedRuns): hence strong fairness for Tick.
FairSpec ==
    /\ Spec
    /\ WF_vars(Workflow)
    /\ WF_vars(NodeFinishes)
    /\ WF_vars(Stray)
    /\ SF_vars(Tick)

-----------------------------------------------------------------------------

TypeOK ==
    /\ row \in Rows
    /\ Listed => row.image \in Images /\ row.quota \in Quotas
    /\ node \in NodeStates
    /\ job \in Calls
    /\ routed \in BOOLEAN
    /\ stray \in {"none", "due", "with", "without"}
    /\ pc \in PCs
    /\ op \in Ops
    /\ faults \in 0..MaxFaults
    /\ clock \in 0..MaxWrites
    /\ latest \in Versions \cup {Missing, Damaged}
    /\ doomed \in BOOLEAN

\* A container only exists over a data directory that is in place and whose
\* record is complete (provisioner.ts:546, "first the data, then the instance").
ContainerHasData == node.ctr.state # "absent" => Usable(node, "live")

\* Whatever fails, and wherever the control plane dies, the contents the owner
\* worked with last survive in the live directory or in the recovery copy,
\* until the owner deletes the workspace (data-store.ts:131).
LatestRecoverable ==
    ~doomed /\ latest # Missing =>
        \E k \in {"live", "recovery"} : Usable(node, k) /\ node.disk[k].dir = latest

\* A previous image on record means there is a snapshot, complete and taken
\* while that image was the one on record (schema.ts:109): the two are never
\* mispaired.  The tag of a directory that is no complete copy is None.
PairedSnapshot ==
    ~doomed /\ row.prev # None =>
        /\ Usable(node, "prev")
        /\ node.disk["prev"].tag = row.prev

\* What runs is what the row says: the recorded image always, the recorded
\* quota whenever the row still vouches for the container.
RunsWhatRowSays ==
    /\ Running(node) => node.ctr.image = row.image
    /\ row.cid /\ node.ctr.state # "absent" =>
        node.ctr.image = row.image /\ node.ctr.quota = row.quota

\* A deleted workspace leaves neither data nor a container nor a node call
\* that could still create them (provisioner.ts:223).
DeletedLeavesNothing ==
    row.status = "retained" =>
        /\ node.disk = EmptyNode.disk
        /\ node.ctr.state = "absent"
        /\ job = Nothing

\* While an abandoned copy or removal of the live data is still under way on
\* the node, no workload runs on it.
QuietCopies ==
    (job.do = "copy" \/ job = WipeCall("live")) => ~Running(node)

\* Every operation ends, so the queue never stands still: the catch blocks
\* lead out of a workflow and never back into it.
EveryOperationEnds == pc # "idle" ~> pc = "idle"

\* A workspace never stays provisioning or removing for good, whatever
\* interrupts the workflow (provisioner.ts:263, boot.ts:18).
LeavesTransit == row.status \in Transit ~> row.status \notin Transit

\* A quota change that throws although it has stored the new quota and cleared
\* containerId: the removal of the container failed (provisioner.ts:301-308), or
\* the read that begins the restart did.
QuotaAborted == pc = "failed" /\ op.had /\ op.quota = row.quota /\ ~row.cid

\* A workload that went away is noticed: a row with a container on record does
\* not claim for ever that it runs (reconciler.ts:31).  One way out is no
\* convergence: after an aborted quota change the row goes on saying "running",
\* and without a containerId the reconciler passes it over (reconciler.ts:50).
DriftConverges ==
    row.status = "running" /\ row.cid /\ ~Running(node)
        ~> row.status # "running" \/ Running(node) \/ QuotaAborted

-----------------------------------------------------------------------------
\* What the comments say and the code does not keep: each is refuted by a run.

\* Stopping a workspace stops its container (provisioner.ts:163).  After a
\* quota change whose container removal failed, containerId is null, and stop
\* records "stopped" without asking the node.
StopStops == pc = "stop_sync" => ~Running(node)

\* A workload never runs on data a rollback left half replaced
\* (provisioner.ts:446).  A removal that fails inside rm leaves the record
\* complete, and ensureStorage trusts the record.
NeverRunsOnPartialData ==
    Running(node) /\ ~doomed => node.disk["live"].dir \in Versions

\* From the first projection of remove on, no route leads to the workspace
\* (provisioner.ts:232).  The reconciler's projection is not in the queue and
\* can write what it read before.
UnroutedWhileRemoved ==
    pc \in {"rm_stop", "rm_ctr", "rm_live", "rm_prev", "rm_recovery", "rm_retain"} => ~routed
=============================================================================
