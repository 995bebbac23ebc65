---------------------------- MODULE NodeStorage ----------------------------
(***************************************************************************)
(* The node agent's storage pool: directories, the XFS project ids put on  *)
(* them, their limits, and the registry that says which id is whose        *)
(* (runtime/docker/driver.ts over instance/pool.ts), asked by the control  *)
(* plane in the orders of DataStore (instance/data-store.ts).              *)
(*                                                                         *)
(* One mutation runs at a time (`mutating` in runtime/node/server.ts), one *)
(* action per await; reads run beside it.  The agent may be killed inside  *)
(* any step, and the machine may lose power.                               *)
(***************************************************************************)
EXTENDS ProjectRegistry, Sequences

CONSTANTS Spaces,      \* the workspaces
          Upgraded,    \* bound: those that are upgraded and rolled back
          MaxFaults,   \* bound: how many faults a behaviour has
          FaultKinds,  \* which ones: some of "leave", "step", "crash", "power", "lose"
          NoFile       \* no registry file

ASSUME StorageAssumption ==
    /\ StorageKeys = Spaces \X {"live", "prev", "recovery"}
    /\ Upgraded \subseteq Spaces
    /\ MaxFaults \in Nat
    /\ NoFile \notin Files

VARIABLES up,      \* whether the agent accepts calls
          file,    \* the registry on disk, or NoFile
          litter,  \* whether a temporary file of save was left in the pool
          dirs,    \* the data directories
          limited, \* the project ids that have a hard limit
          call,    \* the mutation under way, or how the last one ended
          plan,    \* the calls the control plane has still to make
          made,    \* the workspaces whose storage was asked for
          charged, \* history: <<id, key>>, what was ever charged to an id
          faults   \* how many faults there were

pool == <<file, litter, dirs, limited>>
vars == <<up, pool, call, plan, made, charged, faults>>

-----------------------------------------------------------------------------
(* A directory: "absent", "bare" (made, and nothing else), "part" (some of *)
(* a copy), "fresh" (all of it, not synced), "torn" (what a removal has    *)
(* left) or "whole".                                                       *)

Contents == {"absent", "bare", "part", "fresh", "torn", "whole"}

NoDir == [has |-> "absent", projid |-> 0]

Present(k) == dirs[k].has # "absent"

\* Slip: the record need only be there.
UsablePending(k) == Present(k) /\ Active(file[k])

\* ensureStorage
Usable(k) == Present(k) /\ file[k].state = "done"

Key(s, kind) == <<s, kind>>

\* What the control plane asks for.
Create(k) == [do |-> "create", key |-> k, from |-> k]
Remove(k) == [do |-> "remove", key |-> k, from |-> k]
Copy(k, l) == [do |-> "copy", key |-> l, from |-> k]
Ensure(k) == [do |-> "ensure", key |-> k, from |-> k]

\* DataStore.create, snapshot, restoreSnapshot with finishRestore, destroy
CreatePlan(s) == <<Create(Key(s, "live"))>>
SnapshotPlan(s) ==
    <<Remove(Key(s, "prev")), Copy(Key(s, "live"), Key(s, "prev"))>>
RestorePlan(s) ==
    <<Ensure(Key(s, "prev")),
      Copy(Key(s, "live"), Key(s, "recovery")),
      Remove(Key(s, "live")),
      Copy(Key(s, "prev"), Key(s, "live")),
      Remove(Key(s, "recovery"))>>
DestroyPlan(s) ==
    <<Remove(Key(s, "live")), Remove(Key(s, "prev")), Remove(Key(s, "recovery"))>>

Ends == {"done", "failed"}

NoCall(end) ==
    [do |-> "nothing", at |-> end, key |-> <<>>, from |-> <<>>, id |-> 0, asked |-> FALSE]

Init ==
    /\ up = FALSE
    /\ file = NoFile
    /\ litter = FALSE
    /\ dirs = [k \in StorageKeys |-> NoDir]
    /\ limited = {}
    /\ call = NoCall("done")
    /\ plan = <<>>
    /\ made = {}
    /\ charged = {}
    /\ faults = 0

Fault(kind) ==
    /\ kind \in FaultKinds
    /\ faults < MaxFaults
    /\ faults' = faults + 1

-----------------------------------------------------------------------------
(* The control plane.                                                      *)

\* While the agent works on a call whose caller gave it up, it refuses every
\* other mutation (node-busy): a plan that begins with one might as well not
\* begin.  A read it does answer.
Begin(p) ==
    /\ plan = <<>>
    /\ call.at \in Ends \/ p[1].do = "ensure"
    /\ plan' = p
    /\ UNCHANGED <<up, pool, call, charged, faults>>

AskForData(s) == s \notin made /\ made' = made \cup {s} /\ Begin(CreatePlan(s))
AskForPlan(s) ==
    /\ s \in made
    /\ \/ Begin(DestroyPlan(s))
       \/ s \in Upgraded /\ (Begin(SnapshotPlan(s)) \/ Begin(RestorePlan(s)))
    /\ UNCHANGED made

\* The deadline of the node client passes, or the workflow fails elsewhere:
\* the agent goes on with the call it has.
GiveUp ==
    /\ plan # <<>>
    /\ Fault("leave")
    /\ plan' = <<>>
    /\ call' = [call EXCEPT !.asked = FALSE]
    /\ UNCHANGED <<up, pool, made, charged>>

\* ensureStorage as a call is a read, also beside a mutation.
Check ==
    /\ up
    /\ plan # <<>>
    /\ plan[1].do = "ensure"
    /\ plan' = IF Usable(plan[1].key) THEN Tail(plan) ELSE <<>>
    /\ UNCHANGED <<up, pool, call, made, charged, faults>>

\* The next call of the plan reaches the agent.
Receive ==
    /\ up
    /\ plan # <<>>
    /\ plan[1].do # "ensure"
    /\ call.at \in Ends
    /\ call' = [do |-> plan[1].do,
                at |-> CASE plan[1].do = "create" -> "mkdir"
                         [] plan[1].do = "remove" -> "look"
                         [] plan[1].do = "copy" -> "ensure",
                key |-> plan[1].key,
                from |-> plan[1].from,
                id |-> 0,
                asked |-> TRUE]
    /\ UNCHANGED <<up, pool, plan, made, charged, faults>>

-----------------------------------------------------------------------------
(* The steps of a call.                                                    *)

At(place) == up /\ call.at = place

Go(place) ==
    /\ call' = [call EXCEPT !.at = place]
    /\ UNCHANGED plan

End(good) ==
    /\ call' = NoCall(IF good THEN "done" ELSE "failed")
    /\ plan' = IF ~call.asked THEN plan ELSE IF good THEN Tail(plan) ELSE <<>>

Same == UNCHANGED <<up, litter, made, charged, faults>>

\* ensureStorage at the head of copyStorage
EnsureStorage ==
    /\ At("ensure")
    /\ IF Usable(call.from) THEN Go("mkdir") ELSE End(FALSE)
    /\ UNCHANGED <<file, dirs, limited>> /\ Same

\* createDataDirectory: mkdir is exclusive.
MakeDirectory ==
    /\ At("mkdir")
    /\ IF Present(call.key)
       THEN End(FALSE) /\ UNCHANGED dirs
       ELSE Go("allocate") /\ dirs' = [dirs EXCEPT ![call.key].has = "bare"]
    /\ UNCHANGED <<file, limited>> /\ Same

\* allocate refuses a key with a record; it also ends when ids have run out.
AllocateProject ==
    /\ At("allocate")
    /\ IF Active(file[call.key]) \/ FreeIds(file) = {}
       THEN End(FALSE) /\ UNCHANGED file
       ELSE \E i \in LowestFree(file) :
              /\ file' = Allocate(file, call.key, i)
              /\ call' = [call EXCEPT !.at = "project", !.id = i]
              /\ UNCHANGED plan
    /\ UNCHANGED <<dirs, limited>> /\ Same

\* setProjectQuota: `project -s`, then `limit`
SetProject ==
    /\ At("project")
    /\ dirs' = [dirs EXCEPT ![call.key].projid = call.id]
    /\ charged' = charged \cup {<<call.id, call.key>>}
    /\ Go("limit")
    /\ UNCHANGED <<up, file, litter, limited, made, faults>>

\* With its quota a created directory has all it should.
SetLimit ==
    /\ At("limit")
    /\ limited' = limited \cup {call.id}
    /\ IF call.do = "create"
       THEN dirs' = [dirs EXCEPT ![call.key].has = "whole"] /\ Go("sync")
       ELSE Go("fill") /\ UNCHANGED dirs
    /\ UNCHANGED file /\ Same

\* Slip: sync is left out.
FillUnsynced ==
    /\ At("fill")
    /\ dirs' = [dirs EXCEPT ![call.key].has = "fresh"]
    /\ Go("complete")
    /\ UNCHANGED <<file, limited>> /\ Same

\* cp -a
FillCopy ==
    /\ At("fill")
    /\ dirs' = [dirs EXCEPT ![call.key].has = "fresh"]
    /\ Go("sync")
    /\ UNCHANGED <<file, limited>> /\ Same

\* A copy is as good as the directory it was made from.
SyncData ==
    /\ At("sync")
    /\ dirs' = [dirs EXCEPT ![call.key].has =
                    IF call.do = "copy" /\ dirs[call.from].has # "whole" THEN "torn" ELSE "whole"]
    /\ Go("complete")
    /\ UNCHANGED <<file, limited>> /\ Same

\* complete refuses a record that is not the one allocated.
CompleteProject ==
    /\ At("complete")
    /\ IF Active(file[call.key]) /\ file[call.key].projid = call.id
       THEN file' = Complete(file, call.key) /\ End(TRUE)
       ELSE /\ IF call.do = "copy" THEN Go("look") ELSE End(FALSE)
            /\ UNCHANGED file
    /\ UNCHANGED <<dirs, limited>> /\ Same

\* Slip: clearProject comes before rm.
LookUpAndClear ==
    /\ At("look")
    /\ LET id == IF Active(file[call.key]) THEN file[call.key].projid ELSE 0 IN
       /\ call' = [call EXCEPT !.at = "rm", !.id = id]
       /\ limited' = limited \ {id}
    /\ UNCHANGED <<plan, file, dirs>> /\ Same

\* removeStorage, by itself or cleaning up after a copy; then the copy fails.
LookUp ==
    /\ At("look")
    /\ call' = [call EXCEPT !.at = "rm",
                            !.id = IF Active(file[call.key]) THEN file[call.key].projid ELSE 0]
    /\ UNCHANGED <<plan, file, dirs, limited>> /\ Same

RemoveDirectory ==
    /\ At("rm")
    /\ dirs' = [dirs EXCEPT ![call.key] = NoDir]
    /\ IF call.id = 0 THEN End(call.do = "remove") ELSE Go("clear")
    /\ UNCHANGED <<file, limited>> /\ Same

ClearProject ==
    /\ At("clear")
    /\ limited' = limited \ {call.id}
    /\ Go("release")
    /\ UNCHANGED <<file, dirs>> /\ Same

ReleaseProject ==
    /\ At("release")
    /\ file' = Release(file, call.key)
    /\ End(call.do = "remove")
    /\ UNCHANGED <<dirs, limited>> /\ Same

Work ==
    \/ EnsureStorage \/ MakeDirectory \/ AllocateProject \/ SetProject
    \/ SetLimit \/ FillCopy \/ SyncData \/ CompleteProject
    \/ LookUp \/ RemoveDirectory \/ ClearProject \/ ReleaseProject

-----------------------------------------------------------------------------
(* Faults.                                                                 *)

Charges(d) == {<<d[k].projid, k>> : k \in {l \in StorageKeys : d[l].projid # 0}}

\* What the current step may leave when it does not come to its end.  save
\* replaces the file by a rename: a save that fails leaves the old file, or
\* the new one if only the sync of the directory failed.
Write(new) == file' = new /\ UNCHANGED <<dirs, limited>>
Hold(has) == dirs' = [dirs EXCEPT ![call.key].has = has] /\ UNCHANGED <<file, limited>>

Halfway ==
    \/ UNCHANGED <<file, dirs, limited>>
    \/ /\ call.at = "allocate"
       /\ ~Active(file[call.key])
       /\ \E i \in LowestFree(file) : Write(Allocate(file, call.key, i))
    \/ /\ call.at = "project"
       /\ dirs' = [dirs EXCEPT ![call.key].projid = call.id]
       /\ UNCHANGED <<file, limited>>
    \/ /\ call.at = "limit"
       /\ limited' = limited \cup {call.id}
       /\ UNCHANGED <<file, dirs>>
    \/ call.at = "fill" /\ Hold("part")
    \/ /\ call.at = "complete"
       /\ Active(file[call.key])
       /\ file[call.key].projid = call.id
       /\ Write(Complete(file, call.key))
    \/ /\ call.at = "rm"
       /\ dirs[call.key].has \in {"part", "fresh", "whole"}
       /\ Hold("torn")
    \/ call.at = "release" /\ Write(Release(file, call.key))

Cut == Halfway /\ charged' = charged \cup Charges(dirs')

\* A step throws.  copyStorage cleans up when it had begun to copy.
StepFails ==
    /\ up
    /\ call.at \notin Ends \cup {"clear"}
    /\ Fault("step")
    /\ Cut
    /\ IF call.do = "copy" /\ call.at \in {"fill", "sync", "complete"} THEN Go("look") ELSE End(FALSE)
    /\ UNCHANGED <<up, litter, made>>

Down ==
    /\ up' = FALSE
    /\ call' = NoCall("failed")
    /\ plan' = <<>>
    /\ UNCHANGED made

\* clearProject swallows what goes wrong in it.
ClearFails ==
    /\ At("clear")
    /\ Fault("step")
    /\ Go("release")
    /\ UNCHANGED <<up, pool, made, charged>>

\* The agent is killed.  A save cut short leaves its temporary file.
Crash ==
    /\ up
    /\ Fault("crash")
    /\ Cut
    /\ litter' \in {litter} \cup
                   IF call.at \in {"allocate", "complete", "release"} THEN {TRUE} ELSE {}
    /\ Down

\* Data that was copied and not synced is lost.  Metadata is journalled in
\* order, and every save syncs the pool's directory: what a power failure
\* takes back of it is what a crash a few steps earlier would have left out.
PowerFails ==
    /\ up
    /\ Fault("power")
    /\ dirs' = [k \in StorageKeys |-> IF dirs[k].has = "fresh" THEN [dirs[k] EXCEPT !.has = "part"]
                                      ELSE dirs[k]]
    /\ UNCHANGED <<file, limited, litter, charged>>
    /\ Down

\* Somebody loses the registry while the agent is down.
LoseRegistry ==
    /\ ~up
    /\ file # NoFile
    /\ Fault("lose")
    /\ file' = NoFile
    /\ charged' = {}
    /\ UNCHANGED <<up, litter, dirs, limited, call, plan, made>>

-----------------------------------------------------------------------------
(* The agent starts: createLocalRuntime loads the registry, and load makes *)
(* a new one only in a pool that has nothing else in it.                   *)

\* Slip: a missing registry is always made anew.
PoolUnchecked == ~litter

PoolEmpty == ~litter /\ \A k \in StorageKeys : ~Present(k)

Loadable == IF file = NoFile THEN PoolEmpty ELSE Distinct(file)

Start ==
    /\ ~up
    /\ Loadable
    /\ file' = IF file = NoFile THEN EmptyRegistry ELSE file
    /\ up' = TRUE
    /\ UNCHANGED <<litter, dirs, limited, call, plan, made, charged, faults>>

\* The first save of a new registry is cut short.
StartDies ==
    /\ ~up
    /\ file = NoFile
    /\ Loadable
    /\ Fault("crash")
    /\ litter' = TRUE
    /\ UNCHANGED <<up, file, dirs, limited, call, plan, made, charged>>

-----------------------------------------------------------------------------
Next ==
    \/ \E s \in Spaces : AskForData(s) \/ AskForPlan(s)
    \/ GiveUp \/ Check \/ Receive
    \/ Work
    \/ StepFails \/ ClearFails \/ Crash \/ PowerFails \/ LoseRegistry
    \/ Start \/ StartDies

Spec == Init /\ [][Next]_vars

-----------------------------------------------------------------------------
(* Properties.                                                             *)

Places == Ends \cup {"ensure", "mkdir", "allocate", "project", "limit", "fill",
                     "sync", "complete", "look", "rm", "clear", "release"}

CallsAsked == [do : {"create", "remove", "copy", "ensure"}, key : StorageKeys, from : StorageKeys]

Calling == [do : {"create", "remove", "copy"}, at : Places \ Ends,
            key : StorageKeys, from : StorageKeys, id : Ids \cup {0}, asked : BOOLEAN]

\* The variables have their types, an agent that is up has its registry, and a
\* call that somebody waits for is the first of the plan.
TypeOK ==
    /\ up \in BOOLEAN
    /\ file \in Files \cup {NoFile}
    /\ up => file # NoFile
    /\ litter \in BOOLEAN
    /\ dirs \in [StorageKeys -> [has : Contents, projid : Ids \cup {0}]]
    /\ limited \subseteq Ids
    /\ call \in Calling \cup {NoCall(end) : end \in Ends}
    /\ ~up => call.at \in Ends
    /\ plan \in Seq(CallsAsked)
    /\ call.asked => plan # <<>> /\ plan[1].do = call.do
    /\ made \subseteq Spaces
    /\ charged \subseteq Ids \X StorageKeys
    /\ faults \in 0..MaxFaults

\* No two directories are charged to one project id: a tenant's usage never
\* counts against another's limit, and a snapshot's never against its
\* workspace (allocate; load refusing to start a second numbering).
AccountsApart ==
    \A k, l \in StorageKeys :
        /\ Present(k) /\ Present(l) /\ dirs[k].projid # 0
        /\ dirs[k].projid = dirs[l].projid
        => k = l

\* A key is shown nobody else's usage, although the report of the file system
\* and the record are read at different times: whatever was ever charged to
\* the id a record names was this key's (storageUsageAll, storageUsageMb).
UsageIsOwn ==
    up => \A k \in StorageKeys : Active(file[k]) =>
             \A l \in StorageKeys : <<file[k].projid, l>> \in charged => l = k

\* Data a workspace or its snapshot may be used from has its quota (the
\* directory is on the id of the record, and the id has a limit), and is neither
\* a copy cut short nor one whose data was lost with the power (pending, sync,
\* complete).
UsableIsSound ==
    \A s \in Spaces, kind \in {"live", "prev"} :
        LET k == Key(s, kind) IN
        up /\ Usable(k) =>
            /\ dirs[k].projid = file[k].projid /\ file[k].projid \in limited
            /\ dirs[k].has \in {"whole", "torn"}

\* A directory with anything copied into it is never outside a limit: the
\* quota comes before the data and goes after it.
DataIsLimited ==
    \A k \in StorageKeys : dirs[k].has \in {"part", "fresh", "torn", "whole"}
                           => dirs[k].projid \in limited

=============================================================================
