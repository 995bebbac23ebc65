------------------------- MODULE InstanceDataProofs -------------------------
(***************************************************************************)
(* What happens to a workspace's data, for any images, quotas, bounds and   *)
(* faults: what the owner worked with last is never lost, the snapshot on    *)
(* record belongs to the image on record, and what runs is what the row      *)
(* says.  The proofs rest on those of InstanceLifecycleProofs (where the     *)
(* container is known to be gone, and which calls can be under way).         *)
(*                                                                         *)
(* The invariant has three parts: what is safe at any time, what a call that *)
(* is under way may still do without endangering it, and what each place of   *)
(* a workflow relies on.                                                   *)
(***************************************************************************)
EXTENDS InstanceLifecycleProofs

RebuildPCs == {"read", "ensure", "image", "quiet", "chown", "create", "save", "sync"}

\* Workflows that no rollback runs, up to where they join the rebuild.
OwnPCs == {"make", "inspect", "q_resize", "q_save", "q_rm",
           "i_stop", "i_inval", "i_wipe", "i_copy", "i_save"}

Owed(l, gone) == ~gone /\ l # Missing

Holds(w, k, l) == Usable(w, k) /\ w.disk[k].dir = l

\* The container is made as the row r says.
Built(w, r) == w.ctr.state # "absent" => w.ctr.image = r.image /\ w.ctr.quota = r.quota

\* At any time: l are the contents owed to the owner, unless they are gone
\* for good.
Safe(w, r, l, gone) ==
    /\ Owed(l, gone) => Holds(w, "live", l) \/ Holds(w, "recovery", l)
    /\ ~gone /\ r.prev # None => Usable(w, "prev") /\ w.disk["prev"].tag = r.prev
    /\ Running(w) => w.ctr.image = r.image
    /\ r.cid => Built(w, r)

\* What must be so for call m to be under way: what it removes is kept
\* elsewhere, the snapshot it replaces is not offered, the container it
\* makes or starts is the row's.
Harmless(m, w, r, l, gone) ==
    /\ m = WipeCall("live") /\ Owed(l, gone) => Holds(w, "recovery", l)
    /\ m = WipeCall("recovery") /\ Owed(l, gone) => Holds(w, "live", l)
    /\ m.do \in {"wipe", "copy"} /\ m.key = "prev" => gone \/ r.prev = None
    /\ m.do = "create" => m.image = r.image /\ (r.cid => m.quota = r.quota)
    /\ m.do = "start" /\ w.ctr.state # "absent" => w.ctr.image = r.image

\* What the workflow relies on at each place.  A rollback first keeps the
\* live data aside and, once it is committed, has the owner's data in place
\* up to the removal of the copy; an upgrade offers no snapshot until it has
\* a new one; a deletion has begun to destroy.
Relied(at, stage, w, r, j, l, gone) ==
    /\ at \in {"rb_wipe", "rb_copy", "rb_save"} /\ Owed(l, gone) => Holds(w, "recovery", l)
    /\ at = "rb_save" => j = Nothing /\ Usable(w, "live") /\ w.ctr = NoContainer
    /\ at = "rb_finish" \/ (stage = "rollback" /\ at \in RebuildPCs)
          => j = Nothing /\ (Owed(l, gone) => Holds(w, "live", l))
    /\ at \in {"i_wipe", "i_copy", "i_save"} => r.prev = None
    /\ at = "i_save" => /\ j = Nothing /\ ~Running(w)
                        /\ Usable(w, "prev") /\ w.disk["prev"].tag = r.image
    /\ at \in {"rm_prev", "rm_recovery", "rm_retain"} => gone
    /\ at \in {"inspect", "start_ensure", "start"} => r.cid
    /\ at = "save" => j = Nothing /\ Built(w, r)
    /\ at \in OwnPCs => stage # "rollback"

DInv ==
    /\ Safe(node, row, latest, doomed)
    /\ Harmless(job, node, row, latest, doomed)
    /\ Relied(pc, op.stage, node, row, job, latest, doomed)

-----------------------------------------------------------------------------
\* A removal is known by its key, and only the live data are made.
LEMMA WipeNames ==
    ASSUME NEW m \in Calls
    PROVE  /\ m.do = "wipe" => m = WipeCall(m.key)
           /\ m.do = "make" => m.key = "live"
           /\ m.do = "nothing" => m = Nothing
  <1>1. CASE m \in {Nothing, StopCall, RemoveCall, StartCall, PullCall, ChownCall,
                    ResizeCall, MakeCall}
    BY <1>1 DEF Nothing, StopCall, RemoveCall, StartCall, PullCall, ChownCall,
                ResizeCall, MakeCall
  <1>2. CASE \E i \in Images, q \in Quotas : m = CreateCall(i, q)
    BY <1>2 DEF CreateCall
  <1>3. CASE \E k \in Keys : m = WipeCall(k)
    BY <1>3 DEF WipeCall
  <1>4. CASE \E from \in Keys, to \in Keys, tag \in Images \cup {None} :
                 m = CopyCall(from, to, tag)
    BY <1>4 DEF CopyCall
  <1>5. QED
    BY <1>1, <1>2, <1>3, <1>4 DEF Calls

\* What calls do to what is safe.

\* A call that makes the container either leaves it, removes it or makes it
\* of the image and quota it was asked for.
LEMMA CreateForms ==
    ASSUME NEW w \in NodeStates, NEW m \in Calls, NEW v \in Outcomes(m, w), m.do = "create"
    PROVE  \/ v = w
           \/ v = Become(w, "absent", None, None)
           \/ \E s \in {"stopped", "running"} : v = Become(w, s, m.image, m.quota)
  BY DEF Outcomes, Done, Denied, Broken, Allowed, Clash

\* A change of the container alone keeps what is safe when it leaves no
\* container, one of the same make that does not run more than before, or one
\* made as the row says.
LEMMA ContainerSafe ==
    ASSUME NEW w \in NodeStates, NEW v \in NodeStates, NEW r \in Rows, NEW l, NEW gone \in BOOLEAN,
           Safe(w, r, l, gone),
           v.disk = w.disk,
           \/ v.ctr.state = "absent"
           \/ /\ w.ctr.state # "absent" /\ v.ctr.image = w.ctr.image /\ v.ctr.quota = w.ctr.quota
              /\ Running(w) \/ ~Running(v) \/ w.ctr.image = r.image
           \/ v.ctr.image = r.image /\ (r.cid => v.ctr.quota = r.quota)
    PROVE  Safe(v, r, l, gone)
  <1>1. /\ Owed(l, gone) => Holds(v, "live", l) \/ Holds(v, "recovery", l)
        /\ ~gone /\ r.prev # None => Usable(v, "prev") /\ v.disk["prev"].tag = r.prev
    BY DEF Safe, Holds, Usable
  <1>2. Running(v) => v.ctr.image = r.image
    BY DEF Safe, Running
  <1>3. r.cid => Built(v, r)
    BY DEF Safe, Built
  <1>4. QED
    BY <1>1, <1>2, <1>3 DEF Safe

\* A change of one key keeps what is safe when the key held nothing, or what
\* it held is not needed.
LEMMA KeySafe ==
    ASSUME NEW w \in NodeStates, NEW v \in NodeStates, NEW r \in Rows, NEW l, NEW gone \in BOOLEAN,
           NEW k \in Keys,
           Safe(w, r, l, gone),
           v.ctr = w.ctr,
           \A j \in Keys : j # k => v.disk[j] = w.disk[j],
           k = "live" /\ Owed(l, gone) => ~Usable(w, "live") \/ Holds(w, "recovery", l),
           k = "recovery" /\ Owed(l, gone) => ~Usable(w, "recovery") \/ Holds(w, "live", l),
           k = "prev" => gone \/ r.prev = None
    PROVE  Safe(v, r, l, gone)
  <1>1. Keys = {"live", "prev", "recovery"}
    BY DEF Keys
  <1>2. Owed(l, gone) => Holds(v, "live", l) \/ Holds(v, "recovery", l)
    BY <1>1 DEF Safe, Holds, Usable
  <1>3. ~gone /\ r.prev # None => Usable(v, "prev") /\ v.disk["prev"].tag = r.prev
    BY <1>1 DEF Safe, Usable
  <1>4. (Running(v) => v.ctr.image = r.image) /\ (r.cid => Built(v, r))
    BY DEF Safe, Running, Built
  <1>5. QED
    BY <1>2, <1>3, <1>4 DEF Safe

\* However a harmless call ends, what is safe stays safe.
LEMMA OutcomesSafe ==
    ASSUME NEW w \in NodeStates, NEW m \in Calls, NEW v \in Outcomes(m, w),
           NEW r \in Rows, NEW l, NEW gone \in BOOLEAN,
           Safe(w, r, l, gone), Harmless(m, w, r, l, gone)
    PROVE  Safe(v, r, l, gone)
  <1>1. v \in NodeStates
    BY OutcomeTypes
  <1>2. CASE v = w
    BY <1>2
  <1>3. CASE m.do = "stop" /\ v = Halted(w)
    <2>1. CASE Running(w)
      <3>1. v.disk = w.disk /\ v.ctr = [state |-> "stopped", image |-> w.ctr.image, quota |-> w.ctr.quota]
        BY <1>3, <2>1, NodeFields, BecomeFacts DEF Halted
      <3>2. w.ctr.state # "absent"
        BY <2>1 DEF Running
      <3>3. QED
        BY <1>1, <2>1, <3>1, <3>2, ContainerSafe
    <2>2. CASE ~Running(w)
      BY <1>3, <2>2 DEF Halted
    <2>3. QED
      BY <2>1, <2>2
  <1>4. CASE m.do = "remove" /\ v = Become(w, "absent", None, None)
    <2>1. v.disk = w.disk /\ v.ctr.state = "absent"
      BY <1>4 DEF Become, NodeStates, Containers
    <2>2. QED
      BY <1>1, <2>1, ContainerSafe
  <1>5. CASE m.do = "start" /\ w.ctr.state # "absent" /\ v = Become(w, "running", w.ctr.image, w.ctr.quota)
    <2>1. v.disk = w.disk /\ v.ctr.image = w.ctr.image /\ v.ctr.quota = w.ctr.quota
      BY <1>5 DEF Become, NodeStates, Containers
    <2>2. w.ctr.image = r.image
      BY <1>5 DEF Harmless
    <2>3. QED
      BY <1>1, <1>5, <2>1, <2>2, ContainerSafe
  <1>6. CASE m.do = "create"
    <2>1. m.image = r.image /\ (r.cid => m.quota = r.quota)
      BY <1>6 DEF Harmless
    <2>2. CASE v = Become(w, "absent", None, None)
      <3>1. v.disk = w.disk /\ v.ctr.state = "absent"
        BY <2>2 DEF Become, NodeStates, Containers
      <3>2. QED
        BY <1>1, <3>1, ContainerSafe
    <2>3. ASSUME NEW s \in {"stopped", "running"}, v = Become(w, s, m.image, m.quota)
          PROVE  Safe(v, r, l, gone)
      <3>1. v.disk = w.disk /\ v.ctr.image = m.image /\ v.ctr.quota = m.quota
        BY <2>3 DEF Become, NodeStates, Containers
      <3>2. QED
        BY <1>1, <2>1, <3>1, ContainerSafe
    <2>4. QED
      BY <1>2, <1>6, <2>2, <2>3, CreateForms
  <1>7. ASSUME NEW d \in Dirs, NEW c \in Recs, NEW t \in Tags,
               m.do \in {"make", "copy", "wipe"}, v = Put(w, m.key, d, c, t),
               m.do \in {"make", "copy"} => w.disk[m.key].dir = Missing
        PROVE  Safe(v, r, l, gone)
    <2>1. m.key \in Keys
      BY <1>7, CallFields
    <2>2. v.ctr = w.ctr /\ \A j \in Keys : j # m.key => v.disk[j] = w.disk[j]
      BY <1>7, <2>1 DEF Put, NodeStates, Entries
    <2>3. m.do \in {"make", "copy"} => ~Usable(w, m.key)
      BY <1>7 DEF Usable
    <2>4. /\ m.do = "wipe" /\ m.key = "live" => m = WipeCall("live")
          /\ m.do = "wipe" /\ m.key = "recovery" => m = WipeCall("recovery")
      BY WipeNames
    <2>5. m.do = "make" => m.key = "live"
      BY WipeNames
    <2>6. QED
      BY <1>1, <1>7, <2>1, <2>2, <2>3, <2>4, <2>5, KeySafe DEF Harmless
  <1>8. QED
    BY <1>2, <1>3, <1>4, <1>5, <1>6, <1>7, OutcomeForms

-----------------------------------------------------------------------------
\* The shapes of a step.

\* Where a failed call leads no workflow relies on anything.
Frees == {"failed", "fail_with", "fail_twice", "boot", "idle", "end", "boot_mark", "boot_sync",
          "rec", "rec_save", "rb_mark", "rb_sync", "rb_stop", "rb_ctr", "rb_ensure", "rb_keep",
          "rm_mark", "rm_sync", "rm_stop", "rm_ctr", "rm_live", "rm_final", "stop", "stop_save",
          "stop_sync", "start_save", "start_sync"}

\* At such a place anything may be the case; so it is in a rebuild that follows
\* no rollback, except where the container has just been made.
LEMMA FreePlaces ==
    ASSUME NEW at, NEW stage, NEW w, NEW r, NEW j, NEW l, NEW gone,
           at \in Frees \/ (at \in RebuildPCs \ {"save"} /\ stage # "rollback")
    PROVE  Relied(at, stage, w, r, j, l, gone)
  BY DEF Relied, Frees, RebuildPCs, OwnPCs

\* A node that does nothing harms nothing.
LEMMA NothingHarms ==
    ASSUME NEW w, NEW r, NEW l, NEW gone
    PROVE  Harmless(Nothing, w, r, l, gone)
  <1>1. Nothing.do = "nothing"
    BY DEF Nothing
  <1>2. WipeCall("live").do = "wipe" /\ WipeCall("recovery").do = "wipe"
    BY DEF WipeCall
  <1>3. QED
    BY <1>1, <1>2 DEF Harmless

\* These calls touch no data and start nothing.
LEMMA PlainHarmless ==
    ASSUME NEW m \in {StopCall, RemoveCall, PullCall, ChownCall, ResizeCall, MakeCall},
           NEW w, NEW r, NEW l, NEW gone
    PROVE  Harmless(m, w, r, l, gone)
  <1>1. m.do \in {"stop", "remove", "pull", "chown", "resize", "make"}
    BY DEF StopCall, RemoveCall, PullCall, ChownCall, ResizeCall, MakeCall
  <1>2. WipeCall("live").do = "wipe" /\ WipeCall("recovery").do = "wipe"
    BY DEF WipeCall
  <1>3. QED
    BY <1>1, <1>2 DEF Harmless

\* When the data are gone for good less is owed.
LEMMA GoneOwesLess ==
    ASSUME NEW m, NEW w, NEW r, NEW l, NEW gone \in BOOLEAN, NEW later \in {gone, TRUE},
           Safe(w, r, l, gone), Harmless(m, w, r, l, gone)
    PROVE  Safe(w, r, l, later) /\ Harmless(m, w, r, l, later)
  <1>1. CASE later = gone
    BY <1>1
  <1>2. CASE later = TRUE
    BY <1>2 DEF Safe, Harmless, Owed
  <1>3. QED
    BY <1>1, <1>2

\* A step that leaves the node, its call, and what the row offers and vouches
\* for: it must find what the next place relies on.
LEMMA MoveSafe ==
    ASSUME DInv,
           UNCHANGED <<node, job, latest, doomed>>,
           row'.image = row.image, row'.prev = row.prev, row'.quota = row.quota, row'.cid = row.cid,
           Relied(pc', op'.stage, node, row, job, latest, doomed)
    PROVE  DInv'
  <1>1. Safe(node, row', latest, doomed)
    BY DEF DInv, Safe, Built
  <1>2. Harmless(job, node, row', latest, doomed)
    BY DEF DInv, Harmless
  <1>3. Relied(pc', op'.stage, node, row', job, latest, doomed)
    BY DEF Relied, Built
  <1>4. QED
    BY <1>1, <1>2, <1>3 DEF DInv

\* A call to the node: what it asks for must be harmless, and what it finds
\* done be what the next place relies on.
LEMMA AskSafe ==
    ASSUME IInv, DInv,
           NEW here, NEW m \in Calls, NEW next, NEW fail,
           Ask(here, m, next, fail),
           UNCHANGED <<row, op, latest>>,
           doomed' \in {doomed, TRUE},
           Harmless(m, node, row, latest, doomed'),
           \A v \in Done(m, node) : Relied(next, op.stage, v, row, Nothing, latest, doomed'),
           fail \in Frees \/ (fail = "read" /\ op.stage # "rollback")
    PROVE  DInv'
  <1>1. /\ node \in NodeStates /\ row \in Rows /\ job \in Calls
        /\ doomed \in BOOLEAN /\ doomed' \in BOOLEAN
    BY DEF IInv, TypeOK
  <1>2. /\ Safe(node, row, latest, doomed')
        /\ Harmless(job, node, row, latest, doomed')
    BY <1>1, GoneOwesLess DEF DInv
  <1>3. \A w, j : /\ Relied(fail, op.stage, w, row, j, latest, doomed')
                  /\ Relied("boot", op.stage, w, row, j, latest, doomed')
    BY FreePlaces DEF Frees, RebuildPCs
  <1>4. CASE node' = node /\ job' \in {job, m} /\ pc' \in {fail, "boot"}
    <2>1. Safe(node', row', latest', doomed') /\ Harmless(job', node', row', latest', doomed')
      BY <1>2, <1>4
    <2>2. Relied(pc', op'.stage, node', row', job', latest', doomed')
      BY <1>3, <1>4
    <2>3. QED
      BY <2>1, <2>2 DEF DInv
  <1>5. CASE /\ job = Nothing /\ job' = job
             /\ node' \in Outcomes(m, node)
             /\ (pc' = next /\ node' \in Done(m, node)) \/ pc' = fail
    <2>1. Safe(node', row', latest', doomed')
      BY <1>1, <1>2, <1>5, OutcomesSafe
    <2>2. Harmless(job', node', row', latest', doomed')
      BY <1>5, NothingHarms
    <2>3. Relied(pc', op'.stage, node', row', job', latest', doomed')
      BY <1>3, <1>5
    <2>4. QED
      BY <2>1, <2>2, <2>3 DEF DInv
  <1>6. QED
    BY <1>4, <1>5 DEF Ask, Outcomes

\* A call of a workflow, its plain form.
LEMMA CallSafe ==
    ASSUME IInv, DInv,
           NEW here, NEW m \in Calls, NEW next, NEW fail,
           Call(here, m, next, fail),
           Harmless(m, node, row, latest, doomed),
           \A v \in Done(m, node) : Relied(next, op.stage, v, row, Nothing, latest, doomed),
           fail \in Frees \/ (fail = "read" /\ op.stage # "rollback")
    PROVE  DInv'
  BY AskSafe DEF Call, history, routes

\* A question to the node.
LEMMA LookSafe ==
    ASSUME DInv, NEW here, NEW holds, NEW next, NEW fail,
           Look(here, holds, next, fail),
           Relied(next, op.stage, node, row, job, latest, doomed),
           Relied(fail, op.stage, node, row, job, latest, doomed)
    PROVE  DInv'
  BY MoveSafe DEF Look, history, routes

\* A projection of the routes (syncRoutes).
LEMMA PublishSafe ==
    ASSUME DInv, NEW here, NEW next, NEW fail,
           Publish(here, next, fail),
           Relied(next, op.stage, node, row, job, latest, doomed),
           Relied(fail, op.stage, node, row, job, latest, doomed)
    PROVE  DInv'
  BY MoveSafe DEF Publish, history

\* An UPDATE of the row's status.
LEMMA StatusSafe ==
    ASSUME DInv, NEW here, NEW r, NEW next, NEW fail,
           Store(here, r, next, fail),
           r.image = row.image, r.prev = row.prev, r.quota = row.quota, r.cid = row.cid,
           Relied(next, op.stage, node, row, job, latest, doomed),
           Relied(fail, op.stage, node, row, job, latest, doomed)
    PROVE  DInv'
  BY MoveSafe DEF Store, Save, history

-----------------------------------------------------------------------------
\* The workflows, one step per action.

\* create: the data of a new workspace.
LEMMA CreateDataSafe ==
    ASSUME IInv, DInv, CreateData
    PROVE  DInv'
  <1>1. pc = "make" /\ op.stage # "rollback"
    BY DEF CreateData, Call, Ask, DInv, Relied, OwnPCs
  <1>2. \A v \in Done(MakeCall, node) : Relied("image", op.stage, v, row, Nothing, latest, doomed)
    BY <1>1, FreePlaces DEF RebuildPCs
  <1>3. MakeCall \in Calls /\ Harmless(MakeCall, node, row, latest, doomed) /\ "fail_with" \in Frees
    BY PlainCalls, PlainHarmless DEF Frees
  <1>4. QED
    BY <1>2, <1>3, CallSafe DEF CreateData

\* A rebuild goes on over the data it began with.
LEMMA RebuildGoesOn ==
    ASSUME NEW here \in RebuildPCs, NEW next \in RebuildPCs \ {"save"}, NEW stage,
           NEW w, NEW v, NEW r, NEW j, NEW l, NEW gone,
           Relied(here, stage, w, r, j, l, gone), v.disk = w.disk
    PROVE  /\ Relied(next, stage, v, r, Nothing, l, gone)
           /\ Relied(next, stage, v, r, j, l, gone)
  BY DEF Relied, RebuildPCs, OwnPCs, Holds, Usable

\* applyRuntime and the restart around it: the container is made as the row
\* says, and after a rollback over the owner's data.
LEMMA RebuildSafe ==
    ASSUME IInv, DInv, Rebuild
    PROVE  DInv'
  <1>1. RebuildFails \in Frees
    BY DEF RebuildFails, Frees
  <1>2. node \in NodeStates /\ row \in Rows
    BY DEF IInv, TypeOK
  <1>3. Relied(pc, op.stage, node, row, job, latest, doomed)
    BY DEF DInv
  <1>4. \A w, j : Relied(RebuildFails, op.stage, w, row, j, latest, doomed)
    BY <1>1, FreePlaces
  <1>5. ASSUME NEW here \in RebuildPCs, pc = here
        PROVE  \A next \in RebuildPCs \ {"save"} : \A v :
                  v.disk = node.disk => /\ Relied(next, op.stage, v, row, Nothing, latest, doomed)
                                        /\ Relied(next, op.stage, v, row, job, latest, doomed)
    BY <1>3, <1>5, RebuildGoesOn
  <1>6. {"ensure", "image", "quiet", "chown", "create", "sync"} \subseteq RebuildPCs \ {"save"}
    BY DEF RebuildPCs
  <1>7. CASE RebuildRead
    <2>1. pc = "read" /\ UNCHANGED <<row, node, job, latest, doomed>>
      BY <1>7 DEF RebuildRead, history
    <2>2. CASE pc' = "ensure" /\ UNCHANGED op
      <3>1. Relied("ensure", op.stage, node, row, job, latest, doomed)
        BY <1>3, <2>1, RebuildGoesOn DEF RebuildPCs
      <3>2. QED
        BY <2>1, <2>2, <3>1, MoveSafe
    <2>3. CASE pc' \in {"rb_mark", "fail_with", "failed"}
      <3>1. Relied(pc', op'.stage, node, row, job, latest, doomed)
        BY <2>3, FreePlaces DEF Frees
      <3>2. QED
        BY <2>1, <3>1, MoveSafe
    <2>4. QED
      BY <1>7, <2>2, <2>3 DEF RebuildRead
  <1>8. CASE RebuildEnsure
    <2>1. pc = "ensure"
      BY <1>8 DEF RebuildEnsure, Look
    <2>2. Relied("image", op.stage, node, row, job, latest, doomed)
      BY <1>5, <1>6, <2>1
    <2>3. QED
      BY <1>4, <1>8, <2>2, LookSafe DEF RebuildEnsure
  <1>9. CASE RebuildImage
    <2>1. pc = "image" /\ UNCHANGED <<row, op, latest, doomed>>
      BY <1>9 DEF RebuildImage, Ask, history
    <2>2. CASE Ask("image", PullCall, "quiet", RebuildFails)
      <3>1. \A v \in Done(PullCall, node) : v = node
        BY DEF Done, PullCall
      <3>2. \A v \in Done(PullCall, node) : Relied("quiet", op.stage, v, row, Nothing, latest, doomed)
        BY <1>5, <1>6, <2>1, <3>1
      <3>3. PullCall \in Calls /\ Harmless(PullCall, node, row, latest, doomed)
        BY PlainCalls, PlainHarmless
      <3>4. QED
        BY <1>1, <2>1, <2>2, <3>2, <3>3, AskSafe
    <2>3. CASE pc' = "quiet" /\ UNCHANGED <<node, job>>
      <3>1. Relied("quiet", op.stage, node, row, job, latest, doomed)
        BY <1>5, <1>6, <2>1
      <3>2. QED
        BY <2>1, <2>3, <3>1, MoveSafe
    <2>4. QED
      BY <1>9, <2>2, <2>3 DEF RebuildImage
  <1>10. CASE RebuildQuiet
    <2>1. pc = "quiet"
      BY <1>10 DEF RebuildQuiet, Call, Ask
    <2>2. \A v \in Done(StopCall, node) : v.disk = node.disk
      BY <1>2, HaltedFacts DEF Done, StopCall
    <2>3. \A v \in Done(StopCall, node) : Relied("chown", op.stage, v, row, Nothing, latest, doomed)
      BY <1>5, <1>6, <2>1, <2>2
    <2>4. StopCall \in Calls /\ Harmless(StopCall, node, row, latest, doomed)
      BY PlainCalls, PlainHarmless
    <2>5. QED
      BY <1>1, <1>10, <2>3, <2>4, CallSafe DEF RebuildQuiet
  <1>11. CASE RebuildChown
    <2>1. pc = "chown"
      BY <1>11 DEF RebuildChown, Call, Ask
    <2>2. \A v \in Done(ChownCall, node) : v = node
      BY DEF Done, ChownCall
    <2>3. \A v \in Done(ChownCall, node) : Relied("create", op.stage, v, row, Nothing, latest, doomed)
      BY <1>5, <1>6, <2>1, <2>2
    <2>4. ChownCall \in Calls /\ Harmless(ChownCall, node, row, latest, doomed)
      BY PlainCalls, PlainHarmless
    <2>5. QED
      BY <1>1, <1>11, <2>3, <2>4, CallSafe DEF RebuildChown
  <1>12. CASE RebuildCreate
    <2> DEFINE m == CreateCall(row.image, row.quota)
    <2>1. pc = "create" /\ Listed
      BY <1>12, Known DEF RebuildCreate, Call, Ask, QuietPCs
    <2>2. m \in Calls
      BY <2>1, Known, PlainCalls
    <2>3. m.do = "create" /\ m.image = row.image /\ m.quota = row.quota
      BY DEF CreateCall
    <2>4. Harmless(m, node, row, latest, doomed)
      <3>1. m # WipeCall("live") /\ m # WipeCall("recovery")
        BY <2>3 DEF WipeCall
      <3> HIDE DEF m
      <3>2. QED
        BY <2>3, <3>1 DEF Harmless
    <2> HIDE DEF m
    <2>5. ASSUME NEW v \in Done(m, node)
          PROVE  Relied("save", op.stage, v, row, Nothing, latest, doomed)
      <3>1. v = Become(node, "running", row.image, row.quota)
        BY <2>3, <2>5 DEF Done
      <3>2. v.disk = node.disk /\ v.ctr.image = row.image /\ v.ctr.quota = row.quota
        BY <1>2, <3>1 DEF Become, NodeStates, Containers
      <3>3. op.stage = "rollback" /\ Owed(latest, doomed) => Holds(node, "live", latest)
        BY <1>3, <2>1 DEF Relied, RebuildPCs
      <3>4. QED
        BY <3>2, <3>3 DEF Relied, Built, Holds, Usable, OwnPCs
    <2>6. Call("create", m, "save", RebuildFails)
      BY <1>12 DEF RebuildCreate, m
    <2>7. QED
      BY <1>1, <2>2, <2>4, <2>5, <2>6, CallSafe
  <1>13. CASE RebuildSave
    <2>1. pc = "save" /\ job = Nothing /\ Built(node, row)
      BY <1>3, <1>13 DEF RebuildSave, Store, Save, Relied
    <2>2. UNCHANGED <<node, job, op, latest, doomed>>
      BY <1>13 DEF RebuildSave, Store, Save, history
    <2>3. CASE pc' = RebuildFails /\ UNCHANGED row
      BY <1>4, <2>2, <2>3, MoveSafe
    <2>4. CASE /\ pc' = "sync"
               /\ row' = [row EXCEPT !.status = "running", !.cid = TRUE, !.port = TRUE]
      <3>1. row'.image = row.image /\ row'.prev = row.prev /\ row'.quota = row.quota
        BY <1>2, <2>4 DEF Rows
      <3>2. Safe(node, row', latest, doomed)
        BY <2>1, <3>1 DEF DInv, Safe, Built
      <3>3. Relied("sync", op.stage, node, row, job, latest, doomed)
        BY <1>5, <1>6, <2>1 DEF RebuildPCs
      <3>4. Relied("sync", op.stage, node, row', job, latest, doomed)
        BY <3>1, <3>3 DEF Relied
      <3>5. Harmless(job, node, row', latest, doomed)
        BY <2>1, NothingHarms
      <3>6. QED
        BY <2>2, <2>4, <3>2, <3>4, <3>5 DEF DInv
    <2>5. QED
      BY <1>13, <2>3, <2>4 DEF RebuildSave, Store, Save
  <1>14. CASE RebuildSync
    <2> DEFINE next == IF op.stage = "rollback" THEN "rb_finish" ELSE "end"
    <2>1. pc = "sync" /\ Publish("sync", next, RebuildFails)
      BY <1>14 DEF RebuildSync, Publish
    <2>2. Relied(next, op.stage, node, row, job, latest, doomed)
      BY <1>3, <2>1 DEF Relied, RebuildPCs, OwnPCs
    <2> HIDE DEF next
    <2>3. QED
      BY <1>4, <2>1, <2>2, PublishSafe
  <1>15. QED
    BY <1>7, <1>8, <1>9, <1>10, <1>11, <1>12, <1>13, <1>14 DEF Rebuild

\* stop: nothing is relied on.
LEMMA StoppingSafe ==
    ASSUME IInv, DInv, Stopping
    PROVE  DInv'
  <1>1. /\ \A at \in {"stop_save", "stop_sync", "end", "fail_with"} : \A w, j :
              Relied(at, op.stage, w, row, j, latest, doomed)
        /\ "fail_with" \in Frees
    BY FreePlaces DEF Frees
  <1>2. StopCall \in Calls /\ Harmless(StopCall, node, row, latest, doomed)
    BY PlainCalls, PlainHarmless
  <1>3. CASE StopContainer
    BY <1>1, <1>2, <1>3, CallSafe DEF StopContainer
  <1>4. CASE StopSave
    <2> DEFINE r == [row EXCEPT !.status = "stopped"]
    <2>1. r.image = row.image /\ r.prev = row.prev /\ r.quota = row.quota /\ r.cid = row.cid
      BY Known DEF Rows
    <2>2. Store("stop_save", r, "stop_sync", "fail_with")
      BY <1>4 DEF StopSave
    <2> HIDE DEF r
    <2>3. QED
      BY <1>1, <2>1, <2>2, StatusSafe
  <1>5. CASE StopSync
    BY <1>1, <1>5, PublishSafe DEF StopSync
  <1>6. QED
    BY <1>3, <1>4, <1>5 DEF Stopping

\* start: a container is only started when the row vouches for it.
LEMMA StartingSafe ==
    ASSUME IInv, DInv, Starting
    PROVE  DInv'
  <1>1. /\ \A at \in {"start_save", "start_sync", "end", "fail_with"} : \A w, j :
              Relied(at, op.stage, w, row, j, latest, doomed)
        /\ "fail_with" \in Frees
    BY FreePlaces DEF Frees
  <1>2. Relied(pc, op.stage, node, row, job, latest, doomed)
    BY DEF DInv
  <1>3. CASE StartInspect
    <2> DEFINE next == IF node.ctr.state = "absent" THEN "ensure" ELSE "start_ensure"
    <2>1. row.cid /\ op.stage # "rollback"
      BY <1>2, <1>3 DEF StartInspect, Look, Relied, OwnPCs
    <2>2. /\ Relied("ensure", op.stage, node, row, job, latest, doomed)
          /\ Relied("start_ensure", op.stage, node, row, job, latest, doomed)
      BY <2>1 DEF Relied, RebuildPCs, OwnPCs
    <2>3. Look("inspect", TRUE, next, "fail_with")
      BY <1>3 DEF StartInspect
    <2>4. Relied(next, op.stage, node, row, job, latest, doomed)
      BY <2>2
    <2> HIDE DEF next
    <2>5. QED
      BY <1>1, <2>3, <2>4, LookSafe
  <1>4. CASE StartEnsure
    <2>1. row.cid
      BY <1>2, <1>4 DEF StartEnsure, Look, Relied
    <2>2. Relied("start", op.stage, node, row, job, latest, doomed)
      BY <2>1 DEF Relied, RebuildPCs, OwnPCs
    <2>3. QED
      BY <1>1, <1>4, <2>2, LookSafe DEF StartEnsure
  <1>5. CASE StartContainer
    <2>1. row.cid
      BY <1>2, <1>5 DEF StartContainer, Call, Ask, Relied
    <2>2. StartCall \in Calls /\ StartCall.do = "start"
      BY PlainCalls DEF StartCall
    <2>3. StartCall # WipeCall("live") /\ StartCall # WipeCall("recovery")
      BY <2>2 DEF WipeCall
    <2>4. Harmless(StartCall, node, row, latest, doomed)
      BY <2>1, <2>2, <2>3 DEF DInv, Safe, Built, Harmless
    <2>5. QED
      BY <1>1, <1>5, <2>2, <2>4, CallSafe DEF StartContainer
  <1>6. CASE StartSave
    <2> DEFINE r == [row EXCEPT !.status = "running"]
    <2>1. r.image = row.image /\ r.prev = row.prev /\ r.quota = row.quota /\ r.cid = row.cid
      BY Known DEF Rows
    <2>2. Store("start_save", r, "start_sync", "fail_with")
      BY <1>6 DEF StartSave
    <2> HIDE DEF r
    <2>3. QED
      BY <1>1, <2>1, <2>2, StatusSafe
  <1>7. CASE StartSync
    BY <1>1, <1>7, PublishSafe DEF StartSync
  <1>8. QED
    BY <1>3, <1>4, <1>5, <1>6, <1>7 DEF Starting

\* Removing what is not owed any more.
LEMMA WipeHarmless ==
    ASSUME NEW k \in Keys, NEW w, NEW r, NEW l, NEW gone,
           k = "live" /\ Owed(l, gone) => Holds(w, "recovery", l),
           k = "recovery" /\ Owed(l, gone) => Holds(w, "live", l),
           k = "prev" => gone \/ r.prev = None
    PROVE  WipeCall(k) \in Calls /\ Harmless(WipeCall(k), w, r, l, gone)
  <1>1. WipeCall(k) \in Calls
    BY DEF Calls
  <1>2. \A x : WipeCall(x).do = "wipe" /\ WipeCall(x).key = x
    BY DEF WipeCall
  <1>3. Harmless(WipeCall(k), w, r, l, gone)
    BY <1>2 DEF Harmless
  <1>4. QED
    BY <1>1, <1>3

\* remove: from the first destruction on nothing is owed.
LEMMA RemovingSafe ==
    ASSUME IInv, DInv, Removing
    PROVE  DInv'
  <1>1. /\ \A at \in {"rm_sync", "rm_stop", "rm_ctr", "rm_live", "rm_final", "end", "fail_with"} : \A w, r, j :
              Relied(at, op.stage, w, r, j, latest, doomed)
        /\ "fail_with" \in Frees
    BY FreePlaces DEF Frees
  <1>2. Relied(pc, op.stage, node, row, job, latest, doomed) /\ row \in Rows /\ doomed \in BOOLEAN
    BY Known DEF DInv
  <1>3. \A at \in {"rm_prev", "rm_recovery", "rm_retain"} : \A w, j :
           Relied(at, op.stage, w, row, j, latest, TRUE)
    BY DEF Relied, RebuildPCs, OwnPCs
  <1>4. Keys = {"live", "prev", "recovery"} /\ ~Owed(latest, TRUE)
    BY DEF Keys, Owed
  <1>5. CASE RemoveMark
    <2> DEFINE r == [row EXCEPT !.status = "removing"]
    <2>1. r.image = row.image /\ r.prev = row.prev /\ r.quota = row.quota /\ r.cid = row.cid
      BY <1>2 DEF Rows
    <2>2. Store("rm_mark", r, "rm_sync", "fail_with")
      BY <1>5 DEF RemoveMark
    <2> HIDE DEF r
    <2>3. QED
      BY <1>1, <2>1, <2>2, StatusSafe
  <1>6. CASE RemoveSync
    BY <1>1, <1>6, PublishSafe DEF RemoveSync
  <1>7. CASE RemoveStop
    BY <1>1, <1>7, PlainCalls, PlainHarmless, CallSafe DEF RemoveStop
  <1>8. CASE RemoveContainer
    BY <1>1, <1>8, PlainCalls, PlainHarmless, CallSafe DEF RemoveContainer
  <1>9. CASE DestroyLive
    <2>1. /\ Ask("rm_live", WipeCall("live"), "rm_prev", "fail_with")
          /\ UNCHANGED <<row, op, latest>>
          /\ doomed' \in {doomed, TRUE}
      BY <1>2, <1>9 DEF DestroyLive, routes
    <2>2. CASE doomed' = TRUE
      <3>1. WipeCall("live") \in Calls /\ Harmless(WipeCall("live"), node, row, latest, TRUE)
        BY <1>4, WipeHarmless
      <3>2. QED
        BY <1>1, <1>3, <2>1, <2>2, <3>1, AskSafe
    <2>3. CASE doomed' = FALSE
      <3>1. doomed = FALSE /\ node' = node /\ job' = job /\ pc' # "rm_prev"
        BY <1>2, <1>9, <2>3 DEF DestroyLive
      <3>2. pc' \in {"fail_with", "boot"}
        BY <2>1, <3>1 DEF Ask
      <3>3. Relied(pc', op'.stage, node, row, job, latest, doomed)
        BY <3>2, FreePlaces DEF Frees
      <3>4. QED
        BY <2>1, <2>3, <3>1, <3>3, MoveSafe
    <2>4. QED
      BY <1>2, <2>1, <2>2, <2>3
  <1>10. CASE DestroySnapshot
    <2>1. doomed = TRUE
      BY <1>2, <1>10 DEF DestroySnapshot, Call, Ask, Relied
    <2>2. WipeCall("prev") \in Calls /\ Harmless(WipeCall("prev"), node, row, latest, doomed)
      BY <1>4, <2>1, WipeHarmless
    <2>3. QED
      BY <1>1, <1>3, <1>10, <2>1, <2>2, CallSafe DEF DestroySnapshot
  <1>11. CASE DestroyRecovery
    <2>1. doomed = TRUE
      BY <1>2, <1>11 DEF DestroyRecovery, Call, Ask, Relied
    <2>2. WipeCall("recovery") \in Calls /\ Harmless(WipeCall("recovery"), node, row, latest, doomed)
      BY <1>4, <2>1, WipeHarmless
    <2>3. QED
      BY <1>1, <1>3, <1>11, <2>1, <2>2, CallSafe DEF DestroyRecovery
  <1>12. CASE RemoveRetain
    <2>1. UNCHANGED <<node, job, op, latest, doomed>> /\ pc' \in {"rm_final", "fail_with"}
      BY <1>12 DEF RemoveRetain, Store, Save, history
    <2>2. row' = row \/ row' = [row EXCEPT !.status = "retained", !.cid = FALSE]
      BY <1>12 DEF RemoveRetain, Store, Save
    <2>3. row'.image = row.image /\ row'.prev = row.prev /\ (row'.cid => row'.quota = row.quota /\ row.cid)
      BY <1>2, <2>2 DEF Rows
    <2>4. Safe(node, row', latest, doomed) /\ Harmless(job, node, row', latest, doomed)
      BY <2>3 DEF DInv, Safe, Built, Harmless
    <2>5. Relied(pc', op.stage, node, row', job, latest, doomed)
      BY <1>1, <2>1
    <2>6. QED
      BY <2>1, <2>4, <2>5 DEF DInv
  <1>13. CASE RemoveFinal
    BY <1>1, <1>13, PublishSafe DEF RemoveFinal
  <1>14. QED
    BY <1>5, <1>6, <1>7, <1>8, <1>9, <1>10, <1>11, <1>12, <1>13 DEF Removing

\* setQuota: a row with a new quota vouches for no container made before.
LEMMA QuotaSafe ==
    ASSUME IInv, DInv, Quota
    PROVE  DInv'
  <1>1. op.stage # "rollback" /\ row \in Rows
    BY Known DEF Quota, QuotaResize, QuotaSave, QuotaDiscard, Call, Store, Save, Ask, DInv, Relied, OwnPCs
  <1>2. /\ \A at \in {"read", "end", "failed", "q_save", "q_rm"} : \A w, r, j :
              Relied(at, op.stage, w, r, j, latest, doomed)
        /\ "failed" \in Frees
    BY <1>1 DEF Relied, RebuildPCs, OwnPCs, Frees
  <1>3. QuotaThen \in {"read", "end"}
    BY DEF QuotaThen
  <1>4. CASE QuotaResize
    BY <1>2, <1>4, PlainCalls, PlainHarmless, CallSafe DEF QuotaResize
  <1>5. CASE QuotaSave
    <2>1. UNCHANGED <<node, job, op, latest, doomed>> /\ pc' \in {"end", "q_rm", "read", "failed"}
      BY <1>3, <1>5 DEF QuotaSave, Store, Save, history
    <2>2. row' = row \/ row' = [row EXCEPT !.quota = op.quota, !.cid = @ /\ op.quota = row.quota]
      BY <1>5 DEF QuotaSave, Store, Save
    <2>3. row'.image = row.image /\ row'.prev = row.prev /\ (row'.cid => row'.quota = row.quota /\ row.cid)
      BY <1>1, <2>2 DEF Rows
    <2>4. Safe(node, row', latest, doomed) /\ Harmless(job, node, row', latest, doomed)
      BY <2>3 DEF DInv, Safe, Built, Harmless
    <2>5. Relied(pc', op.stage, node, row', job, latest, doomed)
      BY <1>2, <2>1
    <2>6. QED
      BY <2>1, <2>4, <2>5 DEF DInv
  <1>6. CASE QuotaDiscard
    BY <1>2, <1>3, <1>6, PlainCalls, PlainHarmless, CallSafe DEF QuotaDiscard
  <1>7. QED
    BY <1>4, <1>5, <1>6 DEF Quota

\* What a copy that succeeds has done.
LEMMA CopyLeaves ==
    ASSUME NEW w \in NodeStates, NEW from \in Keys, NEW k \in Keys, NEW tag \in Tags,
           NEW v \in Done(CopyCall(from, k, tag), w)
    PROVE  /\ Usable(w, from) /\ w.disk[k].dir = Missing
           /\ Usable(v, k) /\ v.disk[k].dir = w.disk[from].dir /\ v.disk[k].tag = tag
           /\ v.ctr = w.ctr
           /\ \A j \in Keys : j # k => v.disk[j] = w.disk[j]
  <1>1. v = Put(w, k, w.disk[from].dir, "done", tag)
    BY DEF Done, CopyCall
  <1>2. Allowed(CopyCall(from, k, tag), w)
    BY DEF Done
  <1>3. Usable(w, from) /\ w.disk[k].dir = Missing
    BY <1>2 DEF Allowed, CopyCall
  <1>4. w.disk[from].dir \in Dirs /\ "done" \in Recs
    BY NodeFields DEF Recs
  <1>5. /\ v.ctr = w.ctr
        /\ v.disk[k] = [dir |-> w.disk[from].dir, rec |-> "done", tag |-> tag]
        /\ \A j \in Keys : j # k => v.disk[j] = w.disk[j]
    BY <1>1, <1>4, PutFacts
  <1>6. QED
    BY <1>3, <1>5 DEF Usable

\* A copy over what the row does not offer harms nothing.
LEMMA CopyHarmless ==
    ASSUME NEW from \in Keys, NEW k \in Keys, NEW tag \in Tags,
           NEW w, NEW r, NEW l, NEW gone,
           k = "prev" => gone \/ r.prev = None
    PROVE  CopyCall(from, k, tag) \in Calls /\ Harmless(CopyCall(from, k, tag), w, r, l, gone)
  <1>1. CopyCall(from, k, tag).do = "copy" /\ CopyCall(from, k, tag).key = k
    BY DEF CopyCall
  <1>2. \A x : WipeCall(x).do = "wipe"
    BY DEF WipeCall
  <1>3. QED
    BY <1>1, <1>2, CopyCalls DEF Harmless

\* setImage: no snapshot is on record until the new one is complete, and the
\* image changes while nothing runs.
LEMMA UpgradeSafe ==
    ASSUME IInv, DInv, Upgrade
    PROVE  DInv'
  <1>1. /\ node \in NodeStates /\ row \in Rows /\ Listed /\ row.image \in Images
        /\ Ready(pc, node)
        /\ Relied(pc, op.stage, node, row, job, latest, doomed)
        /\ op.stage # "rollback"
    BY Known DEF IInv, DInv, Prepared, QuietPCs, Relied, OwnPCs, Upgrade, ImageStop, ImageInvalidate,
                 SnapshotClear, SnapshotCopy, ImageSave, Call, Ask, Store, Save
  <1>2. /\ \A w, r, j : Relied("failed", op.stage, w, r, j, latest, doomed)
        /\ \A w, r, j : Relied("i_inval", op.stage, w, r, j, latest, doomed)
        /\ \A w, r, j : r.prev = None => /\ Relied("i_wipe", op.stage, w, r, j, latest, doomed)
                                        /\ Relied("i_copy", op.stage, w, r, j, latest, doomed)
        /\ "failed" \in Frees
    BY <1>1 DEF Relied, RebuildPCs, OwnPCs, Frees
  <1>3. SnapshotFails \in Frees \/ (SnapshotFails = "read" /\ op.stage # "rollback")
    BY <1>1 DEF SnapshotFails, Frees
  <1>4. Keys = {"live", "prev", "recovery"} /\ row.image \in Tags
    BY <1>1 DEF Keys, Tags
  <1>5. CASE ImageStop
    <2> DEFINE next == IF row.prev = None THEN "i_wipe" ELSE "i_inval"
    <2>1. \A v : Relied(next, op.stage, v, row, Nothing, latest, doomed)
      BY <1>2
    <2>2. Call("i_stop", StopCall, next, "failed")
      BY <1>5 DEF ImageStop
    <2> HIDE DEF next
    <2>3. QED
      BY <1>2, <2>1, <2>2, PlainCalls, PlainHarmless, CallSafe
  <1>6. CASE ImageInvalidate
    <2>1. UNCHANGED <<node, job, op, latest, doomed>> /\ pc' \in {"i_wipe", "failed"}
      BY <1>6 DEF ImageInvalidate, Store, Save, history
    <2>2. \/ row' = row /\ pc' = "failed"
          \/ row' = [row EXCEPT !.prev = None] /\ pc' = "i_wipe"
      BY <1>6 DEF ImageInvalidate, Store, Save
    <2>3. /\ row'.image = row.image /\ row'.quota = row.quota /\ row'.cid = row.cid
          /\ row'.prev \in {row.prev, None}
          /\ pc' = "i_wipe" => row'.prev = None
      BY <1>1, <2>1, <2>2 DEF Rows
    <2>4. Safe(node, row', latest, doomed) /\ Harmless(job, node, row', latest, doomed)
      BY <2>3 DEF DInv, Safe, Built, Harmless
    <2>5. Relied(pc', op.stage, node, row', job, latest, doomed)
      BY <1>2, <2>1, <2>3
    <2>6. QED
      BY <2>1, <2>4, <2>5 DEF DInv
  <1>7. CASE SnapshotClear
    <2>1. row.prev = None
      BY <1>1, <1>7 DEF SnapshotClear, Call, Ask, Relied
    <2>2. WipeCall("prev") \in Calls /\ Harmless(WipeCall("prev"), node, row, latest, doomed)
      BY <1>4, <2>1, WipeHarmless
    <2>3. QED
      BY <1>2, <1>3, <1>7, <2>1, <2>2, CallSafe DEF SnapshotClear
  <1>8. CASE SnapshotCopy
    <2> DEFINE m == CopyCall("live", "prev", row.image)
    <2>1. pc = "i_copy" /\ row.prev = None /\ ~Running(node)
      BY <1>1, <1>8 DEF SnapshotCopy, Call, Ask, Relied, Ready, StoppedPCs
    <2>2. m \in Calls /\ Harmless(m, node, row, latest, doomed)
      BY <1>4, <2>1, CopyHarmless
    <2>3. ASSUME NEW v \in Done(m, node)
          PROVE  Relied("i_save", op.stage, v, row, Nothing, latest, doomed)
      <3>1. /\ Usable(v, "prev") /\ v.disk["prev"].tag = row.image
            /\ v.ctr = node.ctr
        BY <1>1, <1>4, <2>3, CopyLeaves
      <3>2. ~Running(v)
        BY <2>1, <3>1 DEF Running
      <3>3. QED
        BY <1>1, <2>1, <3>1, <3>2 DEF Relied, RebuildPCs, OwnPCs
    <2>4. Call("i_copy", m, "i_save", SnapshotFails)
      BY <1>8 DEF SnapshotCopy
    <2> HIDE DEF m
    <2>5. QED
      BY <1>3, <2>2, <2>3, <2>4, CallSafe
  <1>9. CASE ImageSave
    <2>1. /\ pc = "i_save" /\ UNCHANGED <<node, job, latest, doomed>>
          /\ job = Nothing /\ ~Running(node)
          /\ Usable(node, "prev") /\ node.disk["prev"].tag = row.image
      BY <1>1, <1>9 DEF ImageSave, Save, history, Relied
    <2>2. CASE row' = row /\ pc' = "failed"
      <3>1. op' = op
        BY <1>9, <2>2 DEF ImageSave
      <3>2. QED
        BY <1>2, <2>1, <2>2, <3>1, MoveSafe
    <2>3. CASE /\ row' = [row EXCEPT !.image = op.to, !.prev = row.image, !.cid = FALSE]
               /\ pc' \in {"read", "end"}
      <3>1. row'.prev = row.image /\ ~row'.cid
        BY <1>1, <2>3 DEF Rows
      <3>2. Safe(node, row', latest, doomed)
        BY <2>1, <3>1 DEF DInv, Safe
      <3>3. op'.stage # "rollback"
        BY <1>1, <1>9, Known DEF ImageSave, Ops
      <3>4. Relied(pc', op'.stage, node, row', job, latest, doomed)
        BY <2>3, <3>3 DEF Relied, RebuildPCs, OwnPCs
      <3>5. Harmless(job, node, row', latest, doomed)
        BY <2>1, NothingHarms
      <3>6. QED
        BY <2>1, <3>2, <3>4, <3>5 DEF DInv
    <2>4. QED
      BY <1>9, <2>2, <2>3 DEF ImageSave, Save
  <1>10. QED
    BY <1>5, <1>6, <1>7, <1>8, <1>9 DEF Upgrade

\* rollbackTo: the live data are kept aside before they are replaced, and the
\* copy is given up only for data that are the owner's by then.
LEMMA RollingBackSafe ==
    ASSUME IInv, DInv, RollingBack
    PROVE  DInv'
  <1>1. /\ node \in NodeStates /\ row \in Rows
        /\ Ready(pc, node)
        /\ Relied(pc, op.stage, node, row, job, latest, doomed)
    BY Known DEF IInv, DInv, Prepared
  <1>2. /\ \A at \in {"rb_sync", "rb_stop", "rb_ctr", "rb_ensure", "rb_keep", "end", "fail_with"} : \A w, j :
              Relied(at, op.stage, w, row, j, latest, doomed)
        /\ "fail_with" \in Frees
    BY FreePlaces DEF Frees
  <1>3. Keys = {"live", "prev", "recovery"} /\ None \in Tags
    BY DEF Keys, Tags
  <1>4. CASE RollbackMark
    <2> DEFINE r == [row EXCEPT !.status = "provisioning"]
    <2>1. r.image = row.image /\ r.prev = row.prev /\ r.quota = row.quota /\ r.cid = row.cid
      BY <1>1 DEF Rows
    <2>2. Store("rb_mark", r, "rb_sync", "fail_with")
      BY <1>4 DEF RollbackMark
    <2> HIDE DEF r
    <2>3. QED
      BY <1>2, <2>1, <2>2, StatusSafe
  <1>5. CASE RollbackSync
    BY <1>2, <1>5, PublishSafe DEF RollbackSync
  <1>6. CASE RollbackStop
    BY <1>2, <1>6, PlainCalls, PlainHarmless, CallSafe DEF RollbackStop
  <1>7. CASE RollbackDiscard
    BY <1>2, <1>7, PlainCalls, PlainHarmless, CallSafe DEF RollbackDiscard
  <1>8. CASE RestoreCheck
    BY <1>2, <1>8, LookSafe DEF RestoreCheck
  <1>9. CASE RestoreKeep
    <2> DEFINE m == CopyCall("live", "recovery", None)
    <2>1. m \in Calls /\ Harmless(m, node, row, latest, doomed)
      BY <1>3, CopyHarmless
    <2>2. ASSUME NEW v \in Done(m, node)
          PROVE  Relied("rb_wipe", op.stage, v, row, Nothing, latest, doomed)
      <3>1. /\ node.disk["recovery"].dir = Missing
            /\ Usable(v, "recovery") /\ v.disk["recovery"].dir = node.disk["live"].dir
        BY <1>1, <1>3, <2>2, CopyLeaves
      <3>2. Owed(latest, doomed) => Holds(v, "recovery", latest)
        BY <3>1 DEF DInv, Safe, Holds, Usable
      <3>3. QED
        BY <3>2 DEF Relied, RebuildPCs, OwnPCs
    <2>3. Call("rb_keep", m, "rb_wipe", "fail_with")
      BY <1>9 DEF RestoreKeep
    <2> HIDE DEF m
    <2>4. QED
      BY <1>2, <2>1, <2>2, <2>3, CallSafe
  <1>10. CASE RestoreClear
    <2>1. Owed(latest, doomed) => Holds(node, "recovery", latest)
      BY <1>1, <1>10 DEF RestoreClear, Call, Ask, Relied
    <2>2. WipeCall("live") \in Calls /\ Harmless(WipeCall("live"), node, row, latest, doomed)
      BY <1>3, <2>1, WipeHarmless
    <2>3. ASSUME NEW v \in Done(WipeCall("live"), node)
          PROVE  Relied("rb_copy", op.stage, v, row, Nothing, latest, doomed)
      <3>1. v.disk["recovery"] = node.disk["recovery"]
        BY <1>1, <1>3, <2>3, WipeDone
      <3>2. QED
        BY <2>1, <3>1 DEF Relied, RebuildPCs, OwnPCs, Holds, Usable
    <2>4. QED
      BY <1>2, <1>10, <2>2, <2>3, CallSafe DEF RestoreClear
  <1>11. CASE RestoreCopy
    <2> DEFINE m == CopyCall("prev", "live", None)
    <2>1. /\ Owed(latest, doomed) => Holds(node, "recovery", latest)
          /\ node.ctr = NoContainer
      BY <1>1, <1>11 DEF RestoreCopy, Call, Ask, Relied, Ready, DiscardedPCs
    <2>2. m \in Calls /\ Harmless(m, node, row, latest, doomed)
      BY <1>3, CopyHarmless
    <2>3. ASSUME NEW v \in Done(m, node)
          PROVE  Relied("rb_save", op.stage, v, row, Nothing, latest, doomed)
      <3>1. /\ Usable(v, "live") /\ v.ctr = node.ctr
            /\ v.disk["recovery"] = node.disk["recovery"]
        BY <1>1, <1>3, <2>3, CopyLeaves
      <3>2. QED
        BY <2>1, <3>1 DEF Relied, RebuildPCs, OwnPCs, Holds, Usable
    <2>4. Call("rb_copy", m, "rb_save", "fail_with")
      BY <1>11 DEF RestoreCopy
    <2> HIDE DEF m
    <2>5. QED
      BY <1>2, <2>2, <2>3, <2>4, CallSafe
  <1>12. CASE RollbackSave
    <2>1. /\ pc = "rb_save" /\ UNCHANGED <<node, job, op, doomed>>
          /\ job = Nothing /\ Usable(node, "live") /\ node.ctr = NoContainer
      BY <1>1, <1>12 DEF RollbackSave, Save, Relied
    <2>2. CASE row' = row /\ pc' = "fail_with"
      <3>1. latest' = latest
        BY <1>12, <2>2 DEF RollbackSave
      <3>2. QED
        BY <1>2, <2>1, <2>2, <3>1, MoveSafe
    <2>3. CASE /\ row' = [row EXCEPT !.image = op.to, !.prev = None, !.cid = FALSE, !.status = "stopped"]
               /\ pc' \in {"read", "rb_finish"}
      <3>1. row'.prev = None /\ ~row'.cid
        BY <1>1, <2>3 DEF Rows
      <3>2. ~Running(node)
        BY <2>1 DEF Running, NoContainer
      <3>3. Owed(latest', doomed) => Holds(node, "live", latest')
        BY <1>12, <2>1, <2>3 DEF RollbackSave, Owed, Holds
      <3>4. Safe(node, row', latest', doomed)
        BY <3>1, <3>2, <3>3 DEF Safe
      <3>5. Relied(pc', op.stage, node, row', job, latest', doomed)
        BY <2>1, <2>3, <3>3 DEF Relied, RebuildPCs, OwnPCs
      <3>6. Harmless(job, node, row', latest', doomed)
        BY <2>1, NothingHarms
      <3>7. QED
        BY <2>1, <3>4, <3>5, <3>6 DEF DInv
    <2>4. QED
      BY <1>12, <2>2, <2>3 DEF RollbackSave, Save
  <1>13. CASE RestoreFinish
    <2>1. Owed(latest, doomed) => Holds(node, "live", latest)
      BY <1>1, <1>13 DEF RestoreFinish, Call, Ask, Relied
    <2>2. WipeCall("recovery") \in Calls /\ Harmless(WipeCall("recovery"), node, row, latest, doomed)
      BY <1>3, <2>1, WipeHarmless
    <2>3. QED
      BY <1>2, <1>13, <2>2, CallSafe DEF RestoreFinish
  <1>14. QED
    BY <1>4, <1>5, <1>6, <1>7, <1>8, <1>9, <1>10, <1>11, <1>12, <1>13 DEF RollingBack

\* The reconciler changes the row's status alone.
LEMMA ReconcilingSafe ==
    ASSUME IInv, DInv, Reconciling
    PROVE  DInv'
  <1>1. UNCHANGED <<node, job, latest, doomed>>
    BY DEF Reconciling, ReconcileRead, ReconcileSave, history
  <1>2. pc' \in {"rec_save", "boot_sync", "idle", "boot"}
    BY DEF Reconciling, ReconcileRead, ReconcileSave
  <1>3. Relied(pc', op'.stage, node, row, job, latest, doomed)
    BY <1>2, FreePlaces DEF Frees
  <1>4. row' \in {row, Reconciled}
    BY DEF Reconciling, ReconcileRead, ReconcileSave
  <1>5. row'.image = row.image /\ row'.prev = row.prev /\ row'.quota = row.quota /\ row'.cid = row.cid
    BY <1>4, Known DEF Reconciled, Rows
  <1>6. QED
    BY <1>1, <1>3, <1>5, MoveSafe

\* Boot goes on with local variables of its own.
LEMMA BootingSafe ==
    ASSUME IInv, DInv, Booting
    PROVE  DInv'
  <1>1. CASE BootCheck
    <2>1. UNCHANGED <<row, node, job, latest, doomed>>
      BY <1>1 DEF BootCheck, history
    <2>2. /\ op'.stage # "rollback"
          /\ pc' \in {"boot_mark", "rec", "ensure", "inspect"}
          /\ pc' = "inspect" => row.cid
      BY <1>1 DEF BootCheck, StartLocals, NoOp
    <2>3. Relied(pc', op'.stage, node, row, job, latest, doomed)
      BY <2>2 DEF Relied, RebuildPCs, OwnPCs
    <2>4. QED
      BY <2>1, <2>3, MoveSafe
  <1>2. \A at \in {"rec", "boot", "idle"} : \A w, j : Relied(at, op.stage, w, row, j, latest, doomed)
    BY FreePlaces DEF Frees
  <1>3. CASE BootMark
    <2> DEFINE r == [row EXCEPT !.status = "error"]
    <2>1. r.image = row.image /\ r.prev = row.prev /\ r.quota = row.quota /\ r.cid = row.cid
      BY Known DEF Rows
    <2>2. Store("boot_mark", r, "rec", "boot")
      BY <1>3 DEF BootMark
    <2> HIDE DEF r
    <2>3. QED
      BY <1>2, <2>1, <2>2, StatusSafe
  <1>4. CASE BootSync
    BY <1>2, <1>4, PublishSafe DEF BootSync
  <1>5. QED
    BY <1>1, <1>3, <1>4 DEF Booting

\* The catch blocks touch neither the node nor what the row offers.
LEMMA FailWithSafe ==
    ASSUME IInv, DInv, FailWith
    PROVE  DInv'
  <1>1. UNCHANGED <<node, job, latest, doomed>> /\ pc' \in {"fail_with", "rb_mark", "failed"}
    BY DEF FailWith, history
  <1>2. Relied(pc', op'.stage, node, row, job, latest, doomed)
    BY <1>1, FreePlaces DEF Frees
  <1>3. row' = row \/ row' = [row EXCEPT !.status = "error"]
    BY DEF FailWith
  <1>4. row'.image = row.image /\ row'.prev = row.prev /\ row'.quota = row.quota /\ row'.cid = row.cid
    BY <1>3, Known DEF Rows
  <1>5. QED
    BY <1>1, <1>2, <1>4, MoveSafe

\* An operation ends.
LEMMA ReturnSafe ==
    ASSUME IInv, DInv, Return
    PROVE  DInv'
  <1>1. UNCHANGED <<row, node, job, latest, doomed>> /\ pc' \in {"idle", "rec", "boot_mark"}
    BY DEF Return, history
  <1>2. Relied(pc', op'.stage, node, row, job, latest, doomed)
    BY <1>1, FreePlaces DEF Frees
  <1>3. QED
    BY <1>1, <1>2, MoveSafe

-----------------------------------------------------------------------------
\* What callers ask for, and what happens around the workflows.

\* An operation begins with nothing relied on, and none begins as a rollback
\* but a rollback.
LEMMA BeginSafe ==
    ASSUME IInv, DInv, NEW next, NEW locals,
           Begin(next, locals),
           Relied(next, locals.stage, node, row, job, latest, doomed)
    PROVE  DInv'
  BY MoveSafe DEF Begin, history

\* A new workspace has neither data nor contents owed to anybody.
LEMMA CreateSafe ==
    ASSUME IInv, DInv, NEW i \in Images, NEW q \in Quotas, Create(i, q)
    PROVE  DInv'
  <1>1. node = EmptyNode /\ job = Nothing
    BY DEF IInv, Unlisted, Create
  <1>2. node' = EmptyNode /\ job' = Nothing
    BY <1>1 DEF Create, EmptyNode
  <1>3. row'.prev = None /\ row'.cid = FALSE /\ latest' = Missing /\ doomed' = FALSE
        /\ pc' = "make" /\ op'.stage = "plain"
    BY DEF Create, NoRow, NoOp
  <1>4. EmptyNode.ctr.state = "absent"
    BY DEF EmptyNode, NoContainer
  <1>5. Safe(node', row', latest', doomed')
    BY <1>2, <1>3, <1>4 DEF Safe, Owed, Running
  <1>6. Harmless(job', node', row', latest', doomed')
    BY <1>2, NothingHarms
  <1>7. Relied(pc', op'.stage, node', row', job', latest', doomed')
    BY <1>3 DEF Relied, RebuildPCs, OwnPCs
  <1>8. QED
    BY <1>5, <1>6, <1>7 DEF DInv

\* Whatever a caller or the timer begins.
LEMMA RequestSafe ==
    ASSUME IInv, DInv, Request
    PROVE  DInv'
  <1>1. \A at \in {"read", "ensure", "stop", "stop_save", "rm_mark", "rec", "q_resize", "q_save", "i_stop"},
           stage \in {"plain", "bare"} : Relied(at, stage, node, row, job, latest, doomed)
    BY DEF Relied, RebuildPCs, OwnPCs
  <1>2. NoOp.stage = "plain"
    BY DEF NoOp
  <1>3. CASE \E i \in Images, q \in Quotas : Create(i, q)
    BY <1>3, CreateSafe
  <1>4. CASE Restart
    BY <1>1, <1>2, <1>4, BeginSafe DEF Restart
  <1>5. CASE Stop
    BY <1>1, <1>2, <1>5, BeginSafe DEF Stop
  <1>6. CASE Start
    <2> DEFINE next == IF row.cid THEN "inspect" ELSE "ensure"
    <2>1. StartLocals("user").stage \in {"plain", "bare"}
      BY DEF StartLocals, NoOp
    <2>2. Relied(next, StartLocals("user").stage, node, row, job, latest, doomed)
      BY <2>1 DEF Relied, RebuildPCs, OwnPCs
    <2>3. Begin(next, StartLocals("user"))
      BY <1>6 DEF Start
    <2> HIDE DEF next
    <2>4. QED
      BY <2>2, <2>3, BeginSafe
  <1>7. CASE Delete
    BY <1>1, <1>2, <1>7, BeginSafe DEF Delete
  <1>8. CASE Rollback
    <2> DEFINE locals == [NoOp EXCEPT !.stage = "rollback", !.to = row.prev,
                                      !.was = (row.status = "running")]
    <2>1. Begin("rb_mark", locals)
      BY <1>8 DEF Rollback
    <2> HIDE DEF locals
    <2>2. Relied("rb_mark", locals.stage, node, row, job, latest, doomed)
      BY FreePlaces DEF Frees
    <2>3. QED
      BY <2>1, <2>2, BeginSafe
  <1>9. CASE Tick
    BY <1>1, <1>2, <1>9, BeginSafe DEF Tick
  <1>10. ASSUME NEW q \in Quotas, NEW disk \in BOOLEAN, SetQuota(q, disk)
         PROVE  DInv'
    <2> DEFINE locals == [NoOp EXCEPT !.was = (row.status = "running"), !.had = row.cid, !.quota = q]
               next == IF disk THEN "q_resize" ELSE "q_save"
    <2>1. locals.stage = "plain" /\ next \in {"q_resize", "q_save"}
      BY DEF NoOp
    <2>2. Begin(next, locals)
      BY <1>10 DEF SetQuota
    <2> HIDE DEF locals, next
    <2>3. QED
      BY <1>1, <2>1, <2>2, BeginSafe
  <1>11. ASSUME NEW i \in Images, SetImage(i)
         PROVE  DInv'
    <2> DEFINE locals == [NoOp EXCEPT !.was = (row.status = "running"), !.to = i]
    <2>1. locals.stage = "plain"
      BY DEF NoOp
    <2>2. Begin("i_stop", locals)
      BY <1>11 DEF SetImage
    <2> HIDE DEF locals
    <2>3. QED
      BY <1>1, <2>1, <2>2, BeginSafe
  <1>12. QED
    BY <1>3, <1>4, <1>5, <1>6, <1>7, <1>8, <1>9, <1>10, <1>11 DEF Request

\* Whatever workflow has the queue.
LEMMA WorkflowSafe ==
    ASSUME IInv, DInv, Workflow
    PROVE  DInv'
  BY CreateDataSafe, RebuildSafe, StoppingSafe, StartingSafe, RemovingSafe, QuotaSafe,
     UpgradeSafe, RollingBackSafe, ReconcilingSafe, BootingSafe, FailWithSafe, ReturnSafe
     DEF Workflow

\* The projection outside the queue touches nothing of this.
LEMMA StraySafe ==
    ASSUME IInv, DInv, Stray
    PROVE  DInv'
  <1>1. UNCHANGED <<row, node, job, pc, op, latest, doomed>>
    BY DEF Stray, StrayRead, StrayWrite, history
  <1>2. QED
    BY <1>1, MoveSafe DEF DInv

\* A call that was given up ends, in whatever way it can; no workflow relies
\* on the node while it is under way.
LEMMA NodeFinishesSafe ==
    ASSUME IInv, DInv, NodeFinishes
    PROVE  DInv'
  <1>1. /\ node \in NodeStates /\ row \in Rows /\ job \in Calls /\ doomed \in BOOLEAN
        /\ job # Nothing
        /\ pc \notin {"rb_wipe", "rb_copy"}
    BY Known DEF IInv, TypeOK, Prepared, DiscardedPCs, NodeFinishes
  <1>2. /\ node' \in Outcomes(job, node) /\ job' = Nothing
        /\ UNCHANGED <<row, pc, op, latest, doomed>>
    BY DEF NodeFinishes, Outcomes, history
  <1>3. Safe(node', row, latest, doomed)
    BY <1>1, <1>2, OutcomesSafe DEF DInv
  <1>4. Harmless(job', node', row, latest, doomed)
    BY <1>2, NothingHarms
  <1>5. Relied(pc, op.stage, node', row, job', latest, doomed)
    BY <1>1 DEF DInv, Relied
  <1>6. QED
    BY <1>2, <1>3, <1>4, <1>5 DEF DInv

\* The container stops or goes by itself.
LEMMA ContainerGoesSafe ==
    ASSUME IInv, DInv, ContainerExits \/ Prune
    PROVE  DInv'
  <1>1. node \in NodeStates /\ row \in Rows /\ doomed \in BOOLEAN
    BY Known
  <1>2. /\ UNCHANGED <<row, job, pc, op, latest, doomed>>
        /\ node.ctr.state # "absent"
    BY DEF ContainerExits, Prune, history, Running
  <1>3. /\ node' \in NodeStates /\ node'.disk = node.disk
        /\ ~Running(node')
        /\ node'.ctr.state # "absent" => /\ node'.ctr.image = node.ctr.image
                                         /\ node'.ctr.quota = node.ctr.quota
    <2>1. CASE ContainerExits
      <3>1. /\ node'.disk = node.disk
            /\ node'.ctr = [state |-> "stopped", image |-> node.ctr.image, quota |-> node.ctr.quota]
        BY <1>1, <2>1, NodeFields, BecomeFacts DEF ContainerExits, Halted
      <3>2. node' \in NodeStates
        BY <1>1, <2>1, HaltedFacts DEF ContainerExits
      <3>3. QED
        BY <3>1, <3>2 DEF Running
    <2>2. CASE Prune
      <3>1. node' = Become(node, "absent", None, None) /\ None \in Tags /\ None \in Quotas \cup {None}
        BY <2>2 DEF Prune, Tags
      <3>2. /\ node' \in NodeStates /\ node'.disk = node.disk
            /\ node'.ctr.state = "absent"
        BY <1>1, <3>1 DEF Become, NodeStates, Containers, Tags
      <3>3. QED
        BY <3>2 DEF Running
    <2>3. QED
      BY <2>1, <2>2
  <1>4. Safe(node', row, latest, doomed)
    BY <1>1, <1>2, <1>3, ContainerSafe DEF DInv
  <1>5. Harmless(job, node', row, latest, doomed)
    BY <1>2, <1>3 DEF DInv, Harmless, Holds, Usable
  <1>6. Relied(pc, op.stage, node', row, job, latest, doomed)
    BY <1>2, <1>3 DEF DInv, Relied, Holds, Usable, Built, NoContainer
  <1>7. QED
    BY <1>2, <1>4, <1>5, <1>6 DEF DInv

\* The workload changes its data: what is owed from now on is in the live
\* directory, and no copy is about to take its place.
LEMMA WorkSafe ==
    ASSUME IInv, DInv, Work
    PROVE  DInv'
  <1>1. /\ node \in NodeStates /\ row \in Rows /\ doomed \in BOOLEAN
        /\ clock + 1 \in Dirs /\ "live" \in Keys
    BY Known, NodeAssumption DEF Work, IInv, TypeOK, Versions, Dirs, Keys
  <1>2. /\ UNCHANGED <<row, job, pc, op, doomed>> /\ Running(node)
        /\ latest' = clock + 1
        /\ node' = Put(node, "live", clock + 1, node.disk["live"].rec, node.disk["live"].tag)
    BY DEF Work
  <1>3. /\ node' \in NodeStates /\ node'.ctr = node.ctr
        /\ node'.disk["live"] = [dir |-> clock + 1, rec |-> node.disk["live"].rec,
                                 tag |-> node.disk["live"].tag]
        /\ \A j \in Keys : j # "live" => node'.disk[j] = node.disk[j]
    BY <1>1, <1>2, NodeFields, PutFacts
  <1>4. Usable(node, "live") /\ clock + 1 # Missing
    BY <1>2, NodeAssumption DEF IInv, ContainerHasData, Running, TypeOK, Work, Versions
  <1>5. Holds(node', "live", latest')
    BY <1>2, <1>3, <1>4 DEF Holds, Usable
  <1>6. /\ job # WipeCall("live")
        /\ pc \notin {"rb_wipe", "rb_copy", "rb_save"}
    BY <1>2 DEF IInv, QuietCopies, Prepared, Ready, DiscardedPCs, DInv, Relied, NoContainer, Running
  <1>7. node'.disk["prev"] = node.disk["prev"]
    BY <1>3 DEF Keys
  <1>8. Safe(node', row, latest', doomed)
    BY <1>3, <1>5, <1>7 DEF DInv, Safe, Usable, Running, Built
  <1>9. Harmless(job, node', row, latest', doomed)
    BY <1>3, <1>5, <1>6 DEF DInv, Harmless
  <1>10. Relied(pc, op.stage, node', row, job, latest', doomed)
    BY <1>2, <1>3, <1>5, <1>6, <1>7 DEF DInv, Relied, Built, Usable, Running
  <1>11. QED
    BY <1>2, <1>8, <1>9, <1>10 DEF DInv

\* Crashes, abandoned calls, and what the container does by itself.
LEMMA AroundSafe ==
    ASSUME IInv, DInv, Around
    PROVE  DInv'
  <1>1. CASE Crash
    <2>1. UNCHANGED <<row, node, job, op, latest, doomed>> /\ pc' = "boot"
      BY <1>1 DEF Crash, history
    <2>2. Relied(pc', op'.stage, node, row, job, latest, doomed)
      BY <2>1, FreePlaces DEF Frees
    <2>3. QED
      BY <2>1, <2>2, MoveSafe
  <1>2. QED
    BY <1>1, NodeFinishesSafe, ContainerGoesSafe, WorkSafe DEF Around

-----------------------------------------------------------------------------

\* Before the first workspace nothing is owed to anybody.
LEMMA InitSafe == Init => DInv
  <1> SUFFICES ASSUME Init PROVE DInv
    OBVIOUS
  <1>1. Safe(node, row, latest, doomed)
    BY DEF Init, NoRow, EmptyNode, NoContainer, Safe, Owed, Running, Built
  <1>2. Harmless(job, node, row, latest, doomed)
    BY NothingHarms DEF Init
  <1>3. Relied(pc, op.stage, node, row, job, latest, doomed)
    BY FreePlaces DEF Init, Frees
  <1>4. QED
    BY <1>1, <1>2, <1>3 DEF DInv

\* Every step keeps the invariant.
LEMMA NextSafe == IInv /\ DInv /\ [Next]_vars => DInv'
  <1> SUFFICES ASSUME IInv, DInv, [Next]_vars PROVE DInv'
    OBVIOUS
  <1>1. CASE UNCHANGED vars
    BY <1>1 DEF vars, DInv
  <1>2. QED
    BY <1>1, RequestSafe, WorkflowSafe, StraySafe, AroundSafe DEF Next

\* DInv is inductive next to IInv.
THEOREM DataInvariant == Spec => []DInv
  BY LifecycleInvariant, InitSafe, NextSafe, PTL DEF Spec

\* Whatever fails on the node and wherever the control plane dies, the contents
\* the owner worked with last are, complete, in the live directory or in the
\* copy a rollback keeps, until the owner has the workspace destroyed.
THEOREM DataAlwaysRecoverable == Spec => []LatestRecoverable
  <1>1. DInv => LatestRecoverable
    BY DEF DInv, Safe, Owed, Holds, LatestRecoverable
  <1>2. QED
    BY <1>1, DataInvariant, PTL

\* A previous image on record always comes with a complete snapshot that was
\* taken under that image, also while calls that were given up still run.
THEOREM SnapshotsAlwaysPaired == Spec => []PairedSnapshot
  <1>1. DInv => PairedSnapshot
    BY DEF DInv, Safe, PairedSnapshot
  <1>2. QED
    BY <1>1, DataInvariant, PTL

\* No container runs with another image than the one on record, and one the
\* row vouches for has the recorded quota as well.
THEOREM ContainerAlwaysAsRecorded == Spec => []RunsWhatRowSays
  <1>1. DInv => RunsWhatRowSays
    BY DEF DInv, Safe, Built, RunsWhatRowSays
  <1>2. QED
    BY <1>1, DataInvariant, PTL
=============================================================================
