----------------------- MODULE InstanceLifecycleProofs -----------------------
(***************************************************************************)
(* Proofs about InstanceLifecycle, for any images, quotas, bounds and      *)
(* faults.  The inductive invariant says where in the workflows the         *)
(* container is known to be stopped or gone and no abandoned call can be     *)
(* under way, which is what makes replacing and deleting data safe.          *)
(***************************************************************************)
EXTENDS InstanceLifecycle, TLAPS

\* A deleted row is only ever met at these places.
QuietPCs == {"idle", "end", "failed", "fail_with", "rm_final", "boot", "boot_sync",
             "rec", "rec_save"}

DiscardedPCs == {"rb_ensure", "rb_keep", "rb_wipe", "rb_copy",
                 "rm_live", "rm_prev", "rm_recovery", "rm_retain"}

StoppedPCs == {"i_inval", "i_wipe", "i_copy"}

RemovePCs == {"rm_mark", "rm_sync", "rm_stop", "rm_ctr", "rm_live", "rm_prev",
              "rm_recovery", "rm_retain", "rm_final"}

TargetPCs == {"i_stop", "i_inval", "i_wipe", "i_copy", "i_save", "rb_mark", "rb_sync",
              "rb_stop", "rb_ctr", "rb_ensure", "rb_keep", "rb_wipe", "rb_copy", "rb_save"}

QuotaPCs == {"q_resize", "q_save"}

\* What a workflow at `at` relies on: the container was discarded before its
\* data is touched, the snapshot is taken of a stopped workload, and what
\* remove has cleared stays clear.
Ready(at, w) ==
    /\ at \in DiscardedPCs => w.ctr = NoContainer
    /\ at \in StoppedPCs => ~Running(w)
    /\ at \in {"rm_prev", "rm_recovery", "rm_retain"} => w.disk["live"] = NoEntry
    /\ at \in {"rm_recovery", "rm_retain"} => w.disk["prev"] = NoEntry
    /\ at = "rm_retain" => w.disk["recovery"] = NoEntry

\* And the node, having answered, holds no earlier call that could undo it.
Prepared ==
    /\ Ready(pc, node)
    /\ pc \in DiscardedPCs \cup StoppedPCs => job = Nothing

\* A call that is still under way to remove the live data began after the
\* container was discarded.
LateWipe == job = WipeCall("live") => node.ctr = NoContainer

\* The local variables hold what the workflow at hand will put in the row.
Locals ==
    /\ pc \in RemovePCs => op = NoOp
    /\ pc \in TargetPCs \/ op.stage = "upgrade" => op.to \in Images
    /\ pc \in QuotaPCs => op.quota \in Quotas

\* Without a row, or with a deleted one, there is nothing on the node.
Unlisted ==
    ~Listed => /\ pc \in QuietPCs
               /\ pc \in {"end", "failed", "fail_with", "rm_final"} => op = NoOp
               /\ pc = "rec_save" => ~op.had
               /\ node = EmptyNode
               /\ job = Nothing

IInv ==
    /\ TypeOK
    /\ ContainerHasData
    /\ QuietCopies
    /\ LateWipe
    /\ Prepared
    /\ Locals
    /\ Unlisted

-----------------------------------------------------------------------------
\* What the node's calls can leave behind.

Outcomes(m, w) == Done(m, w) \cup Denied(m, w) \cup Broken(m, w)

Dirs == Versions \cup {Missing, Damaged}
Recs == {"none", "pending", "done"}
Tags == Images \cup {None}

\* Put changes one key and nothing else.
LEMMA PutFacts ==
    ASSUME NEW w \in NodeStates, NEW k \in Keys, NEW d \in Dirs, NEW r \in Recs, NEW t \in Tags
    PROVE  /\ Put(w, k, d, r, t) \in NodeStates
           /\ Put(w, k, d, r, t).ctr = w.ctr
           /\ Put(w, k, d, r, t).disk[k] = [dir |-> d, rec |-> r, tag |-> t]
           /\ \A j \in Keys : j # k => Put(w, k, d, r, t).disk[j] = w.disk[j]
  BY DEF NodeStates, Entries, Put, Dirs, Recs, Tags

\* Become changes the container and nothing else.
LEMMA BecomeFacts ==
    ASSUME NEW w \in NodeStates, NEW s \in {"absent", "stopped", "running"},
           NEW i \in Tags, NEW q \in Quotas \cup {None}
    PROVE  /\ Become(w, s, i, q) \in NodeStates
           /\ Become(w, s, i, q).disk = w.disk
           /\ Become(w, s, i, q).ctr = [state |-> s, image |-> i, quota |-> q]
  BY DEF NodeStates, Containers, Become, Tags

\* What a node state is made of.
LEMMA NodeFields ==
    ASSUME NEW w \in NodeStates
    PROVE  /\ w.ctr.state \in {"absent", "stopped", "running"}
           /\ w.ctr.image \in Tags
           /\ w.ctr.quota \in Quotas \cup {None}
           /\ \A k \in Keys : /\ w.disk[k].dir \in Dirs
                             /\ w.disk[k].rec \in Recs
                             /\ w.disk[k].tag \in Tags
  BY DEF NodeStates, Containers, Entries, Dirs, Recs, Tags

\* A halted container is not running and lies over the same data.
LEMMA HaltedFacts ==
    ASSUME NEW w \in NodeStates
    PROVE  /\ Halted(w) \in NodeStates
           /\ Halted(w).disk = w.disk
           /\ ~Running(Halted(w))
           /\ Halted(w).ctr.state # "absent" => w.ctr.state # "absent"
  <1>1. CASE Running(w)
    <2>1. Halted(w) = Become(w, "stopped", w.ctr.image, w.ctr.quota)
      BY <1>1 DEF Halted
    <2>2. QED
      BY <1>1, <2>1 DEF Running, Become, NodeStates, Containers
  <1>2. CASE ~Running(w)
    BY <1>2 DEF Halted
  <1>3. QED
    BY <1>1, <1>2

\* The fields of a call name a key, an image and a quota.
LEMMA CallFields ==
    ASSUME NEW m \in Calls
    PROVE  /\ m.do \in {"make", "wipe", "copy"} => m.key \in Keys
           /\ m.do = "copy" => m.from \in Keys /\ m.tag \in Images \cup {None}
           /\ m.do = "create" => m.image \in Images /\ m.quota \in Quotas
           /\ m.do = "wipe" /\ m.key = "live" => m = WipeCall("live")
  <1> USE DEF Keys
  <1>1. CASE m \in {Nothing, StopCall, RemoveCall, StartCall, PullCall, ChownCall,
                    ResizeCall, MakeCall}
    BY <1>1 DEF Nothing, StopCall, RemoveCall, StartCall, PullCall, ChownCall,
                ResizeCall, MakeCall
  <1>2. CASE \E i \in Images, q \in Quotas : m = CreateCall(i, q)
    BY <1>2 DEF CreateCall
  <1>3. CASE \E k \in Keys : m = WipeCall(k)
    BY <1>3 DEF WipeCall
  <1>4. CASE \E from \in Keys, to \in Keys, tag \in Images \cup {None} :
                 m = CopyCall(from, to, tag)
    BY <1>4 DEF CopyCall
  <1>5. QED
    BY <1>1, <1>2, <1>3, <1>4 DEF Calls

\* A call leaves the node as it was, or changes the container alone, or one
\* key alone.
LEMMA OutcomeForms ==
    ASSUME NEW w \in NodeStates, NEW m \in Calls, NEW v \in Outcomes(m, w)
    PROVE  \/ v = w
           \/ m.do = "stop" /\ v = Halted(w)
           \/ m.do = "remove" /\ v = Become(w, "absent", None, None)
           \/ /\ m.do = "start" /\ w.ctr.state # "absent"
              /\ v = Become(w, "running", w.ctr.image, w.ctr.quota)
           \/ /\ m.do = "create" /\ Usable(w, "live")
              /\ \E s \in {"absent", "stopped", "running"}, i \in Tags, q \in Quotas \cup {None} :
                    v = Become(w, s, i, q)
           \/ /\ m.do \in {"make", "copy"} /\ w.disk[m.key].dir = Missing
              /\ \E d \in Dirs, r \in Recs, t \in Tags : v = Put(w, m.key, d, r, t)
           \/ /\ m.do = "wipe"
              /\ \E d \in Dirs, r \in Recs, t \in Tags : v = Put(w, m.key, d, r, t)
  <1>1. 0 \in Dirs /\ Missing \in Dirs /\ Damaged \in Dirs /\ None \in Tags
        /\ None \in Quotas \cup {None}
        /\ "none" \in Recs /\ "pending" \in Recs /\ "done" \in Recs
    BY NodeAssumption DEF Versions, Dirs, Tags, Recs
  <1>2. m.do = "create" => m.image \in Tags /\ m.quota \in Quotas \cup {None}
    BY CallFields DEF Tags
  <1>3. m.do = "copy" => m.tag \in Tags /\ w.disk[m.from].dir \in Dirs
    BY CallFields, NodeFields DEF Tags
  <1>4. m.do \in {"make", "wipe", "copy"} => w.disk[m.key].rec \in Recs
    BY CallFields, NodeFields
  <1>5. CASE v \in Done(m, w)
    <2>1. Allowed(m, w)
      BY <1>5 DEF Done
    <2>2. CASE m.do \in {"stop", "remove", "start", "create"}
      BY <1>1, <1>2, <1>5, <2>1, <2>2 DEF Done, Allowed
    <2>3. CASE m.do \in {"make", "wipe", "copy"}
      BY <1>1, <1>3, <1>5, <2>1, <2>3 DEF Done, Allowed
    <2>4. CASE m.do \notin {"stop", "remove", "start", "create", "make", "wipe", "copy"}
      BY <1>5, <2>1, <2>4 DEF Done
    <2>5. QED
      BY <2>2, <2>3, <2>4
  <1>6. CASE v \in Denied(m, w)
    BY <1>1, <1>4, <1>6 DEF Denied, Clash, Allowed
  <1>7. CASE v \in Broken(m, w)
    <2>1. v = w \/ Allowed(m, w)
      BY <1>7 DEF Broken
    <2>2. CASE m.do \in {"stop", "remove", "start", "create"}
      BY <1>1, <1>2, <1>7, <2>1, <2>2 DEF Broken, Allowed
    <2>3. CASE m.do \in {"make", "copy"}
      BY <1>1, <1>7, <2>1, <2>3 DEF Broken, Allowed
    <2>4. CASE m.do = "wipe"
      BY <1>1, <1>4, <1>7, <2>1, <2>4 DEF Broken
    <2>5. CASE m.do \notin {"stop", "remove", "start", "create", "make", "wipe", "copy"}
      BY <1>7, <2>5 DEF Broken
    <2>6. QED
      BY <2>2, <2>3, <2>4, <2>5
  <1>8. QED
    BY <1>5, <1>6, <1>7 DEF Outcomes

\* A call leaves a node state behind, however it ends.
LEMMA OutcomeTypes ==
    ASSUME NEW w \in NodeStates, NEW m \in Calls, NEW v \in Outcomes(m, w)
    PROVE  v \in NodeStates
  <1>1. ASSUME NEW s \in {"absent", "stopped", "running"}, NEW i \in Tags,
               NEW q \in Quotas \cup {None}, v = Become(w, s, i, q)
        PROVE  v \in NodeStates
    BY <1>1, BecomeFacts
  <1>2. ASSUME NEW d \in Dirs, NEW r \in Recs, NEW t \in Tags,
               m.do \in {"make", "copy", "wipe"}, v = Put(w, m.key, d, r, t)
        PROVE  v \in NodeStates
    <2>1. m.key \in Keys
      BY <1>2, CallFields
    <2>2. QED
      BY <1>2, <2>1, PutFacts
  <1>3. v = Halted(w) => v \in NodeStates
    BY HaltedFacts
  <1>4. None \in Tags /\ None \in Quotas \cup {None}
    BY DEF Tags
  <1>5. QED
    BY <1>1, <1>2, <1>3, <1>4, OutcomeForms, NodeFields

\* A call keeps a container's data in place, unless it is the removal of the
\* live data; without a container to begin with, that one is harmless too.
LEMMA OutcomesKeepData ==
    ASSUME NEW w \in NodeStates, NEW m \in Calls, NEW v \in Outcomes(m, w),
           w.ctr.state # "absent" => Usable(w, "live"),
           m = WipeCall("live") => w.ctr.state = "absent"
    PROVE  v.ctr.state # "absent" => Usable(v, "live")
  <1>1. "live" \in Keys
    BY DEF Keys
  <1>2. ASSUME NEW s \in {"absent", "stopped", "running"}, NEW i \in Tags,
               NEW q \in Quotas \cup {None}, v = Become(w, s, i, q),
               s # "absent" => Usable(w, "live")
        PROVE  v.ctr.state # "absent" => Usable(v, "live")
    <2>1. v.disk = w.disk /\ v.ctr.state = s
      BY <1>2 DEF Become, NodeStates, Containers
    <2>2. QED
      BY <1>2, <2>1 DEF Usable
  <1>3. ASSUME NEW d \in Dirs, NEW r \in Recs, NEW t \in Tags,
               m.do \in {"make", "copy", "wipe"}, v = Put(w, m.key, d, r, t),
               m.do \in {"make", "copy"} => w.disk[m.key].dir = Missing
        PROVE  v.ctr.state # "absent" => Usable(v, "live")
    <2>1. m.key \in Keys
      BY <1>3, CallFields
    <2>2. v.ctr = w.ctr /\ \A j \in Keys : j # m.key => v.disk[j] = w.disk[j]
      BY <1>3, <2>1 DEF Put, NodeStates, Entries
    <2>3. CASE m.key = "live"
      <3>1. w.ctr.state = "absent"
        BY <1>3, <2>3, CallFields DEF Usable
      <3>2. QED
        BY <2>2, <3>1
    <2>4. CASE m.key # "live"
      BY <1>1, <2>2, <2>4 DEF Usable
    <2>5. QED
      BY <2>3, <2>4
  <1>4. CASE v = w \/ v = Halted(w)
    BY <1>4, HaltedFacts DEF Usable
  <1>5. None \in Tags /\ None \in Quotas \cup {None}
    BY DEF Tags
  <1>6. QED
    BY <1>2, <1>3, <1>4, <1>5, OutcomeForms, NodeFields
-----------------------------------------------------------------------------
\* The steps of a workflow, whichever workflow it is.

\* A step may lead from one place to another: it does not enter remove, the
\* image workflows or setQuota half way.
Leads(here, next) ==
    /\ next \in PCs
    /\ next \in RemovePCs => here \in RemovePCs
    /\ next \in TargetPCs => here \in TargetPCs
    /\ next \in QuotaPCs => here \in QuotaPCs

\* Where a failed call leads, nothing is relied on.
Exits == {"failed", "fail_with", "fail_twice", "read", "boot"}

\* A call to the node keeps the data under every container, and no copy or
\* removal it leaves behind meets a workload.
LEMMA AskKeeps ==
    ASSUME IInv,
           NEW here \in PCs, NEW m \in Calls, NEW next \in PCs, NEW fail \in PCs,
           Ask(here, m, next, fail),
           m = WipeCall("live") => node.ctr = NoContainer,
           m.do = "copy" => ~Running(node)
    PROVE  /\ node' \in NodeStates
           /\ job' \in Calls
           /\ faults' \in 0..MaxFaults
           /\ ContainerHasData'
           /\ QuietCopies'
           /\ LateWipe'
           /\ pc = here
           /\ \/ pc' = next /\ job' = Nothing /\ node' \in Done(m, node)
              \/ pc' \in {fail, "boot"}
  <1>1. node \in NodeStates /\ job \in Calls /\ faults \in 0..MaxFaults
    BY DEF IInv, TypeOK
  <1>2. node.ctr.state # "absent" => Usable(node, "live")
    BY DEF IInv, ContainerHasData
  <1>3. m = WipeCall("live") => node.ctr.state = "absent" /\ ~Running(node)
    BY DEF NoContainer, Running
  <1>4. Nothing.do = "nothing" /\ Nothing # WipeCall("live")
    BY DEF Nothing, WipeCall
  <1>5. CASE job # Nothing /\ UNCHANGED <<node, job, faults>> /\ pc' = fail
    BY <1>1, <1>5 DEF IInv, ContainerHasData, QuietCopies, LateWipe, Ask, Usable, Running
  <1>6. CASE /\ job = Nothing
             /\ UNCHANGED job
             /\ node' \in Outcomes(m, node)
             /\ faults' \in 0..MaxFaults
             /\ (pc' = next /\ node' \in Done(m, node)) \/ pc' = fail
    <2>1. node' \in NodeStates
      BY <1>1, <1>6, OutcomeTypes
    <2>2. node'.ctr.state # "absent" => Usable(node', "live")
      BY <1>1, <1>2, <1>3, <1>6, OutcomesKeepData
    <2>3. QED
      BY <1>1, <1>4, <1>6, <2>1, <2>2 DEF ContainerHasData, QuietCopies, LateWipe, Ask, Usable
  <1>7. CASE /\ job = Nothing
             /\ job' = m
             /\ UNCHANGED node
             /\ faults' \in 0..MaxFaults
             /\ pc' \in {fail, "boot"}
    BY <1>1, <1>3, <1>7 DEF IInv, ContainerHasData, QuietCopies, LateWipe, Ask, Usable, Running
  <1>8. \A kind : Fault(kind) => faults' \in 0..MaxFaults
    BY <1>1, LifecycleAssumption DEF Fault
  <1>9. QED
    BY <1>1, <1>5, <1>6, <1>7, <1>8 DEF Ask, Outcomes

\* What a step that leaves the node alone has to show.
LEMMA StepKeeps ==
    ASSUME IInv, UNCHANGED <<node, job>>, TypeOK',
           pc' \in DiscardedPCs \cup StoppedPCs => Ready(pc', node) /\ job = Nothing,
           Locals', Unlisted'
    PROVE  IInv'
  BY DEF IInv, ContainerHasData, QuietCopies, LateWipe, Prepared, Ready, DiscardedPCs,
         StoppedPCs, Usable, Running

\* A workflow that calls the node.
LEMMA CallKeeps ==
    ASSUME IInv,
           NEW here \in PCs \ QuietPCs, NEW m \in Calls, NEW next, NEW fail \in Exits,
           Ask(here, m, next, fail),
           m = WipeCall("live") => node.ctr = NoContainer,
           m.do = "copy" => ~Running(node),
           Leads(here, next),
           \A w \in Done(m, node) : Ready(next, w),
           UNCHANGED <<row, routes, op, clock, latest>>,
           doomed' \in BOOLEAN
    PROVE  IInv'
  <1>1. next \in PCs /\ fail \in PCs /\ "boot" \in PCs /\ fail \in Exits /\ "boot" \in Exits
    BY DEF Leads, Exits, PCs
  <1>2. /\ node' \in NodeStates
        /\ job' \in Calls
        /\ faults' \in 0..MaxFaults
        /\ ContainerHasData'
        /\ QuietCopies'
        /\ LateWipe'
        /\ pc = here
        /\ \/ pc' = next /\ job' = Nothing /\ node' \in Done(m, node)
           \/ pc' \in {fail, "boot"}
    BY <1>1, AskKeeps
  <1>3. pc' \in PCs
    BY <1>1, <1>2
  <1>4. TypeOK'
    BY <1>2, <1>3 DEF IInv, TypeOK, routes, Listed
  <1>5. Listed'
    BY <1>2 DEF IInv, Unlisted, Listed
  <1>6. CASE pc' = next /\ job' = Nothing /\ node' \in Done(m, node)
    <2>1. Prepared'
      BY <1>6 DEF Prepared, Ready
    <2>2. Locals'
      BY <1>2, <1>6 DEF IInv, Locals, Leads
    <2>3. QED
      BY <1>2, <1>4, <1>5, <2>1, <2>2 DEF IInv, Unlisted
  <1>7. CASE pc' \in {fail, "boot"}
    <2>1. pc' \in Exits
      BY <1>1, <1>7
    <2>2. Prepared' /\ Locals'
      BY <2>1 DEF IInv, Prepared, Ready, Locals, Exits, DiscardedPCs, StoppedPCs,
                  RemovePCs, TargetPCs, QuotaPCs
    <2>3. QED
      BY <1>2, <1>4, <1>5, <2>2 DEF IInv, Unlisted
  <1>8. QED
    BY <1>2, <1>6, <1>7

\* A workflow that asks a question, saves the row or projects the routes: the
\* node is as it was, so what was relied on before still holds.
LEMMA MoveKeeps ==
    ASSUME IInv,
           NEW here \in PCs, NEW next, NEW fail \in Exits,
           pc = here, pc' \in {next, fail},
           UNCHANGED <<node, job, op>>,
           Leads(here, next),
           Ready(here, node) => Ready(next, node),
           next \in DiscardedPCs \cup StoppedPCs => here \in DiscardedPCs \cup StoppedPCs,
           row' \in Rows, routed' \in BOOLEAN, stray' = stray,
           faults' \in 0..MaxFaults,
           clock' = clock, latest' \in Versions \cup {Missing, Damaged}, doomed' = doomed,
           Listed, Listed', row'.image \in Images, row'.quota \in Quotas
    PROVE  IInv'
  <1>1. next \in PCs /\ fail \in PCs
    BY DEF Leads, Exits, PCs
  <1>2. TypeOK'
    BY <1>1 DEF IInv, TypeOK
  <1>3. pc' \in DiscardedPCs \cup StoppedPCs => Ready(pc', node) /\ job = Nothing
    BY DEF IInv, Prepared, Exits, DiscardedPCs, StoppedPCs
  <1>4. Locals'
    BY DEF IInv, Locals, Leads, Exits, RemovePCs, TargetPCs, QuotaPCs
  <1>5. Unlisted'
    BY DEF Unlisted
  <1>6. QED
    BY <1>2, <1>3, <1>4, <1>5, StepKeeps


\* What the invariant says of each variable by itself.
LEMMA Known ==
    ASSUME IInv
    PROVE  /\ row \in Rows
           /\ op \in Ops
           /\ node \in NodeStates
           /\ routed \in BOOLEAN
           /\ faults \in 0..MaxFaults
           /\ latest \in Versions \cup {Missing, Damaged}
           /\ doomed \in BOOLEAN
           /\ Listed => row.image \in Images /\ row.quota \in Quotas
           /\ pc \notin QuietPCs => Listed
  BY DEF IInv, TypeOK, Unlisted

\* Faults never exceed their bound.
LEMMA FaultCounts ==
    ASSUME IInv, NEW kind, Fault(kind)
    PROVE  faults' \in 0..MaxFaults
  BY LifecycleAssumption DEF IInv, TypeOK, Fault

\* Places where nothing is known of the node or of the local variables.
PlainPCs == PCs \ (DiscardedPCs \cup StoppedPCs \cup RemovePCs \cup TargetPCs \cup QuotaPCs)

\* A place that relies on the container and the data as another one does.
Follows(here, next) ==
    /\ Leads(here, next)
    /\ Ready(here, node) => Ready(next, node)
    /\ next \in DiscardedPCs \cup StoppedPCs => here \in DiscardedPCs \cup StoppedPCs

\* Such a place can be entered from anywhere, whatever the node is like.
LEMMA PlainPlaces ==
    ASSUME NEW here, NEW next \in PlainPCs
    PROVE  /\ Leads(here, next)
           /\ Follows(here, next)
           /\ \A w : Ready(next, w)
  BY DEF PlainPCs, Leads, Follows, Ready, DiscardedPCs, StoppedPCs, RemovePCs

\* Calls that move no data.
LEMMA PlainCalls ==
    ASSUME NEW m, \/ m \in {StopCall, RemoveCall, StartCall, PullCall, ChownCall,
                            ResizeCall, MakeCall}
                  \/ \E i \in Images, q \in Quotas : m = CreateCall(i, q)
    PROVE  m \in Calls /\ m # WipeCall("live") /\ m.do # "copy"
  <1>1. CASE m \in {StopCall, RemoveCall, StartCall, PullCall, ChownCall, ResizeCall, MakeCall}
    BY <1>1 DEF Calls, StopCall, RemoveCall, StartCall, PullCall, ChownCall, ResizeCall,
                MakeCall, WipeCall
  <1>2. CASE \E i \in Images, q \in Quotas : m = CreateCall(i, q)
    BY <1>2 DEF Calls, CreateCall, WipeCall
  <1>3. QED
    BY <1>1, <1>2

\* Removals of the three keys, and which of them is dangerous.
LEMMA WipeCalls ==
    /\ WipeCall("live") \in Calls /\ WipeCall("live").do # "copy"
    /\ WipeCall("prev") \in Calls /\ WipeCall("prev").do # "copy"
    /\ WipeCall("recovery") \in Calls /\ WipeCall("recovery").do # "copy"
    /\ WipeCall("prev") # WipeCall("live")
    /\ WipeCall("recovery") # WipeCall("live")
  <1>1. \A k \in Keys : WipeCall(k) \in Calls
    BY DEF Calls
  <1>2. "live" \in Keys /\ "prev" \in Keys /\ "recovery" \in Keys
    BY DEF Keys
  <1>3. \A k : WipeCall(k).do = "wipe" /\ WipeCall(k).key = k
    BY DEF WipeCall
  <1>4. QED
    BY <1>1, <1>2, <1>3

\* A copy is a call and is no removal.
LEMMA CopyCalls ==
    ASSUME NEW from \in Keys, NEW to \in Keys, NEW tag \in Tags
    PROVE  CopyCall(from, to, tag) \in Calls /\ CopyCall(from, to, tag) # WipeCall("live")
  <1>1. CopyCall(from, to, tag) \in Calls
    BY DEF Calls, Tags
  <1>2. CopyCall(from, to, tag).do = "copy" /\ WipeCall("live").do = "wipe"
    BY DEF CopyCall, WipeCall
  <1>3. QED
    BY <1>1, <1>2

\* A workflow that saves the row (updateInstance).
LEMMA StoreKeeps ==
    ASSUME IInv,
           NEW here \in PCs \ QuietPCs, NEW r \in Rows, NEW next, NEW fail \in Exits,
           Store(here, r, next, fail),
           Follows(here, next),
           r.status \notin {"none", "retained"}, r.image \in Images, r.quota \in Quotas
    PROVE  IInv'
  <1>1. Listed /\ pc = here /\ pc' \in {next, fail} /\ row' \in {row, r}
    BY Known DEF Store, Save
  <1>2. Listed' /\ row' \in Rows /\ row'.image \in Images /\ row'.quota \in Quotas
    BY <1>1, Known DEF Listed
  <1>3. QED
    BY <1>1, <1>2, Known, FaultCounts, MoveKeeps DEF Store, Save, Follows, routes, history

\* A workflow that asks the node a question.
LEMMA LookKeeps ==
    ASSUME IInv,
           NEW here \in PCs \ QuietPCs, NEW holds, NEW next, NEW fail \in Exits,
           Look(here, holds, next, fail),
           Follows(here, next)
    PROVE  IInv'
  <1>1. Listed /\ pc = here /\ pc' \in {next, fail} /\ Listed'
    BY Known DEF Look, Listed
  <1>2. QED
    BY <1>1, Known, FaultCounts, MoveKeeps DEF Look, Follows, routes, history

\* A workflow that projects the routes (syncRoutes).
LEMMA PublishKeeps ==
    ASSUME IInv,
           NEW here \in PCs \ QuietPCs, NEW next, NEW fail \in Exits,
           Publish(here, next, fail),
           Follows(here, next)
    PROVE  IInv'
  <1>1. Listed /\ pc = here /\ pc' \in {next, fail} /\ Listed'
    BY Known DEF Publish, Listed
  <1>2. Routable \in BOOLEAN /\ RoutableByIntent \in BOOLEAN
    BY Known DEF Routable, RoutableByIntent, Rows, Listed, Running
  <1>3. QED
    BY <1>1, <1>2, Known, FaultCounts, MoveKeeps DEF Publish, Follows, history

-----------------------------------------------------------------------------
\* The workflows, one step per action.

\* applyRuntime and the restart around it.
LEMMA RebuildKeeps ==
    ASSUME IInv, Rebuild
    PROVE  IInv'
  <1>1. RebuildFails \in Exits
    BY DEF RebuildFails, Exits
  <1>2. /\ {"image", "quiet", "chown", "create", "save", "sync", "rb_finish", "end"}
               \subseteq PlainPCs
        /\ {"ensure", "image", "quiet", "chown", "create", "save", "sync"} \subseteq PCs \ QuietPCs
    BY DEF PlainPCs, PCs, QuietPCs, DiscardedPCs, StoppedPCs, RemovePCs, TargetPCs, QuotaPCs
  <1>3. CASE RebuildRead
    <2>1. Listed /\ Listed' /\ pc = "read" /\ pc' \in Exits \cup {"ensure", "rb_mark"}
      BY <1>3, Known DEF RebuildRead, Listed, QuietPCs, Exits
    <2>2. faults' \in 0..MaxFaults
      BY <1>3, Known, FaultCounts DEF RebuildRead
    <2>3. /\ op' \in Ops
          /\ op'.to = op.to
          /\ op'.stage = "upgrade" => op.stage = "upgrade"
          /\ pc' = "rb_mark" => op.stage = "upgrade"
      BY <1>3, Known DEF RebuildRead, Ops
    <2>4. TypeOK'
      BY <1>3, <2>1, <2>2, <2>3 DEF IInv, TypeOK, RebuildRead, routes, history, Exits, PCs, Listed
    <2>5. Locals'
      BY <2>1, <2>3 DEF IInv, Locals, Exits, RemovePCs, TargetPCs, QuotaPCs
    <2>6. pc' \notin DiscardedPCs \cup StoppedPCs
      BY <2>1 DEF Exits, DiscardedPCs, StoppedPCs
    <2>7. QED
      BY <1>3, <2>1, <2>4, <2>5, <2>6, StepKeeps DEF RebuildRead, Unlisted
  <1>4. CASE RebuildEnsure
    BY <1>1, <1>2, <1>4, PlainPlaces, LookKeeps DEF RebuildEnsure
  <1>5. CASE RebuildImage
    <2>1. CASE Ask("image", PullCall, "quiet", RebuildFails)
      BY <1>1, <1>2, <1>5, <2>1, PlainPlaces, PlainCalls, Known, CallKeeps DEF RebuildImage, history
    <2>2. CASE pc = "image" /\ pc' = "quiet" /\ UNCHANGED <<node, job, faults>>
      BY <1>1, <1>2, <1>5, <2>2, PlainPlaces, Known, MoveKeeps
         DEF RebuildImage, Follows, Listed, routes, history
    <2>3. QED
      BY <1>5, <2>1, <2>2 DEF RebuildImage
  <1>6. CASE RebuildQuiet
    BY <1>1, <1>2, <1>6, PlainPlaces, PlainCalls, Known, CallKeeps DEF RebuildQuiet, Call, history
  <1>7. CASE RebuildChown
    BY <1>1, <1>2, <1>7, PlainPlaces, PlainCalls, Known, CallKeeps DEF RebuildChown, Call, history
  <1>8. CASE RebuildCreate
    <2>1. row.image \in Images /\ row.quota \in Quotas
      BY <1>2, <1>8, Known DEF RebuildCreate, Call, Ask
    <2>2. /\ CreateCall(row.image, row.quota) \in Calls
          /\ CreateCall(row.image, row.quota) # WipeCall("live")
          /\ CreateCall(row.image, row.quota).do # "copy"
      BY <2>1, PlainCalls
    <2>3. Leads("create", "save") /\ \A w \in Done(CreateCall(row.image, row.quota), node) : Ready("save", w)
      BY <1>2, PlainPlaces
    <2>4. QED
      BY <1>1, <1>2, <1>8, <2>2, <2>3, Known, CallKeeps DEF RebuildCreate, Call, history
  <1>9. CASE RebuildSave
    <2> DEFINE r == [row EXCEPT !.status = "running", !.cid = TRUE, !.port = TRUE]
    <2>1. row \in Rows /\ row.image \in Images /\ row.quota \in Quotas
      BY <1>2, <1>9, Known DEF RebuildSave, Store, Save
    <2>2. /\ r \in Rows /\ r.image \in Images /\ r.quota \in Quotas
          /\ r.status \notin {"none", "retained"}
      BY <2>1 DEF Rows, Statuses
    <2>3. Store("save", r, "sync", RebuildFails)
      BY <1>9 DEF RebuildSave
    <2> HIDE DEF r
    <2>4. QED
      BY <1>1, <1>2, <2>2, <2>3, PlainPlaces, StoreKeeps
  <1>10. CASE RebuildSync
    BY <1>1, <1>2, <1>10, PlainPlaces, PublishKeeps DEF RebuildSync
  <1>11. QED
    BY <1>3, <1>4, <1>5, <1>6, <1>7, <1>8, <1>9, <1>10 DEF Rebuild

\* What the node is left with when a call succeeds.
LEMMA StopDone ==
    ASSUME NEW w \in NodeStates, NEW v \in Done(StopCall, w)
    PROVE  ~Running(v)
  <1>1. v = Halted(w)
    BY DEF Done, StopCall
  <1>2. QED
    BY <1>1, HaltedFacts

\* Once remove has answered there is no container.
LEMMA RemoveDone ==
    ASSUME NEW w \in NodeStates, NEW v \in Done(RemoveCall, w)
    PROVE  v.ctr = NoContainer
  <1>1. v = Become(w, "absent", None, None)
    BY DEF Done, RemoveCall
  <1>2. QED
    BY <1>1 DEF Become, NoContainer, NodeStates

\* Once the removal of a key has answered its entry is gone, and only its entry.
LEMMA WipeDone ==
    ASSUME NEW w \in NodeStates, NEW k \in Keys, NEW v \in Done(WipeCall(k), w)
    PROVE  /\ v.ctr = w.ctr
           /\ v.disk[k] = NoEntry
           /\ \A j \in Keys : j # k => v.disk[j] = w.disk[j]
  <1>1. v = Put(w, k, Missing, "none", None)
    BY DEF Done, WipeCall
  <1>2. QED
    BY <1>1 DEF Put, NoEntry, NodeStates

\* A copy leaves the container alone.
LEMMA CopyDone ==
    ASSUME NEW w \in NodeStates, NEW from \in Keys, NEW k \in Keys, NEW tag \in Tags,
           NEW v \in Done(CopyCall(from, k, tag), w)
    PROVE  v.ctr = w.ctr
  <1>1. v = Put(w, k, w.disk[from].dir, "done", tag)
    BY DEF Done, CopyCall
  <1>2. QED
    BY <1>1 DEF Put, NodeStates

\* stop: only the container and the row's status change.
LEMMA StoppingKeeps ==
    ASSUME IInv, Stopping
    PROVE  IInv'
  <1>1. /\ {"stop_save", "stop_sync", "end"} \subseteq PlainPCs
        /\ {"stop", "stop_save", "stop_sync"} \subseteq PCs \ QuietPCs
        /\ "fail_with" \in Exits
    BY DEF PlainPCs, PCs, QuietPCs, DiscardedPCs, StoppedPCs, RemovePCs, TargetPCs, QuotaPCs, Exits
  <1>2. CASE StopContainer
    BY <1>1, <1>2, PlainPlaces, PlainCalls, Known, CallKeeps DEF StopContainer, Call, history
  <1>3. CASE StopSave
    <2>1. row \in Rows /\ row.image \in Images /\ row.quota \in Quotas
      BY <1>1, <1>3, Known DEF StopSave, Store, Save
    <2>2. QED
      BY <1>1, <1>3, <2>1, PlainPlaces, StoreKeeps DEF StopSave, Rows, Statuses
  <1>4. CASE StopSync
    BY <1>1, <1>4, PlainPlaces, PublishKeeps DEF StopSync
  <1>5. QED
    BY <1>2, <1>3, <1>4 DEF Stopping

\* start: the container starts over data that is in place.
LEMMA StartingKeeps ==
    ASSUME IInv, Starting
    PROVE  IInv'
  <1>1. /\ {"start_ensure", "ensure", "start", "start_save", "start_sync", "end"} \subseteq PlainPCs
        /\ {"inspect", "start_ensure", "start", "start_save", "start_sync"} \subseteq PCs \ QuietPCs
        /\ "fail_with" \in Exits
    BY DEF PlainPCs, PCs, QuietPCs, DiscardedPCs, StoppedPCs, RemovePCs, TargetPCs, QuotaPCs, Exits
  <1>2. CASE StartInspect
    <2>1. (IF node.ctr.state = "absent" THEN "ensure" ELSE "start_ensure") \in PlainPCs
      BY <1>1
    <2>2. QED
      BY <1>1, <1>2, <2>1, PlainPlaces, LookKeeps DEF StartInspect
  <1>3. CASE StartEnsure
    BY <1>1, <1>3, PlainPlaces, LookKeeps DEF StartEnsure
  <1>4. CASE StartContainer
    BY <1>1, <1>4, PlainPlaces, PlainCalls, Known, CallKeeps DEF StartContainer, Call, history
  <1>5. CASE StartSave
    <2>1. row \in Rows /\ row.image \in Images /\ row.quota \in Quotas
      BY <1>1, <1>5, Known DEF StartSave, Store, Save
    <2>2. QED
      BY <1>1, <1>5, <2>1, PlainPlaces, StoreKeeps DEF StartSave, Rows, Statuses
  <1>6. CASE StartSync
    BY <1>1, <1>6, PlainPlaces, PublishKeeps DEF StartSync
  <1>7. QED
    BY <1>2, <1>3, <1>4, <1>5, <1>6 DEF Starting

\* remove: every place from the destruction on knows what is already gone.
LEMMA RemovingKeeps ==
    ASSUME IInv, Removing
    PROVE  IInv'
  <1> DEFINE Places == {"rm_mark", "rm_sync", "rm_stop", "rm_ctr", "rm_live", "rm_prev",
                        "rm_recovery", "rm_retain"}
  <1>1. Places \subseteq PCs \ QuietPCs /\ "fail_with" \in Exits /\ Keys = {"live", "prev", "recovery"}
    BY DEF PCs, QuietPCs, Exits, Keys
  <1>2. /\ Leads("rm_mark", "rm_sync") /\ Leads("rm_sync", "rm_stop")
        /\ Leads("rm_stop", "rm_ctr") /\ Leads("rm_ctr", "rm_live")
        /\ Leads("rm_live", "rm_prev") /\ Leads("rm_prev", "rm_recovery")
        /\ Leads("rm_recovery", "rm_retain")
    BY DEF Leads, PCs, RemovePCs, TargetPCs, QuotaPCs
  <1>3. /\ \A w : Ready("rm_sync", w) /\ Ready("rm_stop", w) /\ Ready("rm_ctr", w)
        /\ \A w : Ready("rm_live", w) <=> w.ctr = NoContainer
        /\ \A w : Ready("rm_prev", w) <=> Ready("rm_live", w) /\ w.disk["live"] = NoEntry
        /\ \A w : Ready("rm_recovery", w) <=> Ready("rm_prev", w) /\ w.disk["prev"] = NoEntry
        /\ \A w : Ready("rm_retain", w) <=> Ready("rm_recovery", w) /\ w.disk["recovery"] = NoEntry
    BY DEF Ready, DiscardedPCs, StoppedPCs
  <1>4. Ready(pc, node) /\ node \in NodeStates
    BY Known DEF IInv, Prepared
  <1>5. Follows("rm_mark", "rm_sync") /\ Follows("rm_sync", "rm_stop")
    BY <1>2, <1>3 DEF Follows, DiscardedPCs, StoppedPCs
  <1>6. CASE RemoveMark
    <2>1. row \in Rows /\ row.image \in Images /\ row.quota \in Quotas
      BY <1>1, <1>6, Known DEF RemoveMark, Store, Save
    <2>2. QED
      BY <1>1, <1>5, <1>6, <2>1, StoreKeeps DEF RemoveMark, Rows, Statuses, Transit
  <1>7. CASE RemoveSync
    BY <1>1, <1>5, <1>7, PublishKeeps DEF RemoveSync
  <1>8. CASE RemoveStop
    BY <1>1, <1>2, <1>3, <1>8, PlainCalls, Known, CallKeeps DEF RemoveStop, Call, history
  <1>9. CASE RemoveContainer
    <2>1. \A w \in Done(RemoveCall, node) : Ready("rm_live", w)
      BY <1>1, <1>3, <1>4, RemoveDone
    <2>2. QED
      BY <1>1, <1>2, <1>9, <2>1, PlainCalls, Known, CallKeeps DEF RemoveContainer, Call, history
  <1>10. CASE DestroyLive
    <2>1. Ready("rm_live", node) /\ pc = "rm_live" /\ doomed' \in BOOLEAN
      BY <1>4, <1>10, Known DEF DestroyLive, Ask
    <2>2. node.ctr = NoContainer
      BY <1>3, <2>1
    <2>3. \A w \in Done(WipeCall("live"), node) : Ready("rm_prev", w)
      BY <1>1, <1>3, <1>4, <2>2, WipeDone
    <2>4. WipeCall("live") \in Calls /\ WipeCall("live").do # "copy"
      BY WipeCalls
    <2>5. "rm_live" \in PCs \ QuietPCs
      BY <1>1
    <2>6. QED
      BY <1>1, <1>2, <1>10, <2>1, <2>2, <2>3, <2>4, <2>5, CallKeeps DEF DestroyLive
  <1>11. CASE DestroySnapshot
    <2>1. Ready("rm_prev", node)
      BY <1>4, <1>11 DEF DestroySnapshot, Call, Ask
    <2>2. \A w \in Done(WipeCall("prev"), node) : Ready("rm_recovery", w)
      BY <1>1, <1>3, <1>4, <2>1, WipeDone
    <2>3. WipeCall("prev") \in Calls /\ WipeCall("prev").do # "copy" /\ WipeCall("prev") # WipeCall("live")
      BY WipeCalls
    <2>4. QED
      BY <1>1, <1>2, <1>11, <2>2, <2>3, Known, CallKeeps DEF DestroySnapshot, Call, history
  <1>12. CASE DestroyRecovery
    <2>1. Ready("rm_recovery", node)
      BY <1>4, <1>12 DEF DestroyRecovery, Call, Ask
    <2>2. \A w \in Done(WipeCall("recovery"), node) : Ready("rm_retain", w)
      BY <1>1, <1>3, <1>4, <2>1, WipeDone
    <2>3. WipeCall("recovery") \in Calls /\ WipeCall("recovery").do # "copy" /\ WipeCall("recovery") # WipeCall("live")
      BY WipeCalls
    <2>4. QED
      BY <1>1, <1>2, <1>12, <2>2, <2>3, Known, CallKeeps DEF DestroyRecovery, Call, history
  <1>13. CASE RemoveRetain
    <2>1. /\ pc = "rm_retain" /\ Listed /\ op = NoOp /\ job = Nothing
          /\ Ready("rm_retain", node)
      BY <1>1, <1>4, <1>13, Known
         DEF RemoveRetain, Store, Save, IInv, Locals, Prepared, RemovePCs, DiscardedPCs
    <2>2. node = EmptyNode
      <3>1. /\ node.ctr = NoContainer
            /\ \A k \in Keys : node.disk[k] = NoEntry
        BY <1>1, <1>3, <2>1
      <3>2. QED
        BY <1>4, <3>1 DEF EmptyNode, NodeStates
    <2>3. /\ pc' \in {"rm_final", "fail_with"} /\ faults' \in 0..MaxFaults
          /\ row' \in {row, [row EXCEPT !.status = "retained", !.cid = FALSE]}
          /\ pc' = "fail_with" => row' = row
      BY <1>13, Known, FaultCounts DEF RemoveRetain, Store, Save
    <2>4. row' \in Rows /\ (Listed' => row' = row)
      BY <2>3, Known DEF Rows, Statuses, Transit, Listed
    <2>5. TypeOK'
      BY <1>13, <2>1, <2>3, <2>4 DEF IInv, TypeOK, RemoveRetain, Store, Save, routes, history, PCs, Listed
    <2>6. Locals'
      BY <1>13, <2>1, <2>3 DEF IInv, Locals, RemoveRetain, Store, RemovePCs, TargetPCs, QuotaPCs
    <2>7. Unlisted'
      BY <1>13, <2>1, <2>2, <2>3 DEF Unlisted, RemoveRetain, Store, Save, QuietPCs
    <2>8. pc' \notin DiscardedPCs \cup StoppedPCs
      BY <2>3 DEF DiscardedPCs, StoppedPCs
    <2>9. QED
      BY <1>13, <2>5, <2>6, <2>7, <2>8, StepKeeps DEF RemoveRetain, Store, Save
  <1>14. CASE RemoveFinal
    <2>1. pc = "rm_final" /\ pc' \in {"end", "fail_with"} /\ faults' \in 0..MaxFaults /\ op = NoOp
      BY <1>14, Known, FaultCounts DEF RemoveFinal, Publish, IInv, Locals, RemovePCs
    <2>2. routed' \in BOOLEAN
      BY <1>14, Known DEF RemoveFinal, Publish, Routable, RoutableByIntent, Rows, Listed, Running
    <2>3. TypeOK'
      BY <1>14, <2>1, <2>2 DEF IInv, TypeOK, RemoveFinal, Publish, history, PCs, Listed
    <2>4. Locals' /\ Unlisted'
      BY <1>14, <2>1 DEF IInv, Locals, Unlisted, RemoveFinal, Publish, QuietPCs, RemovePCs,
                         TargetPCs, QuotaPCs, Listed
    <2>5. pc' \notin DiscardedPCs \cup StoppedPCs
      BY <2>1 DEF DiscardedPCs, StoppedPCs
    <2>6. QED
      BY <1>14, <2>3, <2>4, <2>5, StepKeeps DEF RemoveFinal, Publish
  <1>15. QED
    BY <1>6, <1>7, <1>8, <1>9, <1>10, <1>11, <1>12, <1>13, <1>14 DEF Removing

\* setQuota: the row takes the quota the caller asked for.
LEMMA QuotaKeeps ==
    ASSUME IInv, Quota
    PROVE  IInv'
  <1>1. /\ {"read", "end", "q_rm"} \subseteq PlainPCs
        /\ {"q_resize", "q_save", "q_rm"} \subseteq PCs \ QuietPCs
        /\ "failed" \in Exits
    BY DEF PlainPCs, PCs, QuietPCs, DiscardedPCs, StoppedPCs, RemovePCs, TargetPCs, QuotaPCs, Exits
  <1>2. QuotaThen \in PlainPCs
    BY <1>1 DEF QuotaThen
  <1>3. CASE QuotaResize
    <2>1. Leads("q_resize", "q_save") /\ \A w : Ready("q_save", w)
      BY DEF Leads, Ready, PCs, RemovePCs, TargetPCs, QuotaPCs, DiscardedPCs, StoppedPCs
    <2>2. QED
      BY <1>1, <1>3, <2>1, PlainCalls, Known, CallKeeps DEF QuotaResize, Call, history
  <1>4. CASE QuotaSave
    <2> DEFINE r == [row EXCEPT !.quota = op.quota, !.cid = @ /\ op.quota = row.quota]
               next == IF op.quota = row.quota THEN "end" ELSE IF op.had THEN "q_rm" ELSE QuotaThen
    <2>1. /\ row \in Rows /\ row.image \in Images /\ Listed
          /\ op.quota \in Quotas
      BY <1>1, <1>4, Known DEF QuotaSave, Store, Save, IInv, Locals, QuotaPCs
    <2>2. /\ r \in Rows /\ r.image \in Images /\ r.quota \in Quotas
          /\ r.status \notin {"none", "retained"}
      BY <2>1 DEF Rows, Listed
    <2>3. Store("q_save", r, next, "failed") /\ next \in PlainPCs
      BY <1>1, <1>2, <1>4 DEF QuotaSave
    <2> HIDE DEF r, next
    <2>4. QED
      BY <1>1, <2>2, <2>3, PlainPlaces, StoreKeeps
  <1>5. CASE QuotaDiscard
    BY <1>1, <1>2, <1>5, PlainPlaces, PlainCalls, Known, CallKeeps DEF QuotaDiscard, Call, history
  <1>6. QED
    BY <1>3, <1>4, <1>5 DEF Quota

\* setImage: the snapshot is taken of a stopped workload.
LEMMA UpgradeKeeps ==
    ASSUME IInv, Upgrade
    PROVE  IInv'
  <1>1. /\ {"i_stop", "i_inval", "i_wipe", "i_copy", "i_save"} \subseteq PCs \ QuietPCs
        /\ "failed" \in Exits /\ SnapshotFails \in Exits
    BY DEF PCs, QuietPCs, Exits, SnapshotFails
  <1>2. /\ Leads("i_stop", "i_inval") /\ Leads("i_stop", "i_wipe")
        /\ Leads("i_inval", "i_wipe") /\ Leads("i_wipe", "i_copy")
        /\ Leads("i_copy", "i_save")
    BY DEF Leads, PCs, RemovePCs, TargetPCs, QuotaPCs
  <1>3. /\ \A w : Ready("i_inval", w) <=> ~Running(w)
        /\ \A w : Ready("i_wipe", w) <=> ~Running(w)
        /\ \A w : Ready("i_copy", w) <=> ~Running(w)
        /\ \A w : Ready("i_save", w)
    BY DEF Ready, DiscardedPCs, StoppedPCs
  <1>4. Ready(pc, node) /\ node \in NodeStates
    BY Known DEF IInv, Prepared
  <1>5. "prev" \in Keys /\ "live" \in Keys
    BY DEF Keys
  <1>6. CASE ImageStop
    <2> DEFINE next == IF row.prev = None THEN "i_wipe" ELSE "i_inval"
    <2>1. \A w \in Done(StopCall, node) : Ready("i_wipe", w) /\ Ready("i_inval", w)
      BY <1>3, <1>4, StopDone
    <2>2. next = "i_wipe" \/ next = "i_inval"
      OBVIOUS
    <2>3. Ask("i_stop", StopCall, next, "failed")
      BY <1>6 DEF ImageStop, Call
    <2> HIDE DEF next
    <2>4. Leads("i_stop", next) /\ \A w \in Done(StopCall, node) : Ready(next, w)
      BY <1>2, <2>1, <2>2
    <2>5. QED
      BY <1>1, <1>6, <2>3, <2>4, PlainCalls, Known, CallKeeps DEF ImageStop, Call, history
  <1>7. CASE ImageInvalidate
    <2> DEFINE r == [row EXCEPT !.prev = None]
    <2>1. row \in Rows /\ Listed /\ row.image \in Images /\ row.quota \in Quotas
      BY <1>1, <1>7, Known DEF ImageInvalidate, Store, Save
    <2>2. /\ r \in Rows /\ r.image \in Images /\ r.quota \in Quotas
          /\ r.status \notin {"none", "retained"}
      BY <2>1 DEF Rows, Listed
    <2>3. Store("i_inval", r, "i_wipe", "failed")
      BY <1>7 DEF ImageInvalidate
    <2>4. Follows("i_inval", "i_wipe")
      BY <1>2, <1>3 DEF Follows, StoppedPCs
    <2> HIDE DEF r
    <2>5. QED
      BY <1>1, <2>2, <2>3, <2>4, StoreKeeps
  <1>8. CASE SnapshotClear
    <2>1. ~Running(node)
      BY <1>3, <1>4, <1>8 DEF SnapshotClear, Call, Ask
    <2>2. \A w \in Done(WipeCall("prev"), node) : Ready("i_copy", w)
      BY <1>3, <1>4, <1>5, <2>1, WipeDone DEF Running
    <2>3. WipeCall("prev") \in Calls /\ WipeCall("prev").do # "copy" /\ WipeCall("prev") # WipeCall("live")
      BY WipeCalls
    <2>4. QED
      BY <1>1, <1>2, <1>8, <2>2, <2>3, Known, CallKeeps DEF SnapshotClear, Call, history
  <1>9. CASE SnapshotCopy
    <2> DEFINE m == CopyCall("live", "prev", row.image)
    <2>1. ~Running(node) /\ row.image \in Images \cup {None}
      BY <1>1, <1>3, <1>4, <1>9, Known DEF SnapshotCopy, Call, Ask
    <2>2. m \in Calls /\ m # WipeCall("live")
      BY <1>5, <2>1, CopyCalls DEF Tags
    <2>3. Ask("i_copy", m, "i_save", SnapshotFails)
      BY <1>9 DEF SnapshotCopy, Call
    <2> HIDE DEF m
    <2>4. QED
      BY <1>1, <1>2, <1>3, <1>9, <2>1, <2>2, <2>3, Known, CallKeeps DEF SnapshotCopy, Call, history
  <1>10. CASE ImageSave
    <2>1. /\ pc = "i_save" /\ pc' \in {"read", "end", "failed"} /\ Listed
          /\ row \in Rows /\ op \in Ops /\ op.to \in Images
          /\ row.image \in Images /\ row.quota \in Quotas
          /\ row' \in {row, [row EXCEPT !.image = op.to, !.prev = row.image, !.cid = FALSE]}
          /\ faults' \in 0..MaxFaults
      BY <1>1, <1>10, Known, FaultCounts DEF ImageSave, Save, IInv, Locals, TargetPCs
    <2>2. row' \in Rows /\ Listed' /\ row'.image \in Images /\ row'.quota \in Quotas
      BY <2>1 DEF Rows, Listed
    <2>3. op' \in Ops /\ op'.to \in Images
      BY <1>10, <2>1 DEF ImageSave, Ops
    <2>4. TypeOK'
      BY <1>10, <2>1, <2>2, <2>3 DEF IInv, TypeOK, ImageSave, Save, routes, history, PCs
    <2>5. Locals' /\ pc' \notin DiscardedPCs \cup StoppedPCs
      BY <2>1, <2>3 DEF Locals, RemovePCs, TargetPCs, QuotaPCs, DiscardedPCs, StoppedPCs
    <2>6. QED
      BY <1>10, <2>2, <2>4, <2>5, StepKeeps DEF ImageSave, Save, Unlisted
  <1>11. QED
    BY <1>6, <1>7, <1>8, <1>9, <1>10 DEF Upgrade

\* rollbackTo: the live data is replaced where no container can come back.
LEMMA RollingBackKeeps ==
    ASSUME IInv, RollingBack
    PROVE  IInv'
  <1>1. /\ {"rb_mark", "rb_sync", "rb_stop", "rb_ctr", "rb_ensure", "rb_keep", "rb_wipe",
            "rb_copy", "rb_save", "rb_finish"} \subseteq PCs \ QuietPCs
        /\ {"read", "end", "rb_finish"} \subseteq PlainPCs
        /\ "fail_with" \in Exits
    BY DEF PlainPCs, PCs, QuietPCs, DiscardedPCs, StoppedPCs, RemovePCs, TargetPCs, QuotaPCs, Exits
  <1>2. /\ Leads("rb_mark", "rb_sync") /\ Leads("rb_sync", "rb_stop")
        /\ Leads("rb_stop", "rb_ctr") /\ Leads("rb_ctr", "rb_ensure")
        /\ Leads("rb_ensure", "rb_keep") /\ Leads("rb_keep", "rb_wipe")
        /\ Leads("rb_wipe", "rb_copy") /\ Leads("rb_copy", "rb_save")
    BY DEF Leads, PCs, RemovePCs, TargetPCs, QuotaPCs
  <1>3. /\ \A w : Ready("rb_sync", w) /\ Ready("rb_stop", w) /\ Ready("rb_ctr", w)
        /\ \A w : Ready("rb_ensure", w) <=> w.ctr = NoContainer
        /\ \A w : Ready("rb_keep", w) <=> w.ctr = NoContainer
        /\ \A w : Ready("rb_wipe", w) <=> w.ctr = NoContainer
        /\ \A w : Ready("rb_copy", w) <=> w.ctr = NoContainer
        /\ \A w : Ready("rb_save", w)
    BY DEF Ready, DiscardedPCs, StoppedPCs
  <1>4. Ready(pc, node) /\ node \in NodeStates
    BY Known DEF IInv, Prepared
  <1>5. "prev" \in Keys /\ "live" \in Keys /\ "recovery" \in Keys /\ None \in Tags
    BY DEF Keys, Tags
  <1>6. node.ctr = NoContainer => ~Running(node)
    BY DEF NoContainer, Running
  <1>7. /\ Follows("rb_mark", "rb_sync") /\ Follows("rb_sync", "rb_stop")
        /\ Follows("rb_ensure", "rb_keep")
    BY <1>2, <1>3 DEF Follows, DiscardedPCs, StoppedPCs
  <1>8. CASE RollbackMark
    <2> DEFINE r == [row EXCEPT !.status = "provisioning"]
    <2>1. row \in Rows /\ row.image \in Images /\ row.quota \in Quotas
      BY <1>1, <1>8, Known DEF RollbackMark, Store, Save
    <2>2. /\ r \in Rows /\ r.image \in Images /\ r.quota \in Quotas
          /\ r.status \notin {"none", "retained"}
      BY <2>1 DEF Rows, Statuses, Transit
    <2>3. Store("rb_mark", r, "rb_sync", "fail_with")
      BY <1>8 DEF RollbackMark
    <2> HIDE DEF r
    <2>4. QED
      BY <1>1, <1>7, <2>2, <2>3, StoreKeeps
  <1>9. CASE RollbackSync
    BY <1>1, <1>7, <1>9, PublishKeeps DEF RollbackSync
  <1>10. CASE RollbackStop
    BY <1>1, <1>2, <1>3, <1>10, PlainCalls, Known, CallKeeps DEF RollbackStop, Call, history
  <1>11. CASE RollbackDiscard
    <2>1. \A w \in Done(RemoveCall, node) : Ready("rb_ensure", w)
      BY <1>3, <1>4, <1>5, RemoveDone
    <2>2. QED
      BY <1>1, <1>2, <1>11, <2>1, PlainCalls, Known, CallKeeps DEF RollbackDiscard, Call, history
  <1>12. CASE RestoreCheck
    BY <1>1, <1>7, <1>12, LookKeeps DEF RestoreCheck
  <1>13. CASE RestoreKeep
    <2> DEFINE m == CopyCall("live", "recovery", None)
    <2>1. node.ctr = NoContainer
      BY <1>3, <1>4, <1>13 DEF RestoreKeep, Call, Ask
    <2>2. m \in Calls /\ m # WipeCall("live")
      BY <1>5, CopyCalls
    <2>3. \A w \in Done(m, node) : Ready("rb_wipe", w)
      BY <1>3, <1>4, <1>5, <2>1, CopyDone
    <2>4. Ask("rb_keep", m, "rb_wipe", "fail_with")
      BY <1>13 DEF RestoreKeep, Call
    <2> HIDE DEF m
    <2>5. QED
      BY <1>1, <1>2, <1>6, <1>13, <2>1, <2>2, <2>3, <2>4, Known, CallKeeps DEF RestoreKeep, Call, history
  <1>14. CASE RestoreClear
    <2>1. node.ctr = NoContainer
      BY <1>3, <1>4, <1>14 DEF RestoreClear, Call, Ask
    <2>2. \A w \in Done(WipeCall("live"), node) : Ready("rb_copy", w)
      BY <1>3, <1>4, <1>5, <2>1, WipeDone
    <2>3. WipeCall("live") \in Calls /\ WipeCall("live").do # "copy"
      BY WipeCalls
    <2>4. QED
      BY <1>1, <1>2, <1>14, <2>1, <2>2, <2>3, Known, CallKeeps DEF RestoreClear, Call, history
  <1>15. CASE RestoreCopy
    <2> DEFINE m == CopyCall("prev", "live", None)
    <2>1. node.ctr = NoContainer
      BY <1>3, <1>4, <1>15 DEF RestoreCopy, Call, Ask
    <2>2. m \in Calls /\ m # WipeCall("live")
      BY <1>5, CopyCalls
    <2>3. Ask("rb_copy", m, "rb_save", "fail_with")
      BY <1>15 DEF RestoreCopy, Call
    <2> HIDE DEF m
    <2>4. QED
      BY <1>1, <1>2, <1>3, <1>6, <1>15, <2>1, <2>2, <2>3, Known, CallKeeps DEF RestoreCopy, Call, history
  <1>16. CASE RollbackSave
    <2> DEFINE r == [row EXCEPT !.image = op.to, !.prev = None, !.cid = FALSE, !.status = "stopped"]
    <2>1. /\ pc = "rb_save" /\ pc' \in {"read", "rb_finish", "fail_with"} /\ Listed
          /\ row \in Rows /\ op \in Ops /\ op.to \in Images
          /\ row.image \in Images /\ row.quota \in Quotas
          /\ row' \in {row, r}
          /\ faults' \in 0..MaxFaults
      BY <1>1, <1>16, Known, FaultCounts DEF RollbackSave, Save, IInv, Locals, TargetPCs
    <2>2. row' \in Rows /\ Listed' /\ row'.image \in Images /\ row'.quota \in Quotas
      BY <2>1 DEF Rows, Statuses, Listed
    <2>3. latest' \in Versions \cup {Missing, Damaged}
      BY <1>5, <1>16, Known, NodeFields DEF RollbackSave, Dirs
    <2>4. TypeOK'
      BY <1>16, <2>1, <2>2, <2>3 DEF IInv, TypeOK, RollbackSave, Save, routes, PCs
    <2>5. Locals' /\ pc' \notin DiscardedPCs \cup StoppedPCs
      BY <1>16, <2>1 DEF IInv, RollbackSave, Locals, RemovePCs, TargetPCs, QuotaPCs, DiscardedPCs, StoppedPCs
    <2>6. QED
      BY <1>16, <2>2, <2>4, <2>5, StepKeeps DEF RollbackSave, Save, Unlisted
  <1>17. CASE RestoreFinish
    <2>1. WipeCall("recovery") \in Calls /\ WipeCall("recovery").do # "copy"
          /\ WipeCall("recovery") # WipeCall("live")
      BY WipeCalls
    <2>2. QED
      BY <1>1, <1>17, <2>1, PlainPlaces, Known, CallKeeps DEF RestoreFinish, Call, history
  <1>18. QED
    BY <1>8, <1>9, <1>10, <1>11, <1>12, <1>13, <1>14, <1>15, <1>16, <1>17 DEF RollingBack

\* create, after the row: the data directory.
LEMMA CreateDataKeeps ==
    ASSUME IInv, CreateData
    PROVE  IInv'
  <1>1. "make" \in PCs \ QuietPCs /\ "image" \in PlainPCs /\ "fail_with" \in Exits
    BY DEF PlainPCs, PCs, QuietPCs, DiscardedPCs, StoppedPCs, RemovePCs, TargetPCs, QuotaPCs, Exits
  <1>2. QED
    BY <1>1, PlainPlaces, PlainCalls, Known, CallKeeps DEF CreateData, Call, history

\* The reconciler only writes the status, and never of a deleted row.
LEMMA ReconcilingKeeps ==
    ASSUME IInv, Reconciling
    PROVE  IInv'
  <1>1. CASE ReconcileRead
    <2>1. faults' \in 0..MaxFaults /\ pc' = "rec_save"
      BY <1>1, Known, FaultCounts DEF ReconcileRead
    <2>2. op' \in Ops /\ (op'.stage = "upgrade" => op.stage = "upgrade") /\ op'.to = op.to
      BY <1>1, Known DEF ReconcileRead, Ops, InScope, Rows, Running
    <2>3. TypeOK'
      BY <1>1, <2>1, <2>2 DEF IInv, TypeOK, ReconcileRead, routes, history, PCs, Listed
    <2>4. Locals' /\ pc' \notin DiscardedPCs \cup StoppedPCs
      BY <2>1, <2>2 DEF IInv, Locals, RemovePCs, TargetPCs, QuotaPCs, DiscardedPCs, StoppedPCs
    <2>5. ~Listed => ~op'.had
      BY <1>1, Known DEF ReconcileRead, InScope, Listed, Ops
    <2>6. Unlisted'
      BY <1>1, <2>1, <2>5 DEF IInv, Unlisted, ReconcileRead, QuietPCs, Listed
    <2>7. QED
      BY <1>1, <2>3, <2>4, <2>6, StepKeeps DEF ReconcileRead
  <1>2. CASE ReconcileSave
    <2>1. /\ faults' \in 0..MaxFaults
          /\ pc' \in {"boot_sync", "boot", "idle"}
          /\ routed' \in BOOLEAN /\ stray' \in {"none", "due", "with", "without"}
          /\ op' = NoOp
      BY <1>2, Known, FaultCounts
         DEF IInv, TypeOK, ReconcileSave, routes, Routable, Rows, Listed, Running
    <2>2. ~Listed => row' = row
      BY <1>2 DEF IInv, Unlisted, ReconcileSave, Reconciled, Drift
    <2>3. row' \in Rows /\ row'.image = row.image /\ row'.quota = row.quota /\ (Listed' <=> Listed)
      BY <1>2, <2>2, Known DEF ReconcileSave, Reconciled, Rows, Statuses, Listed
    <2>4. NoOp \in Ops /\ NoOp.stage = "plain"
      BY DEF NoOp, Ops
    <2>5. TypeOK'
      BY <1>2, <2>1, <2>3, <2>4 DEF IInv, TypeOK, ReconcileSave, history, PCs
    <2>6. Locals' /\ pc' \notin DiscardedPCs \cup StoppedPCs
      BY <2>1, <2>4 DEF Locals, RemovePCs, TargetPCs, QuotaPCs, DiscardedPCs, StoppedPCs
    <2>7. Unlisted'
      BY <1>2, <2>1, <2>3 DEF IInv, Unlisted, ReconcileSave, QuietPCs
    <2>8. QED
      BY <1>2, <2>5, <2>6, <2>7, StepKeeps DEF ReconcileSave
  <1>3. QED
    BY <1>1, <1>2 DEF Reconciling

\* The local variables a workflow begins with.
LEMMA NewLocals ==
    ASSUME row \in Rows, NEW q \in Quotas \cup {None}, NEW i \in Images \cup {None}, NEW b \in BOOLEAN
    PROVE  /\ NoOp \in Ops /\ NoOp.stage = "plain"
           /\ \A home \in {"user", "boot"} :
                 /\ StartLocals(home) \in Ops /\ StartLocals(home).stage # "upgrade"
                 /\ [NoOp EXCEPT !.home = home] \in Ops
                 /\ [NoOp EXCEPT !.home = home].stage = "plain"
           /\ [NoOp EXCEPT !.was = b, !.had = row.cid, !.quota = q] \in Ops
           /\ [NoOp EXCEPT !.was = b, !.to = i] \in Ops
           /\ [NoOp EXCEPT !.stage = "rollback", !.to = i, !.was = b] \in Ops
  BY DEF NoOp, Ops, StartLocals, Rows

\* Boot: interrupted workflows are marked, nothing is touched on the node.
LEMMA BootingKeeps ==
    ASSUME IInv, Booting
    PROVE  IInv'
  <1>1. CASE BootCheck
    <2>1. /\ pc = "boot"
          /\ pc' \in {"rec", "boot_mark", "inspect", "ensure"}
          /\ faults' \in 0..MaxFaults
          /\ ~Listed => pc' = "rec"
      BY <1>1, Known, FaultCounts DEF BootCheck, Listed
    <2>2. op' \in Ops /\ op'.stage # "upgrade"
      BY <1>1, Known, NewLocals DEF BootCheck
    <2>3. TypeOK'
      BY <1>1, <2>1, <2>2 DEF IInv, TypeOK, BootCheck, history, PCs, Listed
    <2>4. Locals' /\ pc' \notin DiscardedPCs \cup StoppedPCs
      BY <2>1, <2>2 DEF Locals, RemovePCs, TargetPCs, QuotaPCs, DiscardedPCs, StoppedPCs
    <2>5. Unlisted'
      BY <1>1, <2>1 DEF IInv, Unlisted, BootCheck, QuietPCs, Listed
    <2>6. QED
      BY <1>1, <2>3, <2>4, <2>5, StepKeeps DEF BootCheck
  <1>2. CASE BootMark
    <2> DEFINE r == [row EXCEPT !.status = "error"]
    <2>1. /\ "boot_mark" \in PCs \ QuietPCs /\ "rec" \in PlainPCs /\ "boot" \in Exits
      BY DEF PlainPCs, PCs, QuietPCs, DiscardedPCs, StoppedPCs, RemovePCs, TargetPCs, QuotaPCs, Exits
    <2>2. row \in Rows /\ row.image \in Images /\ row.quota \in Quotas
      BY <1>2, <2>1, Known DEF BootMark, Store, Save
    <2>3. /\ r \in Rows /\ r.image \in Images /\ r.quota \in Quotas
          /\ r.status \notin {"none", "retained"}
      BY <2>2 DEF Rows, Statuses
    <2>4. Store("boot_mark", r, "rec", "boot")
      BY <1>2 DEF BootMark
    <2> HIDE DEF r
    <2>5. QED
      BY <2>1, <2>3, <2>4, PlainPlaces, StoreKeeps
  <1>3. CASE BootSync
    <2>1. pc' \in {"idle", "boot"} /\ faults' \in 0..MaxFaults /\ pc = "boot_sync"
      BY <1>3, Known, FaultCounts DEF BootSync, Publish
    <2>2. routed' \in BOOLEAN
      BY <1>3, Known DEF BootSync, Publish, Routable, RoutableByIntent, Rows, Listed, Running
    <2>3. TypeOK'
      BY <1>3, <2>1, <2>2 DEF IInv, TypeOK, BootSync, Publish, history, PCs, Listed
    <2>4. Locals' /\ pc' \notin DiscardedPCs \cup StoppedPCs
      BY <1>3, <2>1 DEF IInv, BootSync, Publish, Locals, RemovePCs, TargetPCs, QuotaPCs,
                        DiscardedPCs, StoppedPCs
    <2>5. Unlisted'
      BY <1>3, <2>1 DEF IInv, Unlisted, BootSync, Publish, QuietPCs, Listed
    <2>6. QED
      BY <1>3, <2>3, <2>4, <2>5, StepKeeps DEF BootSync, Publish
  <1>4. QED
    BY <1>1, <1>2, <1>3 DEF Booting

\* failWith: a deleted row is not marked, and an upgrade goes on to its rollback.
LEMMA FailWithKeeps ==
    ASSUME IInv, FailWith
    PROVE  IInv'
  <1>1. /\ pc \in {"fail_with", "fail_twice"}
        /\ pc' \in {"fail_with", "rb_mark", "failed"}
        /\ faults' \in 0..MaxFaults
        /\ routed' \in BOOLEAN
    BY Known, FaultCounts DEF FailWith, Listed, Rows, Running
  <1>2. row' \in Rows /\ row'.image = row.image /\ row'.quota = row.quota /\ (Listed' <=> Listed)
        /\ (~Listed => row' = row)
    BY Known DEF FailWith, Rows, Statuses, Listed
  <1>3. /\ op' \in Ops /\ op'.to = op.to
        /\ op'.stage = "upgrade" => op.stage = "upgrade"
        /\ pc' = "rb_mark" => op.stage = "upgrade"
        /\ op.stage # "upgrade" => op' = op
    BY Known DEF FailWith, Ops
  <1>4. TypeOK'
    BY <1>1, <1>2, <1>3 DEF IInv, TypeOK, FailWith, history, PCs
  <1>5. Locals' /\ pc' \notin DiscardedPCs \cup StoppedPCs
    BY <1>1, <1>3 DEF IInv, Locals, RemovePCs, TargetPCs, QuotaPCs, DiscardedPCs, StoppedPCs
  <1>6. Unlisted'
    <2>1. ~Listed => pc = "fail_with" /\ op = NoOp
      BY <1>1 DEF IInv, Unlisted, QuietPCs
    <2>2. ~Listed => pc' = "failed" /\ op' = NoOp
      BY <2>1 DEF FailWith, NoOp
    <2>3. QED
      BY <1>2, <2>2 DEF IInv, Unlisted, FailWith, QuietPCs
  <1>7. QED
    BY <1>4, <1>5, <1>6, StepKeeps DEF FailWith

\* The end of an operation.
LEMMA ReturnKeeps ==
    ASSUME IInv, Return
    PROVE  IInv'
  <1>1. /\ pc \in {"end", "failed"}
        /\ pc' \in {"idle", "rec", "boot_mark"}
        /\ op.home = "user" => pc' = "idle"
    BY DEF Return
  <1>2. op' \in Ops /\ op'.stage = "plain"
    BY Known DEF Return, Ops, NoOp
  <1>3. TypeOK'
    BY <1>1, <1>2 DEF IInv, TypeOK, Return, routes, history, PCs, Listed
  <1>4. Locals' /\ pc' \notin DiscardedPCs \cup StoppedPCs
    BY <1>1, <1>2 DEF Locals, RemovePCs, TargetPCs, QuotaPCs, DiscardedPCs, StoppedPCs
  <1>5. ~Listed => op.home = "user"
    BY <1>1 DEF IInv, Unlisted, NoOp
  <1>6. Unlisted'
    BY <1>1, <1>5 DEF IInv, Unlisted, Return, QuietPCs, Listed
  <1>7. QED
    BY <1>3, <1>4, <1>6, StepKeeps DEF Return

-----------------------------------------------------------------------------
\* What begins a workflow, and what happens around them.

\* An operation on a listed workspace begins.
LEMMA BeginKeeps ==
    ASSUME IInv, NEW next \in PCs \ (DiscardedPCs \cup StoppedPCs), NEW locals \in Ops,
           Begin(next, locals),
           Listed,
           next \in RemovePCs => locals = NoOp,
           next \in TargetPCs => locals.to \in Images,
           next \in QuotaPCs => locals.quota \in Quotas,
           locals.stage # "upgrade"
    PROVE  IInv'
  <1>1. pc' = next /\ op' = locals /\ Listed'
    BY DEF Begin, Listed
  <1>2. TypeOK'
    BY <1>1 DEF IInv, TypeOK, Begin, routes, history
  <1>3. Locals' /\ Unlisted'
    BY <1>1 DEF Locals, Unlisted
  <1>4. QED
    BY <1>1, <1>2, <1>3, StepKeeps DEF Begin

\* create begins where nothing is left of an earlier workspace.
LEMMA CreateKeeps ==
    ASSUME IInv, NEW i \in Images, NEW q \in Quotas, Create(i, q)
    PROVE  IInv'
  <1> DEFINE r == [NoRow EXCEPT !.status = "provisioning", !.image = i, !.quota = q]
  <1>1. r \in Rows /\ r.image = i /\ r.quota = q /\ r.status = "provisioning"
    BY DEF NoRow, Rows, Statuses, Transit
  <1>2. row' = r /\ Listed' /\ pc' = "make" /\ op' = NoOp
    BY <1>1 DEF Create, Listed
  <1>3. node = EmptyNode /\ job = Nothing
    BY DEF Create, IInv, Unlisted
  <1>4. UNCHANGED <<node, job>>
    BY <1>3 DEF Create, EmptyNode
  <1>5. NoOp \in Ops /\ NoOp.stage = "plain"
    BY DEF NoOp, Ops
  <1>6. TypeOK'
    <2>1. r \in Rows /\ row'.image \in Images /\ row'.quota \in Quotas
      BY <1>1, <1>2
    <2> HIDE DEF r
    <2>2. QED
      BY <1>2, <1>4, <1>5, <2>1 DEF IInv, TypeOK, Create, routes, PCs
  <1>7. Locals' /\ Unlisted' /\ pc' \notin DiscardedPCs \cup StoppedPCs
    BY <1>2, <1>5 DEF Locals, Unlisted, RemovePCs, TargetPCs, QuotaPCs, DiscardedPCs, StoppedPCs
  <1>8. QED
    BY <1>4, <1>6, <1>7, StepKeeps

\* The operations a caller or the timer can begin.
LEMMA RequestKeeps ==
    ASSUME IInv, Request
    PROVE  IInv'
  <1>1. /\ {"read", "stop", "stop_save", "inspect", "ensure", "rec", "rm_mark", "q_resize",
            "q_save", "i_stop", "rb_mark"} \subseteq PCs \ (DiscardedPCs \cup StoppedPCs)
        /\ {"read", "stop", "stop_save", "inspect", "ensure", "rec", "rm_mark", "i_stop", "rb_mark"}
               \cap QuotaPCs = {}
        /\ {"read", "stop", "stop_save", "inspect", "ensure", "rec", "rm_mark", "q_resize",
            "q_save"} \cap TargetPCs = {}
        /\ {"read", "stop", "stop_save", "inspect", "ensure", "rec", "q_resize",
            "q_save", "i_stop", "rb_mark"} \cap RemovePCs = {}
    BY DEF PCs, DiscardedPCs, StoppedPCs, RemovePCs, TargetPCs, QuotaPCs
  <1>2. NoOp \in Ops /\ NoOp.stage = "plain"
    BY DEF NoOp, Ops
  <1>3. CASE \E i \in Images, q \in Quotas : Create(i, q)
    BY <1>3, CreateKeeps
  <1>4. CASE Restart
    BY <1>1, <1>2, <1>4, BeginKeeps DEF Restart
  <1>5. CASE Stop
    BY <1>1, <1>2, <1>5, BeginKeeps DEF Stop
  <1>6. CASE Start
    <2>1. StartLocals("user") \in Ops /\ StartLocals("user").stage # "upgrade"
      BY Known DEF StartLocals, NoOp, Ops
    <2>2. QED
      BY <1>1, <1>6, <2>1, BeginKeeps DEF Start
  <1>7. CASE Delete
    BY <1>1, <1>2, <1>7, BeginKeeps DEF Delete
  <1>8. CASE Rollback
    <2> DEFINE locals == [NoOp EXCEPT !.stage = "rollback", !.to = row.prev,
                                      !.was = (row.status = "running")]
    <2>1. locals \in Ops /\ locals.stage = "rollback" /\ locals.to \in Images
      BY <1>8, Known DEF Rollback, NoOp, Ops, Rows
    <2>2. Begin("rb_mark", locals) /\ Listed
      BY <1>8 DEF Rollback
    <2> HIDE DEF locals
    <2>3. QED
      BY <1>1, <2>1, <2>2, BeginKeeps
  <1>9. CASE Tick
    BY <1>1, <1>2, <1>9, BeginKeeps DEF Tick
  <1>10. ASSUME NEW q \in Quotas, NEW disk \in BOOLEAN, SetQuota(q, disk)
         PROVE  IInv'
    <2> DEFINE locals == [NoOp EXCEPT !.was = (row.status = "running"), !.had = row.cid, !.quota = q]
               next == IF disk THEN "q_resize" ELSE "q_save"
    <2>1. locals \in Ops /\ locals.stage = "plain" /\ locals.quota \in Quotas
      BY Known DEF NoOp, Ops, Rows
    <2>2. Begin(next, locals) /\ Listed /\ next \in {"q_resize", "q_save"}
      BY <1>10 DEF SetQuota
    <2> HIDE DEF locals, next
    <2>3. QED
      BY <1>1, <2>1, <2>2, BeginKeeps
  <1>11. ASSUME NEW i \in Images, SetImage(i)
         PROVE  IInv'
    <2> DEFINE locals == [NoOp EXCEPT !.was = (row.status = "running"), !.to = i]
    <2>1. locals \in Ops /\ locals.stage = "plain" /\ locals.to \in Images
      BY Known DEF NoOp, Ops, Rows
    <2>2. Begin("i_stop", locals) /\ Listed
      BY <1>11 DEF SetImage
    <2> HIDE DEF locals
    <2>3. QED
      BY <1>1, <2>1, <2>2, BeginKeeps
  <1>12. QED
    BY <1>3, <1>4, <1>5, <1>6, <1>7, <1>8, <1>9, <1>10, <1>11 DEF Request

\* The steps of the workflow that has the queue.
LEMMA WorkflowKeeps ==
    ASSUME IInv, Workflow
    PROVE  IInv'
  BY CreateDataKeeps, RebuildKeeps, StoppingKeeps, StartingKeeps, RemovingKeeps, QuotaKeeps,
     UpgradeKeeps, RollingBackKeeps, ReconcilingKeeps, BootingKeeps, FailWithKeeps, ReturnKeeps
     DEF Workflow

\* The projection outside the queue touches the routes alone.
LEMMA StrayKeeps ==
    ASSUME IInv, Stray
    PROVE  IInv'
  <1>1. /\ faults' \in 0..MaxFaults
        /\ routed' \in BOOLEAN
        /\ stray' \in {"none", "due", "with", "without"}
        /\ UNCHANGED <<row, node, job, pc, op, history>>
    BY Known, FaultCounts DEF Stray, StrayRead, StrayWrite
  <1>2. TypeOK'
    BY <1>1 DEF IInv, TypeOK, history, Listed
  <1>3. Locals' /\ Unlisted' /\ Ready(pc', node)
    BY <1>1 DEF IInv, Locals, Unlisted, Prepared, Listed, Ready
  <1>4. QED
    BY <1>1, <1>2, <1>3, StepKeeps DEF IInv, Prepared

\* What changes the node alone: the container may go or stop, and the data
\* under it stays in place.
LEMMA NodeKeeps ==
    ASSUME IInv,
           UNCHANGED <<row, routes, pc, op, doomed>>,
           node' \in NodeStates,
           job' \in {job, Nothing},
           faults' \in 0..MaxFaults,
           clock' \in 0..MaxWrites,
           latest' \in Versions \cup {Missing, Damaged},
           ContainerHasData', QuietCopies', LateWipe', Ready(pc, node'),
           ~Listed => node' = node
    PROVE  IInv'
  <1>1. Nothing \in Calls
    BY DEF Calls
  <1>2. TypeOK'
    BY <1>1 DEF IInv, TypeOK, routes, Listed
  <1>3. Prepared'
    BY DEF IInv, Prepared, Ready
  <1>4. Locals' /\ Unlisted'
    BY DEF IInv, Locals, Unlisted, Listed
  <1>5. QED
    BY <1>2, <1>3, <1>4 DEF IInv

\* Crashes, abandoned calls, exits, removals by hand and the workload's writes.
LEMMA AroundKeeps ==
    ASSUME IInv, Around
    PROVE  IInv'
  <1>1. /\ Nothing # WipeCall("live") /\ Nothing.do # "copy"
        /\ EmptyNode.ctr = NoContainer
        /\ NoContainer.state = "absent"
        /\ "live" \in Keys
    BY DEF Nothing, WipeCall, EmptyNode, NoContainer, Keys
  <1>2. /\ node \in NodeStates /\ job \in Calls
        /\ Ready(pc, node)
        /\ node.ctr.state # "absent" => Usable(node, "live")
        /\ job = WipeCall("live") => node.ctr = NoContainer
        /\ job.do = "copy" \/ job = WipeCall("live") => ~Running(node)
        /\ ~Listed => node.ctr = NoContainer /\ job = Nothing
    BY <1>1 DEF IInv, TypeOK, Prepared, ContainerHasData, LateWipe, QuietCopies, Unlisted
  <1>3. CASE Crash
    <2>1. faults' \in 0..MaxFaults /\ pc' = "boot"
      BY <1>3, FaultCounts DEF Crash
    <2>2. TypeOK'
      BY <1>3, <2>1 DEF IInv, TypeOK, Crash, routes, history, PCs, Listed
    <2>3. Locals' /\ pc' \notin DiscardedPCs \cup StoppedPCs
      BY <1>3, <2>1 DEF IInv, Locals, Crash, RemovePCs, TargetPCs, QuotaPCs, DiscardedPCs, StoppedPCs
    <2>4. Unlisted'
      BY <1>3, <2>1 DEF IInv, Unlisted, Crash, QuietPCs, Listed
    <2>5. QED
      BY <1>3, <2>2, <2>3, <2>4, StepKeeps DEF Crash
  <1>4. CASE NodeFinishes
    <2>1. /\ job # Nothing /\ job' = Nothing /\ Listed
          /\ node' \in Outcomes(job, node)
      BY <1>2, <1>4 DEF NodeFinishes, Outcomes
    <2>2. node' \in NodeStates
      BY <1>2, <2>1, OutcomeTypes
    <2>3. node'.ctr.state # "absent" => Usable(node', "live")
      BY <1>1, <1>2, <2>1, OutcomesKeepData
    <2>4. ContainerHasData' /\ QuietCopies' /\ LateWipe'
      BY <1>1, <2>1, <2>3 DEF ContainerHasData, QuietCopies, LateWipe, Usable
    <2>5. Ready(pc, node')
      BY <2>1 DEF IInv, Prepared, Ready, DiscardedPCs, StoppedPCs
    <2>6. QED
      BY <1>4, <2>1, <2>2, <2>4, <2>5, Known, NodeKeeps DEF NodeFinishes, history, IInv, TypeOK
  <1>5. CASE ContainerExits
    <2>1. Running(node) /\ node' = Halted(node) /\ job' = job
      BY <1>5 DEF ContainerExits
    <2>2. /\ node' \in NodeStates /\ node'.disk = node.disk /\ ~Running(node')
          /\ node.ctr.state # "absent"
      BY <1>2, <2>1, HaltedFacts DEF Running
    <2>3. ContainerHasData' /\ QuietCopies' /\ LateWipe'
      BY <1>1, <1>2, <2>1, <2>2 DEF ContainerHasData, QuietCopies, LateWipe, Usable, Running
    <2>4. Ready(pc, node')
      BY <1>1, <1>2, <2>2 DEF Ready
    <2>5. QED
      BY <1>1, <1>2, <1>5, <2>1, <2>2, <2>3, <2>4, Known, NodeKeeps
         DEF ContainerExits, history, IInv, TypeOK
  <1>6. CASE Prune
    <2>1. /\ node.ctr.state # "absent" /\ job' = job
          /\ node' = Become(node, "absent", None, None)
          /\ faults' \in 0..MaxFaults
      BY <1>6, FaultCounts DEF Prune
    <2>2. node' \in NodeStates /\ node'.disk = node.disk /\ node'.ctr = NoContainer
      BY <1>2, <2>1 DEF Become, NodeStates, Containers, NoContainer
    <2>3. ContainerHasData' /\ QuietCopies' /\ LateWipe'
      BY <1>1, <2>2 DEF ContainerHasData, QuietCopies, LateWipe, Running
    <2>4. Ready(pc, node')
      BY <1>1, <1>2, <2>1, <2>2 DEF Ready, Running
    <2>5. QED
      BY <1>1, <1>2, <1>6, <2>1, <2>2, <2>3, <2>4, Known, NodeKeeps
         DEF Prune, history, IInv, TypeOK
  <1>7. CASE Work
    <2> DEFINE v == Put(node, "live", clock + 1, node.disk["live"].rec, node.disk["live"].tag)
    <2>1. /\ Running(node) /\ node' = v /\ job' = job
          /\ clock + 1 \in 0..MaxWrites /\ clock' = clock + 1 /\ latest' = clock + 1
      BY <1>7, NodeAssumption DEF Work, IInv, TypeOK
    <2>2. clock + 1 \in Versions /\ clock + 1 \in Dirs /\ clock + 1 # Missing
      BY <2>1, NodeAssumption DEF Versions, Dirs
    <2>3. node.disk["live"].rec \in Recs /\ node.disk["live"].tag \in Tags
      BY <1>1, <1>2, NodeFields
    <2>4. /\ v \in NodeStates
          /\ v.ctr = node.ctr
          /\ v.disk["live"] = [dir |-> clock + 1, rec |-> node.disk["live"].rec,
                               tag |-> node.disk["live"].tag]
      BY <1>1, <1>2, <2>2, <2>3, PutFacts
    <2>5. node.ctr.state = "running" /\ node.disk["live"].rec = "done"
      BY <1>2, <2>1 DEF Running, Usable
    <2> HIDE DEF v
    <2>6. ContainerHasData' /\ QuietCopies' /\ LateWipe'
      BY <1>1, <1>2, <2>1, <2>2, <2>4, <2>5
         DEF ContainerHasData, QuietCopies, LateWipe, Usable, Running
    <2>7. Ready(pc, node')
      BY <1>1, <1>2, <2>1, <2>5 DEF Ready, Running, DiscardedPCs
    <2>8. QED
      BY <1>1, <1>2, <1>7, <2>1, <2>2, <2>4, <2>5, <2>6, <2>7, Known, NodeKeeps
         DEF Work, IInv, TypeOK
  <1>8. QED
    BY <1>3, <1>4, <1>5, <1>6, <1>7 DEF Around

-----------------------------------------------------------------------------

\* Before the first workspace there is nothing.
LEMMA InitHolds == Init => IInv
  <1> SUFFICES ASSUME Init PROVE IInv
    OBVIOUS
  <1>1. NoRow \in Rows /\ ~Listed
    BY DEF Init, NoRow, Rows, Statuses, Listed
  <1>2. EmptyNode \in NodeStates /\ EmptyNode.ctr.state = "absent" /\ ~Running(EmptyNode)
    BY NodeAssumption DEF EmptyNode, NoEntry, NoContainer, NodeStates, Entries, Containers, Running
  <1>3. Nothing \in Calls /\ Nothing # WipeCall("live") /\ Nothing.do # "copy"
    BY DEF Calls, Nothing, WipeCall
  <1>4. NoOp \in Ops /\ NoOp.stage = "plain"
    BY DEF NoOp, Ops
  <1>5. TypeOK
    <2>1. 0 \in 0..MaxFaults /\ 0 \in 0..MaxWrites /\ "idle" \in PCs
      BY NodeAssumption, LifecycleAssumption DEF PCs
    <2>2. QED
      BY <1>1, <1>2, <1>3, <1>4, <2>1 DEF Init, TypeOK
  <1>6. ContainerHasData /\ QuietCopies /\ LateWipe
    BY <1>2, <1>3 DEF Init, ContainerHasData, QuietCopies, LateWipe
  <1>7. Prepared /\ Locals /\ Unlisted
    BY <1>4 DEF Init, Prepared, Ready, Locals, Unlisted, QuietPCs, DiscardedPCs, StoppedPCs,
                RemovePCs, TargetPCs, QuotaPCs
  <1>8. QED
    BY <1>5, <1>6, <1>7 DEF IInv

\* Every step keeps the invariant.
LEMMA NextHolds == IInv /\ [Next]_vars => IInv'
  <1> SUFFICES ASSUME IInv, [Next]_vars PROVE IInv'
    OBVIOUS
  <1>1. CASE UNCHANGED vars
    <2>1. TypeOK' /\ Locals' /\ Unlisted'
      BY <1>1 DEF vars, IInv, TypeOK, Locals, Unlisted, Listed
    <2>2. QED
      BY <1>1, <2>1, StepKeeps DEF vars, IInv, Prepared
  <1>2. QED
    BY <1>1, RequestKeeps, WorkflowKeeps, StrayKeeps, AroundKeeps DEF Next

\* IInv is inductive.
THEOREM LifecycleInvariant == Spec => []IInv
  BY InitHolds, NextHolds, PTL DEF Spec

\* The row, the node, the workflow and its local variables keep their types,
\* and a listed row always has an image and a quota to rebuild from.
THEOREM LifecycleTypes == Spec => []TypeOK
  <1>1. IInv => TypeOK
    BY DEF IInv
  <1>2. QED
    BY <1>1, LifecycleInvariant, PTL

\* No container exists without its data directory and a complete record of it,
\* whatever fails on the node and whenever the control plane dies.
THEOREM DataBeforeContainer == Spec => []ContainerHasData
  <1>1. IInv => ContainerHasData
    BY DEF IInv
  <1>2. QED
    BY <1>1, LifecycleInvariant, PTL

\* An abandoned copy, or removal of the live data, never meets a workload.
THEOREM CopiesMeetNoWorkload == Spec => []QuietCopies
  <1>1. IInv => QuietCopies
    BY DEF IInv
  <1>2. QED
    BY <1>1, LifecycleInvariant, PTL

\* A workspace that was deleted has left neither data nor a container nor a
\* call that could bring them back.
THEOREM DeletionIsComplete == Spec => []DeletedLeavesNothing
  <1>1. EmptyNode.ctr.state = "absent"
    BY DEF EmptyNode, NoContainer
  <1>2. IInv => DeletedLeavesNothing
    BY <1>1 DEF IInv, Unlisted, Listed, DeletedLeavesNothing
  <1>3. QED
    BY <1>2, LifecycleInvariant, PTL
=============================================================================
