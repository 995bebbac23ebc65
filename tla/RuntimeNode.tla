---------------------------- MODULE RuntimeNode ----------------------------
(***************************************************************************)
(* What the node agent's mutations do to one workspace's storage and       *)
(* container (runtime/docker/driver.ts behind runtime/node/server.ts).      *)
(*                                                                         *)
(* A workspace has three storage keys: its live data, the snapshot taken   *)
(* before an image change (`.prev`) and the copy a rollback keeps while it *)
(* replaces the live data (`.recovery`).  Behind a key stand a directory   *)
(* and a record of the project registry; several calls touch one and then  *)
(* the other, so a call that fails half way leaves them apart.             *)
(*                                                                         *)
(* Every operator takes the node's state w and returns the set of states   *)
(* the call may leave behind: Done when it succeeds, Denied when the       *)
(* driver's own checks reject it, Broken when it fails on the way.         *)
(***************************************************************************)
EXTENDS Naturals

CONSTANTS Images,    \* the published workspace images
          Quotas,    \* the CPU, memory and pids settings
          MaxWrites, \* bound: how often a running workload changes its data
          Missing,   \* a directory that does not exist
          Damaged,   \* a directory that holds part of what it should
          None       \* no image, no quota

\* The contents a data directory can have: 0 when it is created, one more
\* with every change.
Versions == 0..MaxWrites

ASSUME NodeAssumption ==
    /\ MaxWrites \in Nat
    /\ Missing # Damaged
    /\ Missing \notin Versions
    /\ Damaged \notin Versions
    /\ None \notin Images
    /\ None \notin Quotas

Keys == {"live", "prev", "recovery"}

\* tag names the image whose data was copied into the directory.
Entries == [dir : Versions \cup {Missing, Damaged},
            rec : {"none", "pending", "done"},
            tag : Images \cup {None}]

Containers == [state : {"absent", "stopped", "running"},
               image : Images \cup {None},
               quota : Quotas \cup {None}]

NodeStates == [disk : [Keys -> Entries], ctr : Containers]

NoEntry == [dir |-> Missing, rec |-> "none", tag |-> None]
NoContainer == [state |-> "absent", image |-> None, quota |-> None]
EmptyNode == [disk |-> [k \in Keys |-> NoEntry], ctr |-> NoContainer]

-----------------------------------------------------------------------------
\* The mutations of the node protocol that the lifecycle asks for.

Nothing == [do |-> "nothing"]
StopCall == [do |-> "stop"]
RemoveCall == [do |-> "remove"]
StartCall == [do |-> "start"]
PullCall == [do |-> "pull"]
ChownCall == [do |-> "chown"]
ResizeCall == [do |-> "resize"]
CreateCall(i, q) == [do |-> "create", image |-> i, quota |-> q]
MakeCall == [do |-> "make", key |-> "live"]
WipeCall(k) == [do |-> "wipe", key |-> k]
CopyCall(from, to, tag) == [do |-> "copy", from |-> from, key |-> to, tag |-> tag]

Calls ==
    {Nothing, StopCall, RemoveCall, StartCall, PullCall, ChownCall, ResizeCall, MakeCall}
    \cup {CreateCall(i, q) : i \in Images, q \in Quotas}
    \cup {WipeCall(k) : k \in Keys}
    \cup {CopyCall(from, to, tag) : from \in Keys, to \in Keys, tag \in Images \cup {None}}

-----------------------------------------------------------------------------

\* ensureStorage: the directory is there and its record is complete.
Usable(w, k) == w.disk[k].dir # Missing /\ w.disk[k].rec = "done"

Running(w) == w.ctr.state = "running"

Put(w, k, dir, rec, tag) ==
    [w EXCEPT !.disk = [@ EXCEPT ![k] = [dir |-> dir, rec |-> rec, tag |-> tag]]]

Become(w, state, image, quota) ==
    [w EXCEPT !.ctr = [state |-> state, image |-> image, quota |-> quota]]

Halted(w) == IF Running(w) THEN Become(w, "stopped", w.ctr.image, w.ctr.quota) ELSE w

\* What the driver checks before it changes anything: storage in place, the
\* container there, nothing running on the data, an exclusive mkdir.
Allowed(m, w) ==
    CASE m.do = "create" -> Usable(w, "live")
      [] m.do = "start" -> w.ctr.state # "absent"
      [] m.do = "make" -> w.disk[m.key].dir = Missing
      [] m.do = "chown" -> ~Running(w) /\ Usable(w, "live")
      [] m.do = "resize" -> Usable(w, "live")
      [] m.do = "wipe" -> m.key = "live" => ~Running(w)
      [] m.do = "copy" ->
            /\ "live" \in {m.from, m.key} => ~Running(w)
            /\ Usable(w, m.from)
            /\ w.disk[m.key].dir = Missing
      [] OTHER -> TRUE

\* ProjectRegistry.allocate refuses a key that still has a record; by then
\* the directory has been made.
Clash(m, w) == m.do \in {"make", "copy"} /\ w.disk[m.key].rec # "none"

Done(m, w) ==
    IF ~Allowed(m, w) \/ Clash(m, w) THEN {}
    ELSE CASE m.do = "stop" -> {Halted(w)}
           [] m.do = "remove" -> {Become(w, "absent", None, None)}
           [] m.do = "start" -> {Become(w, "running", w.ctr.image, w.ctr.quota)}
           [] m.do = "create" -> {Become(w, "running", m.image, m.quota)}
           [] m.do = "make" -> {Put(w, m.key, 0, "done", None)}
           [] m.do = "wipe" -> {Put(w, m.key, Missing, "none", None)}
           [] m.do = "copy" -> {Put(w, m.key, w.disk[m.from].dir, "done", m.tag)}
           [] OTHER -> {w}

Denied(m, w) ==
    IF ~Allowed(m, w) THEN {w}
    ELSE IF Clash(m, w) THEN {Put(w, m.key, Damaged, w.disk[m.key].rec, None)}
    ELSE {}

\* A call that fails has done nothing, or stopped after one of its steps.
Broken(m, w) ==
    {w} \cup
    IF ~Allowed(m, w) \/ Clash(m, w) THEN {}
    ELSE CASE m.do = "stop" -> {Halted(w)}
           [] m.do = "remove" -> {Become(w, "absent", None, None)}
           [] m.do = "create" -> {Become(w, "absent", None, None),
                                  Become(w, "stopped", m.image, m.quota),
                                  Become(w, "running", m.image, m.quota)}
           [] m.do = "make" -> {Put(w, m.key, Damaged, rec, None) : rec \in {"none", "pending"}}
           [] m.do = "wipe" -> {Put(w, m.key, dir, w.disk[m.key].rec, None) :
                                    dir \in {Missing} \cup
                                            (IF w.disk[m.key].dir = Missing THEN {} ELSE {Damaged})}
           [] m.do = "copy" -> {Put(w, m.key, dir, rec, None) :
                                    dir \in {Damaged, Missing},
                                    rec \in {"none", "pending", "done"}}
           [] OTHER -> {}
=============================================================================
