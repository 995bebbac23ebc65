------------------------- MODULE NodeStorageProofs -------------------------
(***************************************************************************)
(* Project ids are never given to two keys, a directory with data is       *)
(* inside its limit, and what may be used is complete: for any workspaces, *)
(* any number of ids and any faults.                                       *)
(*                                                                         *)
(* The first inductive invariant follows an id from the registry to the    *)
(* disk: whatever is on a directory, in a call's hands or was ever charged *)
(* to an account is among the ids that the registry holds for that key,    *)
(* and no id is held for two keys. Without a registry file nothing is      *)
(* known but that the directories still there are apart, and no agent is   *)
(* up. Two more follow the limit, and the record of a directory, through a *)
(* call.                                                                   *)
(*                                                                         *)
(* The last part compares what is on the disk with what the key held when  *)
(* the call came in: the steps of a call come to one step of RuntimeNode.  *)
(***************************************************************************)
EXTENDS NodeOutcomes, TLAPS

\* A directory that is not there is on no project.
GoneIsClean == \A k \in StorageKeys : dirs[k].has = "absent" => dirs[k].projid = 0

\* The directory that a call puts on a project is there.
Placed == call.at \in {"allocate", "project"} => dirs[call.key].has # "absent"

\* A key that had a record has an id.
Numbered == \A k \in StorageKeys : file[k].state # "none" => file[k].projid \in Ids

\* The id on a directory is one the registry holds for its key.
OnDisk == \A k \in StorageKeys : dirs[k].projid # 0 => dirs[k].projid \in Held(file[k])

\* So is the id a call works with, once it has one.
WithId == {"project", "limit", "fill", "sync", "complete", "rm", "clear", "release"}
InHand ==
    /\ call.at \in WithId /\ call.id # 0 => call.id \in Held(file[call.key])
    /\ call.at \in {"project", "limit"} => call.id # 0

\* And so is every id that was ever charged.
OnAccount == \A i \in Ids, k \in StorageKeys : <<i, k>> \in charged => i \in Held(file[k])

Registered == Distinct(file) /\ Numbered /\ OnDisk /\ InHand /\ OnAccount

IInv ==
    /\ TypeOK
    /\ AccountsApart
    /\ GoneIsClean
    /\ Placed
    /\ file # NoFile => Registered
    /\ file = NoFile => charged = {}

\* What a step has to keep of the registry: the ids that a key holds stay
\* held, and new ones were free.
Extends(f, g) ==
    /\ \A k \in StorageKeys : Held(f[k]) \subseteq Held(g[k])
    /\ Distinct(g)
    /\ \A k \in StorageKeys : g[k].state # "none" => g[k].projid \in Ids

-----------------------------------------------------------------------------
(* The operators of ProjectRegistry.                                       *)

\* Ids are numbers, and 0 is none of them.
LEMMA IdsAreNumbers == Ids \subseteq Int /\ 0 \notin Ids
  BY RegistryAssumption DEF Ids

\* What a record of a well-typed file holds are ids, if it is numbered.
LEMMA HeldTyped ==
  ASSUME NEW r \in Records, r.state # "none" => r.projid \in Ids
  PROVE  Held(r) \subseteq Ids
  BY DEF Held, Records

\* Allocating a free id keeps the file well-typed, and the ids distinct.
LEMMA AllocateExtends ==
  ASSUME NEW f \in Files, NEW k \in StorageKeys, NEW i \in LowestFree(f),
         Distinct(f), \A l \in StorageKeys : f[l].state # "none" => f[l].projid \in Ids
  PROVE  /\ Allocate(f, k, i) \in Files
         /\ Extends(f, Allocate(f, k, i))
         /\ i \in Held(Allocate(f, k, i)[k])
         /\ i \in Ids
<1> DEFINE g == Allocate(f, k, i)
<1>1. i \in Ids /\ \A l \in StorageKeys : i \notin Held(f[l])
  BY DEF LowestFree, FreeIds, Taken
<1>2. \A l \in StorageKeys : f[l] \in Records /\ Held(f[l]) \subseteq Ids
  BY HeldTyped DEF Files
<1>3. g[k] = [state |-> "pending", projid |-> i, retired |-> Held(f[k])]
  BY DEF Allocate, Files
<1>4. \A l \in StorageKeys \ {k} : g[l] = f[l]
  BY DEF Allocate, Files
<1>5. g \in Files
  <2>1. g[k] \in Records
    BY <1>1, <1>2, <1>3 DEF Records
  <2>2. g = [f EXCEPT ![k] = g[k]]
    BY <1>3 DEF Allocate
  <2> QED BY <2>1, <2>2 DEF Files
<1>6. Held(g[k]) = {i} \cup Held(f[k])
  BY <1>3 DEF Held
<1>7. Distinct(g)
  <2> SUFFICES ASSUME NEW l \in StorageKeys
               PROVE  /\ g[l].state # "none" => g[l].projid \notin g[l].retired
                      /\ \A m \in StorageKeys \ {l} : Held(g[l]) \cap Held(g[m]) = {}
    BY DEF Distinct
  <2>1. g[l].state # "none" => g[l].projid \notin g[l].retired
    <3>1. CASE l = k BY <3>1, <1>1, <1>3
    <3>2. CASE l # k BY <3>2, <1>4 DEF Distinct
    <3> QED BY <3>1, <3>2
  <2>2. ASSUME NEW m \in StorageKeys \ {l} PROVE Held(g[l]) \cap Held(g[m]) = {}
    <3>1. Held(f[l]) \cap Held(f[m]) = {}
      BY <2>2 DEF Distinct
    <3>2. CASE l = k BY <3>1, <3>2, <2>2, <1>1, <1>4, <1>6
    <3>3. CASE m = k BY <3>1, <3>3, <2>2, <1>1, <1>4, <1>6
    <3>4. CASE l # k /\ m # k BY <3>1, <3>4, <2>2, <1>4
    <3> QED BY <3>2, <3>3, <3>4
  <2> QED BY <2>1, <2>2
<1>8. \A l \in StorageKeys : Held(f[l]) \subseteq Held(g[l])
  BY <1>4, <1>6
<1>9. \A l \in StorageKeys : g[l].state # "none" => g[l].projid \in Ids
  BY <1>1, <1>3, <1>4
<1> QED BY <1>1, <1>5, <1>6, <1>7, <1>8, <1>9 DEF Extends

\* Confirming or releasing an active record changes no id.
LEMMA MarkExtends ==
  ASSUME NEW f \in Files, NEW k \in StorageKeys, NEW g,
         \/ Active(f[k]) /\ g = Complete(f, k)
         \/ g = Release(f, k),
         Distinct(f), \A l \in StorageKeys : f[l].state # "none" => f[l].projid \in Ids
  PROVE  g \in Files /\ Extends(f, g)
<1>1. CASE g = f
  BY <1>1 DEF Extends
<1>2. CASE Active(f[k]) /\ \E s \in {"done", "released"} : g = [f EXCEPT ![k].state = s]
  <2> PICK s \in {"done", "released"} : g = [f EXCEPT ![k].state = s]
    BY <1>2
  <2>1. f[k] \in Records /\ f[k].state # "none"
    BY <1>2 DEF Active, Files
  <2>2. /\ g[k] \in Records /\ g[k].state # "none"
        /\ g[k].projid = f[k].projid /\ g[k].retired = f[k].retired
    BY <2>1 DEF Files, Records
  <2>3. \A l \in StorageKeys \ {k} : g[l] = f[l]
    BY DEF Files
  <2>4. g \in Files
    BY <2>1, <2>2 DEF Files, Records
  <2>5. \A l \in StorageKeys : Held(g[l]) = Held(f[l])
    BY <2>1, <2>2, <2>3 DEF Held
  <2>6. \A l \in StorageKeys : g[l].state # "none" =>
            f[l].state # "none" /\ g[l].projid = f[l].projid /\ g[l].retired = f[l].retired
    BY <2>1, <2>2, <2>3
  <2> QED BY <2>4, <2>5, <2>6 DEF Extends, Distinct
<1> QED BY <1>1, <1>2 DEF Complete, Release

-----------------------------------------------------------------------------
(* The shapes of steps.                                                    *)

\* A call under way is one of Calling, and the next call of a plan is one
\* that may be asked.
LEMMA CallTyped ==
  ASSUME TypeOK
  PROVE  /\ call.at \notin Ends => call \in Calling
         /\ plan # <<>> => plan[1] \in CallsAsked /\ Tail(plan) \in Seq(CallsAsked)
<1>1. call.at \notin Ends => call \in Calling
  BY DEF TypeOK, NoCall
<1>2. plan # <<>> => plan[1] \in CallsAsked /\ Tail(plan) \in Seq(CallsAsked)
  BY DEF TypeOK
<1> QED BY <1>1, <1>2

\* The end of a call keeps the types of call and plan.
LEMMA EndTyped ==
  ASSUME TypeOK, NEW good \in BOOLEAN, End(good)
  PROVE  /\ call' \in {NoCall(end) : end \in Ends}
         /\ call'.at \in Ends /\ ~call'.asked
         /\ plan' \in Seq(CallsAsked)
<1>1. call' \in {NoCall(end) : end \in Ends} /\ call'.at \in Ends /\ ~call'.asked
  BY DEF End, NoCall, Ends
<1>2. plan' \in Seq(CallsAsked)
  BY CallTyped DEF End, TypeOK
<1> QED BY <1>1, <1>2

\* What a step must say of the registry, the disk, its call and the accounts
\* to keep the invariant.
LEMMA StepKeeps ==
  ASSUME IInv, TypeOK', file # NoFile, file' # NoFile,
         Extends(file, file'),
         GoneIsClean', Placed',
         \A k \in StorageKeys : dirs'[k].projid # 0 => dirs'[k].projid \in Held(file'[k]),
         InHand',
         \A i \in Ids, k \in StorageKeys : <<i, k>> \in charged' =>
             <<i, k>> \in charged \/ i \in Held(file'[k])
  PROVE  IInv'
<1>1. Registered'
  <2>1. OnAccount'
    BY DEF IInv, Registered, OnAccount, Extends
  <2> QED BY <2>1 DEF Registered, Extends, Numbered, OnDisk, InHand
<1>2. AccountsApart'
  BY <1>1 DEF AccountsApart, Registered, Distinct, OnDisk
<1> QED BY <1>1, <1>2 DEF IInv

\* A step that leaves the registry and the disk alone, and no call with an id.
LEMMA IdleKeeps ==
  ASSUME IInv, TypeOK', UNCHANGED <<file, dirs, charged>>,
         call'.at \in WithId \cup {"allocate"} => call' = call
  PROVE  IInv'
  BY DEF WithId, Placed, IInv, Registered, AccountsApart, Present, GoneIsClean, Numbered, OnDisk, InHand, OnAccount

\* A step that leaves every directory on its project.
LEMMA HasKeeps ==
  ASSUME IInv, TypeOK', file # NoFile, UNCHANGED <<file, charged>>, Placed',
         \A k \in StorageKeys : /\ dirs'[k].projid = dirs[k].projid
                                /\ dirs'[k].has = "absent" => dirs[k].has = "absent",
         call'.at \in WithId =>
             call.at \in WithId /\ call'.id = call.id /\ call'.key = call.key,
         call'.at \notin {"project", "limit"}
  PROVE  IInv'
<1>1. Extends(file, file)
  BY DEF IInv, Registered, Numbered, Extends
<1>2. GoneIsClean' /\ \A k \in StorageKeys : dirs'[k].projid # 0 => dirs'[k].projid \in Held(file'[k])
  BY DEF IInv, GoneIsClean, Registered, OnDisk
<1>3. InHand'
  BY DEF IInv, Registered, InHand
<1> QED BY <1>1, <1>2, <1>3, StepKeeps

\* A step that changes only records, and leaves no call with an id.
LEMMA FileKeeps ==
  ASSUME IInv, TypeOK', file # NoFile, file' # NoFile, UNCHANGED <<dirs, charged>>,
         Extends(file, file'), call'.at \notin WithId \cup {"allocate"}
  PROVE  IInv'
<1>1. GoneIsClean' /\ Placed' /\ \A k \in StorageKeys : dirs'[k].projid # 0 => dirs'[k].projid \in Held(file'[k])
  BY DEF IInv, GoneIsClean, Placed, WithId, Registered, OnDisk, Extends
<1>2. InHand'
  BY DEF InHand, WithId
<1> QED BY <1>1, <1>2, StepKeeps

Dirs == [StorageKeys -> [has : Contents, projid : Ids \cup {0}]]

\* Changing what a directory has leaves the rest.
LEMMA HasSet ==
  ASSUME dirs \in Dirs, NEW k \in StorageKeys, NEW h \in Contents \ {"absent"},
         dirs' = [dirs EXCEPT ![k].has = h]
  PROVE  /\ dirs' \in Dirs /\ dirs'[k].has = h
         /\ \A l \in StorageKeys : /\ dirs'[l].projid = dirs[l].projid
                                   /\ dirs'[l].has = "absent" => dirs[l].has = "absent"
         /\ \A l \in StorageKeys \ {k} : dirs'[l] = dirs[l]
  BY DEF Dirs

\* Putting a directory on a project leaves the rest.
LEMMA ProjectSet ==
  ASSUME dirs \in Dirs, NEW k \in StorageKeys, NEW i \in Ids,
         dirs' = [dirs EXCEPT ![k].projid = i]
  PROVE  /\ dirs' \in Dirs /\ dirs'[k].projid = i /\ dirs'[k].has = dirs[k].has
         /\ \A l \in StorageKeys \ {k} : dirs'[l] = dirs[l]
  BY DEF Dirs

\* The registry as it is extends itself.
LEMMA SameExtends ==
  ASSUME IInv, file # NoFile
  PROVE  Extends(file, file)
  BY DEF IInv, Registered, Numbered, Extends

-----------------------------------------------------------------------------
(* The steps of a call, whole or halfway.                                  *)

LEMMA WorkHolds ==
  ASSUME IInv, Work
  PROVE  IInv'
<1>1. /\ TypeOK /\ up /\ file # NoFile /\ file \in Files /\ call.at \notin Ends /\ call \in Calling
      /\ Registered /\ Extends(file, file)
  BY CallTyped, SameExtends
     DEF IInv, TypeOK, Work, At, Ends, EnsureStorage, MakeDirectory, AllocateProject, SetProject, SetLimit,
         FillCopy, SyncData, CompleteProject, LookUp, RemoveDirectory, ClearProject, ReleaseProject
<1>2. call.key \in StorageKeys /\ call.from \in StorageKeys /\ call.id \in Ids \cup {0} /\ dirs \in Dirs
  BY <1>1 DEF Calling, TypeOK, Dirs
<1>3. ASSUME NEW place \in Places \ Ends, Go(place)
      PROVE  /\ call' \in Calling /\ call'.at = place /\ call'.id = call.id /\ call'.key = call.key
             /\ plan' = plan /\ (call'.asked => plan' # <<>> /\ plan'[1].do = call'.do)
  BY <1>1, <1>3 DEF Go, Calling, TypeOK
<1>4. ASSUME NEW good \in BOOLEAN, End(good)
      PROVE  /\ call' \in {NoCall(end) : end \in Ends} /\ call'.at \in Ends /\ plan' \in Seq(CallsAsked)
             /\ call'.asked => plan' # <<>> /\ plan'[1].do = call'.do
  BY <1>1, <1>4, EndTyped
<1>5. WithId \cap Ends = {} /\ WithId \subseteq Places
  BY DEF WithId, Ends, Places
<1>6. ASSUME Same PROVE up' = up /\ litter' = litter /\ made' = made /\ charged' = charged /\ faults' = faults
  BY <1>6 DEF Same
<1>7. CASE EnsureStorage
  <2>1. /\ call' \in Calling \cup {NoCall(end) : end \in Ends}
        /\ call'.at \notin WithId \cup {"allocate"}
        /\ plan' \in Seq(CallsAsked) /\ (call'.asked => plan' # <<>> /\ plan'[1].do = call'.do)
    <3>1. CASE Go("mkdir") BY <3>1, <1>1, <1>3 DEF Places, Ends, WithId, TypeOK
    <3>2. CASE End(FALSE) BY <3>2, <1>4, <1>5 DEF Ends
    <3> QED BY <1>7, <3>1, <3>2 DEF EnsureStorage
  <2>2. TypeOK'
    BY <1>1, <1>6, <1>7, <2>1 DEF EnsureStorage, TypeOK
  <2> QED BY <2>1, <2>2, <1>6, <1>7, IdleKeeps DEF EnsureStorage
<1>8. CASE MakeDirectory
  <2>1. CASE Present(call.key)
    <3>1. End(FALSE) /\ UNCHANGED <<file, dirs, limited>> /\ Same
      BY <1>8, <2>1 DEF MakeDirectory
    <3>2. TypeOK' /\ call'.at \notin WithId \cup {"allocate"}
      BY <1>1, <1>4, <1>5, <1>6, <3>1 DEF TypeOK, Ends
    <3> QED BY <1>6, <3>1, <3>2, IdleKeeps
  <2>2. CASE ~Present(call.key)
    <3>1. /\ Go("allocate") /\ dirs' = [dirs EXCEPT ![call.key].has = "bare"]
          /\ UNCHANGED <<file, limited>> /\ Same
      BY <1>8, <2>2 DEF MakeDirectory
    <3>2. /\ dirs' \in Dirs /\ dirs'[call.key].has = "bare"
          /\ \A k \in StorageKeys : dirs'[k].projid = dirs[k].projid
          /\ \A k \in StorageKeys \ {call.key} : dirs'[k] = dirs[k]
      BY <1>2, <3>1, HasSet DEF Contents
    <3>3. /\ call' \in Calling /\ call'.at = "allocate" /\ call'.key = call.key
          /\ plan' = plan /\ (call'.asked => plan' # <<>> /\ plan'[1].do = call'.do)
      BY <1>3, <3>1 DEF Places, Ends
    <3>4. TypeOK'
      BY <1>1, <1>6, <3>1, <3>2, <3>3 DEF TypeOK, Dirs
    <3> QED BY <1>1, <1>6, <3>1, <3>2, <3>3, <3>4, HasKeeps DEF Placed, WithId
  <2> QED BY <2>1, <2>2
<1>9. CASE AllocateProject
  <2>1. CASE End(FALSE) /\ UNCHANGED file
    <3>1. TypeOK' /\ call'.at \notin WithId \cup {"allocate"}
      BY <1>1, <1>4, <1>5, <1>6, <1>9, <2>1 DEF AllocateProject, TypeOK, Ends
    <3> QED BY <3>1, <2>1, <1>6, <1>9, IdleKeeps DEF AllocateProject
  <2>2. ASSUME NEW i \in LowestFree(file),
               file' = Allocate(file, call.key, i),
               call' = [call EXCEPT !.at = "project", !.id = i],
               UNCHANGED plan
        PROVE  IInv'
    <3>1. file' \in Files /\ Extends(file, file') /\ i \in Held(file'[call.key]) /\ i \in Ids
      BY <1>1, <1>2, <2>2, AllocateExtends DEF Registered, Numbered
    <3>2. /\ call' \in Calling /\ call'.key = call.key /\ call'.id = i /\ call'.at \notin Ends
          /\ (call'.asked => plan' # <<>> /\ plan'[1].do = call'.do)
      BY <1>1, <2>2, <3>1 DEF Calling, Places, Ends, TypeOK
    <3>3. UNCHANGED <<dirs, limited, up, litter, made, charged, faults>>
      BY <1>6, <1>9 DEF AllocateProject
    <3>4. TypeOK' /\ file' # NoFile
      BY <1>1, <2>2, <3>1, <3>2, <3>3, StorageAssumption DEF TypeOK
    <3>5. GoneIsClean' /\ Placed' /\ \A k \in StorageKeys : dirs'[k].projid # 0 => dirs'[k].projid \in Held(file'[k])
      BY <1>1, <1>9, <3>1, <3>2, <3>3 DEF IInv, GoneIsClean, Placed, Registered, OnDisk, Extends, AllocateProject, At
    <3>6. InHand'
      BY <2>2, <3>1, <3>2, IdsAreNumbers DEF InHand
    <3> QED BY <1>1, <3>1, <3>2, <3>3, <3>4, <3>5, <3>6, StepKeeps
  <2> QED BY <1>9, <2>1, <2>2 DEF AllocateProject
<1>10. CASE SetProject
  <2>1. /\ call' \in Calling /\ call'.at = "limit" /\ call'.id = call.id /\ call'.key = call.key /\ plan' = plan
        /\ (call'.asked => plan' # <<>> /\ plan'[1].do = call'.do)
    BY <1>3, <1>10 DEF SetProject, Places, Ends
  <2>2. call.id \in Held(file[call.key]) /\ call.id # 0 /\ call.id \in Ids
    BY <1>1, <1>2, <1>10 DEF SetProject, At, Registered, InHand, WithId
  <2>3. /\ dirs' \in Dirs /\ dirs'[call.key].projid = call.id
        /\ \A k \in StorageKeys \ {call.key} : dirs'[k] = dirs[k]
        /\ dirs'[call.key].has = dirs[call.key].has
    BY <1>2, <1>10, <2>2, ProjectSet DEF SetProject
  <2>4. /\ charged' = charged \cup {<<call.id, call.key>>}
        /\ UNCHANGED <<up, file, litter, limited, made, faults>>
    BY <1>10 DEF SetProject
  <2>5. TypeOK'
    BY <1>1, <1>2, <2>1, <2>2, <2>3, <2>4 DEF TypeOK, Ends, Dirs
  <2>6. dirs[call.key].has # "absent"
    BY <1>1, <1>10 DEF SetProject, IInv, Placed, At
  <2>7. GoneIsClean' /\ Placed' /\ \A k \in StorageKeys : dirs'[k].projid # 0 => dirs'[k].projid \in Held(file'[k])
    BY <1>1, <1>2, <2>1, <2>2, <2>3, <2>4, <2>6 DEF IInv, GoneIsClean, Placed, Registered, OnDisk
  <2>8. \A i \in Ids, k \in StorageKeys : <<i, k>> \in charged' => <<i, k>> \in charged \/ i \in Held(file'[k])
    BY <2>2, <2>4
  <2>9. InHand'
    BY <2>1, <2>2, <2>4 DEF InHand
  <2> QED BY <1>1, <2>4, <2>5, <2>7, <2>8, <2>9, StepKeeps
<1>11. CASE SetLimit
  <2>1. /\ call' \in Calling /\ call'.at \in {"sync", "fill"}
        /\ call'.id = call.id /\ call'.key = call.key /\ plan' = plan
        /\ (call'.asked => plan' # <<>> /\ plan'[1].do = call'.do)
    BY <1>3, <1>11 DEF SetLimit, Places, Ends
  <2>2. /\ dirs' \in Dirs
        /\ \A k \in StorageKeys : dirs'[k].projid = dirs[k].projid
        /\ \A k \in StorageKeys : dirs'[k].has = "absent" => dirs[k].has = "absent"
    <3>1. CASE dirs' = dirs BY <1>2, <3>1
    <3>2. CASE dirs' = [dirs EXCEPT ![call.key].has = "whole"]
      BY <1>2, <3>2, HasSet DEF Contents
    <3> QED BY <1>11, <3>1, <3>2 DEF SetLimit
  <2>3. call.at = "limit" /\ call.id \in Ids
    BY <1>1, <1>2, <1>11 DEF SetLimit, At, Registered, InHand, WithId
  <2>4. TypeOK'
    BY <1>1, <1>6, <1>11, <2>1, <2>2, <2>3 DEF SetLimit, TypeOK, Dirs
  <2> QED BY <1>1, <1>6, <1>11, <2>1, <2>2, <2>3, <2>4, HasKeeps DEF SetLimit, Placed, WithId
<1>12. CASE FillCopy
  <2>1. /\ call' \in Calling /\ call'.at = "sync" /\ call'.id = call.id /\ call'.key = call.key /\ plan' = plan
        /\ (call'.asked => plan' # <<>> /\ plan'[1].do = call'.do)
    BY <1>3, <1>12 DEF FillCopy, Places, Ends
  <2>2. /\ dirs' \in Dirs
        /\ \A k \in StorageKeys : dirs'[k].projid = dirs[k].projid
        /\ \A k \in StorageKeys : dirs'[k].has = "absent" => dirs[k].has = "absent"
    BY <1>2, <1>12, HasSet DEF FillCopy, Contents
  <2>3. TypeOK'
    BY <1>1, <1>6, <1>12, <2>1, <2>2 DEF FillCopy, TypeOK, Dirs
  <2> QED BY <1>1, <1>6, <1>12, <2>1, <2>2, <2>3, HasKeeps DEF FillCopy, At, Placed, WithId
<1>13. CASE SyncData
  <2>1. /\ call' \in Calling /\ call'.at = "complete" /\ call'.id = call.id /\ call'.key = call.key /\ plan' = plan
        /\ (call'.asked => plan' # <<>> /\ plan'[1].do = call'.do)
    BY <1>3, <1>13 DEF SyncData, Places, Ends
  <2>2. /\ dirs' \in Dirs
        /\ \A k \in StorageKeys : dirs'[k].projid = dirs[k].projid
        /\ \A k \in StorageKeys : dirs'[k].has = "absent" => dirs[k].has = "absent"
    <3>1. PICK h \in Contents \ {"absent"} : dirs' = [dirs EXCEPT ![call.key].has = h]
      <4>1. CASE call.do = "copy" /\ dirs[call.from].has # "whole"
        BY <1>13, <4>1, "torn" \in Contents \ {"absent"} DEF SyncData, Contents
      <4>2. CASE ~(call.do = "copy" /\ dirs[call.from].has # "whole")
        BY <1>13, <4>2, "whole" \in Contents \ {"absent"} DEF SyncData, Contents
      <4> QED BY <4>1, <4>2
    <3> QED BY <1>2, <3>1, HasSet
  <2>3. TypeOK'
    BY <1>1, <1>6, <1>13, <2>1, <2>2 DEF SyncData, TypeOK, Dirs
  <2> QED
    BY <1>1, <1>6, <1>13, <2>1, <2>2, <2>3, HasKeeps DEF SyncData, At, Placed, WithId
<1>14. CASE CompleteProject
  <2>1. CASE file' = Complete(file, call.key) /\ Active(file[call.key]) /\ End(TRUE)
    <3>1. file' \in Files /\ Extends(file, file') /\ file' # NoFile
      BY <1>1, <1>2, <2>1, MarkExtends, StorageAssumption DEF Registered, Numbered
    <3>2. UNCHANGED <<dirs, limited>> /\ Same
      BY <1>14 DEF CompleteProject
    <3>3. TypeOK'
      BY <1>1, <1>4, <1>6, <2>1, <3>1, <3>2 DEF TypeOK
    <3>4. call'.at \notin WithId \cup {"allocate"}
      BY <1>4, <1>5, <2>1 DEF Ends
    <3> QED BY <1>1, <1>6, <3>1, <3>2, <3>3, <3>4, FileKeeps
  <2>2. CASE file' = file /\ (Go("look") \/ End(FALSE))
    <3>1. call' \in Calling \cup {NoCall(end) : end \in Ends} /\ call'.at \notin WithId \cup {"allocate"} /\ plan' \in Seq(CallsAsked)
          /\ (call'.asked => plan' # <<>> /\ plan'[1].do = call'.do)
      <4>1. CASE Go("look") BY <4>1, <1>1, <1>3 DEF Places, Ends, WithId, TypeOK
      <4>2. CASE End(FALSE) BY <4>2, <1>4, <1>5 DEF Ends
      <4> QED BY <2>2, <4>1, <4>2
    <3>2. TypeOK'
      BY <1>1, <1>6, <1>14, <2>2, <3>1 DEF CompleteProject, TypeOK
    <3> QED BY <1>6, <1>14, <2>2, <3>1, <3>2, IdleKeeps DEF CompleteProject
  <2> QED BY <1>14, <2>1, <2>2 DEF CompleteProject
<1>15. CASE LookUp
  <2> DEFINE i == IF Active(file[call.key]) THEN file[call.key].projid ELSE 0
  <2>1. i \in Ids \cup {0} /\ (i # 0 => i \in Held(file[call.key]))
    BY <1>1, <1>2 DEF Registered, Numbered, Active, Held
  <2>2. /\ call' \in Calling /\ call'.at = "rm" /\ call'.id = i /\ call'.key = call.key
        /\ plan' = plan /\ (call'.asked => plan' # <<>> /\ plan'[1].do = call'.do)
    <3>1. call' = [call EXCEPT !.at = "rm", !.id = i] /\ plan' = plan
      BY <1>15 DEF LookUp
    <3> HIDE DEF i
    <3> QED BY <1>1, <2>1, <3>1 DEF Calling, Places, Ends, TypeOK
  <2> HIDE DEF i
  <2>3. TypeOK'
    BY <1>1, <1>6, <1>15, <2>2 DEF LookUp, TypeOK
  <2>4. InHand' /\ Placed'
    BY <1>15, <2>1, <2>2 DEF LookUp, InHand, Placed
  <2>5. GoneIsClean' /\ \A k \in StorageKeys : dirs'[k].projid # 0 => dirs'[k].projid \in Held(file'[k])
    BY <1>1, <1>15 DEF LookUp, IInv, GoneIsClean, Registered, OnDisk
  <2> QED BY <1>1, <1>6, <1>15, <2>3, <2>4, <2>5, StepKeeps DEF LookUp
<1>16. CASE RemoveDirectory
  <2>1. /\ dirs' \in Dirs /\ dirs'[call.key] = NoDir
        /\ \A k \in StorageKeys \ {call.key} : dirs'[k] = dirs[k]
    BY <1>2, <1>16 DEF RemoveDirectory, Dirs, NoDir, Contents
  <2>2. /\ call' \in Calling \cup {NoCall(end) : end \in Ends} /\ plan' \in Seq(CallsAsked)
        /\ (call'.asked => plan' # <<>> /\ plan'[1].do = call'.do)
    <3>1. CASE Go("clear") BY <3>1, <1>1, <1>3 DEF Places, Ends, TypeOK
    <3>2. CASE End(call.do = "remove") BY <3>2, <1>4
    <3> QED BY <1>16, <3>1, <3>2 DEF RemoveDirectory
  <2>3. TypeOK'
    BY <1>1, <1>6, <1>16, <2>1, <2>2 DEF RemoveDirectory, TypeOK, Dirs
  <2>4. \/ call'.at \in Ends
        \/ call'.at = "clear" /\ call'.id = call.id /\ call'.key = call.key
    <3>1. CASE call.id = 0
      <4>1. End(call.do = "remove")
        BY <1>16, <3>1 DEF RemoveDirectory
      <4>2. PICK end \in {"done", "failed"} : call' = NoCall(end)
        BY <4>1 DEF End
      <4> QED BY <4>2 DEF NoCall, Ends
    <3>2. CASE call.id # 0
      BY <1>3, <1>16, <3>2 DEF RemoveDirectory, Places, Ends
    <3> QED BY <3>1, <3>2
  <2>5. InHand'
    BY <1>1, <1>16, <2>4 DEF RemoveDirectory, InHand, Registered, WithId, Ends, At
  <2>6. Placed' /\ GoneIsClean' /\ \A k \in StorageKeys : dirs'[k].projid # 0 => dirs'[k].projid \in Held(file'[k])
    BY <1>1, <1>16, <2>1, <2>4 DEF RemoveDirectory, NoDir, Ends, IInv, GoneIsClean, Placed, Registered, OnDisk
  <2> QED BY <1>1, <1>6, <1>16, <2>3, <2>5, <2>6, StepKeeps DEF RemoveDirectory
<1>17. CASE ClearProject
  <2>1. /\ call' \in Calling /\ call'.at = "release" /\ call'.id = call.id /\ call'.key = call.key /\ plan' = plan
        /\ (call'.asked => plan' # <<>> /\ plan'[1].do = call'.do)
    BY <1>3, <1>17 DEF ClearProject, Places, Ends
  <2>2. TypeOK'
    BY <1>1, <1>6, <1>17, <2>1 DEF ClearProject, TypeOK
  <2> QED BY <1>1, <1>6, <1>17, <2>1, <2>2, HasKeeps DEF ClearProject, At, Placed, WithId
<1>18. CASE ReleaseProject
  <2>1. file' \in Files /\ Extends(file, file') /\ file' # NoFile
    BY <1>1, <1>2, <1>18, MarkExtends, StorageAssumption DEF ReleaseProject, Registered, Numbered
  <2>2. End(call.do = "remove") /\ UNCHANGED <<dirs, limited>> /\ Same
    BY <1>18 DEF ReleaseProject
  <2>3. TypeOK' /\ call'.at \notin WithId \cup {"allocate"}
    BY <1>1, <1>4, <1>5, <1>6, <2>1, <2>2 DEF TypeOK, Ends
  <2> QED BY <1>1, <1>6, <2>1, <2>2, <2>3, FileKeeps
<1> QED
  BY <1>7, <1>8, <1>9, <1>10, <1>11, <1>12, <1>13, <1>14, <1>15, <1>16, <1>17, <1>18 DEF Work
-----------------------------------------------------------------------------
(* Faults.                                                                 *)

\* What a step may leave halfway keeps the registry's ids, and puts no
\* directory on a project that the registry does not hold for it.
LEMMA HalfwaySound ==
  ASSUME IInv, up, Halfway
  PROVE  /\ file' \in Files /\ Extends(file, file')
         /\ dirs' \in Dirs /\ limited' \subseteq Ids
         /\ \A k \in StorageKeys : /\ dirs'[k].has = "absent" => dirs'[k].projid = 0
                                   /\ dirs'[k].projid # 0 => dirs'[k].projid \in Held(file'[k])
<1>1. /\ file # NoFile /\ file \in Files /\ Extends(file, file)
      /\ dirs \in Dirs /\ limited \subseteq Ids /\ Registered
  BY SameExtends DEF IInv, TypeOK, Dirs
<1>2. \A k \in StorageKeys : /\ dirs[k].has = "absent" => dirs[k].projid = 0
                             /\ dirs[k].projid # 0 => dirs[k].projid \in Held(file[k])
  BY <1>1 DEF IInv, GoneIsClean, Registered, OnDisk
<1>3. CASE UNCHANGED <<file, dirs, limited>>
  BY <1>1, <1>2, <1>3
<1>4. ASSUME call.at \notin Ends
      PROVE  call.key \in StorageKeys /\ call.id \in Ids \cup {0}
  BY <1>4, CallTyped DEF IInv, Calling
<1>5. ASSUME NEW g, Write(g), g \in Files, Extends(file, g)
      PROVE  /\ file' = g /\ dirs' = dirs /\ limited' = limited
             /\ \A k \in StorageKeys : dirs'[k].projid # 0 => dirs'[k].projid \in Held(file'[k])
  BY <1>2, <1>5 DEF Write, Extends
<1>6. ASSUME call.key \in StorageKeys, NEW has \in Contents \ {"absent"}, Hold(has)
      PROVE  /\ file' = file /\ limited' = limited /\ dirs' \in Dirs
             /\ \A k \in StorageKeys : /\ dirs'[k].projid = dirs[k].projid
                                       /\ dirs'[k].has = "absent" => dirs[k].has = "absent"
  BY <1>1, <1>6, HasSet DEF Hold
<1>7. CASE call.at = "allocate" /\ \E i \in LowestFree(file) : Write(Allocate(file, call.key, i))
  <2> PICK i \in LowestFree(file) : Write(Allocate(file, call.key, i))
    BY <1>7
  <2>1. call.key \in StorageKeys
    BY <1>4, <1>7 DEF Ends
  <2>2. Allocate(file, call.key, i) \in Files /\ Extends(file, Allocate(file, call.key, i))
    BY <1>1, <2>1, AllocateExtends DEF Registered, Numbered
  <2> QED BY <1>1, <1>2, <1>5, <2>2
<1>8. CASE /\ call.at = "project"
           /\ dirs' = [dirs EXCEPT ![call.key].projid = call.id]
           /\ UNCHANGED <<file, limited>>
  <2>1. call.key \in StorageKeys /\ call.id \in Held(file[call.key]) /\ call.id \in Ids /\ dirs[call.key].has # "absent"
    BY <1>1, <1>4, <1>8 DEF Registered, InHand, WithId, IInv, Placed, Ends
  <2>2. /\ dirs' \in Dirs /\ dirs'[call.key].projid = call.id
        /\ dirs'[call.key].has = dirs[call.key].has
        /\ \A k \in StorageKeys \ {call.key} : dirs'[k] = dirs[k]
    BY <1>1, <1>8, <2>1, ProjectSet
  <2> QED BY <1>1, <1>2, <1>8, <2>1, <2>2
<1>9. CASE call.at = "limit" /\ limited' = limited \cup {call.id} /\ UNCHANGED <<file, dirs>>
  <2>1. call.id \in Ids
    BY <1>1, <1>4, <1>9 DEF Registered, InHand, Ends
  <2> QED BY <1>1, <1>2, <1>9, <2>1
<1>10. CASE call.at = "fill" /\ Hold("part")
  BY <1>1, <1>2, <1>4, <1>6, <1>10, "part" \in Contents \ {"absent"} DEF Contents, Ends
<1>11. CASE call.at = "rm" /\ Hold("torn")
  BY <1>1, <1>2, <1>4, <1>6, <1>11, "torn" \in Contents \ {"absent"} DEF Contents, Ends
<1>12. CASE /\ call.at \in {"complete", "release"}
            /\ \/ Active(file[call.key]) /\ Write(Complete(file, call.key))
               \/ Write(Release(file, call.key))
  <2> PICK g : /\ Write(g)
               /\ \/ Active(file[call.key]) /\ g = Complete(file, call.key)
                  \/ g = Release(file, call.key)
    BY <1>12
  <2>1. g \in Files /\ Extends(file, g)
    BY <1>1, <1>4, <1>12, MarkExtends DEF Registered, Numbered, Ends
  <2> QED BY <1>1, <1>2, <1>5, <2>1
<1> QED BY <1>3, <1>7, <1>8, <1>9, <1>10, <1>11, <1>12 DEF Halfway

\* A step that is cut short, and leaves a call without an id or none.
LEMMA CutHolds ==
  ASSUME IInv, up, Cut, TypeOK', call'.at \notin WithId \cup {"allocate"}
  PROVE  IInv'
<1>1. file # NoFile /\ file' # NoFile
  BY HalfwaySound, StorageAssumption DEF Cut, IInv, TypeOK
<1>2. /\ Extends(file, file')
      /\ \A k \in StorageKeys : /\ dirs'[k].has = "absent" => dirs'[k].projid = 0
                                /\ dirs'[k].projid # 0 => dirs'[k].projid \in Held(file'[k])
  BY HalfwaySound DEF Cut
<1>3. GoneIsClean' /\ Placed' /\ InHand'
  BY <1>2 DEF GoneIsClean, Placed, InHand, WithId
<1>4. \A i \in Ids, k \in StorageKeys : <<i, k>> \in charged' =>
          <<i, k>> \in charged \/ i \in Held(file'[k])
  BY <1>2, IdsAreNumbers DEF Cut, Charges
<1> QED BY <1>1, <1>2, <1>3, <1>4, StepKeeps

\* The types of what Cut changes.
LEMMA CutTyped ==
  ASSUME IInv, up, Cut
  PROVE  /\ file' \in Files \cup {NoFile} /\ (up' => file' # NoFile)
         /\ dirs' \in [StorageKeys -> [has : Contents, projid : Ids \cup {0}]]
         /\ limited' \subseteq Ids
         /\ charged' \subseteq Ids \X StorageKeys
<1>1. file' \in Files /\ file' # NoFile /\ dirs' \in Dirs /\ limited' \subseteq Ids
  BY HalfwaySound, StorageAssumption DEF Cut
<1>2. Charges(dirs') \subseteq Ids \X StorageKeys
  BY <1>1 DEF Charges, Dirs
<1> QED BY <1>1, <1>2 DEF Cut, Dirs, IInv, TypeOK

\* A fault is counted within its bound.
LEMMA FaultTyped ==
  ASSUME TypeOK, NEW kind, Fault(kind)
  PROVE  faults' \in 0..MaxFaults
  BY StorageAssumption DEF Fault, TypeOK

LEMMA FaultsHold ==
  ASSUME IInv, StepFails \/ ClearFails \/ Crash \/ PowerFails \/ LoseRegistry
  PROVE  IInv'
<1>1. TypeOK /\ dirs \in Dirs
  BY DEF IInv, TypeOK, Dirs
<1>2. CASE StepFails
  <2>1. call \in Calling
    BY <1>1, <1>2, CallTyped DEF StepFails
  <2>2. /\ call' \in Calling \cup {NoCall(end) : end \in Ends}
        /\ call'.at \notin WithId \cup {"allocate"} /\ (~up' => call'.at \in Ends)
        /\ plan' \in Seq(CallsAsked) /\ (call'.asked => plan' # <<>> /\ plan'[1].do = call'.do)
    <3>1. CASE Go("look") /\ up' = up
      BY <1>1, <1>2, <2>1, <3>1 DEF StepFails, Go, Calling, Places, Ends, WithId, TypeOK
    <3>2. CASE End(FALSE)
      BY <1>1, <3>2, EndTyped DEF Ends, WithId
    <3> QED BY <1>2, <3>1, <3>2 DEF StepFails
  <2>3. up /\ Cut /\ UNCHANGED <<up, litter, made>> /\ faults' \in 0..MaxFaults
    BY <1>1, <1>2, FaultTyped DEF StepFails
  <2>4. TypeOK'
    BY <1>1, <2>2, <2>3, CutTyped DEF TypeOK
  <2> QED BY <2>2, <2>3, <2>4, CutHolds
<1>3. CASE ClearFails
  <2>1. call \in Calling /\ call.at = "clear"
    BY <1>1, <1>3, CallTyped DEF ClearFails, At, Ends
  <2>2. /\ call' \in Calling /\ call'.at = "release" /\ call'.id = call.id /\ call'.key = call.key
        /\ plan' = plan /\ (call'.asked => plan' # <<>> /\ plan'[1].do = call'.do)
    BY <1>1, <1>3, <2>1 DEF ClearFails, Go, Calling, Places, Ends, TypeOK
  <2>3. UNCHANGED <<up, file, litter, dirs, limited, made, charged>> /\ up /\ faults' \in 0..MaxFaults
    BY <1>1, <1>3, FaultTyped DEF ClearFails, At, pool
  <2>4. TypeOK'
    BY <1>1, <2>2, <2>3 DEF TypeOK
  <2>5. file # NoFile
    BY <1>1, <2>3 DEF TypeOK
  <2> QED BY <2>1, <2>2, <2>3, <2>4, <2>5, HasKeeps DEF Placed, WithId
<1>4. ASSUME Down
      PROVE  /\ call' \in {NoCall(end) : end \in Ends} /\ call'.at \in Ends
             /\ call'.at \notin WithId \cup {"allocate"} /\ ~call'.asked
             /\ plan' \in Seq(CallsAsked) /\ up' = FALSE /\ made' = made
  BY <1>4 DEF Down, NoCall, Ends, WithId
<1>5. CASE Crash
  <2>1. up /\ Cut /\ Down /\ litter' \in BOOLEAN /\ faults' \in 0..MaxFaults
    BY <1>1, <1>5, FaultTyped DEF Crash, TypeOK
  <2>2. TypeOK'
    BY <1>1, <1>4, <2>1, CutTyped DEF TypeOK
  <2> QED BY <1>4, <2>1, <2>2, CutHolds
<1>6. CASE PowerFails
  <2>1. up /\ file # NoFile /\ Down /\ UNCHANGED <<file, limited, litter, charged>> /\ faults' \in 0..MaxFaults
    BY <1>1, <1>6, FaultTyped DEF PowerFails, TypeOK
  <2>2. /\ dirs' \in Dirs
        /\ \A k \in StorageKeys : /\ dirs'[k].projid = dirs[k].projid
                                  /\ dirs'[k].has = "absent" => dirs[k].has = "absent"
    BY <1>1, <1>6 DEF PowerFails, Dirs, Contents
  <2>3. TypeOK'
    BY <1>1, <1>4, <2>1, <2>2 DEF TypeOK, Dirs
  <2>4. Placed'
    BY <1>4, <2>1 DEF Placed, WithId, Ends
  <2> QED BY <1>4, <2>1, <2>2, <2>3, <2>4, HasKeeps DEF WithId, Ends
<1>7. CASE LoseRegistry
  <2>1. /\ ~up /\ file' = NoFile /\ charged' = {} /\ faults' \in 0..MaxFaults
        /\ UNCHANGED <<up, litter, dirs, limited, call, plan, made>>
    BY <1>1, <1>7, FaultTyped DEF LoseRegistry
  <2>2. TypeOK'
    BY <1>1, <2>1 DEF TypeOK
  <2> QED BY <2>1, <2>2 DEF IInv, AccountsApart, Present, GoneIsClean, Placed
<1> QED BY <1>2, <1>3, <1>5, <1>6, <1>7

-----------------------------------------------------------------------------
(* The control plane, and the agent's start.                               *)

\* The plans are sequences of calls that may be asked.
LEMMA PlansTyped ==
  ASSUME NEW s \in Spaces
  PROVE  {CreatePlan(s), SnapshotPlan(s), RestorePlan(s), DestroyPlan(s)} \subseteq Seq(CallsAsked)
<1>1. \A kind \in {"live", "prev", "recovery"} : Key(s, kind) \in StorageKeys
  BY StorageAssumption DEF Key
<1>2. \A k, l \in StorageKeys : {Create(k), Remove(k), Copy(k, l), Ensure(k)} \subseteq CallsAsked
  BY DEF Create, Remove, Copy, Ensure, CallsAsked
<1>3. /\ Create(Key(s, "live")) \in CallsAsked
      /\ \A kind \in {"live", "prev", "recovery"} :
            Remove(Key(s, kind)) \in CallsAsked /\ Ensure(Key(s, kind)) \in CallsAsked
      /\ \A a, b \in {"live", "prev", "recovery"} : Copy(Key(s, a), Key(s, b)) \in CallsAsked
  BY <1>1, <1>2
<1>4. CreatePlan(s) \in Seq(CallsAsked)
  BY <1>3 DEF CreatePlan
<1>5. SnapshotPlan(s) \in Seq(CallsAsked)
  BY <1>3 DEF SnapshotPlan
<1>6. RestorePlan(s) \in Seq(CallsAsked)
  BY <1>3 DEF RestorePlan
<1>7. DestroyPlan(s) \in Seq(CallsAsked)
  BY <1>3 DEF DestroyPlan
<1> QED BY <1>4, <1>5, <1>6, <1>7

LEMMA ControlHolds ==
  ASSUME IInv, (\E s \in Spaces : AskForData(s) \/ AskForPlan(s)) \/ GiveUp \/ Check \/ Receive
  PROVE  IInv'
<1>1. TypeOK
  BY DEF IInv
<1>2. ASSUME NEW p, Begin(p)
      PROVE  plan' = p /\ UNCHANGED <<up, pool, call, charged, faults>> /\ plan = <<>>
  BY <1>2 DEF Begin
<1>3. ASSUME NEW s \in Spaces, AskForData(s) \/ AskForPlan(s)
      PROVE  IInv'
  <2>1. PICK p \in {CreatePlan(s), SnapshotPlan(s), RestorePlan(s), DestroyPlan(s)} : Begin(p)
    BY <1>3 DEF AskForData, AskForPlan
  <2>2. /\ plan' \in Seq(CallsAsked) /\ UNCHANGED <<up, pool, call, charged, faults>>
        /\ made' \subseteq Spaces /\ ~call.asked
    BY <1>1, <1>2, <1>3, <2>1, PlansTyped DEF AskForData, AskForPlan, TypeOK
  <2>3. TypeOK'
    BY <1>1, <2>2 DEF pool, TypeOK
  <2> QED BY <2>2, <2>3, IdleKeeps DEF pool
<1>4. CASE GiveUp
  <2>1. /\ plan' = <<>> /\ call' = [call EXCEPT !.asked = FALSE]
        /\ UNCHANGED <<up, pool, made, charged>> /\ faults' \in 0..MaxFaults
    BY <1>1, <1>4, FaultTyped DEF GiveUp
  <2>2. /\ call' \in Calling \cup {NoCall(end) : end \in Ends} /\ ~call'.asked
        /\ call'.at = call.at /\ call'.id = call.id /\ call'.key = call.key
    <3>1. CASE call \in Calling
      BY <2>1, <3>1 DEF Calling
    <3>2. CASE \E end \in Ends : call = NoCall(end)
      <4> DEFINE Resting == [do : {"nothing"}, at : Ends, key : {<<>>}, from : {<<>>},
                             id : {0}, asked : {FALSE}]
      <4>1. \A end \in Ends : NoCall(end) \in Resting
        BY DEF NoCall
      <4>2. /\ \A end \in Ends : NoCall(end).at = end
            /\ \A c \in Resting : c.at \in Ends /\ ~c.asked
        <5>1. \A end \in Ends : NoCall(end).at = end
          BY DEF NoCall
        <5>2. \A c \in Resting : c.at \in Ends /\ ~c.asked
          OBVIOUS
        <5> QED BY <5>1, <5>2
      <4>4. ASSUME NEW c \in Resting, NEW d \in Resting, c.at = d.at
            PROVE  c = d
        <5>1. c.do = d.do /\ c.key = d.key /\ c.from = d.from /\ c.id = d.id /\ c.asked = d.asked
          OBVIOUS
        <5>2. /\ DOMAIN c = {"do", "at", "key", "from", "id", "asked"}
              /\ DOMAIN d = {"do", "at", "key", "from", "id", "asked"}
          OBVIOUS
        <5>3. c = [x \in DOMAIN c |-> c[x]] /\ d = [x \in DOMAIN d |-> d[x]]
          OBVIOUS
        <5>4. \A x \in DOMAIN c : c[x] = d[x]
          BY <4>4, <5>1, <5>2
        <5> HIDE DEF Resting
        <5> QED BY <5>2, <5>3, <5>4
      <4>3. \A c \in Resting : LET d == [c EXCEPT !.asked = FALSE] IN
                d \in Resting /\ d.at = c.at /\ d.id = c.id /\ d.key = c.key
        OBVIOUS
      <4> HIDE DEF Resting
      <4> QED BY <2>1, <3>2, <4>1, <4>2, <4>3, <4>4
    <3> QED BY <1>1, <3>1, <3>2 DEF TypeOK
  <2>3. TypeOK'
    BY <1>1, <2>1, <2>2 DEF pool, TypeOK
  <2>4. UNCHANGED <<file, dirs, charged>>
    BY <2>1 DEF pool
  <2>5. Placed' /\ GoneIsClean' /\ AccountsApart'
    BY <2>2, <2>4 DEF IInv, Placed, GoneIsClean, AccountsApart, Present
  <2>6. file # NoFile => Registered'
    BY <2>2, <2>4 DEF IInv, Registered, Distinct, Numbered, OnDisk, OnAccount, InHand
  <2> QED BY <2>3, <2>4, <2>5, <2>6 DEF IInv
<1>5. CASE Check
  <2>1. plan' \in Seq(CallsAsked) /\ UNCHANGED <<up, pool, call, made, charged, faults>>
    BY <1>1, <1>5, CallTyped DEF Check
  <2>2. ~call.asked
    <3>1. call.asked => call \in Calling
      BY <1>1 DEF TypeOK, NoCall
    <3> QED BY <1>1, <1>5, <3>1 DEF Check, TypeOK, Calling
  <2>3. TypeOK'
    BY <1>1, <2>1, <2>2 DEF pool, TypeOK
  <2> QED BY <2>1, <2>3, IdleKeeps DEF pool
<1>6. CASE Receive
  <2>1. plan[1] \in CallsAsked /\ up /\ UNCHANGED <<up, pool, plan, made, charged, faults>>
    BY <1>1, <1>6, CallTyped DEF Receive
  <2>2. /\ call' \in Calling /\ call'.at \in {"mkdir", "look", "ensure"}
        /\ plan' # <<>> /\ plan'[1].do = call'.do
    BY <1>6, <2>1, IdsAreNumbers DEF Receive, CallsAsked, Calling, Places, Ends
  <2>3. TypeOK'
    BY <1>1, <2>1, <2>2 DEF pool, TypeOK
  <2> QED BY <2>1, <2>2, <2>3, IdleKeeps DEF pool, WithId
<1> QED BY <1>3, <1>4, <1>5, <1>6

\* A new registry holds nothing.
LEMMA EmptyTyped == EmptyRegistry \in Files /\ \A k \in StorageKeys : EmptyRegistry[k] = NoRecord /\ Held(NoRecord) = {}
  BY DEF EmptyRegistry, Files, Records, NoRecord, Held

LEMMA StartHolds ==
  ASSUME IInv, Start \/ StartDies
  PROVE  IInv'
<1>1. TypeOK /\ ~up /\ call.at \in Ends
  BY DEF IInv, TypeOK, Start, StartDies
<1>2. CASE Start
  <2>1. UNCHANGED <<litter, dirs, limited, call, plan, made, charged, faults>> /\ up' = TRUE
    BY <1>2 DEF Start
  <2>2. file' \in Files /\ file' # NoFile
    BY <1>1, <1>2, EmptyTyped, StorageAssumption DEF Start, TypeOK
  <2>3. TypeOK'
    BY <1>1, <2>1, <2>2 DEF TypeOK
  <2>4. CASE file # NoFile
    BY <1>1, <1>2, <2>1, <2>3, <2>4, IdleKeeps DEF Start, Ends, WithId
  <2>5. CASE file = NoFile
    <3>1. /\ \A k \in StorageKeys : dirs[k].has = "absent" /\ dirs[k].projid = 0
          /\ file' = EmptyRegistry /\ charged = {}
      BY <1>2, <2>5 DEF Start, Loadable, PoolEmpty, Present, IInv, GoneIsClean
    <3>2. Registered'
      <4>1. Distinct(file') /\ Numbered'
        BY <3>1, EmptyTyped DEF Distinct, Numbered, NoRecord
      <4>2. OnDisk' /\ OnAccount'
        BY <2>1, <3>1 DEF OnDisk, OnAccount
      <4>3. InHand'
        BY <1>1, <2>1 DEF InHand, WithId, Ends
      <4> QED BY <4>1, <4>2, <4>3 DEF Registered
    <3>3. AccountsApart' /\ GoneIsClean' /\ Placed'
      BY <1>1, <2>1, <3>1 DEF AccountsApart, GoneIsClean, Placed, Ends, Present
    <3> QED BY <2>2, <2>3, <3>2, <3>3 DEF IInv
  <2> QED BY <2>4, <2>5
<1>3. CASE StartDies
  <2>1. litter' = TRUE /\ UNCHANGED <<up, file, dirs, limited, call, plan, made, charged>> /\ faults' \in 0..MaxFaults
    BY <1>1, <1>3, FaultTyped DEF StartDies
  <2>2. TypeOK'
    BY <1>1, <2>1 DEF TypeOK
  <2> QED BY <1>1, <2>1, <2>2, IdleKeeps DEF WithId, Ends
<1> QED BY <1>2, <1>3

-----------------------------------------------------------------------------
(* The theorems.                                                           *)

\* The inductive invariant holds in every state of every behaviour.
THEOREM StorageInvariant == Spec => []IInv
<1>1. Init => IInv
  <2> SUFFICES ASSUME Init PROVE IInv
    OBVIOUS
  <2>1. dirs \in Dirs /\ \A k \in StorageKeys : dirs[k] = NoDir
    BY DEF Init, NoDir, Dirs, Contents
  <2>2. TypeOK
    <3>1. call \in {NoCall(end) : end \in Ends} /\ call.at \in Ends /\ ~call.asked
      BY DEF Init, NoCall, Ends
    <3>2. plan \in Seq(CallsAsked) /\ faults \in 0..MaxFaults
      BY StorageAssumption DEF Init
    <3> QED BY <2>1, <3>1, <3>2 DEF Init, TypeOK, Dirs
  <2>3. GoneIsClean /\ AccountsApart /\ Placed
    BY <2>1 DEF Init, GoneIsClean, AccountsApart, Present, Placed, NoDir, NoCall
  <2> QED BY <2>2, <2>3 DEF Init, IInv
<1>2. IInv /\ [Next]_vars => IInv'
  <2> SUFFICES ASSUME IInv, [Next]_vars PROVE IInv'
    OBVIOUS
  <2>1. CASE UNCHANGED vars
    <3>1. UNCHANGED <<up, file, litter, dirs, limited, call, plan, made, charged, faults>>
      BY <2>1 DEF vars, pool
    <3>2. TypeOK'
      BY <3>1 DEF IInv, TypeOK
    <3> QED BY <3>1, <3>2, IdleKeeps
  <2> QED BY <2>1, ControlHolds, WorkHolds, FaultsHold, StartHolds DEF Next
<1> QED BY <1>1, <1>2, PTL DEF Spec

\* The agent's state has its type, and an agent that is up has its registry.
THEOREM StorageTypes == Spec => []TypeOK
<1>1. IInv => TypeOK
  BY DEF IInv
<1> QED BY <1>1, StorageInvariant, PTL

\* No two directories are charged to one project id, whatever fails.
THEOREM TenantsApart == Spec => []AccountsApart
<1>1. IInv => AccountsApart
  BY DEF IInv
<1> QED BY <1>1, StorageInvariant, PTL

\* What was ever charged to the id of a key's record was that key's own.
THEOREM NobodyElsesUsage == Spec => []UsageIsOwn
<1>1. IInv => UsageIsOwn
  <2> SUFFICES ASSUME IInv, up, NEW k \in StorageKeys, Active(file[k]), NEW l \in StorageKeys,
                      <<file[k].projid, l>> \in charged
               PROVE  l = k
    BY DEF UsageIsOwn
  <2>1. file # NoFile /\ Registered /\ file \in Files
    BY DEF IInv, TypeOK
  <2>2. file[k].projid \in Ids /\ file[k].projid \in Held(file[k])
    BY <2>1 DEF Registered, Numbered, Active, Held
  <2>3. file[k].projid \in Held(file[l])
    BY <2>1, <2>2 DEF Registered, OnAccount
  <2> QED BY <2>1, <2>2, <2>3 DEF Registered, Distinct
<1> QED BY <1>1, StorageInvariant, PTL

-----------------------------------------------------------------------------
(* Limits and records.                                                     *)
\* What has data in it, or had.
Data == {"part", "fresh", "torn", "whole"}

\* A call that makes a directory has it, bare, before its quota, and on its own
\* id from then on; the limit is there before the data.
Bare == call.at \in {"allocate", "project", "limit"} => dirs[call.key].has = "bare"
Charged == call.at \in {"limit", "fill", "sync", "complete"} => dirs[call.key].projid = call.id
Limited == call.at \in {"fill", "sync", "complete"} => call.id \in limited

\* A removal takes the limit away when the directory is gone.
Removed == call.at \in {"clear", "release"} => dirs[call.key].has = "absent"

LInv == DataIsLimited /\ Bare /\ Charged /\ Limited /\ Removed

\* The second invariant is about records: what may be used is complete, and what
\* is made has no record before, so that "done" always says what it said when the
\* call that made the directory completed.

\* The keys a workspace runs from or is rolled back to.
Kept == Spaces \X {"live", "prev"}

Making(c) == c.do \in {"create", "copy"} /\ c.key \in Kept

\* A record that is done stands for a directory that was filled on its id.
Sound == \A k \in Kept : Usable(k) => dirs[k].projid = file[k].projid /\ dirs[k].has \in {"whole", "torn"}

\* A removal makes nothing.
Makes == call.at \in {"ensure", "mkdir", "allocate", "project", "limit", "fill", "sync", "complete"}
         => call.do # "remove"

\* Nothing is made where there is a record.
Fresh == call.at \in {"ensure", "mkdir", "allocate"} /\ call.key \in Kept => ~Active(file[call.key])

\* The call that fills a directory has its record, which is pending.
Pending ==
    /\ call.at \in {"project", "limit", "fill", "sync", "complete"} =>
         file[call.key].state = "pending" /\ file[call.key].projid = call.id
    /\ call.at = "complete" => dirs[call.key].has \in {"whole", "torn"}

\* A removal that found no id found no record.
Unrecorded == call.at = "rm" /\ call.id = 0 => ~Active(file[call.key])

\* What the next call makes has no record when that call comes in, ...
Cleared == plan # <<>> /\ Making(plan[1]) =>
               call.asked \/ (call.at \in Ends /\ ~Active(file[plan[1].key]))

\* ... because what a later one makes is removed before, ...
RemovedFirst == \A i \in 2..Len(plan) : Making(plan[i]) => plan[i - 1] = Remove(plan[i].key)
Waited == call.asked => call.key = plan[1].key

\* ... and what is created was never there.
Unmade == \A s \in Spaces \ made : ~Active(file[Key(s, "live")])
OfMade == /\ call.at \notin Ends => call.key[1] \in made
          /\ \A i \in 1..Len(plan) : plan[i].key[1] \in made

Ordered == RemovedFirst /\ Waited /\ OfMade
Recorded == Sound /\ Fresh /\ Pending /\ Unrecorded /\ Cleared /\ Unmade
UInv == Makes /\ Ordered /\ (file # NoFile => Recorded)

-----------------------------------------------------------------------------
(* The limit is there before the data, and goes after it.                  *)

\* What a step of a call finds.
LEMMA WorkFinds ==
  ASSUME IInv, up, call.at \notin Ends
  PROVE  /\ file # NoFile /\ file \in Files /\ Registered /\ call \in Calling
         /\ call.key \in StorageKeys /\ call.from \in StorageKeys /\ call.id \in Ids \cup {0}
         /\ dirs \in Dirs
<1>1. /\ file # NoFile /\ file \in Files /\ Registered /\ call \in Calling
  BY CallTyped DEF IInv, TypeOK
<1> QED BY <1>1 DEF Calling, IInv, TypeOK, Dirs

\* The id of a call that takes a limit away is on no directory with data.
LEMMA ClearsOwn ==
  ASSUME IInv, LInv, up, call.at = "clear", NEW k \in StorageKeys, dirs[k].has \in Data
  PROVE  dirs[k].projid # call.id
<1>1. /\ Registered /\ call.key \in StorageKeys /\ call.id \in Ids \cup {0}
  BY WorkFinds DEF Ends
<1>2. dirs[call.key].has = "absent" /\ k # call.key
  BY DEF LInv, Removed, Data
<1>3. dirs[k].projid \in limited /\ dirs[k].projid \in Ids
  BY DEF LInv, DataIsLimited, Data, IInv, TypeOK
<1> QED BY <1>1, <1>2, <1>3, IdsAreNumbers DEF Registered, OnDisk, InHand, WithId, Distinct

\* A step cut short leaves no data outside a limit.
LEMMA HalfwayLimited ==
  ASSUME IInv, LInv, up, call.at \notin Ends, Halfway
  PROVE  DataIsLimited'
<1>1. call.key \in StorageKeys /\ call.id \in Ids \cup {0} /\ dirs \in Dirs
  BY WorkFinds
<1>2. CASE UNCHANGED dirs /\ limited \subseteq limited'
  BY <1>2 DEF LInv, DataIsLimited
<1>3. CASE /\ call.at = "project" /\ UNCHANGED limited
           /\ dirs' = [dirs EXCEPT ![call.key].projid = call.id]
  <2>1. call.id \in Ids
    BY <1>1, <1>3, WorkFinds DEF Registered, InHand
  <2> QED BY <1>1, <1>3, <2>1, ProjectSet DEF LInv, DataIsLimited, Bare
<1>4. ASSUME NEW h \in {"part", "torn"}, Hold(h),
             call.at = "fill" \/ dirs[call.key].has \in {"part", "fresh", "whole"}
      PROVE  DataIsLimited'
  <2>1. /\ UNCHANGED limited
        /\ \A k \in StorageKeys : dirs'[k].projid = dirs[k].projid
        /\ \A k \in StorageKeys \ {call.key} : dirs'[k] = dirs[k]
    BY <1>1, <1>4, HasSet DEF Hold, Contents
  <2>2. dirs[call.key].projid \in limited
    BY <1>1, <1>4 DEF LInv, DataIsLimited, Charged, Limited
  <2> QED BY <1>1, <2>1, <2>2 DEF LInv, DataIsLimited
<1> QED BY <1>2, <1>3, <1>4 DEF Halfway, Write

\* The steps of a call keep the limits.
LEMMA WorkLimits ==
  ASSUME IInv, LInv, Work
  PROVE  LInv'
<1>1. /\ up /\ call.at \notin Ends
  BY DEF Work, At, Ends, EnsureStorage, MakeDirectory, AllocateProject, SetProject, SetLimit,
         FillCopy, SyncData, CompleteProject, LookUp, RemoveDirectory, ClearProject, ReleaseProject
<1>2. /\ call \in Calling /\ call.key \in StorageKeys /\ call.id \in Ids \cup {0} /\ dirs \in Dirs
  BY <1>1, WorkFinds
<1>3. ASSUME NEW place \in Places, Go(place)
      PROVE  call'.at = place /\ call'.id = call.id /\ call'.key = call.key
  BY <1>2, <1>3 DEF Go, Calling
<1>4. ASSUME NEW good \in BOOLEAN, End(good) PROVE call'.at \in Ends
  BY <1>4 DEF End, NoCall, Ends
<1>5. ASSUME DataIsLimited',
             call'.at \notin {"allocate", "project", "limit", "fill", "sync", "complete", "clear", "release"}
      PROVE  LInv'
  BY <1>5 DEF LInv, Bare, Charged, Limited, Removed
<1>6. ASSUME UNCHANGED <<dirs, limited>> PROVE DataIsLimited'
  BY <1>6 DEF LInv, DataIsLimited
<1>7. CASE EnsureStorage \/ (MakeDirectory /\ Present(call.key)) \/ CompleteProject \/ LookUp \/ ReleaseProject
  <2>1. call'.at \in Ends \cup {"mkdir", "look", "rm"}
    BY <1>2, <1>3, <1>4, <1>7 DEF EnsureStorage, MakeDirectory, CompleteProject, LookUp, ReleaseProject, Places, Calling
  <2> QED BY <1>5, <1>6, <1>7, <2>1 DEF EnsureStorage, MakeDirectory, CompleteProject, LookUp, ReleaseProject, Ends
<1>8. CASE MakeDirectory /\ ~Present(call.key)
  <2>1. /\ Go("allocate") /\ dirs' = [dirs EXCEPT ![call.key].has = "bare"] /\ UNCHANGED limited
    BY <1>8 DEF MakeDirectory
  <2>2. /\ dirs'[call.key].has = "bare"
        /\ \A k \in StorageKeys \ {call.key} : dirs'[k] = dirs[k]
    BY <1>2, <2>1, HasSet DEF Contents
  <2>3. call'.at = "allocate" /\ call'.key = call.key
    BY <1>3, <2>1 DEF Places
  <2>4. DataIsLimited'
    BY <1>2, <2>1, <2>2 DEF LInv, DataIsLimited
  <2> QED BY <2>2, <2>3, <2>4 DEF LInv, Bare, Charged, Limited, Removed
<1>9. CASE AllocateProject
  <2>1. UNCHANGED <<dirs, limited>> /\ call.at = "allocate"
    BY <1>9 DEF AllocateProject, At
  <2>2. CASE End(FALSE)
    BY <1>4, <1>5, <1>6, <2>1, <2>2 DEF Ends
  <2>3. CASE \E i : call' = [call EXCEPT !.at = "project", !.id = i]
    <3>1. call'.at = "project" /\ call'.key = call.key
      BY <1>2, <2>3 DEF Calling
    <3> QED BY <1>6, <2>1, <3>1 DEF LInv, Bare, Charged, Limited, Removed
  <2> QED BY <1>9, <2>2, <2>3 DEF AllocateProject
<1>10. CASE SetProject
  <2>1. /\ call.at = "project" /\ Go("limit") /\ UNCHANGED limited
        /\ dirs' = [dirs EXCEPT ![call.key].projid = call.id]
    BY <1>10 DEF SetProject, At
  <2>2. call.id \in Ids
    BY <1>1, <1>2, <2>1, WorkFinds DEF Registered, InHand
  <2>3. /\ dirs'[call.key].projid = call.id /\ dirs'[call.key].has = "bare"
        /\ \A k \in StorageKeys \ {call.key} : dirs'[k] = dirs[k]
    BY <1>2, <2>1, <2>2, ProjectSet DEF LInv, Bare
  <2>4. call'.at = "limit" /\ call'.key = call.key /\ call'.id = call.id
    BY <1>3, <2>1 DEF Places
  <2>5. DataIsLimited'
    BY <1>2, <2>1, <2>3 DEF LInv, DataIsLimited
  <2> QED BY <2>3, <2>4, <2>5 DEF LInv, Bare, Charged, Limited, Removed
<1>11. CASE SetLimit
  <2>1. call.at = "limit" /\ limited' = limited \cup {call.id} /\ dirs[call.key].projid = call.id
    BY <1>11 DEF SetLimit, At, LInv, Charged
  <2>2. /\ \A k \in StorageKeys : dirs'[k].projid = dirs[k].projid
        /\ \A k \in StorageKeys \ {call.key} : dirs'[k] = dirs[k]
    BY <1>2, <1>11, HasSet DEF SetLimit, Contents
  <2>3. call'.at \in {"sync", "fill"} /\ call'.key = call.key /\ call'.id = call.id
    BY <1>3, <1>11 DEF SetLimit, Places
  <2>4. DataIsLimited'
    BY <1>2, <2>1, <2>2 DEF LInv, DataIsLimited
  <2> QED BY <1>2, <2>1, <2>2, <2>3, <2>4 DEF LInv, Bare, Charged, Limited, Removed
<1>12. CASE FillCopy \/ SyncData
  <2>1. call.at \in {"fill", "sync"} /\ UNCHANGED limited /\ call.id \in limited /\ dirs[call.key].projid = call.id
    BY <1>12 DEF FillCopy, SyncData, At, LInv, Charged, Limited
  <2>2. /\ \A k \in StorageKeys : dirs'[k].projid = dirs[k].projid
        /\ \A k \in StorageKeys \ {call.key} : dirs'[k] = dirs[k]
    BY <1>2, <1>12, HasSet DEF FillCopy, SyncData, Contents
  <2>3. call'.at \in {"sync", "complete"} /\ call'.key = call.key /\ call'.id = call.id
    BY <1>3, <1>12 DEF FillCopy, SyncData, Places
  <2>4. DataIsLimited'
    BY <1>2, <2>1, <2>2 DEF LInv, DataIsLimited
  <2> QED BY <1>2, <2>1, <2>2, <2>3, <2>4 DEF LInv, Bare, Charged, Limited, Removed
<1>13. CASE RemoveDirectory
  <2>1. /\ dirs'[call.key].has = "absent"
        /\ \A k \in StorageKeys \ {call.key} : dirs'[k] = dirs[k]
    BY <1>2, <1>13 DEF RemoveDirectory, NoDir, Dirs
  <2>2. DataIsLimited'
    BY <1>2, <1>13, <2>1 DEF RemoveDirectory, LInv, DataIsLimited
  <2>3. CASE call.id = 0
    BY <1>4, <1>5, <1>13, <2>2, <2>3 DEF RemoveDirectory, Ends
  <2>4. CASE call.id # 0
    BY <1>3, <1>13, <2>1, <2>2, <2>4 DEF RemoveDirectory, Places, LInv, Bare, Charged, Limited, Removed
  <2> QED BY <2>3, <2>4
<1>14. CASE ClearProject
  <2>1. call.at = "clear" /\ UNCHANGED dirs /\ limited' = limited \ {call.id}
    BY <1>14 DEF ClearProject, At
  <2>2. DataIsLimited'
    BY <1>1, <2>1, ClearsOwn DEF LInv, DataIsLimited, Data
  <2>3. call'.at = "release" /\ call'.key = call.key
    BY <1>3, <1>14 DEF ClearProject, Places
  <2> QED BY <2>1, <2>2, <2>3 DEF LInv, Bare, Charged, Limited, Removed
<1> QED BY <1>7, <1>8, <1>9, <1>10, <1>11, <1>12, <1>13, <1>14 DEF Work

\* So does everything else.
LEMMA RestLimits ==
  ASSUME IInv, LInv, [Next]_vars, ~Work
  PROVE  LInv'
<1>1. ASSUME UNCHANGED <<dirs, limited>>,
             call'.at \in {"allocate", "project", "limit", "fill", "sync", "complete", "clear", "release"} =>
                /\ call'.key = call.key /\ call'.id = call.id
                /\ call'.at = call.at \/ (call.at = "clear" /\ call'.at = "release")
      PROVE  LInv'
  BY <1>1 DEF LInv, DataIsLimited, Bare, Charged, Limited, Removed
<1>2. ASSUME DataIsLimited', call'.at \in Ends \cup {"look"}
      PROVE  LInv'
  BY <1>2 DEF LInv, Bare, Charged, Limited, Removed, Ends
<1>13. ASSUME UNCHANGED <<dirs, limited, call>> PROVE LInv'
  BY <1>13 DEF LInv, DataIsLimited, Bare, Charged, Limited, Removed
<1>3. CASE UNCHANGED vars
  BY <1>13, <1>3 DEF vars, pool
<1>4. CASE \E s \in Spaces : AskForData(s) \/ AskForPlan(s)
  BY <1>13, <1>4 DEF AskForData, AskForPlan, Begin, pool
<1>5. CASE GiveUp
  <2>1. call'.at = call.at /\ call'.id = call.id /\ call'.key = call.key
    <3>1. CASE call \in Calling
      BY <1>5, <3>1 DEF GiveUp, Calling
    <3>2. CASE \E end \in Ends : call = NoCall(end)
      BY <1>5, <3>2 DEF GiveUp, NoCall
    <3> QED BY <3>1, <3>2 DEF IInv, TypeOK
  <2>2. UNCHANGED <<dirs, limited>>
    BY <1>5 DEF GiveUp, pool
  <2> QED BY <2>1, <2>2 DEF LInv, DataIsLimited, Bare, Charged, Limited, Removed
<1>6. CASE Check
  BY <1>13, <1>6 DEF Check, pool
<1>7. CASE Receive
  <2>1. call'.at \in {"mkdir", "look", "ensure"}
    BY <1>7, CallTyped DEF Receive, CallsAsked, IInv
  <2> QED BY <1>1, <1>7, <2>1 DEF Receive, pool
<1>8. CASE StepFails
  <2>1. call.at \notin Ends /\ up /\ Halfway
    BY <1>8 DEF StepFails, Cut
  <2>2. call'.at \in Ends \cup {"look"}
    BY <1>8, <2>1, WorkFinds DEF StepFails, Go, End, NoCall, Ends, Calling
  <2> QED BY <1>2, <2>1, <2>2, HalfwayLimited
<1>9. CASE ClearFails
  <2>1. call.at = "clear" /\ up
    BY <1>9 DEF ClearFails, At
  <2>2. call'.at = "release" /\ call'.id = call.id /\ call'.key = call.key
    BY <1>9, <2>1, WorkFinds DEF ClearFails, Go, Calling, Ends
  <2> QED BY <1>1, <1>9, <2>1, <2>2 DEF ClearFails, pool
<1>10. CASE Crash
  <2>1. up /\ Halfway /\ call'.at \in Ends
    BY <1>10 DEF Crash, Cut, Down, NoCall, Ends
  <2>2. CASE call.at \notin Ends
    BY <1>2, <2>1, <2>2, HalfwayLimited
  <2>3. CASE call.at \in Ends
    BY <1>2, <2>1, <2>3 DEF Halfway, Ends, LInv, DataIsLimited
  <2> QED BY <2>2, <2>3
<1>11. CASE PowerFails
  <2>1. call'.at \in Ends /\ UNCHANGED limited
    BY <1>11 DEF PowerFails, Down, NoCall, Ends
  <2>2. \A k \in StorageKeys : dirs'[k] \in {dirs[k], [dirs[k] EXCEPT !.has = "part"]} /\
                               (dirs'[k] # dirs[k] => dirs[k].has = "fresh")
    BY <1>11 DEF PowerFails
  <2>3. \A k \in StorageKeys : dirs'[k].projid = dirs[k].projid /\ (dirs'[k] # dirs[k] => dirs[k].has = "fresh")
    BY <2>2 DEF IInv, TypeOK
  <2> QED BY <1>2, <2>1, <2>3 DEF LInv, DataIsLimited
<1>12. CASE LoseRegistry \/ Start \/ StartDies
  BY <1>13, <1>12 DEF LoseRegistry, Start, StartDies
<1> QED BY <1>3, <1>4, <1>5, <1>6, <1>7, <1>8, <1>9, <1>10, <1>11, <1>12 DEF Next

-----------------------------------------------------------------------------
(* Records.                                                                *)

\* The keys that may be used are storage keys.
LEMMA KeptAreKeys == Kept \subseteq StorageKeys
  BY StorageAssumption DEF Kept

\* What a write of the registry does to the other keys, and to its own.
LEMMA WritesOne ==
  ASSUME NEW f \in Files, NEW k \in StorageKeys
  PROVE  /\ \A i : /\ Allocate(f, k, i)[k].state = "pending" /\ Allocate(f, k, i)[k].projid = i
                   /\ \A l \in StorageKeys \ {k} : Allocate(f, k, i)[l] = f[l]
         /\ Complete(f, k)[k].projid = f[k].projid
         /\ \A l \in StorageKeys \ {k} : Complete(f, k)[l] = f[l]
         /\ Release(f, k)[k].state \notin {"pending", "done"}
         /\ \A l \in StorageKeys \ {k} : Release(f, k)[l] = f[l]
<1>1. \A l \in StorageKeys : f[l] \in Records
  BY DEF Files
<1>2. \A i : /\ Allocate(f, k, i)[k].state = "pending" /\ Allocate(f, k, i)[k].projid = i
             /\ \A l \in StorageKeys \ {k} : Allocate(f, k, i)[l] = f[l]
  BY DEF Allocate, Files
<1>3. Complete(f, k)[k].projid = f[k].projid /\ \A l \in StorageKeys \ {k} : Complete(f, k)[l] = f[l]
  BY <1>1 DEF Complete, Files, Records
<1>4. /\ Release(f, k)[k].state \notin {"pending", "done"}
      /\ \A l \in StorageKeys \ {k} : Release(f, k)[l] = f[l]
  BY <1>1 DEF Release, Active, Files, Records
<1> QED BY <1>2, <1>3, <1>4

\* While a call goes on the plan is as it was.
LEMMA PlanGoes ==
  ASSUME UInv, file # NoFile, NEW place \in Places \ Ends, Go(place), call \in Calling, UNCHANGED made
  PROVE  Ordered' /\ Cleared'
<1>1. /\ call'.at = place /\ call'.key = call.key /\ call'.asked = call.asked /\ call.at \notin Ends
  BY DEF Go, Calling
<1>2. plan' = plan
  BY DEF Go
<1> QED BY <1>1, <1>2 DEF UInv, Ordered, Recorded, RemovedFirst, Waited, OfMade, Cleared

\* What is next after the first call of a plan.
LEMMA NextOfPlan ==
  ASSUME plan \in Seq(CallsAsked), plan # <<>>, RemovedFirst, plan' = Tail(plan), plan' # <<>>
  PROVE  /\ RemovedFirst'
         /\ Making(plan'[1]) => plan[1] = Remove(plan'[1].key)
         /\ \A i \in 1..Len(plan') : i + 1 \in 1..Len(plan) /\ plan'[i] = plan[i + 1]
<1>1. Len(plan') = Len(plan) - 1 /\ \A i \in 1..Len(plan') : plan'[i] = plan[i + 1]
  OBVIOUS
<1>2. Len(plan) \in Nat /\ Len(plan') # 0
  OBVIOUS
<1>3. RemovedFirst'
  <2> SUFFICES ASSUME NEW i \in 2..Len(plan'), Making(plan'[i])
               PROVE  plan'[i - 1] = Remove(plan'[i].key)
    BY DEF RemovedFirst
  <2>1. /\ i \in 1..Len(plan') /\ i - 1 \in 1..Len(plan') /\ i + 1 \in 2..Len(plan) /\ i - 1 + 1 = i
        /\ i + 1 - 1 = i
    BY <1>1, <1>2
  <2>2. plan'[i] = plan[i + 1] /\ plan'[i - 1] = plan[i]
    BY <1>1, <2>1
  <2>3. Making(plan[i + 1]) => plan[i + 1 - 1] = Remove(plan[i + 1].key)
    BY <2>1 DEF RemovedFirst
  <2> QED BY <2>1, <2>2, <2>3
<1>4. Making(plan'[1]) => plan[1] = Remove(plan'[1].key)
  <2>1. plan'[1] = plan[2] /\ 2 \in 2..Len(plan)
    BY <1>1, <1>2
  <2>2. Making(plan[2]) => plan[2 - 1] = Remove(plan[2].key)
    BY <2>1 DEF RemovedFirst
  <2> QED BY <2>1, <2>2
<1> QED BY <1>1, <1>2, <1>3, <1>4

\* When it ends well, the next of the plan has its way prepared.
LEMMA PlanEnds ==
  ASSUME UInv, TypeOK, file # NoFile, call \in Calling, UNCHANGED made, NEW good \in BOOLEAN, End(good),
         good /\ call.do = "remove" => ~Active(file'[call.key])
  PROVE  Ordered' /\ Cleared'
<1>1. call'.at \in Ends /\ ~call'.asked
  BY DEF End, NoCall, Ends
<1>2. call.at \notin Ends /\ plan \in Seq(CallsAsked)
  BY DEF Calling, TypeOK
<1>3. CASE plan' = <<>>
  BY <1>1, <1>3 DEF Ordered, RemovedFirst, Waited, OfMade, Cleared
<1>4. CASE ~call.asked
  BY <1>1, <1>2, <1>4 DEF End, UInv, Ordered, Recorded, RemovedFirst, Waited, OfMade, Cleared
<1>5. CASE call.asked /\ good /\ plan' # <<>>
  <2>1. plan # <<>> /\ plan[1].do = call.do /\ plan[1].key = call.key /\ plan' = Tail(plan)
    BY <1>5 DEF TypeOK, UInv, Ordered, Waited, End
  <2>2. /\ RemovedFirst'
        /\ Making(plan'[1]) => plan[1] = Remove(plan'[1].key)
        /\ \A i \in 1..Len(plan') : i + 1 \in 1..Len(plan) /\ plan'[i] = plan[i + 1]
    BY <1>2, <1>5, <2>1, NextOfPlan DEF UInv, Ordered
  <2>3. Waited' /\ OfMade'
    BY <1>1, <2>2 DEF Waited, OfMade, UInv, Ordered
  <2>4. Cleared'
    <3> SUFFICES ASSUME Making(plan'[1])
                 PROVE  ~Active(file'[plan'[1].key])
      BY <1>1 DEF Cleared
    <3>1. plan[1] = Remove(plan'[1].key)
      BY <2>2
    <3>2. \A k : Remove(k).do = "remove" /\ Remove(k).key = k
      BY DEF Remove
    <3>3. call.do = "remove" /\ call.key = plan'[1].key
      BY <2>1, <3>1, <3>2
    <3> QED BY <1>5, <3>3
  <2> QED BY <2>2, <2>3, <2>4 DEF Ordered
<1> QED BY <1>3, <1>4, <1>5 DEF End

\* A workspace that was never made is not touched.
LEMMA UnmadeKeeps ==
  ASSUME UInv, file # NoFile, UNCHANGED made, call.at \notin Ends,
         \A k \in StorageKeys \ {call.key} : file'[k] = file[k]
  PROVE  Unmade'
<1> SUFFICES ASSUME NEW s \in Spaces \ made PROVE ~Active(file'[Key(s, "live")])
  BY DEF Unmade
<1>1. Key(s, "live") \in StorageKeys /\ Key(s, "live") # call.key
  BY StorageAssumption DEF Key, UInv, Ordered, OfMade
<1> QED BY <1>1 DEF UInv, Recorded, Unmade

\* The steps of a call keep the records true.
LEMMA WorkRecords ==
  ASSUME IInv, LInv, UInv, Work
  PROVE  UInv'
<1>1. /\ up /\ call.at \notin Ends /\ UNCHANGED made
  BY DEF Work, At, Ends, EnsureStorage, MakeDirectory, AllocateProject, SetProject, SetLimit,
         FillCopy, SyncData, CompleteProject, LookUp, RemoveDirectory, ClearProject, ReleaseProject, Same
<1>2. /\ call \in Calling /\ call.key \in StorageKeys /\ call.id \in Ids \cup {0} /\ dirs \in Dirs
      /\ file \in Files /\ file # NoFile /\ TypeOK
  BY <1>1, WorkFinds DEF IInv
<1>3. ASSUME NEW place \in Places, Go(place)
      PROVE  /\ call'.at = place /\ call'.id = call.id /\ call'.key = call.key /\ call'.do = call.do
  BY <1>2, <1>3 DEF Go, Calling
<1>4. ASSUME NEW good \in BOOLEAN, End(good) PROVE call'.at \in Ends
  BY <1>4 DEF End, NoCall, Ends
<1>5. Sound /\ Fresh /\ Pending /\ Unrecorded
  BY <1>2 DEF UInv, Recorded
<1>6. ASSUME Ordered', Cleared', Sound', call'.at \in Ends \cup {"look", "clear", "release"},
             \A k \in StorageKeys \ {call.key} : file'[k] = file[k]
      PROVE  UInv'
  <2>1. Unmade'
    BY <1>1, <1>2, <1>6, UnmadeKeeps
  <2> QED BY <1>6, <2>1 DEF UInv, Recorded, Makes, Fresh, Pending, Unrecorded, Ends
<1>7. CASE EnsureStorage
  <2>1. UNCHANGED <<file, dirs>> /\ call.at = "ensure"
    BY <1>7 DEF EnsureStorage, At
  <2>2. Sound'
    BY <1>5, <2>1 DEF Sound, Usable, Present
  <2>3. CASE End(FALSE)
    BY <1>1, <1>2, <1>4, <1>6, <2>1, <2>2, <2>3, PlanEnds
  <2>4. CASE Go("mkdir")
    <3>1. Ordered' /\ Cleared'
      BY <1>1, <1>2, <2>4, PlanGoes DEF Places, Ends
    <3>2. call'.at = "mkdir" /\ call'.key = call.key /\ call'.do = call.do
      BY <1>3, <2>4 DEF Places
    <3>3. Unmade'
      BY <1>1, <1>2, <2>1, UnmadeKeeps
    <3> QED BY <1>5, <2>1, <2>2, <3>1, <3>2, <3>3 DEF UInv, Recorded, Makes, Fresh, Pending, Unrecorded
  <2> QED BY <1>7, <2>3, <2>4 DEF EnsureStorage
<1>8. CASE MakeDirectory
  <2>1. UNCHANGED file /\ call.at = "mkdir"
    BY <1>8 DEF MakeDirectory, At
  <2>2. CASE Present(call.key)
    <3>1. End(FALSE) /\ UNCHANGED dirs
      BY <1>8, <2>2 DEF MakeDirectory
    <3>2. Sound'
      BY <1>5, <2>1, <3>1 DEF Sound, Usable, Present
    <3> QED BY <1>1, <1>2, <1>4, <1>6, <2>1, <3>1, <3>2, PlanEnds
  <2>3. CASE ~Present(call.key)
    <3>1. Go("allocate") /\ dirs' = [dirs EXCEPT ![call.key].has = "bare"]
      BY <1>8, <2>3 DEF MakeDirectory
    <3>2. \A k \in StorageKeys \ {call.key} : dirs'[k] = dirs[k]
      BY <1>2, <3>1, HasSet DEF Contents
    <3>3. Sound'
      BY <1>5, <2>1, <3>2, KeptAreKeys DEF Sound, Fresh, Usable, Present, Active
    <3>4. Ordered' /\ Cleared' /\ Unmade'
      BY <1>1, <1>2, <2>1, <3>1, PlanGoes, UnmadeKeeps DEF Places, Ends
    <3>5. call'.at = "allocate" /\ call'.key = call.key /\ call'.do = call.do
      BY <1>3, <3>1 DEF Places
    <3> QED BY <1>5, <2>1, <3>3, <3>4, <3>5 DEF UInv, Recorded, Makes, Fresh, Pending, Unrecorded
  <2> QED BY <2>2, <2>3
<1>9. CASE AllocateProject
  <2>1. UNCHANGED dirs /\ call.at = "allocate"
    BY <1>9 DEF AllocateProject, At
  <2>2. CASE End(FALSE) /\ UNCHANGED file
    <3>1. Sound'
      BY <1>5, <2>1, <2>2 DEF Sound, Usable, Present
    <3> QED BY <1>1, <1>2, <1>4, <1>6, <2>2, <3>1, PlanEnds
  <2>3. ASSUME NEW i, file' = Allocate(file, call.key, i),
               call' = [call EXCEPT !.at = "project", !.id = i], UNCHANGED plan
        PROVE  UInv'
    <3>1. /\ file'[call.key].state = "pending" /\ file'[call.key].projid = i
          /\ \A k \in StorageKeys \ {call.key} : file'[k] = file[k]
      BY <1>2, <2>3, WritesOne
    <3>2. /\ call'.at = "project" /\ call'.key = call.key /\ call'.do = call.do /\ call'.id = i
          /\ call'.asked = call.asked
      BY <1>2, <2>3 DEF Calling
    <3>3. Sound'
      BY <1>5, <2>1, <3>1, KeptAreKeys DEF Sound, Usable, Present
    <3>4. Ordered' /\ Cleared'
      BY <1>1, <1>2, <2>3, <3>2 DEF UInv, Ordered, Recorded, RemovedFirst, Waited, OfMade, Cleared
    <3>5. Unmade'
      BY <1>1, <1>2, <3>1, UnmadeKeeps
    <3> QED BY <2>1, <3>1, <3>2, <3>3, <3>4, <3>5 DEF UInv, Recorded, Makes, Fresh, Pending, Unrecorded
  <2> QED BY <1>9, <2>2, <2>3 DEF AllocateProject
<1>10. ASSUME UNCHANGED file, call.at \in {"project", "limit", "fill", "sync"},
              \A k \in StorageKeys \ {call.key} : dirs'[k] = dirs[k],
              NEW place \in {"limit", "fill", "sync", "complete"}, Go(place),
              place = "complete" => dirs'[call.key].has \in {"whole", "torn"}
       PROVE  UInv'
  <2>1. Sound'
    BY <1>5, <1>10, KeptAreKeys DEF Sound, Pending, Usable, Present
  <2>2. Ordered' /\ Cleared' /\ Unmade'
    BY <1>1, <1>2, <1>10, PlanGoes, UnmadeKeeps DEF Places, Ends
  <2>3. call'.at = place /\ call'.key = call.key /\ call'.do = call.do /\ call'.id = call.id
    BY <1>3, <1>10 DEF Places
  <2> QED BY <1>5, <1>10, <2>1, <2>2, <2>3 DEF UInv, Recorded, Makes, Fresh, Pending, Unrecorded
<1>11. CASE SetProject
  <2>1. \A k \in StorageKeys \ {call.key} : dirs'[k] = dirs[k]
    BY <1>2, <1>11 DEF SetProject, Dirs
  <2> QED BY <1>10, <1>11, <2>1 DEF SetProject, At
<1>12. CASE SetLimit
  <2>1. \A k \in StorageKeys \ {call.key} : dirs'[k] = dirs[k]
    BY <1>2, <1>12 DEF SetLimit, Dirs
  <2> QED BY <1>10, <1>12, <2>1 DEF SetLimit, At
<1>13. CASE FillCopy
  <2>1. \A k \in StorageKeys \ {call.key} : dirs'[k] = dirs[k]
    BY <1>2, <1>13 DEF FillCopy, Dirs
  <2> QED BY <1>10, <1>13, <2>1 DEF FillCopy, At
<1>14. CASE SyncData
  <2>1. /\ \A k \in StorageKeys \ {call.key} : dirs'[k] = dirs[k]
        /\ dirs'[call.key].has \in {"whole", "torn"}
    BY <1>2, <1>14 DEF SyncData, Dirs
  <2> QED BY <1>10, <1>14, <2>1 DEF SyncData, At
<1>15. CASE CompleteProject
  <2>1. call.at = "complete" /\ UNCHANGED dirs
    BY <1>15 DEF CompleteProject, At
  <2>2. /\ file[call.key].state = "pending" /\ file[call.key].projid = call.id
        /\ dirs[call.key].has \in {"whole", "torn"} /\ call.do # "remove"
    BY <1>2, <1>5, <2>1 DEF Pending, UInv, Makes
  <2>3. file' = Complete(file, call.key) /\ End(TRUE)
    BY <1>15, <2>2 DEF CompleteProject, Active
  <2>4. /\ file'[call.key].projid = call.id
        /\ \A k \in StorageKeys \ {call.key} : file'[k] = file[k]
    BY <1>2, <2>2, <2>3, WritesOne
  <2>5. Sound'
    <3>1. dirs[call.key].projid = call.id
      BY <2>1 DEF LInv, Charged
    <3> QED BY <1>5, <2>1, <2>2, <2>4, <3>1, KeptAreKeys DEF Sound, Usable, Present
  <2> QED BY <1>1, <1>2, <1>4, <1>6, <2>2, <2>3, <2>4, <2>5, PlanEnds
<1>16. CASE LookUp
  <2>1. /\ call.at = "look" /\ UNCHANGED <<plan, file, dirs>>
        /\ call'.at = "rm" /\ call'.key = call.key /\ call'.asked = call.asked
        /\ call'.id = IF Active(file[call.key]) THEN file[call.key].projid ELSE 0
    BY <1>2, <1>16 DEF LookUp, At, Same, Calling
  <2>2. call'.id = 0 => ~Active(file[call.key])
    <3>1. Registered
      BY <1>1, WorkFinds
    <3> QED BY <1>2, <2>1, <3>1, IdsAreNumbers DEF Registered, Numbered, Active
  <2>3. Sound'
    BY <1>5, <2>1 DEF Sound, Usable, Present
  <2>4. Ordered' /\ Cleared'
    BY <1>1, <1>2, <2>1 DEF UInv, Ordered, Recorded, RemovedFirst, Waited, OfMade, Cleared
  <2>5. Unmade'
    BY <1>1, <1>2, <2>1, UnmadeKeeps
  <2> QED BY <2>1, <2>2, <2>3, <2>4, <2>5 DEF UInv, Recorded, Makes, Fresh, Pending, Unrecorded
<1>17. CASE RemoveDirectory
  <2>1. /\ call.at = "rm" /\ UNCHANGED file
        /\ dirs'[call.key].has = "absent"
        /\ \A k \in StorageKeys \ {call.key} : dirs'[k] = dirs[k]
    BY <1>2, <1>17 DEF RemoveDirectory, At, NoDir, Dirs
  <2>2. Sound'
    BY <1>5, <2>1, KeptAreKeys DEF Sound, Usable, Present
  <2>3. CASE call.id = 0
    <3>1. End(call.do = "remove") /\ ~Active(file'[call.key])
      BY <1>5, <1>17, <2>1, <2>3 DEF RemoveDirectory, Unrecorded
    <3>2. Ordered' /\ Cleared' /\ call'.at \in Ends
      BY <1>1, <1>2, <1>4, <3>1, PlanEnds
    <3> QED BY <1>6, <2>1, <2>2, <3>2
  <2>4. CASE call.id # 0
    <3>1. Go("clear")
      BY <1>17, <2>4 DEF RemoveDirectory
    <3>2. Ordered' /\ Cleared' /\ call'.at = "clear"
      BY <1>1, <1>2, <1>3, <3>1, PlanGoes DEF Places, Ends
    <3> QED BY <1>6, <2>1, <2>2, <3>2
  <2> QED BY <2>3, <2>4
<1>18. CASE ClearProject
  <2>1. UNCHANGED <<file, dirs>> /\ Go("release")
    BY <1>18 DEF ClearProject
  <2>2. Sound'
    BY <1>5, <2>1 DEF Sound, Usable, Present
  <2>3. Ordered' /\ Cleared' /\ call'.at = "release"
    BY <1>1, <1>2, <1>3, <2>1, PlanGoes DEF Places, Ends
  <2> QED BY <1>6, <2>1, <2>2, <2>3
<1>19. CASE ReleaseProject
  <2>1. /\ UNCHANGED dirs /\ End(call.do = "remove") /\ ~Active(file'[call.key])
        /\ file'[call.key].state # "done"
        /\ \A k \in StorageKeys \ {call.key} : file'[k] = file[k]
    BY <1>2, <1>19, WritesOne DEF ReleaseProject, Active
  <2>2. Sound'
    BY <1>5, <2>1, KeptAreKeys DEF Sound, Usable, Present
  <2>3. Ordered' /\ Cleared' /\ call'.at \in Ends
    BY <1>1, <1>2, <1>4, <2>1, PlanEnds
  <2> QED BY <1>6, <2>1, <2>2, <2>3
<1> QED BY <1>7, <1>8, <1>9, <1>11, <1>12, <1>13, <1>14, <1>15, <1>16, <1>17, <1>18, <1>19 DEF Work

\* So does a step that is cut short, ...
LEMMA HalfwayRecords ==
  ASSUME IInv, LInv, UInv, up, call.at \notin Ends, Halfway
  PROVE  Sound' /\ \A k \in StorageKeys \ {call.key} : file'[k] = file[k]
<1>1. /\ call.key \in StorageKeys /\ dirs \in Dirs /\ file \in Files /\ file # NoFile
  BY WorkFinds
<1>2. Sound /\ Pending
  BY <1>1 DEF UInv, Recorded
<1>3. CASE UNCHANGED <<file, dirs>>
  BY <1>2, <1>3 DEF Sound, Usable, Present
<1>4. ASSUME NEW i, file' = Allocate(file, call.key, i), UNCHANGED dirs
      PROVE  Sound' /\ \A k \in StorageKeys \ {call.key} : file'[k] = file[k]
  <2>1. /\ file'[call.key].state = "pending"
        /\ \A k \in StorageKeys \ {call.key} : file'[k] = file[k]
    BY <1>1, <1>4, WritesOne
  <2> QED BY <1>2, <1>4, <2>1, KeptAreKeys DEF Sound, Usable, Present
<1>5. CASE /\ call.at \in {"project", "fill"} /\ UNCHANGED file
           /\ \A k \in StorageKeys \ {call.key} : dirs'[k] = dirs[k]
  BY <1>2, <1>5, KeptAreKeys DEF Sound, Pending, Usable, Present
<1>6. CASE call.at = "complete" /\ file' = Complete(file, call.key) /\ UNCHANGED dirs
  <2>1. /\ file'[call.key].projid = call.id
        /\ \A k \in StorageKeys \ {call.key} : file'[k] = file[k]
    BY <1>1, <1>2, <1>6, WritesOne DEF Pending
  <2>2. dirs[call.key].has \in {"whole", "torn"} /\ dirs[call.key].projid = call.id
    BY <1>2, <1>6 DEF Pending, LInv, Charged
  <2> QED BY <1>2, <1>6, <2>1, <2>2, KeptAreKeys DEF Sound, Usable, Present
<1>7. CASE dirs[call.key].has \in {"part", "fresh", "whole"} /\ Hold("torn")
  <2>1. /\ dirs'[call.key].has = "torn" /\ UNCHANGED file
        /\ dirs'[call.key].projid = dirs[call.key].projid
        /\ \A k \in StorageKeys \ {call.key} : dirs'[k] = dirs[k]
    BY <1>1, <1>7, HasSet DEF Hold, Contents
  <2> QED BY <1>2, <1>7, <2>1, KeptAreKeys DEF Sound, Usable, Present
<1>8. CASE file' = Release(file, call.key) /\ UNCHANGED dirs
  <2>1. /\ file'[call.key].state # "done"
        /\ \A k \in StorageKeys \ {call.key} : file'[k] = file[k]
    BY <1>1, <1>8, WritesOne
  <2> QED BY <1>2, <1>8, <2>1, KeptAreKeys DEF Sound, Usable, Present
<1>9. CASE /\ call.at = "project" /\ UNCHANGED file
           /\ dirs' = [dirs EXCEPT ![call.key].projid = call.id]
  BY <1>1, <1>5, <1>9 DEF Dirs
<1>10. CASE call.at = "fill" /\ Hold("part")
  BY <1>1, <1>5, <1>10 DEF Hold, Dirs
<1> QED BY <1>3, <1>4, <1>6, <1>7, <1>8, <1>9, <1>10 DEF Halfway, Write

\* ... a fault, ...
LEMMA FaultsRecord ==
  ASSUME IInv, LInv, UInv, StepFails \/ ClearFails \/ Crash \/ PowerFails \/ LoseRegistry
  PROVE  UInv'
<1>1. ASSUME Ordered', file' # NoFile => Cleared' /\ Sound' /\ Unmade', call'.at \in Ends \cup {"look", "clear", "release"}
      PROVE  UInv'
  BY <1>1 DEF UInv, Recorded, Makes, Fresh, Pending, Unrecorded, Ends
<1>2. CASE StepFails
  <2>1. up /\ call.at \notin Ends /\ Halfway /\ UNCHANGED made
    BY <1>2 DEF StepFails, Cut
  <2>2. call \in Calling /\ file # NoFile /\ TypeOK
    BY <2>1, WorkFinds DEF IInv
  <2>3. Sound' /\ Unmade'
    BY <2>1, <2>2, HalfwayRecords, UnmadeKeeps
  <2>4. CASE Go("look")
    <3>1. call'.at = "look"
      BY <2>2, <2>4 DEF Go, Calling
    <3>2. Ordered' /\ Cleared'
      BY <2>1, <2>2, <2>4, PlanGoes DEF Places, Ends
    <3> QED BY <1>1, <2>3, <3>1, <3>2
  <2>5. CASE End(FALSE)
    <3>1. call'.at \in Ends
      BY <2>5 DEF End, NoCall, Ends
    <3>2. Ordered' /\ Cleared'
      BY <2>1, <2>2, <2>5, PlanEnds
    <3> QED BY <1>1, <2>3, <3>1, <3>2
  <2> QED BY <1>2, <2>4, <2>5 DEF StepFails
<1>3. CASE ClearFails
  <2>1. up /\ call.at = "clear" /\ Go("release") /\ UNCHANGED <<file, dirs, made>>
    BY <1>3 DEF ClearFails, At, pool
  <2>2. call \in Calling /\ file # NoFile
    BY <2>1, WorkFinds DEF Ends
  <2>3. Sound' /\ Unmade'
    BY <2>1, <2>2 DEF UInv, Recorded, Sound, Unmade, Usable, Present
  <2>4. Ordered' /\ Cleared' /\ call'.at = "release"
    BY <2>1, <2>2, PlanGoes DEF Places, Ends, Go, Calling
  <2> QED BY <1>1, <2>3, <2>4
<1>4. ASSUME Down
      PROVE  call'.at \in Ends /\ Ordered' /\ Cleared' /\ UNCHANGED made
  BY <1>4 DEF Down, NoCall, Ends, Ordered, RemovedFirst, Waited, OfMade, Cleared
<1>5. CASE Crash
  <2>1. up /\ Halfway /\ call'.at \in Ends /\ Ordered' /\ Cleared' /\ UNCHANGED made
    BY <1>4, <1>5 DEF Crash, Cut
  <2>2. Sound' /\ Unmade'
    <3>1. CASE call.at \notin Ends
      BY <2>1, <3>1, WorkFinds, HalfwayRecords, UnmadeKeeps
    <3>2. CASE call.at \in Ends
      <4>1. UNCHANGED <<file, dirs>> /\ file # NoFile
        BY <2>1, <3>2 DEF Halfway, Ends, IInv, TypeOK
      <4> QED BY <2>1, <4>1 DEF UInv, Recorded, Sound, Unmade, Usable, Present
    <3> QED BY <3>1, <3>2
  <2> QED BY <1>1, <2>1, <2>2
<1>6. CASE PowerFails
  <2>1. UNCHANGED <<file, made>> /\ call'.at \in Ends /\ Ordered' /\ Cleared'
    BY <1>4, <1>6 DEF PowerFails
  <2>2. \A k \in StorageKeys : dirs'[k] = dirs[k] \/ dirs[k].has = "fresh"
    BY <1>6 DEF PowerFails
  <2>3. file # NoFile /\ up
    BY <1>6 DEF PowerFails, IInv, TypeOK
  <2>4. \A k \in StorageKeys : dirs'[k].has # "absent" => dirs[k].has # "absent"
    BY <2>2
  <2>5. Unmade'
    BY <2>1, <2>3 DEF UInv, Recorded, Unmade
  <2>6. Sound'
    <3> SUFFICES ASSUME NEW k \in Kept, dirs'[k].has # "absent", file'[k].state = "done"
                 PROVE  dirs'[k].projid = file'[k].projid /\ dirs'[k].has \in {"whole", "torn"}
      BY DEF Sound, Usable, Present
    <3>1. Usable(k) /\ k \in StorageKeys
      BY <2>1, <2>4, KeptAreKeys DEF Usable, Present
    <3>2. dirs[k].projid = file[k].projid /\ dirs[k].has \in {"whole", "torn"}
      BY <2>3, <3>1 DEF UInv, Recorded, Sound
    <3> QED BY <2>1, <2>2, <3>1, <3>2
  <2> QED BY <1>1, <2>1, <2>5, <2>6
<1>7. CASE LoseRegistry
  BY <1>7 DEF LoseRegistry, UInv, Makes, Ordered, RemovedFirst, Waited, OfMade
<1> QED BY <1>2, <1>3, <1>5, <1>6, <1>7

\* A call that nobody waits for, or none, is not the one of the plan.
LEMMA NotAsked ==
  ASSUME TypeOK, call.at \in Ends \/ plan = <<>> \/ plan[1].do = "ensure"
  PROVE  ~call.asked
<1>1. call \in Calling \/ \E end \in Ends : call = NoCall(end)
  BY DEF TypeOK
<1>2. CASE \E end \in Ends : call = NoCall(end)
  BY <1>2 DEF NoCall
<1>3. CASE call \in Calling
  BY <1>3 DEF TypeOK, Calling
<1> QED BY <1>1, <1>2, <1>3

\* The plans remove before they make.
LEMMA PlansRemoveFirst ==
  ASSUME NEW s \in Spaces, NEW p \in {SnapshotPlan(s), RestorePlan(s), DestroyPlan(s)}
  PROVE  /\ p # <<>> /\ ~Making(p[1])
         /\ \A i \in 2..Len(p) : Making(p[i]) => p[i - 1] = Remove(p[i].key)
         /\ \A i \in 1..Len(p) : p[i].key[1] = s
<1>1. \A k : Create(k).key = k /\ Remove(k).key = k /\ Ensure(k).key = k
  BY DEF Create, Remove, Ensure
<1>2. \A k : ~Making(Remove(k)) /\ ~Making(Ensure(k))
  BY DEF Making, Remove, Ensure
<1>3. \A k, l : Copy(k, l).key = l
  BY DEF Copy
<1>4. \A kind : Key(s, kind)[1] = s
  BY DEF Key
<1>5. Key(s, "recovery") \notin Kept
  BY DEF Kept, Key
<1>6. CASE p = SnapshotPlan(s)
  <2>1. Len(p) = 2 /\ p[1] = Remove(Key(s, "prev")) /\ p[2] = Copy(Key(s, "live"), Key(s, "prev"))
    BY <1>6 DEF SnapshotPlan
  <2>2. \A i \in 1..Len(p) : i = 1 \/ i = 2
    BY <2>1
  <2> QED BY <1>1, <1>2, <1>3, <1>4, <2>1, <2>2
<1>7. CASE p = RestorePlan(s)
  <2>1. /\ Len(p) = 5 /\ p[1] = Ensure(Key(s, "prev"))
        /\ p[2] = Copy(Key(s, "live"), Key(s, "recovery"))
        /\ p[3] = Remove(Key(s, "live"))
        /\ p[4] = Copy(Key(s, "prev"), Key(s, "live"))
        /\ p[5] = Remove(Key(s, "recovery"))
    BY <1>7 DEF RestorePlan
  <2>2. \A i \in 1..Len(p) : i = 1 \/ i = 2 \/ i = 3 \/ i = 4 \/ i = 5
    BY <2>1
  <2>3. ~Making(p[2])
    BY <1>3, <1>5, <2>1 DEF Making
  <2>4. p[4].key = Key(s, "live") /\ 4 - 1 = 3
    BY <1>3, <2>1
  <2>5. ~Making(p[1]) /\ ~Making(p[3]) /\ ~Making(p[5])
    BY <1>2, <2>1
  <2>6. \A i \in 2..Len(p) : Making(p[i]) => p[i - 1] = Remove(p[i].key)
    BY <2>1, <2>2, <2>3, <2>4, <2>5
  <2>7. \A i \in 1..Len(p) : p[i].key[1] = s
    BY <1>1, <1>3, <1>4, <2>1, <2>2
  <2> QED BY <2>1, <2>5, <2>6, <2>7
<1>8. CASE p = DestroyPlan(s)
  <2>1. /\ Len(p) = 3 /\ p[1] = Remove(Key(s, "live")) /\ p[2] = Remove(Key(s, "prev"))
        /\ p[3] = Remove(Key(s, "recovery"))
    BY <1>8 DEF DestroyPlan
  <2>2. \A i \in 1..Len(p) : i = 1 \/ i = 2 \/ i = 3
    BY <2>1
  <2> QED BY <1>1, <1>2, <1>4, <2>1, <2>2
<1> QED BY <1>6, <1>7, <1>8

\* ... and what the control plane and a start do.
LEMMA RestRecords ==
  ASSUME IInv, UInv, [Next]_vars,
         ~Work, ~(StepFails \/ ClearFails \/ Crash \/ PowerFails \/ LoseRegistry)
  PROVE  UInv'
<1>1. TypeOK
  BY DEF IInv
<1>2. ASSUME UNCHANGED <<file, dirs, call>>, Ordered', file # NoFile => Cleared' /\ Unmade'
      PROVE  UInv'
  BY <1>2 DEF UInv, Recorded, Makes, Sound, Fresh, Pending, Unrecorded, Usable, Present
<1>3. CASE UNCHANGED vars
  <2>1. UNCHANGED <<file, dirs, call, plan, made>>
    BY <1>3 DEF vars, pool
  <2> QED BY <1>2, <2>1 DEF UInv, Recorded, Ordered, RemovedFirst, Waited, OfMade, Cleared, Unmade
<1>4. ASSUME NEW s \in Spaces, AskForData(s)
      PROVE  UInv'
  <2>1. /\ s \notin made /\ made' = made \cup {s} /\ plan = <<>> /\ plan' = <<Create(Key(s, "live"))>>
        /\ UNCHANGED <<file, dirs, call>>
    BY <1>4 DEF AskForData, Begin, CreatePlan, pool
  <2>2. /\ plan'[1].do = "create" /\ plan'[1].key = Key(s, "live") /\ Len(plan') = 1
        /\ plan'[1].key[1] = s
    BY <2>1 DEF Create, Key
  <2>3. call.at \in Ends
    BY <1>4 DEF AskForData, Begin, CreatePlan, Create
  <2>4. ~call.asked
    BY <1>1, <2>1, NotAsked
  <2>5. Ordered'
    BY <2>1, <2>2, <2>3, <2>4 DEF Ordered, RemovedFirst, Waited, OfMade
  <2>6. file # NoFile => Cleared' /\ Unmade'
    BY <2>1, <2>2, <2>3 DEF UInv, Recorded, Cleared, Unmade
  <2> QED BY <1>2, <2>1, <2>5, <2>6
<1>5. ASSUME NEW s \in Spaces, AskForPlan(s)
      PROVE  UInv'
  <2>1. PICK p \in {SnapshotPlan(s), RestorePlan(s), DestroyPlan(s)} : Begin(p)
    BY <1>5 DEF AskForPlan
  <2>2. s \in made /\ plan' = p /\ plan = <<>> /\ UNCHANGED <<file, dirs, call, made>>
    BY <1>5, <2>1 DEF AskForPlan, Begin, pool
  <2>3. ~call.asked
    BY <1>1, <2>2, NotAsked
  <2>4. Ordered' /\ Cleared'
    BY <2>2, <2>3, PlansRemoveFirst DEF Ordered, RemovedFirst, Waited, OfMade, Cleared, UInv
  <2> QED BY <1>2, <2>2, <2>4 DEF UInv, Recorded, Unmade
<1>6. CASE GiveUp
  <2>1. plan' = <<>> /\ call' = [call EXCEPT !.asked = FALSE] /\ UNCHANGED <<file, dirs, made>>
    BY <1>6 DEF GiveUp, pool
  <2>2. /\ call'.at = call.at /\ call'.id = call.id /\ call'.key = call.key /\ call'.do = call.do
        /\ ~call'.asked
    <3>1. CASE call \in Calling
      BY <2>1, <3>1 DEF Calling
    <3>2. CASE \E end \in Ends : call = NoCall(end)
      BY <2>1, <3>2 DEF NoCall
    <3> QED BY <1>1, <3>1, <3>2 DEF TypeOK
  <2>3. Ordered' /\ Cleared'
    BY <2>1, <2>2 DEF UInv, Ordered, RemovedFirst, Waited, OfMade, Cleared
  <2> QED BY <2>1, <2>2, <2>3
       DEF UInv, Recorded, Makes, Sound, Fresh, Pending, Unrecorded, Unmade, Usable, Present
<1>7. CASE Check
  <2>1. /\ plan # <<>> /\ plan[1].do = "ensure" /\ UNCHANGED <<file, dirs, call, made>>
        /\ plan' = Tail(plan) \/ plan' = <<>>
    BY <1>7 DEF Check, pool
  <2>2. ~call.asked /\ plan \in Seq(CallsAsked)
    BY <1>1, <2>1, NotAsked DEF TypeOK
  <2>3. CASE plan' = <<>>
    BY <1>2, <2>1, <2>2, <2>3 DEF UInv, Ordered, Recorded, RemovedFirst, Waited, OfMade, Cleared, Unmade
  <2>4. CASE plan' = Tail(plan) /\ plan' # <<>>
    <3>1. /\ RemovedFirst'
          /\ Making(plan'[1]) => plan[1] = Remove(plan'[1].key)
          /\ \A i \in 1..Len(plan') : i + 1 \in 1..Len(plan) /\ plan'[i] = plan[i + 1]
      BY <2>1, <2>2, <2>4, NextOfPlan DEF UInv, Ordered
    <3>2. OfMade' /\ Waited'
      BY <2>1, <2>2, <3>1 DEF OfMade, Waited, UInv, Ordered
    <3>3. ~Making(plan'[1])
      BY <2>1, <3>1 DEF Remove
    <3> QED BY <1>2, <2>1, <3>1, <3>2, <3>3 DEF Ordered, Cleared, UInv, Recorded, Unmade
  <2> QED BY <2>1, <2>3, <2>4
<1>8. CASE Receive
  <2>1. /\ up /\ plan # <<>> /\ plan[1] \in CallsAsked /\ call.at \in Ends
        /\ UNCHANGED <<file, dirs, plan, made>>
    BY <1>1, <1>8, CallTyped DEF Receive, pool
  <2>2. /\ call'.at \in {"mkdir", "look", "ensure"} /\ call'.key = plan[1].key /\ call'.do = plan[1].do
        /\ call'.asked /\ (call'.at # "look" => plan[1].do \in {"create", "copy"})
    BY <1>8, <2>1 DEF Receive, CallsAsked
  <2>3. ~call.asked /\ file # NoFile /\ Len(plan) \in Nat /\ 1 \in 1..Len(plan)
    BY <1>1, <2>1, NotAsked DEF TypeOK
  <2>4. Ordered' /\ Cleared'
    BY <2>1, <2>2, <2>3 DEF UInv, Ordered, RemovedFirst, Waited, OfMade, Cleared
  <2>5. Fresh'
    BY <2>1, <2>2, <2>3 DEF UInv, Recorded, Cleared, Making, Fresh
  <2> QED BY <2>1, <2>2, <2>3, <2>4, <2>5
       DEF UInv, Recorded, Makes, Sound, Pending, Unrecorded, Unmade, Usable, Present
<1>9. CASE Start
  <2>1. ~up /\ UNCHANGED <<dirs, call, plan, made>> /\ call.at \in Ends
    BY <1>1, <1>9 DEF Start, TypeOK
  <2>2. CASE file # NoFile
    BY <1>9, <2>1, <2>2
       DEF Start, UInv, Ordered, Recorded, RemovedFirst, Waited, OfMade, Makes, Sound, Fresh, Pending,
           Unrecorded, Cleared, Unmade, Usable, Present
  <2>3. CASE file = NoFile
    <3>1. /\ \A k \in StorageKeys : file'[k].state = "none"
      BY <1>9, <2>3, EmptyTyped DEF Start, NoRecord
    <3>2. \A k \in StorageKeys : ~Active(file'[k])
      BY <3>1 DEF Active
    <3>3. Sound'
      BY <3>1, KeptAreKeys DEF Sound, Usable
    <3>4. Unmade'
      BY <3>2, StorageAssumption DEF Unmade, Key
    <3>5. Cleared'
      BY <2>1, <3>2, KeptAreKeys DEF Cleared, Making, UInv
    <3> QED BY <2>1, <3>3, <3>4, <3>5
         DEF UInv, Ordered, Recorded, RemovedFirst, Waited, OfMade, Makes, Fresh, Pending, Unrecorded, Ends
  <2> QED BY <2>2, <2>3
<1>10. CASE StartDies
  BY <1>2, <1>10
     DEF StartDies, UInv, Ordered, Recorded, RemovedFirst, Waited, OfMade, Cleared, Unmade
<1> QED BY <1>3, <1>4, <1>5, <1>6, <1>7, <1>8, <1>9, <1>10 DEF Next

-----------------------------------------------------------------------------
(* The theorems about data.                                                *)

\* A directory with data in it is inside its limit, whatever fails.
THEOREM DataAlwaysLimited == Spec => []DataIsLimited
<1>1. Init => LInv
  BY DEF Init, NoDir, LInv, DataIsLimited, Bare, Charged, Limited, Removed, NoCall
<1>2. IInv /\ LInv /\ [Next]_vars => LInv'
  BY WorkLimits, RestLimits
<1>3. LInv => DataIsLimited
  BY DEF LInv
<1> QED BY <1>1, <1>2, <1>3, StorageInvariant, PTL DEF Spec

\* Both invariants about data hold throughout.
LEMMA RecordsHold == Spec => [](LInv /\ UInv)
<1>1. Init => LInv /\ UInv
  BY DEF Init, NoDir, LInv, DataIsLimited, Bare, Charged, Limited, Removed, NoCall, UInv, Makes, Ordered,
         RemovedFirst, Waited, OfMade, Ends
<1>2. IInv /\ (LInv /\ UInv) /\ [Next]_vars => (LInv /\ UInv)'
  BY WorkLimits, RestLimits, WorkRecords, FaultsRecord, RestRecords
<1> QED BY <1>1, <1>2, StorageInvariant, PTL DEF Spec

\* Data that may be used is whole, on its own project and inside its limit.
THEOREM UsableAlwaysSound == Spec => []UsableIsSound
<1>1. IInv /\ (LInv /\ UInv) => UsableIsSound
  <2> SUFFICES ASSUME IInv, LInv, UInv, up, NEW s \in Spaces, NEW kind \in {"live", "prev"},
                      Usable(Key(s, kind))
               PROVE  /\ dirs[Key(s, kind)].projid = file[Key(s, kind)].projid
                      /\ file[Key(s, kind)].projid \in limited
                      /\ dirs[Key(s, kind)].has \in {"whole", "torn"}
    BY DEF UsableIsSound
  <2>1. Key(s, kind) \in Kept /\ Key(s, kind) \in StorageKeys
    BY KeptAreKeys DEF Key, Kept
  <2>2. file # NoFile
    BY DEF IInv, TypeOK
  <2> QED BY <2>1, <2>2 DEF UInv, Recorded, Sound, LInv, DataIsLimited
<1> QED BY <1>1, StorageInvariant, RecordsHold, PTL

-----------------------------------------------------------------------------
(* What a call leaves of its key (NodeOutcomes).                           *)

\* What the registry says of a key, and what the two together come to.
RecordOf(k) == IF Active(file[k]) THEN file[k].state ELSE "none"
Left(dir, rec) == [dir |-> dir, rec |-> rec, tag |-> None]
Nowhere == Left(Missing, "none")

Entries == [dir : {0, Missing, Damaged}, rec : {"none", "pending", "done"}, tag : {None}]

\* What the control plane asks for: data is made live, and copied between two
\* keys of one workspace, from one it is used from.
Orderly(c) ==
    /\ c.do = "create" => c.key[2] = "live"
    /\ c.do = "copy" => c.from \in Kept /\ c.from[1] = c.key[1] /\ c.from # c.key

\* The directory a call copies from: in use, and whole or not.
Source == call.do = "copy" => Usable(call.from) /\ dirs[call.from].has \in {"whole", "torn"}
Copied == IF call.do = "copy" /\ dirs[call.from].has # "whole" THEN "torn" ELSE "whole"

\* The places of each kind of call.
Cleaning == {"look", "rm", "clear", "release"}
Stages ==
    /\ call.do = "create" => call.at \in {"mkdir", "allocate", "project", "limit", "sync", "complete"}
    /\ call.do = "remove" => call.at \in Cleaning

\* Where a call stands, said of what its key held when it came in.
Course ==
    /\ Orderly(call) /\ Stages /\ was \in Entries
    /\ call.at # "ensure" => Source
    /\ call.at \in {"ensure", "mkdir"} => was = Entry(call.key)
    /\ call.at = "allocate" => was.dir = Missing /\ was.rec = RecordOf(call.key)
    /\ call.at \in {"project", "limit", "fill", "sync", "complete"} =>
         was = Nowhere /\ Present(call.key)
    /\ call.at = "complete" => dirs[call.key].has = Copied
    /\ call.do = "remove" =>
         /\ was.rec = RecordOf(call.key)
         /\ call.at \in {"look", "rm"} => was = Entry(call.key)
    /\ call.do = "copy" /\ call.at \in Cleaning =>
         /\ was = Nowhere /\ Active(file[call.key])
         /\ file[call.key].state = "done" => dirs[call.key].has \in {"absent", "torn", Copied}

OInv ==
    /\ \A i \in 1..Len(plan) : Orderly(plan[i])
    /\ call.at \notin Ends => Course

\* What a call may leave of its key, in the terms of RuntimeNode.
Leaves(e, good) ==
    \/ ~good /\ e = was
    \/ /\ call.do = "create" /\ was.dir = Missing
       /\ \/ was.rec = "none" /\ e = Left(0, "done")
          \/ ~good /\ was.rec = "none" /\ e \in {Left(Damaged, "none"), Left(Damaged, "pending")}
          \/ ~good /\ was.rec # "none" /\ e = Left(Damaged, was.rec)
    \/ /\ call.do = "remove"
       /\ \/ e = Nowhere
          \/ ~good /\ e = Left(Missing, was.rec)
          \/ ~good /\ was.dir # Missing /\ e = Left(Damaged, was.rec)
    \/ /\ call.do = "copy" /\ was.dir = Missing /\ Source
       /\ \/ was.rec = "none" /\ e = Left(Entry(call.from).dir, "done")
          \/ /\ ~good /\ was.rec = "none"
             /\ e \in {Left(d, r) : d \in {Damaged, Missing}, r \in {"none", "pending", "done"}}
          \/ ~good /\ was.rec # "none" /\ e = Left(Damaged, was.rec)

\* An entry, of a directory and a record.
EntryFor(d, r) ==
    Left(IF d.has = "absent" THEN Missing
         ELSE IF r.state = "done" /\ d.has = "whole" THEN 0 ELSE Damaged,
         IF Active(r) THEN r.state ELSE "none")

\* The entry of a key is that of its directory and its record, before a step
\* and after it.
LEMMA EntrySplits ==
  ASSUME NEW k
  PROVE  Entry(k) = EntryFor(dirs[k], file[k]) /\ Entry(k)' = EntryFor(dirs'[k], file'[k])
<1>1. Entry(k) = EntryFor(dirs[k], file[k])
  <2>1. CASE ~Present(k)
    BY <2>1 DEF Entry, EntryFor, Left, Present
  <2>2. CASE Present(k) /\ file[k].state = "done" /\ dirs[k].has = "whole"
    BY <2>2 DEF Entry, EntryFor, Left, Present
  <2>3. CASE Present(k) /\ ~(file[k].state = "done" /\ dirs[k].has = "whole")
    BY <2>3 DEF Entry, EntryFor, Left, Present
  <2> QED BY <2>1, <2>2, <2>3
<1>2. Entry(k)' = EntryFor(dirs'[k], file'[k])
  <2>1. CASE ~Present(k)'
    BY <2>1 DEF Entry, EntryFor, Left, Present
  <2>2. CASE Present(k)' /\ file'[k].state = "done" /\ dirs'[k].has = "whole"
    BY <2>2 DEF Entry, EntryFor, Left, Present
  <2>3. CASE Present(k)' /\ ~(file'[k].state = "done" /\ dirs'[k].has = "whole")
    BY <2>3 DEF Entry, EntryFor, Left, Present
  <2> QED BY <2>1, <2>2, <2>3
<1> QED BY <1>1, <1>2

\* What an entry says.
LEMMA EntryTyped ==
  ASSUME NEW d, NEW r \in Records
  PROVE  /\ EntryFor(d, r) \in Entries
         /\ EntryFor(d, r).rec = IF Active(r) THEN r.state ELSE "none"
         /\ EntryFor(d, r).dir = Missing <=> d.has = "absent"
BY OutcomeAssumption DEF EntryFor, Left, Entries, Records, Active

\* What a plan has left is as orderly as the plan.
LEMMA PlanOrderly ==
  ASSUME TypeOK, OInv, plan' = plan \/ plan' = <<>> \/ (plan # <<>> /\ plan' = Tail(plan))
  PROVE  \A i \in 1..Len(plan') : Orderly(plan'[i])
<1>1. plan \in Seq(CallsAsked)
  BY DEF TypeOK
<1>2. CASE plan # <<>> /\ plan' = Tail(plan)
  <2>1. /\ Len(plan) \in Nat /\ Len(plan) # 0 /\ Len(plan') = Len(plan) - 1
        /\ \A i \in 1..Len(plan') : plan'[i] = plan[i + 1]
    BY <1>1, <1>2
  <2>2. \A i \in 1..Len(plan') : i + 1 \in 1..Len(plan)
    BY <2>1
  <2> QED BY <2>1, <2>2 DEF OInv
<1> QED BY <1>2 DEF OInv

\* What a call ends with is what it may.
Closes ==
    call'.at \in Ends =>
        Leaves(EntryFor(dirs'[call.key], file'[call.key]), call'.at = "done")

\* A step of a call is as far as another key can see.
Elsewhere ==
    \A k \in StorageKeys \ {call.key} : dirs'[k] = dirs[k] /\ file'[k] = file[k]

\* What a call keeps while it goes on.
LEMMA CourseGoes ==
  ASSUME OInv, call.at \notin Ends, call.key \in StorageKeys, call.from \in StorageKeys, Elsewhere,
         call'.do = call.do, call'.key = call.key, call'.from = call.from
  PROVE  /\ Orderly(call)' 
         /\ Source => Source' /\ Copied' = Copied
         /\ call.at # "ensure" => Source'
<1>1. Course /\ Orderly(call)
  BY DEF OInv, Course
<1>2. Orderly(call)'
  BY <1>1 DEF Orderly
<1>3. call.do = "copy" => dirs'[call.from] = dirs[call.from] /\ file'[call.from] = file[call.from]
  BY <1>1 DEF Orderly, Elsewhere
<1>4. Source => Source' /\ Copied' = Copied
  BY <1>3 DEF Source, Copied, Usable, Present
<1> QED BY <1>1, <1>2, <1>4 DEF Course

\* What is remembered of a call.
Remembers ==
    was' = IF call.at \in Ends /\ call'.at \notin Ends
           THEN Entry(plan[1].key)
           ELSE IF call'.at \in Ends THEN None ELSE was

\* Each step of a call keeps its course, and the last leaves what the call may.
LEMMA WorkCourse ==
  ASSUME IInv, LInv, UInv, OInv, Work, Remembers
  PROVE  OInv' /\ Closes /\ (call'.at \in Ends => Elsewhere)
<1>1. /\ up /\ call.at \notin Ends
      /\ plan' = plan \/ plan' = <<>> \/ (plan # <<>> /\ plan' = Tail(plan))
  BY DEF Work, At, Ends, EnsureStorage, MakeDirectory, AllocateProject, SetProject, SetLimit,
         FillCopy, SyncData, CompleteProject, LookUp, RemoveDirectory, ClearProject, ReleaseProject,
         Go, End, IInv, TypeOK
<1>2. /\ call \in Calling /\ call.key \in StorageKeys /\ call.from \in StorageKeys
      /\ call.id \in Ids \cup {0} /\ dirs \in Dirs /\ file \in Files /\ file # NoFile /\ TypeOK
  BY <1>1, WorkFinds DEF IInv
<1>3. /\ Course /\ Orderly(call) /\ Stages /\ was \in Entries
      /\ Bare /\ Removed /\ Pending /\ Unrecorded /\ Sound /\ Makes
  BY <1>1, <1>2 DEF OInv, Course, LInv, UInv, Recorded
<1>4. ASSUME NEW place \in Places \ Ends, Go(place)
      PROVE  /\ call'.at = place /\ call'.id = call.id /\ call'.key = call.key /\ call'.do = call.do
             /\ call'.from = call.from /\ was' = was
  BY <1>1, <1>2, <1>4 DEF Go, Calling, Remembers
<1>5. ASSUME NEW good \in BOOLEAN, End(good), Elsewhere,
             Leaves(EntryFor(dirs'[call.key], file'[call.key]), good)
      PROVE  OInv' /\ Closes /\ (call'.at \in Ends => Elsewhere)
  <2>1. call'.at = IF good THEN "done" ELSE "failed"
    BY <1>5 DEF End, NoCall
  <2>2. Leaves(EntryFor(dirs'[call.key], file'[call.key]), call'.at = "done")
    BY <1>5, <2>1
  <2> QED BY <1>1, <1>2, <1>5, <2>1, <2>2, PlanOrderly DEF OInv, Closes, Ends
<1>6. ASSUME Course', call'.at \notin Ends
      PROVE  OInv' /\ Closes /\ (call'.at \in Ends => Elsewhere)
  BY <1>1, <1>2, <1>6, PlanOrderly DEF OInv, Closes
<1>7. /\ dirs[call.key] \in [has : Contents, projid : Ids \cup {0}] /\ file[call.key] \in Records
      /\ Entry(call.key) = EntryFor(dirs[call.key], file[call.key])
      /\ RecordOf(call.key) = Entry(call.key).rec
      /\ Entry(call.key).dir = Missing <=> dirs[call.key].has = "absent"
  BY <1>2, EntrySplits, EntryTyped DEF Dirs, Files, RecordOf
<1>8. CASE EnsureStorage
  <2>1. call.at = "ensure" /\ UNCHANGED <<file, dirs>> /\ Elsewhere
    BY <1>8 DEF EnsureStorage, At, Elsewhere
  <2>2. call.do = "copy" /\ was = Entry(call.key)
    BY <1>2, <1>3, <2>1 DEF Course, Stages, Calling, Cleaning
  <2>3. CASE Usable(call.from)
    <3>1. Go("mkdir")
      BY <1>8, <2>3 DEF EnsureStorage
    <3>2. Source
      BY <1>3, <2>2, <2>3 DEF Source, Orderly, Sound
    <3>3. call'.at = "mkdir" /\ call'.do = call.do /\ call'.key = call.key /\ call'.from = call.from
          /\ was' = was
      BY <1>4, <3>1 DEF Places, Ends
    <3>4. Orderly(call)' /\ Source'
      BY <1>1, <1>2, <2>1, <3>2, <3>3, CourseGoes
    <3>5. was' = Entry(call.key)' /\ was' \in Entries
      BY <1>3, <1>7, <2>1, <2>2, <3>3, EntrySplits
    <3> QED BY <1>6, <2>2, <3>3, <3>4, <3>5 DEF Course, Stages, Cleaning, Ends
  <2>4. CASE ~Usable(call.from)
    <3>1. End(FALSE)
      BY <1>8, <2>4 DEF EnsureStorage
    <3>2. Leaves(EntryFor(dirs'[call.key], file'[call.key]), FALSE)
      BY <1>7, <2>1, <2>2 DEF Leaves
    <3> QED BY <1>5, <2>1, <3>1, <3>2
  <2> QED BY <2>3, <2>4
<1>9. CASE MakeDirectory
  <2>1. call.at = "mkdir" /\ UNCHANGED file
    BY <1>9 DEF MakeDirectory, At
  <2>2. was = Entry(call.key) /\ call.do # "remove"
    BY <1>3, <2>1 DEF Course, Stages, Cleaning
  <2>3. CASE Present(call.key)
    <3>1. End(FALSE) /\ UNCHANGED dirs /\ Elsewhere
      BY <1>9, <2>1, <2>3 DEF MakeDirectory, Elsewhere
    <3>2. Leaves(EntryFor(dirs'[call.key], file'[call.key]), FALSE)
      BY <1>7, <2>1, <2>2, <3>1 DEF Leaves
    <3> QED BY <1>5, <3>1, <3>2
  <2>4. CASE ~Present(call.key)
    <3>1. Go("allocate") /\ Elsewhere /\ UNCHANGED file
      BY <1>2, <1>9, <2>1, <2>4, HasSet DEF MakeDirectory, Elsewhere, Contents
    <3>2. call'.at = "allocate" /\ call'.do = call.do /\ call'.key = call.key /\ call'.from = call.from
          /\ was' = was
      BY <1>4, <3>1 DEF Places, Ends
    <3>3. Orderly(call)' /\ Source'
      BY <1>1, <1>2, <2>1, <3>1, <3>2, CourseGoes
    <3>4. was'.dir = Missing /\ was'.rec = RecordOf(call.key)' /\ was' \in Entries
      BY <1>3, <1>7, <2>2, <2>4, <3>1, <3>2 DEF Present, RecordOf
    <3> QED BY <1>6, <2>2, <3>2, <3>3, <3>4 DEF Course, Stages, Cleaning, Ends
  <2> QED BY <2>3, <2>4
<1>10. CASE AllocateProject
  <2>1. call.at = "allocate" /\ UNCHANGED dirs
    BY <1>10 DEF AllocateProject, At
  <2>2. /\ was.dir = Missing /\ was.rec = RecordOf(call.key) /\ call.do \in {"create", "copy"} /\ Source
        /\ dirs[call.key].has = "bare"
    BY <1>2, <1>3, <2>1 DEF Course, Stages, Cleaning, Calling, Bare
  <2>3. CASE UNCHANGED file /\ End(FALSE)
    <3>1. Elsewhere
      BY <2>1, <2>3 DEF Elsewhere
    <3>2. EntryFor(dirs'[call.key], file'[call.key]) = Left(Damaged, was.rec)
      BY <2>1, <2>2, <2>3 DEF EntryFor, RecordOf
    <3>3. was.rec \in {"none", "pending", "done"}
      BY <1>3 DEF Entries
    <3>4. Leaves(EntryFor(dirs'[call.key], file'[call.key]), FALSE)
      BY <2>2, <3>2, <3>3 DEF Leaves
    <3> QED BY <1>5, <2>3, <3>1, <3>4
  <2>4. ASSUME NEW i, ~Active(file[call.key]), file' = Allocate(file, call.key, i),
               call' = [call EXCEPT !.at = "project", !.id = i]
        PROVE  OInv' /\ Closes /\ (call'.at \in Ends => Elsewhere)
    <3>1. /\ call'.at = "project" /\ call'.do = call.do /\ call'.key = call.key
          /\ call'.from = call.from
      BY <1>2, <2>4 DEF Calling
    <3>2. was' = was /\ was = Nowhere
      BY <1>1, <1>3, <2>2, <2>4, <3>1 DEF Remembers, Entries, Nowhere, Left, RecordOf, Ends
    <3>3. Elsewhere
      BY <1>2, <2>1, <2>4, WritesOne DEF Elsewhere
    <3>4. Orderly(call)' /\ Source'
      BY <1>1, <1>2, <2>1, <3>1, <3>3, CourseGoes
    <3>5. Present(call.key)'
      BY <2>1, <2>2, <3>1 DEF Present
    <3> QED BY <1>3, <1>6, <2>2, <3>1, <3>2, <3>4, <3>5 DEF Course, Stages, Cleaning, Ends
  <2> QED BY <1>10, <2>2, <2>3, <2>4 DEF AllocateProject
<1>11. ASSUME call.at \in {"project", "limit", "fill", "sync"}, Elsewhere,
              NEW place \in {"limit", "fill", "sync", "complete"}, Go(place),
              call.do = "create" => place # "fill", dirs'[call.key].has # "absent",
              place = "complete" => dirs'[call.key].has = Copied
       PROVE  OInv' /\ Closes /\ (call'.at \in Ends => Elsewhere)
  <2>1. was = Nowhere /\ Source /\ call.do \in {"create", "copy"}
    BY <1>2, <1>3, <1>11 DEF Course, Stages, Cleaning, Calling
  <2>2. call'.at = place /\ call'.do = call.do /\ call'.key = call.key /\ call'.from = call.from
        /\ was' = was
    BY <1>4, <1>11 DEF Places, Ends
  <2>3. Orderly(call)' /\ Source' /\ Copied' = Copied
    BY <1>1, <1>2, <1>11, <2>1, <2>2, CourseGoes
  <2>4. Present(call.key)'
    BY <1>11, <2>2 DEF Present
  <2> QED BY <1>3, <1>6, <1>11, <2>1, <2>2, <2>3, <2>4 DEF Course, Stages, Cleaning, Ends
<1>12. CASE SetProject
  <2>1. Elsewhere /\ dirs'[call.key].has # "absent"
    BY <1>2, <1>3, <1>12 DEF SetProject, At, Course, Present, Elsewhere, Dirs
  <2> QED BY <1>11, <1>12, <2>1 DEF SetProject, At
<1>13. CASE SetLimit
  <2>1. Elsewhere /\ dirs'[call.key].has # "absent"
    BY <1>2, <1>3, <1>13 DEF SetLimit, At, Course, Present, Elsewhere, Dirs
  <2> QED BY <1>11, <1>13, <2>1 DEF SetLimit, At
<1>14. CASE FillCopy
  <2>1. Elsewhere /\ dirs'[call.key].has # "absent"
    BY <1>2, <1>14 DEF FillCopy, Elsewhere, Dirs
  <2> QED BY <1>11, <1>14, <2>1 DEF FillCopy, At
<1>15. CASE SyncData
  <2>1. Elsewhere /\ dirs'[call.key].has = Copied
    BY <1>2, <1>15 DEF SyncData, Elsewhere, Dirs, Copied
  <2>2. Copied # "absent"
    BY DEF Copied
  <2> QED BY <1>11, <1>15, <2>1, <2>2 DEF SyncData, At
<1>16. CASE CompleteProject
  <2>1. call.at = "complete" /\ UNCHANGED dirs
    BY <1>16 DEF CompleteProject, At
  <2>2. /\ file[call.key].state = "pending" /\ file[call.key].projid = call.id
        /\ was = Nowhere /\ Source /\ call.do \in {"create", "copy"}
        /\ dirs[call.key].has = Copied
    BY <1>2, <1>3, <2>1 DEF Pending, Course, Stages, Cleaning, Calling
  <2>3. file' = Complete(file, call.key) /\ End(TRUE)
    BY <1>16, <2>2 DEF CompleteProject, Active
  <2>4. /\ file'[call.key].state = "done"
        /\ Elsewhere
    BY <1>2, <1>7, <2>1, <2>3 DEF Complete, Files, Records, Elsewhere
  <2>5. EntryFor(dirs'[call.key], file'[call.key]) =
          Left(IF Copied = "whole" THEN 0 ELSE Damaged, "done")
    BY <2>1, <2>2, <2>4 DEF EntryFor, Active, Copied
  <2>6. call.do = "copy" => Entry(call.from).dir = IF Copied = "whole" THEN 0 ELSE Damaged
    BY <2>2, EntrySplits DEF Source, Copied, EntryFor, Left, Usable, Present
  <2>7. Leaves(EntryFor(dirs'[call.key], file'[call.key]), TRUE)
    BY <2>2, <2>5, <2>6 DEF Leaves, Nowhere, Left, Copied
  <2> QED BY <1>5, <2>3, <2>4, <2>7
<1>17. CASE LookUp
  <2>1. /\ call.at = "look" /\ UNCHANGED <<file, dirs>> /\ Elsewhere
        /\ call'.at = "rm" /\ call'.key = call.key /\ call'.do = call.do /\ call'.from = call.from
    BY <1>2, <1>17 DEF LookUp, At, Calling, Elsewhere
  <2>2. was' = was
    BY <1>1, <2>1 DEF Remembers, Ends
  <2>3. Orderly(call)' /\ Source' /\ (Source => Copied' = Copied)
    BY <1>1, <1>2, <2>1, CourseGoes
  <2>4. Entry(call.key)' = Entry(call.key)
    BY <2>1, EntrySplits
  <2> QED BY <1>3, <1>6, <2>1, <2>2, <2>3, <2>4 DEF Course, Stages, Cleaning, Ends, RecordOf
<1>18. CASE RemoveDirectory
  <2>1. /\ call.at = "rm" /\ UNCHANGED file
        /\ dirs'[call.key].has = "absent" /\ Elsewhere
    BY <1>2, <1>18 DEF RemoveDirectory, At, NoDir, Dirs, Elsewhere
  <2>2. call.do \in {"remove", "copy"}
    BY <1>2, <1>3, <2>1 DEF Course, Stages, Calling
  <2>3. CASE call.id = 0
    <3>1. End(call.do = "remove") /\ ~Active(file[call.key])
      BY <1>3, <1>18, <2>1, <2>3 DEF RemoveDirectory, Unrecorded
    <3>2. call.do = "remove"
      BY <1>3, <2>1, <2>2, <3>1 DEF Course, Cleaning
    <3>3. EntryFor(dirs'[call.key], file'[call.key]) = Nowhere
      BY <2>1, <3>1 DEF EntryFor, Nowhere
    <3>4. Leaves(EntryFor(dirs'[call.key], file'[call.key]), TRUE)
      BY <3>2, <3>3 DEF Leaves
    <3> QED BY <1>5, <2>1, <3>1, <3>2, <3>4
  <2>4. CASE call.id # 0
    <3>1. Go("clear")
      BY <1>18, <2>4 DEF RemoveDirectory
    <3>2. call'.at = "clear" /\ call'.do = call.do /\ call'.key = call.key /\ call'.from = call.from
          /\ was' = was
      BY <1>4, <3>1 DEF Places, Ends
    <3>3. Orderly(call)' /\ Source'
      BY <1>1, <1>2, <2>1, <3>2, CourseGoes
    <3> QED BY <1>3, <1>6, <2>1, <2>2, <3>2, <3>3 DEF Course, Stages, Cleaning, Ends, RecordOf
  <2> QED BY <2>3, <2>4
<1>19. CASE ClearProject
  <2>1. call.at = "clear" /\ UNCHANGED <<file, dirs>> /\ Go("release") /\ Elsewhere
    BY <1>19 DEF ClearProject, At, Elsewhere
  <2>2. call'.at = "release" /\ call'.do = call.do /\ call'.key = call.key /\ call'.from = call.from
        /\ was' = was
    BY <1>4, <2>1 DEF Places, Ends
  <2>3. Orderly(call)' /\ Source' /\ dirs'[call.key].has = "absent"
    BY <1>1, <1>2, <1>3, <2>1, <2>2, CourseGoes DEF Removed
  <2> QED BY <1>3, <1>6, <2>1, <2>2, <2>3 DEF Course, Stages, Cleaning, Ends, RecordOf
<1>20. CASE ReleaseProject
  <2>1. /\ call.at = "release" /\ UNCHANGED dirs /\ End(call.do = "remove") /\ Elsewhere
        /\ ~Active(file'[call.key])
    BY <1>2, <1>20, WritesOne DEF ReleaseProject, At, Active, Elsewhere
  <2>2. EntryFor(dirs'[call.key], file'[call.key]) = Nowhere
    BY <1>3, <2>1 DEF EntryFor, Nowhere, Removed
  <2>3. call.do \in {"remove", "copy"} /\ (call.do = "copy" => was = Nowhere /\ Source)
    BY <1>2, <1>3, <2>1 DEF Course, Stages, Cleaning, Calling
  <2>4. Leaves(EntryFor(dirs'[call.key], file'[call.key]), call.do = "remove")
    BY <2>2, <2>3 DEF Leaves, Nowhere, Left
  <2> QED BY <1>5, <2>1, <2>4
<1> QED BY <1>8, <1>9, <1>10, <1>12, <1>13, <1>14, <1>15, <1>16, <1>17, <1>18, <1>19, <1>20 DEF Work

\* Wherever a call is left, its key is as the call may leave it.
LEMMA CourseLeaves ==
  ASSUME IInv, LInv, UInv, OInv, up, call.at \notin Ends
  PROVE  Leaves(EntryFor(dirs[call.key], file[call.key]), FALSE)
<1>1. /\ call \in Calling /\ call.key \in StorageKeys /\ dirs \in Dirs /\ file \in Files /\ file # NoFile
  BY WorkFinds
<1>2. /\ Course /\ Stages /\ was \in Entries /\ Bare /\ Removed /\ Pending
  BY <1>1 DEF OInv, Course, LInv, UInv, Recorded
<1>3. /\ file[call.key] \in Records /\ Entry(call.key) = EntryFor(dirs[call.key], file[call.key])
  BY <1>1, EntrySplits DEF Files
<1>4. CASE was = Entry(call.key)
  BY <1>3, <1>4 DEF Leaves
<1>5. CASE call.at = "allocate"
  <2>1. EntryFor(dirs[call.key], file[call.key]) = Left(Damaged, was.rec)
    BY <1>2, <1>5 DEF EntryFor, RecordOf, Course, Bare
  <2>2. was.dir = Missing /\ call.do \in {"create", "copy"} /\ Source
    BY <1>1, <1>2, <1>5 DEF Course, Stages, Cleaning, Calling
  <2>3. was.rec \in {"none", "pending", "done"}
    BY <1>2 DEF Entries
  <2> QED BY <2>1, <2>2, <2>3 DEF Leaves
<1>6. CASE call.at \in {"project", "limit", "fill", "sync", "complete"}
  <2>1. EntryFor(dirs[call.key], file[call.key]) = Left(Damaged, "pending")
    BY <1>2, <1>6 DEF EntryFor, Course, Pending, Present, Active
  <2>2. was = Nowhere /\ call.do \in {"create", "copy"} /\ Source
    BY <1>1, <1>2, <1>6 DEF Course, Stages, Cleaning, Calling
  <2> QED BY <2>1, <2>2 DEF Leaves, Nowhere, Left
<1>7. CASE call.do = "remove" /\ call.at \in {"clear", "release"}
  <2>1. EntryFor(dirs[call.key], file[call.key]) = Left(Missing, was.rec)
    BY <1>2, <1>7 DEF EntryFor, Course, RecordOf, Removed
  <2> QED BY <1>7, <2>1 DEF Leaves
<1>8. CASE call.do = "copy" /\ call.at \in Cleaning
  <2>1. /\ was = Nowhere /\ Source /\ file[call.key].state \in {"pending", "done"}
        /\ file[call.key].state = "done" => dirs[call.key].has \in {"absent", "torn", Copied}
    BY <1>2, <1>8 DEF Course, Active, Cleaning
  <2>2. CASE file[call.key].state = "done" /\ dirs[call.key].has = "whole"
    <3>1. dirs[call.from].has = "whole" /\ Usable(call.from)
      BY <1>8, <2>1, <2>2 DEF Copied, Source
    <3>2. Entry(call.from).dir = 0
      BY <3>1, EntrySplits DEF EntryFor, Left, Usable, Present
    <3>3. EntryFor(dirs[call.key], file[call.key]) = Left(Entry(call.from).dir, "done")
      BY <2>2, <3>2 DEF EntryFor, Active
    <3> QED BY <1>8, <2>1, <3>3 DEF Leaves, Nowhere, Left
  <2>3. CASE ~(file[call.key].state = "done" /\ dirs[call.key].has = "whole")
    <3>1. \E d \in {Damaged, Missing}, r \in {"none", "pending", "done"} :
              EntryFor(dirs[call.key], file[call.key]) = Left(d, r)
      BY <2>1, <2>3 DEF EntryFor, Active
    <3> QED BY <1>8, <2>1, <3>1 DEF Leaves, Nowhere, Left
  <2> QED BY <2>2, <2>3
<1>9. \/ was = Entry(call.key)
      \/ call.at = "allocate"
      \/ call.at \in {"project", "limit", "fill", "sync", "complete"}
      \/ call.do = "remove" /\ call.at \in {"clear", "release"}
      \/ call.do = "copy" /\ call.at \in Cleaning
  BY <1>1, <1>2 DEF Calling, Places, Ends, Course, Stages, Cleaning
<1> QED BY <1>4, <1>5, <1>6, <1>7, <1>8, <1>9

\* So it is when a step is cut short.
LEMMA HalfwayLeaves ==
  ASSUME IInv, LInv, UInv, OInv, up, call.at \notin Ends, Halfway
  PROVE  /\ Leaves(EntryFor(dirs'[call.key], file'[call.key]), FALSE)
         /\ Elsewhere
         /\ call.do = "copy" /\ call.at \in {"fill", "sync", "complete"} =>
              /\ Active(file'[call.key])
              /\ file'[call.key].state = "done" => dirs'[call.key].has \in {"absent", "torn", Copied}
<1>1. /\ call \in Calling /\ call.key \in StorageKeys /\ dirs \in Dirs /\ file \in Files /\ file # NoFile
  BY WorkFinds
<1>2. /\ Course /\ Stages /\ was \in Entries /\ Bare /\ Removed /\ Pending
  BY <1>1 DEF OInv, Course, LInv, UInv, Recorded
<1>3. /\ file[call.key] \in Records /\ Entry(call.key) = EntryFor(dirs[call.key], file[call.key])
      /\ RecordOf(call.key) = Entry(call.key).rec
      /\ Entry(call.key).dir = Missing <=> dirs[call.key].has = "absent"
  BY <1>1, EntrySplits, EntryTyped DEF Files, RecordOf
<1>4. ASSUME Elsewhere, file'[call.key] = file[call.key], dirs'[call.key].has = dirs[call.key].has
      PROVE  /\ Leaves(EntryFor(dirs'[call.key], file'[call.key]), FALSE)
             /\ call.at \in {"fill", "sync", "complete"} =>
                  Active(file'[call.key]) /\ file'[call.key].state # "done"
  <2>1. EntryFor(dirs'[call.key], file'[call.key]) = EntryFor(dirs[call.key], file[call.key])
    BY <1>4 DEF EntryFor
  <2> QED BY <1>2, <1>4, <2>1, CourseLeaves DEF Pending, Active
<1>5. CASE UNCHANGED <<file, dirs>>
  BY <1>4, <1>5 DEF Elsewhere
<1>6. CASE /\ call.at = "allocate" /\ ~Active(file[call.key])
           /\ \E i \in LowestFree(file) : Write(Allocate(file, call.key, i))
  <2> PICK i \in LowestFree(file) : Write(Allocate(file, call.key, i))
    BY <1>6
  <2>1. file' = Allocate(file, call.key, i) /\ dirs' = dirs
    BY DEF Write
  <2>2. file'[call.key].state = "pending" /\ Elsewhere
    BY <1>1, <2>1, WritesOne DEF Elsewhere
  <2>3. EntryFor(dirs'[call.key], file'[call.key]) = Left(Damaged, "pending")
    BY <1>2, <1>6, <2>1, <2>2 DEF EntryFor, Bare, Active
  <2>4. was.dir = Missing /\ was.rec = "none" /\ call.do \in {"create", "copy"} /\ Source
    BY <1>1, <1>2, <1>6 DEF Course, Stages, Cleaning, Calling, RecordOf
  <2> QED BY <1>6, <2>2, <2>3, <2>4 DEF Leaves
<1>7. CASE /\ call.at = "project" /\ UNCHANGED file
           /\ dirs' = [dirs EXCEPT ![call.key].projid = call.id]
  <2>1. Elsewhere /\ dirs'[call.key].has = dirs[call.key].has
    BY <1>1, <1>7 DEF Dirs, Elsewhere
  <2> QED BY <1>4, <1>7, <2>1
<1>8. CASE call.at = "fill" /\ Hold("part")
  <2>1. Elsewhere /\ dirs'[call.key].has = "part" /\ file' = file
    BY <1>1, <1>8, HasSet DEF Hold, Contents, Elsewhere
  <2>2. file[call.key].state = "pending"
    BY <1>2, <1>8 DEF Pending
  <2>3. EntryFor(dirs'[call.key], file'[call.key]) = Left(Damaged, "pending")
    BY <2>1, <2>2 DEF EntryFor, Active
  <2>4. was = Nowhere /\ call.do \in {"create", "copy"} /\ Source
    BY <1>1, <1>2, <1>8 DEF Course, Stages, Cleaning, Calling
  <2> QED BY <2>1, <2>2, <2>3, <2>4 DEF Leaves, Nowhere, Left, Active
<1>9. CASE call.at = "complete" /\ Write(Complete(file, call.key))
  <2>1. file'[call.key].state = "done" /\ dirs' = dirs /\ Elsewhere
    BY <1>1, <1>3, <1>9 DEF Write, Complete, Files, Records, Elsewhere
  <2>2. was = Nowhere /\ call.do \in {"create", "copy"} /\ Source /\ dirs[call.key].has = Copied
    BY <1>1, <1>2, <1>9 DEF Course, Stages, Cleaning, Calling
  <2>3. EntryFor(dirs'[call.key], file'[call.key]) =
          Left(IF Copied = "whole" THEN 0 ELSE Damaged, "done")
    BY <2>1, <2>2 DEF EntryFor, Active, Copied
  <2>4. call.do = "copy" => Entry(call.from).dir = IF Copied = "whole" THEN 0 ELSE Damaged
    BY <2>2, EntrySplits DEF Source, Copied, EntryFor, Left, Usable, Present
  <2> QED BY <2>1, <2>2, <2>3, <2>4 DEF Leaves, Nowhere, Left, Copied, Active
<1>10. CASE call.at = "rm" /\ dirs[call.key].has \in {"part", "fresh", "whole"} /\ Hold("torn")
  <2>1. Elsewhere /\ dirs'[call.key].has = "torn" /\ file' = file
    BY <1>1, <1>10, HasSet DEF Hold, Contents, Elsewhere
  <2>2. EntryFor(dirs'[call.key], file'[call.key]) = Left(Damaged, RecordOf(call.key))
    BY <2>1 DEF EntryFor, RecordOf
  <2>3. CASE call.do = "remove"
    <3>1. was.rec = RecordOf(call.key) /\ was.dir # Missing
      BY <1>2, <1>3, <1>10, <2>3 DEF Course
    <3> QED BY <1>10, <2>1, <2>2, <2>3, <3>1 DEF Leaves
  <2>4. CASE call.do = "copy"
    <3>1. was = Nowhere /\ Source /\ RecordOf(call.key) \in {"pending", "done"}
      BY <1>2, <1>10, <2>4 DEF Course, Cleaning, RecordOf, Active
    <3> QED BY <1>10, <2>1, <2>2, <2>4, <3>1 DEF Leaves, Nowhere, Left
  <2> QED BY <1>1, <1>2, <1>10, <2>3, <2>4 DEF Stages, Calling
<1>11. CASE call.at = "release" /\ Write(Release(file, call.key))
  <2>1. dirs' = dirs /\ ~Active(file'[call.key]) /\ Elsewhere
    BY <1>1, <1>11, WritesOne DEF Write, Active, Elsewhere
  <2>2. EntryFor(dirs'[call.key], file'[call.key]) = Nowhere
    BY <1>2, <1>11, <2>1 DEF EntryFor, Nowhere, Removed
  <2>3. call.do \in {"remove", "copy"} /\ (call.do = "copy" => was = Nowhere /\ Source)
    BY <1>1, <1>2, <1>11 DEF Course, Stages, Cleaning, Calling
  <2> QED BY <1>11, <2>1, <2>2, <2>3 DEF Leaves, Nowhere, Left
<1> QED BY <1>5, <1>6, <1>7, <1>8, <1>9, <1>10, <1>11 DEF Halfway

\* What the last step of a call leaves of the other keys.
Others == \A k \in StorageKeys \ {call.key} : Entry(k)' = Entry(k)

\* A fault keeps the course of a call, or ends it with what it may leave.
LEMMA FaultsCourse ==
  ASSUME IInv, LInv, UInv, OInv, StepFails \/ ClearFails \/ Crash \/ PowerFails \/ LoseRegistry, Remembers
  PROVE  OInv' /\ (call.at \notin Ends /\ call'.at \in Ends => Closes /\ Others)
<1>1. TypeOK /\ Ends = {"done", "failed"}
  BY DEF IInv, Ends
<1>2. ASSUME Elsewhere
      PROVE  Others
  BY <1>2, EntrySplits DEF Elsewhere, Others
<1>3. CASE StepFails
  <2>1. up /\ call.at \notin Ends /\ call.at # "clear" /\ Halfway
    BY <1>3 DEF StepFails, Cut
  <2>2. /\ call \in Calling /\ call.key \in StorageKeys /\ call.from \in StorageKeys
        /\ file \in Files /\ file # NoFile
    BY <2>1, WorkFinds
  <2>3. /\ Leaves(EntryFor(dirs'[call.key], file'[call.key]), FALSE)
        /\ Elsewhere
        /\ call.do = "copy" /\ call.at \in {"fill", "sync", "complete"} =>
             /\ Active(file'[call.key])
             /\ file'[call.key].state = "done" => dirs'[call.key].has \in {"absent", "torn", Copied}
    BY <2>1, HalfwayLeaves
  <2>4. plan' = plan \/ plan' = <<>>
    BY <1>3 DEF StepFails, Go, End
  <2>5. CASE End(FALSE)
    <3>1. call'.at = "failed"
      BY <2>5 DEF End, NoCall
    <3> QED BY <1>1, <1>2, <2>3, <2>4, <3>1, PlanOrderly DEF OInv, Closes
  <2>6. CASE call.do = "copy" /\ call.at \in {"fill", "sync", "complete"} /\ Go("look")
    <3>1. call'.at = "look" /\ call'.do = call.do /\ call'.key = call.key /\ call'.from = call.from
      BY <2>2, <2>6 DEF Go, Calling
    <3>2. was' = was
      BY <1>1, <2>1, <3>1 DEF Remembers
    <3>3. Course /\ was \in Entries /\ was = Nowhere /\ Source
      BY <2>1, <2>6 DEF OInv, Course
    <3>4. Orderly(call)' /\ Source' /\ Copied' = Copied
      BY <2>1, <2>2, <2>3, <3>1, <3>3, CourseGoes
    <3>5. Course'
      BY <2>3, <2>6, <3>1, <3>2, <3>3, <3>4 DEF Course, Stages
    <3> QED BY <1>1, <2>4, <3>1, <3>5, PlanOrderly DEF OInv
  <2> QED BY <1>3, <2>5, <2>6 DEF StepFails
<1>4. CASE ClearFails
  <2>1. up /\ call.at = "clear" /\ UNCHANGED <<file, dirs>> /\ Go("release") /\ Elsewhere
    BY <1>4 DEF ClearFails, At, pool, Elsewhere
  <2>2. /\ call \in Calling /\ call.key \in StorageKeys /\ call.from \in StorageKeys
        /\ file \in Files /\ file # NoFile
    BY <1>1, <2>1, WorkFinds
  <2>3. call'.at = "release" /\ call'.do = call.do /\ call'.key = call.key /\ call'.from = call.from
        /\ plan' = plan
    BY <2>1, <2>2 DEF Go, Calling
  <2>4. was' = was
    BY <1>1, <2>1, <2>3 DEF Remembers
  <2>5. Course /\ Stages /\ Source
    BY <1>1, <2>1 DEF OInv, Course
  <2>6. Orderly(call)' /\ Source' /\ Copied' = Copied
    BY <1>1, <2>1, <2>2, <2>3, <2>5, CourseGoes
  <2>7. Course'
    BY <2>1, <2>3, <2>4, <2>5, <2>6 DEF Course, Stages, Cleaning, RecordOf
  <2> QED BY <1>1, <2>3, <2>7, PlanOrderly DEF OInv
<1>5. ASSUME Down
      PROVE  call'.at = "failed" /\ OInv'
  <2>1. call'.at = "failed" /\ plan' = <<>>
    BY <1>5 DEF Down, NoCall
  <2> QED BY <1>1, <2>1, PlanOrderly DEF OInv
<1>6. CASE Crash
  <2>1. up /\ Halfway /\ call'.at = "failed" /\ OInv'
    BY <1>5, <1>6 DEF Crash, Cut
  <2> QED BY <1>2, <2>1, HalfwayLeaves DEF Closes
<1>7. CASE PowerFails
  <2>1. up /\ UNCHANGED file /\ call'.at = "failed" /\ OInv'
    BY <1>5, <1>7 DEF PowerFails
  <2>2. \A k \in StorageKeys : EntryFor(dirs'[k], file'[k]) = EntryFor(dirs[k], file[k])
    <3> SUFFICES ASSUME NEW k \in StorageKeys
                 PROVE  EntryFor(dirs'[k], file'[k]) = EntryFor(dirs[k], file[k])
      OBVIOUS
    <3>1. dirs' = [l \in StorageKeys |-> IF dirs[l].has = "fresh" THEN [dirs[l] EXCEPT !.has = "part"]
                                         ELSE dirs[l]]
      BY <1>7 DEF PowerFails
    <3>2. dirs[k] \in [has : Contents, projid : Ids \cup {0}]
      BY <1>1 DEF TypeOK
    <3>3. dirs'[k].has = dirs[k].has \/ (dirs[k].has = "fresh" /\ dirs'[k].has = "part")
      BY <3>1, <3>2
    <3> QED BY <2>1, <3>3 DEF EntryFor
  <2>3. Others
    BY <2>2, EntrySplits DEF Others
  <2>4. call.at \notin Ends => call.key \in StorageKeys /\ Leaves(EntryFor(dirs[call.key], file[call.key]), FALSE)
    BY <2>1, WorkFinds, CourseLeaves
  <2> QED BY <2>1, <2>2, <2>3, <2>4 DEF Closes
<1>8. CASE LoseRegistry
  <2>1. call' = call /\ plan' = plan /\ call.at \in Ends
    BY <1>1, <1>8 DEF LoseRegistry, TypeOK
  <2> QED BY <1>1, <2>1, PlanOrderly DEF OInv
<1> QED BY <1>3, <1>4, <1>6, <1>7, <1>8

\* The control plane's plans are orderly.
LEMMA PlansOrderly ==
  ASSUME NEW s \in Spaces, NEW p \in {CreatePlan(s), SnapshotPlan(s), RestorePlan(s), DestroyPlan(s)}
  PROVE  \A i \in 1..Len(p) : Orderly(p[i])
<1>1. \A k : Orderly(Remove(k)) /\ Orderly(Ensure(k))
  BY DEF Orderly, Remove, Ensure
<1>2. Orderly(Create(Key(s, "live")))
  BY DEF Orderly, Create, Key
<1>3. \A from \in {"live", "prev"}, to \in {"live", "prev", "recovery"} :
          from # to => Orderly(Copy(Key(s, from), Key(s, to)))
  BY DEF Orderly, Copy, Key, Kept
<1>4. CASE p = CreatePlan(s)
  <2>1. Len(p) = 1 /\ p[1] = Create(Key(s, "live"))
    BY <1>4 DEF CreatePlan
  <2> QED BY <1>2, <2>1
<1>5. CASE p = SnapshotPlan(s)
  <2>1. Len(p) = 2 /\ p[1] = Remove(Key(s, "prev")) /\ p[2] = Copy(Key(s, "live"), Key(s, "prev"))
    BY <1>5 DEF SnapshotPlan
  <2>2. \A i \in 1..Len(p) : i = 1 \/ i = 2
    BY <2>1
  <2> QED BY <1>1, <1>3, <2>1, <2>2
<1>6. CASE p = RestorePlan(s)
  <2>1. /\ Len(p) = 5 /\ p[1] = Ensure(Key(s, "prev"))
        /\ p[2] = Copy(Key(s, "live"), Key(s, "recovery"))
        /\ p[3] = Remove(Key(s, "live"))
        /\ p[4] = Copy(Key(s, "prev"), Key(s, "live"))
        /\ p[5] = Remove(Key(s, "recovery"))
    BY <1>6 DEF RestorePlan
  <2>2. \A i \in 1..Len(p) : i = 1 \/ i = 2 \/ i = 3 \/ i = 4 \/ i = 5
    BY <2>1
  <2> QED BY <1>1, <1>3, <2>1, <2>2
<1>7. CASE p = DestroyPlan(s)
  <2>1. Len(p) = 3 /\ \A i \in 1..3 : \E k : p[i] = Remove(k)
    BY <1>7 DEF DestroyPlan
  <2> QED BY <1>1, <2>1
<1> QED BY <1>4, <1>5, <1>6, <1>7

\* Nothing but work and faults ends a call, and what begins one remembers.
LEMMA RestCourse ==
  ASSUME IInv, OInv, Next, ~Work, ~(StepFails \/ ClearFails \/ Crash \/ PowerFails \/ LoseRegistry), Remembers
  PROVE  OInv' /\ ~(call.at \notin Ends /\ call'.at \in Ends)
<1>1. TypeOK /\ Ends = {"done", "failed"}
  BY DEF IInv, Ends
<1>2. call \in Calling \/ \E end \in Ends : call = NoCall(end)
  BY <1>1 DEF TypeOK
<1>3. ASSUME UNCHANGED <<file, dirs>>, \A i \in 1..Len(plan') : Orderly(plan'[i]),
             call'.at = call.at, call'.do = call.do, call'.key = call.key, call'.from = call.from
      PROVE  OInv' /\ ~(call.at \notin Ends /\ call'.at \in Ends)
  <2>1. call.at \notin Ends => was' = was
    BY <1>3 DEF Remembers
  <2> QED BY <1>3, <2>1, EntrySplits
       DEF OInv, Course, Orderly, Stages, Source, Copied, RecordOf, Usable, Present
<1>4. ASSUME NEW s \in Spaces, AskForData(s) \/ AskForPlan(s)
      PROVE  OInv' /\ ~(call.at \notin Ends /\ call'.at \in Ends)
  <2>1. PICK p \in {CreatePlan(s), SnapshotPlan(s), RestorePlan(s), DestroyPlan(s)} : Begin(p)
    BY <1>4 DEF AskForData, AskForPlan
  <2>2. plan' = p /\ UNCHANGED <<file, dirs, call>>
    BY <2>1 DEF Begin, pool
  <2>3. \A i \in 1..Len(plan') : Orderly(plan'[i])
    BY <2>2, PlansOrderly
  <2> QED BY <1>3, <2>2, <2>3
<1>5. CASE GiveUp
  <2>1. plan' = <<>> /\ call' = [call EXCEPT !.asked = FALSE] /\ UNCHANGED <<file, dirs>>
    BY <1>5 DEF GiveUp, pool
  <2>2. call'.at = call.at /\ call'.do = call.do /\ call'.key = call.key /\ call'.from = call.from
    <3>1. CASE call \in Calling
      BY <2>1, <3>1 DEF Calling
    <3>2. CASE \E end \in Ends : call = NoCall(end)
      BY <2>1, <3>2 DEF NoCall
    <3> QED BY <1>2, <3>1, <3>2
  <2> QED BY <1>1, <1>3, <2>1, <2>2, PlanOrderly
<1>6. CASE Check
  <2>1. UNCHANGED <<file, dirs, call>> /\ plan # <<>> /\ (plan' = Tail(plan) \/ plan' = <<>>)
    BY <1>6 DEF Check, pool
  <2> QED BY <1>1, <1>3, <2>1, PlanOrderly
<1>7. CASE Receive
  <2>1. /\ up /\ plan # <<>> /\ plan[1].do # "ensure" /\ call.at \in Ends
        /\ UNCHANGED <<file, dirs, plan>>
    BY <1>7 DEF Receive, pool
  <2>2. /\ plan[1] \in CallsAsked /\ file \in Files /\ file # NoFile /\ Len(plan) \in Nat
        /\ 1 \in 1..Len(plan)
    BY <1>1, <2>1, CallTyped DEF TypeOK
  <2>3. /\ call'.do = plan[1].do /\ call'.key = plan[1].key /\ call'.from = plan[1].from
        /\ \/ plan[1].do = "create" /\ call'.at = "mkdir"
           \/ plan[1].do = "remove" /\ call'.at = "look"
           \/ plan[1].do = "copy" /\ call'.at = "ensure"
    BY <1>7, <2>1, <2>2 DEF Receive, CallsAsked
  <2>4. was' = Entry(plan[1].key) /\ plan[1].key \in StorageKeys /\ call'.at \notin Ends
    BY <1>1, <2>1, <2>2, <2>3 DEF Remembers, CallsAsked
  <2>5. /\ was' \in Entries /\ was' = Entry(call.key)' /\ was'.rec = RecordOf(call.key)'
    <3>1. file[plan[1].key] \in Records
      BY <2>2, <2>4 DEF Files
    <3>2. was' = EntryFor(dirs[plan[1].key], file[plan[1].key]) /\ was' = Entry(call.key)'
      BY <2>1, <2>3, <2>4, EntrySplits
    <3>3. was'.rec = IF Active(file[plan[1].key]) THEN file[plan[1].key].state ELSE "none"
      BY <3>1, <3>2, EntryTyped
    <3> QED BY <2>1, <2>3, <3>1, <3>2, <3>3, EntryTyped DEF RecordOf, Active
  <2>6. Orderly(call)'
    BY <2>2, <2>3 DEF OInv, Orderly
  <2>7. Course'
    BY <2>3, <2>5, <2>6 DEF Course, Stages, Cleaning, Source
  <2> QED BY <2>1, <2>4, <2>7 DEF OInv
<1>8. CASE Start \/ StartDies
  <2>1. call' = call /\ plan' = plan /\ call.at \in Ends
    BY <1>1, <1>8 DEF Start, StartDies, TypeOK
  <2> QED BY <1>1, <2>1, PlanOrderly DEF OInv
<1> QED BY <1>4, <1>5, <1>6, <1>7, <1>8 DEF Next

-----------------------------------------------------------------------------
(* The same in the terms of RuntimeNode.                                   *)

\* A node that holds D.
Holding(D) == [disk |-> D, ctr |-> Node!NoContainer]

\* What RuntimeNode lets a call leave that makes live data, ...
LEMMA MakeLeaves ==
  ASSUME NEW D, D["live"].dir = Missing
  PROVE  /\ D["live"].rec = "none" =>
              /\ Node!Put(Holding(D), "live", 0, "done", None) \in Node!Done(Node!MakeCall, Holding(D))
              /\ \A r \in {"none", "pending"} :
                    Node!Put(Holding(D), "live", Damaged, r, None) \in Node!Broken(Node!MakeCall, Holding(D))
         /\ D["live"].rec # "none" =>
              Node!Put(Holding(D), "live", Damaged, D["live"].rec, None)
                  \in Node!Denied(Node!MakeCall, Holding(D))
<1>1. Node!MakeCall.do = "make" /\ Node!MakeCall.key = "live"
  BY DEF Node!MakeCall
<1>2. Holding(D).disk = D
  BY DEF Holding
<1>3. Node!Allowed(Node!MakeCall, Holding(D)) /\ (Node!Clash(Node!MakeCall, Holding(D)) <=> D["live"].rec # "none")
  BY <1>1, <1>2 DEF Node!Allowed, Node!Clash
<1> QED BY <1>1, <1>2, <1>3 DEF Node!Done, Node!Denied, Node!Broken

\* ... one that removes, ...
LEMMA WipeLeaves ==
  ASSUME NEW D, NEW kind \in Node!Keys
  PROVE  LET m == Node!WipeCall(kind) IN
         /\ Node!Put(Holding(D), kind, Missing, "none", None) \in Node!Done(m, Holding(D))
         /\ Node!Put(Holding(D), kind, Missing, D[kind].rec, None) \in Node!Broken(m, Holding(D))
         /\ D[kind].dir # Missing =>
              Node!Put(Holding(D), kind, Damaged, D[kind].rec, None) \in Node!Broken(m, Holding(D))
<1> DEFINE m == Node!WipeCall(kind)
<1>1. m.do = "wipe" /\ m.key = kind
  BY DEF Node!WipeCall
<1>2. Holding(D).disk = D /\ ~Node!Running(Holding(D))
  BY DEF Holding, Node!Running, Node!NoContainer
<1>3. Node!Allowed(m, Holding(D)) /\ ~Node!Clash(m, Holding(D))
  BY <1>1, <1>2 DEF Node!Allowed, Node!Clash
<1> HIDE DEF m
<1>4. Node!Done(m, Holding(D)) = {Node!Put(Holding(D), kind, Missing, "none", None)}
  BY <1>1, <1>3 DEF Node!Done
<1>5. Node!Broken(m, Holding(D)) =
        {Holding(D)} \cup {Node!Put(Holding(D), kind, dir, D[kind].rec, None) :
                              dir \in {Missing} \cup (IF D[kind].dir = Missing THEN {} ELSE {Damaged})}
  BY <1>1, <1>2, <1>3 DEF Node!Broken
<1> QED BY <1>4, <1>5 DEF m

\* ... and one that copies from data in use, on a node without a container.
LEMMA CopyLeaves ==
  ASSUME NEW D, NEW kind \in Node!Keys, NEW from \in Node!Keys,
         D[kind].dir = Missing, D[from].dir # Missing, D[from].rec = "done"
  PROVE  LET m == Node!CopyCall(from, kind, None) IN
         /\ D[kind].rec = "none" =>
              /\ Node!Put(Holding(D), kind, D[from].dir, "done", None) \in Node!Done(m, Holding(D))
              /\ \A d \in {Damaged, Missing}, r \in {"none", "pending", "done"} :
                    Node!Put(Holding(D), kind, d, r, None) \in Node!Broken(m, Holding(D))
         /\ D[kind].rec # "none" =>
              Node!Put(Holding(D), kind, Damaged, D[kind].rec, None) \in Node!Denied(m, Holding(D))
<1> DEFINE m == Node!CopyCall(from, kind, None)
<1>1. m.do = "copy" /\ m.key = kind /\ m.from = from /\ m.tag = None
  BY DEF Node!CopyCall
<1>2. Holding(D).disk = D /\ ~Node!Running(Holding(D))
  BY DEF Holding, Node!Running, Node!NoContainer
<1>3. Node!Allowed(m, Holding(D)) /\ (Node!Clash(m, Holding(D)) <=> D[kind].rec # "none")
  BY <1>1, <1>2 DEF Node!Allowed, Node!Clash, Node!Usable
<1> HIDE DEF m
<1>4. CASE D[kind].rec = "none"
  <2>1. Node!Done(m, Holding(D)) = {Node!Put(Holding(D), kind, D[from].dir, "done", None)}
    BY <1>1, <1>2, <1>3, <1>4 DEF Node!Done
  <2>2. Node!Broken(m, Holding(D)) =
          {Holding(D)} \cup {Node!Put(Holding(D), kind, dir, rec, None) :
                                dir \in {Damaged, Missing}, rec \in {"none", "pending", "done"}}
    BY <1>1, <1>2, <1>3, <1>4 DEF Node!Broken
  <2> QED BY <1>4, <2>1, <2>2 DEF m
<1>5. CASE D[kind].rec # "none"
  <2>1. Node!Denied(m, Holding(D)) = {Node!Put(Holding(D), kind, Damaged, D[kind].rec, None)}
    BY <1>1, <1>2, <1>3, <1>5 DEF Node!Denied
  <2> QED BY <1>5, <2>1 DEF m
<1> QED BY <1>4, <1>5

\* What the node of a workspace held when the call under way came in.
Disk(s) == [x \in Node!Keys |-> IF x = call.key[2] THEN was ELSE Entry(Key(s, x))]

\* A world is a node without a container; a call that ends has changed the entry
\* of its key, and no other one.
LEMMA WorldMoves ==
  ASSUME IInv, OInv, up, call.at \notin Ends, Others,
         NEW s, s = call.key[1], NEW kind, kind = call.key[2]
  PROVE  /\ s \in Spaces /\ kind \in Node!Keys /\ call.key = Key(s, kind)
         /\ Before(s) = Holding(Disk(s))
         /\ World(s)' = Holding([Disk(s) EXCEPT ![kind] = EntryFor(dirs'[call.key], file'[call.key])])
<1>1. call.key \in StorageKeys
  BY WorkFinds
<1>2. s \in Spaces /\ kind \in Node!Keys /\ call.key = Key(s, kind)
  BY <1>1, StorageAssumption DEF Node!Keys, Key
<1>3. Before(s) = Holding(Disk(s))
  <2> DEFINE A == [x \in Node!Keys |-> Entry(Key(s, x))]
  <2>1. World(s) = Holding(A)
    BY DEF World, Holding
  <2> HIDE DEF A
  <2>2. [Holding(A) EXCEPT !.disk[kind] = was] = Holding([A EXCEPT ![kind] = was])
    BY DEF Holding
  <2>3. [A EXCEPT ![kind] = was] = Disk(s)
    BY <1>2 DEF A, Disk
  <2> QED BY <2>1, <2>2, <2>3 DEF Before
<1>4. \A x \in Node!Keys \ {kind} : Entry(Key(s, x))' = Entry(Key(s, x))
  <2> SUFFICES ASSUME NEW x \in Node!Keys \ {kind} PROVE Entry(Key(s, x))' = Entry(Key(s, x))
    OBVIOUS
  <2>1. Key(s, x) \in StorageKeys \ {call.key}
    BY <1>2, StorageAssumption DEF Key, Node!Keys
  <2> QED BY <2>1 DEF Others
<1>5. Entry(Key(s, kind))' = EntryFor(dirs'[Key(s, kind)], file'[Key(s, kind)])
  BY EntrySplits
<1>6. World(s)' = Holding([x \in Node!Keys |-> Entry(Key(s, x))'])
  BY DEF World, Holding
<1>7. [x \in Node!Keys |-> Entry(Key(s, x))'] =
        [Disk(s) EXCEPT ![kind] = EntryFor(dirs'[Key(s, kind)], file'[Key(s, kind)])]
  BY <1>2, <1>4, <1>5 DEF Disk
<1> QED BY <1>2, <1>3, <1>6, <1>7

\* What a call leaves of its key is what RuntimeNode lets it leave.
LEMMA LeavesAsAssumed ==
  ASSUME IInv, OInv, up, call.at \notin Ends, NEW s, s = call.key[1], NEW kind, kind = call.key[2],
         s \in Spaces, kind \in Node!Keys, call.key = Key(s, kind), Before(s) = Holding(Disk(s)),
         NEW good \in BOOLEAN, NEW e, Leaves(e, good)
  PROVE  Holding([Disk(s) EXCEPT ![kind] = e]) \in
             Node!Done(Mutation, Before(s)) \cup
                 IF good THEN {}
                 ELSE Node!Denied(Mutation, Before(s)) \cup Node!Broken(Mutation, Before(s))
<1>1. Disk(s)[kind] = was /\ Orderly(call) /\ was \in Entries /\ call \in Calling /\ Stages
  BY WorkFinds DEF Disk, OInv, Course
<1>2. \A dir, rec : Node!Put(Holding(Disk(s)), kind, dir, rec, None) =
                        Holding([Disk(s) EXCEPT ![kind] = Left(dir, rec)])
  BY DEF Node!Put, Holding, Left
<1>3. CASE ~good /\ e = was
  <2>1. [Disk(s) EXCEPT ![kind] = e] = Disk(s)
    BY <1>1, <1>3 DEF Disk
  <2>2. Before(s) \in Node!Broken(Mutation, Before(s))
    BY DEF Node!Broken
  <2> QED BY <1>3, <2>1, <2>2
<1>4. CASE call.do = "create" /\ ~(~good /\ e = was)
  <2>1. kind = "live" /\ Mutation = Node!MakeCall /\ was.dir = Missing
    BY <1>1, <1>4 DEF Orderly, Mutation, Leaves
  <2>2. /\ was.rec = "none" =>
             /\ Holding([Disk(s) EXCEPT ![kind] = Left(0, "done")]) \in Node!Done(Mutation, Before(s))
             /\ \A r \in {"none", "pending"} :
                   Holding([Disk(s) EXCEPT ![kind] = Left(Damaged, r)]) \in Node!Broken(Mutation, Before(s))
        /\ was.rec # "none" =>
             Holding([Disk(s) EXCEPT ![kind] = Left(Damaged, was.rec)]) \in Node!Denied(Mutation, Before(s))
    BY <1>1, <1>2, <2>1, MakeLeaves
  <2>3. \/ was.rec = "none" /\ e = Left(0, "done")
        \/ ~good /\ was.rec = "none" /\ \E r \in {"none", "pending"} : e = Left(Damaged, r)
        \/ ~good /\ was.rec # "none" /\ e = Left(Damaged, was.rec)
    BY <1>4 DEF Leaves
  <2> QED BY <2>2, <2>3
<1>5. CASE call.do = "remove" /\ ~(~good /\ e = was)
  <2>1. Mutation = Node!WipeCall(kind)
    BY <1>5 DEF Mutation
  <2>2. /\ Holding([Disk(s) EXCEPT ![kind] = Nowhere]) \in Node!Done(Mutation, Before(s))
        /\ Holding([Disk(s) EXCEPT ![kind] = Left(Missing, was.rec)]) \in Node!Broken(Mutation, Before(s))
        /\ was.dir # Missing =>
             Holding([Disk(s) EXCEPT ![kind] = Left(Damaged, was.rec)]) \in Node!Broken(Mutation, Before(s))
    BY <1>1, <1>2, <2>1, WipeLeaves DEF Nowhere
  <2>3. \/ e = Nowhere
        \/ ~good /\ e = Left(Missing, was.rec)
        \/ ~good /\ was.dir # Missing /\ e = Left(Damaged, was.rec)
    BY <1>5 DEF Leaves
  <2> QED BY <2>2, <2>3
<1>6. CASE call.do = "copy" /\ ~(~good /\ e = was)
  <2>1. was.dir = Missing /\ Source
    BY <1>6 DEF Leaves
  <2> DEFINE from == call.from[2]
  <2>2. call.from = Key(s, from) /\ from \in Node!Keys /\ from # kind /\ Mutation = Node!CopyCall(from, kind, None)
    BY <1>1, <1>6 DEF Orderly, Kept, Key, Node!Keys, Mutation
  <2> HIDE DEF from
  <2>3. Disk(s)[from] = Entry(call.from)
    BY <2>2 DEF Disk
  <2>4. Entry(call.from).dir # Missing /\ Entry(call.from).rec = "done"
    BY <1>6, <2>1, OutcomeAssumption, EntrySplits DEF Source, Usable, Present, EntryFor, Left, Active
  <2> DEFINE m == Node!CopyCall(from, kind, None)
             w == Holding(Disk(s))
  <2>5. /\ was.rec = "none" =>
             /\ Node!Put(w, kind, Entry(call.from).dir, "done", None) \in Node!Done(m, w)
             /\ \A d \in {Damaged, Missing}, r \in {"none", "pending", "done"} :
                   Node!Put(w, kind, d, r, None) \in Node!Broken(m, w)
        /\ was.rec # "none" => Node!Put(w, kind, Damaged, was.rec, None) \in Node!Denied(m, w)
    BY <1>1, <2>1, <2>2, <2>3, <2>4, CopyLeaves
  <2>6. /\ was.rec = "none" =>
             /\ Holding([Disk(s) EXCEPT ![kind] = Left(Entry(call.from).dir, "done")])
                    \in Node!Done(Mutation, Before(s))
             /\ \A d \in {Damaged, Missing}, r \in {"none", "pending", "done"} :
                   Holding([Disk(s) EXCEPT ![kind] = Left(d, r)]) \in Node!Broken(Mutation, Before(s))
        /\ was.rec # "none" =>
             Holding([Disk(s) EXCEPT ![kind] = Left(Damaged, was.rec)]) \in Node!Denied(Mutation, Before(s))
    BY <1>2, <2>2, <2>5
  <2>7. \/ was.rec = "none" /\ e = Left(Entry(call.from).dir, "done")
        \/ /\ ~good /\ was.rec = "none"
           /\ \E d \in {Damaged, Missing}, r \in {"none", "pending", "done"} : e = Left(d, r)
        \/ ~good /\ was.rec # "none" /\ e = Left(Damaged, was.rec)
    BY <1>6 DEF Leaves
  <2> QED BY <2>6, <2>7
<1> QED BY <1>1, <1>3, <1>4, <1>5, <1>6 DEF Calling

\* driver.ts: a call that has come to its end, well or not, or was cut short, has
\* left of the workspace's data what the lifecycle takes the call to leave.
THEOREM OutcomesHold == OutcomeSpec => OutcomesAsAssumed
<1> DEFINE Step == call.at \notin Ends /\ call'.at \in Ends =>
                     \E s \in {call.key[1]} :
                        World(s)' \in Node!Done(Mutation, Before(s)) \cup
                            IF call'.at = "done" THEN {}
                            ELSE Node!Denied(Mutation, Before(s)) \cup Node!Broken(Mutation, Before(s))
<1>1. OutcomeInit => Init /\ OInv
  BY DEF OutcomeInit, OInv, Init, NoCall, Ends
<1>2. [OutcomeNext]_<<vars, was>> => [Next]_vars
  BY DEF OutcomeNext
<1>3. ASSUME IInv, LInv, UInv, OInv, [OutcomeNext]_<<vars, was>>
      PROVE  OInv' /\ (call.at \notin Ends /\ call'.at \in Ends => Closes /\ Others)
  <2>1. CASE UNCHANGED <<vars, was>>
    <3>1. UNCHANGED <<file, dirs, call, plan, was>>
      BY <2>1 DEF vars, pool
    <3> QED BY <1>3, <3>1, EntrySplits
         DEF OInv, Course, Orderly, Stages, Source, Copied, RecordOf, Usable, Present
  <2>2. CASE OutcomeNext
    <3>1. Next /\ Remembers
      BY <2>2 DEF OutcomeNext, Remembers
    <3>2. CASE Work
      <4>1. OInv' /\ Closes /\ (call'.at \in Ends => Elsewhere)
        BY <1>3, <3>1, <3>2, WorkCourse
      <4> QED BY <4>1, EntrySplits DEF Elsewhere, Others
    <3>3. CASE StepFails \/ ClearFails \/ Crash \/ PowerFails \/ LoseRegistry
      BY <1>3, <3>1, <3>3, FaultsCourse
    <3> QED BY <1>3, <3>1, <3>2, <3>3, RestCourse
  <2> QED BY <1>3, <2>1, <2>2
<1>4. ASSUME IInv, OInv, call.at \notin Ends /\ call'.at \in Ends => Closes /\ Others
      PROVE  Step
  <2> SUFFICES ASSUME call.at \notin Ends, call'.at \in Ends, NEW s, s = call.key[1]
               PROVE  World(s)' \in Node!Done(Mutation, Before(s)) \cup
                        IF call'.at = "done" THEN {}
                        ELSE Node!Denied(Mutation, Before(s)) \cup Node!Broken(Mutation, Before(s))
    OBVIOUS
  <2> DEFINE kind == call.key[2]
  <2>1. up /\ Closes /\ Others
    BY <1>4 DEF IInv, TypeOK
  <2>2. /\ s \in Spaces /\ kind \in Node!Keys /\ call.key = Key(s, kind)
        /\ Before(s) = Holding(Disk(s))
        /\ World(s)' = Holding([Disk(s) EXCEPT ![kind] = EntryFor(dirs'[call.key], file'[call.key])])
    BY <1>4, <2>1, WorldMoves
  <2>3. Leaves(EntryFor(dirs'[call.key], file'[call.key]), call'.at = "done")
    BY <2>1 DEF Closes
  <2> HIDE DEF kind
  <2>4. Holding([Disk(s) EXCEPT ![kind] = EntryFor(dirs'[call.key], file'[call.key])]) \in
            Node!Done(Mutation, Before(s)) \cup
                IF call'.at = "done" THEN {}
                ELSE Node!Denied(Mutation, Before(s)) \cup Node!Broken(Mutation, Before(s))
    BY <1>4, <2>1, <2>2, <2>3, LeavesAsAssumed DEF kind
  <2> QED BY <2>2, <2>4
<1>5. IInv /\ (LInv /\ UInv) /\ OInv /\ [OutcomeNext]_<<vars, was>> => OInv' /\ Step
  BY <1>3, <1>4
<1> QED
  BY <1>1, <1>2, <1>5, StorageInvariant, RecordsHold, PTL DEF OutcomeSpec, OutcomesAsAssumed, Spec
=============================================================================
