--------------------------- MODULE ImageReleases ---------------------------
(***************************************************************************)
(* The image versions an operator offers: the release table with its one    *)
(* default (db/image-release-repo.ts), the snapshot of the registry it is   *)
(* filled from (db/image-catalog-repo.ts, instance/image-sync.ts), the      *)
(* images on the machine, and the administrators' requests that change them *)
(* (http/admin-routes.ts), cut at every await.                             *)
(*                                                                         *)
(* Transactions run at READ COMMITTED: a statement sees what was committed  *)
(* when it began, and waits for the lock of a row another one has changed.  *)
(***************************************************************************)
EXTENDS Naturals, FiniteSets

CONSTANTS Refs,      \* image references of the platform's repository
          Calls,     \* administrators' requests under way at once
          None,
          MaxCalls,  \* bound: operations, at 2 each, and requests, at 3, altogether
          MaxFaults  \* bound: how often something outside goes wrong

ASSUME ReleasesAssumption == None \notin Refs /\ MaxCalls \in Nat /\ MaxFaults \in Nat

VARIABLES published,  \* the refs in image_release
          default,    \* the ref of its row with is_default, None without one
          catalog,    \* the refs in image_catalog
          local,      \* the images on the machine
          admin,      \* the requests
          called,     \* what the operations and requests begun so far have cost
          faults      \* how many faults have happened

tables == <<published, default, catalog>>
images == <<tables, local, admin>>
releaseVars == <<images, called, faults>>

\* seen: what a request has read (the refs of a synchronisation; the refs
\*   found upstream or on the machine; whether there was no default).
\* held: setDefault has cleared the default row and holds its lock.
\* left: the browser has gone.  gone (history): the release was unpublished
\*   after setDefault had found it.
NoCall == [at |-> "none", ref |-> None, seen |-> {}, none |-> FALSE,
           held |-> FALSE, left |-> FALSE, gone |-> FALSE]

Points == {"none", "publish", "publish_reads", "publish_inserts", "unpublish",
           "default", "default_clears", "default_waits", "default_marks",
           "sync", "sync_saves", "sync_prunes", "pull", "pull_opens", "pull_streams"}

Fault == faults < MaxFaults /\ faults' = faults + 1

Costs(n) == called + n <= MaxCalls /\ called' = called + n

Asks(c, call) ==
    /\ admin[c] = NoCall
    /\ Costs(3)
    /\ admin' = [admin EXCEPT ![c] = call]
    /\ UNCHANGED <<tables, local, faults>>

Goes(c, call) == admin' = [admin EXCEPT ![c] = call] /\ UNCHANGED called
Ends(c) == Goes(c, NoCall)

-----------------------------------------------------------------------------
(* Publishing.                                                             *)

AskPublish(c, r) == Asks(c, [NoCall EXCEPT !.at = "publish", !.ref = r])

\* The registry's snapshot and the machine's images are read side by side; a
\* read that fails counts as empty.
PublishChecks(c) ==
    /\ admin[c].at = "publish"
    /\ \/ /\ admin[c].ref \in catalog \cup local
          /\ Goes(c, [admin[c] EXCEPT !.at = "publish_reads"])
          /\ UNCHANGED faults
       \/ admin[c].ref \notin catalog \cup local /\ Ends(c) /\ UNCHANGED faults
       \/ admin[c].ref \notin catalog \cap local /\ Fault /\ Ends(c)
    /\ UNCHANGED <<tables, local>>

\* The advisory lock, and the read of the default under it.
PublishReads(c) ==
    /\ admin[c].at = "publish_reads"
    /\ \A d \in Calls : admin[d].at # "publish_inserts"
    /\ Goes(c, [admin[c] EXCEPT !.at = "publish_inserts", !.none = (default = None)])
    /\ UNCHANGED <<tables, local, faults>>

\* ON CONFLICT (ref) DO NOTHING does not cover the index on is_default: a
\* default set meanwhile by setDefault, which takes no advisory lock, makes
\* the insert fail.
PublishInserts(c) ==
    /\ admin[c].at = "publish_inserts"
    /\ Ends(c)
    /\ IF admin[c].ref \in published \/ (admin[c].none /\ default # None)
       THEN UNCHANGED <<published, default>>
       ELSE /\ published' = published \cup {admin[c].ref}
            /\ default' = IF admin[c].none THEN admin[c].ref ELSE default
    /\ UNCHANGED <<catalog, local, faults>>

Publishing(c) == PublishChecks(c) \/ PublishReads(c) \/ PublishInserts(c)

-----------------------------------------------------------------------------
(* Taking a version back.                                                  *)

AskUnpublish(c, r) == Asks(c, [NoCall EXCEPT !.at = "unpublish", !.ref = r])

Defaulting == {"default_clears", "default_waits", "default_marks"}

\* What the other requests come to when r is taken back.
Missed(c, r) ==
    [d \in Calls |-> IF d = c THEN NoCall
                     ELSE IF admin[d].at \in Defaulting /\ admin[d].ref = r
                     THEN [admin[d] EXCEPT !.gone = TRUE] ELSE admin[d]]

\* Slip: the row is deleted whether or not it is the default.
UnpublishAnyway(c) ==
    /\ admin[c].at = "unpublish"
    /\ published' = published \ {admin[c].ref}
    /\ default' = IF default = admin[c].ref THEN None ELSE default
    /\ admin' = IF admin[c].ref \in published THEN Missed(c, admin[c].ref)
                ELSE [admin EXCEPT ![c] = NoCall]
    /\ UNCHANGED <<catalog, local, called, faults>>

\* DELETE ... WHERE ref AND NOT is_default; the second query only words the answer.
Unpublish(c) ==
    /\ admin[c].at = "unpublish"
    /\ IF admin[c].ref \in published /\ admin[c].ref # default
       THEN published' = published \ {admin[c].ref} /\ admin' = Missed(c, admin[c].ref)
       ELSE admin' = [admin EXCEPT ![c] = NoCall] /\ UNCHANGED published
    /\ UNCHANGED <<default, catalog, local, called, faults>>

-----------------------------------------------------------------------------
(* Changing the default: look, clear the old one, mark the new one, commit. *)

AskDefault(c, r) == Asks(c, [NoCall EXCEPT !.at = "default", !.ref = r])

DefaultLooks(c) ==
    /\ admin[c].at = "default"
    /\ IF admin[c].ref \in published
       THEN Goes(c, [admin[c] EXCEPT !.at = "default_clears"]) ELSE Ends(c)
    /\ UNCHANGED <<tables, local, faults>>

\* Behind another transaction that has cleared the same row it waits, and then
\* looks at that row again (DefaultMarks lets it go on).
DefaultClears(c) ==
    /\ admin[c].at = "default_clears"
    /\ Goes(c, IF \E d \in Calls : admin[d].held
               THEN [admin[c] EXCEPT !.at = "default_waits"]
               ELSE [admin[c] EXCEPT !.at = "default_marks", !.held = (default # None)])
    /\ UNCHANGED <<tables, local, faults>>

\* The index on is_default allows one row: with an uncleared default elsewhere
\* the transaction is rolled back.  A row deleted meanwhile is not marked, and
\* the transaction commits all the same.
Marks(c) == admin[c].held \/ default \in {None, admin[c].ref}
AfterMark(c) == IF ~Marks(c) THEN default
                ELSE IF admin[c].ref \in published THEN admin[c].ref
                ELSE IF admin[c].held THEN None ELSE default

\* The transactions that waited for c's row: if it is still the default they
\* clear it, otherwise they have cleared nothing.
Released(c, d) ==
    [x \in Calls |->
        IF x = c THEN NoCall
        ELSE IF admin[c].held /\ admin[x].at = "default_waits"
        THEN [admin[x] EXCEPT !.at = IF d = default THEN "default_clears" ELSE "default_marks"]
        ELSE admin[x]]

DefaultMarks(c) ==
    /\ admin[c].at = "default_marks"
    /\ default' = AfterMark(c)
    /\ admin' = Released(c, default')
    /\ UNCHANGED <<published, catalog, local, called, faults>>

\* A statement fails or the connection drops: rolled back.
DefaultFails(c) ==
    /\ admin[c].at \in Defaulting
    /\ Fault
    /\ admin' = Released(c, default)
    /\ UNCHANGED <<tables, local, called>>

SettingDefault(c) == DefaultLooks(c) \/ DefaultClears(c) \/ DefaultMarks(c) \/ DefaultFails(c)

-----------------------------------------------------------------------------
(* Synchronising the snapshot of the registry.                             *)

AskSync(c) == Asks(c, [NoCall EXCEPT !.at = "sync"])

\* listTags and the digest of each release tag: those that answered.  No
\* list, or not one digest, is an error and changes nothing.
SyncReads(c, seen) ==
    /\ admin[c].at = "sync"
    /\ \/ Goes(c, [admin[c] EXCEPT !.at = "sync_saves", !.seen = seen]) /\ UNCHANGED faults
       \/ Fault /\ Ends(c)
    /\ UNCHANGED <<tables, local>>

SyncSaves(c) ==
    /\ admin[c].at = "sync_saves"
    /\ Goes(c, [admin[c] EXCEPT !.at = "sync_prunes"])
    /\ catalog' = catalog \cup admin[c].seen
    /\ UNCHANGED <<published, default, local, faults>>

SyncPrunes(c) ==
    /\ admin[c].at = "sync_prunes"
    /\ Ends(c)
    /\ catalog' = catalog \cap admin[c].seen
    /\ UNCHANGED <<published, default, local, faults>>

Synchronising(c) == (\E seen \in SUBSET Refs : SyncReads(c, seen)) \/ SyncSaves(c) \/ SyncPrunes(c)

-----------------------------------------------------------------------------
(* Downloading an image ahead of time: a stream of progress from the node   *)
(* to the browser, one of the node's mutations as long as it lasts.        *)

AskPull(c, r) == Asks(c, [NoCall EXCEPT !.at = "pull", !.ref = r])

Pulling == \E c \in Calls : admin[c].at \in {"pull_opens", "pull_streams"}

\* busy: another mutation has the node; the stream then ends in an error event.
PullBegins(c, busy) ==
    /\ admin[c].at = "pull"
    /\ IF busy \/ Pulling THEN Ends(c) ELSE Goes(c, [admin[c] EXCEPT !.at = "pull_opens"])
    /\ UNCHANGED <<tables, local, faults>>

\* The stream is there; nobody may be waiting for it any more.
PullOpens(c) ==
    /\ admin[c].at = "pull_opens"
    /\ IF admin[c].left THEN Ends(c) ELSE Goes(c, [admin[c] EXCEPT !.at = "pull_streams"])
    /\ UNCHANGED <<tables, local, faults>>

\* close of the response: the stream is destroyed when there is one.
BrowserLeaves(c) ==
    /\ \/ admin[c].at = "pull_opens" /\ ~admin[c].left
          /\ Goes(c, [admin[c] EXCEPT !.left = TRUE])
       \/ admin[c].at = "pull_streams" /\ Ends(c)
    /\ UNCHANGED <<tables, local, faults>>

\* The stream ends with the image on the machine, or with an error in it; the
\* node gives the mutation's place back once, whatever ends first.
PullEnds(c) ==
    /\ \/ admin[c].at = "pull_streams" /\ local' = local \cup {admin[c].ref} /\ UNCHANGED faults
       \/ admin[c].at \in {"pull_opens", "pull_streams"} /\ Fault /\ UNCHANGED local
    /\ Ends(c)
    /\ UNCHANGED tables

PullSteps(c, busy) == PullBegins(c, busy) \/ PullOpens(c) \/ BrowserLeaves(c) \/ PullEnds(c)

-----------------------------------------------------------------------------

Requests(c, busy) ==
    \/ \E r \in Refs : AskPublish(c, r) \/ AskUnpublish(c, r) \/ AskDefault(c, r) \/ AskPull(c, r)
    \/ AskSync(c)
    \/ Publishing(c) \/ Unpublish(c) \/ SettingDefault(c) \/ Synchronising(c)
    \/ PullSteps(c, busy)

NothingPublished == published = {} /\ default = None /\ catalog = Refs /\ local = {}
AllPublished == published = Refs /\ default \in Refs \cup {None} /\ catalog = Refs /\ local = {}

NoRequests ==
    /\ admin = [c \in Calls |-> NoCall]
    /\ called = 0
    /\ faults = 0

ReleasesOK ==
    /\ published \in SUBSET Refs
    /\ default \in published \cup {None}
    /\ catalog \in SUBSET Refs
    /\ local \in SUBSET Refs
    /\ admin \in [Calls -> [at : Points, ref : Refs \cup {None}, seen : SUBSET Refs,
                            none : BOOLEAN, held : BOOLEAN, left : BOOLEAN, gone : BOOLEAN]]
    /\ called \in 0..MaxCalls
    /\ faults \in 0..MaxFaults

=============================================================================
