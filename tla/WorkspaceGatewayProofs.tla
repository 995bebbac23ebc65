----------------------- MODULE WorkspaceGatewayProofs -----------------------
(***************************************************************************)
(* Proofs about WorkspaceGateway, for any requests, sessions, limits and    *)
(* delays.  They come in three layers, each an inductive invariant that     *)
(* uses the one before:                                                     *)
(*   Slots    the counters of the two pools are the work under way;         *)
(*   Codes    what a code has minted, and on whom the session hangs;        *)
(*   Leases   how old the right of a stream may be at each await of its     *)
(*            renewal, by the time its timer has left: the age and the       *)
(*            timer are bounded together, so that a tick changes neither     *)
(*            sum, and an answer resets one of them.                         *)
(***************************************************************************)
EXTENDS WorkspaceGateway, FiniteSetTheorems, TLAPS

Shape == [at : Places, http : {"idle", "waiting", "stream"}, timer : Nat,
          cookie : 0..MaxGrants, row : 0..MaxRows, user : BOOLEAN,
          port : Ports \cup {NoPort}]
RowShape == [id : 0..MaxRows, status : {"running", "error", "stopped"},
             port : Ports \cup {NoPort}]
GrantShape == [state : {"free", "open", "used"}, row : 0..MaxRows,
               session : Sessions \cup {NoSession}]
AskShape == [at : {"none", "session", "row", "issue"},
             session : Sessions \cup {NoSession}, row : 0..MaxRows]

RowsOK ==
    /\ workspace \in RowShape
    /\ made \in 1..MaxRows
    /\ live \subseteq opened /\ opened \subseteq Sessions
    /\ banned \in BOOLEAN
    /\ grants \in [GrantIds -> GrantShape]
    /\ tokens \subseteq GrantIds
    /\ minted \in [GrantIds -> Nat]

RestOK ==
    /\ console \in AskShape
    /\ req \in [Requests -> Shape]
    /\ admitted \in 0..MaxAdmit /\ renewing \in 0..MaxRenew
    /\ closing \in BOOLEAN
    /\ age \in [Requests -> 0..TooOld]
    /\ changes \in 0..MaxChanges

\* The type invariant by the shapes of its records.
LEMMA TypeParts == TypeOK <=> RowsOK /\ RestOK
  BY DEF TypeOK, RowsOK, RestOK, RowShape, GrantShape, AskShape, Shape

LEMMA TypePartsNext == TypeOK' <=> RowsOK' /\ RestOK'
  BY DEF TypeOK, RowsOK, RestOK, RowShape, GrantShape, AskShape, Shape

-----------------------------------------------------------------------------
(* The inductive invariants.                                               *)

\* Only finitely many requests are at work, though Requests may be any set.
WorkIsFinite == IsFiniteSet(InWork(Authorising)) /\ IsFiniteSet(InWork(Renewing))

\* The callback of a login carries a code.
Coded(q) == q.at \in {"callback", "exchange"} => q.cookie \in GrantIds
CallbackHasCode == \A r \in Requests : Coded(req[r])

Slots == TypeOK /\ SlotsAreWork /\ WorkIsFinite /\ CallbackHasCode

\* A code that has minted is spent, and a session comes of a spent code.
MintedIsSpent == \A n \in GrantIds : minted[n] > 0 => grants[n].state = "used"
TokenIsSpent == \A n \in tokens : grants[n].state = "used"

Codes == MintedIsSpent /\ TokenIsSpent /\ CodeIsUsedOnce /\ TokensHangOnOwner

\* No code names a row to come.
RowsWereMade == workspace.id <= made /\ \A n \in GrantIds : grants[n].row <= made

\* What holds of a request q whose right is a ticks old.  Its cookie names a
\* code that was issued.
Issued(q) == q.cookie # 0 => grants[q.cookie].state # "free"

\* Where it stands while somebody waits, or holds a stream.
Placed(q) ==
    /\ q.http = "waiting" => q.at \in Authorising
    /\ q.http = "stream" => q.at \in {"none"} \cup Renewing

\* If the row its code names is the live one, a stream leads to it.
LeadsToRow(q) ==
    (/\ q.http = "stream"
     /\ q.cookie # 0
     /\ workspace.id # 0
     /\ grants[q.cookie].row = workspace.id) => q.port = workspace.port

\* Its clock stands at zero while it is entitled.
Fresh(q, a) == q.http # "idle" /\ Entitled(q) => a = 0

\* A renewal that has not asked has no answer, and one that goes on has.
Asked(q) ==
    /\ q.http = "waiting" => ~q.user
    /\ q.http = "stream" /\ q.at \in {"none", "checkRow", "checkIdentity"} => ~q.user
    /\ q.http = "stream" /\ q.at = "checkPort" => q.user

\* The right was seen to hold within one deadline, once the identity has been
\* read; within a deadline before the interval began; and within the sum of
\* both and another deadline while the next renewal runs.
InTime(q, a) ==
    /\ q.http = "waiting" => q.timer <= Deadline
    /\ q.http = "waiting" /\ q.at = "port" => a + q.timer <= Deadline
    /\ q.http = "stream" /\ q.at = "none" => a + q.timer <= Interval + Deadline
    /\ q.http = "stream" /\ q.at \in Renewing =>
         q.timer <= Deadline /\ a + q.timer <= Interval + 2 * Deadline
    /\ q.http = "stream" /\ q.user => a + q.timer <= Deadline

Lease(q, a) ==
    /\ Issued(q) /\ Placed(q) /\ LeadsToRow(q)
    /\ Fresh(q, a) /\ Asked(q) /\ InTime(q, a)

Leases == RowsWereMade /\ \A r \in Requests : Lease(req[r], age[r])

-----------------------------------------------------------------------------
(* The slots.                                                              *)

\* The requests at some places, after the request r has got the state q.
LEMMA WorkAfter ==
  ASSUME req \in [Requests -> Shape], NEW r \in Requests, NEW q \in Shape, NEW places,
         req' = [req EXCEPT ![r] = q]
  PROVE  /\ q.at \in places => InWork(places)' = InWork(places) \cup {r}
         /\ q.at \notin places => InWork(places)' = InWork(places) \ {r}
         /\ req[r].at \in places <=> r \in InWork(places)
  BY DEF InWork

LEMMA WorkStays ==
  ASSUME req \in [Requests -> Shape], NEW r \in Requests, NEW q \in Shape, NEW places,
         req' = [req EXCEPT ![r] = q], q.at \in places <=> req[r].at \in places
  PROVE  InWork(places)' = InWork(places)
  <1>1. \A x \in Requests : req'[x].at \in places <=> req[x].at \in places
    OBVIOUS
  <1>2. QED
    BY <1>1 DEF InWork

LEMMA CodedAfter ==
  ASSUME req \in [Requests -> Shape], NEW r \in Requests, NEW q \in Shape, Coded(q),
         req' = [req EXCEPT ![r] = q], CallbackHasCode
  PROVE  CallbackHasCode'
  BY DEF CallbackHasCode, Coded

LEMMA WorkBegins ==
  ASSUME req \in [Requests -> Shape], NEW r \in Requests, NEW q \in Shape, NEW places,
         req' = [req EXCEPT ![r] = q], q.at \in places, req[r].at \notin places,
         IsFiniteSet(InWork(places))
  PROVE  /\ IsFiniteSet(InWork(places)')
         /\ Cardinality(InWork(places)') = Cardinality(InWork(places)) + 1
  <1>1. InWork(places)' = InWork(places) \cup {r} /\ r \notin InWork(places)
    BY WorkAfter
  <1>2. QED
    BY <1>1, FS_AddElement

LEMMA WorkEnds ==
  ASSUME req \in [Requests -> Shape], NEW r \in Requests, NEW q \in Shape, NEW places,
         req' = [req EXCEPT ![r] = q], q.at \notin places, req[r].at \in places,
         IsFiniteSet(InWork(places))
  PROVE  /\ IsFiniteSet(InWork(places)')
         /\ Cardinality(InWork(places)') = Cardinality(InWork(places)) - 1
         /\ Cardinality(InWork(places)) \in Nat \ {0}
  <1>1. InWork(places)' = InWork(places) \ {r} /\ r \in InWork(places)
    BY WorkAfter
  <1>2. /\ IsFiniteSet(InWork(places)')
        /\ Cardinality(InWork(places)') = Cardinality(InWork(places)) - 1
    BY <1>1, FS_RemoveElement
  <1>3. Cardinality(InWork(places)) \in Nat /\ Cardinality(InWork(places)') \in Nat
    BY <1>2, FS_CardinalityType
  <1>4. QED
    BY <1>2, <1>3

\* Shapes of the constants.
LEMMA Constants ==
  /\ MaxAdmit \in Nat \ {0} /\ MaxRenew \in Nat \ {0} /\ Deadline \in Nat \ {0}
  /\ Interval \in Nat \ {0} /\ MaxRows \in Nat \ {0} /\ MaxGrants \in Nat \ {0}
  /\ MaxChanges \in Nat /\ TooOld \in Nat
  /\ Blank \in Shape /\ Mine \subseteq Sessions
  BY GatewayAssumption DEF TooOld, Blank, Shape, Places

\* What a request of the gateway keeps of the types when it moves.
LEMMA GoesType ==
  ASSUME TypeOK, NEW r \in Requests, NEW q \in Shape, Goes(r, q),
         admitted' \in 0..MaxAdmit, renewing' \in 0..MaxRenew,
         age' \in [Requests -> 0..TooOld]
  PROVE  TypeOK'
  <1>1. req' \in [Requests -> Shape]
    BY DEF TypeOK, Goes, Shape
  <1>2. QED
    BY <1>1 DEF TypeOK, Goes, Shape, rows, GrantIds

\* A request that moves within its pool, or outside both, leaves the slots alone.
LEMMA MoveSlots ==
  ASSUME Slots, NEW r \in Requests, NEW q \in Shape, Coded(q),
         Goes(r, q), UNCHANGED <<slots, age>>,
         q.at \in Authorising <=> req[r].at \in Authorising,
         q.at \in Renewing <=> req[r].at \in Renewing
  PROVE  Slots'
  <1>1. req \in [Requests -> Shape] /\ req' = [req EXCEPT ![r] = q]
    BY DEF Slots, TypeOK, Shape, Goes
  <1>2. InWork(Authorising)' = InWork(Authorising)
    BY <1>1, WorkStays
  <1>3. InWork(Renewing)' = InWork(Renewing)
    BY <1>1, WorkStays
  <1>4. TypeOK'
    BY GoesType DEF Slots, slots, TypeOK
  <1>5. CallbackHasCode'
    BY <1>1, CodedAfter DEF Slots
  <1>6. QED
    BY <1>2, <1>3, <1>4, <1>5 DEF Slots, SlotsAreWork, WorkIsFinite, slots

\* A slot of either pool is taken when the work begins.
LEMMA TakeAdmission ==
  ASSUME Slots, NEW r \in Requests, NEW q \in Shape, Coded(q), Goes(r, q),
         q.at \in Authorising, req[r].at = "none",
         admitted < MaxAdmit, admitted' = admitted + 1, UNCHANGED renewing,
         age' \in [Requests -> 0..TooOld]
  PROVE  Slots'
  <1>1. req \in [Requests -> Shape] /\ req' = [req EXCEPT ![r] = q]
    BY DEF Slots, TypeOK, Shape, Goes
  <1>2. /\ IsFiniteSet(InWork(Authorising)')
        /\ Cardinality(InWork(Authorising)') = Cardinality(InWork(Authorising)) + 1
    <2>1. req[r].at \notin Authorising
      BY DEF Authorising
    <2>2. QED
      BY <1>1, <2>1, WorkBegins DEF Slots, WorkIsFinite
  <1>3. InWork(Renewing)' = InWork(Renewing)
    <2>1. q.at \notin Renewing /\ req[r].at \notin Renewing
      BY DEF Authorising, Renewing
    <2>2. QED
      BY <1>1, <2>1, WorkStays
  <1>4. TypeOK'
    <2>1. admitted' \in 0..MaxAdmit /\ renewing' \in 0..MaxRenew
      BY Constants DEF Slots, TypeOK
    <2>2. QED
      BY <2>1, GoesType DEF Slots
  <1>5. CallbackHasCode'
    BY <1>1, CodedAfter DEF Slots
  <1>6. QED
    BY <1>2, <1>3, <1>4, <1>5 DEF Slots, SlotsAreWork, WorkIsFinite

LEMMA TakeRenewal ==
  ASSUME Slots, NEW r \in Requests, NEW q \in Shape, Goes(r, q),
         q.at \in Renewing, req[r].at = "none",
         renewing < MaxRenew, renewing' = renewing + 1, UNCHANGED <<admitted, age>>
  PROVE  Slots'
  <1>1. req \in [Requests -> Shape] /\ req' = [req EXCEPT ![r] = q]
    BY DEF Slots, TypeOK, Shape, Goes
  <1>2. /\ IsFiniteSet(InWork(Renewing)')
        /\ Cardinality(InWork(Renewing)') = Cardinality(InWork(Renewing)) + 1
    <2>1. req[r].at \notin Renewing
      BY DEF Renewing
    <2>2. QED
      BY <1>1, <2>1, WorkBegins DEF Slots, WorkIsFinite
  <1>3. InWork(Authorising)' = InWork(Authorising)
    <2>1. q.at \notin Authorising /\ req[r].at \notin Authorising
      BY DEF Authorising, Renewing
    <2>2. QED
      BY <1>1, <2>1, WorkStays
  <1>4. TypeOK'
    <2>1. admitted' \in 0..MaxAdmit /\ renewing' \in 0..MaxRenew /\ age' \in [Requests -> 0..TooOld]
      BY Constants DEF Slots, TypeOK
    <2>2. QED
      BY <2>1, GoesType DEF Slots
  <1>5. CallbackHasCode'
    <2>1. Coded(q)
      BY DEF Coded, Renewing
    <2>2. QED
      BY <1>1, <2>1, CodedAfter DEF Slots
  <1>6. QED
    BY <1>2, <1>3, <1>4, <1>5 DEF Slots, SlotsAreWork, WorkIsFinite

\* A slot goes back when the work is over, and was held by that work.
LEMMA ReturnAdmission ==
  ASSUME Slots, NEW r \in Requests, NEW q \in Shape,
         req' = [req EXCEPT ![r] = q],
         q.at = "none", req[r].at \in Authorising,
         admitted' = admitted - 1, UNCHANGED renewing
  PROVE  SlotsAreWork' /\ WorkIsFinite' /\ admitted' \in 0..MaxAdmit /\ CallbackHasCode'
  <1>1. req \in [Requests -> Shape] /\ req' = [req EXCEPT ![r] = q]
    BY DEF Slots, TypeOK, Shape
  <1>2. /\ IsFiniteSet(InWork(Authorising)')
        /\ Cardinality(InWork(Authorising)') = Cardinality(InWork(Authorising)) - 1
        /\ Cardinality(InWork(Authorising)) \in Nat \ {0}
    <2>1. q.at \notin Authorising
      BY DEF Authorising
    <2>2. QED
      BY <1>1, <2>1, WorkEnds DEF Slots, WorkIsFinite
  <1>3. InWork(Renewing)' = InWork(Renewing)
    <2>1. q.at \notin Renewing /\ req[r].at \notin Renewing
      BY DEF Authorising, Renewing
    <2>2. QED
      BY <1>1, <2>1, WorkStays
  <1>4. admitted' \in 0..MaxAdmit
    <2>1. admitted \in 0..MaxAdmit /\ admitted \in Nat \ {0} /\ MaxAdmit \in Nat
      BY <1>2, Constants DEF Slots, TypeOK, SlotsAreWork
    <2>2. QED
      BY <2>1
  <1>5. CallbackHasCode'
    <2>1. Coded(q)
      BY DEF Coded
    <2>2. QED
      BY <1>1, <2>1, CodedAfter DEF Slots
  <1>6. QED
    BY <1>2, <1>3, <1>4, <1>5 DEF Slots, SlotsAreWork, WorkIsFinite

LEMMA ReturnRenewal ==
  ASSUME Slots, NEW r \in Requests, NEW q \in Shape, Goes(r, q),
         q.at = "none", req[r].at \in Renewing,
         renewing' = renewing - 1, UNCHANGED <<admitted, age>>
  PROVE  Slots'
  <1>1. req \in [Requests -> Shape] /\ req' = [req EXCEPT ![r] = q]
    BY DEF Slots, TypeOK, Shape, Goes
  <1>2. /\ IsFiniteSet(InWork(Renewing)')
        /\ Cardinality(InWork(Renewing)') = Cardinality(InWork(Renewing)) - 1
        /\ Cardinality(InWork(Renewing)) \in Nat \ {0}
    <2>1. q.at \notin Renewing
      BY DEF Renewing
    <2>2. QED
      BY <1>1, <2>1, WorkEnds DEF Slots, WorkIsFinite
  <1>3. InWork(Authorising)' = InWork(Authorising)
    <2>1. q.at \notin Authorising /\ req[r].at \notin Authorising
      BY DEF Authorising, Renewing
    <2>2. QED
      BY <1>1, <2>1, WorkStays
  <1>4. TypeOK'
    <2>1. renewing \in 0..MaxRenew /\ renewing \in Nat \ {0} /\ MaxRenew \in Nat
      BY <1>2, Constants DEF Slots, TypeOK, SlotsAreWork
    <2>2. renewing' \in 0..MaxRenew
      BY <2>1
    <2>3. QED
      BY <2>2, GoesType DEF Slots, TypeOK
  <1>5. CallbackHasCode'
    <2>1. Coded(q)
      BY DEF Coded
    <2>2. QED
      BY <1>1, <2>1, CodedAfter DEF Slots
  <1>6. QED
    BY <1>2, <1>3, <1>4, <1>5 DEF Slots, SlotsAreWork, WorkIsFinite

\* Steps that touch no request.
LEMMA RestSlots ==
  ASSUME Slots, TypeOK', UNCHANGED <<req, slots>>
  PROVE  Slots'
  <1>1. /\ InWork(Authorising)' = InWork(Authorising)
        /\ InWork(Renewing)' = InWork(Renewing)
    BY DEF InWork
  <1>2. CallbackHasCode'
    BY DEF Slots, CallbackHasCode, Coded
  <1>3. QED
    BY <1>1, <1>2 DEF Slots, SlotsAreWork, WorkIsFinite, slots

LEMMA InitSlots == Init => Slots
  <1> SUFFICES ASSUME Init PROVE Slots
    OBVIOUS
  <1> USE Constants, GatewayAssumption
  <1>1. workspace \in RowShape
    BY DEF Init, RowShape
  <1>2. NoGrant \in GrantShape /\ Free \in AskShape
    BY DEF NoGrant, GrantShape, Free, AskShape
  <1>3. RowsOK
    <2>1. 1 \in 1..MaxRows /\ 0 \in Nat
      OBVIOUS
    <2>2. QED
      BY <1>1, <1>2, <2>1 DEF Init, RowsOK
  <1>6. RestOK
    <2>1. TooOld \in 0..TooOld /\ 0 \in 0..MaxAdmit /\ 0 \in 0..MaxRenew /\ 0 \in 0..MaxChanges
      OBVIOUS
    <2>2. QED
      BY <1>2, <2>1 DEF Init, RestOK
  <1>4. InWork(Authorising) = {} /\ InWork(Renewing) = {}
    BY DEF Init, InWork, Blank, Authorising, Renewing
  <1>5. CallbackHasCode
    BY DEF Init, CallbackHasCode, Coded, Blank
  <1>7. QED
    BY <1>3, <1>4, <1>5, <1>6, TypeParts, FS_EmptySet DEF Init, Slots, SlotsAreWork, WorkIsFinite

LEMMA RememberedType ==
  ASSUME age \in [Requests -> 0..TooOld], Remembered
  PROVE  age' \in [Requests -> 0..TooOld]
  BY Constants DEF Remembered

LEMMA ChangesSlots == ASSUME Slots, RowsOK', Changes PROVE Slots'
  <1>1. RestOK
    BY TypeParts DEF Slots
  <1>2. age' \in [Requests -> 0..TooOld]
    BY <1>1, RememberedType DEF RestOK, Changes
  <1>3. changes' \in 0..MaxChanges
    BY <1>1, Constants DEF RestOK, Changes
  <1>4. RestOK'
    BY <1>1, <1>2, <1>3 DEF RestOK, Changes, slots
  <1>5. QED
    BY <1>4, TypePartsNext, RestSlots DEF Changes

\* The world changes rows of the types they have.
LEMMA WorldSlots == ASSUME Slots, World PROVE Slots'
  <1> USE DEF RowsOK
  <1>0. RowsOK
    BY TypeParts DEF Slots
  <1>1. ASSUME NEW s \in Sessions, SignIn(s) PROVE RowsOK' /\ Changes
    BY <1>0, <1>1 DEF SignIn
  <1>2. ASSUME NEW s \in Sessions, SessionEnds(s) PROVE RowsOK' /\ Changes
    <2>1. grants' \in [GrantIds -> GrantShape]
      BY <1>0, <1>2 DEF SessionEnds, GrantShape
    <2>2. QED
      BY <1>0, <1>2, <2>1 DEF SessionEnds
  <1>3. ASSUME NEW b \in BOOLEAN, SetUserBanned(b) PROVE RowsOK' /\ Changes
    BY <1>0, <1>3 DEF SetUserBanned
  <1>4. ASSUME NEW status \in {"running", "error", "stopped"}, WorkspaceMoves(status)
        PROVE  RowsOK' /\ Changes
    <2>1. workspace' \in RowShape
      BY <1>0, <1>4 DEF WorkspaceMoves, RowShape
    <2>2. QED
      BY <1>0, <1>4, <2>1 DEF WorkspaceMoves
  <1>5. ASSUME WorkspaceDeleted PROVE RowsOK' /\ Changes
    <2>1. workspace' \in RowShape
      BY <1>5, Constants DEF WorkspaceDeleted, RowShape, Gone
    <2>2. QED
      BY <1>0, <1>5, <2>1 DEF WorkspaceDeleted
  <1>6. ASSUME WorkspaceCreated PROVE RowsOK' /\ Changes
    <2>1. made' \in 1..MaxRows
      BY <1>0, <1>6, Constants DEF WorkspaceCreated
    <2>2. workspace' \in RowShape
      BY <2>1, <1>6, Constants DEF WorkspaceCreated, RowShape
    <2>3. QED
      BY <1>0, <1>6, <2>1, <2>2 DEF WorkspaceCreated
  <1>7. ASSUME NEW n \in GrantIds, GrantExpires(n) PROVE RowsOK' /\ Changes
    <2>1. [grants[n] EXCEPT !.state = "used"] \in GrantShape
      BY <1>0 DEF GrantShape
    <2>2. QED
      BY <1>0, <1>7, <2>1 DEF GrantExpires
  <1>8. ASSUME NEW n \in GrantIds, TokenExpires(n) PROVE RowsOK' /\ Changes
    BY <1>0, <1>8 DEF TokenExpires
  <1>9. RowsOK' /\ Changes
    BY <1>1, <1>2, <1>3, <1>4, <1>5, <1>6, <1>7, <1>8 DEF World
  <1>10. QED
    BY <1>9, ChangesSlots

\* So does the endpoint of the console.
LEMMA ConsoleSlots == ASSUME Slots, Console PROVE Slots'
  <1>0. RowsOK /\ RestOK
    BY TypeParts DEF Slots
  <1>9. Free \in AskShape
    BY Constants DEF Free, AskShape
  <1> DEFINE Done == RowsOK' /\ console' \in AskShape
                     /\ UNCHANGED <<req, slots, closing, age, changes>>
  <1>1. ASSUME AskConsole PROVE Done
    BY <1>0, <1>1 DEF RowsOK, RestOK, AskConsole, AskShape, rows
  <1>2. ASSUME ConsoleSession PROVE Done
    <2>1. \A s \in live : [console EXCEPT !.at = "row", !.session = s] \in AskShape
      BY <1>0 DEF RowsOK, RestOK, AskShape
    <2>2. QED
      BY <1>0, <1>2, <1>9, <2>1 DEF RowsOK, ConsoleSession, rows
  <1>3. ASSUME ConsoleRow PROVE Done
    <2>1. workspace.id \in 0..MaxRows
      BY <1>0 DEF RowsOK, RowShape
    <2>2. [console EXCEPT !.at = "issue", !.row = workspace.id] \in AskShape
      BY <1>0, <2>1 DEF RestOK, AskShape
    <2>3. QED
      BY <1>0, <1>3, <1>9, <2>2 DEF RowsOK, ConsoleRow, rows
  <1>4. ASSUME IssueGrant PROVE Done
    <2>1. grants' \in [GrantIds -> GrantShape]
      <3>1. [state |-> "open", row |-> console.row, session |-> console.session] \in GrantShape
        BY <1>0 DEF RestOK, AskShape, GrantShape
      <3>2. QED
        BY <1>0, <1>4, <3>1 DEF RowsOK, IssueGrant
    <2>2. QED
      BY <1>0, <1>4, <1>9, <2>1 DEF RowsOK, IssueGrant
  <1>5. ASSUME ConsoleGivesUp PROVE Done
    BY <1>0, <1>5, <1>9 DEF RowsOK, ConsoleGivesUp, rows
  <1>6. Done
    BY <1>1, <1>2, <1>3, <1>4, <1>5 DEF Console
  <1>7. RestOK'
    BY <1>0, <1>6 DEF RestOK, slots
  <1>8. QED
    BY <1>6, <1>7, TypePartsNext, RestSlots

\* A request settles: its slot is free again.
LEMMA SettlesSlots ==
  ASSUME Slots, NEW r \in Requests, NEW q \in Shape, q.at = "none",
         req[r].at \in Authorising, Settles(r, q)
  PROVE  Slots'
  <1>1. req' = [req EXCEPT ![r] = q] /\ admitted' = admitted - 1 /\ UNCHANGED <<renewing, age>>
    BY DEF Settles, Goes
  <1>2. SlotsAreWork' /\ WorkIsFinite' /\ admitted' \in 0..MaxAdmit /\ CallbackHasCode'
    BY <1>1, ReturnAdmission
  <1>3. TypeOK'
    BY <1>1, <1>2, GoesType DEF Slots, TypeOK, Settles
  <1>4. QED
    BY <1>2, <1>3 DEF Slots

LEMMA VerdictSlots ==
  ASSUME Slots, NEW r \in Requests, NEW allowed \in BOOLEAN,
         req[r].at \in Renewing, Verdict(r, allowed)
  PROVE  Slots'
  <1> DEFINE q == IF allowed /\ req[r].http = "stream"
                  THEN [req[r] EXCEPT !.at = "none", !.timer = Interval, !.user = FALSE]
                  ELSE Blank
  <1>1. q \in Shape /\ q.at = "none"
    BY Constants DEF Slots, TypeOK, Shape, Places, Blank
  <1>2. Goes(r, q) /\ renewing' = renewing - 1 /\ UNCHANGED <<admitted, age>>
    BY DEF Verdict
  <1>3. QED
    BY <1>1, <1>2, ReturnRenewal

\* The handlers of the gateway take and return slots as their work goes.
LEMMA ServeSlots == ASSUME Slots, NEW r \in Requests, Serve(r) PROVE Slots'
  <1> USE Constants
  <1>0. /\ req \in [Requests -> Shape] /\ req[r] \in Shape
        /\ RowsOK /\ age \in [Requests -> 0..TooOld]
        /\ TypeOK /\ Blank.at = "none"
    BY TypeParts DEF Slots, RestOK, Blank
  <1>a. ASSUME NEW place \in Authorising, NEW n \in 0..MaxGrants,
               place \in {"callback", "exchange"} => n \in GrantIds, Arrive(r, place, n)
        PROVE  Slots'
    <2> DEFINE q == [Blank EXCEPT !.at = place, !.http = "waiting",
                                  !.timer = Deadline, !.cookie = n]
    <2>1. q \in Shape /\ q.at \in Authorising /\ Coded(q)
      BY <1>a DEF Blank, Shape, Places, Coded
    <2>2. age' \in [Requests -> 0..TooOld]
      BY <1>0, <1>a DEF Arrive
    <2>3. req[r].at = "none" /\ Goes(r, q) /\ admitted < MaxAdmit
          /\ admitted' = admitted + 1 /\ UNCHANGED renewing
      BY <1>0, <1>a DEF Arrive
    <2>4. QED
      BY <2>1, <2>2, <2>3, TakeAdmission
  <1>b. ASSUME NEW place \in {"row", "port"}, req[r].at \in Authorising, Moves(r, place)
        PROVE  Slots'
    <2>1. [req[r] EXCEPT !.at = place] \in Shape /\ Coded([req[r] EXCEPT !.at = place])
      BY <1>0 DEF Shape, Places, Authorising, Coded
    <2>2. place \in Authorising /\ place \notin Renewing /\ req[r].at \notin Renewing
      BY <1>b DEF Authorising, Renewing
    <2>3. [req[r] EXCEPT !.at = place].at = place
      BY <1>0 DEF Shape
    <2>4. QED
      BY <1>b, <2>1, <2>2, <2>3, MoveSlots DEF Moves
  <1>c. ASSUME NEW q \in Shape, Coded(q), Goes(r, q), UNCHANGED <<slots, age>>,
               q.at \in Authorising, req[r].at \in Authorising
        PROVE  Slots'
    <2>1. q.at \notin Renewing /\ req[r].at \notin Renewing
      BY <1>c DEF Authorising, Renewing
    <2>2. QED
      BY <1>c, <2>1, MoveSlots
  <1>d. ASSUME NEW q \in Shape, Goes(r, q), UNCHANGED <<slots, age>>,
               q.at \in Renewing, req[r].at \in Renewing
        PROVE  Slots'
    <2>1. q.at \notin Authorising /\ req[r].at \notin Authorising
      BY <1>d DEF Authorising, Renewing
    <2>2. Coded(q)
      BY <1>d DEF Coded, Renewing
    <2>3. QED
      BY <1>d, <2>1, <2>2, MoveSlots
  <1>e. workspace.id \in 0..MaxRows /\ workspace.port \in Ports \cup {NoPort}
    BY <1>0 DEF RowsOK, RowShape
  <1>1. CASE ArriveRequest(r)
    BY <1>1, <1>a DEF ArriveRequest, Authorising, GrantIds
  <1>2. CASE ArriveCallback(r)
    BY <1>2, <1>a DEF ArriveCallback, Authorising, GrantIds
  <1>3. CASE ReadSlug(r)
    BY <1>3, <1>0, <1>b, SettlesSlots DEF ReadSlug, Authorising
  <1>4. CASE ReadRow(r)
    <2>1. CASE Settles(r, Blank)
      BY <1>4, <2>1, <1>0, SettlesSlots DEF ReadRow, Authorising
    <2>2. CASE ~Settles(r, Blank)
      <3> DEFINE q == [req[r] EXCEPT !.at = "identity", !.row = workspace.id]
      <3>1. q \in Shape /\ q.at = "identity" /\ Coded(q)
        BY <1>0, <1>e DEF Shape, Places, Authorising, Coded
      <3>2. Goes(r, q) /\ UNCHANGED <<slots, age>> /\ req[r].at = "row"
        BY <1>4, <2>2 DEF ReadRow
      <3>3. QED
        BY <3>1, <3>2, <1>c DEF Authorising
    <2>3. QED
      BY <2>1, <2>2
  <1>5. CASE ReadIdentity(r)
    BY <1>5, <1>0, <1>b, SettlesSlots DEF ReadIdentity, Authorising
  <1>6. CASE ReadPort(r)
    <2> DEFINE q == [req[r] EXCEPT !.at = "none", !.http = "stream", !.timer = Interval,
                                   !.row = 0, !.port = FindTargetPort]
    <2>1. q \in Shape /\ q.at = "none"
      <3>1. FindTargetPort \in Ports \cup {NoPort} /\ 0 \in 0..MaxRows /\ Interval \in Nat
        BY <1>e DEF FindTargetPort
      <3>2. QED
        BY <1>0, <3>1 DEF Shape, Places
    <2>2. Settles(r, q) \/ Settles(r, Blank)
      BY <1>6 DEF ReadPort
    <2>3. QED
      BY <1>0, <1>6, <2>1, <2>2, SettlesSlots DEF ReadPort, Authorising
  <1>7. CASE ReadCallback(r)
    <2>1. CASE Settles(r, Blank)
      BY <1>7, <2>1, <1>0, SettlesSlots DEF ReadCallback, Authorising
    <2>2. CASE ~Settles(r, Blank)
      <3> DEFINE q == [req[r] EXCEPT !.at = "exchange", !.row = workspace.id]
      <3>1. q \in Shape /\ q.at = "exchange" /\ Coded(q)
        BY <1>0, <1>7, <1>e DEF Shape, Places, Authorising, Coded, Slots, CallbackHasCode, ReadCallback
      <3>2. Goes(r, q) /\ UNCHANGED <<slots, age>> /\ req[r].at = "callback"
        BY <1>7, <2>2 DEF ReadCallback
      <3>3. QED
        BY <3>1, <3>2, <1>c DEF Authorising
    <2>3. QED
      BY <2>1, <2>2
  <1>8. CASE Exchange(r)
    <2>1. req' = [req EXCEPT ![r] = Blank] /\ req[r].at \in Authorising
          /\ admitted' = admitted - 1 /\ UNCHANGED renewing
      BY <1>8 DEF Exchange, Authorising
    <2>2. SlotsAreWork' /\ WorkIsFinite' /\ admitted' \in 0..MaxAdmit /\ CallbackHasCode'
      BY <1>0, <2>1, ReturnAdmission
    <2>3. age' \in [Requests -> 0..TooOld]
      BY <1>0, <1>8, RememberedType DEF Exchange
    <2>4. RestOK'
      BY <1>0, <1>8, <2>1, <2>2, <2>3, TypeParts DEF RestOK, Exchange
    <2>5. RowsOK'
      <3>0. req[r].cookie \in GrantIds
        BY <1>8 DEF Slots, CallbackHasCode, Coded, Exchange
      <3>1. \A n \in GrantIds : [grants[n] EXCEPT !.state = "used"] \in GrantShape
        BY <1>0 DEF RowsOK, GrantShape
      <3>2. grants' \in [GrantIds -> GrantShape]
        BY <1>0, <1>8, <3>0, <3>1 DEF RowsOK, Exchange
      <3>3. tokens' \subseteq GrantIds /\ minted' \in [GrantIds -> Nat]
        BY <1>0, <1>8, <3>0 DEF RowsOK, Exchange
      <3>4. QED
        BY <1>0, <1>8, <3>2, <3>3 DEF RowsOK, Exchange
    <2>6. QED
      BY <2>2, <2>4, <2>5, TypePartsNext DEF Slots
  <1>9. CASE ReadFails(r)
    BY <1>9, <1>0, SettlesSlots DEF ReadFails
  <1>10. CASE ClientLeaves(r)
    <2>1. HangUp(req[r]) \in Shape /\ HangUp(req[r]).at = req[r].at
      BY <1>0 DEF HangUp, Shape, Blank
    <2>3. Coded(HangUp(req[r]))
      BY <1>0 DEF HangUp, Shape, Blank, Coded, Slots, CallbackHasCode
    <2>2. QED
      BY <1>10, <2>1, <2>3, MoveSlots DEF ClientLeaves
  <1>11. CASE CheckRow(r)
    <2> DEFINE q == IF workspace.id = 0 THEN [req[r] EXCEPT !.at = "checkOwner"]
                    ELSE [req[r] EXCEPT !.at = "checkIdentity", !.row = workspace.id]
    <2>1. q \in Shape /\ q.at \in Renewing
      BY <1>0, <1>e DEF Shape, Places, Renewing
    <2>2. QED
      BY <1>11, <2>1, <1>d DEF CheckRow, Renewing
  <1>12. CASE CheckIdentity(r)
    <2> DEFINE q == [req[r] EXCEPT !.at = "checkOwner", !.row = 0,
                                   !.user = Resolves(req[r].cookie, req[r].row)]
    <2>1. ASSUME NEW b \in BOOLEAN
          PROVE  [req[r] EXCEPT !.at = "checkOwner", !.row = 0, !.user = b] \in Shape
      <3>1. "checkOwner" \in Places /\ 0 \in 0..MaxRows
        BY DEF Places, Renewing
      <3>2. QED
        BY <1>0, <3>1 DEF Shape
    <2>2. q \in Shape
      BY <2>1 DEF Resolves
    <2>4. q.at \in Renewing
      BY <1>0 DEF Renewing, Shape
    <2>3. QED
      BY <1>12, <2>2, <2>4, <1>d DEF CheckIdentity, Renewing
  <1>13. CASE CheckOwner(r)
    <2>1. CASE Moves(r, "checkPort")
      <3> DEFINE q == [req[r] EXCEPT !.at = "checkPort"]
      <3>1. q \in Shape /\ q.at \in Renewing
        BY <1>0 DEF Shape, Places, Renewing
      <3>2. QED
        BY <1>13, <2>1, <3>1, <1>d DEF CheckOwner, Moves, Renewing
    <2>2. CASE ~Moves(r, "checkPort")
      BY <1>13, <2>2, VerdictSlots DEF CheckOwner, Renewing
    <2>3. QED
      BY <2>1, <2>2
  <1>14. CASE CheckPort(r)
    BY <1>14, VerdictSlots DEF CheckPort, Renewing
  <1>15. CASE CheckFails(r)
    BY <1>15, VerdictSlots DEF CheckFails
  <1>16. QED
    BY <1>1, <1>2, <1>3, <1>4, <1>5, <1>6, <1>7, <1>8, <1>9, <1>10, <1>11, <1>12, <1>13,
       <1>14, <1>15 DEF Serve

\* A timer that fires changes what is open; only a renewal takes a slot.
LEMMA FiresSlots == ASSUME Slots, NEW r \in Requests, Fires(r) PROVE Slots'
  <1>0. req[r] \in Shape
    BY TypeParts DEF Slots, RestOK
  <1>1. /\ [req[r] EXCEPT !.http = "idle"] \in Shape
        /\ [req[r] EXCEPT !.http = "idle"].at = req[r].at
        /\ Coded([req[r] EXCEPT !.http = "idle"])
    BY <1>0 DEF Shape, Coded, Slots, CallbackHasCode
  <1>2. CASE DeadlinePasses(r)
    BY <1>1, <1>2, MoveSlots DEF DeadlinePasses
  <1>3. CASE Renew(r)
    <2> DEFINE q == [req[r] EXCEPT !.at = "checkRow", !.timer = Deadline]
    <2>1. q \in Shape /\ q.at \in Renewing
      BY <1>0, Constants DEF Shape, Places, Renewing
    <2>2. CASE renewing < MaxRenew
      BY <1>3, <2>1, <2>2, TakeRenewal DEF Renew
    <2>3. CASE ~(renewing < MaxRenew)
      <3>1. Blank.at = "none" /\ Coded(Blank)
        BY DEF Blank, Coded
      <3>2. QED
        BY <1>3, <2>3, <3>1, Constants, MoveSlots DEF Renew
    <2>4. QED
      BY <2>2, <2>3
  <1>4. CASE RenewalTimesOut(r)
    BY <1>1, <1>4, MoveSlots DEF RenewalTimesOut
  <1>5. QED
    BY <1>2, <1>3, <1>4 DEF Fires

\* Closing and the passing of time leave all work where it is.
LEMMA WorkRemains ==
  ASSUME Slots, UNCHANGED <<rows, console, slots, changes>>,
         closing' \in BOOLEAN, age' \in [Requests -> 0..TooOld], req' \in [Requests -> Shape],
         \A r \in Requests : req'[r].at = req[r].at /\ (req[r].at # "none" => req'[r].cookie = req[r].cookie)
  PROVE  Slots'
  <1>1. InWork(Authorising)' = InWork(Authorising) /\ InWork(Renewing)' = InWork(Renewing)
    BY DEF InWork
  <1>2. TypeOK'
    BY TypeParts, TypePartsNext DEF Slots, RowsOK, RestOK, rows, slots
  <1>3. CallbackHasCode'
    BY DEF Slots, CallbackHasCode, Coded
  <1>4. QED
    BY <1>1, <1>2, <1>3 DEF Slots, SlotsAreWork, WorkIsFinite, slots

LEMMA ShutdownSlots == ASSUME Slots, Shutdown PROVE Slots'
  <1>0. req \in [Requests -> Shape] /\ age \in [Requests -> 0..TooOld]
    BY TypeParts DEF Slots, RestOK
  <1>1. \A r \in Requests : /\ HangUp(req[r]) \in Shape
                            /\ HangUp(req[r]).at = req[r].at
                            /\ req[r].at # "none" => HangUp(req[r]).cookie = req[r].cookie
    BY <1>0, Constants DEF HangUp, Shape, Blank
  <1>2. QED
    BY <1>0, <1>1, WorkRemains DEF Shutdown

LEMMA TickSlots == ASSUME Slots, Tick PROVE Slots'
  <1>0. req \in [Requests -> Shape] /\ age \in [Requests -> 0..TooOld] /\ closing \in BOOLEAN
    BY TypeParts DEF Slots, RestOK
  <1>1. /\ req' \in [Requests -> Shape]
        /\ \A r \in Requests : req'[r].at = req[r].at /\ req'[r].cookie = req[r].cookie
    <2>1. ASSUME NEW r \in Requests, req[r].http # "idle"
          PROVE  [req[r] EXCEPT !.timer = @ - 1] \in Shape
                 /\ [req[r] EXCEPT !.timer = @ - 1].at = req[r].at
                 /\ [req[r] EXCEPT !.timer = @ - 1].cookie = req[r].cookie
      BY <1>0, <2>1 DEF Tick, Shape
    <2>2. QED
      BY <1>0, <2>1 DEF Tick
  <1>2. age' \in [Requests -> 0..TooOld]
    <2>1. ASSUME NEW r \in Requests
          PROVE  age'[r] \in 0..TooOld
      BY <1>0, Constants DEF Tick
    <2>2. QED
      BY <2>1 DEF Tick
  <1>3. QED
    BY <1>0, <1>1, <1>2, WorkRemains DEF Tick

LEMMA NextSlots == Slots /\ [Next]_vars => Slots'
  <1> SUFFICES ASSUME Slots, [Next]_vars PROVE Slots'
    OBVIOUS
  <1>1. CASE UNCHANGED vars
    BY <1>1, WorkRemains, TypeParts DEF vars, rows, slots, Slots, RestOK
  <1>2. CASE Next
    BY <1>2, WorldSlots, ConsoleSlots, ServeSlots, FiresSlots, ShutdownSlots, TickSlots DEF Next
  <1>3. QED
    BY <1>1, <1>2

LEMMA AlwaysSlots == Spec => []Slots
  BY InitSlots, NextSlots, PTL DEF Spec

\* Type correctness.
THEOREM TypeCorrect == Spec => []TypeOK
  <1>1. Slots => TypeOK
    BY DEF Slots
  <1>2. QED
    BY <1>1, AlwaysSlots, PTL

\* authorizationCapacity: the counters are the work that runs against the
\* database, and neither pool ever runs more than it has slots for.
THEOREM SlotsAlwaysAreWork == Spec => []SlotsAreWork
  <1>1. Slots => SlotsAreWork
    BY DEF Slots
  <1>2. QED
    BY <1>1, AlwaysSlots, PTL

-----------------------------------------------------------------------------
(* The codes.                                                              *)

LEMMA InitCodes == Init => Codes
  BY Constants DEF Init, Codes, MintedIsSpent, TokenIsSpent, CodeIsUsedOnce,
     TokensHangOnOwner, NoGrant

LEMMA SameRowsSameCodes == ASSUME Codes, UNCHANGED rows PROVE Codes'
  BY DEF Codes, MintedIsSpent, TokenIsSpent, CodeIsUsedOnce, TokensHangOnOwner, rows

\* Sign-ins, ends of sessions and expiries: no grant comes back to life, and
\* with a session go its workspace sessions.
LEMMA WorldCodes == ASSUME Slots, Codes, World PROVE Codes'
  <1> USE DEF Codes, MintedIsSpent, TokenIsSpent, CodeIsUsedOnce, TokensHangOnOwner
  <1>0. /\ live \subseteq Sessions /\ grants \in [GrantIds -> GrantShape]
        /\ tokens \subseteq GrantIds /\ minted \in [GrantIds -> Nat]
    BY TypeParts DEF Slots, RowsOK
  <1>1. ASSUME NEW s \in Sessions, SignIn(s) PROVE Codes'
    BY <1>0, <1>1 DEF SignIn
  <1>2. ASSUME NEW s \in Sessions, SessionEnds(s) PROVE Codes'
    <2>1. \A n \in GrantIds : /\ grants'[n].session = grants[n].session
                              /\ grants[n].state = "used" => grants'[n].state = "used"
      BY <1>0, <1>2 DEF SessionEnds, GrantShape
    <2>2. QED
      BY <1>0, <1>2, <2>1 DEF SessionEnds
  <1>3. ASSUME NEW b \in BOOLEAN, SetUserBanned(b) PROVE Codes'
    BY <1>0, <1>3 DEF SetUserBanned
  <1>4. ASSUME NEW status \in {"running", "error", "stopped"}, WorkspaceMoves(status)
        PROVE  Codes'
    BY <1>0, <1>4 DEF WorkspaceMoves
  <1>5. ASSUME WorkspaceDeleted PROVE Codes'
    BY <1>0, <1>5 DEF WorkspaceDeleted
  <1>6. ASSUME WorkspaceCreated PROVE Codes'
    BY <1>0, <1>6 DEF WorkspaceCreated
  <1>7. ASSUME NEW n \in GrantIds, GrantExpires(n) PROVE Codes'
    BY <1>0, <1>7 DEF GrantExpires, GrantShape
  <1>8. ASSUME NEW n \in GrantIds, TokenExpires(n) PROVE Codes'
    BY <1>0, <1>8 DEF TokenExpires
  <1>9. QED
    BY <1>1, <1>2, <1>3, <1>4, <1>5, <1>6, <1>7, <1>8 DEF World

\* A code that is issued was free: it has minted nothing.
LEMMA IssueGrantCodes == ASSUME Slots, Codes, IssueGrant PROVE Codes'
  <1>0. /\ grants \in [GrantIds -> GrantShape] /\ tokens \subseteq GrantIds
        /\ minted \in [GrantIds -> Nat]
    BY TypeParts DEF Slots, RowsOK
  <1>1. CASE UNCHANGED grants
    BY <1>1, SameRowsSameCodes DEF IssueGrant, rows
  <1>2. CASE ~UNCHANGED grants
    <2>1. PICK n \in GrantIds :
            /\ grants[n].state = "free"
            /\ grants' = [grants EXCEPT ![n] =
                 [state |-> "open", row |-> console.row, session |-> console.session]]
      BY <1>2 DEF IssueGrant
    <2>2. \A m \in GrantIds : grants[m].state = "used" => m # n /\ grants'[m] = grants[m]
      BY <1>0, <2>1
    <2>3. QED
      BY <1>0, <2>2 DEF IssueGrant, Codes, MintedIsSpent, TokenIsSpent, CodeIsUsedOnce,
         TokensHangOnOwner
  <1>3. QED
    BY <1>1, <1>2

\* A code mints while it is open, and is spent by it; its session is then
\* live and the owner's.
LEMMA ExchangeCodes == ASSUME Slots, Codes, NEW r \in Requests, Exchange(r) PROVE Codes'
  <1> DEFINE n == req[r].cookie
  <1>0. /\ grants \in [GrantIds -> GrantShape] /\ tokens \subseteq GrantIds
        /\ minted \in [GrantIds -> Nat]
    BY TypeParts DEF Slots, RowsOK
  <1>1. n \in GrantIds
    BY DEF Slots, CallbackHasCode, Coded, Exchange
  <1>2. CASE ~Redeemed(n, req[r].row)
    BY <1>2, SameRowsSameCodes DEF Exchange, rows
  <1>3. CASE Redeemed(n, req[r].row)
    <2>1. /\ grants' = [grants EXCEPT ![n].state = "used"]
          /\ live' = live /\ grants[n].state = "open"
      BY <1>3 DEF Exchange, Redeemed
    <2>2. \A m \in GrantIds : /\ grants'[m].session = grants[m].session
                              /\ grants[m].state = "used" \/ m = n => grants'[m].state = "used"
      BY <1>0, <2>1 DEF GrantShape
    <2>3. minted[n] = 0 /\ n \notin tokens
      BY <1>0, <1>1, <2>1 DEF Codes, MintedIsSpent, TokenIsSpent
    <2>4. CASE LiveIdentity(grants[n].row, grants[n].session)
      <3>1. /\ tokens' = tokens \cup {n} /\ minted' = [minted EXCEPT ![n] = @ + 1]
            /\ grants[n].session \in live \cap Mine
        BY <1>3, <2>4 DEF Exchange, LiveIdentity
      <3>2. minted'[n] = 1 /\ \A m \in GrantIds \ {n} : minted'[m] = minted[m]
        BY <1>0, <1>1, <2>3, <3>1
      <3>3. QED
        BY <1>0, <1>1, <2>1, <2>2, <3>1, <3>2 DEF Codes, MintedIsSpent, TokenIsSpent,
           CodeIsUsedOnce, TokensHangOnOwner
    <2>5. CASE ~LiveIdentity(grants[n].row, grants[n].session)
      <3>1. UNCHANGED <<tokens, minted>>
        BY <1>3, <2>5 DEF Exchange
      <3>2. QED
        BY <1>0, <2>1, <2>2, <3>1 DEF Codes, MintedIsSpent, TokenIsSpent,
           CodeIsUsedOnce, TokensHangOnOwner
    <2>6. QED
      BY <2>4, <2>5
  <1>4. QED
    BY <1>2, <1>3

\* No other handler of the gateway writes a row.
LEMMA ServeKeepsRows ==
  ASSUME NEW r \in Requests, Serve(r), ~Exchange(r)
  PROVE  UNCHANGED rows
  <1>1. \A q : Goes(r, q) => UNCHANGED rows
    BY DEF Goes
  <1>2. \A place : Moves(r, place) => UNCHANGED rows
    BY <1>1 DEF Moves
  <1>3. \A q : Settles(r, q) => UNCHANGED rows
    BY <1>1 DEF Settles
  <1>4. \A allowed : Verdict(r, allowed) => UNCHANGED rows
    BY <1>1 DEF Verdict
  <1>5. QED
    BY <1>1, <1>2, <1>3, <1>4 DEF Serve, ArriveRequest, ArriveCallback, Arrive, ReadSlug,
       ReadRow, ReadIdentity, ReadPort, ReadCallback, ReadFails, ClientLeaves, CheckRow,
       CheckIdentity, CheckOwner, CheckPort, CheckFails

LEMMA FiresKeepsRows == ASSUME NEW r \in Requests, Fires(r) PROVE UNCHANGED rows
  BY DEF Fires, DeadlinePasses, Renew, RenewalTimesOut, Goes

LEMMA NextCodes == Slots /\ Codes /\ [Next]_vars => Codes'
  <1> SUFFICES ASSUME Slots, Codes, [Next]_vars PROVE Codes'
    OBVIOUS
  <1>1. CASE World
    BY <1>1, WorldCodes
  <1>2. CASE Console
    <2>1. CASE IssueGrant
      BY <2>1, IssueGrantCodes
    <2>2. CASE ~IssueGrant
      BY <1>2, <2>2, SameRowsSameCodes DEF Console, AskConsole, ConsoleSession, ConsoleRow,
         ConsoleGivesUp
    <2>3. QED
      BY <2>1, <2>2
  <1>3. ASSUME NEW r \in Requests, Serve(r) PROVE Codes'
    BY <1>3, ExchangeCodes, ServeKeepsRows, SameRowsSameCodes
  <1>4. ASSUME NEW r \in Requests, Fires(r) PROVE Codes'
    BY <1>4, FiresKeepsRows, SameRowsSameCodes
  <1>5. CASE Shutdown
    BY <1>5, SameRowsSameCodes DEF Shutdown
  <1>6. CASE Tick
    BY <1>6, SameRowsSameCodes DEF Tick
  <1>7. CASE UNCHANGED vars
    BY <1>7, SameRowsSameCodes DEF vars
  <1>8. QED
    BY <1>1, <1>2, <1>3, <1>4, <1>5, <1>6, <1>7 DEF Next

LEMMA AlwaysCodes == Spec => []Codes
  BY InitCodes, NextCodes, AlwaysSlots, PTL DEF Spec

\* exchangeWorkspaceGrant: a code gives one workspace session at most, however
\* many callbacks present it and however they interleave with its expiry.
THEOREM CodesAreUsedOnce == Spec => []CodeIsUsedOnce
  <1>1. Codes => CodeIsUsedOnce
    BY DEF Codes
  <1>2. QED
    BY <1>1, AlwaysCodes, PTL

\* Every workspace session hangs on a live console session of the owner.
THEOREM TokensAlwaysHangOnOwner == Spec => []TokensHangOnOwner
  <1>1. Codes => TokensHangOnOwner
    BY DEF Codes
  <1>2. QED
    BY <1>1, AlwaysCodes, PTL

-----------------------------------------------------------------------------
(* The leases.                                                             *)

LEMMA Shapes ==
  ASSUME Slots
  PROVE  /\ req \in [Requests -> Shape] /\ age \in [Requests -> 0..TooOld]
         /\ grants \in [GrantIds -> GrantShape] /\ workspace \in RowShape
         /\ tokens \subseteq GrantIds /\ minted \in [GrantIds -> Nat] /\ made \in Nat
  BY TypeParts DEF Slots, RowsOK, RestOK

\* What nobody waits for is entitled to nothing and bound to nothing.
LEMMA IdleLease == ASSUME NEW q, NEW a, q.http = "idle", Issued(q) PROVE Lease(q, a)
  BY DEF Lease, Placed, LeadsToRow, Fresh, Asked, InTime

LEMMA BlankLease == \A a : Lease(Blank, a)
  BY IdleLease DEF Blank, Issued

LEMMA InitLeases == Init => Leases
  <1> SUFFICES ASSUME Init PROVE Leases
    OBVIOUS
  <1>1. RowsWereMade
    BY DEF Init, RowsWereMade, NoGrant
  <1>2. \A r \in Requests : Lease(req[r], age[r])
    BY BlankLease DEF Init
  <1>3. QED
    BY <1>1, <1>2 DEF Leases

\* While no row changes, what holds of a request's next state holds next.
LEMMA SameRowsLease ==
  ASSUME UNCHANGED rows, NEW r \in Requests, Lease(req'[r], age'[r])
  PROVE  Lease(req[r], age[r])'
  BY DEF rows, Lease, Issued, Placed, LeadsToRow, Fresh, Entitled, Resolves, LiveIdentity,
     Asked, InTime

\* One request moves to q, and its right has the age it has.
LEMMA GoesLease ==
  ASSUME Slots, Leases, NEW r \in Requests, NEW q \in Shape, Goes(r, q),
         age' \in [Requests -> 0..TooOld], \A x \in Requests \ {r} : age'[x] = age[x],
         Lease(q, age'[r])
  PROVE  Leases'
  <1>0. req \in [Requests -> Shape]
    BY Shapes
  <1>1. RowsWereMade'
    BY DEF Leases, RowsWereMade, Goes, rows
  <1>2. ASSUME NEW x \in Requests PROVE Lease(req[x], age[x])'
    <2>1. CASE x = r
      <3>1. Lease(req'[x], age'[x])
        BY <1>0, <2>1 DEF Goes
      <3>2. QED
        BY <3>1, SameRowsLease DEF Goes
    <2>2. CASE x # r
      <3>1. req'[x] = req[x] /\ age'[x] = age[x]
        BY <1>0, <2>2 DEF Goes
      <3>2. Lease(req'[x], age'[x])
        BY <3>1 DEF Leases
      <3>3. QED
        BY <3>2, SameRowsLease DEF Goes
    <2>3. QED
      BY <2>1, <2>2
  <1>3. QED
    BY <1>1, <1>2 DEF Leases

\* Rows change around a request, and its age is taken anew: no grant comes
\* free, none changes its row, and no row takes the number or the port of another.
LEMMA RowsChangeLease ==
  ASSUME Slots, NEW r \in Requests, Lease(req[r], age[r]), req'[r] = req[r],
         \A n \in GrantIds : /\ grants[n].state # "free" => grants'[n].state # "free"
                             /\ grants'[n].row = grants[n].row,
         \/ workspace'.id = 0
         \/ workspace'.id = workspace.id /\ workspace'.port = workspace.port
         \/ \A n \in GrantIds : grants[n].row # workspace'.id,
         age'[r] = IF Entitled(req[r])' THEN 0 ELSE age[r]
  PROVE  Lease(req[r], age[r])'
  <1>0. req[r] \in Shape /\ age[r] \in Nat
    BY Shapes, Constants
  <1>1. req[r].cookie # 0 => req[r].cookie \in GrantIds
    BY <1>0, Constants DEF Shape, GrantIds
  <1>2. Issued(req[r])'
    BY <1>1 DEF Lease, Issued
  <1>3. Placed(req[r])'
    BY DEF Lease, Placed
  <1>4. LeadsToRow(req[r])'
    BY <1>1 DEF Lease, LeadsToRow
  <1>5. Fresh(req[r], age[r])'
    BY DEF Fresh
  <1>6. Asked(req[r])'
    BY DEF Lease, Asked
  <1>7. InTime(req[r], age[r])'
    <2>1. age'[r] \in Nat /\ age'[r] <= age[r] /\ req[r].timer \in Nat
      BY <1>0 DEF Shape
    <2>2. QED
      BY <1>0, <2>1, Constants DEF Lease, InTime
  <1>8. QED
    BY <1>2, <1>3, <1>4, <1>5, <1>6, <1>7 DEF Lease

LEMMA WorldLeases == ASSUME Slots, Leases, World PROVE Leases'
  <1> DEFINE GrantsGoOn ==
        \A n \in GrantIds : /\ grants[n].state # "free" => grants'[n].state # "free"
                            /\ grants'[n].row = grants[n].row
      RowGoesOn ==
        \/ workspace'.id = 0
        \/ workspace'.id = workspace.id /\ workspace'.port = workspace.port
        \/ \A n \in GrantIds : grants[n].row # workspace'.id
  <1>0. /\ grants \in [GrantIds -> GrantShape] /\ workspace \in RowShape /\ made \in Nat
        /\ RowsWereMade
    BY Shapes DEF Leases
  <1>g. GrantsGoOn /\ workspace'.id <= made' /\ made <= made' => RowsWereMade'
    <2> SUFFICES ASSUME GrantsGoOn, workspace'.id <= made', made <= made' PROVE RowsWereMade'
      OBVIOUS
    <2>1. ASSUME NEW n \in GrantIds PROVE grants'[n].row <= made'
      <3>1. grants[n].row \in Nat /\ grants[n].row <= made /\ made' \in Nat
            /\ grants'[n].row = grants[n].row
        <4>1. made' \in Nat
          BY WorldSlots, TypePartsNext DEF Slots, RowsOK
        <4>2. grants[n].row \in Nat
          BY <1>0, Constants DEF GrantShape
        <4>3. QED
          BY <1>0, <4>1, <4>2 DEF RowsWereMade
      <3>2. QED
        BY <1>0, <3>1
    <2>2. QED
      BY <2>1 DEF RowsWereMade
  <1> DEFINE Done == GrantsGoOn /\ RowGoesOn /\ RowsWereMade' /\ Changes
  <1>1. ASSUME NEW s \in Sessions, SignIn(s) PROVE Done
    BY <1>0, <1>1 DEF SignIn, RowsWereMade
  <1>2. ASSUME NEW s \in Sessions, SessionEnds(s) PROVE Done
    <2>1. GrantsGoOn
      BY <1>0, <1>2 DEF SessionEnds, GrantShape
    <2>2. QED
      BY <1>0, <1>2, <1>g, <2>1 DEF SessionEnds, RowsWereMade
  <1>3. ASSUME NEW b \in BOOLEAN, SetUserBanned(b) PROVE Done
    BY <1>0, <1>3 DEF SetUserBanned, RowsWereMade
  <1>4. ASSUME NEW status \in {"running", "error", "stopped"}, WorkspaceMoves(status) PROVE Done
    <2>1. workspace'.id = workspace.id /\ workspace'.port = workspace.port
      BY <1>0, <1>4 DEF WorkspaceMoves, RowShape
    <2>2. QED
      BY <1>0, <1>4, <2>1 DEF WorkspaceMoves, RowsWereMade
  <1>5. ASSUME WorkspaceDeleted PROVE Done
    <2>1. workspace'.id = 0
      BY <1>5 DEF WorkspaceDeleted, Gone
    <2>2. QED
      BY <1>0, <1>5, <2>1 DEF WorkspaceDeleted, RowsWereMade
  <1>6. ASSUME WorkspaceCreated PROVE Done
    <2>1. workspace'.id = made + 1 /\ made' = made + 1 /\ UNCHANGED grants /\ Changes
      BY <1>6 DEF WorkspaceCreated
    <2>2. \A n \in GrantIds : grants[n].row # workspace'.id
      BY <1>0, <2>1, Constants DEF GrantShape, RowsWereMade
    <2>3. workspace'.id <= made' /\ made <= made'
      BY <1>0, <2>1
    <2>4. QED
      BY <1>g, <2>1, <2>2, <2>3
  <1>7. ASSUME NEW n \in GrantIds, GrantExpires(n) PROVE Done
    <2>1. GrantsGoOn
      BY <1>0, <1>7 DEF GrantExpires, GrantShape
    <2>2. QED
      BY <1>0, <1>7, <1>g, <2>1 DEF GrantExpires, RowsWereMade
  <1>8. ASSUME NEW n \in GrantIds, TokenExpires(n) PROVE Done
    BY <1>0, <1>8 DEF TokenExpires, RowsWereMade
  <1>9. Done
    BY <1>1, <1>2, <1>3, <1>4, <1>5, <1>6, <1>7, <1>8 DEF World
  <1>10. ASSUME NEW r \in Requests PROVE Lease(req[r], age[r])'
    <2>1. req'[r] = req[r] /\ age'[r] = IF Entitled(req[r])' THEN 0 ELSE age[r]
      BY <1>9 DEF Changes, Remembered
    <2>2. QED
      BY <1>9, <2>1, RowsChangeLease DEF Leases
  <1>11. QED
    BY <1>9, <1>10 DEF Leases

\* A code that is issued is in no cookie yet.
LEMMA IssueGrantLeases == ASSUME Slots, Codes, Leases, IssueGrant PROVE Leases'
  <1>0. /\ grants \in [GrantIds -> GrantShape] /\ tokens \subseteq GrantIds
        /\ workspace \in RowShape /\ made \in Nat /\ req \in [Requests -> Shape]
    BY Shapes
  <1>1. CASE UNCHANGED grants
    <2>1. UNCHANGED <<rows, req, age>>
      BY <1>1 DEF IssueGrant, rows
    <2>2. QED
      BY <2>1, SameRowsLease DEF Leases, RowsWereMade, rows
  <1>2. CASE ~UNCHANGED grants
    <2>1. PICK n \in GrantIds :
            /\ grants[n].state = "free"
            /\ grants' = [grants EXCEPT ![n] =
                 [state |-> "open", row |-> console.row, session |-> console.session]]
      BY <1>2 DEF IssueGrant
    <2>2. console.row = workspace.id
      BY <1>2 DEF IssueGrant, LiveIdentity
    <2>3. RowsWereMade'
      BY <1>0, <2>1, <2>2 DEF Leases, RowsWereMade, IssueGrant, RowShape, GrantShape
    <2>4. ASSUME NEW r \in Requests PROVE Lease(req[r], age[r])'
      <3> DEFINE c == req[r].cookie
      <3>1. c # 0 => c \in GrantIds /\ c # n
        BY <1>0, <2>1, <2>4 DEF Leases, Lease, Issued, Shape, GrantIds
      <3>2. /\ c # 0 => grants'[c] = grants[c]
            /\ UNCHANGED <<workspace, made, live, banned, tokens, req, age>>
        BY <1>0, <2>1, <3>1 DEF IssueGrant
      <3>3. c \in tokens => c # n /\ grants'[c] = grants[c]
        BY <1>0, <2>1 DEF Codes, TokenIsSpent
      <3>4. Entitled(req[r])' => Entitled(req[r])
        BY <3>2, <3>3 DEF Entitled, Resolves, LiveIdentity
      <3>5. Fresh(req[r], age[r])'
        BY <2>4, <3>2, <3>4 DEF Fresh, Leases, Lease
      <3>6. Issued(req[r])' /\ LeadsToRow(req[r])'
        BY <2>4, <3>2 DEF Issued, LeadsToRow, Leases, Lease
      <3>7. Placed(req[r])' /\ Asked(req[r])' /\ InTime(req[r], age[r])'
        BY <2>4, <3>2 DEF Placed, Asked, InTime, Leases, Lease
      <3>8. QED
        BY <3>5, <3>6, <3>7 DEF Lease
    <2>5. QED
      BY <2>3, <2>4 DEF Leases
  <1>3. QED
    BY <1>1, <1>2

\* A login that settles changes rows as the world does.
LEMMA ExchangeLeases == ASSUME Slots, Leases, NEW r \in Requests, Exchange(r) PROVE Leases'
  <1>0. /\ grants \in [GrantIds -> GrantShape] /\ req \in [Requests -> Shape]
        /\ age \in [Requests -> 0..TooOld]
    BY Shapes
  <1>1. \A n \in GrantIds : /\ grants[n].state # "free" => grants'[n].state # "free"
                            /\ grants'[n].row = grants[n].row
    <2>1. UNCHANGED grants \/ grants' = [grants EXCEPT ![req[r].cookie].state = "used"]
      BY DEF Exchange
    <2>2. QED
      BY <1>0, <2>1 DEF GrantShape
  <1>2. /\ UNCHANGED <<workspace, made>>
        /\ \A x \in Requests : age'[x] = IF Entitled(req[x])' THEN 0 ELSE age[x]
        /\ req' = [req EXCEPT ![r] = Blank]
    BY DEF Exchange, Remembered
  <1>3. RowsWereMade'
    BY <1>1, <1>2 DEF Leases, RowsWereMade
  <1>4. ASSUME NEW x \in Requests PROVE Lease(req[x], age[x])'
    <2>1. CASE x = r
      <3>1. req'[x] = Blank
        BY <1>0, <1>2, <2>1
      <3>2. QED
        BY <3>1 DEF Lease, Issued, Placed, LeadsToRow, Fresh, Asked, InTime, Blank
    <2>2. CASE x # r
      <3>1. req'[x] = req[x]
        BY <1>0, <1>2, <2>2
      <3>2. QED
        BY <1>1, <1>2, <3>1, RowsChangeLease DEF Leases
    <2>3. QED
      BY <2>1, <2>2
  <1>5. QED
    BY <1>3, <1>4 DEF Leases

\* The handlers, one by one: what the request may be after each of them.
LEMMA ServeLeases ==
  ASSUME Slots, Codes, Leases, NEW r \in Requests, Serve(r), ~Exchange(r)
  PROVE  Leases'
  <1>0. /\ req[r] \in Shape /\ age[r] \in Nat /\ Lease(req[r], age[r])
        /\ workspace \in RowShape /\ grants \in [GrantIds -> GrantShape]
        /\ minted \in [GrantIds -> Nat] /\ Blank \in Shape
        /\ req \in [Requests -> Shape] /\ age \in [Requests -> 0..TooOld]
    BY Shapes, Constants DEF Leases
  <1>s. \A q \in Shape : Goes(r, q) /\ UNCHANGED age /\ Lease(q, age[r]) => Leases'
    BY <1>0, GoesLease
  <1>b. Goes(r, Blank) /\ UNCHANGED age => Leases'
    BY <1>0, <1>s, BlankLease
  <1>a. ASSUME NEW place \in {"slug", "callback"}, NEW n \in 0..MaxGrants, Arrive(r, place, n),
               n # 0 => grants[n].state # "free"
        PROVE  Leases'
    <2> DEFINE q == [Blank EXCEPT !.at = place, !.http = "waiting",
                                  !.timer = Deadline, !.cookie = n]
    <2>1. Goes(r, q) /\ age' = [age EXCEPT ![r] = IF Entitled(req'[r]) THEN 0 ELSE TooOld]
      BY <1>a DEF Arrive
    <2>2. /\ q.at = place /\ q.http = "waiting" /\ q.timer = Deadline
          /\ q.cookie = n /\ ~q.user
      BY DEF Blank
    <2>9. q \in Shape
      <3>1. place \in Places /\ Deadline \in Nat
        BY Constants DEF Places, Authorising
      <3>2. QED
        BY <1>0, <3>1 DEF Shape
    <2>3. req'[r] = q
      BY <1>0, <2>1 DEF Goes
    <2>4. Entitled(q) => age'[r] = 0
      BY <1>0, <2>1, <2>3
    <2>5. Issued(q) /\ Placed(q) /\ LeadsToRow(q) /\ Asked(q)
      BY <1>a, <2>2 DEF Issued, Placed, LeadsToRow, Asked, Authorising
    <2>10. InTime(q, age'[r])
      BY <1>a, <2>2, Constants DEF InTime
    <2>6. Lease(q, age'[r])
      BY <2>4, <2>5, <2>10 DEF Lease, Fresh
    <2>7. age' \in [Requests -> 0..TooOld] /\ \A x \in Requests \ {r} : age'[x] = age[x]
      BY <1>0, <2>1, Constants
    <2>8. QED
      BY <2>1, <2>6, <2>7, <2>9, GoesLease
  <1>m. ASSUME NEW place \in {"row", "identity", "exchange"}, NEW row \in 0..MaxRows,
               req[r].at \in {"slug", "row", "callback"}
        PROVE  LET q == [req[r] EXCEPT !.at = place, !.row = row]
               IN  q \in Shape /\ Lease(q, age[r])
    <2> DEFINE q == [req[r] EXCEPT !.at = place, !.row = row]
    <2>1. /\ q.at = place /\ q.http = req[r].http /\ q.timer = req[r].timer
          /\ q.cookie = req[r].cookie /\ q.user = req[r].user /\ q.port = req[r].port
      BY <1>0 DEF Shape
    <2>7. q \in Shape
      <3>1. place \in Places
        BY DEF Places, Authorising
      <3>2. QED
        BY <1>0, <3>1 DEF Shape
    <2>2. q.http # "stream"
      BY <1>0, <1>m, <2>1 DEF Lease, Placed, Renewing
    <2>3. Issued(q) /\ Placed(q) /\ LeadsToRow(q) /\ Asked(q) /\ InTime(q, age[r])
      BY <1>0, <2>1, <2>2
      DEF Lease, Issued, Placed, LeadsToRow, Asked, InTime, Authorising
    <2>4. Entitled(q) => Entitled(req[r])
      BY <1>0, <2>1, <2>2 DEF Entitled, Lease, Placed
    <2>5. Fresh(q, age[r])
      BY <1>0, <2>1, <2>4 DEF Fresh, Lease
    <2>6. QED
      BY <2>3, <2>5, <2>7 DEF Lease
  <1>i. ASSUME NEW q \in Shape, Goes(r, q), UNCHANGED age,
               q.http = "idle", q.cookie = req[r].cookie
        PROVE  Leases'
    BY <1>0, <1>i, <1>s, IdleLease DEF Lease, Issued
  <1>h. req[r].at \in Renewing => req[r].http \in {"idle", "stream"}
    BY <1>0 DEF Lease, Placed, Shape, Authorising, Renewing
  <1>v. ASSUME NEW allowed \in BOOLEAN, Verdict(r, allowed), req[r].at \in Renewing,
               allowed => req[r].user
        PROVE  Leases'
    <2>1. CASE ~(allowed /\ req[r].http = "stream")
      BY <1>b, <1>v, <2>1 DEF Verdict
    <2>2. CASE allowed /\ req[r].http = "stream"
      <3> DEFINE q == [req[r] EXCEPT !.at = "none", !.timer = Interval, !.user = FALSE]
      <3>1. Goes(r, q) /\ UNCHANGED age
        BY <1>v, <2>2 DEF Verdict
      <3>2. /\ q.at = "none" /\ q.http = "stream" /\ q.timer = Interval
            /\ q.cookie = req[r].cookie /\ q.user = FALSE /\ q.port = req[r].port
        BY <1>0, <2>2 DEF Shape
      <3>3. q \in Shape
        <4>1. "none" \in Places /\ Interval \in Nat
          BY Constants DEF Places
        <4>2. QED
          BY <1>0, <4>1 DEF Shape
      <3>4. InTime(q, age[r])
        <4>1. age[r] <= Deadline
          BY <1>0, <1>v, <2>2, Constants DEF Lease, InTime, Shape
        <4>2. QED
          BY <1>0, <3>2, <4>1, Constants DEF InTime, Renewing
      <3>5. Fresh(q, age[r])
        BY <1>0, <2>2, <3>2 DEF Lease, Fresh, Entitled
      <3>6. Issued(q) /\ Placed(q) /\ LeadsToRow(q) /\ Asked(q)
        BY <1>0, <2>2, <3>2 DEF Lease, Issued, Placed, LeadsToRow, Asked
      <3>7. QED
        BY <1>s, <3>1, <3>3, <3>4, <3>5, <3>6 DEF Lease
    <2>3. QED
      BY <2>1, <2>2
  <1>1. CASE ArriveRequest(r)
    <2>1. PICK n \in {0} \cup {m \in GrantIds : minted[m] > 0} : Arrive(r, "slug", n)
      BY <1>1 DEF ArriveRequest
    <2>2. n \in 0..MaxGrants /\ (n # 0 => grants[n].state # "free")
      BY Constants DEF GrantIds, Codes, MintedIsSpent
    <2>3. QED
      BY <1>a, <2>1, <2>2
  <1>2. CASE ArriveCallback(r)
    <2>1. PICK n \in GrantIds : grants[n].state # "free" /\ Arrive(r, "callback", n)
      BY <1>2 DEF ArriveCallback
    <2>2. n \in 0..MaxGrants
      BY Constants DEF GrantIds
    <2>3. QED
      BY <1>a, <2>1, <2>2
  <1>3. CASE ReadSlug(r)
    <2>1. CASE Settles(r, Blank)
      BY <1>b, <2>1 DEF Settles
    <2>2. CASE Moves(r, "row")
      <3> DEFINE q == [req[r] EXCEPT !.at = "row"]
      <3>1. q = [req[r] EXCEPT !.at = "row", !.row = req[r].row] /\ req[r].row \in 0..MaxRows
        BY <1>0 DEF Shape
      <3>2. q \in Shape /\ Lease(q, age[r])
        BY <1>3, <1>m, <3>1 DEF ReadSlug
      <3>3. QED
        BY <1>s, <2>2, <3>2 DEF Moves
    <2>3. QED
      BY <1>3, <2>1, <2>2 DEF ReadSlug
  <1>4. CASE ReadRow(r)
    <2>1. CASE Settles(r, Blank)
      BY <1>b, <2>1 DEF Settles
    <2>2. CASE ~Settles(r, Blank)
      <3> DEFINE q == [req[r] EXCEPT !.at = "identity", !.row = workspace.id]
      <3>1. workspace.id \in 0..MaxRows
        BY <1>0 DEF RowShape
      <3>2. q \in Shape /\ Lease(q, age[r])
        BY <1>4, <1>m, <3>1 DEF ReadRow
      <3>3. QED
        BY <1>4, <1>s, <2>2, <3>2 DEF ReadRow
    <2>3. QED
      BY <2>1, <2>2
  <1>5. CASE ReadIdentity(r)
    <2>1. CASE Settles(r, Blank)
      BY <1>b, <2>1 DEF Settles
    <2>2. CASE ~Settles(r, Blank)
      <3> DEFINE q == [req[r] EXCEPT !.at = "port"]
      <3>1. /\ req[r].at = "identity" /\ Resolves(req[r].cookie, req[r].row)
            /\ Goes(r, q) /\ UNCHANGED age
        BY <1>5, <2>2 DEF ReadIdentity, Moves
      <3>2. /\ q.at = "port" /\ q.http = req[r].http /\ q.timer = req[r].timer
            /\ q.cookie = req[r].cookie /\ q.user = req[r].user /\ q.port = req[r].port
        BY <1>0 DEF Shape
      <3>3. q \in Shape
        <4>1. "port" \in Places
          BY DEF Places, Authorising
        <4>2. QED
          BY <1>0, <4>1 DEF Shape
      <3>4. req[r].http # "stream"
        BY <1>0, <3>1 DEF Lease, Placed, Renewing
      <3>5. Resolves(req[r].cookie, workspace.id)
        BY <3>1 DEF Resolves, LiveIdentity
      <3>6. req[r].http = "waiting" => age[r] = 0
        BY <1>0, <3>4, <3>5 DEF Lease, Fresh, Entitled
      <3>7. InTime(q, age[r])
        <4>1. q.timer \in Nat
          BY <1>0, <3>2 DEF Shape
        <4>2. QED
          BY <1>0, <3>2, <3>4, <3>6, <4>1, Constants DEF Lease, InTime
      <3>8. Issued(q) /\ Placed(q) /\ LeadsToRow(q) /\ Asked(q) /\ Fresh(q, age[r])
        BY <1>0, <3>2, <3>4, <3>6
        DEF Lease, Issued, Placed, LeadsToRow, Asked, Fresh, Authorising, Shape
      <3>9. QED
        BY <1>s, <3>1, <3>3, <3>7, <3>8 DEF Lease
    <2>3. QED
      BY <2>1, <2>2
  <1>6. CASE ReadPort(r)
    <2>1. CASE Settles(r, Blank)
      BY <1>b, <2>1 DEF Settles
    <2>2. CASE ~Settles(r, Blank)
      <3> DEFINE q == [req[r] EXCEPT !.at = "none", !.http = "stream", !.timer = Interval,
                                     !.row = 0, !.port = FindTargetPort]
      <3>1. /\ req[r].at = "port" /\ req[r].http = "waiting" /\ FindTargetPort # NoPort
            /\ Goes(r, q) /\ UNCHANGED age
        BY <1>6, <2>2 DEF ReadPort, Settles
      <3>2. /\ q.at = "none" /\ q.http = "stream" /\ q.timer = Interval
            /\ q.cookie = req[r].cookie /\ q.user = req[r].user /\ q.port = FindTargetPort
        BY <1>0 DEF Shape
      <3>3. FindTargetPort = workspace.port /\ workspace.port \in Ports \cup {NoPort}
        BY <1>0, <3>1 DEF FindTargetPort, RowShape
      <3>4. q \in Shape
        <4>1. "none" \in Places /\ 0 \in 0..MaxRows /\ Interval \in Nat
          BY Constants DEF Places
        <4>2. QED
          BY <1>0, <3>3, <4>1 DEF Shape
      <3>5. InTime(q, age[r])
        <4>1. age[r] <= Deadline /\ ~req[r].user
          BY <1>0, <3>1, Constants DEF Lease, InTime, Asked, Shape
        <4>2. QED
          BY <1>0, <3>2, <4>1, Constants DEF InTime, Renewing
      <3>6. Fresh(q, age[r])
        BY <1>0, <3>1, <3>2 DEF Lease, Fresh, Entitled
      <3>7. Issued(q) /\ Placed(q) /\ LeadsToRow(q) /\ Asked(q)
        BY <1>0, <3>1, <3>2, <3>3 DEF Lease, Issued, Placed, LeadsToRow, Asked
      <3>8. QED
        BY <1>s, <3>1, <3>4, <3>5, <3>6, <3>7 DEF Lease
    <2>3. QED
      BY <2>1, <2>2
  <1>7. CASE ReadCallback(r)
    <2>1. CASE Settles(r, Blank)
      BY <1>b, <2>1 DEF Settles
    <2>2. CASE ~Settles(r, Blank)
      <3> DEFINE q == [req[r] EXCEPT !.at = "exchange", !.row = workspace.id]
      <3>1. workspace.id \in 0..MaxRows
        BY <1>0 DEF RowShape
      <3>2. q \in Shape /\ Lease(q, age[r])
        BY <1>7, <1>m, <3>1 DEF ReadCallback
      <3>3. QED
        BY <1>7, <1>s, <2>2, <3>2 DEF ReadCallback
    <2>3. QED
      BY <2>1, <2>2
  <1>9. CASE ReadFails(r)
    BY <1>9, <1>b DEF ReadFails, Settles
  <1>10. CASE ClientLeaves(r)
    <2>1. HangUp(req[r]) \in Shape
      BY <1>0 DEF HangUp, Shape
    <2>2. HangUp(req[r]).http = "idle" /\ Issued(HangUp(req[r]))
      BY <1>0 DEF HangUp, Shape, Blank, Issued, Lease
    <2>3. Lease(HangUp(req[r]), age[r])
      BY <2>2, IdleLease
    <2>4. QED
      BY <1>10, <1>s, <2>1, <2>3 DEF ClientLeaves
  <1>11. CASE CheckRow(r)
    <2> DEFINE q == IF workspace.id = 0 THEN [req[r] EXCEPT !.at = "checkOwner"]
                    ELSE [req[r] EXCEPT !.at = "checkIdentity", !.row = workspace.id]
    <2>1. /\ q.at \in {"checkOwner", "checkIdentity"} /\ q.http = req[r].http
          /\ q.timer = req[r].timer /\ q.cookie = req[r].cookie
          /\ q.user = req[r].user /\ q.port = req[r].port
      BY <1>0 DEF Shape
    <2>2. q \in Shape
      <3>1. {"checkOwner", "checkIdentity"} \subseteq Places /\ workspace.id \in 0..MaxRows
        BY <1>0 DEF Places, Renewing, RowShape
      <3>2. QED
        BY <1>0, <3>1 DEF Shape
    <2>3. Goes(r, q) /\ UNCHANGED age /\ req[r].at = "checkRow"
      BY <1>11 DEF CheckRow
    <2>4. CASE req[r].http = "idle"
      BY <1>i, <2>1, <2>2, <2>3, <2>4
    <2>5. CASE req[r].http = "stream"
      <3>1. InTime(q, age[r]) /\ Asked(q)
        BY <1>0, <2>1, <2>3, <2>5 DEF Lease, InTime, Asked, Renewing
      <3>2. Fresh(q, age[r])
        BY <1>0, <2>1, <2>5 DEF Lease, Fresh, Entitled
      <3>3. Issued(q) /\ Placed(q) /\ LeadsToRow(q)
        BY <1>0, <2>1, <2>5 DEF Lease, Issued, Placed, LeadsToRow, Renewing
      <3>4. QED
        BY <1>s, <2>2, <2>3, <3>1, <3>2, <3>3 DEF Lease
    <2>6. QED
      BY <1>h, <2>3, <2>4, <2>5 DEF Renewing
  <1>12. CASE CheckIdentity(r)
    <2> DEFINE yes == Resolves(req[r].cookie, req[r].row)
               q == [req[r] EXCEPT !.at = "checkOwner", !.row = 0, !.user = yes]
    <2>1. /\ q.at = "checkOwner" /\ q.http = req[r].http
          /\ q.timer = req[r].timer /\ q.cookie = req[r].cookie
          /\ q.user = yes /\ q.port = req[r].port
      BY <1>0 DEF Shape
    <2>2. q \in Shape
      <3>1. "checkOwner" \in Places /\ 0 \in 0..MaxRows
        BY Constants DEF Places, Renewing
      <3>2. \A b \in BOOLEAN : [req[r] EXCEPT !.at = "checkOwner", !.row = 0, !.user = b] \in Shape
        BY <1>0, <3>1 DEF Shape
      <3>3. QED
        BY <3>2 DEF Resolves
    <2>3. Goes(r, q) /\ UNCHANGED age /\ req[r].at = "checkIdentity"
      BY <1>12 DEF CheckIdentity
    <2>4. CASE req[r].http = "idle"
      BY <1>i, <2>1, <2>2, <2>3, <2>4
    <2>5. CASE req[r].http = "stream"
      <3>1. yes => age[r] = 0
        <4> SUFFICES ASSUME yes PROVE age[r] = 0
          OBVIOUS
        <4>1. /\ req[r].cookie \in tokens /\ workspace.id # 0
              /\ grants[req[r].cookie].row = workspace.id
              /\ Resolves(req[r].cookie, workspace.id)
          BY DEF Resolves, LiveIdentity
        <4>2. req[r].cookie # 0
          BY <4>1, Shapes DEF GrantIds
        <4>3. req[r].port = workspace.port
          BY <1>0, <2>5, <4>1, <4>2 DEF Lease, LeadsToRow
        <4>4. Entitled(req[r])
          BY <4>1, <4>3 DEF Entitled
        <4>5. QED
          BY <1>0, <2>5, <4>4 DEF Lease, Fresh
      <3>2. InTime(q, age[r])
        <4>1. /\ q.timer \in Nat /\ q.timer <= Deadline
              /\ age[r] + q.timer <= Interval + 2 * Deadline
          BY <1>0, <2>1, <2>3, <2>5 DEF Lease, InTime, Shape, Renewing
        <4>2. yes => age[r] + q.timer <= Deadline
          BY <1>0, <3>1, <4>1, Constants
        <4>3. QED
          BY <2>1, <2>5, <4>1, <4>2 DEF InTime
      <3>3. Fresh(q, age[r])
        BY <1>0, <2>1, <2>5 DEF Lease, Fresh, Entitled
      <3>4. Issued(q) /\ Placed(q) /\ LeadsToRow(q) /\ Asked(q)
        BY <1>0, <2>1, <2>5 DEF Lease, Issued, Placed, LeadsToRow, Asked, Renewing
      <3>5. QED
        BY <1>s, <2>2, <2>3, <3>2, <3>3, <3>4 DEF Lease
    <2>6. QED
      BY <1>h, <2>3, <2>4, <2>5 DEF Renewing
  <1>13. CASE CheckOwner(r)
    <2>1. CASE Verdict(r, FALSE)
      BY <1>13, <1>v, <2>1 DEF CheckOwner, Renewing
    <2>2. CASE ~Verdict(r, FALSE)
      <3> DEFINE q == [req[r] EXCEPT !.at = "checkPort"]
      <3>1. Goes(r, q) /\ UNCHANGED age /\ req[r].at = "checkOwner" /\ req[r].user
        BY <1>13, <2>2 DEF CheckOwner, Moves
      <3>2. /\ q.at = "checkPort" /\ q.http = req[r].http
            /\ q.timer = req[r].timer /\ q.cookie = req[r].cookie
            /\ q.user = req[r].user /\ q.port = req[r].port
        BY <1>0 DEF Shape
      <3>3. q \in Shape
        <4>1. "checkPort" \in Places
          BY DEF Places, Renewing
        <4>2. QED
          BY <1>0, <4>1 DEF Shape
      <3>4. CASE req[r].http = "idle"
        BY <1>i, <3>1, <3>2, <3>3, <3>4
      <3>5. CASE req[r].http = "stream"
        <4>1. InTime(q, age[r]) /\ Asked(q)
          BY <1>0, <3>1, <3>2, <3>5 DEF Lease, InTime, Asked, Renewing
        <4>2. Fresh(q, age[r])
          BY <1>0, <3>2, <3>5 DEF Lease, Fresh, Entitled
        <4>3. Issued(q) /\ Placed(q) /\ LeadsToRow(q)
          BY <1>0, <3>2, <3>5 DEF Lease, Issued, Placed, LeadsToRow, Renewing
        <4>4. QED
          BY <1>s, <3>1, <3>3, <4>1, <4>2, <4>3 DEF Lease
      <3>6. QED
        BY <1>h, <3>1, <3>4, <3>5 DEF Renewing
    <2>3. QED
      BY <2>1, <2>2
  <1>14. CASE CheckPort(r)
    <2> DEFINE same == FindTargetPort = req[r].port
    <2>1. req[r].at = "checkPort" /\ Verdict(r, same) /\ same \in BOOLEAN
      BY <1>14 DEF CheckPort
    <2>2. CASE req[r].http = "stream"
      <3>1. req[r].user
        BY <1>0, <2>1, <2>2 DEF Lease, Asked
      <3>2. QED
        BY <1>v, <2>1, <3>1 DEF Renewing
    <2>3. CASE req[r].http # "stream"
      BY <1>b, <2>1, <2>3 DEF Verdict
    <2>4. QED
      BY <2>2, <2>3
  <1>15. CASE CheckFails(r)
    BY <1>15, <1>v DEF CheckFails
  <1>16. QED
    BY <1>1, <1>2, <1>3, <1>4, <1>5, <1>6, <1>7, <1>9, <1>10, <1>11, <1>12, <1>13, <1>14, <1>15
    DEF Serve

\* The timers: nobody waits beyond a deadline, and a renewal begins with the
\* age the interval has left its right.
LEMMA FiresLeases == ASSUME Slots, Leases, NEW r \in Requests, Fires(r) PROVE Leases'
  <1>0. /\ req[r] \in Shape /\ age[r] \in Nat /\ Lease(req[r], age[r]) /\ Blank \in Shape
        /\ req \in [Requests -> Shape] /\ age \in [Requests -> 0..TooOld]
    BY Shapes, Constants DEF Leases
  <1>s. \A q \in Shape : Goes(r, q) /\ UNCHANGED age /\ Lease(q, age[r]) => Leases'
    BY <1>0, GoesLease
  <1>i. Goes(r, [req[r] EXCEPT !.http = "idle"]) /\ UNCHANGED age => Leases'
    <2> DEFINE q == [req[r] EXCEPT !.http = "idle"]
    <2>1. q \in Shape /\ q.http = "idle" /\ q.cookie = req[r].cookie
      BY <1>0 DEF Shape
    <2>2. Lease(q, age[r])
      BY <1>0, <2>1, IdleLease DEF Lease, Issued
    <2>3. QED
      BY <1>s, <2>1, <2>2
  <1>1. CASE DeadlinePasses(r)
    BY <1>1, <1>i DEF DeadlinePasses
  <1>2. CASE RenewalTimesOut(r)
    BY <1>2, <1>i DEF RenewalTimesOut
  <1>3. CASE Renew(r)
    <2>1. CASE Goes(r, Blank) /\ UNCHANGED age
      BY <1>0, <1>s, <2>1, BlankLease
    <2>2. CASE ~(Goes(r, Blank) /\ UNCHANGED age)
      <3> DEFINE q == [req[r] EXCEPT !.at = "checkRow", !.timer = Deadline]
      <3>1. /\ req[r].http = "stream" /\ req[r].at = "none" /\ req[r].timer = 0
            /\ Goes(r, q) /\ UNCHANGED age
        BY <1>3, <2>2 DEF Renew
      <3>2. /\ q.at = "checkRow" /\ q.http = "stream" /\ q.timer = Deadline
            /\ q.cookie = req[r].cookie /\ q.user = req[r].user /\ q.port = req[r].port
        BY <1>0, <3>1 DEF Shape
      <3>3. q \in Shape
        <4>1. "checkRow" \in Places /\ Deadline \in Nat
          BY Constants DEF Places, Renewing
        <4>2. QED
          BY <1>0, <4>1 DEF Shape
      <3>4. Asked(q) /\ ~q.user
        BY <1>0, <3>1, <3>2 DEF Lease, Asked
      <3>5. InTime(q, age[r])
        <4>1. age[r] <= Interval + Deadline
          BY <1>0, <3>1, Constants DEF Lease, InTime
        <4>2. QED
          BY <1>0, <3>2, <3>4, <4>1, Constants DEF InTime
      <3>6. Fresh(q, age[r])
        BY <1>0, <3>1, <3>2 DEF Lease, Fresh, Entitled
      <3>7. Issued(q) /\ Placed(q) /\ LeadsToRow(q)
        BY <1>0, <3>1, <3>2 DEF Lease, Issued, Placed, LeadsToRow, Renewing
      <3>8. QED
        BY <1>s, <3>1, <3>3, <3>4, <3>5, <3>6, <3>7 DEF Lease
    <2>3. QED
      BY <2>1, <2>2
  <1>4. QED
    BY <1>1, <1>2, <1>3 DEF Fires

LEMMA ShutdownLeases == ASSUME Slots, Leases, Shutdown PROVE Leases'
  <1>1. UNCHANGED <<rows, age>> /\ RowsWereMade'
    BY DEF Shutdown, Leases, RowsWereMade, rows
  <1>2. ASSUME NEW r \in Requests PROVE Lease(req[r], age[r])'
    <2>0. req[r] \in Shape /\ Lease(req[r], age[r])
      BY Shapes DEF Leases
    <2>1. req'[r] = HangUp(req[r])
      BY DEF Shutdown
    <2>2. HangUp(req[r]).http = "idle" /\ Issued(HangUp(req[r]))
      BY <2>0 DEF HangUp, Shape, Blank, Lease, Issued
    <2>3. Lease(req'[r], age'[r])
      BY <2>1, <2>2, IdleLease
    <2>4. QED
      BY <1>1, <2>3, SameRowsLease
  <1>3. QED
    BY <1>1, <1>2 DEF Leases

\* Time: what a right gains in age its timer loses.
LEMMA TickLeases == ASSUME Slots, Leases, Tick PROVE Leases'
  <1>1. UNCHANGED rows /\ RowsWereMade'
    BY DEF Tick, Leases, RowsWereMade, rows
  <1>2. ASSUME NEW r \in Requests PROVE Lease(req[r], age[r])'
    <2>0. req[r] \in Shape /\ Lease(req[r], age[r]) /\ age[r] \in 0..TooOld
      BY Shapes DEF Leases
    <2>1. CASE req[r].http = "idle"
      <3>1. req'[r] = req[r]
        BY <2>1 DEF Tick
      <3>2. Lease(req'[r], age'[r])
        BY <2>0, <2>1, <3>1, IdleLease DEF Lease
      <3>3. QED
        BY <1>1, <3>2, SameRowsLease
    <2>2. CASE req[r].http # "idle"
      <3> DEFINE q == [req[r] EXCEPT !.timer = @ - 1]
      <3>1. req'[r] = q /\ req[r].timer > 0
        BY <2>2 DEF Tick
      <3>2. /\ q.at = req[r].at /\ q.http = req[r].http /\ q.timer = req[r].timer - 1
            /\ q.cookie = req[r].cookie /\ q.user = req[r].user /\ q.port = req[r].port
        BY <2>0 DEF Shape
      <3>3. /\ age'[r] \in 0..TooOld
            /\ Entitled(req[r]) => age'[r] = 0
            /\ age'[r] <= age[r] + 1
        BY <2>0, Constants DEF Tick
      <3>4. Fresh(q, age'[r])
        <4>1. Entitled(q) => Entitled(req[r])
          BY <3>2 DEF Entitled
        <4>2. QED
          BY <3>3, <4>1 DEF Fresh
      <3>5. age'[r] \in Nat /\ q.timer \in Nat /\ age'[r] + q.timer <= age[r] + req[r].timer
            /\ q.timer <= req[r].timer /\ age[r] \in Nat /\ req[r].timer \in Nat
        BY <2>0, <3>1, <3>2, <3>3, Constants DEF Shape
      <3>6. InTime(q, age'[r])
        BY <2>0, <3>2, <3>5, Constants DEF Lease, InTime
      <3>7. Issued(q) /\ Placed(q) /\ LeadsToRow(q) /\ Asked(q)
        BY <2>0, <3>2 DEF Lease, Issued, Placed, LeadsToRow, Asked
      <3>8. Lease(req'[r], age'[r])
        BY <3>1, <3>4, <3>6, <3>7 DEF Lease
      <3>9. QED
        BY <1>1, <3>8, SameRowsLease
    <2>3. QED
      BY <2>1, <2>2
  <1>3. QED
    BY <1>1, <1>2 DEF Leases

LEMMA NextLeases == Slots /\ Codes /\ Leases /\ [Next]_vars => Leases'
  <1> SUFFICES ASSUME Slots, Codes, Leases, [Next]_vars PROVE Leases'
    OBVIOUS
  <1>0. UNCHANGED <<rows, req, age>> => Leases'
    BY SameRowsLease DEF Leases, RowsWereMade, rows
  <1>1. CASE World
    BY <1>1, WorldLeases
  <1>2. CASE Console
    <2>1. CASE IssueGrant
      BY <2>1, IssueGrantLeases
    <2>2. CASE ~IssueGrant
      BY <1>0, <1>2, <2>2 DEF Console, AskConsole, ConsoleSession, ConsoleRow, ConsoleGivesUp
    <2>3. QED
      BY <2>1, <2>2
  <1>3. ASSUME NEW r \in Requests, Serve(r) PROVE Leases'
    BY <1>3, ServeLeases, ExchangeLeases
  <1>4. ASSUME NEW r \in Requests, Fires(r) PROVE Leases'
    BY <1>4, FiresLeases
  <1>5. CASE Shutdown
    BY <1>5, ShutdownLeases
  <1>6. CASE Tick
    BY <1>6, TickLeases
  <1>7. CASE UNCHANGED vars
    BY <1>0, <1>7 DEF vars
  <1>8. QED
    BY <1>1, <1>2, <1>3, <1>4, <1>5, <1>6, <1>7 DEF Next

\* An open stream is within its budget wherever its renewal stands.
LEMMA LeasesBound == Slots /\ Leases => StreamsEndInTime
  <1> SUFFICES ASSUME Slots, Leases, NEW r \in Open
               PROVE  age[r] <= Interval + 2 * Deadline
    BY DEF StreamsEndInTime
  <1>1. /\ r \in Requests /\ req[r].http = "stream" /\ req[r] \in Shape /\ age[r] \in Nat
        /\ Lease(req[r], age[r])
    BY Shapes, Constants DEF Open, Leases
  <1>2. req[r].timer \in Nat /\ req[r].at \in {"none"} \cup Renewing
    BY <1>1 DEF Shape, Lease, Placed
  <1>3. age[r] + req[r].timer <= Interval + 2 * Deadline
    BY <1>1, <1>2, Constants DEF Lease, InTime
  <1>4. QED
    BY <1>1, <1>2, <1>3, Constants

\* monitorAccess: a stream outlives the right to it by one interval and two
\* deadlines at most, however the reads of its renewals interleave with what
\* they read and however long they stall.
THEOREM StreamsAlwaysEndInTime == Spec => []StreamsEndInTime
  BY InitLeases, NextLeases, LeasesBound, AlwaysSlots, AlwaysCodes, PTL DEF Spec
=============================================================================
