------------------------ MODULE OperationQueueProofs ------------------------
(***************************************************************************)
(* Proofs about OperationQueue, for any set of callers and any capacity.   *)
(* The inductive invariant describes the promise chain: each waiting call  *)
(* holds the promise of the one before it in line, the first one holds a    *)
(* resolved promise, and tail is the promise of the last one.               *)
(***************************************************************************)
EXTENDS OperationQueue, FiniteSetTheorems, TLAPS

Positions == 1..Len(line)

Distinct == \A i, j \in Positions : line[i] = line[j] => i = j

LineIsAdmitted == \A c \in Calls : c \in Admitted <=> \E i \in Positions : line[i] = c

TailIsLast == tail = IF line = <<>> THEN Resolved ELSE line[Len(line)]

ChainFollowsLine ==
    \A i \in Positions : previous[line[i]] = IF i = 1 THEN Resolved ELSE line[i - 1]

FirstRuns == \A c \in Calls : phase[c] = "running" => line # <<>> /\ c = line[1]

Bounded == pending = Len(line) /\ pending <= Capacity

IInv ==
    /\ TypeOK
    /\ Bounded
    /\ Distinct
    /\ LineIsAdmitted
    /\ TailIsLast
    /\ ChainFollowsLine
    /\ FirstRuns

\* The queue is empty at first.
LEMMA InitInv == Init => IInv
  <1> SUFFICES ASSUME Init PROVE IInv
    OBVIOUS
  <1> USE CapacityAssumption DEF Init
  <1>1. TypeOK
    BY DEF TypeOK, Promises, Phases
  <1>2. Len(line) = 0 /\ Positions = {}
    BY DEF Positions
  <1>3. LineIsAdmitted
    BY <1>2 DEF LineIsAdmitted, Admitted
  <1>4. QED
    BY <1>1, <1>2, <1>3 DEF IInv, Bounded, Distinct, TailIsLast, ChainFollowsLine, FirstRuns

\* A call that joins goes behind the last one and holds its promise.
LEMMA AdmitInv == ASSUME IInv, NEW c \in Calls, Admit(c) PROVE IInv'
  <1> USE DEF IInv
  <1>0. /\ line \in Seq(Calls) /\ Len(line) \in Nat /\ pending \in Nat
        /\ previous \in [Calls -> Promises] /\ phase \in [Calls -> Phases]
    BY DEF TypeOK
  <1>1. /\ line' \in Seq(Calls)
        /\ Len(line') = Len(line) + 1
        /\ Positions' = 1..(Len(line) + 1)
        /\ \A i \in Positions : line'[i] = line[i]
        /\ line'[Len(line) + 1] = c
    BY <1>0 DEF Admit, Positions
  <1>2. ~ \E i \in Positions : line[i] = c
    <2>1. c \notin Admitted
      BY <1>0 DEF Admit, Admitted
    <2>2. QED
      BY <2>1 DEF LineIsAdmitted
  <1>3. TypeOK'
    <2>1. tail' \in Promises /\ tail \in Promises
      BY DEF Admit, Promises, TypeOK
    <2>2. previous' \in [Calls -> Promises] /\ phase' \in [Calls -> Phases]
      BY <1>0, <2>1 DEF Admit, Phases
    <2>3. QED
      BY <1>0, <1>1, <2>1, <2>2 DEF TypeOK, Admit
  <1>4. Bounded'
    BY <1>0, <1>1, CapacityAssumption DEF Bounded, Admit
  <1>5. Distinct'
    BY <1>0, <1>1, <1>2 DEF Distinct, Positions
  <1>6. LineIsAdmitted'
    <2> SUFFICES ASSUME NEW d \in Calls
                 PROVE (d \in Admitted)' <=> \E i \in Positions' : line'[i] = d
      BY DEF LineIsAdmitted
    <2>1. CASE d = c
      BY <1>0, <1>1, <2>1 DEF Admit, Admitted
    <2>2. CASE d # c
      <3>1. (d \in Admitted)' <=> d \in Admitted
        BY <1>0, <2>2 DEF Admit, Admitted
      <3>2. (\E i \in Positions' : line'[i] = d) <=> \E i \in Positions : line[i] = d
        BY <1>0, <1>1, <2>2 DEF Positions
      <3>3. QED
        BY <3>1, <3>2 DEF LineIsAdmitted
    <2>3. QED
      BY <2>1, <2>2
  <1>7. TailIsLast'
    BY <1>0, <1>1 DEF TailIsLast, Admit
  <1>8. ChainFollowsLine'
    <2> SUFFICES ASSUME NEW i \in Positions'
                 PROVE previous'[line'[i]] = IF i = 1 THEN Resolved ELSE line'[i - 1]
      BY DEF ChainFollowsLine
    <2>1. CASE i = Len(line) + 1
      <3>1. previous'[line'[i]] = tail
        BY <1>0, <1>1, <2>1 DEF Admit
      <3>2. CASE line = <<>>
        BY <1>0, <2>1, <3>1, <3>2 DEF TailIsLast
      <3>3. CASE line # <<>>
        <4>1. Len(line) # 0
          BY <1>0, <3>3
        <4>2. tail = line[Len(line)] /\ i # 1 /\ i - 1 \in Positions /\ i - 1 = Len(line)
          BY <1>0, <2>1, <3>3, <4>1 DEF TailIsLast, Positions
        <4>3. QED
          BY <1>1, <3>1, <4>2
      <3>4. QED
        BY <3>2, <3>3
    <2>2. CASE i # Len(line) + 1
      <3>1. i \in Positions /\ line'[i] = line[i] /\ line[i] \in Calls
        BY <1>0, <1>1, <2>2 DEF Positions
      <3>2. previous'[line[i]] = previous[line[i]]
        BY <1>0, <1>2, <3>1 DEF Admit
      <3>3. i # 1 => i - 1 \in Positions
        BY <1>0, <3>1 DEF Positions
      <3>4. QED
        BY <1>1, <3>1, <3>2, <3>3 DEF ChainFollowsLine
    <2>3. QED
      BY <2>1, <2>2
  <1>9. FirstRuns'
    <2> SUFFICES ASSUME NEW d \in Calls, phase'[d] = "running"
                 PROVE line' # <<>> /\ d = line'[1]
      BY DEF FirstRuns
    <2>1. phase[d] = "running"
      BY <1>0 DEF Admit
    <2>2. line # <<>> /\ d = line[1] /\ 1 \in Positions
      BY <1>0, <2>1 DEF FirstRuns, Positions
    <2>3. QED
      BY <1>0, <1>1, <2>2
  <1>10. QED
    BY <1>3, <1>4, <1>5, <1>6, <1>7, <1>8, <1>9

\* A refused call leaves the line alone.
LEMMA RefuseInv == ASSUME IInv, NEW c \in Calls, Refuse(c) PROVE IInv'
  <1> USE DEF IInv
  <1>1. TypeOK'
    BY DEF TypeOK, Refuse, Phases
  <1>2. phase \in [Calls -> Phases]
    BY DEF TypeOK
  <1>3. LineIsAdmitted'
    BY <1>2 DEF LineIsAdmitted, Refuse, Admitted, Positions
  <1>4. FirstRuns'
    BY <1>2 DEF FirstRuns, Refuse
  <1>5. QED
    BY <1>1, <1>3, <1>4
       DEF Refuse, Bounded, Distinct, TailIsLast, ChainFollowsLine, Positions

\* Only the first call in line holds a resolved promise.
LEMMA BeginInv == ASSUME IInv, NEW c \in Calls, Begin(c) PROVE IInv'
  <1> USE DEF IInv
  <1>1. TypeOK'
    BY DEF TypeOK, Begin, Phases
  <1>2. phase \in [Calls -> Phases] /\ line \in Seq(Calls) /\ Len(line) \in Nat
    BY DEF TypeOK
  <1>3. LineIsAdmitted'
    BY <1>2 DEF LineIsAdmitted, Begin, Admitted, Positions
  <1>4. line # <<>> /\ c = line[1]
    <2>1. PICK i \in Positions : line[i] = c
      BY DEF Begin, LineIsAdmitted, Admitted
    <2>2. i # 1 => i - 1 \in Positions /\ line[i - 1] \in Calls
      BY <1>2 DEF Positions
    <2>3. i = 1
      BY <2>1, <2>2, ResolvedAssumption DEF Begin, ChainFollowsLine
    <2>4. QED
      BY <1>2, <2>1, <2>3 DEF Positions
  <1>5. FirstRuns'
    BY <1>2, <1>4 DEF FirstRuns, Begin
  <1>6. QED
    BY <1>1, <1>3, <1>5
       DEF Begin, Bounded, Distinct, TailIsLast, ChainFollowsLine, Positions

\* When the first call ends, the second one's promise is resolved.
LEMMA FinishInv == ASSUME IInv, NEW c \in Calls, Finish(c) PROVE IInv'
  <1> USE DEF IInv
  <1>0. /\ line \in Seq(Calls) /\ Len(line) \in Nat /\ pending \in Nat
        /\ previous \in [Calls -> Promises] /\ phase \in [Calls -> Phases]
        /\ tail \in Promises
    BY DEF TypeOK
  <1>1. line # <<>> /\ line[1] = c /\ Len(line) # 0
    BY <1>0 DEF Finish, FirstRuns
  <1>2. /\ line' \in Seq(Calls)
        /\ Len(line') = Len(line) - 1
        /\ Positions' = 1..(Len(line) - 1)
        /\ \A i \in Positions' : i + 1 \in Positions /\ line'[i] = line[i + 1]
    BY <1>0, <1>1 DEF Finish, Positions
  <1>3. \A i \in Positions' : line'[i] # c /\ line'[i] \in Calls
    BY <1>0, <1>1, <1>2 DEF Distinct, Positions
  <1>4. TypeOK'
    <2>1. pending' \in Nat
      BY <1>0, <1>1 DEF Bounded, Finish
    <2>2. tail' \in Promises
      BY <1>0 DEF Finish, Promises
    <2>3. previous' \in [Calls -> Promises]
      BY <1>0 DEF Finish, Promises
    <2>4. phase' \in [Calls -> Phases]
      BY <1>0 DEF Finish, Phases
    <2>5. QED
      BY <1>2, <2>1, <2>2, <2>3, <2>4 DEF TypeOK
  <1>5. Bounded'
    BY <1>0, <1>1, <1>2, CapacityAssumption DEF Bounded, Finish
  <1>6. Distinct'
    <2> SUFFICES ASSUME NEW i \in Positions', NEW j \in Positions', line'[i] = line'[j]
                 PROVE i = j
      BY DEF Distinct
    <2>1. i + 1 = j + 1
      BY <1>2 DEF Distinct
    <2>2. QED
      BY <1>0, <1>2, <2>1
  <1>7. LineIsAdmitted'
    <2> SUFFICES ASSUME NEW d \in Calls
                 PROVE (d \in Admitted)' <=> \E i \in Positions' : line'[i] = d
      BY DEF LineIsAdmitted
    <2>1. CASE d = c
      BY <1>0, <1>3, <2>1 DEF Finish, Admitted
    <2>2. CASE d # c
      <3>1. (d \in Admitted)' <=> d \in Admitted
        BY <1>0, <2>2 DEF Finish, Admitted
      <3>2. ASSUME NEW i \in Positions, line[i] = d
            PROVE \E k \in Positions' : line'[k] = d
        <4>1. i # 1
          BY <1>1, <2>2, <3>2
        <4>2. i - 1 \in Positions' /\ (i - 1) + 1 = i
          BY <1>0, <1>2, <4>1 DEF Positions
        <4>3. line'[i - 1] = d
          BY <1>2, <3>2, <4>2
        <4>4. QED
          BY <4>2, <4>3
      <3>3. ASSUME NEW i \in Positions', line'[i] = d
            PROVE \E k \in Positions : line[k] = d
        BY <1>2, <3>3
      <3>4. QED
        BY <3>1, <3>2, <3>3 DEF LineIsAdmitted
    <2>3. QED
      BY <2>1, <2>2
  <1>8. TailIsLast'
    <2>1. CASE Len(line) = 1
      <3>1. tail = c /\ line' = <<>>
        BY <1>0, <1>1, <1>2, <2>1 DEF TailIsLast
      <3>2. QED
        BY <3>1 DEF TailIsLast, Finish
    <2>2. CASE Len(line) # 1
      <3>1. Len(line) - 1 \in Positions' /\ line' # <<>>
        BY <1>0, <1>1, <1>2, <2>2 DEF Positions
      <3>2. line'[Len(line')] = line[Len(line)]
        BY <1>0, <1>2, <3>1
      <3>3. tail = line[Len(line)] /\ tail # c
        BY <1>0, <1>1, <1>2, <1>3, <3>1, <3>2 DEF TailIsLast
      <3>4. QED
        BY <3>1, <3>2, <3>3 DEF TailIsLast, Finish
    <2>3. QED
      BY <2>1, <2>2
  <1>9. ChainFollowsLine'
    <2> SUFFICES ASSUME NEW i \in Positions'
                 PROVE previous'[line'[i]] = IF i = 1 THEN Resolved ELSE line'[i - 1]
      BY DEF ChainFollowsLine
    <2>1. i \in Nat /\ i + 1 # 1 /\ i + 1 \in Positions /\ line'[i] = line[i + 1]
          /\ (i + 1) - 1 = i
      BY <1>0, <1>2
    <2>2. previous[line'[i]] = line[i]
      BY <2>1 DEF ChainFollowsLine
    <2>3. CASE i = 1
      BY <1>0, <1>1, <1>3, <2>2, <2>3 DEF Finish
    <2>4. CASE i # 1
      <3>1. i - 1 \in Positions' /\ (i - 1) + 1 = i
        BY <1>0, <1>2, <2>4
      <3>2. line'[i - 1] = line[i] /\ line[i] # c
        BY <1>2, <1>3, <3>1
      <3>3. QED
        BY <1>3, <2>2, <2>4, <3>2 DEF Finish
    <2>5. QED
      BY <2>3, <2>4
  <1>10. FirstRuns'
    <2> SUFFICES ASSUME NEW d \in Calls, phase'[d] = "running" PROVE FALSE
      BY DEF FirstRuns
    <2>1. d # c /\ phase[d] = "running"
      BY <1>0 DEF Finish
    <2>2. QED
      BY <1>1, <2>1 DEF FirstRuns
  <1>11. QED
    BY <1>4, <1>5, <1>6, <1>7, <1>8, <1>9, <1>10

\* Every step keeps the invariant.
LEMMA NextInv == IInv /\ [Next]_vars => IInv'
  <1> SUFFICES ASSUME IInv, [Next]_vars PROVE IInv'
    OBVIOUS
  <1>1. CASE UNCHANGED vars
    BY <1>1 DEF vars, IInv, TypeOK, Bounded, Distinct, LineIsAdmitted, TailIsLast,
                ChainFollowsLine, FirstRuns, Positions, Admitted
  <1>2. ASSUME NEW c \in Calls, Admit(c) \/ Refuse(c) \/ Begin(c) \/ Finish(c) PROVE IInv'
    BY <1>2, AdmitInv, RefuseInv, BeginInv, FinishInv
  <1>3. QED
    BY <1>1, <1>2 DEF Next

\* The queue's state always describes a chain of promises.
THEOREM ChainInvariant == Spec => []IInv
  <1>1. QED
    BY InitInv, NextInv, PTL DEF Spec

-----------------------------------------------------------------------------

\* Two operations are never in progress together, whoever calls and however
\* many (operation-queue.ts:1).
THEOREM QueueExcludes == Spec => []MutualExclusion
  <1>1. IInv => MutualExclusion
    BY DEF IInv, FirstRuns, MutualExclusion
  <1>2. QED
    BY <1>1, ChainInvariant, PTL

\* The operation in progress is the oldest one admitted.
THEOREM QueueIsFirstComeFirstServed == Spec => []OldestRunsFirst
  <1>1. IInv => OldestRunsFirst
    BY DEF IInv, FirstRuns, OldestRunsFirst
  <1>2. QED
    BY <1>1, ChainInvariant, PTL

\* The counter is exact: the line is a bijection from positions to the calls
\* admitted and not finished.
LEMMA LineCountsAdmitted == IInv => Cardinality(Admitted) = Len(line)
  <1> SUFFICES ASSUME IInv PROVE Cardinality(Admitted) = Len(line)
    OBVIOUS
  <1>1. line \in Seq(Calls) /\ Len(line) \in Nat
    BY DEF IInv, TypeOK
  <1> DEFINE at == [i \in Positions |-> line[i]]
  <1>2. \A i \in Positions : line[i] \in Admitted
    BY <1>1 DEF IInv, LineIsAdmitted, Positions
  <1>3. at \in [Positions -> Admitted]
    BY <1>2
  <1>4. at \in Injection(Positions, Admitted)
    BY <1>3 DEF IInv, Distinct, Injection, IsInjective
  <1>5. at \in Surjection(Positions, Admitted)
    BY <1>3 DEF IInv, LineIsAdmitted, Admitted, Surjection
  <1>6. ExistsBijection(1..Len(line), Admitted)
    BY <1>4, <1>5 DEF ExistsBijection, Bijection, Positions
  <1>7. QED
    BY <1>1, <1>6, FS_CountingElements

\* No place is leaked and the line never outgrows the capacity.
THEOREM QueueCountsItsCalls == Spec => []PendingIsExact
  <1>1. IInv => PendingIsExact
    BY LineCountsAdmitted DEF IInv, Bounded, PendingIsExact
  <1>2. QED
    BY <1>1, ChainInvariant, PTL

\* The promise chain implements a first-in first-out executor.
THEOREM QueueImplementsExecutor == Spec => ImplementsExecutor
  <1> DEFINE running == \E c \in Calls : phase[c] = "running"
  <1>1. Init => Executor!Init
    BY DEF Init, Executor!Init
  <1>2. IInv /\ [Next]_vars => [Executor!Next]_Executor!vars
    <2> SUFFICES ASSUME IInv, [Next]_vars PROVE [Executor!Next]_Executor!vars
      OBVIOUS
    <2>0. /\ line \in Seq(Calls) /\ Len(line) \in Nat
          /\ phase \in [Calls -> Phases]
      BY DEF IInv, TypeOK
    <2>1. CASE UNCHANGED vars
      BY <2>1 DEF vars, Executor!vars
    <2>2. ASSUME NEW c \in Calls, Admit(c) PROVE Executor!Join(c)
      <3>1. ~Executor!InLine(c)
        BY <2>0, <2>2 DEF Admit, Admitted, IInv, LineIsAdmitted, Positions, Executor!InLine
      <3>2. Len(line) < Capacity
        BY <2>2 DEF Admit, IInv, Bounded
      <3>3. running' <=> running
        BY <2>0, <2>2 DEF Admit
      <3>4. QED
        BY <2>2, <3>1, <3>2, <3>3 DEF Admit, Executor!Join
    <2>3. ASSUME NEW c \in Calls, Refuse(c) PROVE UNCHANGED Executor!vars
      <3>1. running' <=> running
        BY <2>0, <2>3 DEF Refuse
      <3>2. QED
        BY <2>3, <3>1 DEF Refuse, Executor!vars
    <2>4. ASSUME NEW c \in Calls, Begin(c) PROVE Executor!Start
      <3>1. phase'[c] = "running" /\ phase[c] = "awaiting"
        BY <2>0, <2>4 DEF Begin
      <3>2. line # <<>> /\ c = line[1]
        BY BeginInv, <2>4, <3>1 DEF IInv, FirstRuns, Begin
      <3>3. ~running
        BY <3>1, <3>2 DEF IInv, FirstRuns
      <3>4. QED
        BY <2>4, <3>1, <3>2, <3>3 DEF Begin, Executor!Start
    <2>5. ASSUME NEW c \in Calls, Finish(c) PROVE Executor!Leave
      <3>1. running /\ line # <<>> /\ c = line[1]
        BY <2>5 DEF Finish, IInv, FirstRuns
      <3>2. ~running'
        BY <2>0, <2>5, <3>1 DEF Finish, IInv, FirstRuns
      <3>3. QED
        BY <2>5, <3>1, <3>2 DEF Finish, Executor!Leave
    <2>6. QED
      BY <2>1, <2>2, <2>3, <2>4, <2>5 DEF Next, Executor!Next
  <1>3. QED
    BY <1>1, <1>2, ChainInvariant, PTL DEF Spec, ImplementsExecutor, Executor!Spec
=============================================================================
