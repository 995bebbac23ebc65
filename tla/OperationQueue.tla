--------------------------- MODULE OperationQueue ---------------------------
(***************************************************************************)
(* instance/operation-queue.ts: a queue made of a chain of promises.  Each *)
(* call of run replaces `tail` by a promise of its own and awaits the one  *)
(* it replaced; its finally block resolves its own.  One instance of the   *)
(* class orders every lifecycle operation and the reconciler, another one  *)
(* every access to the project registry.                                   *)
(*                                                                         *)
(* A promise is named by the call that will resolve it, and Resolved stands *)
(* for every promise already resolved.  JavaScript runs the body of `run`  *)
(* up to its first await without interruption, so the capacity check and   *)
(* the update of pending and tail are one step.                            *)
(***************************************************************************)
EXTENDS Naturals, Sequences, FiniteSets

CONSTANTS Calls,      \* call sites; each has at most one call under way
          Capacity,   \* the constructor's argument
          Resolved    \* a promise that has been resolved

ASSUME CapacityAssumption == Capacity \in Nat \ {0}
ASSUME ResolvedAssumption == Resolved \notin Calls

VARIABLES pending,   \* the class's counter
          tail,      \* the promise the next call will await
          previous,  \* the promise each call awaits
          phase,     \* where each call is in `run`
          line       \* history: admitted, unfinished calls in order of arrival

vars == <<pending, tail, previous, phase, line>>

Phases == {"idle", "refused", "awaiting", "running"}
Promises == Calls \cup {Resolved}
Admitted == {c \in Calls : phase[c] \in {"awaiting", "running"}}

Init ==
    /\ pending = 0
    /\ tail = Resolved
    /\ previous = [c \in Calls |-> Resolved]
    /\ phase = [c \in Calls |-> "idle"]
    /\ line = <<>>

\* Slip: `>` for `>=` in the capacity check.
AdmitOverCapacity(c) ==
    /\ phase[c] \in {"idle", "refused"}
    /\ pending <= Capacity
    /\ pending' = pending + 1
    /\ previous' = [previous EXCEPT ![c] = tail]
    /\ tail' = c
    /\ phase' = [phase EXCEPT ![c] = "awaiting"]
    /\ line' = Append(line, c)

\* run: below capacity the call takes its place in the chain.
Admit(c) ==
    /\ phase[c] \in {"idle", "refused"}
    /\ pending < Capacity
    /\ pending' = pending + 1
    /\ previous' = [previous EXCEPT ![c] = tail]
    /\ tail' = c
    /\ phase' = [phase EXCEPT ![c] = "awaiting"]
    /\ line' = Append(line, c)

\* run: at capacity it throws the 503 and leaves the queue alone.
Refuse(c) ==
    /\ phase[c] = "idle"
    /\ pending >= Capacity
    /\ phase' = [phase EXCEPT ![c] = "refused"]
    /\ UNCHANGED <<pending, tail, previous, line>>

\* Slip: `previous` is not awaited.
BeginAtOnce(c) ==
    /\ phase[c] = "awaiting"
    /\ phase' = [phase EXCEPT ![c] = "running"]
    /\ UNCHANGED <<pending, tail, previous, line>>

\* `await previous` returns and the operation starts.
Begin(c) ==
    /\ phase[c] = "awaiting"
    /\ previous[c] = Resolved
    /\ phase' = [phase EXCEPT ![c] = "running"]
    /\ UNCHANGED <<pending, tail, previous, line>>

\* Slip: the counter goes down only when the operation returned.
FinishKeepingPlace(c) ==
    /\ phase[c] = "running"
    /\ pending' \in {pending, pending - 1}
    /\ tail' = IF tail = c THEN Resolved ELSE tail
    /\ previous' = [d \in Calls |-> IF previous[d] = c THEN Resolved ELSE previous[d]]
    /\ phase' = [phase EXCEPT ![c] = "idle"]
    /\ line' = Tail(line)

\* Slip: release() is not in the finally block, so a throw skips it.
FinishUnreleased(c) ==
    /\ phase[c] = "running"
    /\ pending' = pending - 1
    /\ UNCHANGED <<tail, previous>>
    /\ phase' = [phase EXCEPT ![c] = "idle"]
    /\ line' = Tail(line)

\* The finally block, whether the operation returned or threw: the counter
\* goes down and everyone who holds this call's promise sees it resolved.
Finish(c) ==
    /\ phase[c] = "running"
    /\ pending' = pending - 1
    /\ tail' = IF tail = c THEN Resolved ELSE tail
    /\ previous' = [d \in Calls |-> IF previous[d] = c THEN Resolved ELSE previous[d]]
    /\ phase' = [phase EXCEPT ![c] = "idle"]
    /\ line' = Tail(line)

Next == \E c \in Calls : Admit(c) \/ Refuse(c) \/ Begin(c) \/ Finish(c)

Spec == Init /\ [][Next]_vars

\* The event loop resumes a call whose promise is resolved, and every
\* operation the queue is given ends: each of its awaits has a deadline
\* (runtime/node/client.ts) or is a database query.  Callers owe nothing.
FairSpec ==
    /\ Spec
    /\ \A c \in Calls : WF_vars(Begin(c)) /\ WF_vars(Finish(c))

-----------------------------------------------------------------------------

TypeOK ==
    /\ pending \in Nat
    /\ tail \in Promises
    /\ previous \in [Calls -> Promises]
    /\ phase \in [Calls -> Phases]
    /\ line \in Seq(Calls)

\* "Serialize complete lifecycle workflows, not individual runtime RPCs"
\* (operation-queue.ts:1): two operations are never in progress together.
MutualExclusion ==
    \A c, d \in Calls : phase[c] = "running" /\ phase[d] = "running" => c = d

\* The running operation is the oldest one admitted: promises are awaited in
\* the order run was called, so a later operation never overtakes.
OldestRunsFirst ==
    \A c \in Calls : phase[c] = "running" => line # <<>> /\ Head(line) = c

\* pending is exactly the number of admitted calls and stays within the
\* capacity, so the queue neither leaks places after failures nor grows.
PendingIsExact ==
    /\ pending = Cardinality(Admitted)
    /\ pending <= Capacity

\* Every call that was admitted gets its turn.
AdmittedRuns ==
    \A c \in Calls : phase[c] = "awaiting" ~> phase[c] = "running"

\* The promise chain is a FIFO executor.
Executor ==
    INSTANCE SerialExecutor WITH
        busy <- \E c \in Calls : phase[c] = "running"

ImplementsExecutor == Executor!Spec
=============================================================================
