--------------------------- MODULE SerialExecutor ---------------------------
(***************************************************************************)
(* What a caller of OperationQueue.run may rely on, without the promises   *)
(* the class is made of: admitted calls form one line, the oldest one runs *)
(* alone, and the line never outgrows the capacity.                        *)
(***************************************************************************)
EXTENDS Naturals, Sequences

CONSTANTS Calls,     \* the call sites that may ask for the queue
          Capacity   \* how many calls may be admitted and unfinished at once

VARIABLES line,      \* admitted, unfinished calls, oldest first
          busy       \* whether the oldest call has begun

vars == <<line, busy>>

InLine(c) == \E i \in 1..Len(line) : line[i] = c

Init == line = <<>> /\ busy = FALSE

Join(c) ==
    /\ ~InLine(c)
    /\ Len(line) < Capacity
    /\ line' = Append(line, c)
    /\ UNCHANGED busy

Start ==
    /\ line # <<>>
    /\ ~busy
    /\ busy' = TRUE
    /\ UNCHANGED line

Leave ==
    /\ busy
    /\ line # <<>>
    /\ line' = Tail(line)
    /\ busy' = FALSE

Next == (\E c \in Calls : Join(c)) \/ Start \/ Leave

Spec == Init /\ [][Next]_vars
=============================================================================
