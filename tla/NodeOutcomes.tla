---------------------------- MODULE NodeOutcomes ----------------------------
(***************************************************************************)
(* RuntimeNode gives, for every mutation of the node protocol, the states  *)
(* it may leave behind, as one step.  Here the steps of NodeStorage are    *)
(* shown to leave no other ones.                                           *)
(***************************************************************************)
EXTENDS NodeStorage

CONSTANTS Missing, Damaged, None \* as in RuntimeNode

ASSUME OutcomeAssumption == Missing # Damaged /\ 0 \notin {Missing, Damaged}

Node == INSTANCE RuntimeNode WITH Images <- {}, Quotas <- {}, MaxWrites <- 0

VARIABLE was \* history: what the call's key held when the call came in

\* A directory is as it should be once its record is complete.
Entry(k) ==
    [dir |-> CASE ~Present(k) -> Missing
               [] Present(k) /\ file[k].state = "done" /\ dirs[k].has = "whole" -> 0
               [] OTHER -> Damaged,
     rec |-> IF Active(file[k]) THEN file[k].state ELSE "none",
     tag |-> None]

World(s) ==
    [disk |-> [kind \in Node!Keys |-> Entry(Key(s, kind))], ctr |-> Node!NoContainer]

\* The call under way in the terms of RuntimeNode.
Mutation ==
    CASE call.do = "create" -> Node!MakeCall
      [] call.do = "remove" -> Node!WipeCall(call.key[2])
      [] call.do = "copy" -> Node!CopyCall(call.from[2], call.key[2], None)

Before(s) == [World(s) EXCEPT !.disk[call.key[2]] = was]

OutcomeInit == Init /\ was = None

OutcomeNext ==
    /\ Next
    /\ was' = IF call.at \in Ends /\ call'.at \notin Ends
              THEN Entry(plan[1].key)
              ELSE IF call'.at \in Ends THEN None ELSE was

OutcomeSpec == OutcomeInit /\ [][OutcomeNext]_<<vars, was>>

\* A call that succeeds leaves what Done says.  One that fails, or that the
\* agent does not live to answer, leaves what Done, Denied or Broken say: the
\* first because a caller may miss the answer to a call that succeeded.
OutcomesAsAssumed ==
    [][call.at \notin Ends /\ call'.at \in Ends =>
       \E s \in {call.key[1]} :
          World(s)' \in Node!Done(Mutation, Before(s)) \cup
                        IF call'.at = "done" THEN {}
                        ELSE Node!Denied(Mutation, Before(s)) \cup Node!Broken(Mutation, Before(s))
      ]_<<vars, was>>
=============================================================================
