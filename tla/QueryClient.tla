---------------------------- MODULE QueryClient -----------------------------
(***************************************************************************)
(* One entry of the console's query cache (@tanstack/react-query 5) as     *)
(* main.tsx configures it: no retry, no refetch when the window is focused *)
(* again.  The library is outside the repository: these operators are what *)
(* the pages rely on when they mount a query, poll it, invalidate it, set  *)
(* it or clear the cache.                                                  *)
(*                                                                         *)
(* A fetch is "sent", then "read" (the server has answered: the answer is  *)
(* on its way) or "refused" (401, 403, 404), then idle again.              *)
(***************************************************************************)
CONSTANT NoData  \* no value: a query that has never been answered

Blank == [data |-> NoData, fetch |-> "idle", as |-> NoData, answer |-> NoData,
          old |-> FALSE, failed |-> FALSE,
          late |-> FALSE,  \* history: the answer was asked for before an invalidation
          owed |-> 0]      \* history: the version the user's own changes have reached

Idle(e) == e.fetch = "idle"

\* isPending: nothing to show yet, and no error either.
Waiting(e) == e.data = NoData /\ ~Idle(e)

\* The request leaves with the cookie the browser holds now.  An error that
\* hides no data is forgotten.
Sent(e, who) ==
    [e EXCEPT !.fetch = "sent", !.as = who, !.answer = NoData, !.late = FALSE,
              !.failed = @ /\ e.data # NoData]

\* A new observer: a fetch under way is shared, fresh data is kept.
Mount(e, who) ==
    IF Idle(e) /\ (e.data = NoData \/ e.old) THEN Sent(e, who) ELSE e

Poll(e, who) == IF Idle(e) THEN Sent(e, who) ELSE e

\* invalidateQueries refetches what somebody watches.  A fetch under way is
\* abandoned for a new one, unless it is the first: that one is kept.
Restarts(e, watched) == watched /\ (Idle(e) \/ e.data # NoData)

Invalidate(e, watched, who) ==
    LET f == IF e = Blank THEN e ELSE [e EXCEPT !.old = TRUE]
    IN  IF Restarts(e, watched) THEN Sent(f, who)
        ELSE [f EXCEPT !.late = ~Idle(e)]

Read(e, answer) == [e EXCEPT !.fetch = "read", !.answer = answer]
Refuse(e) == [e EXCEPT !.fetch = "refused"]

\* Without a staleTime an answer is stale from the start.
Arrived(e, lasting) ==
    [Blank EXCEPT !.data = e.answer, !.old = ~lasting, !.late = e.late, !.owed = e.owed]

Failed(e) ==
    [e EXCEPT !.fetch = "idle", !.as = NoData, !.answer = NoData, !.failed = TRUE]

\* setQueryData leaves a fetch under way alone.
SetData(e, data) == [e EXCEPT !.data = data, !.old = FALSE, !.failed = FALSE]

=============================================================================
