----------------------------- MODULE LogStream ------------------------------
(***************************************************************************)
(* The log panel (components/log-panel.tsx), its EventSource, and the      *)
(* server's log responses (http/log-stream.ts), each of which reads a      *)
(* stream of Docker's.  The EventSource is the browser's: it connects      *)
(* again when a response breaks, and gives up on an answer that is not a   *)
(* stream.                                                                 *)
(*                                                                         *)
(* What the server sends is heard at once; that the client is gone is      *)
(* noticed later.                                                          *)
(***************************************************************************)
EXTENDS Naturals

CONSTANTS MaxStreams,  \* bound: responses at one time
          NoPanel      \* no panel is mounted

Slots == 1..MaxStreams
MaxErrors == 3

VARIABLES stream,  \* the responses: "free", "opening" (openLogs is awaited), "sending"
          panel    \* its key, state, errors, the response it reads, a retry to come

logVars == <<stream, panel>>

Free == [st |-> "free", gone |-> FALSE, closed |-> FALSE]
NoOne == [key |-> NoPanel, state |-> "none", errors |-> 0, reads |-> 0, retry |-> FALSE]

LogTypeOK ==
    /\ stream \in [Slots -> [st : {"free", "opening", "sending"}, gone : BOOLEAN,
                             closed : BOOLEAN]]
    /\ panel.state \in {"none", "connecting", "live", "ended", "failed"}
    /\ panel.errors \in 0..MaxErrors + 1 /\ panel.reads \in {0} \cup Slots
    /\ panel.retry \in BOOLEAN

InitLogs == stream = [c \in Slots |-> Free] /\ panel = NoOne

-----------------------------------------------------------------------------
(* The panel.                                                              *)

Left(s) == IF panel.reads = 0 THEN s ELSE [s EXCEPT ![panel.reads].gone = TRUE]

\* The effect of the panel: the clean-up of the former key closes its
\* EventSource, a new key opens one.
Switches(key) ==
    IF key = NoPanel THEN panel' = NoOne /\ stream' = Left(stream)
    ELSE \E c \in Slots :
      /\ stream[c].st = "free" /\ \A d \in Slots : d < c => stream[d].st # "free"
      /\ panel' = [key |-> key, state |-> "connecting", errors |-> 0, reads |-> c,
                   retry |-> FALSE]
      /\ stream' = [Left(stream) EXCEPT ![c].st = "opening"]

Reconnects ==
    /\ panel.retry
    /\ \E c \in Slots :
         /\ stream[c].st = "free" /\ \A d \in Slots : d < c => stream[d].st # "free"
         /\ panel' = [panel EXCEPT !.reads = c, !.retry = FALSE]
         /\ stream' = [stream EXCEPT ![c].st = "opening"]

\* onerror, n times over: at MaxErrors the panel closes its EventSource.
Errs(n, retries) ==
    LET count == panel.errors + n IN
      panel' = [panel EXCEPT
          !.errors = count, !.reads = 0, !.retry = retries /\ count < MaxErrors,
          !.state = IF count >= MaxErrors THEN "failed" ELSE @]

\* What the reader of response c makes of it, if there still is one.
Hears(c, what) == IF panel.reads = c THEN what ELSE UNCHANGED panel

-----------------------------------------------------------------------------
(* The responses.                                                          *)

\* Slip: nobody looks whether the client has gone while the logs were opened.
OpensBlindly(c) ==
    /\ stream[c].st = "opening"
    /\ stream' = [stream EXCEPT ![c].st = "sending"]
    /\ Hears(c, panel' = [panel EXCEPT !.state = "live"])

\* openLogs has answered: a request that was closed meanwhile has its stream
\* destroyed, any other is taken over and told so.
OpensLogs(c) ==
    /\ stream[c].st = "opening"
    /\ stream' = [stream EXCEPT ![c] =
                    IF @.closed THEN Free ELSE [@ EXCEPT !.st = "sending"]]
    /\ Hears(c, panel' = [panel EXCEPT !.state = "live"])

\* 401, 404, 409 or 502: the EventSource does not try again.
RefusesLogs(c) ==
    /\ stream[c].st = "opening"
    /\ stream' = [stream EXCEPT ![c] = Free]
    /\ Hears(c, Errs(1, FALSE))

SendsLine(c) ==
    /\ stream[c].st = "sending"
    /\ Hears(c, panel' = [panel EXCEPT !.errors = 0, !.state = "live"])
    /\ UNCHANGED stream

\* The container's logs are over: "end", then the response; the panel closes
\* its EventSource before that one would connect again.
EndsLogs(c) ==
    /\ stream[c].st = "sending"
    /\ stream' = [stream EXCEPT ![c] = Free]
    /\ Hears(c, panel' = [panel EXCEPT !.state = "ended", !.reads = 0])

\* Docker's stream fails: the event "error" and the broken response are two
\* errors to the panel.
FailsLogs(c) ==
    /\ stream[c].st = "sending"
    /\ stream' = [stream EXCEPT ![c] = Free]
    /\ Hears(c, Errs(2, TRUE))

\* 4 MB sent, or 1 MB waiting: the response is destroyed.
CutsOff(c) ==
    /\ stream[c].st = "sending"
    /\ stream' = [stream EXCEPT ![c] = Free]
    /\ Hears(c, Errs(1, TRUE))

\* The network between the two: the client notices first.
LosesStream(c) ==
    /\ panel.reads = c /\ stream[c].st # "free"
    /\ stream' = [stream EXCEPT ![c].gone = TRUE]
    /\ Errs(1, TRUE)

\* "close" on the response: cleanup, once the logs are being sent.
SeesClose(c) ==
    /\ stream[c].gone /\ ~stream[c].closed
    /\ stream' = [stream EXCEPT ![c] =
                    IF @.st = "sending" THEN Free ELSE [@ EXCEPT !.closed = TRUE]]
    /\ UNCHANGED panel

-----------------------------------------------------------------------------
(* A stream of Docker's is read for the response that the panel on the     *)
(* screen reads, or for one whose end the server has yet to notice: never  *)
(* for a client known to have gone, nor for a panel that was closed        *)
(* (log-stream.ts: "or the connection leaks"; logs-sheet.tsx: "no          *)
(* connection is left in the background").                                 *)
NoOrphanStream ==
    \A c \in Slots :
      stream[c].st = "sending" => ~stream[c].closed /\ (stream[c].gone \/ panel.reads = c)

=============================================================================
