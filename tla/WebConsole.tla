----------------------------- MODULE WebConsole -----------------------------
(***************************************************************************)
(* The console's tab with the log panel of the page it shows: the sheet of *)
(* the fleet's page, and the panel of a workspace's settings.              *)
(***************************************************************************)
EXTENDS Pages, LogStream

vars == <<serverVars, pageVars, inviteVars, gate, cache, auth, req, era, left, wizard, logVars>>
consoleVars == <<serverVars, pageVars, inviteVars, gate, cache, auth, req, era, wizard>>

\* The panel on the screen: the sheet's is about a row, the settings' is
\* mounted anew for each status (its key).
PanelKey ==
    IF ~Inside THEN NoPanel
    ELSE IF over.what = "logs" THEN <<"sheet", over.row>>
    ELSE IF path = "settings" /\ left.panel /\ Has(Instance(at))
    THEN <<"settings", at, Status(Instance(at), at)>>
    ELSE NoPanel

\* Every step of the tab takes the panel along; a new document leaves it too.
PanelFollows == IF PanelKey' = panel.key THEN UNCHANGED logVars ELSE Switches(PanelKey')

Tab == NextPages /\ PanelFollows

\* What the panel and the server's responses do by themselves.
Logs ==
    /\ \/ Reconnects /\ UNCHANGED left
       \/ \E c \in Slots :
            /\ \/ OpensLogs(c) \/ RefusesLogs(c) \/ SendsLine(c) \/ EndsLogs(c) \/ SeesClose(c)
            /\ UNCHANGED left
       \/ \E c \in Slots :
            (FailsLogs(c) \/ CutsOff(c) \/ LosesStream(c)) /\ Spend("fail")
    /\ UNCHANGED consoleVars

Init == InitConsole /\ InitLogs
Next == Tab \/ Logs

\* What fetches the page on the screen and the session: the network answers,
\* the timers of the polls fire.  Users, other tabs, failures and drifting
\* containers do nothing they must do.
Fetches(k) == Served(k) \/ Arrives(k) \/ Polls(k)
Fairness == WF_cache(\E k \in {Session} \cup Polled : Fetches(k))

Spec == Init /\ [][Next]_vars /\ Fairness

TypeOK == WizardType /\ LogTypeOK

=============================================================================
