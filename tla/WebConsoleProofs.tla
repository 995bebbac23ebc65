-------------------------- MODULE WebConsoleProofs --------------------------
(***************************************************************************)
(* Proofs about WebConsole, for any accounts, workspaces, domains and       *)
(* scenes.  Each property has an inductive invariant of its own, about the  *)
(* part of the tab it speaks of; no part but the wizard's own steps touches  *)
(* the wizard, and none but a new panel touches the log panel from outside.  *)
(***************************************************************************)
EXTENDS WebConsole, SequenceTheorems, TLAPS

-----------------------------------------------------------------------------
(* The wizard.                                                             *)

\* A waiver is given for the input on the screen; a probe that counts as good
\* was good for it.
WaiverIsCurrent == wizard.override => wizard.waived
VerdictIsCurrent == Probe = "ok" => wizard.verdict = "ok"

WizardInv == WizardType /\ WaiverIsCurrent /\ VerdictIsCurrent /\ SetupSendsChecked

WizardSteps ==
    \/ \E i \in Inputs : Type(i)
    \/ ProbeLeaves \/ ProbeAnswers \/ Waive \/ Submit \/ SubmitAnswers

LEMMA InitWizard == Init => WizardInv
  <1> SUFFICES ASSUME Init PROVE WizardInv
    OBVIOUS
  <1>1. PICK t \in BOOLEAN : wizard = BlankWizard(t)
    BY DEF Init, InitConsole
  <1>2. QED
    BY <1>1, DomainsAssumption
    DEF BlankWizard, WizardInv, WizardType, WaiverIsCurrent, VerdictIsCurrent,
        SetupSendsChecked, Inputs, Probe, ShapeOk

LEMMA StepWizard == ASSUME WizardInv, WizardSteps PROVE WizardInv'
  <1> USE DEF WizardInv, WaiverIsCurrent, VerdictIsCurrent, SetupSendsChecked
  <1>1. ASSUME NEW i \in Inputs, Type(i) PROVE WizardInv'
    <2>1. WizardType'
      BY <1>1 DEF WizardType, Type, Inputs
    <2>2. Probe' # "ok"
      BY <1>1 DEF WizardType, Type, Probe, ShapeOk
    <2>3. QED
      BY <1>1, <2>1, <2>2 DEF WizardType, Type
  <1>2. ASSUME ProbeLeaves PROVE WizardInv'
    BY <1>2 DEF WizardType, ProbeLeaves, Probe, ShapeOk
  <1>3. ASSUME ProbeAnswers PROVE WizardInv'
    <2>1. PICK state \in {"ok", "missing", "error"} :
            wizard' = [wizard EXCEPT !.probe = "off",
                                     !.result = [key |-> wizard.input, state |-> state],
                                     !.verdict = state]
      BY <1>3 DEF ProbeAnswers
    <2>2. WizardType'
      BY <2>1 DEF WizardType
    <2>3. /\ wizard'.verdict = state /\ wizard'.result.state = state
          /\ wizard'.result.key = wizard'.input
          /\ wizard'.override = wizard.override /\ wizard'.waived = wizard.waived
          /\ wizard'.submit = wizard.submit /\ wizard'.checked = wizard.checked
      BY <2>1 DEF WizardType
    <2>4. QED
      BY <2>2, <2>3 DEF Probe
  <1>4. ASSUME Waive PROVE WizardInv'
    BY <1>4 DEF WizardType, Waive, Probe, ShapeOk
  <1>5. ASSUME Submit PROVE WizardInv'
    <2>1. wizard.verdict = "ok" \/ wizard.waived
      BY <1>5 DEF Submit, Blocked
    <2>2. QED
      BY <1>5, <2>1 DEF WizardType, Submit, Probe, ShapeOk
  <1>6. ASSUME SubmitAnswers PROVE WizardInv'
    BY <1>6 DEF WizardType, SubmitAnswers, Probe, ShapeOk
  <1>7. QED
    BY <1>1, <1>2, <1>3, <1>4, <1>5, <1>6 DEF WizardSteps

\* Nothing else in the tab touches the wizard.
LEMMA OnlyWizard == ASSUME Next PROVE WizardSteps \/ UNCHANGED wizard
  <1>1. CASE Logs
    BY <1>1 DEF Logs, consoleVars
  <1>2. CASE NextConsole
    <2>1. CASE AppStarts \/ WizardOpens
      BY <2>1 DEF AppStarts, WizardOpens
    <2>2. CASE Wizard
      BY <2>2 DEF Wizard, WizardSteps
    <2>3. ASSUME NEW k \in Keys, Served(k) \/ Arrives(k) \/ Drops(k) PROVE UNCHANGED wizard
      BY <2>3 DEF Served, Arrives, Drops
    <2>4. CASE SessionAges \/ SessionChanges
      BY <2>4 DEF SessionAges, SessionChanges
    <2>5. ASSUME NEW p \in People, AskSignIn(p) PROVE UNCHANGED wizard
      BY <2>5 DEF AskSignIn
    <2>6. CASE AskAccept \/ AskSignOut \/ ServeAuth \/ AuthFails
      BY <2>6 DEF AskAccept, AskSignOut, ServeAuth, AuthFails
    <2>7. CASE AuthAnswered
      BY <2>7 DEF AuthAnswered, SignInAnswered, AcceptAnswered, SignInAfterAnswered, SignOutAnswered
    <2>8. ASSUME NEW p, NEW r, Move(p, r) \/ Reload(p, r) PROVE UNCHANGED wizard
      BY <2>8 DEF Move, Reload
    <2>9. QED
      BY <1>2, <2>1, <2>2, <2>3, <2>4, <2>5, <2>6, <2>7, <2>8 DEF NextConsole
  <1>3. ASSUME NEW kind, NEW r, OpenDialog(kind, r) \/ Ask(kind, r) \/ OpenSheet(kind, r)
        PROVE  UNCHANGED wizard
    BY <1>3 DEF OpenDialog, Ask, OpenSheet, Opens
  <1>4. CASE OpenMenu \/ CloseOver \/ PullSettles \/ WorkspaceOpens
    BY <1>4 DEF OpenMenu, CloseOver, Opens, PullSettles, WorkspaceOpens
  <1>5. ASSUME NEW n, Carries(n) \/ Refuses(n) \/ Answered(n) \/ AskFails(n)
        PROVE  UNCHANGED wizard
    BY <1>5 DEF Carries, Refuses, Answered, AskFails
  <1>6. ASSUME NEW k, Polls(k) PROVE UNCHANGED wizard
    BY <1>6 DEF Polls
  <1>7. ASSUME NEW r, Drifts(r) \/ Provisioned(r) PROVE UNCHANGED wizard
    BY <1>7 DEF Drifts, Provisioned
  <1>8. QED
    BY <1>1, <1>2, <1>3, <1>4, <1>5, <1>6, <1>7 DEF Next, Tab, NextPages

LEMMA WizardAlways == Spec => []WizardInv
  <1>1. Init => WizardInv
    BY InitWizard
  <1>2. WizardInv /\ [Next]_vars => WizardInv'
    <2> SUFFICES ASSUME WizardInv, [Next]_vars PROVE WizardInv'
      OBVIOUS
    <2>1. CASE WizardSteps
      BY <2>1, StepWizard
    <2>2. CASE UNCHANGED wizard
      BY <2>2 DEF WizardInv, WizardType, WaiverIsCurrent, VerdictIsCurrent, SetupSendsChecked,
         Probe, ShapeOk
    <2>3. QED
      BY <2>1, <2>2, OnlyWizard DEF vars
  <1>3. QED
    BY <1>1, <1>2, PTL DEF Spec

\* SetupPage: nothing is submitted that the probe has not approved, and the
\* user has not waived, since it was typed.
THEOREM OnlyCheckedIsSent == Spec => []SetupSendsChecked
  <1>1. WizardInv => SetupSendsChecked
    BY DEF WizardInv
  <1>2. QED
    BY <1>1, WizardAlways, PTL

-----------------------------------------------------------------------------
(* The log panel.                                                          *)

StreamShape == [st : {"free", "opening", "sending"}, gone : BOOLEAN, closed : BOOLEAN]

PanelShape(key) ==
    [key : {key}, state : {"none", "connecting", "live", "ended", "failed"},
     errors : 0..MaxErrors + 1, reads : {0} \cup Slots, retry : BOOLEAN]

\* A free slot is blank; a response whose end has been noticed is one that was
\* closed while its logs were being opened.
SlotsAreSane ==
    \A c \in Slots :
      /\ stream[c].st = "free" => ~stream[c].gone /\ ~stream[c].closed
      /\ stream[c].closed => stream[c].gone /\ stream[c].st = "opening"

\* The panel reads a response that there is and has not left it; it tries again
\* only when it reads none, and not once it has given up.
PanelIsSane ==
    /\ panel.reads # 0 => stream[panel.reads].st # "free" /\ ~stream[panel.reads].gone
    /\ panel.retry => panel.reads = 0
    /\ panel.reads # 0 \/ panel.retry => panel.errors < MaxErrors

\* Any response is read by the panel, or its client is gone.
EveryResponseIsRead ==
    \A c \in Slots : stream[c].st # "free" => stream[c].gone \/ panel.reads = c

LogInv ==
    /\ stream \in [Slots -> StreamShape] /\ panel \in PanelShape(panel.key)
    /\ SlotsAreSane /\ PanelIsSane /\ EveryResponseIsRead

LogSteps ==
    \/ \E key : Switches(key)
    \/ Reconnects
    \/ \E c \in Slots :
         \/ OpensLogs(c) \/ RefusesLogs(c) \/ SendsLine(c) \/ EndsLogs(c) \/ SeesClose(c)
         \/ FailsLogs(c) \/ CutsOff(c) \/ LosesStream(c)

LEMMA OnlyLogs == ASSUME Next PROVE LogSteps \/ UNCHANGED logVars
  BY DEF Next, Tab, PanelFollows, Logs, LogSteps

LEMMA InitLog == Init => LogInv
  BY DEF Init, InitLogs, LogInv, StreamShape, PanelShape, Free, NoOne, SlotsAreSane,
     PanelIsSane, EveryResponseIsRead, MaxErrors, Slots

LEMMA SwitchesInv == ASSUME LogInv, NEW key, Switches(key) PROVE LogInv'
  <1> USE DEF LogInv
  <1>0. /\ stream \in [Slots -> StreamShape] /\ panel \in PanelShape(panel.key)
        /\ panel.reads \in {0} \cup Slots /\ 0 \notin Slots
    BY DEF PanelShape, Slots
  <1>1. /\ Left(stream) \in [Slots -> StreamShape]
        /\ \A c \in Slots : /\ Left(stream)[c].st = stream[c].st
                            /\ Left(stream)[c].closed = stream[c].closed
                            /\ Left(stream)[c].gone <=> stream[c].gone \/ c = panel.reads
    BY <1>0 DEF Left, StreamShape
  <1>2. CASE key = NoPanel
    <2>1. stream' = Left(stream) /\ panel' = NoOne
      BY <1>2 DEF Switches
    <2>2. panel' \in PanelShape(panel'.key) /\ panel'.reads = 0 /\ ~panel'.retry
      BY <2>1 DEF NoOne, PanelShape, MaxErrors
    <2>3. SlotsAreSane'
      BY <1>0, <1>1, <2>1 DEF SlotsAreSane, PanelIsSane
    <2>4. PanelIsSane' /\ EveryResponseIsRead'
      BY <1>1, <2>1, <2>2 DEF PanelIsSane, EveryResponseIsRead
    <2>5. QED
      BY <1>1, <2>1, <2>2, <2>3, <2>4
  <1>3. CASE key # NoPanel
    <2>1. PICK c \in Slots :
            /\ stream[c].st = "free"
            /\ panel' = [key |-> key, state |-> "connecting", errors |-> 0, reads |-> c,
                         retry |-> FALSE]
            /\ stream' = [Left(stream) EXCEPT ![c].st = "opening"]
      BY <1>3 DEF Switches
    <2>2. panel' \in PanelShape(panel'.key) /\ panel'.reads = c /\ ~panel'.retry
          /\ panel'.errors = 0
      BY <2>1 DEF PanelShape, MaxErrors
    <2>3. /\ stream' \in [Slots -> StreamShape]
          /\ stream'[c] = [Left(stream)[c] EXCEPT !.st = "opening"]
          /\ \A d \in Slots \ {c} : stream'[d] = Left(stream)[d]
      BY <1>1, <2>1 DEF StreamShape
    <2>4. /\ stream'[c].st = "opening"
          /\ stream'[c].gone = Left(stream)[c].gone
          /\ stream'[c].closed = Left(stream)[c].closed
      BY <1>1, <2>3 DEF StreamShape
    <2>5. c # panel.reads
      BY <1>0, <2>1 DEF PanelIsSane
    <2>6. SlotsAreSane'
      <3>1. ~stream'[c].gone /\ ~stream'[c].closed
        BY <1>1, <2>1, <2>4, <2>5 DEF SlotsAreSane
      <3>2. ASSUME NEW d \in Slots \ {c}
            PROVE  /\ stream'[d].st = "free" => ~stream'[d].gone /\ ~stream'[d].closed
                   /\ stream'[d].closed => stream'[d].gone /\ stream'[d].st = "opening"
        BY <1>0, <1>1, <2>3 DEF SlotsAreSane, PanelIsSane
      <3>3. QED
        BY <2>4, <3>1, <3>2 DEF SlotsAreSane
    <2>7. PanelIsSane'
      <3>1. ~stream'[c].gone
        BY <1>1, <2>1, <2>4, <2>5 DEF SlotsAreSane
      <3>2. QED
        BY <2>2, <2>4, <3>1 DEF PanelIsSane, MaxErrors
    <2>8. EveryResponseIsRead'
      BY <1>1, <2>1, <2>2, <2>3 DEF EveryResponseIsRead
    <2>9. QED
      BY <2>2, <2>3, <2>6, <2>7, <2>8
  <1>4. QED
    BY <1>2, <1>3

\* An error ends the reading; the panel tries again while it may.
LEMMA ErrsShape ==
  ASSUME LogInv, panel.reads # 0, Errs(1, FALSE) \/ Errs(1, TRUE) \/ Errs(2, TRUE)
  PROVE  /\ panel' \in PanelShape(panel'.key)
         /\ panel'.reads = 0
         /\ panel'.retry => panel'.errors < MaxErrors
  <1>1. /\ panel \in PanelShape(panel.key) /\ panel.errors \in 0..2
        /\ panel.state \in {"none", "connecting", "live", "ended", "failed"}
    BY DEF LogInv, PanelIsSane, PanelShape, MaxErrors
  <1>2. /\ panel'.key = panel.key /\ panel'.reads = 0
        /\ panel' \in PanelShape(panel.key)
        /\ panel'.retry => panel'.errors < MaxErrors
    <2>1. CASE Errs(1, FALSE)
      <3>1. panel' = [panel EXCEPT !.errors = panel.errors + 1, !.reads = 0, !.retry = FALSE,
                        !.state = IF panel.errors + 1 >= MaxErrors THEN "failed" ELSE @]
        BY <2>1 DEF Errs
      <3>2. /\ panel.errors + 1 \in 0..MaxErrors + 1
            /\ (panel.errors + 1 < MaxErrors) \in BOOLEAN
            /\ (IF panel.errors + 1 >= MaxErrors THEN "failed" ELSE panel.state)
                 \in {"none", "connecting", "live", "ended", "failed"}
        BY <1>1 DEF MaxErrors
      <3>3. QED
        BY <1>1, <3>1, <3>2 DEF PanelShape
    <2>2. CASE Errs(1, TRUE)
      <3>1. panel' = [panel EXCEPT !.errors = panel.errors + 1, !.reads = 0,
                        !.retry = (panel.errors + 1 < MaxErrors),
                        !.state = IF panel.errors + 1 >= MaxErrors THEN "failed" ELSE @]
        BY <2>2 DEF Errs
      <3>2. /\ panel.errors + 1 \in 0..MaxErrors + 1
            /\ (panel.errors + 1 < MaxErrors) \in BOOLEAN
            /\ (IF panel.errors + 1 >= MaxErrors THEN "failed" ELSE panel.state)
                 \in {"none", "connecting", "live", "ended", "failed"}
        BY <1>1 DEF MaxErrors
      <3>3. QED
        BY <1>1, <3>1, <3>2 DEF PanelShape
    <2>3. CASE Errs(2, TRUE)
      <3>1. panel' = [panel EXCEPT !.errors = panel.errors + 2, !.reads = 0,
                        !.retry = (panel.errors + 2 < MaxErrors),
                        !.state = IF panel.errors + 2 >= MaxErrors THEN "failed" ELSE @]
        BY <2>3 DEF Errs
      <3>2. /\ panel.errors + 2 \in 0..MaxErrors + 1
            /\ (panel.errors + 2 < MaxErrors) \in BOOLEAN
            /\ (IF panel.errors + 2 >= MaxErrors THEN "failed" ELSE panel.state)
                 \in {"none", "connecting", "live", "ended", "failed"}
        BY <1>1 DEF MaxErrors
      <3>3. QED
        BY <1>1, <3>1, <3>2 DEF PanelShape
    <2>4. QED
      BY <2>1, <2>2, <2>3
  <1>3. QED
    BY <1>2

\* A response is over, and whoever read it reads nothing now.
LEMMA FreesInv ==
  ASSUME LogInv, NEW c \in Slots, stream' = [stream EXCEPT ![c] = Free],
         panel' \in PanelShape(panel'.key),
         panel'.reads = IF panel.reads = c THEN 0 ELSE panel.reads,
         panel'.retry => panel'.reads = 0,
         panel'.reads # 0 \/ panel'.retry => panel'.errors < MaxErrors
  PROVE  LogInv'
  <1>0. stream \in [Slots -> StreamShape] /\ 0 \notin Slots /\ panel.reads \in {0} \cup Slots
    BY DEF LogInv, Slots, PanelShape
  <1>1. /\ stream' \in [Slots -> StreamShape] /\ stream'[c] = Free
        /\ \A d \in Slots \ {c} : stream'[d] = stream[d]
    BY <1>0 DEF Free, StreamShape
  <1>2. SlotsAreSane'
    BY <1>1 DEF LogInv, SlotsAreSane, Free
  <1>3. PanelIsSane'
    BY <1>0, <1>1 DEF LogInv, PanelIsSane
  <1>4. EveryResponseIsRead'
    BY <1>0, <1>1 DEF LogInv, EveryResponseIsRead, Free
  <1>5. QED
    BY <1>1, <1>2, <1>3, <1>4 DEF LogInv

LEMMA StepLog == ASSUME LogInv, LogSteps PROVE LogInv'
  <1>0. /\ stream \in [Slots -> StreamShape] /\ panel \in PanelShape(panel.key)
        /\ panel.reads \in {0} \cup Slots /\ 0 \notin Slots
        /\ panel.errors \in 0..MaxErrors + 1 /\ panel.retry \in BOOLEAN
    BY DEF LogInv, PanelShape, Slots
  <1>q. ASSUME UNCHANGED panel
        PROVE  /\ panel' \in PanelShape(panel'.key) /\ panel'.reads = panel.reads
               /\ panel'.retry => panel'.reads = 0
               /\ panel'.reads # 0 \/ panel'.retry => panel'.errors < MaxErrors
    BY <1>0, <1>q DEF LogInv, PanelIsSane
  <1>e. ASSUME NEW c \in Slots, stream' = [stream EXCEPT ![c] = Free],
               IF panel.reads = c THEN Errs(1, FALSE) \/ Errs(1, TRUE) \/ Errs(2, TRUE)
               ELSE UNCHANGED panel
        PROVE  LogInv'
    <2>1. CASE panel.reads = c
      BY <1>0, <1>e, <2>1, ErrsShape, FreesInv
    <2>2. CASE panel.reads # c
      BY <1>e, <1>q, <2>2, FreesInv
    <2>3. QED
      BY <2>1, <2>2
  <1>1. ASSUME NEW key, Switches(key) PROVE LogInv'
    BY <1>1, SwitchesInv
  <1>2. ASSUME Reconnects PROVE LogInv'
    <2>1. PICK c \in Slots :
            /\ stream[c].st = "free"
            /\ panel' = [panel EXCEPT !.reads = c, !.retry = FALSE]
            /\ stream' = [stream EXCEPT ![c].st = "opening"]
      BY <1>2 DEF Reconnects
    <2>2. panel.retry /\ panel.reads = 0 /\ panel.errors < MaxErrors
      BY <1>2 DEF Reconnects, LogInv, PanelIsSane
    <2>3. /\ panel' \in PanelShape(panel'.key) /\ panel'.reads = c /\ ~panel'.retry
          /\ panel'.errors < MaxErrors
      BY <1>0, <2>1, <2>2 DEF PanelShape
    <2>4. /\ stream' \in [Slots -> StreamShape] /\ stream'[c].st = "opening"
          /\ stream'[c].gone = stream[c].gone /\ stream'[c].closed = stream[c].closed
          /\ \A d \in Slots \ {c} : stream'[d] = stream[d]
      BY <1>0, <2>1 DEF StreamShape
    <2>5. SlotsAreSane'
      BY <2>1, <2>4 DEF LogInv, SlotsAreSane
    <2>6. PanelIsSane'
      BY <2>1, <2>3, <2>4 DEF PanelIsSane, LogInv, SlotsAreSane
    <2>7. EveryResponseIsRead'
      BY <2>2, <2>3, <2>4, <1>0 DEF LogInv, EveryResponseIsRead
    <2>8. QED
      BY <2>3, <2>4, <2>5, <2>6, <2>7 DEF LogInv
  <1>3. ASSUME NEW c \in Slots, OpensLogs(c) PROVE LogInv'
    <2>p. /\ panel' \in PanelShape(panel'.key) /\ panel'.reads = panel.reads
          /\ panel'.retry = panel.retry /\ panel'.errors = panel.errors
      BY <1>0, <1>3 DEF OpensLogs, Hears, PanelShape
    <2>1. CASE stream[c].closed
      <3>1. stream' = [stream EXCEPT ![c] = Free] /\ panel.reads # c
        BY <1>0, <1>3, <2>1 DEF OpensLogs, LogInv, SlotsAreSane, PanelIsSane
      <3>2. QED
        BY <2>p, <3>1, FreesInv DEF LogInv, PanelIsSane
    <2>2. CASE ~stream[c].closed
      <3>1. /\ stream[c].st = "opening" /\ stream'[c] = [stream[c] EXCEPT !.st = "sending"]
            /\ \A d \in Slots \ {c} : stream'[d] = stream[d]
        BY <1>0, <1>3, <2>2 DEF OpensLogs
      <3>2. /\ stream' \in [Slots -> StreamShape] /\ stream'[c].st = "sending"
            /\ stream'[c].gone = stream[c].gone /\ ~stream'[c].closed
        BY <1>0, <1>3, <2>2, <3>1 DEF OpensLogs, StreamShape
      <3>3. SlotsAreSane'
        BY <3>1, <3>2 DEF LogInv, SlotsAreSane
      <3>4. PanelIsSane' /\ EveryResponseIsRead'
        BY <1>0, <2>p, <3>1, <3>2 DEF LogInv, PanelIsSane, EveryResponseIsRead
      <3>5. QED
        BY <2>p, <3>2, <3>3, <3>4 DEF LogInv
    <2>3. QED
      BY <2>1, <2>2
  <1>4. ASSUME NEW c \in Slots, RefusesLogs(c) PROVE LogInv'
    BY <1>4, <1>e DEF RefusesLogs, Hears
  <1>5. ASSUME NEW c \in Slots, SendsLine(c) PROVE LogInv'
    <2>1. /\ panel' \in PanelShape(panel'.key) /\ panel'.reads = panel.reads
          /\ panel'.retry = panel.retry
          /\ panel'.errors = panel.errors \/ panel'.errors = 0
          /\ UNCHANGED stream
      <3>1. panel' = panel \/ panel' = [panel EXCEPT !.errors = 0, !.state = "live"]
        BY <1>5 DEF SendsLine, Hears
      <3>2. UNCHANGED stream
        BY <1>5 DEF SendsLine
      <3>3. CASE panel' = panel
        BY <1>0, <3>2, <3>3
      <3>4. CASE panel' = [panel EXCEPT !.errors = 0, !.state = "live"]
        <4>1. panel.key = panel'.key /\ panel' \in PanelShape(panel.key)
          <5>1. 0 \in 0..MaxErrors + 1
            BY DEF MaxErrors
          <5>2. QED
            BY <1>0, <3>4, <5>1 DEF PanelShape
        <4>2. QED
          BY <1>0, <3>2, <3>4, <4>1 DEF PanelShape
      <3>5. QED
        BY <3>1, <3>3, <3>4
    <2>2. PanelIsSane'
      BY <1>0, <2>1 DEF LogInv, PanelIsSane, MaxErrors
    <2>3. QED
      BY <2>1, <2>2 DEF LogInv, SlotsAreSane, EveryResponseIsRead
  <1>6. ASSUME NEW c \in Slots, EndsLogs(c) PROVE LogInv'
    <2>1. CASE panel.reads = c
      <3>1. /\ panel' \in PanelShape(panel'.key) /\ panel'.reads = 0
            /\ panel'.retry = panel.retry
        BY <1>0, <1>6, <2>1 DEF EndsLogs, Hears, PanelShape
      <3>2. ~panel.retry
        BY <1>0, <2>1 DEF LogInv, PanelIsSane
      <3>3. QED
        BY <1>6, <2>1, <3>1, <3>2, FreesInv DEF EndsLogs
    <2>2. CASE panel.reads # c
      BY <1>6, <1>q, <2>2, FreesInv DEF EndsLogs, Hears
    <2>3. QED
      BY <2>1, <2>2
  <1>7. ASSUME NEW c \in Slots, FailsLogs(c) \/ CutsOff(c) PROVE LogInv'
    BY <1>7, <1>e DEF FailsLogs, CutsOff, Hears
  <1>8. ASSUME NEW c \in Slots, LosesStream(c) PROVE LogInv'
    <2>1. /\ panel.reads = c /\ stream[c].st # "free" /\ Errs(1, TRUE) /\ panel.reads # 0
          /\ stream' = [stream EXCEPT ![c].gone = TRUE]
      BY <1>0, <1>8 DEF LosesStream
    <2>2. /\ panel' \in PanelShape(panel'.key) /\ panel'.reads = 0
          /\ panel'.retry => panel'.errors < MaxErrors
      BY <2>1, ErrsShape
    <2>3. /\ stream' \in [Slots -> StreamShape] /\ stream'[c].st = stream[c].st
          /\ stream'[c].gone /\ stream'[c].closed = stream[c].closed
          /\ \A d \in Slots \ {c} : stream'[d] = stream[d]
      BY <1>0, <2>1 DEF StreamShape
    <2>4. SlotsAreSane' /\ PanelIsSane' /\ EveryResponseIsRead'
      BY <2>1, <2>2, <2>3 DEF LogInv, SlotsAreSane, PanelIsSane, EveryResponseIsRead
    <2>5. QED
      BY <2>2, <2>3, <2>4 DEF LogInv
  <1>9. ASSUME NEW c \in Slots, SeesClose(c) PROVE LogInv'
    <2>1. stream[c].gone /\ UNCHANGED panel /\ panel.reads # c /\ stream[c].st # "free"
      BY <1>0, <1>9 DEF SeesClose, LogInv, PanelIsSane, SlotsAreSane
    <2>2. CASE stream[c].st = "sending"
      BY <1>9, <1>q, <2>1, <2>2, FreesInv DEF SeesClose
    <2>3. CASE stream[c].st # "sending"
      <3>1. /\ stream'[c] = [stream[c] EXCEPT !.closed = TRUE]
            /\ \A d \in Slots \ {c} : stream'[d] = stream[d]
        BY <1>0, <1>9, <2>3 DEF SeesClose
      <3>2. /\ stream' \in [Slots -> StreamShape] /\ stream'[c].st = stream[c].st
            /\ stream'[c].gone /\ stream[c].st = "opening"
        BY <1>0, <1>9, <2>1, <2>3, <3>1 DEF SeesClose, StreamShape
      <3>3. SlotsAreSane' /\ PanelIsSane' /\ EveryResponseIsRead'
        BY <1>0, <2>1, <3>1, <3>2 DEF LogInv, SlotsAreSane, PanelIsSane, EveryResponseIsRead
      <3>4. QED
        BY <1>q, <2>1, <3>2, <3>3 DEF LogInv
    <2>4. QED
      BY <2>2, <2>3
  <1>10. QED
    BY <1>1, <1>2, <1>3, <1>4, <1>5, <1>6, <1>7, <1>8, <1>9 DEF LogSteps

LEMMA LogAlways == Spec => []LogInv
  <1>1. Init => LogInv
    BY InitLog
  <1>2. LogInv /\ [Next]_vars => LogInv'
    <2> SUFFICES ASSUME LogInv, [Next]_vars PROVE LogInv'
      OBVIOUS
    <2>1. CASE LogSteps
      BY <2>1, StepLog
    <2>2. CASE UNCHANGED logVars
      BY <2>2 DEF logVars, LogInv, SlotsAreSane, PanelIsSane, EveryResponseIsRead
    <2>3. QED
      BY <2>1, <2>2, OnlyLogs DEF vars
  <1>3. QED
    BY <1>1, <1>2, PTL DEF Spec

\* log-stream.ts: Docker's logs are read for the panel on the screen, or for
\* a client whose end the server has yet to notice; never for anybody else.
THEOREM NoStreamIsOrphan == Spec => []NoOrphanStream
  <1>1. LogInv => NoOrphanStream
    BY DEF LogInv, NoOrphanStream, SlotsAreSane, EveryResponseIsRead
  <1>2. QED
    BY <1>1, LogAlways, PTL

\* The wizard's form and probe, the log panel and the server's responses have
\* their types: the panel counts no more than one error past its limit.
THEOREM TypeCorrect == Spec => []TypeOK
  <1>1. WizardInv /\ LogInv => TypeOK
    <2> SUFFICES ASSUME WizardInv, LogInv PROVE TypeOK
      OBVIOUS
    <2>1. /\ panel.state \in {"none", "connecting", "live", "ended", "failed"}
          /\ panel.errors \in 0..MaxErrors + 1 /\ panel.reads \in {0} \cup Slots
          /\ panel.retry \in BOOLEAN
      BY DEF LogInv, PanelShape
    <2>2. QED
      BY <2>1 DEF WizardInv, LogInv, TypeOK, LogTypeOK, StreamShape
  <1>2. QED
    BY <1>1, WizardAlways, LogAlways, PTL

-----------------------------------------------------------------------------
(* The query cache.                                                        *)

\* A page of a workspace is the page of one.
Place(p, r) == p \in RowPages => r \in Rows

\* An entry of the cache, with nothing older than the sign-out numbered x.
Own(e, x) ==
    /\ {"data", "fetch", "as", "answer", "old", "failed", "late", "owed"} = DOMAIN e
    /\ e.data # NoData => e.data.era = x
    /\ e.answer # NoData => e.answer.era = x

OwnCache(c, x) ==
    /\ DOMAIN c = Keys
    /\ \A k \in Keys : Own(c[k], x)

LEMMA OwnBlank == ASSUME NEW x PROVE Own(Blank, x)
  BY DEF Own, Blank

LEMMA OwnSent == ASSUME NEW x, NEW e, NEW who, Own(e, x) PROVE Own(Sent(e, who), x)
  BY DEF Own, Sent

LEMMA OwnMount == ASSUME NEW x, NEW e, NEW who, Own(e, x) PROVE Own(Mount(e, who), x)
  BY OwnSent DEF Mount

LEMMA OwnPoll == ASSUME NEW x, NEW e, NEW who, Own(e, x) PROVE Own(Poll(e, who), x)
  BY OwnSent DEF Poll

LEMMA OwnInvalidate ==
  ASSUME NEW x, NEW e, NEW watched, NEW who, Own(e, x)
  PROVE  Own(Invalidate(e, watched, who), x)
  <1> DEFINE f == IF e = Blank THEN e ELSE [e EXCEPT !.old = TRUE]
  <1>1. Own(f, x)
    BY DEF Own
  <1>2. Own([f EXCEPT !.late = ~Idle(e)], x)
    BY <1>1 DEF Own
  <1>3. Own(Sent(f, who), x)
    BY <1>1, OwnSent
  <1> HIDE DEF f
  <1>4. Invalidate(e, watched, who) =
          IF Restarts(e, watched) THEN Sent(f, who) ELSE [f EXCEPT !.late = ~Idle(e)]
    BY DEF Invalidate, f
  <1>5. QED
    BY <1>2, <1>3, <1>4

LEMMA OwnRead ==
  ASSUME NEW x, NEW e, NEW answer, Own(e, x), answer.era = x
  PROVE  Own(Read(e, answer), x)
  BY DEF Own, Read

LEMMA OwnRefuse == ASSUME NEW x, NEW e, Own(e, x) PROVE Own(Refuse(e), x)
  BY DEF Own, Refuse

LEMMA OwnArrived == ASSUME NEW x, NEW e, NEW b, Own(e, x) PROVE Own(Arrived(e, b), x)
  BY DEF Own, Arrived, Blank

LEMMA OwnFailed == ASSUME NEW x, NEW e, Own(e, x) PROVE Own(Failed(e), x)
  BY DEF Own, Failed

LEMMA OwnSetData ==
  ASSUME NEW x, NEW e, NEW data, Own(e, x), data.era = x
  PROVE  Own(SetData(e, data), x)
  BY DEF Own, SetData

\* One entry of a cache gives way to another.
LEMMA OwnOneEntry ==
  ASSUME NEW x, NEW c, NEW k \in Keys, NEW e, OwnCache(c, x), Own(e, x)
  PROVE  OwnCache([c EXCEPT ![k] = e], x)
  BY DEF OwnCache

LEMMA OwnMountIn ==
  ASSUME NEW x, NEW c, NEW ks, NEW who, OwnCache(c, x)
  PROVE  OwnCache(MountIn(c, ks, who), x)
  BY OwnMount DEF OwnCache, MountIn

-----------------------------------------------------------------------------
(* Where the tab is, and what the screen shows.                            *)

\* The tab is on a page there is, leads back to one, and has the dialog of a
\* workspace open.
Placed ==
    /\ Place(path, at)
    /\ next # NoPage => Place(next[1], next[2])
    /\ {"op", "st", "who", "next"} = DOMAIN auth
    /\ auth.next # NoPage => Place(auth.next[1], auth.next[2])
    /\ {"what", "row"} = DOMAIN over
    /\ over.what \in {"image", "adminRollback"} => over.row \in Rows

OwnInv == Placed /\ OwnCache(cache, era)

\* What Shows makes of the document, said of the document it leads to.
Landing(c, p, r, who, q, s, o, m, d) ==
    /\ q \in {p, "login", "home"} /\ s = IF q = p THEN r ELSE NoRow
    /\ o \in {over, Nothing} /\ m \in {NoPage, <<p, r>>, next}
    /\ \E c1, ks : c1 \in {c, MountIn(c, {Session}, who)} /\ d = MountIn(c1, ks, who)

\* Nothing is watched that has no entry.
LEMMA WatchedIsKeys == OwnInv => Watched \subseteq Keys
  <1> SUFFICES ASSUME OwnInv, NEW k \in Watched PROVE k \in Keys
    OBVIOUS
  <1>1. OverKeys(over) \subseteq Keys
    BY DEF OwnInv, Placed, OverKeys, Keys, AdminKeys
  <1>2. PageKeys(cache, path, at) \subseteq Keys
    <2>1. CASE path \in RowPages
      <3>1. at \in Rows
        BY <2>1 DEF OwnInv, Placed, Place
      <3>2. {Instance(at), Image(at)} \subseteq Keys
        BY <3>1 DEF Keys, OfRow
      <3>3. PageKeys(cache, path, at) \subseteq {Instance(at), Image(at)}
        BY <2>1 DEF RowPages, PageKeys, InstanceDetailPage, OpenWorkspacePage, WorkspaceSettingsPage
      <3>4. QED
        BY <3>2, <3>3
    <2>2. CASE path \notin RowPages
      BY <2>2 DEF RowPages, PageKeys, HomePage, InstancesPage, ProfileCard, SessionsCard,
         AdminOverviewPage, AdminInstancesPage, AdminUsersPage, AdminVersionsPage, Keys, AdminKeys
    <2>3. QED
      BY <2>1, <2>2
  <1>3. QED
    BY <1>1, <1>2 DEF Watched, Keys

LEMMA ShownFromOwn == OwnInv => ShownIsOwn
  <1> SUFFICES ASSUME OwnInv, NEW k \in Watched
               PROVE  /\ cache[k].data # NoData => cache[k].data.era = era
                      /\ cache[k].answer # NoData => cache[k].answer.era = era
    BY DEF ShownIsOwn
  <1>1. k \in Keys
    BY WatchedIsKeys
  <1>2. QED
    BY <1>1 DEF OwnInv, OwnCache, Own

LEMMA InitOwn == Init => OwnInv
  <1> SUFFICES ASSUME Init PROVE OwnInv
    OBVIOUS
  <1>1. PICK s \in Scenes : path = s.path /\ at = s.at
    BY DEF Init, InitConsole
  <1>2. Place(path, at)
    BY <1>1, ScenesAssumption DEF Place
  <1>3. over = Nothing /\ next = NoPage /\ auth = NoAuth /\ cache = [k \in Keys |-> Blank]
    BY DEF Init, InitConsole
  <1>4. QED
    BY <1>2, <1>3, OwnBlank DEF OwnInv, Placed, OwnCache, Nothing, NoAuth

\* A document that starts anew holds nothing.
LEMMA LoadOwn ==
  ASSUME NEW p, NEW r, Place(p, r), Load(p, r)
  PROVE  OwnInv'
  BY OwnBlank DEF Load, OwnInv, Placed, OwnCache, Nothing, NoAuth

\* Going somewhere with a cache of one's own.
LEMMA LandingOwn ==
  ASSUME OwnInv, NEW c, OwnCache(c, era), NEW p, NEW r, Place(p, r), NEW who,
         Landing(c, p, r, who, path', at', over', next', cache'),
         era' = era, auth' \in {auth, NoAuth}
  PROVE  OwnInv'
  <1>1. PICK c1, ks : c1 \in {c, MountIn(c, {Session}, who)} /\ cache' = MountIn(c1, ks, who)
    BY DEF Landing
  <1>2. OwnCache(c1, era)
    BY <1>1, OwnMountIn
  <1>3. OwnCache(cache', era')
    BY <1>1, <1>2, OwnMountIn
  <1>4. Place(path', at') /\ (next' # NoPage => Place(next'[1], next'[2]))
    BY DEF Landing, OwnInv, Placed, Place, RowPages
  <1>5. /\ {"op", "st", "who", "next"} = DOMAIN auth'
        /\ auth'.next # NoPage => Place(auth'.next[1], auth'.next[2])
    BY DEF OwnInv, Placed, NoAuth
  <1>6. /\ {"what", "row"} = DOMAIN over'
        /\ over'.what \in {"image", "adminRollback"} => over'.row \in Rows
    BY DEF OwnInv, Placed, Landing, Nothing
  <1>7. QED
    BY <1>3, <1>4, <1>5, <1>6 DEF OwnInv, Placed

\* The cache alone is touched, at one entry.
LEMMA EntryOwn ==
  ASSUME OwnInv, NEW k \in Keys, NEW e, Own(e, era), cache' = [cache EXCEPT ![k] = e],
         UNCHANGED <<path, at, over, next, auth, era>>
  PROVE  OwnInv'
  BY OwnOneEntry DEF OwnInv, Placed

LEMMA GateOwn == ASSUME OwnInv, AppStarts \/ WizardOpens \/ Wizard PROVE OwnInv'
  <1>1. ASSUME AppStarts PROVE OwnInv'
    <2>1. Landing(cache, path, at, cookie, path', at', over', next', cache')
      BY <1>1 DEF AppStarts, Shows, Lands, Landing
    <2>2. QED
      BY <1>1, <2>1, LandingOwn DEF AppStarts, OwnInv, Placed
  <1>2. ASSUME WizardOpens \/ Wizard PROVE OwnInv'
    BY <1>2 DEF WizardOpens, Wizard, pageVars, OwnInv, Placed
  <1>3. QED
    BY <1>1, <1>2

LEMMA QueriesOwn ==
  ASSUME OwnInv, NEW k \in Keys, Served(k) \/ Arrives(k) \/ Drops(k) \/ Polls(k)
  PROVE  OwnInv'
  <1>0. Own(cache[k], era) /\ OwnCache(cache, era) /\ Place(path, at)
    BY DEF OwnInv, OwnCache, Placed
  <1>1. ASSUME Served(k) PROVE OwnInv'
    <2> DEFINE e == IF Answers(k) THEN Read(cache[k], Answer(k)) ELSE Refuse(cache[k])
    <2>1. Answer(k).era = era
      BY DEF Answer
    <2>2. Own(e, era)
      BY <1>0, <2>1, OwnRead, OwnRefuse
    <2>3. cache' = [cache EXCEPT ![k] = e]
      BY <1>1 DEF Served
    <2>4. UNCHANGED <<path, at, over, next, auth, era>>
      BY <1>1 DEF Served, pageVars
    <2> HIDE DEF e
    <2>5. QED
      BY <2>2, <2>3, <2>4, EntryOwn
  <1>2. ASSUME Arrives(k) PROVE OwnInv'
    <2> DEFINE e == IF cache[k].fetch = "read" THEN Arrived(cache[k], k = Session)
                    ELSE Failed(cache[k])
               c == [cache EXCEPT ![k] = e]
    <2>1. Own(e, era)
      BY <1>0, OwnArrived, OwnFailed
    <2>2. OwnCache(c, era)
      <3> HIDE DEF e
      <3>1. QED
        BY <1>0, <2>1, OwnOneEntry
    <2>3. Shows(c, path, at, cookie)
      BY <1>2 DEF Arrives
    <2> HIDE DEF c
    <2>4. Landing(c, path, at, cookie, path', at', over', next', cache')
      BY <2>3 DEF Shows, Lands, Landing
    <2>5. era' = era /\ auth' = auth
      BY <1>2 DEF Arrives
    <2>6. QED
      BY <1>0, <2>2, <2>4, <2>5, LandingOwn
  <1>3. ASSUME Drops(k) PROVE OwnInv'
    <2> DEFINE c == [cache EXCEPT ![k] = Failed(cache[k])]
    <2>1. OwnCache(c, era)
      BY <1>0, OwnFailed, OwnOneEntry
    <2>2. Shows(c, path, at, cookie)
      BY <1>3 DEF Drops
    <2> HIDE DEF c
    <2>3. Landing(c, path, at, cookie, path', at', over', next', cache')
      BY <2>2 DEF Shows, Lands, Landing
    <2>4. era' = era /\ auth' = auth
      BY <1>3 DEF Drops
    <2>5. QED
      BY <1>0, <2>1, <2>3, <2>4, LandingOwn
  <1>4. ASSUME Polls(k) PROVE OwnInv'
    BY <1>0, <1>4, EntryOwn, OwnPoll DEF Polls, pageVars
  <1>5. QED
    BY <1>1, <1>2, <1>3, <1>4

\* Nothing of all this is touched but the sign-in under way.
LEMMA AuthOwn ==
  ASSUME OwnInv, UNCHANGED <<path, at, over, next, cache, era>>,
         DOMAIN auth' = DOMAIN auth, auth'.next \in {auth.next, next}
  PROVE  OwnInv'
  BY DEF OwnInv, Placed

LEMMA SignsOwn ==
  ASSUME OwnInv,
         \/ \E p \in People : AskSignIn(p)
         \/ AskAccept \/ AskSignOut \/ ServeAuth \/ AuthAnswered \/ AuthFails
  PROVE  OwnInv'
  <1>0. /\ DOMAIN auth = {"op", "st", "who", "next"} /\ OwnCache(cache, era)
        /\ auth.next # NoPage => Place(auth.next[1], auth.next[2])
        /\ Place("home", NoRow)
    BY DEF OwnInv, Placed, Place, RowPages
  <1>1. ASSUME NEW p \in People, AskSignIn(p) PROVE OwnInv'
    <2>1. auth' = [op |-> "signIn", st |-> "sent", who |-> p, next |-> next]
      BY <1>1 DEF AskSignIn, Asks
    <2>2. QED
      BY <1>0, <1>1, <2>1, AuthOwn DEF AskSignIn, pageVars
  <1>2. ASSUME AskAccept PROVE OwnInv'
    <2>1. auth' = [op |-> "accept", st |-> "sent", who |-> Guest, next |-> next]
      BY <1>2 DEF AskAccept, Asks
    <2>2. QED
      BY <1>0, <1>2, <2>1, AuthOwn DEF AskAccept, pageVars
  <1>3. ASSUME AskSignOut PROVE OwnInv'
    <2>1. auth' = [op |-> "signOut", st |-> "sent", who |-> Nobody, next |-> next]
      BY <1>3 DEF AskSignOut, Asks
    <2>2. QED
      BY <1>0, <1>3, <2>1, AuthOwn DEF AskSignOut, pageVars
  <1>4. ASSUME ServeAuth PROVE OwnInv'
    <2>1. \E s : auth' = [auth EXCEPT !.st = s]
      BY <1>4 DEF ServeAuth
    <2>2. UNCHANGED <<path, at, over, next, cache, era>>
      BY <1>4 DEF ServeAuth, pageVars
    <2>3. QED
      BY <1>0, <2>1, <2>2, AuthOwn
  <1>5. ASSUME AcceptAnswered PROVE OwnInv'
    BY <1>0, <1>5, AuthOwn DEF AcceptAnswered, pageVars
  <1>6. ASSUME AuthFails PROVE OwnInv'
    BY <1>6 DEF AuthFails, pageVars, OwnInv, Placed, NoAuth
  <1>7. OwnCache(SignedIn(auth.who), era)
    <2>1. [who |-> auth.who, admin |-> auth.who \in admins, era |-> era,
           version |-> version["me"], rows |-> <<>>].era = era
      OBVIOUS
    <2>2. QED
      BY <1>0, <2>1, OwnSetData, OwnOneEntry DEF SignedIn, OwnCache, Keys
  <1>8. ASSUME Shows(SignedIn(auth.who), "home", NoRow, auth.who), era' = era, auth' = NoAuth
        PROVE  OwnInv'
    <2> DEFINE c == SignedIn(auth.who)
    <2>1. Shows(c, "home", NoRow, auth.who)
      BY <1>8
    <2>2. OwnCache(c, era)
      BY <1>7
    <2> HIDE DEF c
    <2>3. Landing(c, "home", NoRow, auth.who, path', at', over', next', cache')
      BY <2>1 DEF Shows, Lands, Landing
    <2>4. QED
      BY <1>0, <1>8, <2>2, <2>3, LandingOwn
  <1>9. ASSUME SignInAnswered PROVE OwnInv'
    <2>1. CASE auth.next # NoPage
      BY <1>0, <1>9, <2>1, LoadOwn DEF SignInAnswered
    <2>2. CASE auth.next = NoPage
      BY <1>8, <1>9, <2>2 DEF SignInAnswered
    <2>3. QED
      BY <2>1, <2>2
  <1>10. ASSUME SignInAfterAnswered PROVE OwnInv'
    BY <1>8, <1>10 DEF SignInAfterAnswered
  <1>11. ASSUME SignOutAnswered PROVE OwnInv'
    BY <1>11, OwnBlank
    DEF SignOutAnswered, OwnInv, Placed, Place, RowPages, OwnCache, Nothing, NoAuth
  <1>12. QED
    BY <1>1, <1>2, <1>3, <1>4, <1>5, <1>6, <1>9, <1>10, <1>11 DEF AuthAnswered

LEMMA GoesOwn ==
  ASSUME OwnInv,
         \/ \E p \in left.pages, r \in Rows \cup {NoRow} : Move(p, r) \/ Reload(p, r)
         \/ SessionAges \/ SessionChanges \/ WorkspaceOpens
  PROVE  OwnInv'
  <1>1. ASSUME NEW p, NEW r \in Rows \cup {NoRow}, Move(p, r) PROVE OwnInv'
    <2>1. /\ Shows(cache, p, r, cookie) /\ Place(p, r) /\ OwnCache(cache, era)
          /\ era' = era /\ auth' = auth
      BY <1>1 DEF Move, Place, OwnInv
    <2>2. Landing(cache, p, r, cookie, path', at', over', next', cache')
      BY <2>1 DEF Shows, Lands, Landing
    <2>3. QED
      BY <2>1, <2>2, LandingOwn
  <1>2. ASSUME NEW p, NEW r \in Rows \cup {NoRow}, Reload(p, r) PROVE OwnInv'
    BY <1>2, LoadOwn DEF Reload, Place
  <1>3. ASSUME SessionAges PROVE OwnInv'
    <2>1. Own([cache[Session] EXCEPT !.old = TRUE], era) /\ Session \in Keys
      BY DEF OwnInv, OwnCache, Own, Keys
    <2>2. QED
      BY <1>3, <2>1, EntryOwn DEF SessionAges, pageVars
  <1>4. ASSUME SessionChanges PROVE OwnInv'
    BY <1>4 DEF SessionChanges, pageVars, OwnInv, Placed
  <1>5. ASSUME WorkspaceOpens PROVE OwnInv'
    <2>1. PICK p \in {"home", "workspaces", "detail"} :
            Shows(cache, p, IF p = "detail" THEN at ELSE NoRow, cookie)
      BY <1>5 DEF WorkspaceOpens
    <2> DEFINE r == IF p = "detail" THEN at ELSE NoRow
    <2>2. Place(p, r) /\ OwnCache(cache, era) /\ era' = era /\ auth' = auth
      BY <1>5 DEF WorkspaceOpens, OwnInv, Placed, Place, RowPages
    <2>3. Landing(cache, p, r, cookie, path', at', over', next', cache')
      BY <2>1 DEF Shows, Lands, Landing
    <2> HIDE DEF r
    <2>4. QED
      BY <2>2, <2>3, LandingOwn
  <1>6. QED
    BY <1>1, <1>2, <1>3, <1>4, <1>5

\* The cache, where the tab is and the sign-in under way are left alone: what
\* is open on the page is about a workspace all the same.
LEMMA OverOwn ==
  ASSUME OwnInv, UNCHANGED <<path, at, next, auth, era>>, OwnCache(cache', era),
         {"what", "row"} = DOMAIN over',
         over'.what \in {"image", "adminRollback"} => over'.row \in Rows
  PROVE  OwnInv'
  BY DEF OwnInv, Placed

LEMMA DialogsOwn ==
  ASSUME OwnInv,
         \/ \E kind \in Here, r \in Rows \cup {NoRow} : OpenDialog(kind, r) \/ Ask(kind, r)
         \/ \E kind \in Sheets, r \in Rows : OpenSheet(kind, r)
         \/ OpenMenu \/ CloseOver
  PROVE  OwnInv'
  <1>0. /\ OwnCache(cache, era) /\ {"what", "row"} = DOMAIN over
        /\ over.what \in {"image", "adminRollback"} => over.row \in Rows
    BY DEF OwnInv, Placed
  <1>1. ASSUME NEW kind \in Here, NEW r \in Rows \cup {NoRow}, OpenDialog(kind, r) PROVE OwnInv'
    <2>1. over' = [what |-> kind, row |-> r] /\ UNCHANGED <<path, at, next, auth, era>>
      BY <1>1 DEF OpenDialog, Opens
    <2>2. OwnCache(cache', era)
      BY <1>0, <1>1, OwnMountIn DEF OpenDialog
    <2>3. kind = "adminRollback" => over = [what |-> "image", row |-> r]
      BY <1>1 DEF OpenDialog
    <2>4. kind = "image" => r \in Rows
      BY <1>1 DEF OpenDialog, Listed, Plain
    <2>5. kind \in {"image", "adminRollback"} => r \in Rows
      BY <1>0, <2>3, <2>4
    <2>6. QED
      BY <2>1, <2>2, <2>5, OverOwn
  <1>2. ASSUME NEW kind, NEW r, Ask(kind, r) PROVE OwnInv'
    <2>1. /\ over' \in {over, Nothing} /\ UNCHANGED <<path, at, next, auth, era, cache>>
      BY <1>2 DEF Ask
    <2>2. QED
      BY <1>0, <2>1, OverOwn DEF Nothing
  <1>3. ASSUME NEW kind \in Sheets, NEW r, OpenSheet(kind, r) PROVE OwnInv'
    <2>1. over' = [what |-> kind, row |-> r] /\ UNCHANGED <<path, at, next, auth, era, cache>>
      BY <1>3 DEF OpenSheet, Opens
    <2>2. kind \notin {"image", "adminRollback"}
      BY DEF Sheets
    <2>3. QED
      BY <1>0, <2>1, <2>2, OverOwn
  <1>4. ASSUME OpenMenu PROVE OwnInv'
    <2>1. over' = [what |-> "menu", row |-> NoRow] /\ UNCHANGED <<path, at, next, auth, era>>
      BY <1>4 DEF OpenMenu, Opens
    <2>2. OwnCache(cache', era)
      BY <1>0, <1>4, OwnMountIn DEF OpenMenu
    <2>3. QED
      BY <2>1, <2>2, OverOwn
  <1>5. ASSUME CloseOver PROVE OwnInv'
    <2>1. /\ over' = IF over.what = "adminRollback" THEN [what |-> "image", row |-> over.row]
                     ELSE [what |-> "nothing", row |-> NoRow]
          /\ UNCHANGED <<path, at, next, auth, era, cache>>
      BY <1>5 DEF CloseOver, Opens
    <2>2. QED
      BY <1>0, <2>1, OverOwn
  <1>6. QED
    BY <1>1, <1>2, <1>3, <1>4, <1>5

LEMMA OwnRefreshed == ASSUME OwnInv, NEW q PROVE OwnCache(Refreshed(q), era)
  <1>1. ASSUME NEW k \in Keys PROVE Own(Refreshed(q)[k], era)
    <2> DEFINE e == IF Owes(q, k) THEN [cache[k] EXCEPT !.owed = version[SectionOf(k)]]
                    ELSE cache[k]
    <2>1. Own(e, era)
      BY DEF OwnInv, OwnCache, Own
    <2>2. Own(Invalidate(e, k \in Watched, cookie), era)
      <3> HIDE DEF e
      <3>1. QED
        BY <2>1, OwnInvalidate
    <2>3. Refreshed(q)[k] =
            IF k \in Refreshes(q.kind, q.row) THEN Invalidate(e, k \in Watched, cookie) ELSE e
      BY DEF Refreshed
    <2> HIDE DEF e
    <2>4. QED
      BY <2>1, <2>2, <2>3
  <1>2. DOMAIN Refreshed(q) = Keys
    BY DEF Refreshed
  <1>3. QED
    BY <1>1, <1>2 DEF OwnCache

LEMMA AnswersOwn ==
  ASSUME OwnInv,
         \/ \E n \in DOMAIN req : Carries(n) \/ Refuses(n) \/ Answered(n) \/ AskFails(n)
         \/ PullSettles
         \/ \E r \in Rows : Drifts(r) \/ Provisioned(r)
  PROVE  OwnInv'
  <1>0. /\ OwnCache(cache, era) /\ {"what", "row"} = DOMAIN over
        /\ over.what \in {"image", "adminRollback"} => over.row \in Rows
        /\ Place("home", NoRow)
    BY DEF OwnInv, Placed, Place, RowPages
  <1>1. ASSUME NEW n, Carries(n) \/ Refuses(n) \/ AskFails(n) PROVE OwnInv'
    BY <1>0, <1>1, OverOwn DEF Carries, Refuses, AskFails, pageVars
  <1>2. ASSUME NEW r, Drifts(r) \/ Provisioned(r) PROVE OwnInv'
    BY <1>0, <1>2, OverOwn DEF Drifts, Provisioned, pageVars
  <1>3. ASSUME NEW n, Answered(n) PROVE OwnInv'
    <2> DEFINE c == Refreshed(req[n])
    <2>1. OwnCache(c, era)
      BY OwnRefreshed
    <2>2. era' = era /\ auth' = auth
      BY <1>3 DEF Answered
    <2>3. CASE OwnRole(req[n].kind, req[n].row)
      <3>1. Shows(c, "home", NoRow, cookie)
        BY <1>3, <2>3 DEF Answered
      <3> HIDE DEF c
      <3>2. Landing(c, "home", NoRow, cookie, path', at', over', next', cache')
        BY <3>1 DEF Shows, Lands, Landing
      <3>3. QED
        BY <1>0, <2>1, <2>2, <3>2, LandingOwn
    <2>4. CASE ~(OwnRole(req[n].kind, req[n].row))
      <3>1. cache' = c /\ over' = Over(n) /\ UNCHANGED <<path, at, next>>
        BY <1>3, <2>4 DEF Answered
      <3>2. \/ Over(n) \in {over, Nothing}
            \/ \E r : Over(n) = [what |-> "created", row |-> r]
        BY DEF Over
      <3>3. /\ {"what", "row"} = DOMAIN over'
            /\ over'.what \in {"image", "adminRollback"} => over'.row \in Rows
        BY <1>0, <3>1, <3>2 DEF Nothing
      <3> HIDE DEF c
      <3>4. OwnCache(cache', era)
        BY <2>1, <3>1
      <3>5. UNCHANGED <<path, at, next, auth, era>>
        BY <2>2, <3>1
      <3>6. QED
        BY <3>3, <3>4, <3>5, OverOwn
    <2>5. QED
      BY <2>3, <2>4
  <1>4. ASSUME PullSettles PROVE OwnInv'
    <2> DEFINE e == [cache[Versions] EXCEPT !.owed = version["versions"] + 1]
    <2>1. Own(e, era) /\ Versions \in Keys
      BY <1>0 DEF OwnCache, Own, Keys, AdminKeys
    <2>2. OwnCache([cache EXCEPT ![Versions] = Invalidate(e, TRUE, cookie)], era)
      <3> HIDE DEF e
      <3>1. QED
        BY <1>0, <2>1, OwnInvalidate, OwnOneEntry
    <2>3. cache' = cache \/ cache' = [cache EXCEPT ![Versions] = Invalidate(e, TRUE, cookie)]
      BY <1>4 DEF PullSettles
    <2>4. over' = [over EXCEPT !.what = "warmed"] /\ UNCHANGED <<path, at, next, auth, era>>
      BY <1>4 DEF PullSettles
    <2> HIDE DEF e
    <2>5. QED
      BY <1>0, <2>2, <2>3, <2>4, OverOwn
  <1>5. QED
    BY <1>1, <1>2, <1>3, <1>4

LEMMA OwnAlways == Spec => []OwnInv
  <1>1. Init => OwnInv
    BY InitOwn
  <1>2. OwnInv /\ [Next]_vars => OwnInv'
    <2> SUFFICES ASSUME OwnInv, [Next]_vars PROVE OwnInv'
      OBVIOUS
    <2>1. CASE NextPages
      BY <2>1, GateOwn, QueriesOwn, SignsOwn, GoesOwn, DialogsOwn, AnswersOwn
      DEF NextPages, NextConsole
    <2>2. CASE UNCHANGED <<path, at, over, next, auth, era, cache>>
      BY <2>2 DEF OwnInv, Placed
    <2>3. QED
      BY <2>1, <2>2 DEF vars, Next, Tab, Logs, consoleVars, pageVars
  <1>3. QED
    BY <1>1, <1>2, PTL DEF Spec

\* sidebar-user.tsx: the next user of the tab is shown nothing that was read
\* before the last sign-out, nor does anything of the kind arrive later.
THEOREM OnlyOwnIsShown == Spec => []ShownIsOwn
  <1>1. OwnInv => ShownIsOwn
    BY ShownFromOwn
  <1>2. QED
    BY <1>1, OwnAlways, PTL

-----------------------------------------------------------------------------
(* The redemption of an invitation.                                        *)

\* The redemption is the page's own: it ends before the page is left, and the
\* page asks nothing else.
RedeemsHere ==
    /\ {"op", "st", "who", "next"} = DOMAIN auth
    /\ auth.op = "accept" => path = "invite" /\ ~wrong
    /\ path = "invite" => req = <<>>

\* The phase says that the account exists; while it does not, and no answer was
\* lost, the answer is on its way.
PhaseFollows ==
    /\ wrong \in BOOLEAN /\ mine \in BOOLEAN /\ unheard \in BOOLEAN
    /\ phase = "accepted" => mine
    /\ auth.op = "accept" /\ auth.st = "served" => mine
    /\ mine /\ ~unheard /\ phase # "accepted" => auth.op = "accept" /\ auth.st = "served"

InviteInv == RedeemsHere /\ PhaseFollows

LEMMA InitInvite == Init => InviteInv
  <1> SUFFICES ASSUME Init PROVE InviteInv
    OBVIOUS
  <1>1. /\ auth = NoAuth /\ phase = "idle" /\ wrong = FALSE /\ req = <<>>
        /\ mine = FALSE /\ unheard = FALSE
    BY DEF Init, InitConsole
  <1>2. QED
    BY <1>1 DEF InviteInv, RedeemsHere, PhaseFollows, NoAuth

\* The tab stays where it is, or goes from one page to another that are no
\* invitation's, and no redemption has to do with it.
LEMMA ElsewhereInvite ==
  ASSUME InviteInv, UNCHANGED <<auth, phase, wrong, mine, unheard>>,
         \/ path' = path /\ (path = "invite" => req' = req)
         \/ path # "invite" /\ path' # "invite"
  PROVE  InviteInv'
  <1>1. PhaseFollows'
    BY DEF InviteInv, PhaseFollows
  <1>2. CASE path' = path /\ (path = "invite" => req' = req)
    BY <1>1, <1>2 DEF InviteInv, RedeemsHere
  <1>3. CASE path # "invite" /\ path' # "invite"
    BY <1>1, <1>3 DEF InviteInv, RedeemsHere
  <1>4. QED
    BY <1>2, <1>3

\* A document that starts anew has asked nothing.
LEMMA LoadInvite == ASSUME NEW p, NEW r, Load(p, r) PROVE InviteInv'
  BY DEF Load, InviteInv, RedeemsHere, PhaseFollows, NoAuth

\* The page of an invitation stays when the guards look again; none but the
\* address bar leads to it.
LEMMA ArrivesInvite ==
  ASSUME InviteInv, NEW k, Arrives(k) \/ Drops(k) \/ AppStarts
  PROVE  InviteInv'
  <1>1. UNCHANGED <<auth, phase, wrong, mine, unheard>>
    BY DEF Arrives, Drops, AppStarts, inviteVars
  <1>2. /\ path' \in {path, "login", "home"}
        /\ path \in Public => path' = path /\ at' = at
    BY DEF Arrives, Drops, AppStarts, Shows, Lands
  <1>3. path' = path /\ at' = at => req' = req
    BY DEF Arrives, Drops, AppStarts, LeavePage
  <1>4. QED
    BY <1>1, <1>2, <1>3, ElsewhereInvite DEF Public

LEMMA SignsInvite ==
  ASSUME InviteInv,
         \/ \E p \in People : AskSignIn(p)
         \/ AskSignOut \/ SignInAnswered \/ SignInAfterAnswered \/ SignOutAnswered
  PROVE  InviteInv'
  <1> USE DEF InviteInv, RedeemsHere, PhaseFollows
  <1>1. ASSUME NEW p, AskSignIn(p) PROVE InviteInv'
    BY <1>1 DEF AskSignIn, Asks, pageVars, inviteVars, NoAuth
  <1>2. ASSUME AskSignOut PROVE InviteInv'
    BY <1>2 DEF AskSignOut, Asks, pageVars, inviteVars, NoAuth
  <1>3. ASSUME SignInAnswered PROVE InviteInv'
    <2>1. CASE auth.next # NoPage
      BY <1>3, <2>1, LoadInvite DEF SignInAnswered
    <2>2. CASE auth.next = NoPage
      <3>1. path' # "invite"
        BY <1>3, <2>2 DEF SignInAnswered, Shows, Lands
      <3>2. auth' = NoAuth /\ auth.op = "signIn" /\ UNCHANGED <<phase, wrong, mine, unheard>>
        BY <1>3, <2>2 DEF SignInAnswered, inviteVars
      <3>3. QED
        BY <3>1, <3>2 DEF NoAuth
    <2>3. QED
      BY <2>1, <2>2
  <1>4. ASSUME SignInAfterAnswered PROVE InviteInv'
    <2>1. path' # "invite"
      BY <1>4 DEF SignInAfterAnswered, Shows, Lands
    <2>2. auth' = NoAuth /\ InviteLeft
      BY <1>4 DEF SignInAfterAnswered
    <2>3. QED
      BY <2>1, <2>2 DEF InviteLeft, NoAuth
  <1>5. ASSUME SignOutAnswered PROVE InviteInv'
    <2>1. path' = "login" /\ auth' = NoAuth /\ auth.op = "signOut"
      BY <1>5 DEF SignOutAnswered
    <2>2. UNCHANGED <<phase, wrong, mine, unheard>>
      BY <1>5 DEF SignOutAnswered, inviteVars
    <2>3. QED
      BY <2>1, <2>2 DEF NoAuth
  <1>6. QED
    BY <1>1, <1>2, <1>3, <1>4, <1>5

LEMMA RedeemsInvite ==
  ASSUME InviteInv, AskAccept \/ ServeAuth \/ AcceptAnswered \/ AuthFails
  PROVE  InviteInv'
  <1> USE DEF InviteInv, RedeemsHere, PhaseFollows
  <1>1. ASSUME AskAccept PROVE InviteInv'
    BY <1>1 DEF AskAccept, Asks, pageVars, NoAuth
  <1>2. ASSUME ServeAuth PROVE InviteInv'
    <2>1. /\ \/ auth' = [auth EXCEPT !.st = "served"]
             \/ auth' = [auth EXCEPT !.st = "refused"]
          /\ auth.st = "sent" /\ UNCHANGED <<path, req, phase, wrong, unheard>>
      BY <1>2 DEF ServeAuth, pageVars
    <2>2. auth'.op = auth.op /\ DOMAIN auth' = DOMAIN auth
      BY <2>1
    <2>3. \/ UNCHANGED mine /\ (auth.op # "accept" \/ auth' = [auth EXCEPT !.st = "refused"])
          \/ mine' = TRUE /\ auth.op = "accept" /\ auth' = [auth EXCEPT !.st = "served"]
      BY <1>2 DEF ServeAuth
    <2>4. CASE UNCHANGED mine /\ (auth.op # "accept" \/ auth' = [auth EXCEPT !.st = "refused"])
      <3>1. auth'.op # "accept" \/ auth'.st = "refused"
        BY <2>2, <2>4
      <3>2. QED
        BY <2>1, <2>2, <2>4, <3>1
    <2>5. CASE mine' = TRUE /\ auth.op = "accept" /\ auth' = [auth EXCEPT !.st = "served"]
      <3>1. auth'.op = "accept" /\ auth'.st = "served"
        BY <2>2, <2>5
      <3>2. QED
        BY <2>1, <2>2, <2>5, <3>1
    <2>6. QED
      BY <2>3, <2>4, <2>5
  <1>3. ASSUME AcceptAnswered PROVE InviteInv'
    BY <1>3 DEF AcceptAnswered, pageVars
  <1>4. ASSUME AuthFails PROVE InviteInv'
    BY <1>4 DEF AuthFails, pageVars, NoAuth
  <1>5. QED
    BY <1>1, <1>2, <1>3, <1>4

LEMMA GoesInvite ==
  ASSUME InviteInv,
         \/ \E p \in left.pages, r \in Rows \cup {NoRow} : Move(p, r) \/ Reload(p, r)
         \/ WorkspaceOpens
         \/ \E n \in DOMAIN req : Carries(n) \/ Refuses(n) \/ Answered(n) \/ AskFails(n)
         \/ \E kind \in Here, r \in Rows \cup {NoRow} : Ask(kind, r)
  PROVE  InviteInv'
  <1>1. ASSUME NEW p, NEW r, Move(p, r) PROVE InviteInv'
    <2>1. /\ p # "invite" /\ path' # "invite" /\ auth' = auth
          /\ \/ path # "invite" /\ UNCHANGED <<phase, wrong, mine, unheard>>
             \/ InviteLeft /\ auth = NoAuth
      BY <1>1 DEF Move, Shows, Lands, Inside, Public, inviteVars
    <2>2. CASE path # "invite" /\ UNCHANGED <<phase, wrong, mine, unheard>>
      BY <2>1, <2>2, ElsewhereInvite
    <2>3. CASE InviteLeft /\ auth = NoAuth
      BY <2>1, <2>3 DEF InviteLeft, InviteInv, RedeemsHere, PhaseFollows, NoAuth
    <2>4. QED
      BY <2>1, <2>2, <2>3
  <1>2. ASSUME NEW p, NEW r, Reload(p, r) PROVE InviteInv'
    BY <1>2, LoadInvite DEF Reload
  <1>3. ASSUME WorkspaceOpens PROVE InviteInv'
    <2>1. /\ path # "invite" /\ path' # "invite"
          /\ UNCHANGED <<auth, phase, wrong, mine, unheard>>
      BY <1>3 DEF WorkspaceOpens, Shows, Lands, Public, inviteVars
    <2>2. QED
      BY <2>1, ElsewhereInvite
  <1>4. ASSUME NEW n \in DOMAIN req, Carries(n) \/ Refuses(n) \/ Answered(n) \/ AskFails(n)
        PROVE  InviteInv'
    <2>1. path # "invite"
      BY DEF InviteInv, RedeemsHere
    <2>2. path' # "invite"
      BY <1>4, <2>1 DEF Carries, Refuses, Answered, AskFails, Shows, Lands, pageVars
    <2>3. UNCHANGED <<auth, phase, wrong, mine, unheard>>
      BY <1>4 DEF Carries, Refuses, Answered, AskFails, inviteVars
    <2>4. QED
      BY <2>1, <2>2, <2>3, ElsewhereInvite
  <1>5. ASSUME NEW kind, NEW r, Ask(kind, r) PROVE InviteInv'
    <2>1. /\ path # "invite" /\ path' = path
          /\ UNCHANGED <<auth, phase, wrong, mine, unheard>>
      BY <1>5 DEF Ask, Inside, Public, inviteVars
    <2>2. QED
      BY <2>1, ElsewhereInvite
  <1>6. QED
    BY <1>1, <1>2, <1>3, <1>4, <1>5

\* Everything else is done where the tab is, and has nothing to do with it.
Apart ==
    \/ WizardOpens \/ Wizard \/ SessionAges \/ SessionChanges
    \/ \E k \in Keys : Served(k) \/ Polls(k)
    \/ \E kind \in Here, r \in Rows \cup {NoRow} : OpenDialog(kind, r)
    \/ \E kind \in Sheets, r \in Rows : OpenSheet(kind, r)
    \/ OpenMenu \/ CloseOver \/ PullSettles
    \/ \E r \in Rows : Drifts(r) \/ Provisioned(r)

LEMMA ApartStays ==
  ASSUME Apart PROVE UNCHANGED <<auth, phase, wrong, mine, unheard, path, req>>
  BY DEF Apart, WizardOpens, Wizard, SessionAges, SessionChanges, Served, Polls, OpenDialog,
     OpenSheet, OpenMenu, CloseOver, PullSettles, Drifts, Provisioned, Opens, pageVars, inviteVars

\* AcceptInvitePage.tsx: a redemption that ends in an error is told from one
\* that made the account, whichever request failed.
THEOREM ErrorsTellTruth == Spec => []InviteTellsTruth
  <1>1. Init => InviteInv
    BY InitInvite
  <1>2. InviteInv /\ [Next]_vars => InviteInv'
    <2> SUFFICES ASSUME InviteInv, [Next]_vars PROVE InviteInv'
      OBVIOUS
    <2>1. CASE UNCHANGED <<auth, phase, wrong, mine, unheard, path, req>>
      BY <2>1, ElsewhereInvite
    <2>2. CASE NextPages
      <3>1. CASE Apart
        BY <2>1, <3>1, ApartStays
      <3>2. CASE ~Apart
        BY <2>2, <3>2, ArrivesInvite, SignsInvite, RedeemsInvite, GoesInvite
        DEF NextPages, NextConsole, Apart, AuthAnswered
      <3>3. QED
        BY <3>1, <3>2
    <2>3. QED
      BY <2>1, <2>2 DEF vars, Next, Tab, Logs, consoleVars, pageVars, inviteVars
  <1>3. InviteInv => InviteTellsTruth
    BY DEF InviteInv, RedeemsHere, PhaseFollows, InviteTellsTruth
  <1>4. QED
    BY <1>1, <1>2, <1>3, PTL DEF Spec

-----------------------------------------------------------------------------
(* The requests of the list.                                               *)

Asked(as) ==
    [kind : UNION {Kinds[p] : p \in DOMAIN Kinds}, row : Rows \cup {NoRow},
     st : {"sent", "served", "refused", "settled"}, here : BOOLEAN, as : as]

\* Whatever was asked for a workspace after a request that is under way, the
\* observer of that one had gone on to another workspace by then.
OneEach(q) ==
    \A n, m \in 1..Len(q) :
      /\ n < m /\ q[n].st # "settled" /\ q[n].here /\ q[m].here
      /\ q[n].kind \in CardKinds /\ q[m].kind \in CardKinds /\ q[n].row = q[m].row
      => \E j \in n + 1 .. m : q[j].kind = q[n].kind /\ q[j].row # q[n].row

\* No button of workspace r is disabled.
NoneFor(q, r) ==
    \A n \in 1..Len(q) :
      q[n].kind \in CardKinds /\ q[n].row = r /\ q[n].here /\ q[n].st # "settled"
      => \E m \in n + 1 .. Len(q) : q[m].here /\ q[m].kind = q[n].kind

\* The dialog that asks whether to remove a workspace was opened while nothing
\* was under way for it, and nothing can be asked while it is open.
AskInv ==
    /\ \E as : req \in Seq(Asked(as))
    /\ OneEach(req)
    /\ over.what = "remove" => NoneFor(req, over.row)

LEMMA IdleIsNone ==
  ASSUME NEW as, req \in Seq(Asked(as)), NEW kind \in CardKinds, NEW r, ~Busy(kind, r)
  PROVE  NoneFor(req, r)
  <1>1. DOMAIN req = 1..Len(req)
    OBVIOUS
  <1>2. DisabledBy(kind) = CardKinds
    BY DEF DisabledBy, CardKinds, SettingsKinds, OnImage, OnRelease
  <1>3. QED
    BY <1>1, <1>2 DEF Busy, Latest, InFlight, NoneFor

LEMMA OneMore ==
  ASSUME NEW as, NEW q \in Seq(Asked(as)), OneEach(q), NEW e \in Asked(as),
         e.kind \in CardKinds => NoneFor(q, e.row)
  PROVE  OneEach(Append(q, e))
  <1> DEFINE p == Append(q, e)
  <1>1. Len(q) \in Nat /\ Len(p) = Len(q) + 1 /\ p[Len(q) + 1] = e
        /\ \A i \in 1..Len(q) : p[i] = q[i]
    BY AppendProperties
  <1> HIDE DEF p
  <1>2. SUFFICES ASSUME NEW n \in 1..Len(p), NEW m \in 1..Len(p),
                        n < m, p[n].st # "settled", p[n].here, p[m].here,
                        p[n].kind \in CardKinds, p[m].kind \in CardKinds, p[n].row = p[m].row
                 PROVE  \E j \in n + 1 .. m : p[j].kind = p[n].kind /\ p[j].row # p[n].row
    BY DEF OneEach, p
  <1>3. n \in 1..Len(q) /\ p[n] = q[n]
    BY <1>1, <1>2
  <1>4. CASE m <= Len(q)
    <2>1. m \in 1..Len(q) /\ p[m] = q[m]
      BY <1>1, <1>4
    <2>2. PICK j \in n + 1 .. m : q[j].kind = q[n].kind /\ q[j].row # q[n].row
      BY <1>2, <1>3, <2>1 DEF OneEach
    <2>3. p[j] = q[j]
      BY <1>1, <1>3, <2>1, <2>2
    <2>4. QED
      BY <1>3, <2>2, <2>3
  <1>5. CASE m > Len(q)
    <2>1. m = Len(q) + 1 /\ p[m] = e
      BY <1>1, <1>5
    <2>2. PICK l \in n + 1 .. Len(q) : q[l].here /\ q[l].kind = q[n].kind
      BY <1>2, <1>3, <2>1 DEF NoneFor
    <2>3. l \in 1..Len(q) /\ l < m /\ n < l /\ p[l] = q[l]
      BY <1>1, <1>3, <2>1, <2>2
    <2>4. CASE q[l].row # q[n].row
      BY <1>3, <2>2, <2>3, <2>4, <1>1
    <2>5. CASE q[l].row = q[n].row
      <3>1. PICK j \in n + 1 .. l : q[j].kind = q[n].kind /\ q[j].row # q[n].row
        BY <1>2, <1>3, <2>2, <2>3, <2>5 DEF OneEach
      <3>2. j \in n + 1 .. m /\ p[j] = q[j]
        BY <1>1, <1>3, <2>3, <3>1
      <3>3. QED
        BY <1>3, <3>1, <3>2
    <2>6. QED
      BY <2>4, <2>5
  <1>6. QED
    BY <1>1, <1>4, <1>5

LEMMA FunctionIsSeq ==
  ASSUME NEW S, NEW l \in Nat, NEW f \in [1..l -> S]
  PROVE  f \in Seq(S) /\ Len(f) = l
  <1>1. f \in Seq(S)
    BY SeqDef
  <1>2. Len(f) \in Nat /\ 1..Len(f) = 1..l
    BY <1>1, LenProperties
  <1>3. \A i \in Int : i \in 1..Len(f) <=> i \in 1..l
    BY <1>2
  <1>4. Len(f) = l
    BY <1>2, <1>3
  <1>5. QED
    BY <1>1, <1>4

\* A request that is carried out, refused or answered is asked no more often.
LEMMA OneLess ==
  ASSUME NEW as, NEW q \in Seq(Asked(as)), NEW n \in DOMAIN q,
         NEW s \in {"served", "refused", "settled"}, q[n].st # "settled" \/ s = "settled"
  PROVE  LET p == [q EXCEPT ![n].st = s]
         IN  /\ p \in Seq(Asked(as))
             /\ OneEach(q) => OneEach(p)
             /\ \A r : NoneFor(q, r) => NoneFor(p, r)
  <1> DEFINE e == [q[n] EXCEPT !.st = s]
             p == [q EXCEPT ![n].st = s]
  <1>0. Len(q) \in Nat /\ n \in 1..Len(q)
    BY LenProperties
  <1>1. q[n] \in Asked(as)
    BY <1>0, ElementOfSeq
  <1>2. /\ e \in Asked(as) /\ e.kind = q[n].kind /\ e.row = q[n].row /\ e.here = q[n].here
        /\ e.st = s
    BY <1>1 DEF Asked
  <1>3. p = [q EXCEPT ![n] = e]
    OBVIOUS
  <1> HIDE DEF e, p
  <1>4. /\ p \in Seq(Asked(as)) /\ Len(p) = Len(q)
        /\ \A i \in 1..Len(q) : p[i] = IF i = n THEN e ELSE q[i]
    <2>1. q \in [1..Len(q) -> Asked(as)]
      BY LenProperties
    <2>2. /\ p \in [1..Len(q) -> Asked(as)]
          /\ \A i \in 1..Len(q) : p[i] = IF i = n THEN e ELSE q[i]
      BY <1>0, <1>2, <1>3, <2>1
    <2>3. QED
      BY <1>0, <2>2, FunctionIsSeq
  <1>5. \A i \in 1..Len(q) : /\ p[i].kind = q[i].kind /\ p[i].row = q[i].row
                             /\ p[i].here = q[i].here
                             /\ p[i].st # "settled" => q[i].st # "settled"
    BY <1>2, <1>4
  <1>6. ASSUME OneEach(q) PROVE OneEach(p)
    <2> SUFFICES ASSUME NEW i \in 1..Len(q), NEW m \in 1..Len(q),
                        i < m, p[i].st # "settled", p[i].here, p[m].here,
                        p[i].kind \in CardKinds, p[m].kind \in CardKinds, p[i].row = p[m].row
                 PROVE  \E j \in i + 1 .. m : p[j].kind = p[i].kind /\ p[j].row # p[i].row
      BY <1>4 DEF OneEach
    <2>1. PICK j \in i + 1 .. m : q[j].kind = q[i].kind /\ q[j].row # q[i].row
      BY <1>5, <1>6 DEF OneEach
    <2>2. j \in 1..Len(q)
      BY <1>0
    <2>3. QED
      BY <1>5, <2>1, <2>2
  <1>7. \A r : NoneFor(q, r) => NoneFor(p, r)
    BY <1>4, <1>5 DEF NoneFor
  <1>8. QED
    BY <1>4, <1>6, <1>7 DEF p

\* A page that is left has asked nothing.
LEMMA NoneHere ==
  ASSUME NEW as, NEW q \in Seq(Asked(as)), NEW p,
         p = [n \in DOMAIN q |-> [q[n] EXCEPT !.here = FALSE]]
  PROVE  p \in Seq(Asked(as)) /\ OneEach(p) /\ \A r : NoneFor(p, r)
  <1>0. Len(q) \in Nat /\ DOMAIN q = 1..Len(q) /\ DOMAIN p = 1..Len(q)
    BY LenProperties
  <1>1. ASSUME NEW n \in DOMAIN q PROVE p[n] \in Asked(as) /\ ~p[n].here
    <2>1. q[n] \in Asked(as)
      BY <1>0, ElementOfSeq
    <2>2. p[n] = [q[n] EXCEPT !.here = FALSE]
      OBVIOUS
    <2>3. QED
      BY <2>1, <2>2 DEF Asked
  <1>2. p \in [1..Len(q) -> Asked(as)]
    BY <1>0, <1>1
  <1>3. p \in Seq(Asked(as)) /\ Len(p) = Len(q)
    BY <1>0, <1>2, FunctionIsSeq
  <1>4. OneEach(p) /\ \A r : NoneFor(p, r)
    BY <1>0, <1>1, <1>3 DEF OneEach, NoneFor
  <1>5. QED
    BY <1>3, <1>4

LEMMA InitAsks == Init => AskInv
  <1> SUFFICES ASSUME Init PROVE AskInv
    OBVIOUS
  <1>1. req = <<>> /\ over = Nothing
    BY DEF Init, InitConsole
  <1>2. req \in Seq(Asked({})) /\ Len(req) = 0
    BY <1>1, EmptySeq
  <1>3. QED
    BY <1>1, <1>2 DEF AskInv, OneEach, Nothing

LEMMA LoadAsks == ASSUME NEW p, NEW r, Load(p, r) PROVE AskInv'
  <1>1. req' = <<>> /\ over' = Nothing
    BY DEF Load
  <1>2. req' \in Seq(Asked({})) /\ Len(req') = 0
    BY <1>1, EmptySeq
  <1>3. QED
    BY <1>1, <1>2 DEF AskInv, OneEach, Nothing

\* No request changes, and no dialog of that kind opens.
LEMMA QuietAsks ==
  ASSUME AskInv, req' = req, over' = over \/ over'.what # "remove"
  PROVE  AskInv'
  BY DEF AskInv

\* The page is left, or shown again, after the requests have become q.
LEMMA GoneAsks ==
  ASSUME NEW as, NEW q, q \in Seq(Asked(as)), OneEach(q),
         over.what = "remove" => NoneFor(q, over.row),
         over' \in {over, Nothing},
         req' = IF path' = path /\ at' = at THEN q
                ELSE [n \in DOMAIN q |-> [q[n] EXCEPT !.here = FALSE]]
  PROVE  AskInv'
  <1>1. CASE req' = q
    <2>1. over'.what = "remove" => over' = over
      BY DEF Nothing
    <2>2. over'.what = "remove" => NoneFor(req', over'.row)
      BY <1>1, <2>1
    <2>3. QED
      BY <1>1, <2>2 DEF AskInv
  <1>2. CASE req' = [n \in DOMAIN q |-> [q[n] EXCEPT !.here = FALSE]]
    <2>1. req' \in Seq(Asked(as)) /\ OneEach(req') /\ \A r : NoneFor(req', r)
      BY <1>2, NoneHere
    <2>2. QED
      BY <2>1 DEF AskInv
  <1>3. QED
    BY <1>1, <1>2

LEMMA GoesAsks ==
  ASSUME AskInv,
         \/ AppStarts \/ WorkspaceOpens \/ SignInAnswered \/ SignInAfterAnswered
         \/ SignOutAnswered
         \/ \E k \in Keys : Arrives(k) \/ Drops(k)
         \/ \E p \in left.pages, r \in Rows \cup {NoRow} : Move(p, r) \/ Reload(p, r)
  PROVE  AskInv'
  <1>0. PICK as : req \in Seq(Asked(as))
    BY DEF AskInv
  <1>1. ASSUME over' \in {over, Nothing},
               req' = IF path' = path /\ at' = at THEN req
                      ELSE [n \in DOMAIN req |-> [req[n] EXCEPT !.here = FALSE]]
        PROVE  AskInv'
    BY <1>0, <1>1, GoneAsks DEF AskInv
  <1>2. ASSUME AppStarts PROVE AskInv'
    <2>1. over' \in {over, Nothing} /\ req' = req
      BY <1>2 DEF AppStarts, Shows
    <2>2. QED
      BY <2>1, QuietAsks DEF Nothing
  <1>3. ASSUME WorkspaceOpens PROVE AskInv'
    <2>1. over' \in {over, Nothing}
      BY <1>3 DEF WorkspaceOpens, Shows
    <2>2. req' = IF path' = path /\ at' = at THEN req
                 ELSE [n \in DOMAIN req |-> [req[n] EXCEPT !.here = FALSE]]
      BY <1>3 DEF WorkspaceOpens, LeavePage
    <2>3. QED
      BY <1>1, <2>1, <2>2
  <1>4. ASSUME SignInAnswered PROVE AskInv'
    <2>1. CASE auth.next # NoPage
      <3>1. Load(auth.next[1], auth.next[2])
        BY <1>4, <2>1 DEF SignInAnswered
      <3>2. QED
        BY <3>1, LoadAsks
    <2>2. CASE auth.next = NoPage
      BY <1>1, <1>4, <2>2 DEF SignInAnswered, Shows, LeavePage
    <2>3. QED
      BY <2>1, <2>2
  <1>5. ASSUME SignInAfterAnswered PROVE AskInv'
    BY <1>1, <1>5 DEF SignInAfterAnswered, Shows, LeavePage
  <1>6. ASSUME SignOutAnswered PROVE AskInv'
    BY <1>1, <1>6 DEF SignOutAnswered, LeavePage
  <1>7. ASSUME NEW k, Arrives(k) PROVE AskInv'
    BY <1>1, <1>7 DEF Arrives, Shows, LeavePage
  <1>8. ASSUME NEW k, Drops(k) PROVE AskInv'
    BY <1>1, <1>8 DEF Drops, Shows, LeavePage
  <1>9. ASSUME NEW p, NEW r, Move(p, r) PROVE AskInv'
    BY <1>1, <1>9 DEF Move, Shows, LeavePage
  <1>10. ASSUME NEW p, NEW r, Reload(p, r) PROVE AskInv'
    BY <1>10, LoadAsks DEF Reload
  <1>11. QED
    BY <1>2, <1>3, <1>4, <1>5, <1>6, <1>7, <1>8, <1>9, <1>10

LEMMA AnswersAsks ==
  ASSUME AskInv, NEW n \in DOMAIN req, Carries(n) \/ Refuses(n) \/ Answered(n) \/ AskFails(n)
  PROVE  AskInv'
  <1>0. PICK as : req \in Seq(Asked(as))
    BY DEF AskInv
  <1>1. ASSUME NEW s \in {"served", "refused", "settled"}, req[n].st # "settled" \/ s = "settled",
               req' = [req EXCEPT ![n].st = s], over' = over \/ over'.what # "remove"
        PROVE  AskInv'
    <2>1. /\ req' \in Seq(Asked(as)) /\ OneEach(req')
          /\ \A r : NoneFor(req, r) => NoneFor(req', r)
      BY <1>0, <1>1, OneLess DEF AskInv
    <2>2. QED
      BY <1>1, <2>1 DEF AskInv
  <1>2. CASE Carries(n)
    BY <1>1, <1>2 DEF Carries, pageVars
  <1>3. CASE Refuses(n)
    BY <1>1, <1>3 DEF Refuses, pageVars
  <1>4. CASE AskFails(n)
    BY <1>1, <1>4 DEF AskFails, Settled, pageVars
  <1>5. CASE Answered(n)
    <2> DEFINE q == [req EXCEPT ![n].st = "settled"]
    <2>1. q \in Seq(Asked(as)) /\ OneEach(q) /\ \A r : NoneFor(req, r) => NoneFor(q, r)
      BY <1>0, OneLess DEF AskInv
    <2>2. CASE OwnRole(req[n].kind, req[n].row)
      <3>1. /\ over' \in {over, Nothing}
            /\ req' = IF path' = path /\ at' = at THEN q
                      ELSE [m \in DOMAIN q |-> [q[m] EXCEPT !.here = FALSE]]
        BY <1>5, <2>2 DEF Answered, Shows, LeavePage, Settled
      <3> HIDE DEF q
      <3>2. QED
        BY <2>1, <3>1, GoneAsks DEF AskInv
    <2>3. CASE ~OwnRole(req[n].kind, req[n].row)
      <3>1. req' = q /\ over' = Over(n)
        BY <1>5, <2>3 DEF Answered, Settled
      <3>2. \/ Over(n) \in {over, Nothing}
            \/ \E r : Over(n) = [what |-> "created", row |-> r]
        BY DEF Over
      <3>3. over' = over \/ over'.what # "remove"
        BY <3>1, <3>2 DEF Nothing
      <3>4. QED
        BY <1>1, <3>1, <3>3
    <2>4. QED
      BY <2>2, <2>3
  <1>6. QED
    BY <1>2, <1>3, <1>4, <1>5

LEMMA AsksAsks == ASSUME AskInv, NEW kind, NEW r \in Rows \cup {NoRow}, Ask(kind, r) PROVE AskInv'
  <1> DEFINE e == [kind |-> kind, row |-> r, st |-> "sent", here |-> TRUE, as |-> cookie]
  <1>1. PICK as0 : req \in Seq(Asked(as0))
    BY DEF AskInv
  <1>2. /\ kind \in Here /\ req' = Append(req, e)
        /\ over' = IF kind = "remove" THEN Nothing ELSE over
        /\ IF kind \in Confirmed THEN over = [what |-> kind, row |-> r]
           ELSE /\ over = IF kind \in Forms THEN [what |-> kind, row |-> r] ELSE Nothing
                /\ ~Busy(kind, r)
    BY DEF Ask
  <1> DEFINE as == as0 \cup {cookie}
  <1>3. req \in Seq(Asked(as))
    <2>1. Asked(as0) \subseteq Asked(as)
      BY DEF Asked
    <2>2. QED
      BY <1>1, <2>1, SeqMonotonic
  <1>4. kind \in UNION {Kinds[p] : p \in DOMAIN Kinds}
    BY <1>2 DEF Here
  <1>5. e \in Asked(as) /\ e.kind = kind /\ e.row = r
    BY <1>4 DEF Asked
  <1> HIDE DEF e, as
  <1>6. kind \in CardKinds => NoneFor(req, r)
    <2>1. CASE kind = "remove"
      BY <1>2, <2>1 DEF AskInv, Confirmed
    <2>2. CASE kind \in CardKinds \ {"remove"}
      <3>1. ~Busy(kind, r)
        BY <1>2, <2>2 DEF CardKinds, Confirmed
      <3>2. QED
        BY <1>3, <2>2, <3>1, IdleIsNone
    <2>3. QED
      BY <2>1, <2>2
  <1>7. OneEach(req')
    BY <1>2, <1>3, <1>5, <1>6, OneMore DEF AskInv
  <1>8. req' \in Seq(Asked(as))
    BY <1>2, <1>3, <1>5, AppendProperties
  <1>9. over'.what # "remove"
    BY <1>2 DEF Nothing, Confirmed, Forms
  <1>10. QED
    BY <1>7, <1>8, <1>9 DEF AskInv

LEMMA OpensAsks ==
  ASSUME AskInv, NEW kind, NEW r, OpenDialog(kind, r)
  PROVE  AskInv'
  <1>1. over' = [what |-> kind, row |-> r] /\ req' = req
    BY DEF OpenDialog, Opens
  <1>2. PICK as : req \in Seq(Asked(as))
    BY DEF AskInv
  <1>3. CASE kind = "remove"
    <2>1. ~Busy("remove", r)
      BY <1>3 DEF OpenDialog, Forms
    <2>2. NoneFor(req, r)
      BY <1>2, <2>1, IdleIsNone DEF CardKinds
    <2>3. over'.row = r
      BY <1>1
    <2>4. QED
      BY <1>1, <2>2, <2>3 DEF AskInv
  <1>4. CASE kind # "remove"
    BY <1>1, <1>4, QuietAsks
  <1>5. QED
    BY <1>3, <1>4

LEMMA ApartAsks ==
  ASSUME AskInv, OwnInv,
         \/ WizardOpens \/ Wizard \/ SessionAges \/ SessionChanges
         \/ \E k \in Keys : Served(k) \/ Polls(k)
         \/ \E p \in People : AskSignIn(p)
         \/ AskAccept \/ AskSignOut \/ ServeAuth \/ AcceptAnswered \/ AuthFails
         \/ \E kind \in Sheets, r \in Rows : OpenSheet(kind, r)
         \/ OpenMenu \/ CloseOver \/ PullSettles
         \/ \E r \in Rows : Drifts(r) \/ Provisioned(r)
  PROVE  AskInv'
  <1>1. CASE \/ WizardOpens \/ Wizard \/ SessionAges \/ SessionChanges
             \/ \E k \in Keys : Served(k) \/ Polls(k)
             \/ \E p \in People : AskSignIn(p)
             \/ AskAccept \/ AskSignOut \/ ServeAuth \/ AcceptAnswered \/ AuthFails
             \/ \E r \in Rows : Drifts(r) \/ Provisioned(r)
    <2>1. req' = req /\ over' = over
      BY <1>1 DEF WizardOpens, Wizard, SessionAges, SessionChanges, Served, Polls, AskSignIn,
         AskAccept, AskSignOut, ServeAuth, AcceptAnswered, AuthFails, Drifts, Provisioned, pageVars
    <2>2. QED
      BY <2>1, QuietAsks
  <1>2. ASSUME NEW kind \in Sheets, NEW r, OpenSheet(kind, r) PROVE AskInv'
    BY <1>2, QuietAsks DEF OpenSheet, Opens, Sheets
  <1>3. CASE OpenMenu
    BY <1>3, QuietAsks DEF OpenMenu, Opens
  <1>4. CASE CloseOver
    BY <1>4, QuietAsks DEF CloseOver, Opens
  <1>5. CASE PullSettles
    <2>1. over' = [over EXCEPT !.what = "warmed"] /\ req' = req
      BY <1>5 DEF PullSettles
    <2>2. over'.what = "warmed"
      BY <2>1 DEF OwnInv, Placed
    <2>3. QED
      BY <2>1, <2>2, QuietAsks
  <1>6. QED
    BY <1>1, <1>2, <1>3, <1>4, <1>5

\* What was asked on the list, and its dialog, are always in order.
LEMMA AskAlways == Spec => []AskInv
  <1>1. Init => AskInv
    BY InitAsks
  <1>2. OwnInv /\ AskInv /\ [Next]_vars => AskInv'
    <2> SUFFICES ASSUME OwnInv, AskInv, [Next]_vars PROVE AskInv'
      OBVIOUS
    <2>1. CASE NextPages
      BY <2>1, GoesAsks, AnswersAsks, AsksAsks, OpensAsks, ApartAsks
      DEF NextPages, NextConsole, AuthAnswered
    <2>2. CASE UNCHANGED <<req, over>>
      BY <2>2, QuietAsks
    <2>3. QED
      BY <2>1, <2>2 DEF vars, Next, Tab, Logs, consoleVars, pageVars
  <1>3. QED
    BY <1>1, <1>2, OwnAlways, PTL DEF Spec

\* InstancesPage.tsx (busyFor): one visit of the list asks nothing for a
\* workspace that it is waiting for, but for the observer that has gone on.
THEOREM ListAsksOnce == Spec => []AsksOnce
  <1>1. AskInv => AsksOnce
    <2> SUFFICES ASSUME AskInv PROVE AsksOnce
      OBVIOUS
    <2>1. DOMAIN req = 1..Len(req)
      BY LenProperties DEF AskInv
    <2>2. QED
      BY <2>1 DEF AskInv, OneEach, AsksOnce, InFlight
  <1>2. QED
    BY <1>1, AskAlways, PTL

-----------------------------------------------------------------------------
(* What an answer to a change leaves in the cache: one entry.               *)

\* An entry whose section is at version v, watched or not: what it shows has
\* reached what is owed, unless it is in error, was asked for too early, or will
\* be asked for again before anybody sees it; so has an answer on its way.
Fresh(e, v, watched) ==
    /\ e.owed \in Nat /\ e.owed <= v
    /\ Idle(e) /\ e.data # NoData /\ ~e.failed /\ ~e.late =>
         e.data.version >= e.owed \/ (e.old /\ ~watched)
    /\ e.fetch = "read" /\ ~e.late => e.answer.version >= e.owed

FreshIn(c, versions, ks) == \A k \in Keys : Fresh(c[k], versions[SectionOf(k)], k \in ks)

\* A blank entry owes nothing.
LEMMA FreshBlank == ASSUME NEW v \in Nat, NEW w PROVE Fresh(Blank, v, w)
  BY DEF Fresh, Blank, Idle

\* The section is newer, or nobody watches any more.
LEMMA FreshWeaker ==
  ASSUME NEW e, NEW v \in Nat, NEW w, NEW v2 \in Nat, NEW w2, Fresh(e, v, w), v <= v2, w2 => w
  PROVE  Fresh(e, v2, w2)
  BY DEF Fresh

\* An entry that has just been asked for shows nothing false.
LEMMA FreshSent ==
  ASSUME NEW x, NEW e, NEW who, NEW v, NEW w, Own(e, x), e.owed \in Nat, e.owed <= v
  PROVE  Fresh(Sent(e, who), v, w)
  <1>1. /\ Sent(e, who).fetch = "sent" /\ Sent(e, who).owed = e.owed
    BY DEF Own, Sent
  <1>2. QED
    BY <1>1 DEF Fresh, Idle

\* Whatever somebody begins to watch is asked for, unless it is shown already.
LEMMA FreshMount ==
  ASSUME NEW x, NEW e, NEW who, NEW v, NEW w, Own(e, x), Fresh(e, v, w)
  PROVE  Fresh(Mount(e, who), v, TRUE)
  <1>1. CASE Idle(e) /\ (e.data = NoData \/ e.old)
    BY <1>1, FreshSent DEF Mount, Fresh
  <1>2. CASE ~(Idle(e) /\ (e.data = NoData \/ e.old))
    BY <1>2 DEF Mount, Fresh
  <1>3. QED
    BY <1>1, <1>2

\* A poll asks for no less.
LEMMA FreshPoll ==
  ASSUME NEW x, NEW e, NEW who, NEW v, NEW w, Own(e, x), Fresh(e, v, w)
  PROVE  Fresh(Poll(e, who), v, w)
  <1>1. e.owed \in Nat /\ e.owed <= v
    BY DEF Fresh
  <1>2. QED
    BY <1>1, FreshSent DEF Poll

\* An entry that is given up is shown to nobody before it has been asked for anew.
LEMMA FreshInvalidate ==
  ASSUME NEW x, NEW e, NEW w, NEW who, NEW v, Own(e, x), e.owed \in Nat, e.owed <= v
  PROVE  Fresh(Invalidate(e, w, who), v, w)
  <1> DEFINE f == IF e = Blank THEN e ELSE [e EXCEPT !.old = TRUE]
             g == [f EXCEPT !.late = ~Idle(e)]
  <1>1. /\ Own(f, x) /\ f.owed = e.owed /\ f.data = e.data /\ f.fetch = e.fetch
        /\ e # Blank => f.old
    BY DEF Own
  <1>2. /\ g.owed = f.owed /\ g.data = f.data /\ g.fetch = f.fetch /\ g.old = f.old
        /\ g.late = ~Idle(e)
    <2> HIDE DEF f
    <2>1. QED
      BY <1>1 DEF Own
  <1>3. Invalidate(e, w, who) = IF Restarts(e, w) THEN Sent(f, who) ELSE g
    BY DEF Invalidate
  <1> HIDE DEF f, g
  <1>4. CASE Restarts(e, w)
    BY <1>1, <1>3, <1>4, FreshSent
  <1>5. CASE ~Restarts(e, w)
    <2>1. Fresh(g, v, w)
      <3>1. e = Blank => g.data = NoData
        BY <1>1, <1>2 DEF Blank
      <3>2. Idle(e) => ~w /\ (e # Blank => g.old)
        BY <1>1, <1>2, <1>5 DEF Restarts
      <3>3. g.fetch = e.fetch /\ g.owed = e.owed /\ (~Idle(e) => g.late)
        BY <1>1, <1>2
      <3>4. QED
        BY <3>1, <3>2, <3>3 DEF Fresh, Idle
    <2>2. QED
      BY <1>3, <1>5, <2>1
  <1>6. QED
    BY <1>4, <1>5

\* The server answers what its section holds now.
LEMMA FreshRead ==
  ASSUME NEW x, NEW e, NEW answer, NEW v \in Nat, NEW w, Own(e, x), Fresh(e, v, w),
         answer.version = v
  PROVE  Fresh(Read(e, answer), v, w)
  <1> DEFINE f == Read(e, answer)
  <1>1. f.fetch = "read" /\ f.answer = answer /\ f.owed = e.owed
    BY DEF Own, Read
  <1> HIDE DEF f
  <1>2. QED
    BY <1>1 DEF Fresh, Idle, f

\* A refusal brings no data.
LEMMA FreshRefuse ==
  ASSUME NEW x, NEW e, NEW v, NEW w, Own(e, x), Fresh(e, v, w)
  PROVE  Fresh(Refuse(e), v, w)
  <1>1. Refuse(e).fetch = "refused" /\ Refuse(e).owed = e.owed
    BY DEF Own, Refuse
  <1>2. QED
    BY <1>1 DEF Fresh, Idle

\* What arrives is what the server had answered.
LEMMA FreshArrived ==
  ASSUME NEW x, NEW e, NEW b, NEW v, NEW w, Own(e, x), Fresh(e, v, w), e.fetch = "read"
  PROVE  Fresh(Arrived(e, b), v, w)
  <1> DEFINE f == Arrived(e, b)
  <1>1. f.fetch = "idle" /\ f.data = e.answer /\ f.late = e.late /\ f.owed = e.owed
    BY DEF Arrived, Blank
  <1> HIDE DEF f
  <1>2. Fresh(f, v, w)
    BY <1>1 DEF Fresh
  <1>3. QED
    BY <1>2 DEF f

\* An error shows nothing that counts.
LEMMA FreshFailed ==
  ASSUME NEW x, NEW e, NEW v, NEW w, Own(e, x), Fresh(e, v, w)
  PROVE  Fresh(Failed(e), v, w)
  <1>1. Failed(e).fetch = "idle" /\ Failed(e).failed /\ Failed(e).owed = e.owed
    BY DEF Own, Failed
  <1>2. QED
    BY <1>1 DEF Fresh

\* What the page sets itself it has from the server, as of now.
LEMMA FreshSetData ==
  ASSUME NEW x, NEW e, NEW data, NEW v \in Nat, NEW w, Own(e, x), Fresh(e, v, w),
         data.version = v
  PROVE  Fresh(SetData(e, data), v, w)
  <1> DEFINE f == SetData(e, data)
  <1>1. /\ f.fetch = e.fetch /\ f.answer = e.answer /\ f.late = e.late /\ f.owed = e.owed
        /\ f.data = data
    BY DEF Own, SetData
  <1> HIDE DEF f
  <1>2. Fresh(f, v, w)
    BY <1>1 DEF Fresh, Idle
  <1>3. QED
    BY <1>2 DEF f

\* Data that grows stale is no older than it was.
LEMMA FreshOlder ==
  ASSUME NEW x, NEW e, NEW v, NEW w, Own(e, x), Fresh(e, v, w)
  PROVE  Fresh([e EXCEPT !.old = TRUE], v, w)
  <1> DEFINE f == [e EXCEPT !.old = TRUE]
  <1>1. /\ f.fetch = e.fetch /\ f.answer = e.answer /\ f.late = e.late /\ f.owed = e.owed
        /\ f.data = e.data /\ f.failed = e.failed /\ f.old
    BY DEF Own
  <1> HIDE DEF f
  <1>2. Fresh(f, v, w)
    BY <1>1 DEF Fresh, Idle
  <1>3. QED
    BY <1>2 DEF f

-----------------------------------------------------------------------------
(* The keys and their sections.                                            *)

\* Which keys a section has.
LEMMA SectionsOfKeys ==
  ASSUME NEW k \in Keys
  PROVE  /\ SectionOf(k) \in Sections
         /\ SectionOf(k) = "me" => k = Session
         /\ SectionOf(k) = "users" => k = Users
         /\ SectionOf(k) = "invitations" => k = Invitations
         /\ SectionOf(k) = "versions" => k = Versions
         /\ SectionOf(k) = "sessions" => k = Sessions
         /\ SectionOf(k) \in {"instances", "tags"} =>
              k \in Lists \/ k \in UNION {OfRow(r) : r \in Rows}
         /\ SectionOf(k) = "tags" => k \in UNION {OfRow(r) : r \in Rows}
  <1>1. \A r : OfRow(r) = {Instance(r), Image(r), AdminImage(r)}
    BY DEF OfRow
  <1>2. \/ k \in {Session, Mine, Sessions, Fleet, Users, Invitations, Versions}
        \/ \E r \in Rows : k \in OfRow(r)
    BY <1>1 DEF Keys, AdminKeys
  <1>3. QED
    BY <1>1, <1>2 DEF SectionOf, Sections, Lists

\* The releases are a section of their own.
LEMMA SectionOfVersions == SectionOf(Versions) = "versions"
  BY DEF SectionOf, Versions, Session, Users, Invitations

\* No key is about a row and about something else.
LEMMA RowsApart ==
  ASSUME NEW r, NEW s
  PROVE  /\ OfRow(r) \cap {Session, Mine, Sessions, Fleet, Users, Invitations, Versions} = {}
         /\ r # s => OfRow(r) \cap OfRow(s) = {}
  BY DEF OfRow, Instance, Image, AdminImage, Session, Mine, Sessions, Fleet, Users, Invitations,
     Versions

-----------------------------------------------------------------------------
(* What is open, and what was asked, on the page on the screen.            *)

\* What is open on the page is about what the page is about, and so is a
\* request whose answer the page still waits for.
OverIsHere ==
    /\ over.what \in {"image", "adminRollback"} => path = "fleet"
    /\ over.what = "rollback" => over.row = at /\ path = "settings"

OnPage(q) ==
    /\ path \in DOMAIN Kinds /\ q.kind \in Kinds[path]
    /\ q.kind \in OpenKinds \cup SettingsKinds => q.row = at

\* Before the pages are there, nothing has been asked.
PageInv ==
    /\ gate # "done" => DOMAIN req = {}
    /\ OverIsHere
    /\ \A n \in DOMAIN req : req[n].here => OnPage(req[n])

ChangeInv ==
    /\ version \in [Sections -> Nat]
    /\ FreshIn(cache, version, Watched)

\* A request is of some page.
LEMMA AskedIs ==
  ASSUME AskInv, NEW n \in DOMAIN req
  PROVE  \E as : req[n] \in Asked(as)
  <1>1. PICK as : req \in Seq(Asked(as))
    BY DEF AskInv
  <1>2. n \in 1..Len(req)
    BY <1>1, LenProperties
  <1>3. QED
    BY <1>1, <1>2, ElementOfSeq

\* The requests of q are those of req, some of them further on.
Follow(q) ==
    /\ DOMAIN q = DOMAIN req
    /\ \A n \in DOMAIN req :
         q[n].kind = req[n].kind /\ q[n].row = req[n].row /\ q[n].here = req[n].here

\* A step of one request leaves every request where it was asked.
LEMMA SettledFollow ==
  ASSUME AskInv, NEW n \in DOMAIN req, NEW s
  PROVE  Follow([req EXCEPT ![n].st = s])
  <1> DEFINE q == [req EXCEPT ![n].st = s]
  <1>1. DOMAIN q = DOMAIN req
    OBVIOUS
  <1>2. ASSUME NEW m \in DOMAIN req
        PROVE q[m].kind = req[m].kind /\ q[m].row = req[m].row /\ q[m].here = req[m].here
    <2>1. PICK as : req[m] \in Asked(as)
      BY AskedIs
    <2>2. q[m] = IF m = n THEN [req[m] EXCEPT !.st = s] ELSE req[m]
      OBVIOUS
    <2> HIDE DEF q
    <2>3. QED
      BY <2>1, <2>2 DEF Asked
  <1>3. QED
    BY <1>1, <1>2 DEF Follow

\* The page stays, whatever is open on it still is or is closed, and requests
\* go on.
LEMMA StaysPage ==
  ASSUME PageInv, UNCHANGED <<path, at>>, gate' = gate \/ gate' = "done", OverIsHere',
         Follow(req')
  PROVE  PageInv'
  BY DEF PageInv, Follow, OnPage

\* The page is left, or shown again, and what was asked on it goes on.
LEMMA GonePage ==
  ASSUME PageInv, AskInv, NEW q, Follow(q), gate' = gate \/ gate' = "done",
         over' = Nothing \/ (over' = over /\ path' = path /\ at' = at),
         LeavePage(q)
  PROVE  PageInv'
  <1>1. OverIsHere'
    BY DEF PageInv, OverIsHere, Nothing
  <1>2. DOMAIN req' = DOMAIN req
    BY DEF LeavePage, Follow
  <1>3. CASE path' = path /\ at' = at
    <2>1. req' = q
      BY <1>3 DEF LeavePage
    <2>2. QED
      BY <1>1, <1>3, <2>1, StaysPage
  <1>4. CASE ~(path' = path /\ at' = at)
    <2>1. req' = [n \in DOMAIN q |-> [q[n] EXCEPT !.here = FALSE]]
      BY <1>4 DEF LeavePage
    <2>2. ASSUME NEW n \in DOMAIN req, req'[n].here PROVE FALSE
      <3>1. req'[n] = [q[n] EXCEPT !.here = FALSE]
        BY <2>1 DEF Follow
      <3>2. QED
        BY <2>2, <3>1
    <2>3. QED
      BY <1>1, <1>2, <2>2 DEF PageInv
  <1>5. QED
    BY <1>3, <1>4

\* A new document has asked nothing.
LEMMA LoadPage == ASSUME NEW p, NEW r, Load(p, r) PROVE PageInv'
  BY DEF Load, PageInv, OverIsHere, Nothing

\* Every step that may take the user elsewhere.
LEMMA GoesPage ==
  ASSUME PageInv, AskInv,
         \/ AppStarts \/ WorkspaceOpens \/ SignInAnswered \/ SignInAfterAnswered
         \/ SignOutAnswered
         \/ \E k \in Keys : Arrives(k) \/ Drops(k)
         \/ \E p \in left.pages, r \in Rows \cup {NoRow} : Move(p, r) \/ Reload(p, r)
  PROVE  PageInv'
  <1>0. Follow(req)
    BY DEF Follow
  <1>1. ASSUME NEW c, NEW p, NEW r, NEW who, Shows(c, p, r, who)
        PROVE  over' = Nothing \/ (over' = over /\ path' = path /\ at' = at)
    BY <1>1 DEF Shows
  <1>2. ASSUME AppStarts PROVE PageInv'
    <2>1. DOMAIN req = {} /\ req' = req /\ gate' = "done"
      BY <1>2 DEF AppStarts, PageInv
    <2>2. OverIsHere'
      BY <1>1, <1>2 DEF AppStarts, PageInv, OverIsHere, Nothing
    <2>3. QED
      BY <2>1, <2>2 DEF PageInv
  <1>3. ASSUME WorkspaceOpens PROVE PageInv'
    <2>1. LeavePage(req) /\ gate' = gate
      BY <1>3 DEF WorkspaceOpens
    <2>2. over' = Nothing \/ (over' = over /\ path' = path /\ at' = at)
      BY <1>1, <1>3 DEF WorkspaceOpens
    <2>3. QED
      BY <1>0, <2>1, <2>2, GonePage
  <1>4. ASSUME SignInAnswered PROVE PageInv'
    <2>1. CASE auth.next # NoPage
      BY <1>4, <2>1, LoadPage DEF SignInAnswered
    <2>2. CASE auth.next = NoPage
      <3>1. LeavePage(req) /\ gate' = gate
        BY <1>4, <2>2 DEF SignInAnswered
      <3>2. over' = Nothing \/ (over' = over /\ path' = path /\ at' = at)
        BY <1>1, <1>4, <2>2 DEF SignInAnswered
      <3>3. QED
        BY <1>0, <3>1, <3>2, GonePage
    <2>3. QED
      BY <2>1, <2>2
  <1>5. ASSUME SignInAfterAnswered PROVE PageInv'
    <2>1. LeavePage(req) /\ gate' = gate
      BY <1>5 DEF SignInAfterAnswered
    <2>2. over' = Nothing \/ (over' = over /\ path' = path /\ at' = at)
      BY <1>1, <1>5 DEF SignInAfterAnswered
    <2>3. QED
      BY <1>0, <2>1, <2>2, GonePage
  <1>6. ASSUME SignOutAnswered PROVE PageInv'
    <2>1. LeavePage(req) /\ gate' = gate /\ over' = Nothing
      BY <1>6 DEF SignOutAnswered
    <2>2. QED
      BY <1>0, <2>1, GonePage
  <1>7. ASSUME NEW k, Arrives(k) \/ Drops(k) PROVE PageInv'
    <2>1. LeavePage(req) /\ gate' = gate
      BY <1>7 DEF Arrives, Drops
    <2>2. over' = Nothing \/ (over' = over /\ path' = path /\ at' = at)
      BY <1>1, <1>7 DEF Arrives, Drops
    <2>3. QED
      BY <1>0, <2>1, <2>2, GonePage
  <1>8. ASSUME NEW p, NEW r, Move(p, r) PROVE PageInv'
    <2>1. LeavePage(req) /\ gate' = gate
      BY <1>8 DEF Move
    <2>2. over' = Nothing \/ (over' = over /\ path' = path /\ at' = at)
      BY <1>1, <1>8 DEF Move
    <2>3. QED
      BY <1>0, <2>1, <2>2, GonePage
  <1>9. ASSUME NEW p, NEW r, Reload(p, r) PROVE PageInv'
    BY <1>9, LoadPage DEF Reload
  <1>10. QED
    BY <1>2, <1>3, <1>4, <1>5, <1>6, <1>7, <1>8, <1>9

\* Every step of a request.
LEMMA AnswersPage ==
  ASSUME PageInv, AskInv,
         NEW n \in DOMAIN req, Carries(n) \/ Refuses(n) \/ Answered(n) \/ AskFails(n)
  PROVE  PageInv'
  <1>1. \A s : Follow([req EXCEPT ![n].st = s])
    BY SettledFollow
  <1>2. CASE Carries(n) \/ Refuses(n) \/ AskFails(n)
    <2>1. \E s : req' = [req EXCEPT ![n].st = s]
      BY <1>2 DEF Carries, Refuses, AskFails, Settled
    <2>2. UNCHANGED <<path, at, over, gate>>
      BY <1>2 DEF Carries, Refuses, AskFails, pageVars
    <2>3. OverIsHere'
      BY <2>2 DEF PageInv, OverIsHere
    <2>4. QED
      BY <1>1, <2>1, <2>2, <2>3, StaysPage
  <1>3. CASE Answered(n)
    <2>1. gate' = gate
      BY <1>3 DEF Answered
    <2>2. CASE OwnRole(req[n].kind, req[n].row)
      <3>1. LeavePage(Settled(n))
        BY <1>3, <2>2 DEF Answered
      <3>2. over' = Nothing \/ (over' = over /\ path' = path /\ at' = at)
        BY <1>3, <2>2 DEF Answered, Shows
      <3>3. Follow(Settled(n))
        BY <1>1 DEF Settled
      <3>4. QED
        BY <2>1, <3>1, <3>2, <3>3, GonePage
    <2>3. CASE ~OwnRole(req[n].kind, req[n].row)
      <3>1. req' = Settled(n) /\ over' = Over(n) /\ UNCHANGED <<path, at>>
        BY <1>3, <2>3 DEF Answered
      <3>2. over' \in {over, Nothing} \/ over'.what = "created"
        BY <3>1 DEF Over
      <3>3. OverIsHere'
        BY <3>1, <3>2 DEF PageInv, OverIsHere, Nothing
      <3>4. QED
        BY <1>1, <2>1, <3>1, <3>3, StaysPage DEF Settled
    <2>4. QED
      BY <2>2, <2>3
  <1>4. QED
    BY <1>2, <1>3

\* A button is pressed on the page it belongs to.
LEMMA AsksPage ==
  ASSUME PageInv, AskInv, NEW kind \in Here, NEW r \in Rows \cup {NoRow}, Ask(kind, r)
  PROVE  PageInv'
  <1> DEFINE e == [kind |-> kind, row |-> r, st |-> "sent", here |-> TRUE, as |-> cookie]
  <1>1. /\ req' = Append(req, e) /\ UNCHANGED <<path, at, gate>>
        /\ over' \in {over, Nothing} /\ gate = "done"
    BY DEF Ask, Inside
  <1>2. OverIsHere'
    BY <1>1 DEF PageInv, OverIsHere, Nothing
  <1>3. kind \in OpenKinds \cup SettingsKinds => r = at
    <2>1. CASE kind = "rollback"
      <3>1. over = [what |-> "rollback", row |-> r]
        BY <2>1 DEF Ask, Confirmed
      <3>2. QED
        BY <3>1 DEF PageInv, OverIsHere
    <2>2. CASE kind \in OpenKinds
      <3>1. Listed(kind, r)
        BY <2>2 DEF Ask, OpenKinds, Confirmed
      <3>2. OpenOffers(kind, r)
        BY <2>2, <3>1 DEF Listed, OpenKinds, Plain, CardKinds, SettingsKinds, FleetKinds, UserKinds
      <3>3. QED
        BY <3>2 DEF OpenOffers
    <2>3. CASE kind = "upgrade"
      <3>1. Listed(kind, r)
        BY <2>3 DEF Ask, Confirmed
      <3>2. SettingsOffers(r)
        BY <2>3, <3>1 DEF Listed, OpenKinds, Plain, CardKinds, SettingsKinds, FleetKinds, UserKinds
      <3>3. QED
        BY <3>2 DEF SettingsOffers
    <2>4. QED
      BY <2>1, <2>2, <2>3 DEF SettingsKinds
  <1>4. OnPage(e)
    BY <1>3 DEF OnPage, Here
  <1>5. /\ path' \in DOMAIN Kinds /\ e.kind \in Kinds[path']
        /\ e.kind \in OpenKinds \cup SettingsKinds => e.row = at'
    <2> HIDE DEF e
    <2>1. QED
      BY <1>1, <1>4 DEF OnPage
  <1> HIDE DEF e
  <1>6. PICK as : req \in Seq(Asked(as))
    BY DEF AskInv
  <1>7. /\ Len(req) \in Nat /\ DOMAIN req = 1..Len(req)
        /\ DOMAIN req' = 1..Len(req) + 1
        /\ req'[Len(req) + 1] = e
        /\ \A n \in 1..Len(req) : req'[n] = req[n]
    BY <1>1, <1>6, LenProperties, AppendProperties
  <1>8. QED
    BY <1>1, <1>2, <1>5, <1>7 DEF PageInv, OnPage

\* A dialog is opened on the page it belongs to.
LEMMA OpensPage ==
  ASSUME PageInv, OwnInv,
         \/ \E kind \in Here, r \in Rows \cup {NoRow} : OpenDialog(kind, r)
         \/ \E kind \in Sheets, r \in Rows : OpenSheet(kind, r)
         \/ OpenMenu \/ CloseOver \/ PullSettles
  PROVE  PageInv'
  <1>0. Follow(req)
    BY DEF Follow
  <1>1. ASSUME NEW kind \in Here, NEW r, OpenDialog(kind, r) PROVE PageInv'
    <2>1. over' = [what |-> kind, row |-> r] /\ UNCHANGED <<path, at, gate, req>>
      BY <1>1 DEF OpenDialog, Opens
    <2>2. path \in DOMAIN Kinds /\ kind \in Kinds[path]
      BY DEF Here
    <2>3. kind \in {"image", "adminRollback"} => path = "fleet"
      BY <2>2 DEF Kinds, CardKinds, OpenKinds, SettingsKinds, UserKinds, InviteKinds, VersionKinds
    <2>4. kind = "rollback" => path = "settings"
      BY <2>2 DEF Kinds, CardKinds, OpenKinds, FleetKinds, UserKinds, InviteKinds, VersionKinds
    <2>5. kind = "rollback" => r = at
      BY <1>1 DEF OpenDialog, Listed, Plain, CardKinds, OpenKinds, SettingsKinds, FleetKinds,
         UserKinds, SettingsOffers
    <2>6. OverIsHere'
      BY <2>1, <2>3, <2>4, <2>5 DEF OverIsHere
    <2>7. QED
      BY <1>0, <2>1, <2>6, StaysPage
  <1>2. ASSUME NEW kind \in Sheets, NEW r, OpenSheet(kind, r) PROVE PageInv'
    <2>1. over' = [what |-> kind, row |-> r] /\ UNCHANGED <<path, at, gate, req>>
      BY <1>2 DEF OpenSheet, Opens
    <2>2. QED
      BY <1>0, <2>1, StaysPage DEF OverIsHere, Sheets
  <1>3. CASE OpenMenu
    <2>1. over' = [what |-> "menu", row |-> NoRow] /\ UNCHANGED <<path, at, gate, req>>
      BY <1>3 DEF OpenMenu, Opens
    <2>2. QED
      BY <1>0, <2>1, StaysPage DEF OverIsHere
  <1>4. CASE CloseOver
    <2>1. /\ over' = IF over.what = "adminRollback" THEN [what |-> "image", row |-> over.row]
                     ELSE [what |-> "nothing", row |-> NoRow]
          /\ UNCHANGED <<path, at, gate, req>>
      BY <1>4 DEF CloseOver, Opens
    <2>2. QED
      BY <1>0, <2>1, StaysPage DEF OverIsHere, PageInv
  <1>5. CASE PullSettles
    <2>1. over' = [over EXCEPT !.what = "warmed"] /\ UNCHANGED <<path, at, gate, req>>
      BY <1>5 DEF PullSettles
    <2>2. over'.what = "warmed"
      BY <2>1 DEF OwnInv, Placed
    <2>3. QED
      BY <1>0, <2>1, <2>2, StaysPage DEF OverIsHere
  <1>6. QED
    BY <1>1, <1>2, <1>3, <1>4, <1>5

\* The steps that touch neither the page nor its requests.
LEMMA ApartPage ==
  ASSUME PageInv,
         \/ WizardOpens \/ Wizard \/ SessionAges \/ SessionChanges
         \/ \E k \in Keys : Served(k) \/ Polls(k)
         \/ \E p \in People : AskSignIn(p)
         \/ AskAccept \/ AskSignOut \/ ServeAuth \/ AcceptAnswered \/ AuthFails
         \/ \E r \in Rows : Drifts(r) \/ Provisioned(r)
  PROVE  PageInv'
  <1>1. CASE WizardOpens
    BY <1>1 DEF WizardOpens, PageInv, OverIsHere, OnPage, pageVars
  <1>2. CASE \/ Wizard \/ SessionAges \/ SessionChanges
             \/ \E k \in Keys : Served(k) \/ Polls(k)
             \/ \E p \in People : AskSignIn(p)
             \/ AskAccept \/ AskSignOut \/ ServeAuth \/ AcceptAnswered \/ AuthFails
             \/ \E r \in Rows : Drifts(r) \/ Provisioned(r)
    <2>1. UNCHANGED <<path, at, over, gate, req>>
      BY <1>2 DEF Wizard, SessionAges, SessionChanges, Served, Polls, AskSignIn, AskAccept,
         AskSignOut, ServeAuth, AcceptAnswered, AuthFails, Drifts, Provisioned, pageVars
    <2>2. QED
      BY <2>1 DEF PageInv, OverIsHere, OnPage
  <1>3. QED
    BY <1>1, <1>2

-----------------------------------------------------------------------------
(* What is watched, and the whole cache.                                   *)

\* Two caches that show the same.
Alike(c, d) == \A k \in Keys : c[k].data = d[k].data

\* An observer changes nothing of what is shown.
LEMMA MountAlike ==
  ASSUME NEW x, NEW c, OwnCache(c, x), NEW ks, NEW who
  PROVE  Alike(MountIn(c, ks, who), c)
  <1>1. ASSUME NEW k \in Keys PROVE Mount(c[k], who).data = c[k].data
    BY DEF OwnCache, Own, Mount, Sent
  <1>2. QED
    BY <1>1 DEF Alike, MountIn

\* The guards see the data of the session only.
LEMMA AlikeSigned == ASSUME NEW c, NEW d, Alike(c, d) PROVE Signed(c) = Signed(d)
  <1>1. c[Session].data = d[Session].data
    BY DEF Alike, Keys
  <1>2. QED
    BY <1>1 DEF Signed

\* A page mounts what its row shows, whatever is being fetched.
LEMMA AlikeKeys ==
  ASSUME NEW c, NEW d, Alike(c, d), NEW p, NEW r, Place(p, r)
  PROVE  PageKeys(c, p, r) = PageKeys(d, p, r)
  <1>1. CASE p = "settings"
    <2>1. Instance(r) \in Keys
      BY <1>1 DEF Place, RowPages, Keys, OfRow
    <2>2. WorkspaceSettingsPage(c, r) = WorkspaceSettingsPage(d, r)
      BY <2>1 DEF WorkspaceSettingsPage, Alike
    <2>3. QED
      BY <1>1, <2>2 DEF PageKeys
  <1>2. CASE p # "settings"
    BY <1>2 DEF PageKeys
  <1>3. QED
    BY <1>1, <1>2

\* What is watched changes with the page, with what is open on it, and with
\* what the session and the workspace of the page show.
LEMMA WatchedStays ==
  ASSUME OwnInv, UNCHANGED <<gate, path, at>>, Alike(cache', cache), NEW ks,
         Inside => OverKeys(over') \subseteq OverKeys(over) \cup ks
  PROVE  Watched' \subseteq Watched \cup ks
  <1>1. Signed(cache') = Signed(cache)
    BY AlikeSigned
  <1>2. PageKeys(cache', path, at) = PageKeys(cache, path, at)
    BY AlikeKeys DEF OwnInv, Placed
  <1>3. Inside' = Inside
    BY <1>1 DEF Inside
  <1>4. Watched' = IF gate # "done" \/ path \in Public THEN {}
                   ELSE IF ~Inside THEN {Session}
                   ELSE {Session} \cup PageKeys(cache, path, at) \cup OverKeys(over')
    BY <1>2, <1>3 DEF Watched
  <1>5. QED
    BY <1>4 DEF Watched

\* One entry gives way to another.
LEMMA FreshOneEntry ==
  ASSUME NEW x, NEW c, NEW versions, NEW ks, NEW k \in Keys, NEW e, OwnCache(c, x),
         FreshIn(c, versions, ks), Fresh(e, versions[SectionOf(k)], k \in ks)
  PROVE  FreshIn([c EXCEPT ![k] = e], versions, ks)
  BY DEF OwnCache, FreshIn

\* Whatever somebody begins to watch is asked for where it must be.
LEMMA FreshMountIn ==
  ASSUME NEW x, NEW c, OwnCache(c, x), NEW versions, NEW ks, FreshIn(c, versions, ks), NEW more,
         NEW who
  PROVE  FreshIn(MountIn(c, more, who), versions, ks \cup more)
  <1>1. ASSUME NEW k \in Keys
        PROVE  Fresh(MountIn(c, more, who)[k], versions[SectionOf(k)], k \in ks \cup more)
    <2>1. Own(c[k], x) /\ Fresh(c[k], versions[SectionOf(k)], k \in ks)
      BY DEF OwnCache, FreshIn
    <2>2. CASE k \in more
      <3>1. Fresh(Mount(c[k], who), versions[SectionOf(k)], TRUE)
        BY <2>1, FreshMount
      <3>2. QED
        BY <2>2, <3>1 DEF MountIn, Fresh
    <2>3. CASE k \notin more
      BY <2>1, <2>3 DEF MountIn, Fresh
    <2>4. QED
      BY <2>2, <2>3
  <1>2. QED
    BY <1>1 DEF FreshIn

\* Fewer are watched, or the user has changed more.
LEMMA FreshFewer ==
  ASSUME NEW c, NEW v \in [Sections -> Nat], NEW v2 \in [Sections -> Nat], NEW ks, NEW ks2,
         FreshIn(c, v, ks), \A k \in Keys : k \in ks2 => k \in ks,
         \A s \in Sections : v[s] <= v2[s]
  PROVE  FreshIn(c, v2, ks2)
  <1>1. ASSUME NEW k \in Keys PROVE Fresh(c[k], v2[SectionOf(k)], k \in ks2)
    <2>1. SectionOf(k) \in Sections
      BY SectionsOfKeys
    <2>2. /\ v[SectionOf(k)] \in Nat /\ v2[SectionOf(k)] \in Nat
          /\ v[SectionOf(k)] <= v2[SectionOf(k)]
      BY <2>1
    <2>3. Fresh(c[k], v[SectionOf(k)], k \in ks)
      BY DEF FreshIn
    <2>4. QED
      BY <2>2, <2>3, FreshWeaker
  <1>2. QED
    BY <1>1 DEF FreshIn

\* The guards mount whatever comes to be on the screen.
LEMMA ShowsFresh ==
  ASSUME ChangeInv, OwnInv, NEW c, OwnCache(c, era), FreshIn(c, version, Watched),
         NEW p, NEW r, NEW who, Place(p, r), Shows(c, p, r, who),
         gate' = gate \/ gate' = "done", version' = version
  PROVE  ChangeInv'
  <1> DEFINE outside == gate # "done" \/ path \in Public
             first == IF outside /\ p \notin Public THEN {Session} ELSE {}
             c1 == IF outside /\ p \notin Public THEN MountIn(c, {Session}, who) ELSE c
             to == Lands(c1, p)
             of == IF to = p THEN r ELSE NoRow
             again == path = to /\ at = of /\ (Inside \/ to \in Public)
             ks == IF to \in Public \/ ~Signed(c1) THEN {}
                   ELSE PageKeys(c1, to, of) \ IF again THEN Watched ELSE {}
  <1>1. /\ path' = to /\ at' = of
        /\ over' = IF again THEN over ELSE Nothing
        /\ cache' = MountIn(c1, ks, who)
    BY DEF Shows
  <1>2. OwnCache(c1, era) /\ FreshIn(c1, version, Watched \cup first)
    <2>1. Watched \cup {} = Watched
      OBVIOUS
    <2>2. QED
      BY <2>1, OwnMountIn, FreshMountIn
  <1>3. p \in Public => to = p
    BY DEF Lands
  <1>4. Place(to, of)
    BY DEF Lands, Place, RowPages
  <1> HIDE DEF c1, to, of, ks
  <1>5. FreshIn(cache', version, (Watched \cup first) \cup ks) /\ Alike(cache', c1)
    BY <1>1, <1>2, FreshMountIn, MountAlike
  <1>6. Signed(cache') = Signed(c1) /\ PageKeys(cache', to, of) = PageKeys(c1, to, of)
    BY <1>4, <1>5, AlikeSigned, AlikeKeys
  <1>7. Watched' \subseteq (Watched \cup first) \cup ks
    <2>1. Watched' = IF gate' # "done" \/ to \in Public THEN {}
                     ELSE IF ~Signed(c1) THEN {Session}
                     ELSE {Session} \cup PageKeys(c1, to, of) \cup OverKeys(over')
      BY <1>1, <1>6 DEF Watched, Inside
    <2>2. to \notin Public => Session \in Watched \cup first
      BY <1>3 DEF Watched
    <2>3. CASE to \in Public \/ gate' # "done" \/ ~Signed(c1)
      BY <2>1, <2>2, <2>3
    <2>4. CASE to \notin Public /\ gate' = "done" /\ Signed(c1)
      <3>1. PageKeys(c1, to, of) \subseteq Watched \cup ks
        BY <2>4 DEF ks
      <3>2. OverKeys(over') \subseteq Watched
        <4>1. CASE again
          <5>1. Inside /\ over' = over
            BY <1>1, <2>4, <4>1
          <5>2. QED
            BY <5>1 DEF Watched, Inside
        <4>2. CASE ~again
          BY <1>1, <4>2 DEF OverKeys, Nothing
        <4>3. QED
          BY <4>1, <4>2
      <3>3. QED
        BY <2>1, <2>2, <2>4, <3>1, <3>2
    <2>5. QED
      BY <2>3, <2>4
  <1>8. version \in [Sections -> Nat] /\ \A s \in Sections : version[s] <= version[s]
    BY DEF ChangeInv
  <1> HIDE DEF first
  <1>9. FreshIn(cache', version, Watched')
    BY <1>5, <1>7, <1>8, FreshFewer
  <1>10. QED
    BY <1>8, <1>9 DEF ChangeInv

\* The cache and the page's dialog change, and what the user's changes have
\* reached does not.
LEMMA CacheFresh ==
  ASSUME ChangeInv, OwnInv, UNCHANGED <<gate, path, at, version>>, NEW ks,
         Alike(cache', cache), FreshIn(cache', version, Watched \cup ks),
         Inside => OverKeys(over') \subseteq OverKeys(over) \cup ks
  PROVE  ChangeInv'
  <1>1. Watched' \subseteq Watched \cup ks
    BY WatchedStays
  <1>2. version \in [Sections -> Nat] /\ \A s \in Sections : version[s] <= version[s]
    BY DEF ChangeInv
  <1>3. FreshIn(cache', version, Watched')
    BY <1>1, <1>2, FreshFewer
  <1>4. QED
    BY <1>2, <1>3 DEF ChangeInv

\* One entry changes, and shows what it showed.
LEMMA EntryFresh ==
  ASSUME ChangeInv, OwnInv, UNCHANGED <<gate, path, at, over, version>>, NEW k \in Keys, NEW e,
         cache' = [cache EXCEPT ![k] = e], e.data = cache[k].data,
         Fresh(e, version[SectionOf(k)], k \in Watched)
  PROVE  ChangeInv'
  <1>1. FreshIn(cache', version, Watched)
    BY FreshOneEntry DEF ChangeInv, OwnInv
  <1>2. Alike(cache', cache)
    BY DEF Alike, OwnInv, OwnCache
  <1>3. Watched \cup {} = Watched
    OBVIOUS
  <1>4. QED
    BY <1>1, <1>2, <1>3, CacheFresh

\* Neither the cache nor the screen is touched.
LEMMA QuietFresh ==
  ASSUME ChangeInv, OwnInv, UNCHANGED <<gate, path, at, over, version, cache>>
  PROVE  ChangeInv'
  <1>1. Watched' = Watched
    BY DEF Watched, Inside
  <1>2. QED
    BY <1>1 DEF ChangeInv

EveryKind == UNION {Kinds[p] : p \in DOMAIN Kinds}

\* The pages with buttons of their own watch a workspace of a row only if they
\* are about it; of the others only the fleet's does, in a dialog.
LEMMA WatchedRows ==
  ASSUME PageInv, NEW k \in Watched, NEW s, k \in OfRow(s), path \in DOMAIN Kinds,
         path # "fleet"
  PROVE  path \in {"open", "settings"} /\ k \in OfRow(at)
  <1>1. k \notin {Session, Mine, Sessions, Fleet, Users, Invitations, Versions}
    BY RowsApart
  <1>2. OverKeys(over) \subseteq {Mine}
    BY DEF PageInv, OverIsHere, OverKeys
  <1>3. k \in PageKeys(cache, path, at)
    BY <1>1, <1>2 DEF Watched
  <1>4. path \in {"workspaces", "open", "settings", "new", "account", "security", "devices",
                  "users", "versions"}
    BY DEF Kinds
  <1>5. path \in {"open", "settings"}
    BY <1>1, <1>3, <1>4 DEF PageKeys, InstancesPage, ProfileCard, SessionsCard, AdminUsersPage,
       AdminVersionsPage
  <1>6. PageKeys(cache, path, at) \subseteq {Instance(at), Image(at)}
    BY <1>5 DEF PageKeys, OpenWorkspacePage, WorkspaceSettingsPage
  <1>7. QED
    BY <1>3, <1>5, <1>6 DEF OfRow

\* What the answer to a change must bring up to date, it gives up.
LEMMA OwedIsRefreshed ==
  ASSUME PageInv, NEW q, q.kind \in EveryKind, q.here => OnPage(q), NEW k \in Keys, Owes(q, k)
  PROVE  k \in Refreshes(q.kind, q.row)
  <1>1. /\ SectionOf(k) \in Changes(q.kind, q.row) /\ q.kind # "password"
        /\ k \in UNION {OfRow(r) : r \in Rows} =>
             q.here /\ k \in Watched /\ q.kind \notin FleetKinds
        /\ OwnRole(q.kind, q.row) => k = Session
    BY DEF Owes
  <1>2. q.kind \in CardKinds \cup {"create"} \cup FleetKinds \cup OpenKinds \cup SettingsKinds
          \cup {"name", "password", "revokeSession"}
          \cup InviteKinds \cup UserKinds \cup VersionKinds
    BY DEF EveryKind, Kinds
  <1> USE DEF CardKinds, OpenKinds, SettingsKinds, FleetKinds, UserKinds, InviteKinds, VersionKinds,
             OnImage
  <1>3. CASE q.kind \in CardKinds \cup {"create"} \cup FleetKinds
    <2>1. SectionOf(k) \in {"instances", "tags"} /\ Refreshes(q.kind, q.row) = Lists
      BY <1>1, <1>3 DEF Changes, Refreshes
    <2>2. k \notin UNION {OfRow(r) : r \in Rows}
      <3> SUFFICES ASSUME NEW s \in Rows, k \in OfRow(s) PROVE FALSE
        OBVIOUS
      <3>1. q.here /\ k \in Watched /\ q.kind \notin FleetKinds
        BY <1>1
      <3>2. OnPage(q)
        BY <3>1
      <3>3. path \in {"workspaces", "new"}
        BY <1>3, <3>1, <3>2 DEF OnPage, Kinds
      <3>4. path \in DOMAIN Kinds
        BY <3>2 DEF OnPage
      <3>5. QED
        BY <3>1, <3>3, <3>4, WatchedRows
    <2>3. QED
      BY <2>1, <2>2, SectionsOfKeys
  <1>4. CASE q.kind \in OpenKinds \cup SettingsKinds
    <2>1. /\ SectionOf(k) \in {"instances", "tags"}
          /\ Refreshes(q.kind, q.row) = Lists \cup OfRow(q.row)
      BY <1>1, <1>4 DEF Changes, Refreshes
    <2>2. ASSUME NEW s \in Rows, k \in OfRow(s) PROVE k \in OfRow(q.row)
      <3>1. q.here /\ k \in Watched
        BY <1>1, <2>2
      <3>2. OnPage(q)
        BY <3>1
      <3>3. path \in DOMAIN Kinds /\ path # "fleet" /\ q.row = at
        BY <1>4, <3>2 DEF OnPage, Kinds
      <3>4. QED
        BY <2>2, <3>1, <3>3, WatchedRows
    <2>3. QED
      BY <2>1, <2>2, SectionsOfKeys
  <1>5. CASE q.kind = "name"
    BY <1>1, <1>5, SectionsOfKeys DEF Changes, Refreshes
  <1>6. CASE q.kind = "revokeSession"
    BY <1>1, <1>6, SectionsOfKeys DEF Changes, Refreshes
  <1>7. CASE q.kind \in InviteKinds
    <2>1. SectionOf(k) = "invitations" /\ Refreshes(q.kind, q.row) = {Invitations}
      BY <1>1, <1>7 DEF Changes, Refreshes
    <2>2. QED
      BY <2>1, SectionsOfKeys
  <1>8. CASE q.kind \in UserKinds
    <2>1. /\ Refreshes(q.kind, q.row) = {IF OwnRole(q.kind, q.row) THEN Session ELSE Users}
          /\ SectionOf(k) \in {"users"} \cup {x \in {"me"} : OwnRole(q.kind, q.row)}
      BY <1>1, <1>8 DEF Changes, Refreshes
    <2>2. QED
      BY <1>1, <2>1, SectionsOfKeys
  <1>9. CASE q.kind \in VersionKinds
    <2>1. SectionOf(k) = "versions" /\ Refreshes(q.kind, q.row) = {Versions}
      BY <1>1, <1>9 DEF Changes, Refreshes
    <2>2. QED
      BY <2>1, SectionsOfKeys
  <1>10. QED
    BY <1>1, <1>2, <1>3, <1>4, <1>5, <1>6, <1>7, <1>8, <1>9

\* An entry that is given up shows what it showed until it is answered.
LEMMA InvalidateKeeps ==
  ASSUME NEW x, NEW e, NEW w, NEW who, Own(e, x)
  PROVE  Invalidate(e, w, who).data = e.data
  <1> DEFINE f == IF e = Blank THEN e ELSE [e EXCEPT !.old = TRUE]
  <1>1. f.data = e.data /\ DOMAIN f = DOMAIN e /\ "data" \in DOMAIN e
    BY DEF Own
  <1>2. Invalidate(e, w, who) =
          IF Restarts(e, w) THEN Sent(f, who) ELSE [f EXCEPT !.late = ~Idle(e)]
    BY DEF Invalidate
  <1> HIDE DEF f
  <1>3. Sent(f, who).data = f.data /\ [f EXCEPT !.late = ~Idle(e)].data = f.data
    BY <1>1 DEF Sent
  <1>4. QED
    BY <1>1, <1>2, <1>3

\* The answer to a change leaves no entry behind what it owes.
LEMMA RefreshedFresh ==
  ASSUME PageInv, AskInv, OwnInv, ChangeInv, NEW n \in DOMAIN req
  PROVE  /\ FreshIn(Refreshed(req[n]), version, Watched)
         /\ Alike(Refreshed(req[n]), cache)
  <1> DEFINE q == req[n]
  <1>1. q.kind \in EveryKind /\ (q.here => OnPage(q))
    <2>1. PICK as : req[n] \in Asked(as)
      BY AskedIs
    <2>2. QED
      BY <2>1 DEF Asked, EveryKind, PageInv
  <1> HIDE DEF q
  <1>2. ASSUME NEW k \in Keys
        PROVE  /\ Fresh(Refreshed(q)[k], version[SectionOf(k)], k \in Watched)
               /\ Refreshed(q)[k].data = cache[k].data
    <2> DEFINE v == version[SectionOf(k)]
               e == IF Owes(q, k) THEN [cache[k] EXCEPT !.owed = v] ELSE cache[k]
    <2>1. /\ v \in Nat /\ Own(cache[k], era) /\ Fresh(cache[k], v, k \in Watched)
      BY SectionsOfKeys DEF ChangeInv, FreshIn, OwnInv, OwnCache
    <2>2. /\ Own(e, era) /\ e.data = cache[k].data /\ e.owed \in Nat /\ e.owed <= v
      <3> HIDE DEF v
      <3>1. QED
        BY <2>1 DEF Own, Fresh
    <2>3. Refreshed(q)[k] =
            IF k \in Refreshes(q.kind, q.row) THEN Invalidate(e, k \in Watched, cookie) ELSE e
      BY DEF Refreshed
    <2>4. k \notin Refreshes(q.kind, q.row) => e = cache[k]
      BY <1>1, OwedIsRefreshed
    <2> HIDE DEF e, v
    <2>5. CASE k \in Refreshes(q.kind, q.row)
      <3>1. Fresh(Invalidate(e, k \in Watched, cookie), v, k \in Watched)
        BY <2>2, FreshInvalidate
      <3>2. Invalidate(e, k \in Watched, cookie).data = e.data
        BY <2>2, InvalidateKeeps
      <3>3. QED
        BY <2>2, <2>3, <2>5, <3>1, <3>2 DEF v
    <2>6. CASE k \notin Refreshes(q.kind, q.row)
      BY <2>1, <2>3, <2>4, <2>6 DEF v
    <2>7. QED
      BY <2>5, <2>6
  <1>3. QED
    BY <1>2 DEF FreshIn, Alike, q

\* A document that has just been opened owes nothing.
LEMMA InitChange == Init => PageInv /\ ChangeInv
  <1> SUFFICES ASSUME Init PROVE PageInv /\ ChangeInv
    OBVIOUS
  <1>1. /\ version = [x \in Sections |-> 0] /\ cache = [k \in Keys |-> Blank]
        /\ req = <<>> /\ over = Nothing
    BY DEF Init, InitConsole
  <1>2. ASSUME NEW k \in Keys PROVE Fresh(cache[k], version[SectionOf(k)], k \in Watched)
    BY <1>1, SectionsOfKeys, FreshBlank
  <1>3. QED
    BY <1>1, <1>2 DEF PageInv, OverIsHere, Nothing, ChangeInv, FreshIn

\* Nothing is cached any more.
LEMMA ForgetFresh ==
  ASSUME ChangeInv, cache' = [k \in Keys |-> Blank], version' = version
  PROVE  ChangeInv'
  <1>1. ASSUME NEW k \in Keys PROVE Fresh(cache'[k], version'[SectionOf(k)], k \in Watched')
    BY SectionsOfKeys, FreshBlank DEF ChangeInv
  <1>2. QED
    BY <1>1 DEF ChangeInv, FreshIn

\* The steps of a query.
LEMMA QueriesFresh ==
  ASSUME ChangeInv, OwnInv, NEW k \in Keys, Served(k) \/ Arrives(k) \/ Drops(k) \/ Polls(k)
  PROVE  ChangeInv'
  <1> DEFINE v == version[SectionOf(k)]
  <1>0. /\ Own(cache[k], era) /\ OwnCache(cache, era) /\ Place(path, at)
        /\ v \in Nat /\ Fresh(cache[k], v, k \in Watched)
        /\ FreshIn(cache, version, Watched)
    BY SectionsOfKeys DEF OwnInv, OwnCache, Placed, ChangeInv, FreshIn
  <1> HIDE DEF v
  <1>1. ASSUME Served(k) PROVE ChangeInv'
    <2> DEFINE e == IF Answers(k) THEN Read(cache[k], Answer(k)) ELSE Refuse(cache[k])
    <2>1. Answer(k).version = v
      BY DEF Answer, v
    <2>2. Fresh(e, v, k \in Watched)
      BY <1>0, <2>1, FreshRead, FreshRefuse
    <2>3. e.data = cache[k].data
      BY <1>0 DEF Own, Read, Refuse
    <2>4. cache' = [cache EXCEPT ![k] = e] /\ UNCHANGED <<gate, path, at, over, version>>
      BY <1>1 DEF Served, pageVars, serverVars
    <2> HIDE DEF e
    <2>5. QED
      BY <2>2, <2>3, <2>4, EntryFresh DEF v
  <1>2. ASSUME Arrives(k) PROVE ChangeInv'
    <2> DEFINE e == IF cache[k].fetch = "read" THEN Arrived(cache[k], k = Session)
                    ELSE Failed(cache[k])
               c == [cache EXCEPT ![k] = e]
    <2>1. Own(e, era) /\ Fresh(e, v, k \in Watched)
      BY <1>0, OwnArrived, OwnFailed, FreshArrived, FreshFailed
    <2>2. Shows(c, path, at, cookie) /\ gate' = gate /\ version' = version
      BY <1>2 DEF Arrives, serverVars
    <2>3. OwnCache(c, era) /\ FreshIn(c, version, Watched)
      <3> HIDE DEF e
      <3>1. QED
        BY <1>0, <2>1, OwnOneEntry, FreshOneEntry DEF v
    <2> HIDE DEF c
    <2>4. QED
      BY <1>0, <2>2, <2>3, ShowsFresh
  <1>3. ASSUME Drops(k) PROVE ChangeInv'
    <2> DEFINE c == [cache EXCEPT ![k] = Failed(cache[k])]
    <2>1. OwnCache(c, era) /\ FreshIn(c, version, Watched)
      <3>1. Own(Failed(cache[k]), era) /\ Fresh(Failed(cache[k]), v, k \in Watched)
        BY <1>0, OwnFailed, FreshFailed
      <3>2. QED
        BY <1>0, <3>1, OwnOneEntry, FreshOneEntry DEF v
    <2>2. Shows(c, path, at, cookie) /\ gate' = gate /\ version' = version
      BY <1>3 DEF Drops, serverVars
    <2> HIDE DEF c
    <2>3. QED
      BY <1>0, <2>1, <2>2, ShowsFresh
  <1>4. ASSUME Polls(k) PROVE ChangeInv'
    <2>1. Fresh(Poll(cache[k], cookie), v, k \in Watched)
      BY <1>0, FreshPoll
    <2>2. Poll(cache[k], cookie).data = cache[k].data
      BY <1>0 DEF Own, Poll, Sent
    <2>3. /\ cache' = [cache EXCEPT ![k] = Poll(cache[k], cookie)]
          /\ UNCHANGED <<gate, path, at, over, version>>
      BY <1>4 DEF Polls, pageVars, serverVars
    <2>4. QED
      BY <2>1, <2>2, <2>3, EntryFresh DEF v
  <1>5. QED
    BY <1>1, <1>2, <1>3, <1>4

\* Signing in and out.
LEMMA SignsFresh ==
  ASSUME ChangeInv, OwnInv, SignInAnswered \/ SignInAfterAnswered \/ SignOutAnswered
  PROVE  ChangeInv'
  <1> DEFINE data == [who |-> auth.who, admin |-> auth.who \in admins, era |-> era,
                      version |-> version["me"], rows |-> <<>>]
             c == [cache EXCEPT ![Session] = SetData(cache[Session], data)]
  <1>0. /\ SignedIn(auth.who) = c /\ Session \in Keys /\ Place("home", NoRow)
        /\ SectionOf(Session) = "me" /\ version["me"] \in Nat
    BY DEF SignedIn, Keys, Place, RowPages, SectionOf, ChangeInv, Sections
  <1>1. OwnCache(cache, era) /\ FreshIn(cache, version, Watched)
    BY DEF OwnInv, ChangeInv
  <1>2. OwnCache(c, era) /\ FreshIn(c, version, Watched)
    <2>1. /\ Own(cache[Session], era)
          /\ Fresh(cache[Session], version["me"], Session \in Watched)
      BY <1>0, <1>1 DEF OwnCache, FreshIn
    <2>2. data.era = era /\ data.version = version["me"]
      OBVIOUS
    <2> HIDE DEF data
    <2>3. /\ Own(SetData(cache[Session], data), era)
          /\ Fresh(SetData(cache[Session], data), version["me"], Session \in Watched)
      BY <1>0, <2>1, <2>2, OwnSetData, FreshSetData
    <2>4. QED
      BY <1>0, <1>1, <2>3, OwnOneEntry, FreshOneEntry
  <1> HIDE DEF c
  <1>3. ASSUME Shows(SignedIn(auth.who), "home", NoRow, auth.who), UNCHANGED <<gate, version>>
        PROVE  ChangeInv'
    <2>1. Shows(c, "home", NoRow, auth.who) /\ gate' = gate /\ version' = version
      BY <1>0, <1>3
    <2>2. QED
      BY <1>0, <1>2, <2>1, ShowsFresh
  <1>4. ASSUME SignInAnswered PROVE ChangeInv'
    <2>1. CASE auth.next # NoPage
      <3>1. cache' = [k \in Keys |-> Blank] /\ version' = version
        BY <1>4, <2>1 DEF SignInAnswered, Load
      <3>2. QED
        BY <3>1, ForgetFresh
    <2>2. CASE auth.next = NoPage
      BY <1>3, <1>4, <2>2 DEF SignInAnswered
    <2>3. QED
      BY <2>1, <2>2
  <1>5. ASSUME SignInAfterAnswered PROVE ChangeInv'
    BY <1>3, <1>5 DEF SignInAfterAnswered
  <1>6. ASSUME SignOutAnswered PROVE ChangeInv'
    BY <1>6, ForgetFresh DEF SignOutAnswered, serverVars
  <1>7. QED
    BY <1>4, <1>5, <1>6

\* The user, or a redirect, goes somewhere.
LEMMA GoesFresh ==
  ASSUME ChangeInv, OwnInv,
         \/ AppStarts \/ SessionAges \/ WorkspaceOpens
         \/ \E p \in left.pages, r \in Rows \cup {NoRow} : Move(p, r) \/ Reload(p, r)
  PROVE  ChangeInv'
  <1>0. OwnCache(cache, era) /\ FreshIn(cache, version, Watched) /\ Place(path, at)
    BY DEF OwnInv, Placed, ChangeInv
  <1>1. ASSUME AppStarts PROVE ChangeInv'
    <2>1. Shows(cache, path, at, cookie) /\ gate' = "done" /\ version' = version
      BY <1>1 DEF AppStarts, serverVars
    <2>2. QED
      BY <1>0, <2>1, ShowsFresh
  <1>2. ASSUME SessionAges PROVE ChangeInv'
    <2>1. /\ Session \in Keys /\ Own(cache[Session], era)
          /\ Fresh(cache[Session], version[SectionOf(Session)], Session \in Watched)
      BY <1>0 DEF OwnCache, FreshIn, Keys
    <2> DEFINE e == [cache[Session] EXCEPT !.old = TRUE]
    <2>2. /\ Fresh(e, version[SectionOf(Session)], Session \in Watched)
          /\ e.data = cache[Session].data
      BY <2>1, FreshOlder DEF Own
    <2>3. cache' = [cache EXCEPT ![Session] = e] /\ UNCHANGED <<gate, path, at, over, version>>
      BY <1>2 DEF SessionAges, pageVars, serverVars
    <2> HIDE DEF e
    <2>4. QED
      BY <2>1, <2>2, <2>3, EntryFresh
  <1>3. ASSUME WorkspaceOpens PROVE ChangeInv'
    <2>1. PICK p \in {"home", "workspaces", "detail"} :
            Shows(cache, p, IF p = "detail" THEN at ELSE NoRow, cookie)
      BY <1>3 DEF WorkspaceOpens
    <2> DEFINE r == IF p = "detail" THEN at ELSE NoRow
    <2>2. Place(p, r) /\ gate' = gate /\ version' = version /\ Shows(cache, p, r, cookie)
      BY <1>0, <1>3, <2>1 DEF WorkspaceOpens, Place, RowPages, serverVars
    <2> HIDE DEF r
    <2>3. QED
      BY <1>0, <2>2, ShowsFresh
  <1>4. ASSUME NEW p, NEW r \in Rows \cup {NoRow}, Move(p, r) PROVE ChangeInv'
    <2>1. Shows(cache, p, r, cookie) /\ Place(p, r) /\ gate' = gate /\ version' = version
      BY <1>4 DEF Move, Place, serverVars
    <2>2. QED
      BY <1>0, <2>1, ShowsFresh
  <1>5. ASSUME NEW p, NEW r, Reload(p, r) PROVE ChangeInv'
    BY <1>5, ForgetFresh DEF Reload, Load, serverVars
  <1>6. QED
    BY <1>1, <1>2, <1>3, <1>4, <1>5

\* What is opened on a page is mounted, what is closed is watched no more.
LEMMA DialogsFresh ==
  ASSUME ChangeInv, OwnInv,
         \/ \E kind \in Here, r \in Rows \cup {NoRow} : OpenDialog(kind, r) \/ Ask(kind, r)
         \/ \E kind \in Sheets, r \in Rows : OpenSheet(kind, r)
         \/ OpenMenu \/ CloseOver
  PROVE  ChangeInv'
  <1>0. /\ OwnCache(cache, era) /\ FreshIn(cache, version, Watched)
        /\ Alike(cache, cache) /\ Watched \cup {} = Watched
    BY DEF OwnInv, ChangeInv, Alike
  \* What is mounted is what the dialog watches.
  <1>m. ASSUME NEW ks, cache' = MountIn(cache, ks, cookie), UNCHANGED <<gate, path, at, version>>,
               OverKeys(over') \subseteq OverKeys(over) \cup ks
        PROVE  ChangeInv'
    <2>1. Alike(cache', cache) /\ FreshIn(cache', version, Watched \cup ks)
      BY <1>0, <1>m, MountAlike, FreshMountIn
    <2>2. QED
      BY <1>m, <2>1, CacheFresh
  <1>k. ASSUME UNCHANGED <<gate, path, at, version, cache>>,
               OverKeys(over') \subseteq OverKeys(over)
        PROVE  ChangeInv'
    BY <1>0, <1>k, CacheFresh
  <1>1. ASSUME NEW kind \in Here, NEW r, OpenDialog(kind, r) PROVE ChangeInv'
    <2> DEFINE ks == IF kind = "image" THEN {AdminImage(r)} ELSE {}
    <2>1. /\ cache' = MountIn(cache, ks, cookie) /\ over' = [what |-> kind, row |-> r]
          /\ UNCHANGED <<gate, path, at, version>>
      BY <1>1 DEF OpenDialog, Opens, serverVars
    <2>2. /\ kind \in Confirmed \cup Forms
          /\ kind = "adminRollback" => over = [what |-> "image", row |-> r]
      BY <1>1 DEF OpenDialog
    <2>3. OverKeys(over') \subseteq OverKeys(over) \cup ks
      BY <2>1, <2>2 DEF OverKeys, Confirmed, Forms
    <2> HIDE DEF ks
    <2>4. QED
      BY <1>m, <2>1, <2>3
  <1>2. ASSUME NEW kind, NEW r, Ask(kind, r) PROVE ChangeInv'
    <2>1. over' \in {over, Nothing} /\ UNCHANGED <<gate, path, at, version, cache>>
      BY <1>2 DEF Ask, serverVars
    <2>2. OverKeys(over') \subseteq OverKeys(over)
      BY <2>1 DEF OverKeys, Nothing
    <2>3. QED
      BY <1>k, <2>1, <2>2
  <1>3. ASSUME NEW kind \in Sheets, NEW r, OpenSheet(kind, r) PROVE ChangeInv'
    <2>1. over' = [what |-> kind, row |-> r] /\ UNCHANGED <<gate, path, at, version, cache>>
      BY <1>3 DEF OpenSheet, Opens, serverVars
    <2>2. OverKeys(over') \subseteq OverKeys(over)
      BY <2>1 DEF OverKeys, Sheets
    <2>3. QED
      BY <1>k, <2>1, <2>2
  <1>4. CASE OpenMenu
    <2>1. /\ cache' = MountIn(cache, {Mine}, cookie) /\ over' = [what |-> "menu", row |-> NoRow]
          /\ UNCHANGED <<gate, path, at, version>>
      BY <1>4 DEF OpenMenu, Opens, serverVars
    <2>2. OverKeys(over') \subseteq OverKeys(over) \cup {Mine}
      BY <2>1 DEF OverKeys
    <2>3. QED
      BY <1>m, <2>1, <2>2
  <1>5. CASE CloseOver
    <2>1. /\ over' = IF over.what = "adminRollback" THEN [what |-> "image", row |-> over.row]
                     ELSE [what |-> "nothing", row |-> NoRow]
          /\ UNCHANGED <<gate, path, at, version, cache>>
      BY <1>5 DEF CloseOver, Opens, serverVars
    <2>2. OverKeys(over') \subseteq OverKeys(over)
      BY <2>1 DEF OverKeys
    <2>3. QED
      BY <1>k, <2>1, <2>2
  <1>6. QED
    BY <1>1, <1>2, <1>3, <1>4, <1>5

\* The server carries a request out: from now on its section is newer.
LEMMA CarriesFresh ==
  ASSUME ChangeInv, OwnInv, NEW n, Carries(n)
  PROVE  ChangeInv'
  <1>1. /\ version' = [x \in Sections |->
                         version[x] + IF x \in Changes(req[n].kind, req[n].row) THEN 1 ELSE 0]
        /\ UNCHANGED <<gate, path, at, over, cache>>
    BY DEF Carries, pageVars
  <1>2. /\ version \in [Sections -> Nat] /\ version' \in [Sections -> Nat]
        /\ \A s \in Sections : version[s] <= version'[s]
    BY <1>1 DEF ChangeInv
  <1>3. Watched' = Watched
    BY <1>1 DEF Watched, Inside
  <1>4. FreshIn(cache, version', Watched)
    BY <1>2, FreshFewer DEF ChangeInv
  <1>5. QED
    BY <1>1, <1>2, <1>3, <1>4 DEF ChangeInv

\* The answer to a change, wherever the user is by now.
LEMMA AnsweredFresh ==
  ASSUME PageInv, AskInv, ChangeInv, OwnInv, NEW n \in DOMAIN req, Answered(n)
  PROVE  ChangeInv'
  <1> DEFINE c == Refreshed(req[n])
  <1>1. /\ OwnCache(c, era) /\ FreshIn(c, version, Watched) /\ Alike(c, cache)
        /\ Place("home", NoRow) /\ Watched \cup {} = Watched
    BY OwnRefreshed, RefreshedFresh DEF Place, RowPages
  <1>2. gate' = gate /\ version' = version
    BY DEF Answered, serverVars
  <1>3. CASE OwnRole(req[n].kind, req[n].row)
    <2>1. Shows(c, "home", NoRow, cookie)
      BY <1>3 DEF Answered
    <2> HIDE DEF c
    <2>2. QED
      BY <1>1, <1>2, <2>1, ShowsFresh
  <1>4. CASE ~OwnRole(req[n].kind, req[n].row)
    <2>1. cache' = c /\ over' = Over(n) /\ UNCHANGED <<path, at>>
      BY <1>4 DEF Answered
    <2>2. \/ Over(n) \in {over, Nothing}
          \/ \E r : Over(n) = [what |-> "created", row |-> r]
      BY DEF Over
    <2>3. OverKeys(over') \subseteq OverKeys(over)
      BY <2>1, <2>2 DEF OverKeys, Nothing
    <2> HIDE DEF c
    <2>4. QED
      BY <1>1, <1>2, <2>1, <2>3, CacheFresh
  <1>5. QED
    BY <1>3, <1>4

\* A release has come to the host.
LEMMA PullFresh == ASSUME ChangeInv, OwnInv, PullSettles PROVE ChangeInv'
  <1> DEFINE more == [version EXCEPT !["versions"] = version["versions"] + 1]
             e == [cache[Versions] EXCEPT !.owed = version["versions"] + 1]
             c == [cache EXCEPT ![Versions] = Invalidate(e, TRUE, cookie)]
  <1>1. /\ OwnCache(cache, era) /\ Versions \in Keys /\ Own(cache[Versions], era)
        /\ version \in [Sections -> Nat] /\ version["versions"] \in Nat
        /\ SectionOf(Versions) = "versions"
    BY SectionOfVersions DEF OwnInv, OwnCache, Keys, AdminKeys, ChangeInv, Sections
  <1>2. UNCHANGED <<gate, path, at>> /\ over' = [over EXCEPT !.what = "warmed"]
    BY DEF PullSettles
  <1>3. OverKeys(over') = {}
    <2>1. over'.what = "warmed"
      BY <1>2 DEF OwnInv, Placed
    <2>2. QED
      BY <2>1 DEF OverKeys
  <1>4. CASE version' = version /\ cache' = cache
    <2>1. Watched \cup {} = Watched /\ Alike(cache', cache) /\ FreshIn(cache', version, Watched)
      BY <1>4 DEF ChangeInv, Alike
    <2>2. QED
      BY <1>2, <1>3, <1>4, <2>1, CacheFresh
  <1>5. CASE version' = more /\ cache' = c
    <2>1. /\ more \in [Sections -> Nat] /\ \A s \in Sections : version[s] <= more[s]
          /\ more["versions"] = version["versions"] + 1
      BY <1>1 DEF Sections
    <2>2. /\ Own(e, era) /\ e.owed = version["versions"] + 1
          /\ e.data = cache[Versions].data
      BY <1>1 DEF Own
    <2> HIDE DEF e, more
    <2>3. /\ Fresh(Invalidate(e, TRUE, cookie), more["versions"], TRUE)
          /\ Invalidate(e, TRUE, cookie).data = cache[Versions].data
      <3>1. e.owed \in Nat /\ e.owed <= more["versions"]
        BY <1>1, <2>1, <2>2
      <3>2. Fresh(Invalidate(e, TRUE, cookie), more["versions"], TRUE)
        BY <2>2, <3>1, FreshInvalidate
      <3>3. \A w : Invalidate(e, w, cookie).data = e.data
        BY <2>2, InvalidateKeeps
      <3>4. QED
        BY <2>2, <3>2, <3>3
    <2>4. Alike(c, cache)
      BY <1>1, <2>3 DEF Alike, OwnCache
    <2>5. Watched' \subseteq Watched
      <3>1. cache' = c /\ Alike(cache', cache) /\ Watched \cup {} = Watched
        BY <1>5, <2>4
      <3>2. QED
        BY <1>2, <1>3, <3>1, WatchedStays
    <2>6. FreshIn(cache, more, Watched)
      BY <1>1, <2>1, FreshFewer DEF ChangeInv
    <2>7. FreshIn(c, more, Watched)
      <3>1. Fresh(Invalidate(e, TRUE, cookie), more[SectionOf(Versions)], Versions \in Watched)
        BY <1>1, <2>3 DEF Fresh
      <3>2. QED
        BY <1>1, <2>6, <3>1, FreshOneEntry
    <2> HIDE DEF c
    <2>8. \A s \in Sections : more[s] <= more[s]
      BY <2>1
    <2>9. FreshIn(c, more, Watched')
      BY <2>1, <2>5, <2>7, <2>8, FreshFewer
    <2>10. QED
      BY <1>5, <2>1, <2>9 DEF ChangeInv
  <1>6. QED
    BY <1>4, <1>5 DEF PullSettles

\* The steps that touch nothing that is shown or owed.
LEMMA ApartFresh ==
  ASSUME ChangeInv, OwnInv,
         \/ WizardOpens \/ Wizard \/ SessionChanges
         \/ \E p \in People : AskSignIn(p)
         \/ AskAccept \/ AskSignOut \/ ServeAuth \/ AcceptAnswered \/ AuthFails
         \/ \E n \in DOMAIN req : Refuses(n) \/ AskFails(n)
         \/ \E r \in Rows : Drifts(r) \/ Provisioned(r)
  PROVE  ChangeInv'
  <1>1. CASE WizardOpens
    <2>1. Watched' = Watched /\ UNCHANGED <<cache, version>>
      BY <1>1 DEF WizardOpens, Watched, serverVars
    <2>2. QED
      BY <2>1 DEF ChangeInv
  <1>2. CASE \/ Wizard \/ SessionChanges
             \/ \E p \in People : AskSignIn(p)
             \/ AskAccept \/ AskSignOut \/ ServeAuth \/ AcceptAnswered \/ AuthFails
             \/ \E n \in DOMAIN req : Refuses(n) \/ AskFails(n)
             \/ \E r \in Rows : Drifts(r) \/ Provisioned(r)
    <2>1. UNCHANGED <<gate, path, at, over, version, cache>>
      BY <1>2 DEF Wizard, SessionChanges, AskSignIn, AskAccept, AskSignOut, ServeAuth,
         AcceptAnswered, AuthFails, Refuses, AskFails, Drifts, Provisioned, pageVars, serverVars
    <2>2. QED
      BY <2>1, QuietFresh
  <1>3. QED
    BY <1>1, <1>2

\* query-keys.ts: once a change has been answered, neither its lists nor the
\* page it was made on show less, but for an error and for a fetch that was
\* under way.
THEOREM ChangesAreShown == Spec => []OwnChangeShown
  <1>1. Init => PageInv /\ ChangeInv
    BY InitChange
  <1>2. OwnInv /\ AskInv /\ PageInv /\ ChangeInv /\ [Next]_vars => PageInv' /\ ChangeInv'
    <2> SUFFICES ASSUME OwnInv, AskInv, PageInv, ChangeInv, [Next]_vars
                 PROVE  PageInv' /\ ChangeInv'
      OBVIOUS
    <2>1. CASE NextPages
      <3>1. PageInv'
        BY <2>1, GoesPage, AnswersPage, AsksPage, OpensPage, ApartPage
        DEF NextPages, NextConsole, AuthAnswered
      <3>2. ChangeInv'
        BY <2>1, QueriesFresh, SignsFresh, GoesFresh, DialogsFresh, CarriesFresh, AnsweredFresh,
           PullFresh, ApartFresh
        DEF NextPages, NextConsole, AuthAnswered
      <3>3. QED
        BY <3>1, <3>2
    <2>2. CASE UNCHANGED <<path, at, over, gate, version, cache, req>>
      <3>1. PageInv'
        BY <2>2 DEF PageInv, OverIsHere, OnPage
      <3>2. QED
        BY <2>2, <3>1, QuietFresh
    <2>3. QED
      BY <2>1, <2>2 DEF vars, Next, Tab, Logs, consoleVars, pageVars, serverVars
  <1>3. OwnInv /\ ChangeInv => OwnChangeShown
    <2> SUFFICES ASSUME OwnInv, ChangeInv, NEW k \in Watched
                 PROVE  Idle(cache[k]) /\ cache[k].data # NoData /\ ~cache[k].failed
                          /\ ~cache[k].late => cache[k].data.version >= cache[k].owed
      BY DEF OwnChangeShown
    <2>1. k \in Keys
      BY WatchedIsKeys
    <2>2. QED
      BY <2>1 DEF ChangeInv, FreshIn, Fresh
  <1>4. QED
    BY <1>1, <1>2, <1>3, OwnAlways, AskAlways, PTL DEF Spec

=============================================================================
