----------------------------- MODULE SetupPage ------------------------------
(***************************************************************************)
(* The wizard's page (pages/SetupPage.tsx): the two domains are probed     *)
(* while they are typed, and the submit button waits for a good answer or  *)
(* for the user to waive it.  An input stands for the two domains as the   *)
(* page normalises them (domain, consoleDomain).                           *)
(***************************************************************************)
EXTENDS Naturals

CONSTANTS Domains,   \* pairs of domains of the right shape
          Malformed  \* any text that is not one (the empty form too)

ASSUME DomainsAssumption == Malformed \notin Domains

Inputs == Domains \cup {Malformed}

VARIABLE wizard

BlankWizard(token) ==
    [token |-> token, input |-> Malformed, override |-> FALSE,
     result |-> [key |-> Malformed, state |-> "idle"], probe |-> "off",
     submit |-> "idle",
     verdict |-> "none",   \* history: what the probe said of this input since it was typed
     waived |-> FALSE,     \* history: the user has waived that verdict
     checked |-> FALSE]    \* history: the input submitted was approved or waived

WizardType ==
    wizard \in [token : BOOLEAN, input : Inputs, override : BOOLEAN,
                result : [key : Inputs, state : {"idle", "checking", "ok", "missing", "error"}],
                probe : {"off", "timer", "sent"},
                submit : {"idle", "sent", "done", "error"},
                verdict : {"none", "ok", "missing", "error"},
                waived : BOOLEAN, checked : BOOLEAN]

ShapeOk == wizard.input \in Domains

\* What useDomainProbe returns.
Probe ==
    IF ~wizard.token \/ ~ShapeOk THEN "idle"
    ELSE IF wizard.result.key = wizard.input THEN wizard.result.state
    ELSE "checking"

Blocked == Probe # "ok" /\ ~wizard.override

-----------------------------------------------------------------------------
\* Slip: the waiver outlives the input it was given for.
TypeKeepsWaiver(i) ==
    /\ wizard.submit # "done"
    /\ i # wizard.input
    /\ LET probes == wizard.token /\ i \in Domains IN
         wizard' = [wizard EXCEPT
             !.input = i,
             !.result = IF probes THEN [key |-> i, state |-> "checking"] ELSE @,
             !.probe = IF probes THEN "timer" ELSE "off",
             !.verdict = "none", !.waived = FALSE]

\* The effects of the new input: the waiver is withdrawn, the probe of the
\* former input is forgotten (timer cleared, answer ignored), a new one waits.
Type(i) ==
    /\ wizard.submit # "done"
    /\ i # wizard.input
    /\ LET probes == wizard.token /\ i \in Domains IN
         wizard' = [wizard EXCEPT
             !.input = i,
             !.override = FALSE,
             !.result = IF probes THEN [key |-> i, state |-> "checking"] ELSE @,
             !.probe = IF probes THEN "timer" ELSE "off",
             !.verdict = "none", !.waived = FALSE]

\* 450 ms without a key.
ProbeLeaves ==
    /\ wizard.probe = "timer"
    /\ wizard' = [wizard EXCEPT !.probe = "sent"]

\* probeSetupDomain: resolved, not resolved, or the request failed.
ProbeAnswers ==
    /\ wizard.probe = "sent"
    /\ \E state \in {"ok", "missing", "error"} :
         wizard' = [wizard EXCEPT
             !.probe = "off",
             !.result = [key |-> wizard.input, state |-> state],
             !.verdict = state]

Waive ==
    /\ wizard.submit # "done"
    /\ Blocked /\ Probe \in {"missing", "error"}
    /\ wizard' = [wizard EXCEPT !.override = TRUE, !.waived = TRUE]

Submit ==
    /\ wizard.submit \in {"idle", "error"}
    /\ wizard.token /\ ShapeOk /\ ~Blocked
    /\ wizard' = [wizard EXCEPT
           !.submit = "sent",
           !.checked = wizard.verdict = "ok" \/ wizard.waived]

\* submitSetup: success, which replaces the form for good, or a 4xx, or no
\* answer, stored or not (the server's side of it is Console's Submitted).
SubmitAnswers ==
    /\ wizard.submit = "sent"
    /\ \E outcome \in {"done", "error"} :
         wizard' = [wizard EXCEPT !.submit = outcome]

-----------------------------------------------------------------------------
(* The domains a submission carries were approved by the probe, or waived  *)
(* by the user after the probe had failed, since they were last typed: no  *)
(* verdict and no waiver of other domains lets them through                *)
(* (SetupPage.tsx: "nothing is submitted before the resolution is seen").  *)
SetupSendsChecked == wizard.submit # "idle" => wizard.checked

=============================================================================
