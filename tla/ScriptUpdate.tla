---------------------------- MODULE ScriptUpdate -----------------------------
(***************************************************************************)
(* The CFS Power Script half of the Power Update page, sysinfo_panel.cpp:  *)
(* looking for a new version through Moonraker's update manager, and       *)
(* installing it.                                                          *)
(*                                                                         *)
(* The LVGL thread starts the requests, and its 500 ms timer puts the      *)
(* result on the screen; the WebSocket loop thread runs their answers.     *)
(* The two share script_state and script_dirty under script_mutex, but not *)
(* script_check_started, nor the test that handle_callback makes of        *)
(* script_state.                                                           *)
(*                                                                         *)
(* poll_update() also serves the update of PowerScreen itself, which       *)
(* shares no state with this half and is not part of this module.          *)
(***************************************************************************)
EXTENDS Naturals

CONSTANTS
  MaxChecks,   \* bound: checks begun
  MaxUpgrades, \* bound: upgrades begun
  MaxLosses    \* bound: losses of the link

ASSUME ScriptAssumption ==
  /\ MaxChecks \in Nat
  /\ MaxUpgrades \in Nat
  /\ MaxLosses \in Nat

VARIABLES
  script_state,  \* see States; "unknown" and "checking" are both 0 in the code
  script_dirty,  \* poll_update() has a result to show
  deadline,      \* script_check_started /= 0
  button,        \* what the button says; "wait" is disabled
  ui,            \* where the LVGL thread is inside a handler
  pending,       \* requests Moonraker has to answer, by kind
  behind,        \* there is a new version
  printing,      \* State has print_stats at printing or paused
  lost,          \* history: the answer to an upgrade was lost
  checks, upgrades, losses

loopVars == <<script_state, script_dirty, deadline, pending>>
counters == <<checks, upgrades, losses>>
vars == <<script_state, script_dirty, deadline, button, ui, pending, behind,
          printing, lost, checks, upgrades, losses>>

States == {"unknown", "checking", "uptodate", "available", "error", "updating",
           "updated"}
Kinds == {"refresh", "status", "upgrade"}

TypeOK ==
  /\ script_state \in States
  /\ script_dirty \in BOOLEAN
  /\ deadline \in BOOLEAN
  /\ button \in {"check", "update", "wait"}
  /\ ui \in {"idle", "check", "checking", "upgrade"}
  /\ pending \in [Kinds -> 0..(MaxChecks + MaxUpgrades)]
  /\ behind \in BOOLEAN
  /\ printing \in BOOLEAN
  /\ lost \in BOOLEAN
  /\ checks \in 0..MaxChecks
  /\ upgrades \in 0..MaxUpgrades
  /\ losses \in 0..MaxLosses

Init ==
  /\ script_state = "unknown"
  /\ script_dirty = FALSE
  /\ deadline = FALSE
  /\ button = "wait"
  /\ ui = "idle"
  /\ pending = [k \in Kinds |-> 0]
  /\ behind \in BOOLEAN
  /\ printing \in BOOLEAN
  /\ lost = FALSE
  /\ checks = 0
  /\ upgrades = 0
  /\ losses = 0

-----------------------------------------------------------------------------
(* The LVGL thread. *)

Ask(kind) == pending' = [pending EXCEPT ![kind] = @ + 1]

(* foreground() and show_tab(true) end in check_script_update().            *)
Open ==
  /\ ui = "idle"
  /\ checks < MaxChecks
  /\ ui' = "check"
  /\ UNCHANGED <<loopVars, button, behind, printing, lost, counters>>

(* Mutant: what Moonraker would answer now decides.                         *)
TapIfBehind ==
  /\ ui = "idle"
  /\ button /= "wait"
  /\ IF behind
     THEN upgrades < MaxUpgrades /\ ui' = "upgrade"
     ELSE checks < MaxChecks /\ ui' = "check"
  /\ UNCHANGED <<loopVars, button, behind, printing, lost, counters>>

(* The button, if it is enabled: handle_callback reads script_state.        *)
Tap ==
  /\ ui = "idle"
  /\ button /= "wait"
  /\ IF script_state = "available"
     THEN upgrades < MaxUpgrades /\ ui' = "upgrade"
     ELSE checks < MaxChecks /\ ui' = "check"
  /\ UNCHANGED <<loopVars, button, behind, printing, lost, counters>>

(* check_script_update(): nothing while an update runs ...                  *)
CheckRefused ==
  /\ ui = "check"
  /\ script_state = "updating"
  /\ ui' = "idle"
  /\ UNCHANGED <<loopVars, button, behind, printing, lost, counters>>

(* ... or the new state, under script_mutex ...                             *)
CheckBegin ==
  /\ ui = "check"
  /\ script_state /= "updating"
  /\ script_state' = "checking"
  /\ checks' = checks + 1
  /\ ui' = "checking"
  /\ UNCHANGED <<script_dirty, deadline, button, pending, behind, printing, lost,
                 upgrades, losses>>

(* Mutant: the tick of the start is not taken.                              *)
CheckSendUntimed ==
  /\ ui = "checking"
  /\ button' = "wait"
  /\ Ask("refresh")
  /\ ui' = "idle"
  /\ UNCHANGED <<script_state, script_dirty, deadline, behind, printing, lost,
                 counters>>

(* ... and, without it, the deadline, the button and the request.           *)
CheckSend ==
  /\ ui = "checking"
  /\ deadline' = TRUE
  /\ button' = "wait"
  /\ Ask("refresh")
  /\ ui' = "idle"
  /\ UNCHANGED <<script_state, script_dirty, behind, printing, lost, counters>>

(* start_script_update()                                                    *)
Upgrade ==
  /\ ui = "upgrade"
  /\ ui' = "idle"
  /\ upgrades' = upgrades + 1
  /\ script_dirty' = TRUE
  /\ IF printing
     THEN script_state' = "error" /\ UNCHANGED pending
     ELSE script_state' = "updating" /\ Ask("upgrade")
  /\ UNCHANGED <<deadline, button, behind, printing, lost, checks, losses>>

(* apply_script_state()                                                     *)
Shown(s) ==
  CASE s \in {"unknown", "checking", "updating"} -> "wait"
    [] s = "available" -> "update"
    [] OTHER -> "check"

(* Mutant: the deadline passes without a verdict.                           *)
PollForgets(elapsed) ==
  /\ ui = "idle"
  /\ elapsed => deadline
  /\ button' = IF script_dirty THEN Shown(script_state) ELSE button
  /\ deadline' = (deadline /\ ~elapsed)
  /\ script_dirty' = FALSE
  /\ UNCHANGED <<script_state, ui, pending, behind, printing, lost, counters>>

(* poll_update(), from its timer: a check that had no answer for 25 s is    *)
(* given up; a result is shown.                                             *)
Poll(elapsed) ==
  /\ ui = "idle"
  /\ elapsed => deadline
  /\ LET giveUp == elapsed /\ script_state \in {"unknown", "checking"}
         new == IF giveUp THEN "error" ELSE script_state
     IN  /\ script_state' = new
         /\ button' = IF script_dirty \/ giveUp THEN Shown(new) ELSE button
  /\ deadline' = (deadline /\ ~elapsed)
  /\ script_dirty' = FALSE
  /\ UNCHANGED <<ui, pending, behind, printing, lost, counters>>

-----------------------------------------------------------------------------
(* The loop thread: the answers, in any order. *)

Answered(kind) == pending' = [pending EXCEPT ![kind] = @ - 1]

(* Mutant: one refresh brings the status twice.                             *)
RefreshAnswerTwice ==
  /\ pending["refresh"] > 0
  /\ pending' = [pending EXCEPT !["status"] = @ + 1]
  /\ UNCHANGED <<script_state, script_dirty, deadline, button, ui, behind,
                 printing, lost, counters>>

(* machine.update.refresh, done or refused: ask for the result either way.  *)
RefreshAnswer ==
  /\ pending["refresh"] > 0
  /\ pending' = [pending EXCEPT !["refresh"] = @ - 1, !["status"] = @ + 1]
  /\ UNCHANGED <<script_state, script_dirty, deadline, button, ui, behind,
                 printing, lost, counters>>

(* Mutant: the timer is not told.                                           *)
StatusAnswerSilent(valid) ==
  /\ pending["status"] > 0
  /\ Answered("status")
  /\ script_state' = IF ~valid THEN "error"
                     ELSE IF behind THEN "available" ELSE "uptodate"
  /\ deadline' = FALSE
  /\ UNCHANGED <<script_dirty, button, ui, behind, printing, lost, counters>>

(* machine.update.status: the version, or "UNAVAILABLE", "NO UPDATE ENTRY". *)
StatusAnswer(valid) ==
  /\ pending["status"] > 0
  /\ Answered("status")
  /\ script_state' = IF ~valid THEN "error"
                     ELSE IF behind THEN "available" ELSE "uptodate"
  /\ deadline' = FALSE
  /\ script_dirty' = TRUE
  /\ UNCHANGED <<button, ui, behind, printing, lost, counters>>

(* Mutant: an error is only logged.                                         *)
UpgradeAnswerIfDone(ok) ==
  /\ pending["upgrade"] > 0
  /\ Answered("upgrade")
  /\ script_state' = IF ok THEN "updated" ELSE script_state
  /\ behind' = (behind /\ ~ok)
  /\ script_dirty' = TRUE
  /\ UNCHANGED <<deadline, button, ui, printing, lost, counters>>

(* machine.update.upgrade                                                   *)
UpgradeAnswer(ok) ==
  /\ pending["upgrade"] > 0
  /\ Answered("upgrade")
  /\ script_state' = IF ok THEN "updated" ELSE "error"
  /\ behind' = (behind /\ ~ok)
  /\ script_dirty' = TRUE
  /\ UNCHANGED <<deadline, button, ui, printing, lost, counters>>

(* The link is lost with every answer under way.                            *)
LinkLost ==
  /\ losses < MaxLosses
  /\ losses' = losses + 1
  /\ lost' = (lost \/ pending["upgrade"] > 0)
  /\ pending' = [k \in Kinds |-> 0]
  /\ UNCHANGED <<script_state, script_dirty, deadline, button, ui, behind,
                 printing, checks, upgrades>>

(* A version is published; a print starts or ends.                          *)
World ==
  /\ behind' \in {behind, TRUE}
  /\ printing' \in BOOLEAN
  /\ UNCHANGED <<loopVars, button, ui, lost, counters>>

-----------------------------------------------------------------------------
UiStep == CheckRefused \/ CheckBegin \/ CheckSend \/ Upgrade

Next ==
  \/ Open \/ Tap \/ UiStep
  \/ \E elapsed \in BOOLEAN : Poll(elapsed)
  \/ RefreshAnswer
  \/ \E valid \in BOOLEAN : StatusAnswer(valid)
  \/ \E ok \in BOOLEAN : UpgradeAnswer(ok)
  \/ LinkLost \/ World

Spec == Init /\ [][Next]_vars

(* The LVGL thread leaves a handler and its timer fires, also after the     *)
(* deadline of a check; Moonraker ends an upgrade.  It need not answer a    *)
(* check.                                                                   *)
FairSpec ==
  /\ Spec
  /\ WF_vars(UiStep)
  /\ WF_vars(Poll(FALSE)) /\ WF_vars(Poll(TRUE))
  /\ WF_vars(\E ok \in BOOLEAN : UpgradeAnswer(ok))

-----------------------------------------------------------------------------
(* Properties. *)

(* A check that is shown always has a deadline, although the answer to an   *)
(* earlier check clears script_check_started at any moment: "Checking..."   *)
(* never waits for an answer that may not come.                             *)
CheckHasDeadline ==
  (script_state = "checking" /\ ui = "idle") => deadline

(* What a tap begins is what the button says, except in the half second     *)
(* between a result and the timer that shows it.                            *)
TapDoesWhatItSays ==
  [][(Tap /\ ui' = "upgrade") => (button = "update" \/ script_dirty)]_vars

(* A result never stays off the screen: once it is shown, the button is the *)
(* one of the present state.                                                *)
ButtonFollows ==
  (ui = "idle" /\ ~script_dirty) => button = Shown(script_state)

(* A check ends: "to give up when Moonraker never answers".                 *)
CheckEnds ==
  script_state = "checking" ~> script_state /= "checking"

(* An update ends on the screen too, unless the link was lost under it:     *)
(* then nothing sets script_state again, and check_script_update() returns  *)
(* for as long as it says that an update is running.                        *)
UpdateEnds ==
  script_state = "updating" ~> (script_state /= "updating" \/ lost)

(* "("Checking..." and "Updating..." wait)": while the script is being      *)
(* updated the button stays disabled, and there is no second update.        *)
UpdatingWaits ==
  pending["upgrade"] <= 1
=============================================================================
