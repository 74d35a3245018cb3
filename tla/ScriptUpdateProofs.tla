--------------------------- MODULE ScriptUpdateProofs --------------------------
(***************************************************************************)
(* Theorems about ScriptUpdate for any number of checks, upgrades and      *)
(* losses of the link: types, the deadline of a check, and the button.     *)
(***************************************************************************)
EXTENDS ScriptUpdate, TLAPS

InCheck == IF ui = "checking" THEN 1 ELSE 0

(* Each check owes Moonraker's answer to one request at a time, each upgrade *)
(* one; a handler past its test of a bound is still below it.                *)
CountInv ==
  /\ pending["refresh"] + pending["status"] + InCheck <= checks
  /\ pending["upgrade"] <= upgrades
  /\ ui = "check" => checks < MaxChecks
  /\ ui = "upgrade" => upgrades < MaxUpgrades

(* Only between the state and the deadline of check_script_update may a      *)
(* check be without its deadline.                                            *)
DeadlineInv == script_state = "checking" /\ ui /= "checking" => deadline

(* The button shows the state unless the timer has yet to; within            *)
(* check_script_update the old button stands until the handler disables it,  *)
(* and then no result may have been missed.                                  *)
ButtonInv ==
  /\ ui /= "checking" /\ ~script_dirty => button = Shown(script_state)
  /\ ui = "checking" /\ ~script_dirty => script_state = "checking"

IInv == TypeOK /\ CountInv /\ DeadlineInv /\ ButtonInv

-----------------------------------------------------------------------------
LEMMA InitInv == Init => IInv
<1> SUFFICES ASSUME Init PROVE IInv
  OBVIOUS
<1>1. /\ script_state = "unknown" /\ ui = "idle" /\ button = "wait" /\ ~script_dirty
      /\ checks = 0 /\ upgrades = 0 /\ pending = [k \in Kinds |-> 0]
  BY DEF Init
<1>2. TypeOK
  <2>1. pending \in [Kinds -> 0..(MaxChecks + MaxUpgrades)]
    BY <1>1, ScriptAssumption
  <2>2. deadline \in BOOLEAN /\ script_dirty \in BOOLEAN /\ lost \in BOOLEAN
    BY Zenon DEF Init
  <2>3. losses = 0 /\ behind \in BOOLEAN /\ printing \in BOOLEAN
    BY DEF Init
  <2> QED
    BY <1>1, <2>1, <2>2, <2>3, ScriptAssumption DEF TypeOK, States
<1>3. CountInv
  BY <1>1 DEF CountInv, InCheck, Kinds
<1>4. DeadlineInv /\ ButtonInv
  BY <1>1 DEF DeadlineInv, ButtonInv, Shown
<1> QED
  BY <1>2, <1>3, <1>4 DEF IInv

(* Types and counts need the actions' arithmetic; the others only states.    *)
LEMMA TypeStep ==
  ASSUME TypeOK, CountInv, [Next]_vars
  PROVE  TypeOK' /\ CountInv'
<1> USE ScriptAssumption DEF TypeOK, CountInv, InCheck, Kinds, States, loopVars, counters
<1>1. CASE UNCHANGED vars
  BY <1>1 DEF vars
<1>2. CASE Open
  BY <1>2 DEF Open
<1>3. CASE Tap
  BY <1>3 DEF Tap
<1>4. CASE CheckRefused
  BY <1>4 DEF CheckRefused
<1>5. CASE CheckBegin
  BY <1>5 DEF CheckBegin
<1>6. CASE CheckSend
  BY <1>6 DEF CheckSend, Ask
<1>7. CASE Upgrade
  BY <1>7 DEF Upgrade, Ask
<1>8. ASSUME NEW e \in BOOLEAN, Poll(e) PROVE TypeOK' /\ CountInv'
  <2>1. Shown(script_state') \in {"check", "update", "wait"}
    BY DEF Shown
  <2>2. script_state' \in States /\ button' \in {"check", "update", "wait"}
    BY <1>8, <2>1 DEF Poll
  <2>3. deadline' \in BOOLEAN /\ script_dirty' \in BOOLEAN
    BY <1>8, Zenon DEF Poll
  <2>4. UNCHANGED <<ui, pending, behind, printing, lost, checks, upgrades, losses>>
    BY <1>8 DEF Poll
  <2> QED
    BY <2>2, <2>3, <2>4
<1>9. CASE RefreshAnswer
  BY <1>9 DEF RefreshAnswer
<1>10. ASSUME NEW v \in BOOLEAN, StatusAnswer(v) PROVE TypeOK' /\ CountInv'
  <2>1. script_state' \in States
    BY <1>10 DEF StatusAnswer
  <2>2. /\ pending["status"] > 0
        /\ pending' = [pending EXCEPT !["status"] = @ - 1]
        /\ deadline' = FALSE /\ script_dirty' = TRUE
    BY <1>10, Zenon DEF StatusAnswer, Answered
  <2>3. UNCHANGED <<button, ui, behind, printing, lost, checks, upgrades, losses>>
    BY <1>10 DEF StatusAnswer
  <2>4. /\ pending' \in [Kinds -> 0..(MaxChecks + MaxUpgrades)]
        /\ pending'["status"] = pending["status"] - 1
        /\ pending'["refresh"] = pending["refresh"]
        /\ pending'["upgrade"] = pending["upgrade"]
    BY <2>2
  <2>5. TypeOK'
    BY <2>1, <2>2, <2>3, <2>4
  <2>6. CountInv'
    BY <2>3, <2>4
  <2> QED
    BY <2>5, <2>6
<1>11. ASSUME NEW ok \in BOOLEAN, UpgradeAnswer(ok) PROVE TypeOK' /\ CountInv'
  BY <1>11 DEF UpgradeAnswer, Answered
<1>12. CASE LinkLost
  BY <1>12 DEF LinkLost
<1>13. CASE World
  <2>1. UNCHANGED <<script_state, script_dirty, deadline, pending, button, ui, lost,
                    checks, upgrades, losses>>
    BY <1>13 DEF World
  <2>2. behind' \in BOOLEAN /\ printing' \in BOOLEAN
    BY <1>13, Zenon DEF World
  <2>3. TypeOK'
    BY <2>1, <2>2
  <2>4. CountInv'
    BY <2>1
  <2> QED
    BY <2>3, <2>4
<1> QED
  BY <1>1, <1>2, <1>3, <1>4, <1>5, <1>6, <1>7, <1>8, <1>9, <1>10, <1>11, <1>12, <1>13
  DEF Next, UiStep

LEMMA ScreenStep ==
  ASSUME TypeOK, DeadlineInv, ButtonInv, [Next]_vars
  PROVE  DeadlineInv' /\ ButtonInv'
<1> USE DEF TypeOK, DeadlineInv, ButtonInv, Shown, States, loopVars
<1>1. CASE UNCHANGED vars
  BY <1>1 DEF vars
<1>2. CASE Open \/ Tap \/ CheckRefused
  BY <1>2 DEF Open, Tap, CheckRefused
<1>3. CASE CheckBegin
  BY <1>3 DEF CheckBegin
<1>4. CASE CheckSend
  BY <1>4 DEF CheckSend
<1>5. CASE Upgrade
  BY <1>5 DEF Upgrade
<1>6. ASSUME NEW e \in BOOLEAN, Poll(e) PROVE DeadlineInv' /\ ButtonInv'
  BY <1>6 DEF Poll
<1>7. CASE RefreshAnswer
  BY <1>7 DEF RefreshAnswer
<1>8. ASSUME NEW v \in BOOLEAN, StatusAnswer(v) PROVE DeadlineInv' /\ ButtonInv'
  BY <1>8 DEF StatusAnswer
<1>9. ASSUME NEW ok \in BOOLEAN, UpgradeAnswer(ok) PROVE DeadlineInv' /\ ButtonInv'
  BY <1>9 DEF UpgradeAnswer
<1>10. CASE LinkLost \/ World
  BY <1>10 DEF LinkLost, World
<1> QED
  BY <1>1, <1>2, <1>3, <1>4, <1>5, <1>6, <1>7, <1>8, <1>9, <1>10 DEF Next, UiStep

(* The invariant behind the theorems below holds in every behaviour of the   *)
(* Power Script page.                                                        *)
THEOREM Inductive == Spec => []IInv
<1>1. IInv /\ [Next]_vars => IInv'
  BY TypeStep, ScreenStep DEF IInv
<1> QED
  BY InitInv, <1>1, PTL DEF Spec

-----------------------------------------------------------------------------
(* Every variable keeps its type; Moonraker owes at most one answer for each *)
(* check and each upgrade that was begun.                                    *)
THEOREM TypeCorrect == Spec => []TypeOK
<1>1. IInv => TypeOK
  BY DEF IInv
<1> QED
  BY Inductive, <1>1, PTL

(* A check that is shown when the LVGL thread is free has its deadline       *)
(* (sysinfo_panel.cpp:1131), whatever late answers cleared.                  *)
THEOREM DeadlineKept == Spec => []CheckHasDeadline
<1>1. IInv => CheckHasDeadline
  BY DEF IInv, DeadlineInv, CheckHasDeadline
<1> QED
  BY Inductive, <1>1, PTL

(* The button is the one of the present state once poll_update has nothing   *)
(* left to show (sysinfo_panel.cpp:1034).                                    *)
THEOREM ButtonCorrect == Spec => []ButtonFollows
<1>1. IInv => ButtonFollows
  BY DEF IInv, ButtonInv, ButtonFollows
<1> QED
  BY Inductive, <1>1, PTL

(* handle_callback begins an update only under a button that says so, or     *)
(* while the timer has a result to show (sysinfo_panel.cpp:1482).            *)
THEOREM TapCorrect == Spec => TapDoesWhatItSays
<1>1. ASSUME IInv, Tap, ui' = "upgrade" PROVE button = "update" \/ script_dirty
  BY <1>1 DEF IInv, TypeOK, ButtonInv, Tap, Shown
<1>2. IInv /\ [Next]_vars => [(Tap /\ ui' = "upgrade") => (button = "update" \/ script_dirty)]_vars
  BY <1>1
<1> QED
  BY Inductive, <1>2, PTL DEF Spec, TapDoesWhatItSays
=============================================================================
