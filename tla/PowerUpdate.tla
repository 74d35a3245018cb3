----------------------------- MODULE PowerUpdate ------------------------------
(***************************************************************************)
(* The PowerScreen half of the Power Update page, sysinfo_panel.cpp, and   *)
(* the script it runs, update.sh: looking for a release, installing it and *)
(* restarting the program.                                                 *)
(*                                                                         *)
(* Four parties: the LVGL thread (touch handlers and the 500 ms timer), a  *)
(* worker thread that runs "update.sh --check", a worker thread that runs  *)
(* update.sh, and update.sh itself, which outlives the program it stops.   *)
(* They share atomics and two files in /tmp.                               *)
(*                                                                         *)
(* What a query of GitHub answers is left open: a release may come out at  *)
(* any time, and without an answer update.sh reads the list of the last    *)
(* one.  update.sh may be killed wherever it is.  The three marks of the   *)
(* progress are left out, and so is a crash of the program while update.sh *)
(* runs; half a package still holds a program that starts.                 *)
(***************************************************************************)
EXTENDS Integers

CONSTANTS
  MaxChecks,   \* bound: checks begun
  MaxUpdates,  \* bound: updates begun
  MaxLosses    \* bound: losses of power

ASSUME PowerAssumption ==
  /\ MaxChecks \in Nat
  /\ MaxUpdates \in Nat
  /\ MaxLosses \in Nat

VARIABLES
  prog,       \* the program: the members of SysInfoPanel and its threads
  script,     \* the update.sh of an update: where it is, what it exits with,
              \* and whether half a package left only a part of it
  status,     \* UPDATE_STATUS_FILE
  done,       \* UPDATE_DONE_FILE exists
  channel,    \* "update_channel" in the configuration file
  whole,      \* no package is half extracted
  buildroot,  \* update.sh restarts the program itself (a K1)
  printing,   \* a print is in progress
  outcome,    \* history: how the last update.sh ended
  completed,  \* history: an update was completed since the program started
  checks, updates, losses

world == <<channel, buildroot, printing>>
files == <<status, done, whole>>
history == <<outcome, completed>>
counters == <<checks, updates, losses>>
vars == <<prog, script, files, world, history, counters>>

Channels == {"nightly", "stable"}
Verdicts == {"available", "uptodate", "failed"}
Phases == {"CHECKING", "DOWNLOADING", "EXTRACTING", "RESTARTING", "UP_TO_DATE",
           "ERROR"}

(* The program just started.                                                *)
Fresh ==
  [up |-> TRUE,
   exe |-> TRUE,               \* its own file, /proc/self/exe, is still there
   ui |-> "idle",              \* the LVGL thread: idle, or a step of poll_update
   page |-> "none",            \* update_status
   enabled |-> FALSE,          \* update_button
   check_running |-> FALSE, check_done |-> FALSE, check_result |-> "failed",
   worker |-> "idle",          \* the next step of the check's thread
   asked |-> "nightly",        \* the channel that its script looks at
   of |-> "nightly",           \* the channel check_result is about
   shown |-> "nightly",        \* the channel page is about
   update_running |-> FALSE, update_finished |-> FALSE, exit_code |-> 0,
   updater |-> "idle",         \* the next step of the update's thread
   restart_since |-> "zero",   \* "zero", "set", or "over" after 30 s
   seen |-> "none",            \* the status poll_update() has read
   overlay |-> "none",         \* the window over the page
   notice |-> FALSE,           \* "PowerScreen UPDATED!"
   missed |-> FALSE,           \* history: see CheckEnds
   crossed |-> FALSE,          \* history: see VerdictOfChannel
   torn |-> FALSE]             \* history: see VerdictTrue

Down == [Fresh EXCEPT !.up = FALSE]

Overlays ==
  {"none", "busy", "refused", "uptodate", "failed", "unfinished", "restart"}

(* What the members and the threads may hold.                               *)
Program ==
  [up: BOOLEAN,
   exe: BOOLEAN,
   ui: {"idle", "show", "read", "judge"},
   page: Verdicts \cup {"none", "checking"},
   enabled: BOOLEAN,
   check_running: BOOLEAN, check_done: BOOLEAN, check_result: Verdicts,
   worker: {"idle", "start", "query", "flag", "clear"},
   asked: Channels, of: Channels, shown: Channels,
   update_running: BOOLEAN, update_finished: BOOLEAN, exit_code: -1..1,
   updater: {"idle", "wait", "flag"},
   restart_since: {"zero", "set", "over"},
   seen: Phases \cup {"none"},
   overlay: Overlays,
   notice: BOOLEAN, missed: BOOLEAN, crossed: BOOLEAN, torn: BOOLEAN]

TypeOK ==
  /\ prog \in Program
  /\ script \in [pc: {"off", "start", "look", "download", "extract", "macros",
                      "restarting", "mark", "sleep", "boot"},
                 code: -1..1, text: {"all", "part"}]
  /\ status \in Phases \cup {"none"}
  /\ done \in BOOLEAN
  /\ channel \in Channels
  /\ whole \in BOOLEAN
  /\ buildroot \in BOOLEAN
  /\ printing \in BOOLEAN
  /\ outcome \in {"none", "missing", "unstarted", "error", "uptodate", "cut", "killed",
                  "stopped", "installed"}
  /\ completed \in BOOLEAN
  /\ checks \in 0..MaxChecks
  /\ updates \in 0..MaxUpdates
  /\ losses \in 0..MaxLosses

Init ==
  /\ prog = Fresh
  /\ script = [pc |-> "off", code |-> 0, text |-> "all"]
  /\ status = "none"
  /\ done = FALSE
  /\ channel \in Channels
  /\ whole = TRUE
  /\ buildroot \in BOOLEAN
  /\ printing = FALSE
  /\ outcome = "none"
  /\ completed = FALSE
  /\ checks = 0
  /\ updates = 0
  /\ losses = 0

-----------------------------------------------------------------------------
(* The touch handlers. *)

Idle == prog.up /\ prog.ui = "idle"

(* check_for_update(): nothing more than the label while a check runs.      *)
Checking(p) ==
  IF p.check_running
  THEN [p EXCEPT !.page = "checking", !.enabled = FALSE,
                 !.missed = p.worker = "clear" /\ ~p.check_done]
  ELSE [p EXCEPT !.page = "checking", !.enabled = FALSE,
                 !.check_running = TRUE, !.worker = "start",
                 !.missed = FALSE, !.crossed = FALSE]

(* show_tab(true).  An overlay swallows all touches.                        *)
OpenPage ==
  /\ Idle
  /\ prog.overlay = "none"
  /\ checks < MaxChecks
  /\ checks' = checks + 1
  /\ prog' = Checking(prog)
  /\ UNCHANGED <<script, files, world, history, updates, losses>>

(* Mutant: the choice does not check again.                                 *)
SetChannelOnly ==
  /\ Idle
  /\ prog.overlay = "none"
  /\ checks < MaxChecks
  /\ checks' = checks + 1
  /\ \E c \in Channels \ {channel} : channel' = c
  /\ UNCHANGED <<prog, script, files, buildroot, printing, history, updates, losses>>

(* The channel is chosen: saved, and a check.                               *)
SetChannel ==
  /\ Idle
  /\ prog.overlay = "none"
  /\ checks < MaxChecks
  /\ checks' = checks + 1
  /\ \E c \in Channels \ {channel} : channel' = c
  /\ prog' = Checking([prog EXCEPT !.crossed = TRUE])
  /\ UNCHANGED <<script, files, buildroot, printing, history, updates, losses>>

(* start_update(), from the button.                                         *)
StartRefused ==
  /\ Idle
  /\ prog.overlay = "none" /\ prog.enabled
  /\ ~prog.update_running
  /\ printing
  /\ prog' = [prog EXCEPT !.overlay = "refused", !.restart_since = "zero"]
  /\ UNCHANGED <<script, files, world, history, counters>>

(* update_script_path() throws once tar has replaced the program's file, and *)
(* half a package may lack update.sh.                                        *)
StartMissing ==
  /\ Idle
  /\ prog.overlay = "none" /\ prog.enabled
  /\ ~prog.update_running
  /\ ~printing
  /\ ~prog.exe \/ ~whole
  /\ prog' = [prog EXCEPT !.overlay = "failed", !.restart_since = "zero"]
  /\ outcome' = "missing"
  /\ UNCHANGED <<script, files, world, completed, counters>>

(* Mutant: the status file of an earlier update stays.                      *)
StartKeepsStatus ==
  /\ Idle
  /\ prog.overlay = "none" /\ prog.enabled
  /\ ~prog.update_running
  /\ ~printing
  /\ prog.exe
  /\ updates < MaxUpdates
  /\ updates' = updates + 1
  /\ outcome' = "none"
  /\ prog' = [prog EXCEPT !.update_finished = FALSE, !.update_running = TRUE,
                          !.restart_since = "zero", !.overlay = "busy",
                          !.torn = FALSE, !.updater = "wait"]
  /\ \E text \in {"all", "part"} :
       /\ text = "part" => ~whole
       /\ script' = [pc |-> "start", code |-> 0, text |-> text]
  /\ UNCHANGED <<files, world, completed, checks, losses>>

(* Half a package may also hold a part of update.sh.                        *)
StartUpdate ==
  /\ Idle
  /\ prog.overlay = "none" /\ prog.enabled
  /\ ~prog.update_running
  /\ ~printing
  /\ prog.exe
  /\ updates < MaxUpdates
  /\ updates' = updates + 1
  /\ status' = "none"
  /\ outcome' = "none"
  /\ prog' = [prog EXCEPT !.update_finished = FALSE, !.update_running = TRUE,
                          !.restart_since = "zero", !.overlay = "busy",
                          !.torn = FALSE, !.updater = "wait"]
  /\ \E text \in {"all", "part"} :
       /\ text = "part" => ~whole
       /\ script' = [pc |-> "start", code |-> 0, text |-> text]
  /\ UNCHANGED <<done, whole, world, completed, checks, losses>>

(* The Close button, which a busy overlay hides.                            *)
Close ==
  /\ Idle
  /\ prog.overlay \notin {"none", "busy"}
  /\ prog' = [prog EXCEPT !.overlay = "none", !.torn = FALSE]
  /\ UNCHANGED <<script, files, world, history, counters>>

-----------------------------------------------------------------------------
(* poll_update(), every 500 ms. *)

Ui(step) ==
  /\ prog.up
  /\ prog.ui = step
  /\ UNCHANGED <<script, files, world, history, counters>>

(* check_done.exchange(false) ...                                           *)
PollTake ==
  /\ Ui("idle")
  /\ prog' = [prog EXCEPT !.check_done = FALSE,
                          !.ui = IF prog.check_done THEN "show" ELSE "read"]

(* ... and the result.                                                      *)
PollShow ==
  /\ Ui("show")
  /\ prog' = [prog EXCEPT !.page = prog.check_result, !.shown = prog.of,
                          !.enabled = (@ \/ prog.check_result = "available"),
                          !.missed = FALSE, !.ui = "read"]

(* The status file; the restart's clock starts with RESTARTING.             *)
PollRead ==
  /\ Ui("read")
  /\ prog' = IF ~prog.update_running THEN [prog EXCEPT !.ui = "idle"]
             ELSE [prog EXCEPT !.seen = status, !.ui = "judge",
                               !.restart_since =
                                  IF status = "RESTARTING" /\ @ = "zero" THEN "set"
                                  ELSE @]

(* 30 s after it.  The script takes 3 s (sleep 3) from there to the restart.*)
ClockRuns ==
  /\ prog.restart_since = "set"
  /\ script.pc \notin {"mark", "sleep"}
  /\ prog' = [prog EXCEPT !.restart_since = "over"]
  /\ UNCHANGED <<script, files, world, history, counters>>

Ended(overlay) ==
  [prog EXCEPT !.ui = "idle", !.seen = "none", !.update_running = FALSE,
               !.restart_since = "zero", !.overlay = overlay,
               !.torn = prog.seen /= status]

Verdict ==
  CASE prog.seen = "UP_TO_DATE" -> "uptodate"
    [] prog.seen = "ERROR" -> "failed"
    [] prog.seen \notin {"UP_TO_DATE", "ERROR"} /\ prog.exit_code /= 0 -> "unfinished"
    [] OTHER -> "restart"

(* Mutant: no safety net.                                                   *)
PollJudgeNoNet ==
  /\ Ui("judge")
  /\ prog' = IF \/ ~prog.update_finished
                \/ prog.seen = "RESTARTING" /\ prog.exit_code = 0
             THEN [prog EXCEPT !.ui = "idle", !.seen = "none"]
             ELSE Ended(Verdict)

(* The safety net; or still running; or about to be restarted; or the       *)
(* script's verdict.                                                        *)
PollJudge ==
  /\ Ui("judge")
  /\ prog' = IF prog.restart_since = "over" THEN Ended("restart")
             ELSE IF \/ ~prog.update_finished
                     \/ prog.seen = "RESTARTING" /\ prog.exit_code = 0
             THEN [prog EXCEPT !.ui = "idle", !.seen = "none"]
             ELSE Ended(Verdict)

-----------------------------------------------------------------------------
(* The two threads of the program. *)

Worker(step) ==
  /\ prog.worker = step
  /\ UNCHANGED <<script, files, world, history, counters>>

(* No path, no update.sh: the result is 3.                                  *)
CheckMissing ==
  /\ Worker("start")
  /\ ~prog.exe \/ ~whole
  /\ prog' = [prog EXCEPT !.check_result = "failed", !.of = channel, !.worker = "flag"]

(* "update.sh --check" reads the channel ...                                *)
CheckStart ==
  /\ Worker("start")
  /\ prog.exe
  /\ prog' = [prog EXCEPT !.asked = channel, !.worker = "query"]

(* ... asks GitHub, and its output is check_result; anything else is 3.     *)
CheckQuery(answer) ==
  /\ Worker("query")
  /\ prog' = [prog EXCEPT !.check_result = answer, !.of = prog.asked,
                          !.asked = "nightly", !.worker = "flag"]

(* Mutant: a check that failed is not reported.                             *)
CheckFlagIfReached ==
  /\ Worker("flag")
  /\ prog' = [prog EXCEPT !.check_done = (@ \/ prog.check_result /= "failed"),
                          !.worker = "clear"]

CheckFlag ==
  /\ Worker("flag")
  /\ prog' = [prog EXCEPT !.check_done = TRUE, !.worker = "clear"]

CheckClear ==
  /\ Worker("clear")
  /\ prog' = [prog EXCEPT !.check_running = FALSE, !.worker = "idle"]

(* Mutant: the status of waitpid() for the exit code.                       *)
UpdateReturnStatus ==
  /\ prog.updater = "wait"
  /\ script.pc = "off"
  /\ prog' = [prog EXCEPT !.exit_code = 256 * script.code, !.updater = "flag"]
  /\ UNCHANGED <<script, files, world, history, counters>>

(* sp::call(update.sh) returned, or threw (-1): update_exit_code, then       *)
(* update_finished.                                                          *)
UpdateReturn ==
  /\ prog.updater = "wait"
  /\ script.pc = "off"
  /\ prog' = [prog EXCEPT !.exit_code = script.code, !.updater = "flag"]
  /\ UNCHANGED <<script, files, world, history, counters>>

UpdateFlag ==
  /\ prog.updater = "flag"
  /\ prog' = [prog EXCEPT !.update_finished = TRUE, !.updater = "idle"]
  /\ UNCHANGED <<script, files, world, history, counters>>

-----------------------------------------------------------------------------
(* update.sh *)

Goto(pc) == script' = [script EXCEPT !.pc = pc]
Exit(code, how) ==
  /\ script' = [pc |-> "off", code |-> code, text |-> "all"]
  /\ outcome' = how

(* It cannot be run (fork, exec): sp::call throws.                          *)
ScriptUnstarted ==
  /\ script.pc = "start"
  /\ Exit(-1, "unstarted")
  /\ UNCHANGED <<prog, files, world, completed, counters>>

(* It is killed, or what half a package left of it ends (with 0, or with a  *)
(* syntax error): the status stays as it is.                                *)
ScriptDies(code) ==
  /\ script.pc /= "off"
  /\ code = 0 => script.text = "part"
  /\ Exit(code, CASE script.pc \in {"mark", "sleep", "boot"} -> "stopped"
                  [] script.pc \notin {"mark", "sleep", "boot"} /\ code = 0 -> "cut"
                  [] OTHER -> "killed")
  /\ UNCHANGED <<prog, files, world, completed, counters>>

(* It writes CHECKING and asks GitHub.                                      *)
ScriptStart ==
  /\ script.pc = "start"
  /\ status' = "CHECKING"
  /\ Goto("look")
  /\ UNCHANGED <<prog, done, whole, world, history, counters>>

(* A release without a package, no answer, or no stable release at all.     *)
ScriptError(code) ==
  /\ script.pc = "look"
  /\ code = 0 => channel = "stable"
  /\ status' = "ERROR"
  /\ Exit(code, "error")
  /\ UNCHANGED <<prog, done, whole, world, completed, counters>>

ScriptUpToDate ==
  /\ script.pc = "look"
  /\ status' = "UP_TO_DATE"
  /\ Exit(0, "uptodate")
  /\ UNCHANGED <<prog, done, whole, world, completed, counters>>

ScriptDownload ==
  /\ script.pc = "look"
  /\ status' = "DOWNLOADING"
  /\ Goto("download")
  /\ UNCHANGED <<prog, done, whole, world, history, counters>>

(* A package that does not come, or is not a package, is not extracted.     *)
ScriptNoPackage ==
  /\ script.pc = "download"
  /\ status' = "ERROR"
  /\ Exit(1, "error")
  /\ UNCHANGED <<prog, done, whole, world, completed, counters>>

(* tar xf unlinks each file that it replaces, the program's among them.     *)
ScriptExtract(reached) ==
  /\ script.pc = "download"
  /\ status' = "EXTRACTING"
  /\ whole' = FALSE
  /\ prog' = [prog EXCEPT !.exe = (@ /\ ~reached)]
  /\ Goto("extract")
  /\ UNCHANGED <<done, world, history, counters>>

ScriptNotExtracted ==
  /\ script.pc = "extract"
  /\ status' = "ERROR"
  /\ Exit(1, "error")
  /\ UNCHANGED <<prog, done, whole, world, completed, counters>>

ScriptExtracted ==
  /\ script.pc = "extract"
  /\ whole' = TRUE
  /\ prog' = [prog EXCEPT !.exe = FALSE]
  /\ Goto("macros")
  /\ UNCHANGED <<status, done, world, history, counters>>

(* The macros are copied, and Klipper is restarted if they changed.         *)
ScriptMacros(changed) ==
  /\ script.pc = "macros"
  /\ printing' = (printing /\ ~changed)
  /\ Goto("restarting")
  /\ UNCHANGED <<prog, files, channel, buildroot, history, counters>>

ScriptRestarting ==
  /\ script.pc = "restarting"
  /\ status' = "RESTARTING"
  /\ Goto("mark")
  /\ UNCHANGED <<prog, done, whole, world, history, counters>>

ScriptMark ==
  /\ script.pc = "mark"
  /\ done' = TRUE
  /\ completed' = TRUE
  /\ Goto("sleep")
  /\ UNCHANGED <<prog, status, whole, world, outcome, counters>>

(* After 3 s it stops the program, or just ends.                            *)
ScriptStop ==
  /\ script.pc = "sleep"
  /\ IF buildroot
     THEN prog' = Down /\ Goto("boot") /\ UNCHANGED outcome
     ELSE Exit(0, "installed") /\ UNCHANGED prog
  /\ UNCHANGED <<files, world, completed, counters>>

(* Mutant: the notice leaves the file that asks for it.                     *)
StartedKeepsDone(marked, left) ==
  /\ prog' = [Fresh EXCEPT !.notice = marked]
  /\ done' = marked
  /\ status' = IF marked THEN "none" ELSE left
  /\ completed' = FALSE

(* A program starts: show_updated_notice().                                 *)
Started(marked, left) ==
  /\ prog' = [Fresh EXCEPT !.notice = marked]
  /\ done' = FALSE
  /\ status' = IF marked THEN "none" ELSE left
  /\ completed' = FALSE

ScriptBoot ==
  /\ script.pc = "boot"
  /\ Started(done, status)
  /\ Exit(0, "installed")
  /\ UNCHANGED <<whole, world, counters>>

-----------------------------------------------------------------------------
(* The rest of the world. *)

(* The power goes, or (without a script) the program is restarted.  /tmp    *)
(* may survive.                                                             *)
PowerLoss(kept) ==
  /\ losses < MaxLosses
  /\ losses' = losses + 1
  /\ Started(kept /\ done, IF kept THEN status ELSE "none")
  /\ script' = [pc |-> "off", code |-> 0, text |-> "all"]
  /\ outcome' = "none"
  /\ printing' = FALSE
  /\ UNCHANGED <<whole, channel, buildroot, checks, updates>>

PrintChanges ==
  /\ printing' = ~printing
  /\ UNCHANGED <<prog, script, files, channel, buildroot, history, counters>>

NoticeGone ==
  /\ prog.notice
  /\ prog' = [prog EXCEPT !.notice = FALSE]
  /\ UNCHANGED <<script, files, world, history, counters>>

-----------------------------------------------------------------------------
PollStep == PollTake \/ PollShow \/ PollRead \/ PollJudge

CheckStep ==
  CheckMissing \/ CheckStart \/ (\E answer \in Verdicts : CheckQuery(answer)) \/ CheckFlag \/ CheckClear

UpdateStep == UpdateReturn \/ UpdateFlag

ScriptStep ==
  \/ ScriptUnstarted \/ ScriptStart
  \/ \E code \in 0..1 : ScriptDies(code)
  \/ \E code \in 0..1 : ScriptError(code)
  \/ ScriptUpToDate \/ ScriptDownload \/ ScriptNoPackage
  \/ \E reached \in BOOLEAN : ScriptExtract(reached)
  \/ ScriptNotExtracted \/ ScriptExtracted
  \/ \E changed \in BOOLEAN : ScriptMacros(changed)
  \/ ScriptRestarting \/ ScriptMark \/ ScriptStop \/ ScriptBoot

Next ==
  \/ OpenPage \/ SetChannel
  \/ StartRefused \/ StartMissing \/ StartUpdate \/ Close
  \/ PollStep \/ ClockRuns
  \/ CheckStep \/ UpdateStep \/ ScriptStep
  \/ \E kept \in BOOLEAN : PowerLoss(kept)
  \/ PrintChanges \/ NoticeGone

Spec == Init /\ [][Next]_vars

(* The LVGL timer fires, the threads run, time passes, and update.sh ends   *)
(* (its requests to GitHub do).                                             *)
FairSpec ==
  /\ Spec
  /\ WF_vars(PollStep) /\ WF_vars(ClockRuns)
  /\ WF_vars(CheckStep) /\ WF_vars(UpdateStep) /\ WF_vars(ScriptStep)

-----------------------------------------------------------------------------
(* Properties. *)

(* "CHECKING..." always gives way to a verdict, unless the check was asked  *)
(* for between the two last stores of an earlier one (check_done, already   *)
(* taken by the timer, and check_running): then nothing was started and     *)
(* nothing will answer.                                                     *)
CheckEnds ==
  prog.page = "checking" ~> (prog.page /= "checking" \/ prog.missed)

(* Once nothing is under way the verdict on the page is about the channel   *)
(* in the configuration, whatever checks of the other one ended before it;  *)
(* only a change of channel during a check leaves the old verdict.          *)
VerdictOfChannel ==
  (Idle /\ prog.worker = "idle" /\ ~prog.check_done /\ prog.page \in Verdicts)
    => (prog.shown = channel \/ prog.crossed)

(* The window at the end of an update says what update.sh did, although it  *)
(* is put together from a file and two atomics that are read at different   *)
(* times: no change, an error, a script that did not finish, a release that *)
(* is in place.  A script that ends within that poll may be misjudged, and  *)
(* what half a package left of update.sh is, when it exits with 0.          *)
VerdictTrue ==
  LET o == prog.overlay IN
  /\ o = "uptodate" => outcome = "uptodate"
  /\ o = "failed" => outcome \in {"error", "missing"}
  /\ o = "unfinished" => \/ outcome \in {"unstarted", "killed", "stopped"}
                         \/ outcome = "error" /\ prog.torn
  /\ o = "restart" => outcome \in {"installed", "stopped", "cut"} \/ prog.torn

(* The window that locks the screen during an update goes away, with a      *)
(* verdict or with a restart, on every path of update.sh.                   *)
UpdateEnds ==
  prog.overlay = "busy" ~> prog.overlay /= "busy"

(* "PowerScreen UPDATED!" is for an update that was completed while the     *)
(* last program ran, and is shown for it once.                              *)
NoticeHonest ==
  [][(prog'.notice /\ ~prog.notice) => completed]_vars

(* "PowerScreen cannot be updated while a print is in progress."            *)
(* (sysinfo_panel.cpp): an update never takes Klipper away from a print.    *)
NotWhilePrinting ==
  [][(script.pc = "macros" /\ script'.pc = "restarting" /\ printing) => printing']_vars
=============================================================================
