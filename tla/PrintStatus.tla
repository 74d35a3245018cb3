----------------------------- MODULE PrintStatus -----------------------------
(***************************************************************************)
(* A print, from the "Start print" dialog of print_panel.cpp to the page   *)
(* of print_status_panel.cpp with its card on the home page                *)
(* (mini_print_status.cpp).                                                *)
(*                                                                         *)
(* The loop thread merges each status report into State and hands it to    *)
(* PrintStatusPanel::consume under lv_lock; the dialog reads State, the    *)
(* buttons what the panel last drew.  Both happen in one action here.      *)
(* Klipper, Moonraker and the other clients of the printer are external.   *)
(***************************************************************************)
EXTENDS Naturals, Sequences, SequencesExt

CONSTANTS
  Files, None,     \* the G-code files; no file
  Modes, Mode0,    \* values of the pins the dialog sets (bed mesh, purge line),
                   \* and the one they have at first
  Flows,           \* bound: dialogs opened in a behaviour
  MaxActs          \* bound: dialogs, touches of pause and resume, acts of other
                   \* clients, ends of prints and losses of the link, together

ASSUME PrintAssumption ==
  /\ None \notin Files
  /\ Mode0 \in Modes
  /\ Flows \in Nat /\ MaxActs \in Nat

VARIABLES
  printer, gcode,          \* Klipper: its objects, the commands it was sent
  told, inbox,             \* Moonraker: what it reported last, what is under way
  up,                      \* the WebSocket is open
  mirror,                  \* State: printer_state
  pending,                 \* server.files.metadata requests, oldest first
  label, status, resume,   \* the page: file, state, Resume rather than Pause
  disabled,                \* the buttons that wait for an effect
  estimate,                \* the file estimated_time_s is of
  active,                  \* MiniPrintStatus::active
  dialog, opened,          \* StartDialog, or no dialog; flows so far
  clean,                   \* history: see Open
  bare, split,             \* history: see Consume
  crossed, lastOk,         \* history: see AnswerMetadata, HandleMetadata
  excused,                 \* history: see Excuse
  acts

world == <<printer, gcode, told>>
panel == <<label, status, resume, disabled, estimate, active, mirror, pending>>
flow == <<dialog, opened, clean>>
notes == <<bare, split, crossed, lastOk, excused>>
vars == <<world, inbox, up, panel, flow, notes, acts>>

Fields == {"file", "state", "paused", "pin"}
Running == {"printing", "paused"}
States == Running \cup {"standby", "complete"}
Printer == [file: Files \cup {None}, state: States, paused: BOOLEAN, pin: Modes]
NoDialog == [n |-> 0, file |-> None, was |-> None]

(* What a report holds: some of the fields.                                  *)
Diffs == UNION {{[f \in S |-> p[f]] : p \in Printer} : S \in SUBSET Fields}
Merged(diff, old) == [f \in Fields |-> IF f \in DOMAIN diff THEN diff[f] ELSE old[f]]

Flow == [op: {"script", "start"}, n: 1..Flows, file: Files, chosen: Modes]
Commands == [op: {"pause", "resume"}] \cup Flow
Messages == [kind: {"status"}, diff: Diffs]
            \cup [kind: {"metadata"}, file: Files, ok: BOOLEAN]
            \cup [kind: {"ran"}, start: Flow]
Text(state) == IF state = "standby" THEN "ready" ELSE state

TypeOK ==
  /\ {printer, told, mirror} \subseteq Printer
  /\ label \in Files \cup {None} /\ estimate \in Files \cup {None}
  /\ status \in {Text(s) : s \in States}
  /\ {resume, active, up} \subseteq BOOLEAN
  /\ disabled \subseteq {IF resume THEN "resume" ELSE "pause"}
  /\ pending \in Seq(Files) /\ gcode \in Seq(Commands) /\ inbox \in Seq(Messages)
  /\ dialog = NoDialog \/ (dialog.n \in 1..opened /\ dialog.file \in Files)
  /\ clean \subseteq 1..opened
  /\ opened \in 0..Flows
  /\ ~up => inbox = <<>>

Init ==
  /\ printer = [file |-> None, state |-> "standby", paused |-> FALSE, pin |-> Mode0]
  /\ told = printer /\ mirror = printer
  /\ gcode = <<>> /\ inbox = <<>> /\ pending = <<>>
  /\ up = TRUE
  /\ label = None /\ status = "ready" /\ resume = FALSE /\ disabled = {}
  /\ estimate = None /\ active = FALSE
  /\ dialog = NoDialog /\ opened = 0 /\ clean = {}
  /\ bare = FALSE /\ split = FALSE /\ crossed = FALSE /\ lastOk = FALSE
  /\ excused = FALSE
  /\ acts = 0

-----------------------------------------------------------------------------
(* Klipper and Moonraker. *)

Quietly == UNCHANGED <<told, up, panel, dialog, opened>>

Act == acts < MaxActs /\ acts' = acts + 1

(* A button waits and there will be no report for it: the macro failed, or   *)
(* is_paused went back before it was reported.                               *)
Excuse(if) == excused' = (excused \/ (disabled /= {} /\ if))
GoesBack(now) == now /= printer.paused /\ now = told.paused

(* Another client selects a file, and starts it after that.                  *)
SelectElsewhere(f) ==
  /\ Act /\ Quietly
  /\ printer.state \notin Running
  /\ printer' = [printer EXCEPT !.file = f, !.state = "standby"]
  /\ UNCHANGED <<gcode, inbox, clean, notes>>

Begins ==
  /\ Act /\ Quietly
  /\ printer.state = "standby" /\ printer.file /= None
  /\ printer' = [printer EXCEPT !.state = "printing"]
  /\ UNCHANGED <<gcode, inbox, clean, notes>>

(* A print ends or is cancelled, from the screen or not.                     *)
Ends ==
  /\ Act /\ Quietly
  /\ printer.state \in Running
  /\ printer' = [printer EXCEPT !.state = "complete", !.paused = FALSE]
  /\ Excuse(GoesBack(FALSE))
  /\ UNCHANGED <<gcode, inbox, clean, bare, split, crossed, lastOk>>

PinElsewhere(m) ==
  /\ Act /\ Quietly
  /\ m /= printer.pin
  /\ printer' = [printer EXCEPT !.pin = m]
  /\ clean' = {}
  /\ UNCHANGED <<gcode, inbox, notes>>

CommandElsewhere(c) ==
  /\ Act /\ Quietly
  /\ gcode' = Append(gcode, [op |-> c])
  /\ UNCHANGED <<printer, inbox, clean, notes>>

(* Klipper runs its commands in the order they came.                         *)
AtHead(op) == gcode /= <<>> /\ Head(gcode).op = op

Runs(op) ==
  /\ AtHead(op)
  /\ gcode' = Tail(gcode)
  /\ Quietly
  /\ UNCHANGED acts

Reach(msg) == inbox' = IF up THEN Append(inbox, msg) ELSE inbox

(* PAUSE and RESUME are macros: they may end in an error.                    *)
RunPause(c) ==
  /\ Runs(c)
  /\ \/ /\ printer' = [printer EXCEPT !.paused = (c = "pause")]
        /\ Excuse(GoesBack(c = "pause"))
     \/ /\ Excuse(TRUE)
        /\ UNCHANGED printer
  /\ UNCHANGED <<inbox, clean, bare, split, crossed, lastOk>>

(* virtual_sdcard follows at the end of a line, before or after a report.    *)
StateFollows ==
  /\ \/ /\ printer.state = "printing"
        /\ printer.paused \/ AtHead("pause")
        /\ printer' = [printer EXCEPT !.state = "paused"]
     \/ /\ printer.state = "paused"
        /\ ~(printer.paused \/ AtHead("pause"))
        /\ printer' = [printer EXCEPT !.state = "printing"]
  /\ Quietly
  /\ UNCHANGED <<gcode, inbox, clean, notes, acts>>

(* The script of the dialog: it sets the pins, or fails before that.         *)
RunScript ==
  /\ Runs("script")
  /\ LET s == Head(gcode) IN
     /\ \/ /\ printer' = [printer EXCEPT !.pin = s.chosen]
           /\ clean' = clean \cap {s.n}
        \/ /\ clean' = clean \ {s.n}
           /\ UNCHANGED printer
     /\ Reach([kind |-> "ran", start |-> s])
  /\ UNCHANGED notes

(* print.start: refused while a file is printed.                             *)
RunStart ==
  /\ Runs("start")
  /\ clean' = clean \ {Head(gcode).n}
  /\ IF printer.state \in Running
     THEN UNCHANGED <<printer, excused>>
     ELSE /\ printer' = [printer EXCEPT !.file = Head(gcode).file, !.state = "printing",
                                       !.paused = FALSE]
          /\ Excuse(GoesBack(FALSE))
  /\ UNCHANGED <<inbox, bare, split, crossed, lastOk>>

(* Every quarter of a second: the fields that changed since the last report. *)
Publish ==
  /\ up /\ printer /= told
  /\ told' = printer
  /\ Reach([kind |-> "status",
            diff |-> [f \in {g \in Fields : printer[g] /= told[g]} |-> printer[f]]])
  /\ UNCHANGED <<printer, gcode, up, panel, flow, notes, acts>>

(* The answer to one of the metadata requests; a file that was not scanned   *)
(* yet has none.  crossed says that an older request was still waiting.      *)
AnswerMetadata(i) ==
  /\ up /\ i \in DOMAIN pending
  /\ pending' = RemoveAt(pending, i)
  /\ \E ok \in BOOLEAN : Reach([kind |-> "metadata", file |-> pending[i], ok |-> ok])
  /\ crossed' = (crossed \/ i > 1)
  /\ UNCHANGED <<world, up, label, status, resume, disabled, estimate, active, mirror,
                 flow, bare, split, lastOk, excused, acts>>

Lose ==
  /\ up /\ Act
  /\ up' = FALSE
  /\ inbox' = <<>> /\ pending' = <<>>
  /\ UNCHANGED <<world, label, status, resume, disabled, estimate, active, mirror, flow, notes>>

-----------------------------------------------------------------------------
(* The page, on the loop thread.  What reset() clears is filled in again by  *)
(* populate(), which reads State.                                            *)

(* reset(), then populate(): the page of the file that State names.          *)
Populate(now) ==
  /\ label' = now.file
  /\ estimate' = None
  /\ lastOk' = FALSE
  /\ crossed' = (crossed /\ pending /= <<>>)
  /\ pending' = IF now.file = None THEN pending ELSE Append(pending, now.file)

(* Mutant: the hidden button stays disabled.                                 *)
ShowPausedOnly(paused) ==
  /\ resume' = paused
  /\ disabled' = disabled \cap {"pause"}
  /\ excused' = FALSE

(* update_pause_resume: both buttons are enabled, one is shown.              *)
UpdatePauseResume(paused) ==
  /\ resume' = paused
  /\ disabled' = {}
  /\ excused' = FALSE

(* Mutant: consume() shows the right button and does not enable it.          *)
ConsumeKeepsDisabled ==
  /\ inbox /= <<>> /\ Head(inbox).kind = "status"
  /\ inbox' = Tail(inbox)
  /\ LET diff == Head(inbox).diff
         now == Merged(diff, mirror) IN
     /\ mirror' = now
     /\ IF "file" \in DOMAIN diff THEN Populate(now)
        ELSE UNCHANGED <<label, estimate, lastOk, crossed, pending>>
     /\ resume' = IF "paused" \in DOMAIN diff THEN now.paused
                  ELSE IF "file" \in DOMAIN diff THEN now.state = "paused" ELSE resume
     /\ status' = IF "state" \in DOMAIN diff THEN Text(now.state)
                  ELSE IF "file" \in DOMAIN diff THEN "ready" ELSE status
     /\ active' = IF "state" \in DOMAIN diff THEN now.state \in Running
                  ELSE active \/ ("file" \in DOMAIN diff /\ now.file /= None)
  /\ UNCHANGED <<world, up, disabled, flow, bare, split, excused, acts>>

(* Mutant: a change of state is ignored in the report that names a file.     *)
ConsumeFileOrState ==
  /\ inbox /= <<>> /\ Head(inbox).kind = "status"
  /\ inbox' = Tail(inbox)
  /\ LET diff == Head(inbox).diff
         now == Merged(diff, mirror)
         named == "file" \in DOMAIN diff IN
     /\ mirror' = now
     /\ IF named THEN Populate(now) ELSE UNCHANGED <<label, estimate, lastOk, crossed, pending>>
     /\ IF named THEN UpdatePauseResume(now.state = "paused")
        ELSE IF "paused" \in DOMAIN diff THEN UpdatePauseResume(now.paused)
        ELSE UNCHANGED <<resume, disabled, excused>>
     /\ status' = IF named THEN "ready"
                  ELSE IF "state" \in DOMAIN diff THEN Text(now.state) ELSE status
     /\ active' = IF named THEN TRUE
                  ELSE IF "state" \in DOMAIN diff THEN now.state \in Running ELSE active
  /\ UNCHANGED <<world, up, flow, bare, split, acts>>

(* consume().  A report that names a file resets the page, to "ready" until  *)
(* the state is reported (bare: it was not, in the same report), and shows   *)
(* the button of State's state (split: is_paused disagreed with it).         *)
Consume ==
  /\ inbox /= <<>> /\ Head(inbox).kind = "status"
  /\ inbox' = Tail(inbox)
  /\ LET diff == Head(inbox).diff
         now == Merged(diff, mirror)
         named == "file" \in DOMAIN diff IN
     /\ mirror' = now
     /\ IF named THEN Populate(now) ELSE UNCHANGED <<label, estimate, lastOk, crossed, pending>>
     /\ IF "paused" \in DOMAIN diff
        THEN UpdatePauseResume(now.paused) /\ split' = FALSE
        ELSE IF named
        THEN /\ UpdatePauseResume(now.state = "paused")
             /\ split' = (now.paused /= (now.state = "paused"))
        ELSE UNCHANGED <<resume, disabled, excused, split>>
     /\ IF "state" \in DOMAIN diff
        THEN /\ status' = Text(now.state)
             /\ active' = (now.state \in Running)
             /\ bare' = FALSE
        ELSE IF named
        THEN /\ status' = "ready"
             /\ active' = (active \/ now.file /= None)
             /\ bare' = TRUE
        ELSE UNCHANGED <<status, active, bare>>
  /\ UNCHANGED <<world, up, flow, acts>>

(* The link is back and the subscription answered: PrintStatusPanel::init.   *)
Reconnect ==
  /\ ~up
  /\ up' = TRUE
  /\ told' = printer
  /\ mirror' = printer
  /\ Populate(printer)
  /\ UpdatePauseResume(printer.state = "paused")
  /\ split' = (printer.paused /= (printer.state = "paused"))
  /\ status' = Text(printer.state)
  /\ active' = (printer.state \in Running)
  /\ bare' = FALSE
  /\ UNCHANGED <<printer, gcode, inbox, flow, acts>>

(* handle_metadata: whatever the file is by now.                             *)
HandleMetadata ==
  /\ inbox /= <<>> /\ Head(inbox).kind = "metadata"
  /\ inbox' = Tail(inbox)
  /\ estimate' = IF Head(inbox).ok THEN Head(inbox).file ELSE estimate
  /\ lastOk' = Head(inbox).ok
  /\ UNCHANGED <<world, up, label, status, resume, disabled, active, mirror, pending, flow,
                 bare, split, crossed, excused, acts>>

(* The script was answered, with an error or not: print.start follows.       *)
HandleRan ==
  /\ inbox /= <<>> /\ Head(inbox).kind = "ran"
  /\ inbox' = Tail(inbox)
  /\ gcode' = Append(gcode, [Head(inbox).start EXCEPT !.op = "start"])
  /\ UNCHANGED <<printer, told, up, panel, flow, notes, acts>>

-----------------------------------------------------------------------------
(* The buttons, on the LVGL thread.  A command is lost while the link is.    *)

Sent(command) == gcode' = IF up THEN Append(gcode, command) ELSE gcode

(* The page's own pair: the button waits, disabled, for the effect.          *)
Tap ==
  /\ Act /\ dialog = NoDialog
  /\ LET button == IF resume THEN "resume" ELSE "pause" IN
     /\ button \notin disabled
     /\ disabled' = {button}
     /\ Sent([op |-> button])
  /\ UNCHANGED <<printer, told, inbox, up, label, status, resume, estimate, active, mirror,
                 pending, flow, notes>>

(* The button of the card, by the state it last drew; it does not wait.      *)
TapMini ==
  /\ Act /\ dialog = NoDialog
  /\ active /\ status \in Running
  /\ Sent([op |-> IF status = "paused" THEN "resume" ELSE "pause"])
  /\ UNCHANGED <<printer, told, inbox, up, panel, flow, notes>>

(* Print: the dialog keeps what State says of the pins.  The history keeps   *)
(* the flows for which that is so, and stays so but for their own script.    *)
(* A printer without the pins starts the print here, with no dialog; "Print  *)
(* again" of the history comes here too, by its own test for a print.        *)
Open(f) ==
  /\ Act /\ dialog = NoDialog /\ opened < Flows
  /\ mirror.state \notin Running
  /\ opened' = opened + 1
  /\ dialog' = [n |-> opened + 1, file |-> f, was |-> mirror.pin]
  /\ clean' = IF mirror.pin = printer.pin THEN clean \cup {opened + 1} ELSE clean
  /\ UNCHANGED <<world, inbox, up, panel, notes>>

(* Mutant: no script for the mode that the printer starts with.              *)
StartUnlessOff(chosen) ==
  /\ dialog /= NoDialog
  /\ Sent([op |-> IF chosen /= Mode0 THEN "script" ELSE "start",
           n |-> dialog.n, file |-> dialog.file, chosen |-> chosen])
  /\ dialog' = NoDialog
  /\ UNCHANGED <<printer, told, inbox, up, panel, opened, clean, notes, acts>>

(* Start: a script for what differs from the dialog's copy of the pins, or   *)
(* print.start at once.                                                      *)
Start(chosen) ==
  /\ dialog /= NoDialog
  /\ Sent([op |-> IF chosen /= dialog.was THEN "script" ELSE "start",
           n |-> dialog.n, file |-> dialog.file, chosen |-> chosen])
  /\ dialog' = NoDialog
  /\ UNCHANGED <<printer, told, inbox, up, panel, opened, clean, notes, acts>>

Cancel ==
  /\ dialog /= NoDialog
  /\ dialog' = NoDialog
  /\ clean' = clean \ {dialog.n}
  /\ UNCHANGED <<world, inbox, up, panel, opened, notes, acts>>

-----------------------------------------------------------------------------
Klipper ==
  RunPause("pause") \/ RunPause("resume") \/ RunScript \/ RunStart
LoopThread == Consume \/ HandleMetadata \/ HandleRan

Next ==
  \/ \E f \in Files : SelectElsewhere(f) \/ Open(f)
  \/ \E m \in Modes : PinElsewhere(m) \/ Start(m)
  \/ \E c \in {"pause", "resume"} : CommandElsewhere(c)
  \/ Begins \/ Ends
  \/ Klipper \/ StateFollows \/ Publish
  \/ \E i \in DOMAIN pending : AnswerMetadata(i)
  \/ Lose \/ Reconnect \/ LoopThread
  \/ Tap \/ TapMini \/ Cancel

(* Klipper runs what it was sent and reports, libhv reconnects, and the loop *)
(* thread handles what arrives.                                              *)
Fairness == WF_vars(Klipper) /\ WF_vars(Publish) /\ WF_vars(Reconnect) /\ WF_vars(LoopThread)

Spec == Init /\ [][Next]_vars /\ Fairness

-----------------------------------------------------------------------------
(* Properties. *)

(* A print starts with the bed mesh and purge line chosen in its dialog,     *)
(* though the dialog sends commands for differences from an old copy only    *)
(* (print_panel.cpp:1246): unless the copy was older than the printer, the   *)
(* pins changed otherwise since, or the script failed (see :1154).           *)
StartsAsChosen ==
  AtHead("start") /\ Head(gcode).n \in clean => printer.pin = Head(gcode).chosen

(* When everything was reported the page shows the printer's file and state, *)
(* Pause or Resume by is_paused, the card while a print runs, and the        *)
(* estimate of this file: except after a report of the file without the      *)
(* state (bare), a page filled in between state and is_paused (split), or    *)
(* answers out of order (crossed) or without metadata.                       *)
Settled == up /\ printer = told /\ inbox = <<>>

SettledShowsPrint ==
  Settled =>
    /\ label = printer.file
    /\ ~bare => status = Text(printer.state) /\ active = (printer.state \in Running)
    /\ ~split => resume = printer.paused
    /\ pending = <<>> /\ lastOk /\ ~crossed /\ label /= None => estimate = label

(* A button of the page that was disabled by a touch is enabled again,       *)
(* whether the command ran, was overtaken by the end of the print or was     *)
(* lost with the link: unless the macro failed, or is_paused went back       *)
(* before it was reported, or the page was filled in between.                *)
PauseComesBack ==
  disabled /= {} ~> (disabled = {} \/ excused \/ split)
=============================================================================
