-------------------------------- MODULE Prompt --------------------------------
(***************************************************************************)
(* The prompts of Klipper macros (prompt_panel.cpp).  A macro writes       *)
(* "// action:prompt_..." lines to the console; Moonraker forwards them in *)
(* order with the status reports, and nothing repeats what is lost.  The   *)
(* loop thread builds the prompt line by line under lv_lock, the LVGL      *)
(* thread handles its buttons between two lines.  Console lines reach the  *)
(* panel from the moment the link is open, reports only after the          *)
(* subscription of the session (init_panel.cpp), which fills State.        *)
(*                                                                         *)
(* Wording, headers and layout are left out: a button is its kind.         *)
(***************************************************************************)
EXTENDS Naturals, Sequences, SequencesExt

CONSTANTS
  Macros,   \* the prompts: sequences of lines
  None,     \* no group; no entry in State; no subscription
  MaxActs   \* bound: macros started, changes of the print, restarts, touches
            \* and losses

VARIABLES
  state,             \* Klipper: print_stats.state
  told,              \* as the subscriber was told; None: no subscription
  asked,             \* the session has asked for the objects or for their
                     \* status, and Moonraker has yet to answer
  out, said,         \* the lines the macro has yet to write; those written
                     \* since the last prompt_begin or prompt_end, with it
  jobs,              \* commands of buttons that Klipper has yet to run
  up, inbox,         \* the connection, and what is under way on it
  mirror,            \* State: print_stats.state; None: State was emptied
  manual,            \* manual_filament_prompt
  content,           \* the buttons in footer_cont and flex
  body,              \* flex is not hidden: what is not in the footer is seen
  group,             \* button_group_cont: None, "open" or "gone"
  load, off,         \* load_btn points to a button, which is disabled
  shown,             \* prompt_cont is not hidden
  dismissed, gap, blind, loose,   \* history: see Touch, Drop, Connected, Clean
  acts

klipper == <<state, told, asked, out, said, jobs>>
prompt == <<manual, content, body, group, load, off, shown>>
vars == <<klipper, up, inbox, mirror, prompt, dismissed, gap, blind, loose, acts>>

States == {"standby", "printing", "paused"}
Kinds == {"fill", "resume", "close", "other"}
Places == {"footer", "flex", "open"}
Lines ==
  [op: {"begin"}, manual: BOOLEAN] \cup [op: {"button"}, kind: Kinds, footer: BOOLEAN]
  \cup [op: {"text", "group_start", "group_end", "show", "end"}]
Bounds == {"begin", "end"}    \* each of them empties the prompt
Session == {"status", "filled", "ready"}    \* what is not of a prompt
ShowAfter(lines, i) == \E j \in DOMAIN lines : j > i /\ lines[j].op = "show"

(* A macro shows its prompt once it has declared its buttons.                *)
ASSUME PromptAssumption ==
  /\ MaxActs \in Nat
  /\ None \notin {"open", "gone"} \cup States
  /\ \A m \in Macros :
       /\ m \in Seq(Lines)
       /\ \A i \in DOMAIN m : m[i].op = "button" => ShowAfter(m, i)

TypeOK ==
  /\ state \in States
  /\ {told, mirror} \subseteq States \cup {None}
  /\ {up, asked, manual, body, load, off, shown} \subseteq BOOLEAN
  /\ \A b \in Range(content) : b.kind \in Kinds /\ b.place \in Places
  /\ group \in {None, "open", "gone"}
  /\ load => manual /\ \E b \in Range(content) : b.kind = "fill"

(* A session is complete and no prompt was written yet.  button_group_cont   *)
(* has no initial value, and is loose when it is not NULL.                   *)
Init ==
  /\ state = "standby" /\ told = "standby" /\ mirror = "standby" /\ asked = FALSE
  /\ out = <<>> /\ said = <<>> /\ jobs = <<>>
  /\ up = TRUE /\ inbox = <<>>
  /\ manual = FALSE /\ content = <<>> /\ body = TRUE /\ group \in {None, "gone"}
  /\ load = FALSE /\ off = FALSE /\ shown = FALSE
  /\ dismissed = FALSE /\ gap = FALSE /\ blind = FALSE /\ loose = (group = "gone")
  /\ acts = 0

-----------------------------------------------------------------------------
(* Klipper, Moonraker and the link. *)

Act == acts < MaxActs /\ acts' = acts + 1

StartMacro(m) ==
  /\ Act /\ out = <<>>
  /\ out' = m
  /\ UNCHANGED <<state, told, asked, said, jobs, up, inbox, mirror, prompt, dismissed, gap, blind,
                 loose>>

(* The macro writes its next line; without a connection the line is lost.    *)
Write ==
  /\ out /= <<>>
  /\ out' = Tail(out)
  /\ said' = IF Head(out).op \in Bounds THEN <<Head(out)>> ELSE Append(said, Head(out))
  /\ inbox' = IF up THEN Append(inbox, Head(out)) ELSE inbox
  /\ gap' = (gap \/ ~up)
  /\ UNCHANGED <<state, told, asked, jobs, up, mirror, prompt, dismissed, blind, loose, acts>>

PrintChanges(s) ==
  /\ Act
  /\ s /= state
  /\ state' = s
  /\ UNCHANGED <<told, asked, out, said, jobs, up, inbox, mirror, prompt, dismissed, gap, blind,
                 loose>>

(* A command of a button, when no macro runs.  CLOSE of the manual menu is    *)
(* RESPOND prompt_end (powerscreen_cmd.cfg:177).                              *)
RunJob ==
  /\ jobs /= <<>> /\ out = <<>>
  /\ jobs' = Tail(jobs)
  /\ state' = IF Head(jobs) = "resume" THEN "printing" ELSE state
  /\ out' = IF Head(jobs) = "close" THEN <<[op |-> "end"]>> ELSE <<>>
  /\ UNCHANGED <<told, asked, said, up, inbox, mirror, prompt, dismissed, gap, blind, loose,
                 acts>>

(* A subscriber is told what changed.                                        *)
Report ==
  /\ up /\ told /= None /\ state /= told
  /\ told' = state
  /\ inbox' = Append(inbox, [op |-> "status", state |-> state])
  /\ UNCHANGED <<state, asked, out, said, jobs, up, mirror, prompt, dismissed, gap, blind,
                 loose, acts>>

(* Moonraker answers the session's requests: it is subscribed from here on.  *)
Answer ==
  /\ asked
  /\ asked' = FALSE
  /\ told' = state
  /\ inbox' = Append(inbox, [op |-> "filled", state |-> state])
  /\ UNCHANGED <<state, out, said, jobs, up, mirror, prompt, dismissed, gap, blind, loose,
                 acts>>

(* Klipper restarts: the macro it ran, its commands and the subscription are *)
(* gone.  A request that waited for it is refused, unless it is only sent    *)
(* when Klipper is back.                                                     *)
Restart ==
  /\ Act
  /\ state' = "standby" /\ told' = None
  /\ out' = <<>> /\ jobs' = <<>>
  /\ asked' \in {FALSE, asked}
  /\ inbox' = IF up THEN Append(inbox, [op |-> "ready"]) ELSE inbox
  /\ UNCHANGED <<said, up, mirror, prompt, dismissed, gap, blind, loose>>

(* gap says that lines of the prompt were lost.                              *)
Drop ==
  /\ Act /\ up
  /\ up' = FALSE
  /\ inbox' = <<>>
  /\ told' = None /\ asked' = FALSE
  /\ gap' = (gap \/ \E i \in DOMAIN inbox : inbox[i].op \notin Session)
  /\ UNCHANGED <<state, out, said, jobs, mirror, prompt, dismissed, blind, loose>>

(* InitPanel::connected empties State and asks for the printer's objects and *)
(* their status.  blind says that the buttons have not followed State since. *)
Connected ==
  /\ mirror' = None /\ asked' = TRUE
  /\ blind' = TRUE

(* The link opens.                                                           *)
Reconnect ==
  /\ ~up
  /\ up' = TRUE
  /\ Connected
  /\ UNCHANGED <<state, told, out, said, jobs, inbox, prompt, dismissed, gap, loose, acts>>

-----------------------------------------------------------------------------
(* handle_macro_response and consume, on the loop thread. *)

Receive(op) ==
  /\ inbox /= <<>> /\ Head(inbox).op = op
  /\ inbox' = Tail(inbox)
  /\ UNCHANGED <<state, told, out, said, jobs, up, acts>>

(* notify_klippy_ready: a session starts over.                               *)
Ready ==
  /\ Receive("ready")
  /\ Connected
  /\ UNCHANGED <<prompt, dismissed, gap, loose>>

(* The answer to the subscription fills State; no consumer is called.        *)
Fill ==
  /\ Receive("filled")
  /\ mirror' = Head(inbox).state
  /\ blind' = (blind \/ mirror /= Head(inbox).state)
  /\ UNCHANGED <<asked, prompt, dismissed, gap, loose>>

(* refresh_filament_buttons, off having a meaning while load_btn is set: a   *)
(* State without an entry reads like one that is not printing.               *)
Refresh(s) ==
  /\ off' = (load /\ s = "printing")
  /\ blind' = (s = None)

Status ==
  /\ Receive("status")
  /\ mirror' = Head(inbox).state
  /\ Refresh(Head(inbox).state)
  /\ UNCHANGED <<asked, manual, content, body, group, load, shown, dismissed, gap, loose>>

(* Every child of flex is deleted, an open group too; button_group_cont      *)
(* keeps its value, and is loose in the prompt that follows.                 *)
Clean ==
  /\ content' = <<>>
  /\ load' = FALSE /\ off' = FALSE
  /\ group' = IF group = "open" THEN "gone" ELSE group
  /\ loose' = (group /= None)
  /\ gap' = FALSE
  /\ UNCHANGED <<asked, mirror, blind>>

(* Mutant: load_btn keeps its value.                                         *)
BeginKeepsLoad ==
  /\ Receive("begin")
  /\ manual' = Head(inbox).manual
  /\ content' = <<>> /\ body' = FALSE
  /\ group' = IF group = "open" THEN "gone" ELSE group
  /\ loose' = (group /= None)
  /\ gap' = FALSE
  /\ UNCHANGED <<asked, mirror, load, off, shown, dismissed, blind>>

(* prompt_begin hides flex and leaves the container shown or hidden as it    *)
(* is.                                                                       *)
Begin ==
  /\ Receive("begin")
  /\ manual' = Head(inbox).manual
  /\ Clean
  /\ body' = FALSE
  /\ UNCHANGED <<shown, dismissed>>

(* prompt_text is what shows flex again.                                     *)
Text ==
  /\ Receive("text")
  /\ body' = TRUE
  /\ UNCHANGED <<asked, mirror, manual, content, group, load, off, shown, dismissed, gap, blind,
                 loose>>

Group ==
  /\ Receive("group_start")
  /\ group' = "open"
  /\ UNCHANGED <<asked, mirror, manual, content, body, load, off, shown, dismissed, gap, blind,
                 loose>>

(* Mutant: a group that ended still takes the buttons that follow.           *)
GroupEndIgnored ==
  /\ Receive("group_end")
  /\ UNCHANGED <<asked, mirror, prompt, dismissed, gap, blind, loose>>

GroupEnd ==
  /\ Receive("group_end")
  /\ group' = None
  /\ UNCHANGED <<asked, mirror, manual, content, body, load, off, shown, dismissed, gap, blind,
                 loose>>

(* A button goes to the footer, the open group or flex; in a group that was  *)
(* deleted it may end anywhere, here: be lost.                               *)
Button ==
  /\ Receive("button")
  /\ LET b == Head(inbox)
         place == IF b.footer THEN "footer"
                  ELSE IF group = None THEN "flex" ELSE group IN
     /\ content' = IF place = "gone" THEN content
                   ELSE Append(content, [kind |-> b.kind, place |-> place])
     /\ IF manual /\ b.kind = "fill" /\ place /= "gone"
        THEN load' = TRUE /\ off' = FALSE
        ELSE UNCHANGED <<load, off>>
  /\ UNCHANGED <<asked, mirror, manual, body, group, shown, dismissed, gap, blind, loose>>

(* Mutant: the buttons wait for the next report.                             *)
ShowUnrefreshed ==
  /\ Receive("show")
  /\ shown' = TRUE
  /\ dismissed' = FALSE
  /\ UNCHANGED <<asked, mirror, manual, content, body, group, load, off, gap, blind, loose>>

Show ==
  /\ Receive("show")
  /\ Refresh(mirror)
  /\ shown' = TRUE
  /\ dismissed' = FALSE
  /\ UNCHANGED <<asked, mirror, manual, content, body, group, load, gap, loose>>

(* prompt_end hides the container, and leaves flex shown in it.              *)
End ==
  /\ Receive("end")
  /\ shown' = FALSE /\ manual' = FALSE /\ body' = TRUE
  /\ Clean
  /\ UNCHANGED dismissed

(* A touch.  RESUME and STOP hide the prompt, dismissed, before they are     *)
(* sent; CLOSE of the manual menu does not, its label reads "Close" by then. *)
Touch(i) ==
  /\ Act
  /\ shown /\ i \in DOMAIN content
  /\ content[i].place = "footer" \/ body
  /\ LET kind == content[i].kind
         hides == kind = "resume" \/ (kind = "close" /\ ~manual) IN
     /\ kind = "fill" => ~off
     /\ shown' = ~hides
     /\ dismissed' = (dismissed \/ hides)
     /\ jobs' = IF up THEN Append(jobs, kind) ELSE jobs
  /\ UNCHANGED <<state, told, asked, out, said, up, inbox, mirror, manual, content, body, group,
                 load, off, gap, blind, loose>>

-----------------------------------------------------------------------------
LoopThread ==
  \/ Ready \/ Fill \/ Status
  \/ Begin \/ Text \/ Group \/ GroupEnd \/ Button \/ Show \/ End

Next ==
  \/ \E m \in Macros : StartMacro(m)
  \/ Write \/ RunJob \/ Report \/ Answer \/ Restart \/ Drop \/ Reconnect
  \/ \E s \in States : PrintChanges(s)
  \/ LoopThread
  \/ \E i \in DOMAIN content : Touch(i)

Spec == Init /\ [][Next]_vars

-----------------------------------------------------------------------------
(* Properties. *)

Settled == up /\ inbox = <<>> /\ out = <<>> /\ told = state

(* Reference: the buttons that some lines ask for, each in the group that is *)
(* open where it is declared.                                                *)
Inside(lines, i) ==
  \E j \in 1..i : /\ lines[j].op = "group_start"
                  /\ \A k \in j..i : lines[k].op /= "group_end"
Placed(lines, i) ==
  [kind |-> lines[i].kind,
   place |-> IF lines[i].footer THEN "footer"
             ELSE IF Inside(lines, i) THEN "open" ELSE "flex"]
Declared(lines) ==
  LET buttons[n \in 0..Len(lines)] ==
        IF n = 0 THEN <<>>
        ELSE IF lines[n].op = "button" THEN Append(buttons[n - 1], Placed(lines, n))
        ELSE buttons[n - 1]
  IN  buttons[Len(lines)]

ShowIn(lines) == ShowAfter(lines, 0)
Ended(lines) == lines /= <<>> /\ Head(lines).op = "end"
TextIn(lines) == \E i \in DOMAIN lines : lines[i].op = "text"
Begun(lines) == lines /= <<>> /\ Head(lines).op = "begin"

(* With every line handled the prompt is the one Klipper wrote last, buttons *)
(* in their groups, and is shown from prompt_show to prompt_end or to the    *)
(* touch that dismissed it, whatever prompts, restarts and losses came       *)
(* before.  The buttons outside the footer are on the screen unless the      *)
(* prompt began without a prompt_text (prompt_panel.cpp:293, :344).  Not     *)
(* said of a prompt that lost a line, nor of one that follows a prompt whose *)
(* group was left open and deleted (:367).                                   *)
PromptAsWritten ==
  Settled /\ ~gap /\ ~loose =>
    /\ content = Declared(said)
    /\ body = (Begun(said) => TextIn(said))
    /\ IF ShowIn(said) THEN shown = ~dismissed ELSE Ended(said) => ~shown

(* LOAD of the manual menu is disabled while a print is running and enabled  *)
(* otherwise (prompt_panel.cpp:158), though prompts, reports and restarts    *)
(* come in any order: except after a new session has emptied State and       *)
(* filled it again (init_panel.cpp:66, :132), until the next report or a     *)
(* prompt_show that finds it filled, or when prompt_show was lost.           *)
FillSafe ==
  Settled /\ ~gap /\ ~blind /\ load /\ shown => off = (state = "printing")
=============================================================================
