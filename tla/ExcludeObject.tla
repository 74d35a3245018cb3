---------------------------- MODULE ExcludeObject ----------------------------
(***************************************************************************)
(* The Exclude Object screen of exclude_object_panel.cpp: the list of the  *)
(* labeled objects of a print, and the command that stops printing one.    *)
(*                                                                         *)
(* The list has two sources.  The WebSocket loop thread gives each status  *)
(* update first to State and then, under lv_lock, to the panel; the LVGL   *)
(* thread (under lv_lock as well) copies State into the panel every two    *)
(* seconds and when the screen opens.  The touch handlers keep an INDEX    *)
(* into the list while the confirmation is shown.                          *)
(*                                                                         *)
(* An object is its place in the order Klipper sorts the names in.  The    *)
(* bounding boxes, the current object, and the two callbacks that tell the *)
(* home page how long the list is (a function of the list) are left out.   *)
(* How a session starts is the subject of Session: here it is a reset of   *)
(* State and, later, a snapshot.                                           *)
(***************************************************************************)
EXTENDS Naturals, Sequences, SequencesExt

CONSTANTS
  Names,       \* the labels an object can have, as numbers in sorting order
  NoField,     \* a status that does not report a field
  None,        \* nothing
  MaxPrints,   \* bound: prints started, and restarts of Klipper
  MaxSends,    \* bound: commands waiting at Klipper
  MaxBacklog   \* bound: reports waiting for the loop thread

ASSUME ExcludeAssumption ==
  /\ Names \subseteq Nat \ {0}
  /\ \A l \in SUBSET Names : l /= NoField
  /\ \A l, m \in (SUBSET Names) \cup {NoField} : [objs |-> l, excl |-> m] /= None
  /\ MaxPrints \in Nat
  /\ MaxSends \in Nat
  /\ MaxBacklog \in Nat

VARIABLES
  klipper,     \* [objs, excl]: the labeled objects, and the excluded ones
  commands,    \* EXCLUDE_OBJECT commands Klipper has yet to run, FIFO
  told,        \* the status Klipper last reported, None before a snapshot
  inbox,       \* what the loop thread has yet to handle, FIFO
  state,       \* State's /printer_state/exclude_object
  half,        \* the update State has merged and the panel has not
  panel,       \* [list, flags]: objects, in order, and those marked excluded
  dialog,      \* the confirmation: [title, index], or None while hidden
  sent,        \* history: pairs <<object of the command, object of the title>>
  stale,       \* history: a session started since the last sync
  early,       \* history: objects excluded while Klipper had no such label
  prints

klipperVars == <<klipper, commands, told, early, prints>>
screenVars == <<panel, dialog, sent, stale>>
vars == <<klipper, commands, told, inbox, state, half, panel, dialog, sent,
          stale, early, prints>>

(* Lists of names, their order aside.                                       *)
Lists == {l \in SUBSET Names : IsFiniteSet(l)}
Statuses == [objs: Lists, excl: Lists]
Fields == [objs: Lists \cup {NoField}, excl: Lists \cup {NoField}]
NoStatus == [objs |-> NoField, excl |-> NoField]
Messages == [kind: {"ready"}] \cup [kind: {"snapshot", "update"}, status: Fields]

IsSortedList(list) ==
  /\ list \in Seq(Names)
  /\ \A i, j \in DOMAIN list : i < j => list[i] < list[j]

(* The array of some names, as Klipper sends it.                            *)
Sorted(names) ==
  CHOOSE list \in [1..Cardinality(names) -> names] : IsSortedList(list)

TypeOK ==
  /\ klipper \in Statuses
  /\ commands \in Seq(Names)
  /\ told \in Statuses \cup {None}
  /\ inbox \in Seq(Messages)
  /\ state \in Fields
  /\ half \in Fields \cup {None}
  /\ panel \in [list: Seq(Names), flags: SUBSET Names]
  /\ IsSortedList(panel.list)
  /\ panel.flags \subseteq ToSet(panel.list)
  /\ dialog \in [title: Names, index: Nat \ {0}] \cup {None}
  /\ sent \subseteq Names \X Names
  /\ stale \in BOOLEAN
  /\ early \subseteq Names
  /\ prints \in 0..MaxPrints

(* A session under way, between two prints.                                 *)
Init ==
  /\ klipper = [objs |-> {}, excl |-> {}]
  /\ commands = <<>>
  /\ told = klipper
  /\ inbox = <<>>
  /\ state = klipper
  /\ half = None
  /\ panel = [list |-> <<>>, flags |-> {}]
  /\ dialog = None
  /\ sent = {}
  /\ stale = FALSE
  /\ early = {}
  /\ prints = 0

-----------------------------------------------------------------------------
(* Klipper's exclude_object module, and Moonraker. *)

(* The G-code of a print labels an object, before or while it prints.       *)
Define(n) ==
  /\ n \notin klipper.objs
  /\ klipper' = [klipper EXCEPT !.objs = @ \cup {n}]
  /\ UNCHANGED <<commands, told, inbox, state, half, screenVars, early, prints>>

(* A print starts: the labels and the exclusions of the last one are gone.  *)
NewPrint ==
  /\ prints < MaxPrints
  /\ prints' = prints + 1
  /\ klipper' = [objs |-> {}, excl |-> {}]
  /\ UNCHANGED <<commands, told, inbox, state, half, screenVars, early>>

RunCommand ==
  /\ commands /= <<>>
  /\ commands' = Tail(commands)
  /\ klipper' = [klipper EXCEPT !.excl = @ \cup {Head(commands)}]
  /\ early' = early \cup ({Head(commands)} \ klipper.objs)
  /\ UNCHANGED <<told, inbox, state, half, screenVars, prints>>

(* Now and then Klipper reports the fields that differ from its last report.*)
Report ==
  /\ told \notin {None, klipper}
  /\ Len(inbox) < MaxBacklog
  /\ told' = klipper
  /\ inbox' = Append(inbox,
       [kind |-> "update",
        status |->
          [objs |-> IF klipper.objs = told.objs THEN NoField ELSE klipper.objs,
           excl |-> IF klipper.excl = told.excl THEN NoField ELSE klipper.excl]])
  /\ UNCHANGED <<klipper, commands, state, half, screenVars, early, prints>>

(* Klipper restarts.  It reports again once the screen has subscribed.      *)
Restart ==
  /\ prints < MaxPrints
  /\ prints' = prints + 1
  /\ klipper' = [objs |-> {}, excl |-> {}]
  /\ commands' = <<>>
  /\ told' = None
  /\ inbox' = Append(inbox, [kind |-> "ready"])
  /\ UNCHANGED <<state, half, screenVars, early>>

Snapshot ==
  /\ told = None
  /\ inbox = <<>>
  /\ state = NoStatus
  /\ half = None
  /\ told' = klipper
  /\ inbox' = <<[kind |-> "snapshot", status |-> klipper]>>
  /\ UNCHANGED <<klipper, commands, state, half, screenVars, early, prints>>

-----------------------------------------------------------------------------
(* The loop thread. *)

Merged(old, new) ==
  [objs |-> IF new.objs = NoField THEN old.objs ELSE new.objs,
   excl |-> IF new.excl = NoField THEN old.excl ELSE new.excl]

Take(kind) ==
  /\ half = None
  /\ inbox /= <<>>
  /\ Head(inbox).kind = kind
  /\ inbox' = Tail(inbox)

(* InitPanel::connected: State::reset().  The panel is not told.            *)
HandleReady ==
  /\ Take("ready")
  /\ state' = NoStatus
  /\ stale' = TRUE
  /\ UNCHANGED <<klipperVars, half, panel, dialog, sent>>

(* The subscription's answer: State::set_data.  The panel is not told.      *)
HandleSnapshot ==
  /\ Take("snapshot")
  /\ state' = Merged(state, Head(inbox).status)
  /\ stale' = TRUE
  /\ UNCHANGED <<klipperVars, half, panel, dialog, sent>>

(* notify_status_update: State::consume ...                                 *)
StateConsume ==
  /\ Take("update")
  /\ state' = Merged(state, Head(inbox).status)
  /\ half' = Head(inbox).status
  /\ UNCHANGED <<klipperVars, screenVars>>

(* Mutants: a new list starts without marks; marks outlive their object.    *)
PanelMergeUnmarks(p, status) ==
  LET list == IF status.objs = NoField THEN p.list ELSE Sorted(status.objs)
      kept == IF status.objs = NoField THEN p.flags ELSE {}
      marked == IF status.excl = NoField THEN kept ELSE status.excl
  IN  [list |-> list, flags |-> marked \cap ToSet(list)]

PanelMergeKeepsMarks(p, status) ==
  [list |-> IF status.objs = NoField THEN p.list ELSE Sorted(status.objs),
   flags |-> IF status.excl = NoField THEN p.flags ELSE status.excl]

(* ExcludeObjectPanel::merge: a new list takes over the marks of the old    *)
(* one by name; a report of the exclusions replaces them.                   *)
PanelMerge(p, status) ==
  LET list == IF status.objs = NoField THEN p.list ELSE Sorted(status.objs)
      marked == IF status.excl = NoField THEN p.flags ELSE status.excl
  IN  [list |-> list, flags |-> marked \cap ToSet(list)]

(* ... and then ExcludeObjectPanel::consume.  The rows are rebuilt when the *)
(* list or the marks changed; a confirmation that is shown stays.           *)
PanelConsume ==
  /\ half /= None
  /\ half' = None
  /\ panel' = PanelMerge(panel, half)
  /\ UNCHANGED <<klipperVars, inbox, state, dialog, sent, stale>>

-----------------------------------------------------------------------------
(* The LVGL thread. *)

(* Mutant: the marks are left to the updates.                               *)
SyncedList ==
  IF state = NoStatus THEN panel
  ELSE PanelMerge(panel, [state EXCEPT !.excl = NoField])

(* sync_from_state, from its timer: nothing to merge if State has no object *)
(* of that name (after a reset).                                            *)
Synced == IF state = NoStatus THEN panel ELSE PanelMerge(panel, state)

Sync ==
  /\ panel' = Synced
  /\ stale' = FALSE
  /\ UNCHANGED <<klipperVars, inbox, state, half, dialog, sent>>

(* foreground(): the screen opens, or opens again after it was closed: sync,*)
(* and no confirmation.                                                     *)
Foreground ==
  /\ panel' = Synced
  /\ stale' = FALSE
  /\ dialog' = None
  /\ UNCHANGED <<klipperVars, inbox, state, half, sent>>

(* The Exclude button of row i (disabled on a row that is marked); the      *)
(* confirmation covers the rows.                                            *)
Ask(i) ==
  /\ dialog = None
  /\ i \in DOMAIN panel.list
  /\ panel.list[i] \notin panel.flags
  /\ dialog' = [title |-> panel.list[i], index |-> i]
  /\ UNCHANGED <<klipperVars, inbox, state, half, panel, sent, stale>>

(* Its Cancel button, or the screen is closed.                              *)
Cancel ==
  /\ dialog /= None
  /\ dialog' = None
  /\ UNCHANGED <<klipperVars, inbox, state, half, panel, sent, stale>>

(* Its Exclude button: do_exclude() looks the index up in the list of now.  *)
Confirm ==
  /\ dialog /= None
  /\ dialog' = None
  /\ IF dialog.index \in DOMAIN panel.list
     THEN LET n == panel.list[dialog.index] IN
          /\ Len(commands) < MaxSends
          /\ commands' = Append(commands, n)
          /\ sent' = sent \cup {<<n, dialog.title>>}
          /\ panel' = [panel EXCEPT !.flags = @ \cup {n}]
     ELSE UNCHANGED <<commands, sent, panel>>
  /\ UNCHANGED <<klipper, told, inbox, state, half, stale, early, prints>>

-----------------------------------------------------------------------------
LoopThread == HandleReady \/ HandleSnapshot \/ StateConsume \/ PanelConsume

Next ==
  \/ \E n \in Names : Define(n)
  \/ NewPrint \/ RunCommand \/ Report \/ Restart \/ Snapshot
  \/ LoopThread
  \/ Sync \/ Foreground \/ Cancel \/ Confirm
  \/ \E i \in DOMAIN panel.list : Ask(i)

Spec == Init /\ [][Next]_vars

(* The loop thread handles its messages, Moonraker answers and forwards,    *)
(* Klipper runs its commands, and the two-second timer fires.               *)
FairSpec ==
  /\ Spec
  /\ WF_vars(LoopThread)
  /\ WF_vars(Report) /\ WF_vars(Snapshot) /\ WF_vars(RunCommand)
  /\ WF_vars(Sync)

-----------------------------------------------------------------------------
(* Properties. *)

(* Between two steps of the loop thread, and once the panel has synced with *)
(* a session, it lists exactly what State lists; what it marks beyond       *)
(* State's exclusions is something this screen excluded; and it misses an   *)
(* exclusion only of an object that Klipper had no label for when it        *)
(* excluded it (a command that ran late): merge() on partial updates, from  *)
(* two threads, never drops another one and never carries one over to       *)
(* another print.                                                           *)
PanelFollowsState ==
  (half = None /\ ~stale /\ state /= NoStatus) =>
    /\ ToSet(panel.list) = state.objs
    /\ (state.excl \cap state.objs) \ panel.flags \subseteq early
    /\ panel.flags \ state.excl \subseteq {p[1] : p \in sent}

(* With nothing on its way, what the screen marks after a sync is what      *)
(* Klipper has excluded: the mark that do_exclude() sets ahead of Klipper   *)
(* does not outlive a command that was lost (a restart) or undone (a new    *)
(* print).                                                                  *)
SyncCorrects ==
  [][(Sync /\ inbox = <<>> /\ half = None /\ told = klipper)
       => /\ ToSet(panel'.list) = klipper.objs
          /\ panel'.flags = klipper.excl \cap klipper.objs]_vars

(* An object is offered for exclusion again only if Klipper does not have   *)
(* it as excluded in the end: when the printer stays as it is, the panel    *)
(* ends up showing it as it is and stays so until the user excludes more.   *)
Settled == commands = <<>> /\ told = klipper /\ inbox = <<>> /\ half = None

Converges ==
  <>[]Settled =>
    <>[](ToSet(panel.list) = klipper.objs /\ panel.flags = klipper.excl \cap klipper.objs)

(* "Exclude <name>?  It will not be printed.  This cannot be undone until   *)
(* the next print." (exclude_object_panel.cpp): the object that is excluded *)
(* is the one the confirmation named.                                       *)
ExcludesWhatItAsked ==
  \A p \in sent : p[1] = p[2]
=============================================================================
