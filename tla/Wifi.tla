--------------------------------- MODULE Wifi ---------------------------------
(***************************************************************************)
(* The Wi-Fi panel (wifi_panel.cpp) and its connection to wpa_supplicant   *)
(* (wpa_event.cpp).                                                        *)
(*                                                                         *)
(* Touch handlers run on the LVGL thread, which holds lv_lock all through  *)
(* them.  The events of wpa_supplicant are handled on a thread of their    *)
(* own that takes lv_lock only to redraw.  Both send commands over one     *)
(* datagram socket and take the next datagram as the answer, or give up;   *)
(* an answer is not marked with its command.                               *)
(***************************************************************************)
EXTENDS Naturals, Sequences, FiniteSetsExt

CONSTANTS
  Ssids, Secure,    \* the networks, and those that need a password
  Alpha, Strength,  \* Ssids in the order of their names, and of their signal
  Air,              \* what a scan may see: sets of networks
  Boot,             \* wpa_supplicant as the panel may find it: the networks
                    \* it has stored, by id, and enabled and current of below
  None, Open,       \* no network or id; the key of an open network
  MaxId,            \* bound: wpa_supplicant refuses to add networks above it
  MaxTouches, MaxEvents, \* bounds: handlers started by the user, and what
                         \* wpa_supplicant does of its own accord; touches and
                         \* events stop once an answer was taken for another
                         \* command or wpa_supplicant has ended
  MaxLate                \* bound: requests given up while wpa_supplicant lives

(* All of Ssids, in some order.                                              *)
IsOrder(q) ==
  /\ q \in Seq(Ssids)
  /\ \A s \in Ssids : \E i \in DOMAIN q : q[i] = s
  /\ \A i, j \in DOMAIN q : q[i] = q[j] => i = j

ASSUME WifiAssumption ==
  /\ Secure \subseteq Ssids
  /\ IsOrder(Alpha) /\ IsOrder(Strength)
  /\ Air \subseteq SUBSET Ssids
  /\ \A b \in Boot : /\ b.stored \in Seq(Ssids) /\ Len(b.stored) <= MaxId + 1
                    /\ b.enabled \subseteq {i \in 0..MaxId : i < Len(b.stored)}
                    /\ b.current \in b.enabled \cup {None}
  /\ None \notin Ssids \cup Nat /\ Open \notin Ssids \cup {None}
  /\ \A s \in Ssids \cup {None}, k \in Ssids \cup {None, Open} :
       [ssid |-> s, key |-> k] /= None
  /\ {MaxId, MaxTouches, MaxEvents, MaxLate} \subseteq Nat

VARIABLES
  networks, selected,         \* WifiPanel: the rows, and the checked one or 0
  selected_network,           \* the network connect() is for
  cur_network, list_networks, \* what LIST_NETWORKS said
  prompt,                     \* the network "Password for ..." names, or None
  card,                       \* the status card as it was last drawn
  todo, waiting,              \* per thread: what its handler still does
  nid, answer, heard,         \* the locals nid, nets and f of the handlers
  cmds, replies, events,      \* the sockets
  nets, enabled,              \* wpa_supplicant: networks, those it may join,
  current, dead,              \* current_ssid: the one it has joined or is joining
  faults, untold, undrawn,    \* history: what went wrong, see Leave and Parse
  touches, happened, late

panel == <<networks, selected, selected_network, cur_network, list_networks,
           prompt, card>>
threads == <<todo, waiting, nid, answer, heard>>
sockets == <<cmds, replies, events>>
supplicant == <<nets, enabled, current, dead>>
counts == <<touches, happened, late>>
vars == <<panel, threads, sockets, supplicant, faults, untold, undrawn, counts>>

Threads == {"ui", "ev"}
Ids == 0..MaxId
NoList == [saved |-> [s \in Ssids |-> None], cur |-> None]
Step(op, ssid, net) == [op |-> op, ssid |-> ssid, net |-> net]
Reading == {"clear", "parse"}
Local == Reading \cup {"scanned", "redraw"}
Plain == {"SCAN", "SSID", "KEY", "SELECT", "SAVE", "REMOVE"}
Sent == Plain \cup {"ADD", "LIST", "RESULTS"}
NoCard == [ssid |-> None, connected |-> FALSE, saved |-> FALSE]

Steps == [op: Sent \cup Local, ssid: Ssids \cup {None, Open}, net: Ids \cup {None}]
Lists == [saved: [Ssids -> Ids \cup {None}], cur: Ssids \cup {None}]
Origins == Threads \cup {"nobody"}
Commands == [by: Origins, step: {s \in Steps : s.op \in Sent}]
Replies ==
  [by: Origins, op: {"ADD"}, val: Ids \cup {None}]
  \cup [by: Origins, op: {"LIST"}, val: Lists]
  \cup [by: Origins, op: {"RESULTS"}, val: Air]
  \cup [by: Origins, op: Plain, val: {"OK", "FAIL"}]
Networks == [ssid: Ssids \cup {None}, key: Ssids \cup {None, Open}]
Known == {i \in Ids : nets[i] /= None}

PanelType ==
  /\ networks \in Seq(Ssids) /\ selected \in 0..Len(networks)
  /\ {selected_network, cur_network, prompt} \subseteq Ssids \cup {None}
  /\ list_networks \in [Ssids -> Ids \cup {None}]
ThreadType ==
  /\ todo \in [Threads -> Seq(Steps)]
  /\ \A t \in Threads : \A i \in DOMAIN todo[t] : todo[t][i].op = "SSID" => todo[t][i].ssid /= Open
  /\ waiting \in [Threads -> BOOLEAN]
  /\ \A t \in Threads : waiting[t] => todo[t] /= <<>> /\ Head(todo[t]).op \in Sent
  /\ nid \in [id: Ids, word: BOOLEAN]
  /\ answer \in [Threads -> Lists]
  /\ heard \subseteq Ssids
SocketType ==
  /\ cmds \in Seq(Commands)
  /\ \A i \in DOMAIN cmds : cmds[i].step.op = "SSID" => cmds[i].step.ssid /= Open
  /\ replies \in Seq(Replies)
  /\ events \in Seq({"SCAN-RESULTS", "CONNECTED"})
SupplicantType ==
  /\ nets \in [Ids -> Networks \cup {None}]
  /\ enabled \subseteq Known
  /\ current \in enabled \cup {None}
  /\ dead \in BOOLEAN
TypeOK ==
  /\ PanelType /\ ThreadType /\ SocketType /\ SupplicantType
  /\ untold \in BOOLEAN /\ undrawn \in BOOLEAN

(* The program starts long after wpa_supplicant, and asks it for nothing     *)
(* before the first event (init_wpa).                                        *)
Configured(s) == [ssid |-> s, key |-> IF s \in Secure THEN s ELSE Open]

Init ==
  /\ networks = <<>> /\ selected = 0 /\ selected_network = None
  /\ cur_network = None /\ list_networks = NoList.saved
  /\ prompt = None /\ card = NoCard
  /\ todo = [t \in Threads |-> <<>>] /\ waiting = [t \in Threads |-> FALSE]
  /\ nid = [id |-> 0, word |-> FALSE]
  /\ answer = [t \in Threads |-> NoList] /\ heard = {}
  /\ cmds = <<>> /\ replies = <<>> /\ events = <<>>
  /\ \E b \in Boot :
       /\ nets = [i \in Ids |-> IF i < Len(b.stored) THEN Configured(b.stored[i + 1]) ELSE None]
       /\ enabled = b.enabled /\ current = b.current
  /\ faults = {} /\ untold = (current /= None) /\ undrawn = FALSE
  /\ dead = FALSE
  /\ touches = 0 /\ happened = 0 /\ late = 0

-----------------------------------------------------------------------------
(* Drawing. *)

Shown(rows, sel) == IF sel \in DOMAIN rows THEN rows[sel] ELSE None

(* update_status: what the card and the buttons under it say. *)
Status(rows, sel) ==
  LET s == Shown(rows, sel) IN
  IF s = None THEN NoCard
  ELSE [ssid |-> s, connected |-> s = cur_network, saved |-> list_networks[s] /= None]

(* Some networks, in the order of all.                                       *)
InOrder(order, seen) ==
  LET rows[n \in 0..Len(order)] ==
        IF n = 0 THEN <<>>
        ELSE IF order[n] \in seen THEN Append(rows[n - 1], order[n]) ELSE rows[n - 1]
  IN  rows[Len(order)]

(* The connected network first, then by signal.                              *)
Ordered(rows) ==
  LET seen == {rows[i] : i \in DOMAIN rows} IN
  IF cur_network \in seen
  THEN <<cur_network>> \o InOrder(Strength, seen \ {cur_network})
  ELSE InOrder(Strength, seen)

(* Mutant: the index survives the list it was an index of.                   *)
RebuildKeepsIndex(rows, sel) ==
  /\ networks' = Ordered(rows)
  /\ selected' = IF sel = 0 /\ rows /= <<>> THEN 1 ELSE sel
  /\ card' = Status(Ordered(rows), sel)

(* rebuild_list: the row that was selected stays so.  sel indexes the vector *)
(* as it stands on entry.                                                    *)
Rebuild(rows, sel) ==
  LET wanted == IF sel \in DOMAIN rows THEN rows[sel] ELSE cur_network
      sorted == Ordered(rows)
      again == {i \in DOMAIN sorted : sorted[i] = wanted}
      pos == IF again /= {} THEN Max(again) ELSE IF sorted /= <<>> THEN 1 ELSE 0 IN
  /\ networks' = sorted
  /\ selected' = pos
  /\ card' = Status(sorted, pos)

-----------------------------------------------------------------------------
(* Touch handlers.  Each starts with lv_lock free and keeps it to its end.  *)

Idle(t) == todo[t] = <<>>

Touch ==
  /\ Idle("ui")
  /\ touches < MaxTouches /\ "crossed" \notin faults /\ ~dead
  /\ touches' = touches + 1
  /\ UNCHANGED <<networks, cur_network, list_networks, waiting, nid, answer, heard,
                 sockets, supplicant, untold, undrawn, happened, late>>

Runs(steps) == todo' = [todo EXCEPT !["ui"] = steps]

HandleRow(i) ==
  /\ Touch
  /\ i \in DOMAIN networks
  /\ selected' = i
  /\ selected_network' = networks[i]
  /\ prompt' = None
  /\ card' = Status(networks, i)
  /\ UNCHANGED <<todo, faults>>

Scan ==
  /\ Touch
  /\ Runs(<<Step("SCAN", None, None)>>)
  /\ UNCHANGED <<selected, selected_network, prompt, card, faults>>

(* connect(): a network is added whatever is saved, then described by id.    *)
(* ENABLE_NETWORK, whose effect SELECT_NETWORK repeats, is left out.         *)
ConnectTo(s, key) ==
  Runs(<<Step("ADD", None, None), Step("SSID", s, None), Step("KEY", key, None),
         Step("SELECT", None, None), Step("SAVE", None, None)>>)

(* Connect, with the button enabled by the last update_status.  Under an open *)
(* prompt it may change selected_network, and the prompt keeps its label.    *)
PressConnect ==
  LET s == Shown(networks, selected) IN
  /\ Touch
  /\ s /= None
  /\ ~card.connected
  /\ selected_network' = s
  /\ faults' = IF prompt \notin {None, s} THEN faults \cup {"moved"} ELSE faults
  /\ \/ s = cur_network /\ UNCHANGED <<prompt, todo>>
     \/ /\ s /= cur_network /\ list_networks[s] /= None
        /\ Runs(<<Step("SELECT", None, list_networks[s]), Step("SAVE", None, None)>>)
        /\ UNCHANGED prompt
     \/ /\ s /= cur_network /\ list_networks[s] = None /\ s \notin Secure
        /\ ConnectTo(s, Open)
        /\ UNCHANGED prompt
     \/ /\ s /= cur_network /\ list_networks[s] = None /\ s \in Secure
        /\ prompt' = s
        /\ UNCHANGED todo
  /\ UNCHANGED <<selected, card>>

PressForget ==
  LET s == Shown(networks, selected) IN
  /\ Touch
  /\ s /= None
  /\ card.saved
  /\ selected_network' = s
  /\ IF list_networks[s] /= None
     THEN Runs(<<Step("REMOVE", None, list_networks[s]), Step("SAVE", None, None),
                 Step("LIST", None, None), Step("redraw", None, None)>>)
     ELSE UNCHANGED todo
  /\ faults' = IF prompt \notin {None, s} THEN faults \cup {"moved"} ELSE faults
  /\ UNCHANGED <<selected, prompt, card>>

(* Mutant: the password goes to the row that is checked.                     *)
EnterForChecked ==
  /\ Touch
  /\ prompt /= None
  /\ prompt' = None
  /\ Shown(networks, selected) /= None
  /\ ConnectTo(Shown(networks, selected), prompt)
  /\ UNCHANGED <<selected, selected_network, card, faults>>

(* LV_EVENT_READY: the password typed under the prompt goes to connect().    *)
(* The text "Connecting to ..." it leaves in the card is not modelled.       *)
EnterPassword ==
  /\ Touch
  /\ prompt /= None
  /\ prompt' = None
  /\ ConnectTo(selected_network, prompt)
  /\ UNCHANGED <<selected, selected_network, card, faults>>

Close ==
  /\ Touch
  /\ prompt' = None
  /\ UNCHANGED <<selected, selected_network, card, todo, faults>>

-----------------------------------------------------------------------------
(* WpaEvent::send_command. *)

Listing(t) == todo[t] /= <<>> /\ Head(todo[t]).op \in {"LIST"} \cup Reading

(* Steps of connect() name the network by nid, unless the answer to          *)
(* ADD_NETWORK was text with blanks: then SET_NETWORK names no variable.     *)
Addressed(s) ==
  IF s.op \in {"SSID", "KEY"} THEN [s EXCEPT !.net = IF nid.word THEN nid.id ELSE None]
  ELSE IF s.op = "SELECT" /\ s.net = None THEN [s EXCEPT !.net = nid.id]
  ELSE s

(* The command leaves; find_current_network has emptied list_networks.       *)
Send(t) ==
  /\ ~Idle(t) /\ ~waiting[t]
  /\ LET s == Head(todo[t]) IN
     /\ s.op \notin Local
     /\ cmds' = Append(cmds, [by |-> t, step |-> Addressed(s)])
     /\ list_networks' = IF s.op = "LIST" THEN NoList.saved ELSE list_networks
     /\ faults' = IF s.op = "LIST" /\ \E u \in Threads \ {t} : Listing(u)
                  THEN faults \cup {"overlapped"} ELSE faults
  /\ waiting' = [waiting EXCEPT ![t] = TRUE]
  /\ UNCHANGED <<networks, selected, selected_network, cur_network, prompt, card,
                 todo, nid, answer, heard, replies, events, supplicant, untold, undrawn,
                 counts>>

Advance(t, rest) ==
  /\ todo' = [todo EXCEPT ![t] = rest]
  /\ waiting' = [waiting EXCEPT ![t] = FALSE]

(* LIST_NETWORKS is answered: cur_network.clear() and the lines are next.    *)
Reaches(t, op) == [todo[t] EXCEPT ![1] = Step(op, None, None)]

(* wpa_ctrl_request returns the next datagram, whoever it is for.  Any text   *)
(* but a number reads as network 0.                                          *)
Take(t) ==
  /\ waiting[t] /\ replies /= <<>>
  /\ replies' = Tail(replies)
  /\ LET r == Head(replies)
         op == Head(todo[t]).op
         rest == Tail(todo[t]) IN
     /\ nid' = IF op /= "ADD" THEN nid
               ELSE IF r.op = "ADD" /\ r.val /= None THEN [id |-> r.val, word |-> TRUE]
               ELSE [id |-> 0, word |-> r.op \notin {"LIST", "RESULTS"}]
     /\ heard' = IF op /= "RESULTS" THEN heard
                 ELSE IF r.op = "RESULTS" THEN r.val ELSE {}
     /\ answer' = IF op /= "LIST" THEN answer
                  ELSE [answer EXCEPT ![t] = IF r.op = "LIST" THEN r.val ELSE NoList]
     /\ Advance(t, IF op = "LIST" THEN Reaches(t, "clear") ELSE rest)
     /\ faults' = faults \cup (IF r.by = t THEN {} ELSE {"crossed"})
                         \cup (IF op = "ADD" /\ r.op = "ADD" /\ r.val = None
                               THEN {"refused"} ELSE {})
  /\ UNCHANGED <<panel, cmds, events, supplicant, untold, undrawn, counts>>

(* Mutant: select() without a timeout.                                       *)
NeverFails(t) == t \notin Threads

(* A command that was given up is nobody's from then on, and so its answer.  *)
Abandoned(t) ==
  [i \in DOMAIN cmds |-> IF cmds[i].by = t THEN [cmds[i] EXCEPT !.by = "nobody"] ELSE cmds[i]]

(* No answer for 10 s, or the other thread took the datagram first: "".      *)
Fail(t) ==
  /\ waiting[t] /\ replies = <<>>
  /\ dead \/ late < MaxLate
  /\ late' = IF dead THEN late ELSE late + 1
  /\ LET op == Head(todo[t]).op
         rest == Tail(todo[t]) IN
     /\ heard' = IF op = "RESULTS" THEN {} ELSE heard
     /\ answer' = IF op = "LIST" THEN [answer EXCEPT ![t] = NoList] ELSE answer
     /\ Advance(t, CASE op = "ADD" -> <<>>
                     [] op = "LIST" -> Reaches(t, "clear")
                     [] OTHER -> rest)
  /\ faults' = faults \cup {"failed"}
  /\ cmds' = Abandoned(t)
  /\ UNCHANGED <<panel, nid, replies, events, supplicant, untold, undrawn, touches, happened>>

(* CTRL-EVENT-CONNECTED redraws only if a network is marked [CURRENT].       *)
Skips(t) == t = "ev" /\ Head(Tail(todo[t])).op = "redraw" /\ answer[t].cur = None

(* Mutant: without [CURRENT] the network stays.                              *)
ClearForgotten(t) ==
  /\ ~Idle(t) /\ Head(todo[t]).op = "clear"
  /\ Advance(t, Reaches(t, "parse"))
  /\ UNCHANGED <<panel, nid, answer, heard, sockets, supplicant, faults, untold, undrawn,
                 counts>>

(* Until the lines are read cur_network is empty for the other thread.       *)
Clear(t) ==
  /\ ~Idle(t) /\ Head(todo[t]).op = "clear"
  /\ cur_network' = None
  /\ Advance(t, Reaches(t, "parse"))
  /\ UNCHANGED <<networks, selected, selected_network, list_networks, prompt, card, nid,
                 answer, heard, sockets, supplicant, faults, untold, undrawn, counts>>

(* The lines, read in one step: what they do not name stays.                 *)
Parse(t) ==
  /\ ~Idle(t) /\ Head(todo[t]).op = "parse"
  /\ cur_network' = IF answer[t].cur /= None THEN answer[t].cur ELSE cur_network
  /\ list_networks' = [s \in Ssids |-> IF answer[t].saved[s] /= None
                                       THEN answer[t].saved[s] ELSE list_networks[s]]
  /\ Advance(t, IF Skips(t) THEN <<>> ELSE Tail(todo[t]))
  /\ undrawn' = (undrawn \/ Skips(t))
  /\ UNCHANGED <<networks, selected, selected_network, prompt, card, nid, answer, heard,
                 sockets, supplicant, faults, untold, counts>>

(* handle_wpa_event. *)
HandleEvent ==
  /\ Idle("ev") /\ events /= <<>>
  /\ events' = Tail(events)
  /\ todo' = [todo EXCEPT !["ev"] =
       IF Head(events) = "SCAN-RESULTS"
       THEN <<Step("RESULTS", None, None), Step("LIST", None, None),
              Step("scanned", None, None)>>
       ELSE <<Step("LIST", None, None), Step("redraw", None, None)>>]
  /\ UNCHANGED <<panel, waiting, nid, answer, heard, cmds, replies, supplicant,
                 faults, untold, undrawn, counts>>

(* The redraw at the end of a handler: the event thread waits for lv_lock.    *)
(* After a scan the vector has been replaced before rebuild_list reads it.    *)
Redraw(t) ==
  /\ ~Idle(t) /\ Head(todo[t]).op \in {"scanned", "redraw"}
  /\ t = "ev" => Idle("ui")
  /\ IF Head(todo[t]).op = "scanned"
     THEN Rebuild(InOrder(Alpha, heard), selected)
     ELSE Rebuild(networks, selected)
  /\ undrawn' = FALSE
  /\ Advance(t, Tail(todo[t]))
  /\ UNCHANGED <<selected_network, cur_network, list_networks, prompt, nid, answer,
                 heard, sockets, supplicant, faults, untold, counts>>

-----------------------------------------------------------------------------
(* wpa_supplicant. *)

SsidOf(i) == IF i = None THEN None ELSE nets[i].ssid
NewId == IF Known = {} THEN 0 ELSE Max(Known) + 1

(* LIST_NETWORKS; of two networks with one ssid the panel keeps the last.    *)
Listed ==
  [saved |-> [s \in Ssids |->
     LET ids == {i \in Known : nets[i].ssid = s} IN IF ids = {} THEN None ELSE Max(ids)],
   cur |-> SsidOf(current)]

Reply(val) ==
  /\ cmds' = Tail(cmds)
  /\ replies' = Append(replies, [by |-> Head(cmds).by, op |-> Head(cmds).step.op, val |-> val])

Command == Head(cmds).step
Names(op) == Command.op = op /\ Command.net \in Known

AddNetwork ==
  /\ Command.op = "ADD"
  /\ \/ /\ NewId \in Ids
        /\ nets' = [nets EXCEPT ![NewId] = [ssid |-> None, key |-> None]]
        /\ Reply(NewId)
     \/ /\ NewId \notin Ids
        /\ Reply(None)
        /\ UNCHANGED nets
  /\ UNCHANGED <<enabled, current, untold>>

SetSsid ==
  /\ Names("SSID")
  /\ nets' = [nets EXCEPT ![Command.net].ssid = Command.ssid]
  /\ Reply("OK")
  /\ UNCHANGED <<enabled, current, untold>>

(* SET_NETWORK psk may be refused, e.g. for a password that is too short.    *)
SetKey ==
  /\ Names("KEY")
  /\ nets' \in {[nets EXCEPT ![Command.net].key = Command.ssid], nets}
  /\ Reply("OK")
  /\ UNCHANGED <<enabled, current, untold>>

(* All others are disabled, and current_ssid is the network at once.         *)
SelectNetwork ==
  /\ Names("SELECT")
  /\ enabled' = {Command.net}
  /\ current' = Command.net
  /\ untold' = (untold \/ current /= Command.net)
  /\ Reply("OK")
  /\ UNCHANGED nets

RemoveNetwork ==
  /\ Names("REMOVE")
  /\ nets' = [nets EXCEPT ![Command.net] = None]
  /\ enabled' = enabled \ {Command.net}
  /\ current' = IF current = Command.net THEN None ELSE current
  /\ Reply("OK")
  /\ UNCHANGED untold

NoSuchNetwork ==
  /\ Command.op \in {"SSID", "KEY", "SELECT", "REMOVE"} /\ Command.net \notin Known
  /\ Reply("FAIL")
  /\ UNCHANGED <<nets, enabled, current, untold>>

Query ==
  /\ \/ Command.op = "LIST" /\ Reply(Listed) /\ untold' = FALSE
     \/ Command.op = "RESULTS" /\ (\E seen \in Air : Reply(seen)) /\ UNCHANGED untold
     \/ Command.op \in {"SCAN", "SAVE"} /\ Reply("OK") /\ UNCHANGED untold
  /\ UNCHANGED <<nets, enabled, current>>

(* Commands are served in order.                                             *)
Serve ==
  /\ cmds /= <<>> /\ ~dead
  /\ \/ AddNetwork \/ SetSsid \/ SetKey \/ SelectNetwork \/ RemoveNetwork
     \/ NoSuchNetwork \/ Query
  /\ UNCHANGED <<panel, threads, events, dead, faults, undrawn, counts>>

Emit(event) ==
  /\ happened < MaxEvents /\ "crossed" \notin faults /\ ~dead
  /\ happened' = happened + 1
  /\ events' = Append(events, event)
  /\ untold' = FALSE
  /\ UNCHANGED <<panel, threads, cmds, replies, supplicant, faults, undrawn, touches, late>>

ScanDone == Emit("SCAN-RESULTS")
Joined == current /= None /\ Emit("CONNECTED")

(* Begins to join some enabled network, or loses the connection.  The first   *)
(* is no event, and the panel ignores CTRL-EVENT-DISCONNECTED: untold says   *)
(* that neither an event it handles nor LIST_NETWORKS has followed.          *)
Moves(i) ==
  /\ happened < MaxEvents /\ ~dead
  /\ happened' = happened + 1
  /\ current' = i
  /\ untold' = TRUE
  /\ UNCHANGED <<panel, threads, sockets, nets, enabled, dead, faults, undrawn, touches, late>>

Join ==
  /\ current = None
  /\ \E i \in enabled : SsidOf(i) \in Ssids /\ Moves(i)

Leave == current /= None /\ Moves(None)

(* wpa_supplicant ends; the panel meets that at its next request, so only an  *)
(* end with a request under way is told apart.  init_wpa is not run again    *)
(* ("TODO: retries").                                                        *)
Die ==
  /\ ~dead /\ cmds /= <<>>
  /\ dead' = TRUE
  /\ untold' = TRUE
  /\ UNCHANGED <<panel, threads, sockets, nets, enabled, current, faults, undrawn, counts>>

-----------------------------------------------------------------------------
Answered(t) == Take(t) \/ Fail(t)
Inside(t) == Send(t) \/ Clear(t) \/ Parse(t) \/ Redraw(t)

Next ==
  \/ \E i \in DOMAIN networks : HandleRow(i)
  \/ Scan \/ PressConnect \/ PressForget \/ EnterPassword \/ Close
  \/ \E t \in Threads : Answered(t) \/ Inside(t)
  \/ HandleEvent
  \/ Serve \/ ScanDone \/ Joined \/ Join \/ Leave \/ Die

(* The threads run, a request ends by an answer or by its timeout, and       *)
(* wpa_supplicant, while it lives, serves what it was sent.                  *)
Fairness ==
  /\ \A t \in Threads : WF_vars(Answered(t)) /\ WF_vars(Inside(t))
  /\ WF_vars(HandleEvent)
  /\ WF_vars(Serve)

Spec == Init /\ [][Next]_vars /\ Fairness

-----------------------------------------------------------------------------
(* Properties. *)

(* A password is stored with the network its prompt named (wifi_panel.cpp:   *)
(* 265), although scans move the selection under the prompt and requests     *)
(* time out: unless an answer was taken for another command, ADD_NETWORK was *)
(* refused, or Connect was pressed under the prompt for another row.         *)
PasswordWhereTyped ==
  faults \cap {"crossed", "refused", "moved"} = {} =>
    \A i \in Known : nets[i].key \in {None, Open, nets[i].ssid}

(* When every event is handled the panel shows the network wpa_supplicant    *)
(* marks [CURRENT] (it is connected, or is being connected), in the card and *)
(* first in the list, although rows were touched while the event thread was  *)
(* asking without lv_lock: unless that changed, or was so when the program   *)
(* started, and neither an event nor LIST_NETWORKS followed, a request failed*)
(* or was refused, or both threads were inside find_current_network.  The    *)
(* card and the order wait for the next redraw when the network of           *)
(* CTRL-EVENT-CONNECTED was gone before the event was handled.               *)
Settled ==
  /\ \A t \in Threads : Idle(t)
  /\ cmds = <<>> /\ replies = <<>> /\ events = <<>>

SettledShowsConnection ==
  /\ Settled /\ ~untold /\ faults \cap {"crossed", "refused", "failed", "overlapped"} = {} =>
       cur_network = SsidOf(current)
  /\ Settled /\ ~undrawn =>
       /\ card = Status(networks, selected)
       /\ \A i \in DOMAIN networks : networks[i] = cur_network => i = 1

(* A handler that holds lv_lock or waits for it comes to its end: neither a  *)
(* lost answer nor one the other thread took leaves the screen frozen.       *)
HandlersReturn == \A t \in Threads : ~Idle(t) ~> Idle(t)
=============================================================================
