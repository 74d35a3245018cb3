------------------------------- MODULE Session -------------------------------
(***************************************************************************)
(* A session of the screen with Moonraker: init_panel.cpp (what happens    *)
(* when the link opens, when Klipper becomes ready, when either goes       *)
(* away), state.cpp (the mirror of the printer's status) and the sensor    *)
(* cards of main_panel.cpp, over the message dispatch of                   *)
(* websocket_client.cpp.                                                   *)
(*                                                                         *)
(* All of it runs on the WebSocket loop thread, one message at a time, so  *)
(* one message is one action.  Ids and callbacks are the subject of        *)
(* JsonRpc; here an answer names the request it is for.  An object's       *)
(* status (a JSON object) is one value.                                    *)
(***************************************************************************)
EXTENDS Naturals, Sequences

CONSTANTS
  Objects,     \* the objects a Klipper configuration can have
  Sensors,     \* the extruders, heaters and temperature sensors among them
  Configured,  \* the sensors that "monitored_sensors" names
  Values,      \* what an object can report
  Absent,      \* the mirror has no entry; a card has shown no value yet
  NoCard,      \* the home page has no card for the object
  MaxFaults,   \* bound: disconnections of Klipper plus losses of the link
  MaxBacklog   \* bound: no update is pushed to a queue this long

ASSUME SessionAssumption ==
  /\ Sensors \subseteq Objects
  /\ Configured \subseteq Sensors
  /\ Absent \notin Values
  /\ NoCard \notin Values
  /\ NoCard /= Absent
  /\ MaxFaults \in Nat
  /\ MaxBacklog \in Nat

VARIABLES
  klippy,      \* Klipper is ready (its host is connected to Moonraker)
  config,      \* the objects of the configuration Klipper runs
  truth,       \* the present value of each object
  linkUp,      \* the WebSocket is open
  sub,         \* the objects this connection is subscribed to
  reqs,        \* the requests Moonraker has received and not answered, FIFO
  inbox,       \* what the loop thread has yet to handle, FIFO
  screen,      \* the screen's own state, see ScreenType
  refused,     \* history: a refused subscription was handled since the
               \* notice was last shown
  faults

env == <<klippy, config, truth, linkUp, sub, faults>>
vars == <<klippy, config, truth, linkUp, sub, reqs, inbox, screen, refused,
          faults>>

-----------------------------------------------------------------------------
(* Messages.  The link's own events, the two notifications of Klipper's     *)
(* state, notify_status_update, and the answers to the two requests that    *)
(* the start of a session waits for.                                        *)

Signals == {"open", "close", "klippy_disconnected", "klippy_ready"}
Signal(s) == [kind |-> s]
Update(o, v) == [kind |-> "update", obj |-> o, val |-> v]
ObjectList(ok, objs) == [kind |-> "list", ok |-> ok, objs |-> objs]
Status(ok, snap) == [kind |-> "subscribe", ok |-> ok, snap |-> snap]

ListRequest == [kind |-> "list"]

(* Objects are what the screen subscribes to: the macros, which              *)
(* InitPanel::connected leaves out of the list, are not among them.          *)
SubscribeRequest(objs) == [kind |-> "subscribe", objs |-> objs]

Nothing == [o \in Objects |-> Absent]
Snapshots == [Objects -> Values \cup {Absent}]

Messages ==
  [kind: Signals] \cup [kind: {"update"}, obj: Objects, val: Values]
    \cup [kind: {"list"}, ok: BOOLEAN, objs: SUBSET Objects]
    \cup [kind: {"subscribe"}, ok: BOOLEAN, snap: Snapshots]

Requests ==
  {ListRequest} \cup [kind: {"subscribe"}, objs: SUBSET Objects]

(* State::data["printer_objs"] ({}: no entry) and ["printer_state"], the    *)
(* cards of MainPanel::sensors, and the notice of InitPanel.                *)
ScreenType ==
  [known: SUBSET Objects, mirror: Snapshots,
   cards: [Objects -> Values \cup {Absent, NoCard}], notice: BOOLEAN]

TypeOK ==
  /\ klippy \in BOOLEAN
  /\ config \in SUBSET Objects
  /\ truth \in [Objects -> Values]
  /\ linkUp \in BOOLEAN
  /\ sub \in SUBSET Objects
  /\ reqs \in Seq(Requests)
  /\ inbox \in Seq(Messages)
  /\ screen \in ScreenType
  /\ refused \in BOOLEAN
  /\ faults \in 0..MaxFaults

Configs == (SUBSET Objects) \ {{}}

Init ==
  /\ klippy = FALSE
  /\ config \in Configs
  /\ truth \in [Objects -> Values]
  /\ linkUp = FALSE
  /\ sub = {}
  /\ reqs = <<>>
  /\ inbox = <<>>
  /\ screen = [known |-> {}, mirror |-> Nothing,
               cards |-> [o \in Objects |-> NoCard], notice |-> TRUE]
  /\ refused = FALSE
  /\ faults = 0

-----------------------------------------------------------------------------
(* Klipper, Moonraker and the network. *)

(* Moonraker pushes a message to the screen, if it is connected.            *)
Push(m) == inbox' = IF linkUp THEN Append(inbox, m) ELSE inbox

(* Klipper has read its configuration, which may have been edited.          *)
KlippyReady ==
  /\ ~klippy
  /\ klippy' = TRUE
  /\ config' \in Configs
  /\ truth' \in [Objects -> Values]
  /\ Push(Signal("klippy_ready"))
  /\ UNCHANGED <<linkUp, sub, reqs, screen, refused, faults>>

(* Klipper goes away (a shutdown, or a restart someone asked for):          *)
(* Moonraker forgets the subscriptions made to it.                          *)
KlippyDown ==
  /\ klippy
  /\ faults < MaxFaults
  /\ faults' = faults + 1
  /\ klippy' = FALSE
  /\ sub' = {}
  /\ Push(Signal("klippy_disconnected"))
  /\ UNCHANGED <<config, truth, linkUp, reqs, screen, refused>>

(* An object of the printer changes; a subscriber is told.                  *)
Change(o, v) ==
  /\ klippy
  /\ Len(inbox) < MaxBacklog
  /\ o \in config
  /\ truth[o] /= v
  /\ truth' = [truth EXCEPT ![o] = v]
  /\ IF o \in sub THEN Push(Update(o, v)) ELSE UNCHANGED inbox
  /\ UNCHANGED <<klippy, config, linkUp, sub, reqs, screen, refused, faults>>

(* Both requests go to Klipper, which serves them in turn; Moonraker        *)
(* refuses them while Klipper is away.                                      *)
AnswerList ==
  /\ reqs /= <<>>
  /\ Head(reqs).kind = "list"
  /\ reqs' = Tail(reqs)
  /\ Push(ObjectList(klippy, IF klippy THEN config ELSE {}))
  /\ UNCHANGED <<env, screen, refused>>

AnswerSubscribe ==
  /\ reqs /= <<>>
  /\ Head(reqs).kind = "subscribe"
  /\ reqs' = Tail(reqs)
  /\ LET objs == IF klippy THEN Head(reqs).objs \cap config ELSE {} IN
     /\ sub' = IF klippy THEN objs ELSE sub
     /\ Push(Status(klippy, [o \in Objects |-> IF o \in objs THEN truth[o]
                                               ELSE Absent]))
  /\ UNCHANGED <<klippy, config, truth, linkUp, screen, refused, faults>>

(* The link is lost: the messages under way arrive up to some point, and    *)
(* then the loop thread sees the close.                                     *)
LinkDown ==
  /\ linkUp
  /\ faults < MaxFaults
  /\ faults' = faults + 1
  /\ linkUp' = FALSE
  /\ sub' = {}
  /\ reqs' = <<>>
  /\ \E n \in 0..Len(inbox) :
       inbox' = Append(SubSeq(inbox, 1, n), Signal("close"))
  /\ UNCHANGED <<klippy, config, truth, screen, refused>>

(* The first connection, or a reconnection once the close was handled.      *)
LinkUp ==
  /\ ~linkUp
  /\ inbox = <<>>
  /\ linkUp' = TRUE
  /\ inbox' = <<Signal("open")>>
  /\ UNCHANGED <<klippy, config, truth, sub, reqs, screen, refused, faults>>

-----------------------------------------------------------------------------
(* The loop thread handles the message at the head of its queue. *)

(* send() on a socket that is gone returns -1 and sends nothing.            *)
Request(r) == reqs' = IF linkUp THEN Append(reqs, r) ELSE reqs

Take(kinds) ==
  /\ inbox /= <<>>
  /\ Head(inbox).kind \in kinds
  /\ inbox' = Tail(inbox)
  /\ UNCHANGED env

(* Mutants: the status survives; the status loses its shape.                *)
ResetKeepsStatus(s) == [s EXCEPT !.known = {}]
ResetClearsAll(s) == [s EXCEPT !.known = {}, !.mirror = <<>>]

(* State::reset() *)
Reset(s) == [s EXCEPT !.known = {}, !.mirror = Nothing]

(* Mutant: the objects are asked for when the link opens only.              *)
ConnectedOnOpen ==
  /\ Take({"open", "klippy_ready"})
  /\ screen' = Reset(screen)
  /\ IF Head(inbox).kind = "open" THEN Request(ListRequest) ELSE UNCHANGED reqs
  /\ UNCHANGED refused

(* InitPanel::connected, on open and on notify_klippy_ready.                *)
Connected ==
  /\ Take({"open", "klippy_ready"})
  /\ screen' = Reset(screen)
  /\ Request(ListRequest)
  /\ UNCHANGED refused

(* Mutant: notify_klippy_disconnected is not handled.                       *)
DisconnectedOnClose ==
  /\ Take({"close", "klippy_disconnected"})
  /\ screen' = [screen EXCEPT !.notice = (@ \/ Head(inbox).kind = "close")]
  /\ refused' = FALSE
  /\ UNCHANGED reqs

(* InitPanel::disconnected, on close and on notify_klippy_disconnected.     *)
Disconnected ==
  /\ Take({"close", "klippy_disconnected"})
  /\ screen' = [screen EXCEPT !.notice = TRUE]
  /\ refused' = FALSE
  /\ UNCHANGED reqs

(* State::get_display_sensors: those the user configured, or else all.      *)
Displayed(known) ==
  IF known \cap Configured /= {} THEN known \cap Configured ELSE known \cap Sensors

(* MainPanel::create_sensors: a card, without a value, for each.  The home  *)
(* page has room for three; a fourth sensor is left out of the model.       *)
NewCards(known) ==
  [o \in Objects |-> IF o \in Displayed(known) THEN Absent ELSE NoCard]

(* The answer to printer.objects.list: the objects are stored if there are  *)
(* any, and the cards are built again for what is known.                    *)
Listed(s, m) ==
  LET known == IF m.ok THEN m.objs ELSE s.known IN
  [s EXCEPT !.known = known, !.cards = NewCards(known)]

HandleList ==
  /\ Take({"list"})
  /\ screen' = Listed(screen, Head(inbox))
  /\ IF Head(inbox).ok THEN Request(SubscribeRequest(Head(inbox).objs))
     ELSE UNCHANGED reqs
  /\ UNCHANGED refused

(* Mutants: an entry that exists is kept; a card keeps its first value.     *)
MergeMissing(s, snap) ==
  [s EXCEPT !.mirror = [o \in Objects |-> IF s.mirror[o] = Absent THEN snap[o]
                                          ELSE s.mirror[o]],
            !.cards = [o \in Objects |-> IF snap[o] /= Absent /\ s.cards[o] /= NoCard
                                         THEN snap[o] ELSE s.cards[o]]]

MergeCardOnce(s, snap) ==
  [s EXCEPT !.mirror = [o \in Objects |-> IF snap[o] /= Absent THEN snap[o]
                                          ELSE s.mirror[o]],
            !.cards = [o \in Objects |-> IF s.cards[o] = Absent THEN snap[o]
                                         ELSE s.cards[o]]]

(* State::set_data with a status: merge_patch.  The cards take what is in   *)
(* it for them.                                                             *)
Merge(s, snap) ==
  [s EXCEPT !.mirror = [o \in Objects |-> IF snap[o] /= Absent THEN snap[o]
                                          ELSE s.mirror[o]],
            !.cards = [o \in Objects |-> IF snap[o] /= Absent /\ s.cards[o] /= NoCard
                                         THEN snap[o] ELSE s.cards[o]]]

(* The answer to printer.objects.subscribe, an error as much as a status:   *)
(* the notice is hidden.                                                    *)
Subscribed(s, m) == [Merge(s, m.snap) EXCEPT !.notice = FALSE]

HandleSubscribe ==
  /\ Take({"subscribe"})
  /\ screen' = Subscribed(screen, Head(inbox))
  /\ refused' = (refused \/ ~Head(inbox).ok)
  /\ UNCHANGED reqs

(* notify_status_update: State::consume, then MainPanel::consume.           *)
Updated(s, m) == Merge(s, [Nothing EXCEPT ![m.obj] = m.val])

HandleUpdate ==
  /\ Take({"update"})
  /\ screen' = Updated(screen, Head(inbox))
  /\ UNCHANGED <<reqs, refused>>

-----------------------------------------------------------------------------
Handle == Connected \/ Disconnected \/ HandleList \/ HandleSubscribe \/ HandleUpdate
Answer == AnswerList \/ AnswerSubscribe

Next ==
  \/ Handle
  \/ Answer
  \/ KlippyReady
  \/ KlippyDown
  \/ \E o \in Objects, v \in Values : Change(o, v)
  \/ LinkUp
  \/ LinkDown

Spec == Init /\ [][Next]_vars

(* The loop thread keeps handling messages, Moonraker answers, and libhv    *)
(* reconnects.  Nothing is assumed of Klipper.                              *)
FairSpec == Spec /\ WF_vars(Handle) /\ WF_vars(Answer) /\ WF_vars(LinkUp)

-----------------------------------------------------------------------------
(* Properties. *)

(* The screen once it will have handled what is on its way to it.           *)
After(s, m) ==
  CASE m.kind \in {"open", "klippy_ready"} -> Reset(s)
    [] m.kind \in {"close", "klippy_disconnected"} -> [s EXCEPT !.notice = TRUE]
    [] m.kind = "list" -> Listed(s, m)
    [] m.kind = "subscribe" -> Subscribed(s, m)
    [] m.kind = "update" -> Updated(s, m)

Replay ==
  LET seen[n \in 0..Len(inbox)] ==
        IF n = 0 THEN screen ELSE After(seen[n - 1], inbox[n])
  IN seen[Len(inbox)]

Online == linkUp /\ klippy

Complete(s) ==
  /\ ~s.notice
  /\ s.known = config
  /\ {o \in Objects : s.cards[o] /= NoCard} = Displayed(config)

(* State ends with the present value of every subscribed object once it has *)
(* handled what is on its way, through restarts of Klipper, losses of the   *)
(* link and answers to requests made before them: State::reset in           *)
(* connected(), the merge of the subscription's answer and of each update.  *)
MirrorConverges ==
  Online => \A o \in sub : Replay.mirror[o] = truth[o]

(* When nothing is on its way between the screen and a ready Klipper, the   *)
(* session is complete: the notice is gone, the object list and the cards   *)
(* are those of the configuration in use, every value is the present one,   *)
(* and nothing of an earlier configuration is left.                         *)
SettledIsComplete ==
  (Online /\ inbox = <<>> /\ reqs = <<>>) =>
    /\ Complete(screen)
    /\ sub = config
    /\ \A o \in Objects :
         /\ screen.mirror[o] = (IF o \in config THEN truth[o] ELSE Absent)
         /\ screen.cards[o] /= NoCard => screen.cards[o] = truth[o]

(* The two copies the screen keeps of a sensor's value never disagree: the  *)
(* card built by create_sensors and filled by init and consume, and State.  *)
CardsFollowMirror ==
  \A o \in Objects :
    (screen.cards[o] \in Values /\ screen.mirror[o] /= Absent) =>
      screen.cards[o] = screen.mirror[o]

(* Once the screen knows that Klipper or the link is gone, it shows the     *)
(* notice; only a refused subscription can have hidden it.                  *)
NoticeUnlessRefused ==
  (inbox = <<>> /\ ~Online /\ ~screen.notice) => refused

(* "Waiting for printer to initialize..." (init_panel.cpp): the notice      *)
(* stays until the printer is initialized.                                  *)
NoticeCoversOutage ==
  (inbox = <<>> /\ ~Online) => screen.notice

(* If Klipper and the link both stay up in the end, the session is complete *)
(* in the end and stays so, whatever was lost before.                       *)
Recovers ==
  <>[]Online => <>[]Complete(screen)
=============================================================================
