# PowerScreen: a TLA+ model of the touch screen of a K1C printer

PowerScreen is the program of a printer's touch screen. It draws with LVGL and
talks JSON-RPC over a WebSocket to Moonraker, which talks to Klipper, the
firmware host. This directory specifies the parts of it where threads,
messages and losses meet, checks them with TLC on small instances, and proves
with TLAPS, for every instance, what matters most of the JSON-RPC client - that
it implements an abstract specification of requests, too -, of a session, of the
Exclude Object screen, of the print status, of the Wi-Fi panel, of the two halves of
the Power Update page and of the prompts.

Paths below are relative to the repository.

## The system

Two threads share almost everything:

- the **LVGL thread** (`src/powerscreen.cpp`, `PowerScreen::loop`) holds
  `lv_lock` while it runs touch handlers and timers;
- the **WebSocket loop thread** (libhv) runs `onopen`, `onmessage` and
  `onclose`, and inside them the answers to requests and the notifications;
  most of these take `lv_lock` themselves, many do not.

Detached worker threads run `update.sh`, and another thread listens to
wpa_supplicant.

| Component | State | Operations | Hard behaviour |
|---|---|---|---|
| JSON-RPC client (`websocket_client.cpp`) | next id, callbacks by id, handlers by method | send_jsonrpc (5 forms), gcode_script, connect, register/unregister | id and map are shared without a lock; losses leave callbacks behind |
| Start of a session (`init_panel.cpp`) | the notice | connected, disconnected and two nested answers | two starts at once; Klipper goes away in the middle |
| State (`state.cpp`) | a JSON tree that mirrors the printer | reset, set_data, consume, get_data | partial updates, stale answers, references read outside the lock |
| Home page (`main_panel.cpp`) | sensor, fan and LED cards; macro files | create_*, init, consume, sync_klipper_macros | second copy of values; a restart of Klipper on stale data |
| Exclude object (`exclude_object_panel.cpp`) | list, marks, pending index | merge from two threads, ask, confirm | an index kept while the list changes; a mark set early |
| System page (`sysinfo_panel.cpp`, `update.sh`) | script state, check and update flags, status files | two updates, two checks, a poll timer | late answers, workers, a restart of the program itself |
| Print status, mini status | current file, estimates | metadata, pause, cancel | an answer for another file |
| Files, print start | directory tree, selected index, pin settings | browse, delete, start | index over a refresh; one step of several fails |
| Wi-Fi (`wifi_panel.cpp`, `wpa_event.cpp`) | networks, control connection | scan, join, forget | one connection, two threads |
| Prompts (`prompt_panel.cpp`) | open prompt, button group | the action:prompt lines | lines out of protocol |
| Configuration (`config.cpp`) | a JSON file | load, save | a crash while saving |
| Console, Spoolman, calibrations | lists, one long macro | | lists written by one thread and read by another |
| Control pages, widgets | the widget | one G-code per touch | little |

What makes each correct: requests reach their own callback once; the mirror and
its copies end up as the printer is; what a dialog names is what it does; a
check, an update or a calibration that is shown as running ends; files
survive a crash. `PROJECT.json` lists every component, every hazard with its
line, and which definition models which lines.

## What is modelled

| Module | Code | One action is |
|---|---|---|
| `JsonRpc` | `websocket_client.cpp` | one step of `send_jsonrpc` (look up, insert, stamp, send), or the entry into or the return from a callback |
| `Session` | `init_panel.cpp`, `state.cpp`, the sensor cards of `main_panel.cpp`, the dispatch of `websocket_client.cpp` | one message handled by the loop thread, with every call its handler makes |
| `ExcludeObject` | `exclude_object_panel.cpp` with its share of `state.cpp` | one handler under `lv_lock`; the loop thread's two consumers of an update are two actions, since the lock is free between them |
| `ScriptUpdate` | the Power Script half of `sysinfo_panel.cpp` | one handler, split where another thread can act: `check_script_update` sets the state under `script_mutex` and the deadline after it |
| `Requests` | what `websocket_client.cpp` promises its callers, abstractly | a call, its message, its answer, a change of the connection |
| `PrintStatus` | `print_status_panel.cpp`, `mini_print_status.cpp`, the start dialog of `print_panel.cpp` | one report or answer handled by the loop thread, or one touch; one command or report of Klipper |
| `Wifi` | `wifi_panel.cpp`, `wpa_event.cpp`, the seven commands of wpa_supplicant it uses | a touch handler up to its first command; one command sent, one answer taken or given up; one event |
| `Prompt` | `prompt_panel.cpp`, and of `init_panel.cpp` what empties and fills State | one line of the protocol, one report or one answer, handled on the loop thread; one touch |
| `PowerUpdate` | the PowerScreen half of `sysinfo_panel.cpp`, `update.sh`, `S99powerscreen` | one touch handler; the four reads of `poll_update`; one store of a worker thread; one status that `update.sh` writes |

The modules are cut along what they share. `JsonRpc` shows what a request is
worth (its own answer, once, unless it overlapped another request or the link
was lost); the other modules take one request and one answer as messages.
`Session` shows how a session starts and ends; `ExcludeObject` takes that as a
reset followed by a snapshot.

**JsonRpc.** `id`, `callbacks` and `linkUp` are the code's; `pc`, `cur` and
`stamp` are the threads inside `send_jsonrpc`; `sent`, `inFlight` and `wire`
are Moonraker's side. `overlapped` is a history variable: the calls that
shared a moment with another call. The screen gives no guarantee to those: two
threads may look up the same id, and then one callback is never inserted and
its answer may go to the other call. All properties are therefore about the
rest, and the point is that races of *other* calls and entries left behind by
losses can never spoil them. Each step is atomic; that `std::map` is itself
not safe for concurrent steps is outside the model, and so is the (unused)
`NotifyConsumer` form. The keys of `callbacks` have 32 bits and `id` has 64
(`websocket_client.h:41`, `:49`); the model takes them to agree, as they do for the
first 2^32 requests.

**Session.** Klipper, Moonraker and the network are the environment: Klipper
becomes ready with any configuration, goes away, changes an object; Moonraker
answers in order, pushes updates to subscribers, and refuses requests while
Klipper is away; the link is lost with any suffix of what was under way. The
screen's state is one record: the known objects, the mirror, the cards with
the value each shows, the notice. `send` on a dead link drops the request. The
status of an object is a single value, so `merge_patch` replaces it; the home
page's limit of three cards and the page layout are left out. The secondary
requests of a session fill unrelated entries of State and are left out. The
subscription leaves out macros and adds `tmcstatus` (`init_panel.cpp:117-128`):
`Objects` are those it asks for.

**ExcludeObject.** Klipper's objects are numbers in the order Klipper sorts
names; a status holds finite sets of them, and `Sorted` is the array that is sent.
Reports carry the fields that changed (`NoField` for the others). The panel is its list and the
marks; the confirmation is the title it shows and the index it keeps. `stale`
and `early` are history: a session restarted since the last sync; an object
excluded before Klipper had its label (a command that ran late).

**ScriptUpdate.** `script_state` as in `sysinfo_panel.h:47`, with its value 0
split into "unknown" and "checking"; the code does not tell them apart, nor does
any guard of the module. The deadline is a flag, its 25 s a nondeterministic
`elapsed`. `pending` counts the answers Moonraker owes; any of them may come
next. Whether the answer is "new version" follows `behind`.

**PowerUpdate.** `prog` holds the members of `SysInfoPanel` and the steps of its
threads; the program loses all of it when it is restarted. `script` is the
`update.sh` of an update, which outlives the program it stops; `status` and
`done` are its two files in `/tmp`, which a loss of power may or may not clear.
What GitHub answers is left open at each query: a release may come out at any
time, and `update.sh` uses the list of an earlier query when `curl` fails. A
half extracted package may lack `update.sh`, or hold a part of it (`text`) that may
exit with 0 before its end; `update.sh` may fail to start, when `sp::call` throws and
the code stays -1, and may be killed wherever it is. `tar` replaces the program's own
file, after which `update_script_path` throws (`exe`). `restart_since` is "set" until the
30 s are over; the model takes the script's `sleep 3` to be shorter. Three
history flags say when a verdict may be wrong: `missed`, a check asked for
between the stores to `check_done` and `check_running`; `crossed`, a channel
chosen while a check runs; `torn`, a status that changed between the two
reads of one poll. Left out: `--set-channel`, the alignment of Moonraker's entry
(`update.sh:160`), `custom_upgrade.sh`, the progress marks, a full `/tmp`, and a crash
of the program while `update.sh` runs; the program of a half extracted package is
taken to start.

**Requests.** What a panel may rely on, without ids, map or threads. A call
made while no other is being made is never refused, and its answer runs its
own callback; calls that race keep only "once at most, for an answer that did
arrive". `JsonRpc` implements it under the mapping `Abstract` at its end:
`overlapped` becomes `racing`, `dropped` becomes `refused`, `ran` becomes
`answers`.

**PrintStatus.** Klipper is one record (file, state, is_paused, the pins of
the dialog as one value) and a queue of commands; Moonraker reports the fields
that changed. State's copy (`mirror`) and the page are separate, and the page
reads the first when it is filled in. `estimate` is the file whose metadata was
shown last. Left out: temperatures, speed, layers, progress, thumbnails, and
the Cancel button with its prompt (a cancelled print is `Ends`). Histories name
the cases in which the page is wrong for a while: `bare`, `split`, `crossed`,
`excused` (see below); `clean` holds the dialogs whose copy of the pins is
still the printer's. A printer without the pins starts its print with no dialog
(`print_panel.cpp:1134-1137`), which is not modelled; "Print again" of the history
(`files_extra_view.cpp:484`) is taken as one more way to `Open`.

**Wifi.** Each thread has a list of steps it still does and waits for at most
one answer. `wpa_ctrl_request` takes the next datagram of the socket, whoever
asked for it, or gives up: after 10 s, or at once when the other thread took
it. An answer to `ADD_NETWORK` that is not a number names network 0
(`nid`), as `atoi` in wpa_supplicant reads it. The event thread works on
`networks` without `lv_lock` up to its redraw, the touch handlers hold the
lock all through. wpa_supplicant may end: it is never connected to again
(`wpa_event.cpp` says "TODO: retries"), and every later request times out. A
command that was given up belongs to "nobody" from then on, and so does its
answer: whoever takes that one has an answer that crossed. The two orders of the
networks, by name and by signal, are constants; `InOrder` picks from one of them
the networks a scan saw. The program finds a wpa_supplicant that has networks stored
and may have joined one (`Boot`), and asks it for nothing before its first event
(`wpa_event.cpp:48-94`). `enabled` are the networks it may join of its own accord,
`current` is its `current_ssid`, which is set when it *begins* to join, as
SELECT_NETWORK does at once; `LIST_NETWORKS` marks it `[CURRENT]`, so a scan that ends
during the attempt makes the panel say "Connected". `untold` says that `current`
changed, or was set when the program started, and that neither an event the panel
handles nor a `LIST_NETWORKS` came since. `find_current_network` is three steps:
the answer, `cur_network.clear()`, and the lines, which are read in one; between them
the other thread may draw. `ENABLE_NETWORK` is left out, since the
`SELECT_NETWORK` after it has its effect.

**Prompt.** Klipper writes lines; lines are lost while the link is down, and
nothing repeats them. A button is its kind, a group is "open" or "gone" (a
deleted object that `button_group_cont` still points to). That pointer has no
initial value, so the first prompt may find it dangling (`loose`). `said` is what
was written since the last `prompt_begin` or `prompt_end`, each of which empties the
prompt; `Declared` reads from it the buttons that should be there. Nothing obliges a
macro to write `prompt_begin` first, and the properties do not ask for it.
`prompt_begin` hides `flex`, which holds what is not in the footer, and only
`prompt_text` or `prompt_end` shows it again (`body`): without a text such buttons
stay hidden and cannot be touched. A session empties State when the link opens or
Klipper is ready (`Connected`, `init_panel.cpp:66`) and fills it when the
subscription is answered (`Fill`, `:132`), while console lines are handled all the
time. The list and the subscription are one request here (`asked`). Left out: the
exception of `substr(13)` on a bare `prompt_begin` (`:281`), wording and layout; UNLOAD
is treated as LOAD.

## What the runs check

| Run | Bounds | States | Shows |
|---|---|---|---|
| `json_rpc` | 2 threads, 4 calls (3 with callbacks), ids to 3, any number of losses | 788,085 | distinct ids, own answer, once, not dropped; liveness of a solo call; `JsonRpc` implements `Requests` with its fairness |
| `session` | 2 objects, 2 values, 3 faults, updates pushed to a queue shorter than 2 | 1,538,816 | the mirror and the cards converge; a settled session is complete; the notice; recovery |
| `session_notice` | the same, 2 faults | violated | the notice is hidden by a refused subscription |
| `exclude_object` | 2 labels, 1 further print or restart, 1 waiting command, queue of 2 | 527,924 | the list follows State and Klipper |
| `exclude_title` | the same | violated | another object than the one named is excluded |
| `script_update` | 4 checks, 3 upgrades, 2 losses | 32,598 | a check ends, a result is shown, a tap does what it says |
| `script_twice` | 3 checks, 2 upgrades | violated | two updates of the script at once |
| `power_update` | 2 checks, 2 updates, 1 loss of power | 1,297,212 | checks and updates end, with the verdict of `update.sh` and of the chosen channel; the notice is honest |
| `wifi` | 2 networks, 2 ids, 3 ways to find wpa_supplicant, 2 touches, 2 events, joins or losses, 1 time-out (any number once wpa_supplicant has ended) | 703,451 | a password stays with the network of its prompt; the panel ends with the current network; handlers return |
| `print_status` | 2 files, 2 pin modes, 2 dialogs, 3 acts of users, clients and the link | 166,153 | pins of the dialog; the page ends as the printer is; Pause comes back |
| `prompt` | 4 macros (menu, text and group, group left open, lines after `prompt_end`), 4 acts | 2,722,142 | the last prompt is shown; LOAD follows the print |
| `power_print` | 1 check, 1 update | violated | Klipper is restarted under a print |

The bounds are the smallest at which every action fires and each hazard
happens. Two threads and three callbacks are enough for a call that races,
one that is leaked and one that comes after both. Three faults allow an outage
inside the restart that follows another outage. Two labels and one further
print give an insertion before an existing row and marks that outlive a print.
Four checks give one abandoned, one late answer during the next, one update
between and one after. Two updates give one over the files of another, a loss of
power between them a half extracted package and a second start. Three acts in
`print_status` give a dialog, a pin changed under it and a loss of the link, or
a pause, an end and another file; with four the same properties hold over
3,690,942 states. Two touches and two events in `wifi` give Connect and
a password, or a scan and Forget, around a loss or a join, in a wpa_supplicant that
starts empty, joined, or with two networks to choose from. Four acts in `prompt` give
two prompts, one over the open group of the other, a print that begins, and a
restart or a loss between them.

Every property is broken by a plausible bug: the modules define one mutated
form next to the action it mutates (comments "Mutant:"), and `PROJECT.json`
pairs them with the property each violates.

### Four disagreements with the code

Each is a run that must be violated.

- **The notice** (`session_notice`). `init_panel.cpp:132-144` hides
  "Waiting for printer to initialize..." on any answer to the subscription.
  If Klipper goes away between the list and the subscription, the
  disconnection shows the notice and the refusal hides it: the screen shows an
  earlier session's home page until Klipper returns.
- **The confirmation** (`exclude_title`). `ask()` stores an index,
  `do_exclude()` applies it to the list of now. A label that sorts earlier
  arrives, or the next print starts: "Exclude B?" excludes A, which
  cannot be undone.
- **The second update** (`script_twice`). The answer to `machine.update.status`
  sets `script_state` whatever it was. A late one during an update turns
  "updating" into "available", enables the button, and a tap requests a
  second `machine.update.upgrade`, where `sysinfo_panel.cpp:1233` promises that
  "Updating..." waits.

- **The print** (`power_print`). `start_update()` asks `is_printing()` once.
  A print that starts while the package downloads is lost when `update.sh:156`
  restarts Klipper for changed macros.

Five more are recorded as guards of properties instead: a check asked for
between two stores of an earlier one shows "CHECKING..." until the next check
(`CheckEnds` of `PowerUpdate` allows `missed`), a channel chosen during a
check keeps the verdict of the other channel (`VerdictOfChannel` allows
`crossed`), a script that ends between two reads of one poll is misjudged
(`VerdictTrue` allows `torn`; it also lets a part of `update.sh` that exits with 0 pass
for an update that was completed), an update of the script whose answer is lost
with the link leaves the button disabled for good (`UpdateEnds` allows
`lost`), and a callback of a request that could not be sent stays in the map
(`SoloNotDropped` shows it is harmless).

The three later modules record more of the kind, each a named history that a
property excuses:

- `PrintStatus`. A report that names a file but not the state shows "ready"
  until the state is reported (`bare`). A page filled in while State's state and
  is_paused disagree shows Pause on a paused print; the tap is absorbed and the
  button stays disabled (`split`). Metadata answered out of order, or missing,
  leaves the estimate of another file (`crossed`, `lastOk`). A PAUSE macro
  that fails leaves the button disabled (`excused`). The script of the dialog may
  fail and the print starts all the same (`clean`), though the comment at
  `print_panel.cpp:1154` says it starts "once Klipper has run them". Printing
  the same file again is no change of filename, whatever
  `print_status_panel.cpp:729` says.
- `Wifi`. After a scan `rebuild_list` reads the old index in the new vector, so
  the selection jumps to another network; Connect under an open prompt then
  moves `selected_network`, and the password goes to a network the prompt does
  not name ("moved"). A refused or crossed `ADD_NETWORK` describes network 0
  ("refused", "crossed"). Both threads inside `find_current_network` may mix
  their lists ("overlapped"). Nothing is asked before the first event, so the panel
  names no network in a wpa_supplicant that was connected before the program started;
  and `CTRL-EVENT-DISCONNECTED` is ignored, so a lost station is shown as connected
  until the next event (`untold`).
  `CTRL-EVENT-CONNECTED` redraws only if `LIST_NETWORKS` still marks a network as
  current (`wifi_panel.cpp:513-519`): when the network is gone by then, the panel
  knows, and goes on showing the card and the order of before (`undrawn`). A password
  entered again after a wrong one adds a second network of the same name, and
  Forget removes the last only.
- `Prompt`. A prompt that leaves its group open gives its successor a deleted
  parent for its buttons (`loose`). A lost `prompt_end` leaves a dead prompt
  shown (`gap`). A `prompt_show` handled between the emptying of State
  (`init_panel.cpp:66`) and the answer that fills it (`:132`) enables LOAD although a
  print is running, and an answer that fills State with another value calls no
  consumer: either way the buttons are wrong until the next report of the state
  (`blind`), though the comment at `prompt_panel.cpp:158` says they stay disabled while a
  print is running. `FillSafe` holds in every other order of these messages. CLOSE of the manual menu is relabelled "Close"
  with an icon (`prompt_panel.cpp:529`), so the comparison at `:229` never hides
  it before the command, which the comment above it says of these actions.

### Fairness

- `JsonRpc`: a thread inside `send_jsonrpc` continues; Moonraker answers what
  it received; a callback returns. None of these blocks in the code.
- `Session`: the loop thread handles its queue, Moonraker answers, libhv
  reconnects (`setReconnect`, `websocket_client.cpp:97-102`). Nothing is assumed
  of Klipper: `Recovers` is conditional on both staying up.
- `ExcludeObject`: the above, Klipper runs its commands, and the two-second
  timer fires (`exclude_object_panel.cpp:118`).
- `ScriptUpdate`: the LVGL thread leaves its handlers, the 500 ms timer fires,
  also after the deadline, and Moonraker ends an upgrade. It need *not* answer a
  check: that is what the deadline is for.
- `PowerUpdate`: the timer fires, the worker threads run, the 30 s pass, and
  `update.sh` ends, restart included. Its requests to GitHub have no time limit
  of their own (`update.sh:66`, `update.sh:123`), so this rests on the timeouts of
  TCP. Touches, prints and losses of power are never assumed.

- `Requests`, through `ImplementsRequests`: Moonraker answers what reached it over
  a connection that stays up.
- `PrintStatus`: Klipper runs its queue, Moonraker reports, libhv reconnects,
  the loop thread handles what arrives. Metadata need not be answered.
- `Wifi`: both threads run, and a request ends by an answer or by the 10 s of
  `wpa_ctrl_request`; wpa_supplicant serves its socket while it lives.
- `Prompt` states no liveness: a macro may never write its next line.

`print_status`, `wifi` and `prompt` disable the deadlock check: with their
bounded acts spent and everything handled, the system is at rest. The other
runs keep it.

## What is proved

`JsonRpcProofs` proves, for any finite or infinite set of threads and calls and
any bound on ids, that `Spec` implies

- `TypeCorrect`: `[]TypeOK`;
- `UniqueIds`: `[]WireIdsUnique`;
- `SoloCorrect`: `[]SoloAnswer`;
- `AtMostOnce`: `[]RunsOnce`;
- `SoloSent`: `[]SoloNotDropped`.

The assumptions are `RpcAssumption` only: the loop thread is a thread, calls
with callbacks are calls, `None` is no call.

None of the properties is inductive. That a solo call gets its own answer
depends on what the map holds at the id it is *about* to take, so the invariant
`IInv` adds:

- `CallsInv`: a busy thread owns its call, which is not sent yet;
- `KeysInv`: every entry lies at or below the next id, and at the next id only
  while some call that inserted it has yet to stamp its message - so for a solo
  call the lookup finds the id free, however many entries losses left behind;
- `StampInv`: stamped ids are below the next id and distinct;
- `SoloInv`: while a solo call is under way nobody else is inside a call - a
  later call that joins marks both as overlapped;
- `OwnInv`: the entry of a solo call sits at the id of its own message, before
  the stamp, between stamp and send, and after;
- `OnceInv`: a callback is in the map at most once, its call is past the
  insertion, and once it ran only the entry being erased may hold it.

`Refinement`, in the same module, is `Spec => Abstract!Spec`: the client
implements the safety part of `Requests`, for every set of threads and calls. The
steps inside `send_jsonrpc` are stutters but for the first (`Ask`) and the last
(`Submit` or `Refuse`); `Deliver` is `Answer`. What `IInv` does not say, and the
answer to a solo call needs, is that its callback is still in the map: so
`SoloEntryWaits` first proves `PresentInv`, that a solo call whose message is in
flight has its entry at the id of that message. The fairness of `Requests` is
checked by TLC (`ImplementsRequests`).

`Inductive` proves `[]IInv`, one lemma per part and one step per action; the
five theorems follow. `SoloAnswered` is liveness under fairness and stays with
TLC.

`ScriptUpdateProofs` proves `TypeCorrect`, `DeadlineKept` (`[]CheckHasDeadline`),
`ButtonCorrect` (`[]ButtonFollows`) and `TapCorrect` (`[][TapDoesWhatItSays]`) for
any numbers of checks, upgrades and losses (`ScriptAssumption`: they are numbers).
Its `IInv` is `TypeOK` with

- `CountInv`: no more answers are owed than checks and upgrades were begun, which
  is what keeps the answers under way within their type;
- `DeadlineInv`: only between the state and the deadline of `check_script_update`
  may a check be without its deadline;
- `ButtonInv`: the button shows the state unless the timer has yet to draw it, and
  a check that has no deadline yet has no result either, unless one is to be drawn.

`PromptProofs` proves `TypeCorrect`, `FillIsSafe` (`[]FillSafe`, no LOAD that may
be touched during a print, a State that was just emptied excepted) and `AsWritten` (`[]PromptAsWritten`) for any macros. `PromptAssumption` is all it needs of
them: they are sequences of `Lines`, and every button is followed by a
`prompt_show` of the same macro. Its `IInv` is `TypeInv` with

- `LoadInv`: LOAD exists only while the manual menu and its button do;
- `MirrorInv`: to a subscriber, the last report or answer under way holds the state
  Klipper reported last, with no `notify_klippy_ready` behind it that empties State
  again, or nothing of a session is under way and State holds it;
- `ShowInv`: a button line, received or still to be sent, has behind it its
  `prompt_show`, or the restart of Klipper that ended its macro;
- `OffInv`: unless `blind`, LOAD follows State, or a `prompt_show` that will see to it,
  or a new session, is to come.
  This is where the order of the lines matters: `FillSafe` alone would not survive
  a button that is added after the last `prompt_show`.

For `AsWritten` it is extended by `SaidInv`: handled one after the other (`Replays`),
the messages under way turn the prompt on the screen (`now`) into the one that the
lines written declare (`Fits`), unless one was lost or its group is loose. A line
that is written joins the end of the replay, one that is handled leaves its front,
and a touch changes only whether the prompt is shown, until the next `prompt_show`
(`ReplayTouched`, `StaysDismissed`). `DeclaredAppend` unfolds the recursive function
`Declared` by one line. `said` at first went back to `prompt_begin` only, and the
property held of the three macros that were checked; for macros that go on after
`prompt_end` it was false, which the proof brought up.

`PowerUpdateProofs` proves `TypeCorrect`, `VerdictIsOfChannel`
(`[]VerdictOfChannel`), `VerdictIsTrue` (`[]VerdictTrue`) and `NoticeIsHonest`
(`NoticeHonest`) for any numbers of checks, updates and losses of power
(`PowerAssumption`: they are numbers). Its `IInv` is `TypeOK` and `VerdictTrue` with

- `ChannelInv`: unless the channel changed under a check, what travels is about the
  channel at each hand-over - the script's own copy, `check_result` until the timer
  has taken it, then the page - and `check_running` is the worker's;
- `RunInv`: `update.sh` runs only under the window that locks the screen, and what
  its thread stored is the exit code of a script that has ended;
- `ScriptInv`: the last status a script wrote and its exit code say how it ended: a
  script that was killed or never ran leaves no final status and a code that is not 0;
- `ClockInv`: a final status that the timer read still stands when it is judged, and
  the 30 s are over only once the script is;
- `DoneInv`: the mark of an update is there only if one was completed.

`VerdictTrue` needs the middle three together: the verdict is put together from a
file and two atomics that are read at different times. `OneUpdateAtATime` adds that
no update starts over another and that the channel stays while `update.sh` runs, so
the model may let the script look at the channel where the code keeps a copy.

`SessionProofs` proves `TypeCorrect`, `CardsAreTrue` (`[]CardsFollowMirror`),
`NoticeShown` (`[]NoticeUnlessRefused`), `Converges` (`[]MirrorConverges`) and
`SettledComplete` (`[]SettledIsComplete`) for any objects, sensors and number of
losses (`SessionAssumption`: sensors are objects, and the two absent values are
neither values nor equal). The properties speak of a queue that is empty or will be;
the invariant has to speak of every queue. Its `IInv` is `TypeOK` and
`CardsFollowMirror` with

- `NoticeInv`: a message that will show the notice is under way with nothing behind
  it that hides it, or the notice is shown, or hidden by a refused subscription, and
  nothing under way hides it;
- `MirrorInv`: the last message under way that touches an object gives it the value
  it has, and if none does State holds that value;
- `CurrentInv`: behind the last message that starts a session come only answers and
  updates of the present configuration - what an earlier session asked for is in
  front of it, and the reset of State comes after;
- `RequestInv`: once the session has started again, a subscription that was made for
  an earlier configuration has another list behind it, and so has its answer. Two
  starts may overlap; it is the second that counts;
- `StageInv`: each step of a start - list, known objects and cards, subscription,
  values and notice - is done or still to come.

`MirrorConverges` is stated with `Replay`, a recursive function over the queue.
`ReplaysExist` and `ReplayFollows` are its two lemmas; they go by the smallest index
that fails (`Smallest`, from the well-foundedness of `<` on the naturals), which is
induction in first-order form.

`ExcludeObjectProofs` proves `TypeCorrect`, `PanelFollows` (`[]PanelFollowsState`)
and `SyncIsRight` (`SyncCorrects`) for any labels, prints and restarts.
`ExcludeAssumption` says that labels are positive numbers and that the two absent
values, `NoField` and `None`, are not among the lists and the statuses. Its `IInv` is
`TypeOK` with

- `CourseInv`: the messages under way take State through a course that ends at
  Klipper's last report, and each of its states is none or a set of objects and
  exclusions Klipper had, where only `early` holds exclusions of objects without a
  label. The course is needed because a report names only the fields that changed;
- `HalfInv`: what the panel has yet to merge, State has merged;
- `FollowInv`: with that merged, the panel follows State. This is the window between
  the two consumers of one update, in which the timer may sync the panel with a State
  that is ahead of it: merging the update once more changes nothing.

That `Sorted` is the list of just these names is `SortedFacts` in the same module,
again by the smallest element.

`PrintStatusProofs` proves `TypeCorrect`, `PinsAsChosen` (`[]StartsAsChosen`) and
`PageShowsPrint` (`[]SettledShowsPrint`) for any files, pins, dialogs and numbers of
acts. Its `IInv` is `TypeOK` with

- `MirrorFollows`: the last report of a field under way holds the value Moonraker
  reported last; a field of which none is under way is as State has it;
- `PageFollows`: the page shows State, but for the cases the histories name;
- `EstimateFollows`: metadata is answered in the order of the requests, so the last
  request, answer or estimate is the one for the file the page shows;
- `SentOnce`: a dialog sends its script and its start once, and no command under way
  is of a dialog still to be opened;
- `PinsChosen`: a command whose script ran, or that needed none, finds the pins as
  chosen, and a dialog those it read.

`WifiProofs` proves `TypeCorrect`, `PasswordSafe` (`[]PasswordWhereTyped`),
`ShowsConnection` (`[]SettledShowsConnection`) and `RestDrawn`, its second half by
itself, for any networks, ids and numbers of touches, events and time-outs.
`WifiAssumption` says that `Alpha` and `Strength` list all networks, once each, that
the two special values are no networks, and that what wpa_supplicant starts with
(`Boot`) fits: it may join, and has joined, networks it has stored. Here an invariant is needed of what
both threads still do, of the commands, and of the answers at once:

- `PlanInv` (with `TypeOK`): the shape of what a handler still does. The event
  thread only asks; `ADD_NETWORK` is followed by the name and the key of the
  network; a `LIST_NETWORKS` or its parsing is followed by a redraw;
- `DrawInv`: what is shown is drawn, or will be, or `undrawn` says it will not;
- `OneInv`: until an answer crossed, a thread has one command or answer under way,
  that of the step it waits at, and none if it does not wait;
- `LastInv`: nothing that writes a network is behind the command the screen waits
  for. A command that timed out may still be served long after its handler ended;
  the answer to a later one says that it has been;
- `PasswordInv`: so a network that was just added is still without a key
  (`DescribeInv`), its name and its key reach it in that order, with no
  `ADD_NETWORK` or `REMOVE_NETWORK` before them (`OrderInv`), and the key that goes
  out is that of the name before it, and of the prompt (`PromptInv`);
- `CurrentInv`: only one thread is inside `find_current_network` (`Alone`), a
  network that is being described is not yet one to be joined (`NewIsIdle`), and
  unless `untold`, an event or a `LIST_NETWORKS` is still to come, or
  the answer under way, or parsed, names the current network (`Knows`).

The first attempt at these proofs failed for two reasons, both in the model: after
a time-out and a late answer a thread could take an answer to the same command sent
earlier and count it as its own, and nothing said that `CTRL-EVENT-CONNECTED` may
leave the card undrawn.

Every invariant of every passing run is proved. Only model-checked are the liveness
properties, and with them the fairness of `Requests`: liveness and `ENABLED` are out
of the provers' reach. So is induction with the library's theorems, which take an
operator as a parameter; `Session`, `ExcludeObject`, `Wifi` and `Prompt` are reasoned
about by the smallest counterexample instead. No module with a theorem uses a
`RECURSIVE` operator.

## Plan

Done: `JsonRpc`, `Session`, `ExcludeObject`, `PrintStatus`, `ScriptUpdate`,
`PowerUpdate`, `Prompt` and `Wifi` with their proofs, `Requests` and the refinement.

Next, in this order:

1. `MacroSync` (macro files, a restart that is postponed and not retried), `Files`
   (indices over a refresh), `ConfigFile` (a crash while saving).
2. `--set-channel`: its processes may write Moonraker's entry in the other order
   (`sysinfo_panel.cpp:1514`). Inside `PowerUpdate` it would multiply the 1.3 million
   states of the liveness run, so it wants a run of its own.
3. Operators checked against reference definitions: numeric text of the numpad,
   version splitting, the directory tree.

## Not modelled

Of the 579,600 lines of implementation in the repository all but about 20,000
are vendored or generated: wpa_supplicant, fonts and images compiled to C
arrays, the touch calibration and process libraries. The client's side of
wpa_supplicant's control interface is in `Wifi`; the rest is not this program's
logic, and the share of lines that is mapped stays small because of it.

Within the program, layout and drawing make up most of every panel and are left
out everywhere. The control pages hold no state but their widgets. Spoolman,
console and the calibration pages are lists or single macros, listed with their
hazards in `PROJECT.json`. That `std::map` and the JSON tree are not safe for
concurrent use is undefined behaviour inside libraries, which no step of a model
can give a meaning to; `PROJECT.json` lists where it bites. The Python macros
that run inside Klipper and the installers are outside the program.

## Files

`X.tla` is a component, `MCX.tla` and `MCX*.cfg` its instances, `XProofs.tla` its
theorems. `tlc -config MCX.cfg MCX.tla` checks one, `tlapm XProofs.tla` proves one.
