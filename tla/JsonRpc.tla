------------------------------- MODULE JsonRpc -------------------------------
(***************************************************************************)
(* The JSON-RPC client of src/src/websocket_client.cpp: the requests that  *)
(* the screen sends to Moonraker, and the callbacks that wait for their    *)
(* answers.                                                                *)
(*                                                                         *)
(* A call of send_jsonrpc takes four steps that no lock joins: look up     *)
(* callbacks[id], insert the callback at id, stamp the message with id++,  *)
(* send it.  The LVGL thread calls it from touch handlers (under lv_lock); *)
(* the WebSocket loop thread calls it from onopen, from notification       *)
(* handlers and from inside the callbacks it runs (without lv_lock).  Each *)
(* step is atomic here: what two threads do to the std::map inside one     *)
(* step is not modelled.                                                   *)
(***************************************************************************)
EXTENDS Naturals

CONSTANTS
  Threads,    \* the threads that call send_jsonrpc
  Loop,       \* the one of them that runs onopen, onmessage and onclose
  Requests,   \* the calls made in a behaviour, each at most once
  Cb,         \* the calls that pass a callback (the others: gcode_script ...)
  None,       \* no request
  MaxId       \* bound: no message is stamped with an id above MaxId

ASSUME RpcAssumption ==
  /\ Loop \in Threads
  /\ Cb \subseteq Requests
  /\ None \notin Requests
  /\ MaxId \in Nat

VARIABLES
  id,         \* KWebSocketClient::id, std::atomic_uint64_t
  callbacks,  \* KWebSocketClient::callbacks: the waiting callback of each id
  pc, cur,    \* per thread: the next step of its call, and the call
  stamp,      \* per thread: rpc["id"] of the message it is about to send
  made,       \* the calls begun
  dropped,    \* the calls that returned 0 and sent nothing
  wire,       \* wire[r]: the id r's message went out with
  sent,       \* the calls whose message reached Moonraker
  inFlight,   \* those of them Moonraker has yet to answer on this connection
  linkUp,     \* the WebSocket is open
  running,    \* the callback the loop thread is inside, with its map entry
  ran,        \* history: pairs <<callback, answer it was given>>
  overlapped  \* history: calls that shared some moment with another call

vars == <<id, callbacks, pc, cur, stamp, made, dropped, wire, sent, inFlight,
          linkUp, running, ran, overlapped>>

(* id has 64 bits and the keys of callbacks have 32 (websocket_client.h:41,   *)
(* :49): the two agree as long as fewer than 2^32 requests were made.        *)
Ids == 0..MaxId
Steps == {"idle", "find", "insert", "stamp", "send"}
NotRunning == [key |-> 0, cb |-> None, ans |-> None]

TypeOK ==
  /\ id \in 0..(MaxId + 1)
  /\ callbacks \in [0..(MaxId + 1) -> Requests \cup {None}]
  /\ pc \in [Threads -> Steps]
  /\ cur \in [Threads -> Requests \cup {None}]
  /\ stamp \in [Threads -> Ids]
  /\ made \subseteq Requests
  /\ dropped \subseteq Requests
  /\ wire \in [Requests -> Ids]
  /\ sent \subseteq Requests
  /\ inFlight \subseteq sent
  /\ linkUp \in BOOLEAN
  /\ running \in [key: Ids, cb: Requests \cup {None}, ans: Requests \cup {None}]
  /\ ran \subseteq Requests \X Requests
  /\ overlapped \subseteq Requests

Init ==
  /\ id = 0
  /\ callbacks = [k \in 0..(MaxId + 1) |-> None]
  /\ pc = [t \in Threads |-> "idle"]
  /\ cur = [t \in Threads |-> None]
  /\ stamp = [t \in Threads |-> 0]
  /\ made = {}
  /\ dropped = {}
  /\ wire = [r \in Requests |-> 0]
  /\ sent = {}
  /\ inFlight = {}
  /\ linkUp = FALSE
  /\ running = NotRunning
  /\ ran = {}
  /\ overlapped = {}

-----------------------------------------------------------------------------
(* One call of send_jsonrpc by thread t. *)

Busy(t) == pc[t] /= "idle"
Others(t) == {u \in Threads \ {t} : Busy(u)}

EndCall(t) ==
  /\ pc' = [pc EXCEPT ![t] = "idle"]
  /\ cur' = [cur EXCEPT ![t] = None]

(* The call starts; a call without a callback goes straight to id++. *)
Begin(t, r) ==
  /\ ~Busy(t)
  /\ r \notin made
  /\ made' = made \cup {r}
  /\ cur' = [cur EXCEPT ![t] = r]
  /\ pc' = [pc EXCEPT ![t] = IF r \in Cb THEN "find" ELSE "stamp"]
  /\ overlapped' = IF Others(t) = {} THEN overlapped
                   ELSE overlapped \cup {r} \cup {cur[u] : u \in Others(t)}
  /\ UNCHANGED <<id, callbacks, stamp, dropped, wire, sent, inFlight, linkUp,
                 running, ran>>

(* callbacks.find(id): an id that is taken makes the call return 0. *)
FindFree(t) ==
  /\ pc[t] = "find"
  /\ callbacks[id] = None
  /\ pc' = [pc EXCEPT ![t] = "insert"]
  /\ UNCHANGED <<id, callbacks, cur, stamp, made, dropped, wire, sent, inFlight,
                 linkUp, running, ran, overlapped>>

(* Mutant: a call is refused while any callback waits, not only one at id.  *)
FindTakenByAny(t) ==
  /\ pc[t] = "find"
  /\ \E k \in Ids : callbacks[k] /= None
  /\ dropped' = dropped \cup {cur[t]}
  /\ EndCall(t)
  /\ UNCHANGED <<id, callbacks, stamp, made, wire, sent, inFlight, linkUp,
                 running, ran, overlapped>>

FindTaken(t) ==
  /\ pc[t] = "find"
  /\ callbacks[id] /= None
  /\ dropped' = dropped \cup {cur[t]}
  /\ EndCall(t)
  /\ UNCHANGED <<id, callbacks, stamp, made, wire, sent, inFlight, linkUp,
                 running, ran, overlapped>>

(* Mutant: a callback is only kept while the socket is open.                *)
InsertIfOpen(t) ==
  /\ pc[t] = "insert"
  /\ callbacks' = IF callbacks[id] = None /\ linkUp
                  THEN [callbacks EXCEPT ![id] = cur[t]] ELSE callbacks
  /\ pc' = [pc EXCEPT ![t] = "stamp"]
  /\ UNCHANGED <<id, cur, stamp, made, dropped, wire, sent, inFlight, linkUp,
                 running, ran, overlapped>>

(* callbacks.insert({id, cb}): std::map::insert keeps an entry that exists. *)
Insert(t) ==
  /\ pc[t] = "insert"
  /\ callbacks' = IF callbacks[id] = None
                  THEN [callbacks EXCEPT ![id] = cur[t]] ELSE callbacks
  /\ pc' = [pc EXCEPT ![t] = "stamp"]
  /\ UNCHANGED <<id, cur, stamp, made, dropped, wire, sent, inFlight, linkUp,
                 running, ran, overlapped>>

(* Mutant: ids are counted for calls with a callback only.                  *)
StampWaitingOnly(t) ==
  /\ pc[t] = "stamp"
  /\ id <= MaxId
  /\ stamp' = [stamp EXCEPT ![t] = id]
  /\ id' = IF cur[t] \in Cb THEN id + 1 ELSE id
  /\ pc' = [pc EXCEPT ![t] = "send"]
  /\ UNCHANGED <<callbacks, cur, made, dropped, wire, sent, inFlight, linkUp,
                 running, ran, overlapped>>

(* Mutant: ++id for id++.                                                   *)
StampPreIncrement(t) ==
  /\ pc[t] = "stamp"
  /\ id < MaxId
  /\ stamp' = [stamp EXCEPT ![t] = id + 1]
  /\ id' = id + 1
  /\ pc' = [pc EXCEPT ![t] = "send"]
  /\ UNCHANGED <<callbacks, cur, made, dropped, wire, sent, inFlight, linkUp,
                 running, ran, overlapped>>

(* rpc["id"] = id++ *)
Stamp(t) ==
  /\ pc[t] = "stamp"
  /\ id <= MaxId
  /\ stamp' = [stamp EXCEPT ![t] = id]
  /\ id' = id + 1
  /\ pc' = [pc EXCEPT ![t] = "send"]
  /\ UNCHANGED <<callbacks, cur, made, dropped, wire, sent, inFlight, linkUp,
                 running, ran, overlapped>>

(* Mutant: a message that could not be sent is waited for all the same.     *)
SendUnchecked(t) ==
  /\ pc[t] = "send"
  /\ inFlight' = inFlight \cup {cur[t]}
  /\ wire' = [wire EXCEPT ![cur[t]] = stamp[t]]
  /\ sent' = IF linkUp THEN sent \cup {cur[t]} ELSE sent
  /\ stamp' = [stamp EXCEPT ![t] = 0]
  /\ EndCall(t)
  /\ UNCHANGED <<id, callbacks, made, dropped, linkUp, running, ran, overlapped>>

(* send(rpc.dump()): -1 while the socket is closed; nobody removes the        *)
(* callback then.                                                             *)
Send(t) ==
  /\ pc[t] = "send"
  /\ IF linkUp
     THEN /\ sent' = sent \cup {cur[t]}
          /\ inFlight' = inFlight \cup {cur[t]}
          /\ wire' = [wire EXCEPT ![cur[t]] = stamp[t]]
     ELSE UNCHANGED <<sent, inFlight, wire>>
  /\ stamp' = [stamp EXCEPT ![t] = 0]
  /\ EndCall(t)
  /\ UNCHANGED <<id, callbacks, made, dropped, linkUp, running, ran, overlapped>>

-----------------------------------------------------------------------------
(* The loop thread. *)

(* Mutant: lower_bound for find, with the erase by the id of the answer.    *)
DeliverLowerBound(r) ==
  /\ ~Busy(Loop)
  /\ running = NotRunning
  /\ r \in inFlight
  /\ inFlight' = inFlight \ {r}
  /\ LET waiting == {k \in Ids : k >= wire[r] /\ callbacks[k] /= None}
         first == CHOOSE k \in waiting : \A j \in waiting : k <= j IN
     IF waiting = {}
     THEN UNCHANGED <<running, ran>>
     ELSE /\ running' = [key |-> wire[r], cb |-> callbacks[first], ans |-> r]
          /\ ran' = ran \cup {<<callbacks[first], r>>}
  /\ UNCHANGED <<id, callbacks, pc, cur, stamp, made, dropped, wire, sent, linkUp,
                 overlapped>>

(* onmessage with the answer to r, in any order: find the callback waiting   *)
(* under the id of the answer, and enter it.                                 *)
Deliver(r) ==
  /\ ~Busy(Loop)
  /\ running = NotRunning
  /\ r \in inFlight
  /\ inFlight' = inFlight \ {r}
  /\ LET c == callbacks[wire[r]] IN
     IF c = None
     THEN UNCHANGED <<running, ran>>
     ELSE /\ running' = [key |-> wire[r], cb |-> c, ans |-> r]
          /\ ran' = ran \cup {<<c, r>>}
  /\ UNCHANGED <<id, callbacks, pc, cur, stamp, made, dropped, wire, sent, linkUp,
                 overlapped>>

(* The callback returns, after calls of its own: callbacks.erase(cb_entry). *)
Return ==
  /\ ~Busy(Loop)
  /\ running /= NotRunning
  /\ callbacks' = [callbacks EXCEPT ![running.key] = None]
  /\ running' = NotRunning
  /\ UNCHANGED <<id, pc, cur, stamp, made, dropped, wire, sent, inFlight, linkUp,
                 ran, overlapped>>

(* Mutant: every connection numbers its messages from 0.                    *)
OpenRestartsIds ==
  /\ ~linkUp
  /\ linkUp' = TRUE
  /\ id' = 0
  /\ UNCHANGED <<callbacks, pc, cur, stamp, made, dropped, wire, sent,
                 inFlight, running, ran, overlapped>>

(* The connection opens, or is lost with every answer under way; the         *)
(* reconnection of libhv follows.  callbacks and id keep their values.       *)
Open ==
  /\ ~linkUp
  /\ linkUp' = TRUE
  /\ UNCHANGED <<id, callbacks, pc, cur, stamp, made, dropped, wire, sent,
                 inFlight, running, ran, overlapped>>

Lose ==
  /\ linkUp
  /\ linkUp' = FALSE
  /\ inFlight' = {}
  /\ UNCHANGED <<id, callbacks, pc, cur, stamp, made, dropped, wire, sent,
                 running, ran, overlapped>>

-----------------------------------------------------------------------------
CallStep(t) == FindFree(t) \/ FindTaken(t) \/ Insert(t) \/ Stamp(t) \/ Send(t)

Next ==
  \/ \E t \in Threads : CallStep(t) \/ (\E r \in Requests : Begin(t, r))
  \/ \E r \in Requests : Deliver(r)
  \/ Return
  \/ Open
  \/ Lose

Spec == Init /\ [][Next]_vars

(* A thread inside a call finishes it, Moonraker answers what it received,   *)
(* and the loop thread returns from a callback.                              *)
Fairness ==
  /\ \A t \in Threads : WF_vars(CallStep(t))
  /\ \A r \in Requests : WF_vars(Deliver(r))
  /\ WF_vars(Return)

FairSpec == Spec /\ Fairness

-----------------------------------------------------------------------------
(* Properties. *)

(* Two messages never carry the same id, whatever the threads do: id++ is   *)
(* one atomic operation.                                                    *)
WireIdsUnique ==
  \A r, q \in sent : wire[r] = wire[q] => r = q

(* A call that no other call overlapped gets its own answer or none: its    *)
(* callback never runs with the answer to another request, although other   *)
(* calls, before and after it, may have raced with each other.              *)
SoloAnswer ==
  \A p \in ran : p[1] \notin overlapped => p[2] = p[1]

(* An answer never runs the callback of an earlier call that had the id to  *)
(* itself: once a solo call was answered, its callback is gone for good.    *)
RunsOnce ==
  \A p, q \in ran : p[1] = q[1] => p = q

(* A call that no other call overlapped is never dropped by the test for an *)
(* id in use, though entries leaked by lost answers stay in the map.        *)
SoloNotDropped ==
  dropped \subseteq overlapped

(* A solo call that was sent has its callback run, unless the connection    *)
(* that carried it is lost.                                                 *)
SoloAnswered ==
  \A r \in Cb :
    (r \in inFlight /\ r \notin overlapped) ~> (<<r, r>> \in ran \/ ~linkUp)

(* Refinement.  Seen by its callers the client is Requests: a call is being  *)
(* made while a thread is inside send_jsonrpc, and may be answered while its *)
(* message is in flight.                                                     *)
Abstract == INSTANCE Requests WITH
  Waiting <- Cb, asked <- made, making <- {cur[t] : t \in {u \in Threads : Busy(u)}},
  racing <- overlapped, refused <- dropped, open <- inFlight, answers <- ran,
  up <- linkUp

(* Every behaviour of ids, map and racing threads keeps the promises of      *)
(* Requests: a call made alone is sent, its callback runs, with its own      *)
(* answer, and calls that race never run a callback twice.                   *)
ImplementsRequests == Abstract!FairSpec
=============================================================================
