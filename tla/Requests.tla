------------------------------- MODULE Requests -------------------------------
(***************************************************************************)
(* What the JSON-RPC client promises to the panels that call it, without   *)
(* ids, maps or steps inside a call.  A call is made, its message leaves   *)
(* over a connection that is up, and the answer runs the callback of the   *)
(* call that asked.  Calls that were being made at the same moment race,   *)
(* and of them only this is promised: a callback runs once at most, and    *)
(* for an answer that did arrive.                                          *)
(***************************************************************************)
CONSTANTS
  Requests,   \* the calls
  Waiting     \* those of them that pass a callback

VARIABLES
  asked,      \* the calls made so far
  making,     \* those that have not returned
  racing,     \* calls made while another was being made
  refused,    \* calls that returned 0
  open,       \* calls whose message is out and may still be answered
  answers,    \* pairs <<call whose callback ran, call that was answered>>
  up          \* the connection

vars == <<asked, making, racing, refused, open, answers, up>>

Init ==
  /\ asked = {} /\ making = {} /\ racing = {} /\ refused = {}
  /\ open = {} /\ answers = {}
  /\ up = FALSE

(* A call begun while others are being made races with all of them. *)
Ask(r) ==
  /\ r \notin asked
  /\ asked' = asked \cup {r}
  /\ making' = making \cup {r}
  /\ racing' = IF making = {} THEN racing ELSE racing \cup making \cup {r}
  /\ UNCHANGED <<refused, open, answers, up>>

(* The message leaves if the connection is up, and is lost if it is not. *)
Submit(r) ==
  /\ r \in making
  /\ making' = making \ {r}
  /\ open' = IF up THEN open \cup {r} ELSE open
  /\ UNCHANGED <<asked, racing, refused, answers, up>>

(* Only a call that races may find its id taken. *)
Refuse(r) ==
  /\ r \in making \cap racing \cap Waiting
  /\ making' = making \ {r}
  /\ refused' = refused \cup {r}
  /\ UNCHANGED <<asked, racing, open, answers, up>>

(* The answer to r runs the callback c; a callback that does not race runs   *)
(* with its own answer, and always does.                                     *)
Runs(c, r) ==
  /\ c \in asked
  /\ c \notin racing => c = r
  /\ \A p \in answers : p[1] /= c
  /\ answers' = answers \cup {<<c, r>>}

Answer(r) ==
  /\ r \in open
  /\ open' = open \ {r}
  /\ \/ \E c \in Requests : Runs(c, r)
     \/ r \notin Waiting \ racing /\ UNCHANGED answers
  /\ r \in Waiting \ racing => <<r, r>> \in answers'
  /\ UNCHANGED <<asked, making, racing, refused, up>>

Connect ==
  /\ ~up
  /\ up' = TRUE
  /\ UNCHANGED <<asked, making, racing, refused, open, answers>>

Disconnect ==
  /\ up
  /\ up' = FALSE
  /\ open' = {}
  /\ UNCHANGED <<asked, making, racing, refused, answers>>

Next ==
  \/ \E r \in Requests : Ask(r) \/ Submit(r) \/ Refuse(r) \/ Answer(r)
  \/ Connect
  \/ Disconnect

Spec == Init /\ [][Next]_vars

(* Moonraker answers what reached it over a connection that stays up. *)
FairSpec == Spec /\ \A r \in Requests : WF_vars(Answer(r))
=============================================================================
