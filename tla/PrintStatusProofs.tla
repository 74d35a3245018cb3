--------------------------- MODULE PrintStatusProofs ---------------------------
(***************************************************************************)
(* Theorems about PrintStatus for any files, pins, dialogs and bounds:     *)
(* types, the pins a print starts with, and what the page shows when all   *)
(* was reported.                                                           *)
(***************************************************************************)
EXTENDS PrintStatus, SequenceTheorems, TLAPS

-----------------------------------------------------------------------------
(* Why the page catches up.                                                  *)

Tells(m, f) == m.kind = "status" /\ f \in DOMAIN m.diff
LastTells(q, i, f) == Tells(q[i], f) /\ \A j \in DOMAIN q : j > i => ~Tells(q[j], f)

(* The last report of a field on its way holds the value t that Moonraker    *)
(* reported last; a field of which none is on its way is as State has it, m. *)
Follows(q, f, t, m) ==
  /\ \A i \in DOMAIN q : LastTells(q, i, f) => q[i].diff[f] = t
  /\ (\A i \in DOMAIN q : ~Tells(q[i], f)) => m = t
MirrorFollows == up => \A f \in Fields : Follows(inbox, f, told[f], mirror[f])

(* The page shows State, but for what the history excuses.                   *)
PageFollows ==
  /\ label = mirror.file
  /\ ~bare => status = Text(mirror.state) /\ active = (mirror.state \in Running)
  /\ ~split => resume = mirror.paused

(* The answers come in the order of the requests: the last of them, asked,   *)
(* answered or handled, is the one for the file the page shows.              *)
Answers(m) == m.kind = "metadata"
LastAnswers(q, i) == Answers(q[i]) /\ \A j \in DOMAIN q : j > i => ~Answers(q[j])
AnswersFor(q, file, ok, e) ==
  /\ \A i \in DOMAIN q : LastAnswers(q, i) => q[i].file = file
  /\ (\A i \in DOMAIN q : ~Answers(q[i])) /\ ok => e = file
EstimateFollows ==
  up /\ ~crossed /\ label /= None =>
    IF pending = <<>> THEN AnswersFor(inbox, label, lastOk, estimate)
    ELSE pending[Len(pending)] = label

-----------------------------------------------------------------------------
(* Why a print starts with the pins of its dialog.                           *)

(* Commands of dialogs, queued or about to be.                               *)
Holds(q, c) == \E i \in DOMAIN q : q[i] = c
Ran(q, c) == \E i \in DOMAIN q : q[i].kind = "ran" /\ q[i].start = c
Sends(c) == Holds(gcode, c) \/ Ran(inbox, c)
Ready(c) == (c.op = "start" /\ Holds(gcode, c)) \/ Ran(inbox, c)

(* A dialog sends at most once.                                              *)
SentOnce ==
  /\ \A c \in Flow : Sends(c) => c.n <= opened /\ (dialog /= NoDialog => c.n < dialog.n)
  /\ \A c, d \in Flow : Sends(c) /\ Sends(d) /\ c.n = d.n => c.chosen = d.chosen

(* A command whose script ran, or that needed none, finds the pins as chosen *)
(* and a dialog the pins it read.                                            *)
PinsChosen ==
  /\ \A c \in Flow : Ready(c) /\ c.n \in clean => printer.pin = c.chosen
  /\ dialog /= NoDialog /\ dialog.n \in clean => printer.pin = dialog.was

IInv == TypeOK /\ MirrorFollows /\ PageFollows /\ EstimateFollows /\ SentOnce /\ PinsChosen

-----------------------------------------------------------------------------
(* Queues. *)

LEMMA TailFacts ==
  ASSUME NEW S, NEW q \in Seq(S), q /= <<>>
  PROVE  /\ Tail(q) \in Seq(S) /\ Head(q) \in S
         /\ 1 \in DOMAIN q /\ q[1] = Head(q)
         /\ \A i \in DOMAIN Tail(q) : i + 1 \in DOMAIN q /\ Tail(q)[i] = q[i + 1]
         /\ \A i \in DOMAIN q : i > 1 => i - 1 \in DOMAIN Tail(q) /\ Tail(q)[i - 1] = q[i]
  OBVIOUS

LEMMA AppendFacts ==
  ASSUME NEW S, NEW q \in Seq(S), NEW x \in S
  PROVE  /\ Append(q, x) \in Seq(S)
         /\ \A i \in DOMAIN q : i \in DOMAIN Append(q, x) /\ Append(q, x)[i] = q[i]
         /\ Len(q) + 1 \in DOMAIN Append(q, x) /\ Append(q, x)[Len(q) + 1] = x
         /\ \A i \in DOMAIN Append(q, x) : i \in DOMAIN q \/ i = Len(q) + 1
         /\ \A i \in DOMAIN q : i \in Nat /\ i < Len(q) + 1
  OBVIOUS

LEMMA RemoveFacts ==
  ASSUME NEW S, NEW q \in Seq(S), NEW i \in DOMAIN q
  PROVE  RemoveAt(q, i) \in Seq(S) /\ q[i] \in S
<1>1. i \in 1..Len(q) /\ q[i] \in S /\ Len(q) \in Nat
  OBVIOUS
<1>2. SubSeq(q, 1, i - 1) \in Seq(S)
  BY <1>1
<1>3. SubSeq(q, i + 1, Len(q)) \in Seq(S)
  BY <1>1
<1>4. RemoveAt(q, i) \in Seq(S)
  BY <1>2, <1>3 DEF RemoveAt
<1> QED
  BY <1>1, <1>4

LEMMA RemoveFirstFacts ==
  ASSUME NEW S, NEW q \in Seq(S), q /= <<>>
  PROVE  /\ Len(RemoveAt(q, 1)) = Len(q) - 1
         /\ Len(q) > 1 => RemoveAt(q, 1)[Len(q) - 1] = q[Len(q)]
<1> DEFINE a == SubSeq(q, 1, 0)
           b == SubSeq(q, 2, Len(q))
<1>1. a \in Seq(S) /\ Len(a) = 0
  <2>1. a = <<>>
    BY SubSeqEmpty
  <2> QED
    BY <2>1
<1>2. b \in Seq(S) /\ Len(b) = Len(q) - 1 /\ (Len(q) > 1 => b[Len(q) - 1] = q[Len(q)])
  <2>1. Len(q) \in Nat /\ Len(q) >= 1 /\ \A i \in 1..Len(q) : q[i] \in S
    OBVIOUS
  <2>2. \A i \in 2..Len(q) : q[i] \in S
    BY <2>1
  <2>3. /\ b \in Seq(S)
        /\ Len(b) = IF 2 <= Len(q) THEN Len(q) - 2 + 1 ELSE 0
        /\ \A i \in 1..(Len(q) - 2 + 1) : b[i] = q[2 + i - 1]
    BY <2>1, <2>2, SubSeqProperties
  <2> HIDE DEF b
  <2>4. ASSUME Len(q) > 1 PROVE b[Len(q) - 1] = q[Len(q)]
    <3>1. Len(q) - 1 \in 1..(Len(q) - 2 + 1) /\ 2 + (Len(q) - 1) - 1 = Len(q)
      BY <2>1, <2>4
    <3> QED
      BY <2>3, <3>1, Zenon
  <2>5. Len(b) = Len(q) - 1
    <3>1. \A n \in Nat : n >= 1 => (IF 2 <= n THEN n - 2 + 1 ELSE 0) = n - 1
      OBVIOUS
    <3> QED
      BY <2>1, <2>3, <3>1, Zenon
  <2> QED
    BY <2>3, <2>4, <2>5, Zenon
<1>3. RemoveAt(q, 1) = a \o b
  <2>1. 1 - 1 = 0 /\ 1 + 1 = 2
    OBVIOUS
  <2> QED
    BY <2>1, Zenon DEF RemoveAt
<1> HIDE DEF a, b
<1>4. Len(q) \in Nat /\ Len(q) >= 1
  OBVIOUS
<1>5. Len(a \o b) = Len(b) /\ \A i \in 1..Len(b) : (a \o b)[i] = b[i]
  BY <1>1, <1>2
<1> QED
  BY <1>2, <1>3, <1>4, <1>5

-----------------------------------------------------------------------------
(* What the records hold. *)

LEMMA PrinterFacts ==
  ASSUME NEW p \in Printer
  PROVE  /\ p.file \in Files \cup {None} /\ p.state \in States
         /\ p.paused \in BOOLEAN /\ p.pin \in Modes
  BY DEF Printer

LEMMA MergedFacts ==
  ASSUME NEW p \in Printer, NEW d \in Diffs
  PROVE  /\ Merged(d, p) \in Printer
         /\ \A f \in Fields : Merged(d, p)[f] = IF f \in DOMAIN d THEN d[f] ELSE p[f]
<1>1. PICK S \in SUBSET Fields, r \in Printer : d = [f \in S |-> r[f]]
  BY DEF Diffs
<1>2. \A f \in Fields : Merged(d, p)[f] = IF f \in S THEN r[f] ELSE p[f]
  BY <1>1 DEF Merged
<1> DEFINE m == Merged(d, p)
<1>3. /\ m.file = r.file \/ m.file = p.file
      /\ m.state = r.state \/ m.state = p.state
      /\ m.paused = r.paused \/ m.paused = p.paused
      /\ m.pin = r.pin \/ m.pin = p.pin
  BY <1>2 DEF Fields
<1>4. /\ m.file \in Files \cup {None} /\ m.state \in States
      /\ m.paused \in BOOLEAN /\ m.pin \in Modes
  BY <1>3, PrinterFacts
<1>5. m = [f \in Fields |-> m[f]]
  BY DEF Merged
<1>6. m \in Printer
  <2> HIDE DEF m
  <2> QED BY <1>4, <1>5 DEF Printer, Fields
<1> QED
  BY <1>1, <1>2, <1>6

LEMMA ReportFacts ==
  ASSUME NEW p \in Printer, NEW S \in SUBSET Fields
  PROVE  [f \in S |-> p[f]] \in Diffs
  BY DEF Diffs

LEMMA CommandFacts ==
  ASSUME NEW c \in Commands
  PROVE  /\ c.op \in {"pause", "resume"} \/ c \in Flow
         /\ c \in Flow => /\ c.op \in {"script", "start"} /\ c.n \in 1..Flows
                          /\ c.file \in Files /\ c.chosen \in Modes
                          /\ [c EXCEPT !.op = "start"] \in Flow
  BY DEF Commands, Flow

LEMMA MessageFacts ==
  ASSUME NEW m \in Messages
  PROVE  /\ m.kind \in {"status", "metadata", "ran"}
         /\ m.kind = "status" => m.diff \in Diffs
         /\ m.kind = "metadata" => m.file \in Files /\ m.ok \in BOOLEAN
         /\ m.kind = "ran" => m.start \in Flow
  BY DEF Messages
-----------------------------------------------------------------------------
(* Types. *)

LEMMA NewPrinter ==
  ASSUME NEW p \in Printer
  PROVE  /\ \A f \in Files \cup {None}, s \in States :
              [p EXCEPT !.file = f, !.state = s] \in Printer
         /\ \A f \in Files \cup {None}, s \in States, b \in BOOLEAN :
              [p EXCEPT !.file = f, !.state = s, !.paused = b] \in Printer
         /\ \A s \in States : [p EXCEPT !.state = s] \in Printer
         /\ \A s \in States, b \in BOOLEAN : [p EXCEPT !.state = s, !.paused = b] \in Printer
         /\ \A b \in BOOLEAN : [p EXCEPT !.paused = b] \in Printer
         /\ \A m \in Modes : [p EXCEPT !.pin = m] \in Printer
  BY Zenon DEF Printer

LEMMA NewCommands ==
  /\ \A c \in {"pause", "resume"} : [op |-> c] \in Commands
  /\ \A o \in {"script", "start"}, n \in 1..Flows, f \in Files, m \in Modes :
        [op |-> o, n |-> n, file |-> f, chosen |-> m] \in Flow
  /\ Flow \subseteq Commands
  BY DEF Commands, Flow

LEMMA NewMessages ==
  /\ \A d \in Diffs : [kind |-> "status", diff |-> d] \in Messages
  /\ \A f \in Files, ok \in BOOLEAN : [kind |-> "metadata", file |-> f, ok |-> ok] \in Messages
  /\ \A c \in Flow : [kind |-> "ran", start |-> c] \in Messages
  BY DEF Messages
LEMMA InitType == Init => TypeOK
<1> SUFFICES ASSUME Init PROVE TypeOK
  OBVIOUS
<1>1. printer \in Printer
  BY PrintAssumption DEF Init, Printer, States
<1>2. status \in {Text(s) : s \in States}
  BY DEF Init, Text, States
<1>3. dialog = NoDialog /\ opened \in 0..Flows /\ clean \subseteq 1..opened
  BY PrintAssumption DEF Init
<1>4. disabled \subseteq {IF resume THEN "resume" ELSE "pause"}
  BY DEF Init
<1>5. /\ label \in Files \cup {None} /\ estimate \in Files \cup {None}
      /\ {resume, active, up} \subseteq BOOLEAN
  BY DEF Init
<1>6. /\ {printer, told, mirror} \subseteq Printer
      /\ pending \in Seq(Files) /\ gcode \in Seq(Commands) /\ inbox \in Seq(Messages)
  BY <1>1 DEF Init
<1>7. ~up => inbox = <<>>
  BY DEF Init
<1> QED
  BY <1>2, <1>3, <1>4, <1>5, <1>6, <1>7 DEF TypeOK

PrintersTyped == printer \in Printer /\ told \in Printer /\ mirror \in Printer
QueuesTyped ==
  /\ pending \in Seq(Files) /\ gcode \in Seq(Commands) /\ inbox \in Seq(Messages)
  /\ ~up => inbox = <<>>
PageTyped ==
  /\ label \in Files \cup {None} /\ estimate \in Files \cup {None}
  /\ status \in {Text(s) : s \in States}
  /\ resume \in BOOLEAN /\ active \in BOOLEAN /\ up \in BOOLEAN
  /\ disabled \subseteq {IF resume THEN "resume" ELSE "pause"}
FlowTyped ==
  /\ dialog = NoDialog \/ (dialog.n \in 1..opened /\ dialog.file \in Files)
  /\ clean \subseteq 1..opened
  /\ opened \in 0..Flows

LEMMA TypeParts == TypeOK <=> PrintersTyped /\ QueuesTyped /\ PageTyped /\ FlowTyped
  BY DEF TypeOK, PrintersTyped, QueuesTyped, PageTyped, FlowTyped

LEMMA HeadIsFlow ==
  ASSUME gcode \in Seq(Commands), AtHead("script") \/ AtHead("start")
  PROVE  Head(gcode) \in Flow
  BY TailFacts, CommandFacts DEF AtHead

LEMMA ReportOfHead ==
  ASSUME PrintersTyped, QueuesTyped, Consume
  PROVE  /\ Head(inbox).diff \in Diffs
         /\ Merged(Head(inbox).diff, mirror) \in Printer
<1>1. Head(inbox) \in Messages /\ Head(inbox).kind = "status"
  BY TailFacts DEF QueuesTyped, Consume
<1>2. Head(inbox).diff \in Diffs
  BY <1>1, MessageFacts
<1> QED
  BY <1>2, MergedFacts DEF PrintersTyped

LEMMA StepPrinters == PrintersTyped /\ QueuesTyped /\ [Next]_vars => PrintersTyped'
<1> SUFFICES ASSUME PrintersTyped, QueuesTyped, [Next]_vars PROVE PrintersTyped'
  OBVIOUS
<1> USE DEF PrintersTyped, QueuesTyped, world, panel, flow, notes, vars, Quietly
<1>1. ASSUME NEW f \in Files, SelectElsewhere(f) PROVE PrintersTyped'
  BY <1>1, NewPrinter DEF SelectElsewhere, States
<1>2. CASE Begins
  BY <1>2, NewPrinter DEF Begins, States, Running
<1>3. CASE Ends
  BY <1>3, NewPrinter DEF Ends, States
<1>4. ASSUME NEW m \in Modes, PinElsewhere(m) PROVE PrintersTyped'
  BY <1>4, NewPrinter DEF PinElsewhere
<1>5. ASSUME NEW c \in {"pause", "resume"}, CommandElsewhere(c) PROVE PrintersTyped'
  BY <1>5 DEF CommandElsewhere
<1>6. ASSUME NEW c \in {"pause", "resume"}, RunPause(c) PROVE PrintersTyped'
  BY <1>6, NewPrinter DEF RunPause, Runs
<1>7. CASE RunScript
  <2>1. Head(gcode) \in Flow
    BY <1>7, HeadIsFlow DEF RunScript, Runs
  <2>2. Head(gcode).chosen \in Modes
    BY <2>1 DEF Flow
  <2>3. [printer EXCEPT !.pin = Head(gcode).chosen] \in Printer
    BY <2>2, NewPrinter
  <2>4. printer' \in Printer /\ told' = told /\ mirror' = mirror
    BY <1>7, <2>3 DEF RunScript, Runs
  <2> QED
    BY <2>4
<1>8. CASE RunStart
  <2>1. Head(gcode) \in Flow
    BY <1>8, HeadIsFlow DEF RunStart, Runs
  <2>2. Head(gcode).file \in Files
    BY <2>1 DEF Flow
  <2>3. [printer EXCEPT !.file = Head(gcode).file, !.state = "printing", !.paused = FALSE]
          \in Printer
    BY <2>2, NewPrinter DEF States, Running
  <2>4. printer' \in Printer /\ told' = told /\ mirror' = mirror
    BY <1>8, <2>3 DEF RunStart, Runs
  <2> QED
    BY <2>4
<1>9. CASE StateFollows
  <2>1. /\ [printer EXCEPT !.state = "paused"] \in Printer
        /\ [printer EXCEPT !.state = "printing"] \in Printer
    BY NewPrinter DEF States, Running
  <2>2. printer' \in Printer
    BY <1>9, <2>1 DEF StateFollows
  <2> QED
    BY <1>9, <2>2 DEF StateFollows
<1>10. CASE Publish
  BY <1>10 DEF Publish
<1>11. ASSUME NEW i \in DOMAIN pending, AnswerMetadata(i) PROVE PrintersTyped'
  BY <1>11 DEF AnswerMetadata
<1>12. CASE Lose
  BY <1>12 DEF Lose
<1>13. CASE Reconnect
  BY <1>13 DEF Reconnect
<1>14. CASE Consume
  BY <1>14, MergedFacts, MessageFacts, TailFacts DEF Consume
<1>15. CASE HandleMetadata
  BY <1>15 DEF HandleMetadata
<1>16. CASE HandleRan
  BY <1>16 DEF HandleRan
<1>17. CASE Tap
  BY <1>17 DEF Tap
<1>18. CASE TapMini
  BY <1>18 DEF TapMini
<1>19. ASSUME NEW f \in Files, Open(f) PROVE PrintersTyped'
  BY <1>19 DEF Open
<1>20. ASSUME NEW m \in Modes, Start(m) PROVE PrintersTyped'
  BY <1>20 DEF Start
<1>21. CASE Cancel
  BY <1>21 DEF Cancel
<1>22. CASE UNCHANGED vars
  BY <1>22 DEF vars
<1> QED
  BY <1>1, <1>2, <1>3, <1>4, <1>5, <1>6, <1>7, <1>8, <1>9, <1>10, <1>11, <1>12, <1>13,
     <1>14, <1>15, <1>16, <1>17, <1>18, <1>19, <1>20, <1>21, <1>22
     DEF Next, Klipper, LoopThread

LEMMA StepQueues == PrintersTyped /\ QueuesTyped /\ FlowTyped /\ [Next]_vars => QueuesTyped'
<1> SUFFICES ASSUME PrintersTyped, QueuesTyped, FlowTyped, [Next]_vars PROVE QueuesTyped'
  OBVIOUS
<1> USE DEF PrintersTyped, QueuesTyped, world, panel, flow, notes, vars, Quietly
<1>1. ASSUME NEW f \in Files, SelectElsewhere(f) PROVE QueuesTyped'
  BY <1>1 DEF SelectElsewhere
<1>2. CASE Begins
  BY <1>2 DEF Begins
<1>3. CASE Ends
  BY <1>3 DEF Ends
<1>4. ASSUME NEW m \in Modes, PinElsewhere(m) PROVE QueuesTyped'
  BY <1>4 DEF PinElsewhere
<1>5. ASSUME NEW c \in {"pause", "resume"}, CommandElsewhere(c) PROVE QueuesTyped'
  BY <1>5, NewCommands, AppendFacts DEF CommandElsewhere
<1>6. ASSUME NEW c \in {"pause", "resume"}, RunPause(c) PROVE QueuesTyped'
  BY <1>6, TailFacts DEF RunPause, Runs, AtHead
<1>7. CASE RunScript
  <2>1. Head(gcode) \in Flow
    BY <1>7, HeadIsFlow DEF RunScript, Runs
  <2>2. [kind |-> "ran", start |-> Head(gcode)] \in Messages
    BY <2>1, NewMessages
  <2>3. inbox' \in Seq(Messages) /\ (~up' => inbox' = <<>>)
    BY <1>7, <2>2, AppendFacts DEF RunScript, Runs, Reach
  <2>4. gcode' \in Seq(Commands) /\ pending' = pending
    BY <1>7, TailFacts DEF RunScript, Runs, AtHead
  <2> QED
    BY <2>3, <2>4
<1>8. CASE RunStart
  BY <1>8, TailFacts DEF RunStart, Runs, AtHead
<1>9. CASE StateFollows
  BY <1>9 DEF StateFollows
<1>10. CASE Publish
  BY <1>10, AppendFacts, ReportFacts, NewMessages DEF Publish, Reach
<1>11. ASSUME NEW i \in DOMAIN pending, AnswerMetadata(i) PROVE QueuesTyped'
  BY <1>11, AppendFacts, RemoveFacts, NewMessages DEF AnswerMetadata, Reach
<1>12. CASE Lose
  BY <1>12 DEF Lose
<1>13. CASE Reconnect
  BY <1>13, PrinterFacts, AppendFacts DEF Reconnect, Populate
<1>14. CASE Consume
  <2>1. Merged(Head(inbox).diff, mirror) \in Printer
    BY <1>14, ReportOfHead
  <2>2. inbox' \in Seq(Messages) /\ gcode' = gcode /\ up' = up /\ inbox /= <<>>
    BY <1>14, TailFacts DEF Consume
  <2>3. Merged(Head(inbox).diff, mirror).file \in Files \cup {None}
    BY <2>1, PrinterFacts
  <2>4. pending' \in Seq(Files)
    <3> DEFINE now == Merged(Head(inbox).diff, mirror)
    <3>1. pending' = pending \/ Populate(now)
      BY <1>14 DEF Consume
    <3>2. ASSUME Populate(now) PROVE pending' \in Seq(Files)
      <4> HIDE DEF now
      <4>1. now.file /= None => now.file \in Files
        BY <2>3 DEF now
      <4> QED
        BY <3>2, <4>1, AppendFacts DEF Populate
    <3> QED
      BY <3>1, <3>2
  <2> QED
    BY <2>2, <2>4
<1>15. CASE HandleMetadata
  BY <1>15, TailFacts DEF HandleMetadata
<1>16. CASE HandleRan
  BY <1>16, TailFacts, MessageFacts, CommandFacts, NewCommands, AppendFacts DEF HandleRan
<1>17. CASE Tap
  BY <1>17, NewCommands, AppendFacts DEF Tap, Sent
<1>18. CASE TapMini
  BY <1>18, NewCommands, AppendFacts DEF TapMini, Sent
<1>19. ASSUME NEW f \in Files, Open(f) PROVE QueuesTyped'
  BY <1>19 DEF Open
<1>20. ASSUME NEW m \in Modes, Start(m) PROVE QueuesTyped'
  <2>1. PICK o \in {"script", "start"} :
          Sent([op |-> o, n |-> dialog.n, file |-> dialog.file, chosen |-> m])
    BY <1>20 DEF Start
  <2>2. dialog.n \in 1..Flows /\ dialog.file \in Files
    BY <1>20, PrintAssumption DEF Start, FlowTyped
  <2>3. [op |-> o, n |-> dialog.n, file |-> dialog.file, chosen |-> m] \in Commands
    BY <2>2, NewCommands
  <2>4. gcode' \in Seq(Commands)
    BY <2>1, <2>3, AppendFacts DEF Sent
  <2> QED
    BY <1>20, <2>4 DEF Start
<1>21. CASE Cancel
  BY <1>21 DEF Cancel
<1>22. CASE UNCHANGED vars
  BY <1>22 DEF vars
<1> QED
  BY <1>1, <1>2, <1>3, <1>4, <1>5, <1>6, <1>7, <1>8, <1>9, <1>10, <1>11, <1>12, <1>13,
     <1>14, <1>15, <1>16, <1>17, <1>18, <1>19, <1>20, <1>21, <1>22
     DEF Next, Klipper, LoopThread

LEMMA StepPage == PrintersTyped /\ QueuesTyped /\ PageTyped /\ [Next]_vars => PageTyped'
<1> SUFFICES ASSUME PrintersTyped, QueuesTyped, PageTyped, [Next]_vars PROVE PageTyped'
  OBVIOUS
<1> USE DEF PageTyped, world, panel, flow, notes, vars, Quietly
<1>1. ASSUME NEW f \in Files, SelectElsewhere(f) PROVE PageTyped'
  BY <1>1 DEF SelectElsewhere
<1>2. CASE Begins
  BY <1>2 DEF Begins
<1>3. CASE Ends
  BY <1>3 DEF Ends
<1>4. ASSUME NEW m \in Modes, PinElsewhere(m) PROVE PageTyped'
  BY <1>4 DEF PinElsewhere
<1>5. ASSUME NEW c \in {"pause", "resume"}, CommandElsewhere(c) PROVE PageTyped'
  BY <1>5 DEF CommandElsewhere
<1>6. ASSUME NEW c \in {"pause", "resume"}, RunPause(c) PROVE PageTyped'
  BY <1>6 DEF RunPause, Runs
<1>7. CASE RunScript
  BY <1>7 DEF RunScript, Runs
<1>8. CASE RunStart
  BY <1>8 DEF RunStart, Runs
<1>9. CASE StateFollows
  BY <1>9 DEF StateFollows
<1>10. CASE Publish
  BY <1>10 DEF Publish
<1>11. ASSUME NEW i \in DOMAIN pending, AnswerMetadata(i) PROVE PageTyped'
  BY <1>11 DEF AnswerMetadata
<1>12. CASE Lose
  BY <1>12 DEF Lose
<1>13. CASE Reconnect
  BY <1>13, PrinterFacts DEF Reconnect, PrintersTyped, Populate, UpdatePauseResume
<1>14. CASE Consume
  <2> DEFINE now == Merged(Head(inbox).diff, mirror)
  <2>1. now \in Printer
    BY <1>14, ReportOfHead DEF Consume
  <2>2. now.file \in Files \cup {None} /\ now.state \in States /\ now.paused \in BOOLEAN
    BY <2>1, PrinterFacts
  <2>3. label' \in Files \cup {None} /\ estimate' \in Files \cup {None}
    BY <1>14, <2>2 DEF Consume, Populate
  <2>4. status' \in {Text(s) : s \in States}
    <3>1. "ready" = Text("standby") /\ "standby" \in States
      BY DEF Text, States
    <3> QED
      BY <1>14, <2>2, <3>1 DEF Consume
  <2>5. \/ resume' = resume /\ disabled' = disabled
        \/ /\ disabled' = {}
           /\ resume' = now.paused \/ resume' = (now.state = "paused")
    BY <1>14 DEF Consume, UpdatePauseResume
  <2>6. up' = up /\ active' \in BOOLEAN
    <3>1. \/ active' = active
          \/ active' = (now.state \in Running)
          \/ active' = (active \/ now.file /= None)
      BY <1>14, Zenon DEF Consume
    <3>2. active \in BOOLEAN
      OBVIOUS
    <3>3. active' \in BOOLEAN
      <4> HIDE DEF PageTyped, now
      <4>1. CASE active' = active
        BY <3>2, <4>1
      <4>2. CASE active' = (now.state \in Running)
        BY <4>2
      <4>3. CASE active' = (active \/ now.file /= None)
        BY <4>3
      <4> QED
        BY <3>1, <4>1, <4>2, <4>3
    <3> QED
      BY <1>14, <3>3 DEF Consume
  <2>7. resume' \in BOOLEAN
    BY <2>2, <2>5
  <2>8. disabled' \subseteq {IF resume' THEN "resume" ELSE "pause"}
    <3>1. CASE resume' = resume /\ disabled' = disabled
      BY <3>1
    <3>2. CASE disabled' = {}
      BY <3>2
    <3> QED
      BY <2>5, <3>1, <3>2
  <2> QED
    BY <2>3, <2>4, <2>6, <2>7, <2>8
<1>15. CASE HandleMetadata
  BY <1>15, TailFacts, MessageFacts DEF HandleMetadata, QueuesTyped
<1>16. CASE HandleRan
  BY <1>16 DEF HandleRan
<1>17. CASE Tap
  BY <1>17 DEF Tap
<1>18. CASE TapMini
  BY <1>18 DEF TapMini
<1>19. ASSUME NEW f \in Files, Open(f) PROVE PageTyped'
  BY <1>19 DEF Open
<1>20. ASSUME NEW m \in Modes, Start(m) PROVE PageTyped'
  BY <1>20 DEF Start
<1>21. CASE Cancel
  BY <1>21 DEF Cancel
<1>22. CASE UNCHANGED vars
  BY <1>22 DEF vars
<1> QED
  BY <1>1, <1>2, <1>3, <1>4, <1>5, <1>6, <1>7, <1>8, <1>9, <1>10, <1>11, <1>12, <1>13,
     <1>14, <1>15, <1>16, <1>17, <1>18, <1>19, <1>20, <1>21, <1>22
     DEF Next, Klipper, LoopThread

LEMMA StepFlow == FlowTyped /\ [Next]_vars => FlowTyped'
<1> SUFFICES ASSUME FlowTyped, [Next]_vars PROVE FlowTyped'
  OBVIOUS
<1> USE DEF FlowTyped, world, panel, flow, notes, vars, Quietly
<1>1. ASSUME NEW f \in Files, SelectElsewhere(f) PROVE FlowTyped'
  BY <1>1 DEF SelectElsewhere
<1>2. CASE Begins
  BY <1>2 DEF Begins
<1>3. CASE Ends
  BY <1>3 DEF Ends
<1>4. ASSUME NEW m \in Modes, PinElsewhere(m) PROVE FlowTyped'
  BY <1>4 DEF PinElsewhere
<1>5. ASSUME NEW c \in {"pause", "resume"}, CommandElsewhere(c) PROVE FlowTyped'
  BY <1>5 DEF CommandElsewhere
<1>6. ASSUME NEW c \in {"pause", "resume"}, RunPause(c) PROVE FlowTyped'
  BY <1>6 DEF RunPause, Runs
<1>7. CASE RunScript
  BY <1>7 DEF RunScript, Runs
<1>8. CASE RunStart
  BY <1>8 DEF RunStart, Runs
<1>9. CASE StateFollows
  BY <1>9 DEF StateFollows
<1>10. CASE Publish
  BY <1>10 DEF Publish
<1>11. ASSUME NEW i \in DOMAIN pending, AnswerMetadata(i) PROVE FlowTyped'
  BY <1>11 DEF AnswerMetadata
<1>12. CASE Lose
  BY <1>12 DEF Lose
<1>13. CASE Reconnect
  BY <1>13 DEF Reconnect
<1>14. CASE Consume
  BY <1>14 DEF Consume
<1>15. CASE HandleMetadata
  BY <1>15 DEF HandleMetadata
<1>16. CASE HandleRan
  BY <1>16 DEF HandleRan
<1>17. CASE Tap
  BY <1>17 DEF Tap
<1>18. CASE TapMini
  BY <1>18 DEF TapMini
<1>19. ASSUME NEW f \in Files, Open(f) PROVE FlowTyped'
  <2>1. /\ opened + 1 \in 1..(opened + 1) /\ opened + 1 \in 0..Flows
        /\ 1..opened \subseteq 1..(opened + 1)
    BY <1>19, PrintAssumption DEF Open
  <2>2. opened' = opened + 1 /\ clean' \subseteq 1..opened'
    BY <1>19, <2>1 DEF Open
  <2>3. dialog'.n = opened + 1 /\ dialog'.file = f
    BY <1>19 DEF Open
  <2> QED
    BY <2>1, <2>2, <2>3
<1>20. ASSUME NEW m \in Modes, Start(m) PROVE FlowTyped'
  BY <1>20 DEF Start
<1>21. CASE Cancel
  BY <1>21 DEF Cancel
<1>22. CASE UNCHANGED vars
  BY <1>22 DEF vars
<1> QED
  BY <1>1, <1>2, <1>3, <1>4, <1>5, <1>6, <1>7, <1>8, <1>9, <1>10, <1>11, <1>12, <1>13,
     <1>14, <1>15, <1>16, <1>17, <1>18, <1>19, <1>20, <1>21, <1>22
     DEF Next, Klipper, LoopThread

LEMMA StepType == TypeOK /\ [Next]_vars => TypeOK'
<1>1. ASSUME TypeOK, [Next]_vars PROVE PrintersTyped' /\ QueuesTyped' /\ PageTyped' /\ FlowTyped'
  BY <1>1, TypeParts, StepPrinters, StepQueues, StepPage, StepFlow
<1>2. ASSUME PrintersTyped' /\ QueuesTyped' /\ PageTyped' /\ FlowTyped' PROVE TypeOK'
  BY <1>2 DEF TypeOK, PrintersTyped, QueuesTyped, PageTyped, FlowTyped
<1> QED
  BY <1>1, <1>2
-----------------------------------------------------------------------------
(* Reports on their way. *)

LEMMA FollowsTail ==
  ASSUME NEW S, NEW q \in Seq(S), q /= <<>>, NEW f, NEW t, NEW m, Follows(q, f, t, m)
  PROVE  Follows(Tail(q), f, t, IF Tells(Head(q), f) THEN Head(q).diff[f] ELSE m)
<1> DEFINE r == Tail(q)
<1>1. ASSUME NEW i \in DOMAIN r, LastTells(r, i, f) PROVE r[i].diff[f] = t
  <2>1. i + 1 \in DOMAIN q /\ r[i] = q[i + 1] /\ Tells(q[i + 1], f) /\ i \in Nat
    BY <1>1, TailFacts DEF LastTells
  <2>2. ASSUME NEW j \in DOMAIN q, j > i + 1 PROVE ~Tells(q[j], f)
    <3>1. j > 1 /\ j - 1 > i
      BY <2>1, <2>2
    <3>2. j - 1 \in DOMAIN r /\ r[j - 1] = q[j]
      BY <3>1, TailFacts
    <3> QED
      BY <1>1, <3>1, <3>2 DEF LastTells
  <2>3. LastTells(q, i + 1, f)
    BY <2>1, <2>2 DEF LastTells
  <2> QED
    BY <2>1, <2>3 DEF Follows
<1>2. ASSUME \A i \in DOMAIN r : ~Tells(r[i], f)
      PROVE  (IF Tells(Head(q), f) THEN Head(q).diff[f] ELSE m) = t
  <2>1. \A j \in DOMAIN q : j > 1 => ~Tells(q[j], f)
    BY <1>2, TailFacts
  <2>2. CASE Tells(Head(q), f)
    <3>1. LastTells(q, 1, f) /\ 1 \in DOMAIN q /\ q[1] = Head(q)
      BY <2>1, <2>2, TailFacts DEF LastTells
    <3> QED
      BY <2>2, <3>1 DEF Follows
  <2>3. CASE ~Tells(Head(q), f)
    <3>1. \A j \in DOMAIN q : j = 1 \/ j > 1
      OBVIOUS
    <3>2. \A j \in DOMAIN q : ~Tells(q[j], f)
      BY <2>1, <2>3, <3>1, TailFacts
    <3> QED
      BY <2>3, <3>2 DEF Follows
  <2> QED
    BY <2>2, <2>3
<1> QED
  BY <1>1, <1>2, Zenon DEF Follows

LEMMA FollowsTold ==
  ASSUME NEW S, NEW q \in Seq(S), NEW x \in S, NEW f, NEW m, Tells(x, f)
  PROVE  Follows(Append(q, x), f, x.diff[f], m)
<1> DEFINE r == Append(q, x)
<1>1. Len(q) + 1 \in DOMAIN r /\ r[Len(q) + 1] = x
  BY AppendFacts
<1>2. ASSUME NEW i \in DOMAIN r, LastTells(r, i, f) PROVE r[i].diff[f] = x.diff[f]
  <2>1. ~(Len(q) + 1 > i)
    BY <1>1, <1>2 DEF LastTells
  <2>2. i = Len(q) + 1
    BY <2>1, AppendFacts
  <2> QED
    BY <1>1, <2>2
<1> QED
  BY <1>1, <1>2 DEF Follows

LEMMA FollowsOther ==
  ASSUME NEW S, NEW q \in Seq(S), NEW x \in S, NEW f, NEW t, NEW m,
         ~Tells(x, f), Follows(q, f, t, m)
  PROVE  Follows(Append(q, x), f, t, m)
<1> DEFINE r == Append(q, x)
<1>1. ASSUME NEW i \in DOMAIN r, LastTells(r, i, f) PROVE r[i].diff[f] = t
  <2>1. i \in DOMAIN q
    BY <1>1, AppendFacts DEF LastTells
  <2>2. LastTells(q, i, f) /\ r[i] = q[i]
    BY <1>1, <2>1, AppendFacts DEF LastTells
  <2> QED
    BY <2>1, <2>2 DEF Follows
<1>2. ASSUME \A i \in DOMAIN r : ~Tells(r[i], f) PROVE m = t
  BY <1>2, AppendFacts DEF Follows
<1> QED
  BY <1>1, <1>2 DEF Follows

LEMMA AnswersTail ==
  ASSUME NEW S, NEW q \in Seq(S), q /= <<>>, NEW file, NEW ok, NEW e, AnswersFor(q, file, ok, e)
  PROVE  /\ Answers(Head(q)) => AnswersFor(Tail(q), file, Head(q).ok,
                                           IF Head(q).ok THEN Head(q).file ELSE e)
         /\ ~Answers(Head(q)) => AnswersFor(Tail(q), file, ok, e)
<1> DEFINE r == Tail(q)
<1>1. ASSUME NEW i \in DOMAIN r, LastAnswers(r, i) PROVE r[i].file = file
  <2>1. i + 1 \in DOMAIN q /\ r[i] = q[i + 1] /\ Answers(q[i + 1]) /\ i \in Nat
    BY <1>1, TailFacts DEF LastAnswers
  <2>2. ASSUME NEW j \in DOMAIN q, j > i + 1 PROVE ~Answers(q[j])
    <3>1. j > 1 /\ j - 1 > i
      BY <2>1, <2>2
    <3>2. j - 1 \in DOMAIN r /\ r[j - 1] = q[j]
      BY <3>1, TailFacts
    <3> QED
      BY <1>1, <3>1, <3>2 DEF LastAnswers
  <2>3. LastAnswers(q, i + 1)
    BY <2>1, <2>2 DEF LastAnswers
  <2> QED
    BY <2>1, <2>3 DEF AnswersFor
<1>2. ASSUME \A i \in DOMAIN r : ~Answers(r[i])
      PROVE  IF Answers(Head(q)) THEN Head(q).file = file ELSE ok => e = file
  <2>1. \A j \in DOMAIN q : j > 1 => ~Answers(q[j])
    BY <1>2, TailFacts
  <2>2. CASE Answers(Head(q))
    <3>1. LastAnswers(q, 1) /\ 1 \in DOMAIN q /\ q[1] = Head(q)
      BY <2>1, <2>2, TailFacts DEF LastAnswers
    <3> QED
      BY <2>2, <3>1 DEF AnswersFor
  <2>3. CASE ~Answers(Head(q))
    <3>1. \A j \in DOMAIN q : j = 1 \/ j > 1
      OBVIOUS
    <3>2. \A j \in DOMAIN q : ~Answers(q[j])
      BY <2>1, <2>3, <3>1, TailFacts
    <3> QED
      BY <2>3, <3>2 DEF AnswersFor
  <2> QED
    BY <2>2, <2>3
<1> QED
  BY <1>1, <1>2, Zenon DEF AnswersFor

LEMMA AnswersAnswered ==
  ASSUME NEW S, NEW q \in Seq(S), NEW x \in S, NEW ok, NEW e, Answers(x)
  PROVE  AnswersFor(Append(q, x), x.file, ok, e)
<1> DEFINE r == Append(q, x)
<1>1. Len(q) + 1 \in DOMAIN r /\ r[Len(q) + 1] = x
  BY AppendFacts
<1>2. ASSUME NEW i \in DOMAIN r, LastAnswers(r, i) PROVE r[i].file = x.file
  <2>1. ~(Len(q) + 1 > i)
    BY <1>1, <1>2 DEF LastAnswers
  <2>2. i = Len(q) + 1
    BY <2>1, AppendFacts
  <2> QED
    BY <1>1, <2>2
<1> QED
  BY <1>1, <1>2 DEF AnswersFor

LEMMA AnswersOther ==
  ASSUME NEW S, NEW q \in Seq(S), NEW x \in S, NEW file, NEW ok, NEW e,
         ~Answers(x), AnswersFor(q, file, ok, e)
  PROVE  AnswersFor(Append(q, x), file, ok, e)
<1> DEFINE r == Append(q, x)
<1>1. ASSUME NEW i \in DOMAIN r, LastAnswers(r, i) PROVE r[i].file = file
  <2>1. i \in DOMAIN q
    BY <1>1, AppendFacts DEF LastAnswers
  <2>2. LastAnswers(q, i) /\ r[i] = q[i]
    BY <1>1, <2>1, AppendFacts DEF LastAnswers
  <2> QED
    BY <2>1, <2>2 DEF AnswersFor
<1>2. ASSUME \A i \in DOMAIN r : ~Answers(r[i]), ok PROVE e = file
  BY <1>2, AppendFacts DEF AnswersFor
<1> QED
  BY <1>1, <1>2 DEF AnswersFor

LEMMA HoldsTail ==
  ASSUME NEW S, NEW q \in Seq(S), q /= <<>>, NEW c
  PROVE  /\ Holds(Tail(q), c) => Holds(q, c)
         /\ Ran(Tail(q), c) => Ran(q, c)
         /\ Holds(q, Head(q))
         /\ Head(q).kind = "ran" => Ran(q, Head(q).start)
  BY TailFacts DEF Holds, Ran

LEMMA HoldsAppend ==
  ASSUME NEW S, NEW q \in Seq(S), NEW x \in S, NEW c
  PROVE  /\ Holds(Append(q, x), c) => Holds(q, c) \/ c = x
         /\ Ran(Append(q, x), c) => Ran(q, c) \/ (x.kind = "ran" /\ c = x.start)
  BY AppendFacts DEF Holds, Ran
-----------------------------------------------------------------------------
(* The page catches up. *)

LEMMA StepMirror ==
  PrintersTyped /\ QueuesTyped /\ MirrorFollows /\ [Next]_vars => MirrorFollows'
<1> SUFFICES ASSUME PrintersTyped, QueuesTyped, MirrorFollows, [Next]_vars PROVE MirrorFollows'
  OBVIOUS
<1> USE DEF world, panel, flow, notes, vars, Quietly
<1>1. ASSUME NEW f \in Files, SelectElsewhere(f) PROVE MirrorFollows'
  BY <1>1 DEF SelectElsewhere, MirrorFollows
<1>2. CASE Begins
  BY <1>2 DEF Begins, MirrorFollows
<1>3. CASE Ends
  BY <1>3 DEF Ends, MirrorFollows
<1>4. ASSUME NEW m \in Modes, PinElsewhere(m) PROVE MirrorFollows'
  BY <1>4 DEF PinElsewhere, MirrorFollows
<1>5. ASSUME NEW c \in {"pause", "resume"}, CommandElsewhere(c) PROVE MirrorFollows'
  BY <1>5 DEF CommandElsewhere, MirrorFollows
<1>6. ASSUME NEW c \in {"pause", "resume"}, RunPause(c) PROVE MirrorFollows'
  BY <1>6 DEF RunPause, Runs, MirrorFollows
<1>7. CASE RunScript
  <2>1. [kind |-> "ran", start |-> Head(gcode)] \in Messages
    BY <1>7, HeadIsFlow, NewMessages DEF RunScript, Runs, QueuesTyped
  <2>2. inbox' = inbox \/ inbox' = Append(inbox, [kind |-> "ran", start |-> Head(gcode)])
    BY <1>7 DEF RunScript, Reach
  <2>3. ASSUME NEW f \in Fields PROVE up => Follows(inbox', f, told[f], mirror[f])
    <3>1. ~Tells([kind |-> "ran", start |-> Head(gcode)], f)
      BY DEF Tells
    <3> QED
      BY <2>1, <2>2, <2>3, <3>1, FollowsOther DEF MirrorFollows, QueuesTyped
  <2> QED
    BY <1>7, <2>3 DEF RunScript, Runs, MirrorFollows
<1>8. CASE RunStart
  BY <1>8 DEF RunStart, Runs, MirrorFollows
<1>9. CASE StateFollows
  BY <1>9 DEF StateFollows, MirrorFollows
<1>10. CASE Publish
  <2> DEFINE d == [f \in {g \in Fields : printer[g] /= told[g]} |-> printer[f]]
             x == [kind |-> "status", diff |-> d]
  <2>1. d \in Diffs
    BY ReportFacts DEF PrintersTyped
  <2>2. x \in Messages /\ inbox \in Seq(Messages)
    BY <2>1, NewMessages DEF QueuesTyped
  <2>3. inbox' = Append(inbox, x) /\ up /\ up' = up /\ told' = printer /\ mirror' = mirror
    BY <1>10 DEF Publish, Reach
  <2>4. ASSUME NEW f \in Fields PROVE Follows(Append(inbox, x), f, printer[f], mirror[f])
    <3>1. CASE printer[f] /= told[f]
      <4>1. Tells(x, f) /\ x.diff[f] = printer[f]
        BY <3>1 DEF Tells
      <4> HIDE DEF x, d
      <4> QED
        BY <2>2, <4>1, FollowsTold
    <3>2. CASE printer[f] = told[f]
      <4>1. ~Tells(x, f)
        BY <3>2 DEF Tells
      <4>2. Follows(inbox, f, told[f], mirror[f])
        BY <2>3 DEF MirrorFollows
      <4> HIDE DEF x, d
      <4> QED
        BY <2>2, <3>2, <4>1, <4>2, FollowsOther
    <3> QED
      BY <3>1, <3>2
  <2> HIDE DEF x
  <2> QED
    BY <2>3, <2>4 DEF MirrorFollows
<1>11. ASSUME NEW i \in DOMAIN pending, AnswerMetadata(i) PROVE MirrorFollows'
  <2>1. PICK ok \in BOOLEAN : Reach([kind |-> "metadata", file |-> pending[i], ok |-> ok])
    BY <1>11 DEF AnswerMetadata
  <2> DEFINE x == [kind |-> "metadata", file |-> pending[i], ok |-> ok]
  <2>2. x \in Messages /\ inbox \in Seq(Messages)
    BY <1>11, RemoveFacts, NewMessages DEF AnswerMetadata, QueuesTyped
  <2>3. inbox' = Append(inbox, x) /\ up /\ up' = up /\ told' = told /\ mirror' = mirror
    BY <1>11, <2>1 DEF AnswerMetadata, Reach
  <2>4. ASSUME NEW f \in Fields PROVE Follows(Append(inbox, x), f, told[f], mirror[f])
    <3>1. ~Tells(x, f) /\ Follows(inbox, f, told[f], mirror[f])
      BY <2>3 DEF Tells, MirrorFollows
    <3> HIDE DEF x
    <3> QED
      BY <2>2, <3>1, FollowsOther
  <2> HIDE DEF x
  <2> QED
    BY <2>3, <2>4 DEF MirrorFollows
<1>12. CASE Lose
  BY <1>12 DEF Lose, MirrorFollows
<1>13. CASE Reconnect
  <2>1. inbox' = <<>> /\ told' = printer /\ mirror' = printer
    BY <1>13 DEF Reconnect, QueuesTyped
  <2> QED
    BY <2>1 DEF MirrorFollows, Follows, LastTells
<1>14. CASE Consume
  <2> DEFINE x == Head(inbox)
             now == Merged(x.diff, mirror)
  <2>1. inbox /= <<>> /\ inbox \in Seq(Messages) /\ x.kind = "status"
    BY <1>14 DEF Consume, QueuesTyped
  <2>2. inbox' = Tail(inbox) /\ told' = told /\ mirror' = now /\ up' = up
    BY <1>14 DEF Consume
  <2>3. ASSUME NEW f \in Fields, up PROVE Follows(Tail(inbox), f, told[f], now[f])
    <3>1. Follows(inbox, f, told[f], mirror[f])
      BY <2>3 DEF MirrorFollows
    <3>2. Follows(Tail(inbox), f, told[f], IF Tells(x, f) THEN x.diff[f] ELSE mirror[f])
      BY <2>1, <3>1, FollowsTail
    <3>3. now[f] = IF Tells(x, f) THEN x.diff[f] ELSE mirror[f]
      BY <2>1, ReportOfHead, <1>14, MergedFacts DEF Tells, PrintersTyped
    <3> QED
      BY <3>2, <3>3
  <2> HIDE DEF now
  <2> QED
    BY <2>2, <2>3 DEF MirrorFollows
<1>15. CASE HandleMetadata
  <2>1. inbox /= <<>> /\ inbox \in Seq(Messages) /\ Head(inbox).kind = "metadata"
    BY <1>15 DEF HandleMetadata, QueuesTyped
  <2>2. inbox' = Tail(inbox) /\ told' = told /\ mirror' = mirror /\ up' = up
    BY <1>15 DEF HandleMetadata
  <2>3. ASSUME NEW f \in Fields, up PROVE Follows(Tail(inbox), f, told[f], mirror[f])
    <3>1. Follows(inbox, f, told[f], mirror[f]) /\ ~Tells(Head(inbox), f)
      BY <2>1, <2>3 DEF MirrorFollows, Tells
    <3> QED
      BY <2>1, <3>1, FollowsTail
  <2> QED
    BY <2>2, <2>3 DEF MirrorFollows
<1>16. CASE HandleRan
  <2>1. inbox /= <<>> /\ inbox \in Seq(Messages) /\ Head(inbox).kind = "ran"
    BY <1>16 DEF HandleRan, QueuesTyped
  <2>2. inbox' = Tail(inbox) /\ told' = told /\ mirror' = mirror /\ up' = up
    BY <1>16 DEF HandleRan
  <2>3. ASSUME NEW f \in Fields, up PROVE Follows(Tail(inbox), f, told[f], mirror[f])
    <3>1. Follows(inbox, f, told[f], mirror[f]) /\ ~Tells(Head(inbox), f)
      BY <2>1, <2>3 DEF MirrorFollows, Tells
    <3> QED
      BY <2>1, <3>1, FollowsTail
  <2> QED
    BY <2>2, <2>3 DEF MirrorFollows
<1>17. CASE Tap
  BY <1>17 DEF Tap, MirrorFollows
<1>18. CASE TapMini
  BY <1>18 DEF TapMini, MirrorFollows
<1>19. ASSUME NEW f \in Files, Open(f) PROVE MirrorFollows'
  BY <1>19 DEF Open, MirrorFollows
<1>20. ASSUME NEW m \in Modes, Start(m) PROVE MirrorFollows'
  BY <1>20 DEF Start, MirrorFollows
<1>21. CASE Cancel
  BY <1>21 DEF Cancel, MirrorFollows
<1>22. CASE UNCHANGED vars
  BY <1>22 DEF vars, MirrorFollows
<1> QED
  BY <1>1, <1>2, <1>3, <1>4, <1>5, <1>6, <1>7, <1>8, <1>9, <1>10, <1>11, <1>12, <1>13,
     <1>14, <1>15, <1>16, <1>17, <1>18, <1>19, <1>20, <1>21, <1>22
     DEF Next, Klipper, LoopThread

LEMMA StepPageShows ==
  PrintersTyped /\ QueuesTyped /\ PageFollows /\ [Next]_vars => PageFollows'
<1> SUFFICES ASSUME PrintersTyped, QueuesTyped, PageFollows, [Next]_vars PROVE PageFollows'
  OBVIOUS
<1> USE DEF world, panel, flow, notes, vars, Quietly
<1>1. ASSUME NEW f \in Files, SelectElsewhere(f) PROVE PageFollows'
  BY <1>1, Zenon DEF SelectElsewhere, PageFollows
<1>2. CASE Begins
  BY <1>2, Zenon DEF Begins, PageFollows
<1>3. CASE Ends
  BY <1>3, Zenon DEF Ends, PageFollows
<1>4. ASSUME NEW m \in Modes, PinElsewhere(m) PROVE PageFollows'
  BY <1>4, Zenon DEF PinElsewhere, PageFollows
<1>5. ASSUME NEW c \in {"pause", "resume"}, CommandElsewhere(c) PROVE PageFollows'
  BY <1>5, Zenon DEF CommandElsewhere, PageFollows
<1>6. ASSUME NEW c \in {"pause", "resume"}, RunPause(c) PROVE PageFollows'
  BY <1>6, Zenon DEF RunPause, Runs, PageFollows
<1>7. CASE RunScript
  BY <1>7, Zenon DEF RunScript, Runs, PageFollows
<1>8. CASE RunStart
  BY <1>8, Zenon DEF RunStart, Runs, PageFollows
<1>9. CASE StateFollows
  BY <1>9, Zenon DEF StateFollows, PageFollows
<1>10. CASE Publish
  BY <1>10, Zenon DEF Publish, PageFollows
<1>11. ASSUME NEW i \in DOMAIN pending, AnswerMetadata(i) PROVE PageFollows'
  BY <1>11, Zenon DEF AnswerMetadata, PageFollows
<1>12. CASE Lose
  BY <1>12, Zenon DEF Lose, PageFollows
<1>13. CASE Reconnect
  <2>1. mirror' = printer /\ label' = printer.file /\ status' = Text(printer.state)
        /\ active' = (printer.state \in Running)
    BY <1>13, Zenon DEF Reconnect, Populate
  <2>2. ~split' => resume' = printer.paused
    <3>1. /\ resume' = (printer.state = "paused")
          /\ split' = (printer.paused /= (printer.state = "paused"))
      BY <1>13, Zenon DEF Reconnect, UpdatePauseResume
    <3> QED
      BY <3>1, Zenon
  <2> QED
    BY <2>1, <2>2, Zenon DEF PageFollows
<1>14. CASE Consume
  <2> DEFINE now == Merged(Head(inbox).diff, mirror)
             d == Head(inbox).diff
  <2>1. /\ Head(inbox).diff \in Diffs /\ now \in Printer /\ mirror \in Printer
        /\ \A f \in Fields : now[f] = IF f \in DOMAIN d THEN d[f] ELSE mirror[f]
    BY <1>14, ReportOfHead, MergedFacts DEF PrintersTyped
  <2>2. /\ "file" \notin DOMAIN d => now.file = mirror.file
        /\ "state" \notin DOMAIN d => now.state = mirror.state
        /\ "paused" \notin DOMAIN d => now.paused = mirror.paused
    BY <2>1 DEF Fields
  <2>3. now.paused \in BOOLEAN
    BY <2>1, PrinterFacts
  <2>4. mirror' = now
    BY <1>14 DEF Consume
  <2>5. label' = now.file
    <3>1. CASE "file" \in DOMAIN d
      BY <1>14, <3>1 DEF Consume, Populate
    <3>2. CASE "file" \notin DOMAIN d
      BY <1>14, <2>2, <3>2 DEF Consume, PageFollows
    <3> QED
      BY <3>1, <3>2
  <2>6. ~bare' => status' = Text(now.state) /\ active' = (now.state \in Running)
    <3>1. CASE "state" \in DOMAIN d
      BY <1>14, <3>1, Zenon DEF Consume
    <3>2. CASE "state" \notin DOMAIN d /\ "file" \in DOMAIN d
      BY <1>14, <3>2, Zenon DEF Consume
    <3>3. CASE "state" \notin DOMAIN d /\ "file" \notin DOMAIN d
      <4>1. bare' = bare /\ status' = status /\ active' = active
        BY <1>14, <3>3, Zenon DEF Consume
      <4>2. now.state = mirror.state
        BY <2>2, <3>3
      <4> HIDE DEF now
      <4> QED
        BY <4>1, <4>2, Zenon DEF PageFollows
    <3> QED
      BY <3>1, <3>2, <3>3
  <2>7. ~split' => resume' = now.paused
    <3>1. CASE "paused" \in DOMAIN d
      BY <1>14, <3>1, Zenon DEF Consume, UpdatePauseResume
    <3>2. CASE "paused" \notin DOMAIN d /\ "file" \in DOMAIN d
      <4>1. resume' = (now.state = "paused") /\ split' = (now.paused /= (now.state = "paused"))
        BY <1>14, <3>2, Zenon DEF Consume, UpdatePauseResume
      <4> HIDE DEF now
      <4> QED
        BY <4>1, Zenon
    <3>3. CASE "paused" \notin DOMAIN d /\ "file" \notin DOMAIN d
      <4>1. split' = split /\ resume' = resume
        BY <1>14, <3>3, Zenon DEF Consume
      <4>2. now.paused = mirror.paused
        BY <2>2, <3>3
      <4> HIDE DEF now
      <4> QED
        BY <4>1, <4>2, Zenon DEF PageFollows
    <3> QED
      BY <3>1, <3>2, <3>3
  <2> HIDE DEF now
  <2> QED
    BY <2>4, <2>5, <2>6, <2>7, Zenon DEF PageFollows
<1>15. CASE HandleMetadata
  BY <1>15, Zenon DEF HandleMetadata, PageFollows
<1>16. CASE HandleRan
  BY <1>16, Zenon DEF HandleRan, PageFollows
<1>17. CASE Tap
  BY <1>17, Zenon DEF Tap, PageFollows
<1>18. CASE TapMini
  BY <1>18, Zenon DEF TapMini, PageFollows
<1>19. ASSUME NEW f \in Files, Open(f) PROVE PageFollows'
  BY <1>19, Zenon DEF Open, PageFollows
<1>20. ASSUME NEW m \in Modes, Start(m) PROVE PageFollows'
  BY <1>20, Zenon DEF Start, PageFollows
<1>21. CASE Cancel
  BY <1>21, Zenon DEF Cancel, PageFollows
<1>22. CASE UNCHANGED vars
  BY <1>22, Zenon DEF vars, PageFollows
<1> QED
  BY <1>1, <1>2, <1>3, <1>4, <1>5, <1>6, <1>7, <1>8, <1>9, <1>10, <1>11, <1>12, <1>13,
     <1>14, <1>15, <1>16, <1>17, <1>18, <1>19, <1>20, <1>21, <1>22
     DEF Next, Klipper, LoopThread
-----------------------------------------------------------------------------
(* The estimate is of the file the page shows. *)

LEMMA PopulateAsks ==
  ASSUME QueuesTyped, NEW p \in Printer, Populate(p)
  PROVE  EstimateFollows'
<1>1. label' = p.file /\ p.file \in Files \cup {None}
  BY PrinterFacts DEF Populate
<1>2. CASE p.file = None
  BY <1>1, <1>2 DEF EstimateFollows
<1>3. CASE p.file /= None
  <2>1. pending' = Append(pending, p.file) /\ p.file \in Files /\ pending \in Seq(Files)
    BY <1>1, <1>3 DEF Populate, QueuesTyped
  <2>2. pending' /= <<>> /\ pending'[Len(pending')] = p.file
    BY <2>1
  <2> QED
    BY <1>1, <2>2 DEF EstimateFollows
<1> QED
  BY <1>2, <1>3

LEMMA QueueOfOthers ==
  ASSUME QueuesTyped, EstimateFollows, UNCHANGED <<up, crossed, label, pending, lastOk, estimate>>,
         \/ inbox /= <<>> /\ ~Answers(Head(inbox)) /\ inbox' = Tail(inbox)
         \/ inbox' = inbox
         \/ \E x \in Messages : ~Answers(x) /\ inbox' = Append(inbox, x)
  PROVE  EstimateFollows'
<1>1. ASSUME AnswersFor(inbox, label, lastOk, estimate)
      PROVE  AnswersFor(inbox', label, lastOk, estimate)
  <2>1. CASE inbox /= <<>> /\ ~Answers(Head(inbox)) /\ inbox' = Tail(inbox)
    BY <1>1, <2>1, AnswersTail DEF QueuesTyped
  <2>2. CASE \E x \in Messages : ~Answers(x) /\ inbox' = Append(inbox, x)
    BY <1>1, <2>2, AnswersOther DEF QueuesTyped
  <2> QED
    BY <1>1, <2>1, <2>2
<1> QED
  BY <1>1 DEF EstimateFollows

LEMMA StepEstimate ==
  PrintersTyped /\ QueuesTyped /\ EstimateFollows /\ [Next]_vars => EstimateFollows'
<1> SUFFICES ASSUME PrintersTyped, QueuesTyped, EstimateFollows, [Next]_vars PROVE EstimateFollows'
  OBVIOUS
<1> USE DEF world, panel, flow, notes, vars, Quietly
<1>1. ASSUME NEW f \in Files, SelectElsewhere(f) PROVE EstimateFollows'
  BY <1>1 DEF SelectElsewhere, EstimateFollows
<1>2. CASE Begins
  BY <1>2 DEF Begins, EstimateFollows
<1>3. CASE Ends
  BY <1>3 DEF Ends, EstimateFollows
<1>4. ASSUME NEW m \in Modes, PinElsewhere(m) PROVE EstimateFollows'
  BY <1>4 DEF PinElsewhere, EstimateFollows
<1>5. ASSUME NEW c \in {"pause", "resume"}, CommandElsewhere(c) PROVE EstimateFollows'
  BY <1>5 DEF CommandElsewhere, EstimateFollows
<1>6. ASSUME NEW c \in {"pause", "resume"}, RunPause(c) PROVE EstimateFollows'
  BY <1>6 DEF RunPause, Runs, EstimateFollows
<1>7. CASE RunScript
  <2>1. [kind |-> "ran", start |-> Head(gcode)] \in Messages
    BY <1>7, HeadIsFlow, NewMessages DEF RunScript, Runs, QueuesTyped
  <2>2. inbox' = inbox \/ inbox' = Append(inbox, [kind |-> "ran", start |-> Head(gcode)])
    BY <1>7 DEF RunScript, Reach
  <2>3. UNCHANGED <<up, crossed, label, pending, lastOk, estimate>>
    BY <1>7 DEF RunScript, Runs
  <2>4. ~Answers([kind |-> "ran", start |-> Head(gcode)])
    BY DEF Answers
  <2> QED
    BY <2>1, <2>2, <2>3, <2>4, QueueOfOthers
<1>8. CASE RunStart
  BY <1>8 DEF RunStart, Runs, EstimateFollows
<1>9. CASE StateFollows
  BY <1>9 DEF StateFollows, EstimateFollows
<1>10. CASE Publish
  <2> DEFINE d == [f \in {g \in Fields : printer[g] /= told[g]} |-> printer[f]]
             x == [kind |-> "status", diff |-> d]
  <2>1. d \in Diffs
    BY ReportFacts DEF PrintersTyped
  <2>2. x \in Messages /\ ~Answers(x)
    BY <2>1, NewMessages DEF Answers
  <2>3. inbox' = Append(inbox, x)
    BY <1>10 DEF Publish, Reach
  <2>4. UNCHANGED <<up, crossed, label, pending, lastOk, estimate>>
    BY <1>10 DEF Publish
  <2> HIDE DEF x
  <2> QED
    BY <2>2, <2>3, <2>4, QueueOfOthers
<1>11. ASSUME NEW i \in DOMAIN pending, AnswerMetadata(i) PROVE EstimateFollows'
  <2>1. PICK ok \in BOOLEAN : Reach([kind |-> "metadata", file |-> pending[i], ok |-> ok])
    BY <1>11 DEF AnswerMetadata
  <2> DEFINE x == [kind |-> "metadata", file |-> pending[i], ok |-> ok]
  <2>2. x \in Messages /\ Answers(x) /\ x.file = pending[i] /\ inbox \in Seq(Messages)
    BY <1>11, RemoveFacts, NewMessages DEF AnswerMetadata, QueuesTyped, Answers
  <2>3. inbox' = Append(inbox, x) /\ up /\ pending' = RemoveAt(pending, i)
    BY <1>11, <2>1 DEF AnswerMetadata, Reach
  <2>4. UNCHANGED <<up, label, lastOk, estimate>> /\ crossed' = (crossed \/ i > 1)
    BY <1>11 DEF AnswerMetadata
  <2> HIDE DEF x
  <2>5. pending \in Seq(Files) /\ pending /= <<>> /\ Len(pending) \in Nat /\ Len(pending) >= 1
    BY <1>11 DEF AnswerMetadata, QueuesTyped
  <2>6. ASSUME ~crossed', label /= None PROVE i = 1 /\ pending[Len(pending)] = label
    <3>1. ~crossed /\ ~(i > 1)
      BY <2>4, <2>6, Zenon
    <3>2. i = 1
      BY <2>5, <3>1
    <3> QED
      BY <2>3, <2>5, <2>6, <3>1, <3>2 DEF EstimateFollows
  <2>7. ASSUME ~crossed', label /= None, pending' = <<>>
        PROVE  AnswersFor(Append(inbox, x), label, lastOk, estimate)
    <3>1. i = 1 /\ pending[Len(pending)] = label
      BY <2>6, <2>7
    <3>2. Len(RemoveAt(pending, 1)) = Len(pending) - 1
      BY <2>5, RemoveFirstFacts
    <3>3. Len(RemoveAt(pending, 1)) = 0
      <4>1. RemoveAt(pending, 1) = <<>>
        BY <2>3, <2>7, <3>1, Zenon
      <4>2. \A q : q = <<>> => Len(q) = 0
        OBVIOUS
      <4> QED
        BY <4>1, <4>2, Zenon
    <3>4. Len(pending) = 1
      BY <2>5, <3>2, <3>3
    <3>5. x.file = label
      BY <2>2, <3>1, <3>4
    <3> QED
      BY <2>2, <3>5, AnswersAnswered
  <2>8. ASSUME ~crossed', label /= None, pending' /= <<>>
        PROVE  pending'[Len(pending')] = label
    <3>1. i = 1 /\ pending' = RemoveAt(pending, 1) /\ pending' \in Seq(Files)
      BY <2>3, <2>5, <2>6, <2>8, RemoveFacts
    <3>2. Len(pending') = Len(pending) - 1
      BY <2>5, <3>1, RemoveFirstFacts
    <3>3. Len(pending) > 1
      BY <2>5, <2>8, <3>1, <3>2
    <3>4. pending'[Len(pending) - 1] = pending[Len(pending)]
      BY <2>5, <3>1, <3>3, RemoveFirstFacts
    <3> QED
      BY <2>6, <2>8, <3>2, <3>4
  <2> QED
    BY <2>3, <2>4, <2>7, <2>8 DEF EstimateFollows
<1>12. CASE Lose
  BY <1>12 DEF Lose, EstimateFollows
<1>13. CASE Reconnect
  <2>1. Populate(printer) /\ printer \in Printer
    BY <1>13 DEF Reconnect, PrintersTyped
  <2> QED
    BY <2>1, PopulateAsks
<1>14. CASE Consume
  <2>1. inbox /= <<>> /\ ~Answers(Head(inbox)) /\ inbox' = Tail(inbox)
    BY <1>14 DEF Consume, Answers
  <2>2. \/ Populate(Merged(Head(inbox).diff, mirror))
        \/ UNCHANGED <<label, estimate, lastOk, crossed, pending>>
    BY <1>14 DEF Consume
  <2>3. UNCHANGED up
    BY <1>14 DEF Consume
  <2> QED
    BY <1>14, <2>1, <2>2, <2>3, QueueOfOthers, PopulateAsks, ReportOfHead
<1>15. CASE HandleMetadata
  <2>1. inbox /= <<>> /\ Answers(Head(inbox)) /\ inbox' = Tail(inbox)
        /\ lastOk' = Head(inbox).ok
        /\ estimate' = IF Head(inbox).ok THEN Head(inbox).file ELSE estimate
    BY <1>15 DEF HandleMetadata, Answers
  <2>2. UNCHANGED <<up, label, crossed, pending>>
    BY <1>15 DEF HandleMetadata
  <2>3. ASSUME AnswersFor(inbox, label, lastOk, estimate)
        PROVE  AnswersFor(inbox', label, lastOk', estimate')
    BY <2>1, <2>3, AnswersTail DEF QueuesTyped
  <2> QED
    BY <2>2, <2>3 DEF EstimateFollows
<1>16. CASE HandleRan
  <2>1. inbox /= <<>> /\ ~Answers(Head(inbox)) /\ inbox' = Tail(inbox)
    BY <1>16 DEF HandleRan, Answers
  <2>2. UNCHANGED <<up, crossed, label, pending, lastOk, estimate>>
    BY <1>16 DEF HandleRan
  <2> QED
    BY <2>1, <2>2, QueueOfOthers
<1>17. CASE Tap
  BY <1>17 DEF Tap, EstimateFollows
<1>18. CASE TapMini
  BY <1>18 DEF TapMini, EstimateFollows
<1>19. ASSUME NEW f \in Files, Open(f) PROVE EstimateFollows'
  BY <1>19 DEF Open, EstimateFollows
<1>20. ASSUME NEW m \in Modes, Start(m) PROVE EstimateFollows'
  BY <1>20 DEF Start, EstimateFollows
<1>21. CASE Cancel
  BY <1>21 DEF Cancel, EstimateFollows
<1>22. CASE UNCHANGED vars
  BY <1>22 DEF vars, EstimateFollows
<1> QED
  BY <1>1, <1>2, <1>3, <1>4, <1>5, <1>6, <1>7, <1>8, <1>9, <1>10, <1>11, <1>12, <1>13,
     <1>14, <1>15, <1>16, <1>17, <1>18, <1>19, <1>20, <1>21, <1>22
     DEF Next, Klipper, LoopThread
-----------------------------------------------------------------------------
(* The pins of a dialog reach the start of its print. *)

Alike(c, d) == c.n = d.n /\ c.chosen = d.chosen

(* No command of a dialog comes from nowhere.                                *)
KeepsSends == \A c \in Flow : Sends(c)' => \E d \in Flow : Sends(d) /\ Alike(c, d)
KeepsReady == \A c \in Flow : Ready(c)' => \E d \in Flow : Ready(d) /\ Alike(c, d)

LEMMA KeptByQueues ==
  ASSUME QueuesTyped,
         \/ gcode' = gcode
         \/ gcode /= <<>> /\ gcode' = Tail(gcode)
         \/ \E x \in Commands : x \notin Flow /\ gcode' = Append(gcode, x),
         \/ inbox' = inbox \/ inbox' = <<>>
         \/ inbox /= <<>> /\ inbox' = Tail(inbox)
         \/ \E x \in Messages : x.kind /= "ran" /\ inbox' = Append(inbox, x)
  PROVE  KeepsSends /\ KeepsReady
<1>1. ASSUME NEW c \in Flow, Holds(gcode', c) PROVE Holds(gcode, c)
  <2>1. CASE gcode /= <<>> /\ gcode' = Tail(gcode)
    BY <1>1, <2>1, HoldsTail DEF QueuesTyped
  <2>2. CASE \E x \in Commands : x \notin Flow /\ gcode' = Append(gcode, x)
    BY <1>1, <2>2, HoldsAppend DEF QueuesTyped
  <2> QED
    BY <1>1, <2>1, <2>2
<1>2. ASSUME NEW c \in Flow, Ran(inbox', c) PROVE Ran(inbox, c)
  <2>1. CASE inbox /= <<>> /\ inbox' = Tail(inbox)
    BY <1>2, <2>1, HoldsTail DEF QueuesTyped
  <2>2. CASE \E x \in Messages : x.kind /= "ran" /\ inbox' = Append(inbox, x)
    BY <1>2, <2>2, HoldsAppend DEF QueuesTyped
  <2>3. CASE inbox' = <<>>
    BY <1>2, <2>3 DEF Ran
  <2> QED
    BY <1>2, <2>1, <2>2, <2>3
<1>3. ASSUME NEW c \in Flow PROVE /\ Sends(c)' => Sends(c) /\ Alike(c, c)
                                  /\ Ready(c)' => Ready(c) /\ Alike(c, c)
  BY <1>1, <1>2 DEF Sends, Ready, Alike
<1> QED
  BY <1>3 DEF KeepsSends, KeepsReady

LEMMA NotOfDialog ==
  \A c \in {"pause", "resume"} : [op |-> c] \in Commands /\ [op |-> c] \notin Flow
<1>1. \A c \in {"pause", "resume"} : [op |-> c] \in Commands
  BY NewCommands
<1>2. ASSUME NEW c \in {"pause", "resume"}, [op |-> c] \in Flow PROVE FALSE
  <2>1. [op |-> c].op \in {"script", "start"}
    BY <1>2, Zenon DEF Flow
  <2> QED
    BY <2>1
<1> QED
  BY <1>1, <1>2

(* All but the script and a touch of Start keep both.                        *)
LEMMA StepKept == PrintersTyped /\ QueuesTyped /\ [Next]_vars =>
  (KeepsSends /\ KeepsReady) \/ RunScript \/ \E m \in Modes : Start(m)
<1> SUFFICES ASSUME PrintersTyped, QueuesTyped, [Next]_vars PROVE
          (KeepsSends /\ KeepsReady) \/ RunScript \/ \E m \in Modes : Start(m)
  OBVIOUS
<1> USE DEF world, panel, flow, notes, vars, Quietly
<1>1. ASSUME NEW f \in Files, SelectElsewhere(f) PROVE KeepsSends /\ KeepsReady
  BY <1>1, KeptByQueues DEF SelectElsewhere
<1>2. CASE Begins
  BY <1>2, KeptByQueues DEF Begins
<1>3. CASE Ends
  BY <1>3, KeptByQueues DEF Ends
<1>4. ASSUME NEW m \in Modes, PinElsewhere(m) PROVE KeepsSends /\ KeepsReady
  BY <1>4, KeptByQueues DEF PinElsewhere
<1>5. ASSUME NEW c \in {"pause", "resume"}, CommandElsewhere(c) PROVE KeepsSends /\ KeepsReady
  <2>1. gcode' = Append(gcode, [op |-> c]) /\ inbox' = inbox
    BY <1>5 DEF CommandElsewhere
  <2> QED
    BY <2>1, NotOfDialog, KeptByQueues
<1>6. ASSUME NEW c \in {"pause", "resume"}, RunPause(c) PROVE KeepsSends /\ KeepsReady
  BY <1>6, KeptByQueues DEF RunPause, Runs, AtHead
<1>7. CASE RunScript
  BY <1>7
<1>8. CASE RunStart
  BY <1>8, KeptByQueues DEF RunStart, Runs, AtHead
<1>9. CASE StateFollows
  BY <1>9, KeptByQueues DEF StateFollows
<1>10. CASE Publish
  <2> DEFINE d == [f \in {g \in Fields : printer[g] /= told[g]} |-> printer[f]]
             x == [kind |-> "status", diff |-> d]
  <2>1. d \in Diffs
    BY ReportFacts DEF PrintersTyped
  <2>2. x \in Messages /\ x.kind /= "ran"
    BY <2>1, NewMessages
  <2>3. inbox' = Append(inbox, x) /\ gcode' = gcode
    BY <1>10 DEF Publish, Reach
  <2> HIDE DEF x
  <2> QED
    BY <2>2, <2>3, KeptByQueues
<1>11. ASSUME NEW i \in DOMAIN pending, AnswerMetadata(i) PROVE KeepsSends /\ KeepsReady
  <2>1. PICK ok \in BOOLEAN : Reach([kind |-> "metadata", file |-> pending[i], ok |-> ok])
    BY <1>11 DEF AnswerMetadata
  <2> DEFINE x == [kind |-> "metadata", file |-> pending[i], ok |-> ok]
  <2>2. x \in Messages /\ x.kind /= "ran"
    BY <1>11, RemoveFacts, NewMessages DEF AnswerMetadata, QueuesTyped
  <2>3. inbox' = Append(inbox, x) /\ gcode' = gcode
    BY <1>11, <2>1 DEF AnswerMetadata, Reach
  <2> HIDE DEF x
  <2> QED
    BY <2>2, <2>3, KeptByQueues
<1>12. CASE Lose
  BY <1>12, KeptByQueues DEF Lose
<1>13. CASE Reconnect
  BY <1>13, KeptByQueues DEF Reconnect
<1>14. CASE Consume
  BY <1>14, KeptByQueues DEF Consume
<1>15. CASE HandleMetadata
  BY <1>15, KeptByQueues DEF HandleMetadata
<1>16. CASE HandleRan
  <2> DEFINE s == Head(inbox).start
             x == [s EXCEPT !.op = "start"]
  <2>1. inbox /= <<>> /\ Head(inbox).kind = "ran" /\ Head(inbox) \in Messages
    BY <1>16, TailFacts DEF HandleRan, QueuesTyped
  <2>2. s \in Flow /\ Ran(inbox, s)
    BY <2>1, MessageFacts, HoldsTail DEF QueuesTyped
  <2>3. x \in Flow /\ x \in Commands /\ Alike(x, s)
    <3>1. s.op \in {"script", "start"} /\ s \in Commands
      BY <2>2, NewCommands DEF Flow
    <3>2. x \in Flow
      BY <2>2, <3>1, CommandFacts
    <3>3. x.n = s.n /\ x.chosen = s.chosen
      BY <2>2 DEF Flow
    <3> QED
      BY <3>2, <3>3, NewCommands DEF Alike
  <2>4. inbox' = Tail(inbox) /\ gcode' = Append(gcode, x)
    BY <1>16 DEF HandleRan
  <2> HIDE DEF x, s
  <2>5. ASSUME NEW c \in Flow PROVE /\ Holds(gcode', c) => Holds(gcode, c) \/ c = x
                                    /\ Ran(inbox', c) => Ran(inbox, c)
    BY <2>1, <2>3, <2>4, HoldsAppend, HoldsTail DEF QueuesTyped
  <2>6. \A c \in Flow : Alike(c, c)
    BY DEF Alike
  <2>7. KeepsSends
    BY <2>2, <2>3, <2>5, <2>6 DEF KeepsSends, Sends
  <2>8. KeepsReady
    BY <2>2, <2>3, <2>5, <2>6 DEF KeepsReady, Ready
  <2> QED
    BY <2>7, <2>8
<1>17. CASE Tap
  <2>1. PICK c \in {"pause", "resume"} : Sent([op |-> c])
    BY <1>17 DEF Tap
  <2>2. gcode' = gcode \/ gcode' = Append(gcode, [op |-> c])
    BY <2>1 DEF Sent
  <2>3. inbox' = inbox
    BY <1>17 DEF Tap
  <2> QED
    BY <2>2, <2>3, NotOfDialog, KeptByQueues
<1>18. CASE TapMini
  <2>1. PICK c \in {"pause", "resume"} : Sent([op |-> c])
    BY <1>18 DEF TapMini
  <2>2. gcode' = gcode \/ gcode' = Append(gcode, [op |-> c])
    BY <2>1 DEF Sent
  <2>3. inbox' = inbox
    BY <1>18 DEF TapMini
  <2> QED
    BY <2>2, <2>3, NotOfDialog, KeptByQueues
<1>19. ASSUME NEW f \in Files, Open(f) PROVE KeepsSends /\ KeepsReady
  BY <1>19, KeptByQueues DEF Open
<1>20. ASSUME NEW m \in Modes, Start(m) PROVE \E k \in Modes : Start(k)
  BY <1>20
<1>21. CASE Cancel
  BY <1>21, KeptByQueues DEF Cancel
<1>22. CASE UNCHANGED vars
  BY <1>22, KeptByQueues DEF vars
<1> QED
  BY <1>1, <1>2, <1>3, <1>4, <1>5, <1>6, <1>7, <1>8, <1>9, <1>10, <1>11, <1>12, <1>13,
     <1>14, <1>15, <1>16, <1>17, <1>18, <1>19, <1>20, <1>21, <1>22
     DEF Next, Klipper, LoopThread

LEMMA KeptByScript ==
  ASSUME QueuesTyped, RunScript
  PROVE  /\ KeepsSends /\ Head(gcode) \in Flow /\ Sends(Head(gcode))
         /\ \A c \in Flow : Ready(c)' => Ready(c) \/ c = Head(gcode)
<1> DEFINE s == Head(gcode)
           x == [kind |-> "ran", start |-> s]
<1>1. s \in Flow /\ gcode /= <<>>
  BY HeadIsFlow DEF RunScript, Runs, AtHead, QueuesTyped
<1>2. x \in Messages
  BY <1>1, NewMessages
<1>3. gcode' = Tail(gcode) /\ (inbox' = inbox \/ inbox' = Append(inbox, x))
  BY DEF RunScript, Runs, Reach
<1>4. ASSUME NEW c \in Flow
      PROVE  /\ Holds(gcode', c) => Holds(gcode, c)
             /\ Ran(inbox', c) => Ran(inbox, c) \/ c = s
             /\ Holds(gcode, s)
  <2>1. (Holds(gcode', c) => Holds(gcode, c)) /\ Holds(gcode, s)
    BY <1>1, <1>3, HoldsTail DEF QueuesTyped
  <2>2. CASE inbox' = Append(inbox, x)
    <3>1. Ran(Append(inbox, x), c) => Ran(inbox, c) \/ (x.kind = "ran" /\ c = x.start)
      BY <1>2, HoldsAppend DEF QueuesTyped
    <3> QED
      BY <2>1, <2>2, <3>1
  <2> QED
    BY <1>3, <2>1, <2>2
<1> HIDE DEF s
<1>5. \A c \in Flow : Alike(c, c)
  BY DEF Alike
<1> QED
  BY <1>1, <1>4, <1>5 DEF KeepsSends, Sends, Ready, s

LEMMA KeptByStart ==
  ASSUME QueuesTyped, FlowTyped, NEW m \in Modes, Start(m)
  PROVE  \E x \in Flow :
           /\ x.n = dialog.n /\ x.chosen = m /\ (x.op = "start" => m = dialog.was)
           /\ \A c \in Flow : /\ Sends(c)' => Sends(c) \/ c = x
                              /\ Ready(c)' => Ready(c) \/ (c = x /\ x.op = "start")
<1>1. PICK o \in {"script", "start"} :
        /\ Sent([op |-> o, n |-> dialog.n, file |-> dialog.file, chosen |-> m])
        /\ o = "start" => m = dialog.was
  BY DEF Start
<1> DEFINE x == [op |-> o, n |-> dialog.n, file |-> dialog.file, chosen |-> m]
<1>2. dialog.n \in 1..Flows /\ dialog.file \in Files
  BY PrintAssumption DEF Start, FlowTyped
<1>3. x \in Flow /\ x \in Commands
  BY <1>2, NewCommands
<1>4. x.n = dialog.n /\ x.chosen = m /\ x.op = o
  OBVIOUS
<1>5. inbox' = inbox /\ (gcode' = gcode \/ gcode' = Append(gcode, x))
  BY <1>1 DEF Start, Sent
<1> HIDE DEF x
<1>6. ASSUME NEW c \in Flow
      PROVE  (Holds(gcode', c) => Holds(gcode, c) \/ c = x) /\ (Ran(inbox', c) => Ran(inbox, c))
  <2>1. gcode \in Seq(Commands)
    BY DEF QueuesTyped
  <2>2. Holds(Append(gcode, x), c) => Holds(gcode, c) \/ c = x
    BY <1>3, <2>1, HoldsAppend
  <2>3. Holds(gcode', c) => Holds(gcode, c) \/ c = x
    BY <1>5, <2>2
  <2>4. Ran(inbox', c) => Ran(inbox, c)
    BY <1>5
  <2> QED
    BY <2>3, <2>4
<1>7. ASSUME NEW c \in Flow PROVE /\ Sends(c)' => Sends(c) \/ c = x
                                  /\ Ready(c)' => Ready(c) \/ (c = x /\ x.op = "start")
  BY <1>6 DEF Sends, Ready
<1> QED
  BY <1>1, <1>3, <1>4, <1>7

LEMMA StepSentOnce ==
  ASSUME PrintersTyped, QueuesTyped, FlowTyped, SentOnce, [Next]_vars
  PROVE  SentOnce'
<1>1. \A c \in Flow : c.n \in Nat
  BY PrintAssumption DEF Flow
<1>2. opened \in Nat
  BY PrintAssumption DEF FlowTyped
<1>3. CASE \E m \in Modes : Start(m)
  <2>1. PICK m \in Modes : Start(m)
    BY <1>3
  <2>2. PICK x \in Flow : x.n = dialog.n /\ \A c \in Flow : Sends(c)' => Sends(c) \/ c = x
    BY <2>1, KeptByStart
  <2>3. dialog /= NoDialog /\ dialog' = NoDialog /\ opened' = opened /\ dialog.n <= opened
    BY <2>1, <1>2 DEF Start, FlowTyped
  <2>4. \A c \in Flow : Sends(c) => c.n < x.n /\ c.n /= x.n
    BY <1>1, <2>2, <2>3 DEF SentOnce
  <2>5. \A c \in Flow : Sends(c)' => c.n <= opened
    BY <2>2, <2>3 DEF SentOnce
  <2>6. ASSUME NEW c \in Flow, NEW d \in Flow, Sends(c)', Sends(d)', c.n = d.n
        PROVE  c.chosen = d.chosen
    BY <2>2, <2>4, <2>6 DEF SentOnce
  <2> QED
    BY <2>3, <2>5, <2>6 DEF SentOnce
<1>4. CASE KeepsSends
  <2>1. \/ opened' = opened /\ (dialog' = dialog \/ dialog' = NoDialog)
        \/ opened' = opened + 1 /\ dialog'.n = opened + 1
        \/ \E m \in Modes : Start(m)
    <3> USE DEF flow, Quietly
    <3>1. ASSUME NEW f \in Files, Open(f) PROVE opened' = opened + 1 /\ dialog'.n = opened + 1
      BY <3>1 DEF Open
    <3>2. CASE Klipper
      BY <3>2 DEF Klipper, RunPause, RunScript, RunStart, Runs
    <3>3. CASE LoopThread
      BY <3>3 DEF LoopThread, Consume, HandleMetadata, HandleRan
    <3>4. ASSUME NEW f \in Files, SelectElsewhere(f) PROVE UNCHANGED <<dialog, opened>>
      BY <3>4 DEF SelectElsewhere
    <3>5. ASSUME NEW m \in Modes, PinElsewhere(m) PROVE UNCHANGED <<dialog, opened>>
      BY <3>5 DEF PinElsewhere
    <3>6. ASSUME NEW c \in {"pause", "resume"}, CommandElsewhere(c)
          PROVE  UNCHANGED <<dialog, opened>>
      BY <3>6 DEF CommandElsewhere
    <3>7. CASE Begins \/ Ends \/ StateFollows \/ Publish
      BY <3>7 DEF Begins, Ends, StateFollows, Publish
    <3>8. ASSUME NEW i \in DOMAIN pending, AnswerMetadata(i) PROVE UNCHANGED <<dialog, opened>>
      BY <3>8 DEF AnswerMetadata
    <3>9. CASE Lose \/ Reconnect \/ Tap \/ TapMini
      BY <3>9 DEF Lose, Reconnect, Tap, TapMini
    <3>10. CASE Cancel
      BY <3>10 DEF Cancel
    <3>11. CASE UNCHANGED vars
      BY <3>11 DEF vars
    <3> QED
      BY <3>1, <3>2, <3>3, <3>4, <3>5, <3>6, <3>7, <3>8, <3>9, <3>10, <3>11 DEF Next
  <2>2. \A c \in Flow : Sends(c)' => c.n <= opened /\ (dialog /= NoDialog => c.n < dialog.n)
    BY <1>4 DEF KeepsSends, Alike, SentOnce
  <2>3. \A c, d \in Flow : Sends(c)' /\ Sends(d)' /\ c.n = d.n => c.chosen = d.chosen
    BY <1>4 DEF KeepsSends, Alike, SentOnce
  <2>4. CASE opened' = opened /\ (dialog' = dialog \/ dialog' = NoDialog)
    BY <2>2, <2>3, <2>4 DEF SentOnce
  <2>5. CASE opened' = opened + 1 /\ dialog'.n = opened + 1
    <3>1. \A c \in Flow : Sends(c)' => c.n <= opened' /\ c.n < dialog'.n
      BY <1>1, <1>2, <2>2, <2>5
    <3> QED
      BY <2>3, <3>1 DEF SentOnce
  <2> QED
    BY <1>3, <2>1, <2>4, <2>5
<1> QED
  BY <1>3, <1>4, StepKept, KeptByScript

LEMMA PinKept ==
  ASSUME NEW p \in Printer
  PROVE  /\ \A f, t : [p EXCEPT !.file = f, !.state = t].pin = p.pin
         /\ \A f, t, b : [p EXCEPT !.file = f, !.state = t, !.paused = b].pin = p.pin
         /\ \A t : [p EXCEPT !.state = t].pin = p.pin
         /\ \A t, b : [p EXCEPT !.state = t, !.paused = b].pin = p.pin
         /\ \A b : [p EXCEPT !.paused = b].pin = p.pin
         /\ \A m : [p EXCEPT !.pin = m].pin = m
  BY DEF Printer

LEMMA PinsKept ==
  ASSUME PinsChosen, KeepsReady, printer'.pin = printer.pin, clean' \subseteq clean,
         dialog' = dialog \/ dialog' = NoDialog
  PROVE  PinsChosen'
<1>1. ASSUME NEW c \in Flow, Ready(c)', c.n \in clean' PROVE printer'.pin = c.chosen
  BY <1>1 DEF PinsChosen, KeepsReady, Alike
<1>2. ASSUME dialog' /= NoDialog, dialog'.n \in clean' PROVE printer'.pin = dialog'.was
  BY <1>2 DEF PinsChosen
<1> QED
  BY <1>1, <1>2 DEF PinsChosen

LEMMA PinsByScript ==
  ASSUME PrintersTyped, QueuesTyped, SentOnce, PinsChosen, RunScript
  PROVE  PinsChosen'
<1> DEFINE s == Head(gcode)
<1>1. /\ KeepsSends /\ s \in Flow /\ Sends(s)
      /\ \A c \in Flow : Ready(c)' => Ready(c) \/ c = s
  BY KeptByScript
<1>2. /\ dialog' = dialog
      /\ \/ printer'.pin = s.chosen /\ clean' = clean \cap {s.n}
         \/ printer'.pin = printer.pin /\ clean' = clean \ {s.n}
  <2>1. /\ dialog' = dialog
        /\ \/ printer' = [printer EXCEPT !.pin = s.chosen] /\ clean' = clean \cap {s.n}
           \/ printer' = printer /\ clean' = clean \ {s.n}
    BY DEF RunScript, Runs, Quietly
  <2>2. [printer EXCEPT !.pin = s.chosen].pin = s.chosen
    BY PinKept DEF PrintersTyped
  <2> HIDE DEF s
  <2> QED
    BY <2>1, <2>2
<1> HIDE DEF s
<1>3. CASE printer'.pin = s.chosen /\ clean' = clean \cap {s.n}
  <2>1. ASSUME NEW c \in Flow, Ready(c)', c.n \in clean' PROVE printer'.pin = c.chosen
    <3>1. c.n = s.n /\ Sends(c)'
      BY <1>3, <2>1 DEF Ready, Sends
    <3>2. PICK d \in Flow : Sends(d) /\ Alike(c, d)
      BY <1>1, <3>1 DEF KeepsSends
    <3> QED
      BY <1>1, <1>3, <3>1, <3>2 DEF SentOnce, Alike
  <2>2. ASSUME dialog /= NoDialog PROVE dialog.n /= s.n
    <3>1. s.n < dialog.n /\ s.n \in Nat
      BY <1>1, <2>2, PrintAssumption DEF SentOnce, Flow
    <3> QED
      BY <3>1
  <2> QED
    BY <1>2, <1>3, <2>1, <2>2 DEF PinsChosen
<1>4. CASE printer'.pin = printer.pin /\ clean' = clean \ {s.n}
  <2>1. ASSUME NEW c \in Flow, Ready(c)', c.n \in clean' PROVE printer'.pin = c.chosen
    BY <1>1, <1>4, <2>1 DEF PinsChosen
  <2> QED
    BY <1>2, <1>4, <2>1 DEF PinsChosen
<1> QED
  BY <1>2, <1>3, <1>4

LEMMA PinsByStart ==
  ASSUME QueuesTyped, FlowTyped, PinsChosen, NEW m \in Modes, Start(m)
  PROVE  PinsChosen'
<1>1. PICK x \in Flow :
        /\ x.n = dialog.n /\ x.chosen = m /\ (x.op = "start" => m = dialog.was)
        /\ \A c \in Flow : Ready(c)' => Ready(c) \/ (c = x /\ x.op = "start")
  BY KeptByStart
<1>2. dialog /= NoDialog /\ dialog' = NoDialog /\ printer' = printer /\ clean' = clean
  BY DEF Start
<1>3. ASSUME NEW c \in Flow, Ready(c)', c.n \in clean' PROVE printer'.pin = c.chosen
  BY <1>1, <1>2, <1>3 DEF PinsChosen
<1> QED
  BY <1>2, <1>3 DEF PinsChosen

LEMMA PinsByOpen ==
  ASSUME QueuesTyped, FlowTyped, SentOnce, PinsChosen, NEW f \in Files, Open(f)
  PROVE  PinsChosen'
<1>1. /\ dialog'.n = opened + 1 /\ dialog'.was = mirror.pin /\ printer' = printer
      /\ clean' = IF mirror.pin = printer.pin THEN clean \cup {opened + 1} ELSE clean
      /\ gcode' = gcode /\ inbox' = inbox
  BY DEF Open, world
<1>2. opened + 1 \notin clean /\ opened \in Nat
  BY PrintAssumption DEF FlowTyped
<1>3. ASSUME NEW c \in Flow, Ready(c)', c.n \in clean' PROVE printer'.pin = c.chosen
  <2>1. Ready(c) /\ Sends(c)
    BY <1>1, <1>3 DEF Ready, Sends
  <2>2. c.n <= opened /\ c.n \in Nat
    BY <2>1, PrintAssumption DEF SentOnce, Flow
  <2>3. c.n \in clean
    BY <1>1, <1>2, <1>3, <2>2
  <2> QED
    BY <1>1, <2>1, <2>3 DEF PinsChosen
<1> QED
  BY <1>1, <1>2, <1>3 DEF PinsChosen

LEMMA StepPins ==
  PrintersTyped /\ QueuesTyped /\ FlowTyped /\ SentOnce /\ PinsChosen /\ [Next]_vars => PinsChosen'
<1> SUFFICES ASSUME PrintersTyped, QueuesTyped, FlowTyped, SentOnce, PinsChosen, [Next]_vars
             PROVE  PinsChosen'
  OBVIOUS
<1> USE DEF world, panel, flow, notes, vars, Quietly
<1>1. ASSUME NEW f \in Files, SelectElsewhere(f) PROVE PinsChosen'
  <2>1. /\ printer'.pin = printer.pin /\ clean' \subseteq clean
        /\ dialog' = dialog \/ dialog' = NoDialog
    BY <1>1, PinKept DEF SelectElsewhere, PrintersTyped
  <2> QED
    BY <1>1, <2>1, PinsKept, StepKept, PinsByScript, PinsByStart
<1>2. CASE Begins
  <2>1. /\ printer'.pin = printer.pin /\ clean' \subseteq clean
        /\ dialog' = dialog \/ dialog' = NoDialog
    BY <1>2, PinKept DEF Begins, PrintersTyped
  <2> QED
    BY <1>2, <2>1, PinsKept, StepKept, PinsByScript, PinsByStart
<1>3. CASE Ends
  <2>1. /\ printer'.pin = printer.pin /\ clean' \subseteq clean
        /\ dialog' = dialog \/ dialog' = NoDialog
    BY <1>3, PinKept DEF Ends, PrintersTyped
  <2> QED
    BY <1>3, <2>1, PinsKept, StepKept, PinsByScript, PinsByStart
<1>4. ASSUME NEW m \in Modes, PinElsewhere(m) PROVE PinsChosen'
  <2>1. clean' = {}
    BY <1>4 DEF PinElsewhere
  <2> QED
    BY <2>1 DEF PinsChosen
<1>5. ASSUME NEW c \in {"pause", "resume"}, CommandElsewhere(c) PROVE PinsChosen'
  <2>1. /\ printer'.pin = printer.pin /\ clean' \subseteq clean
        /\ dialog' = dialog \/ dialog' = NoDialog
    BY <1>5, PinKept DEF CommandElsewhere, PrintersTyped
  <2> QED
    BY <1>5, <2>1, PinsKept, StepKept, PinsByScript, PinsByStart
<1>6. ASSUME NEW c \in {"pause", "resume"}, RunPause(c) PROVE PinsChosen'
  <2>1. printer' = printer \/ \E b : printer' = [printer EXCEPT !.paused = b]
    BY <1>6 DEF RunPause, Runs
  <2>2. ASSUME NEW b, printer' = [printer EXCEPT !.paused = b]
        PROVE  printer'.pin = printer.pin
    BY <2>2 DEF Printer, PrintersTyped
  <2>3. clean' \subseteq clean /\ dialog' = dialog
    BY <1>6 DEF RunPause, Runs
  <2> QED
    BY <1>6, <2>1, <2>2, <2>3, PinsKept, StepKept, PinsByScript, PinsByStart
<1>7. CASE RunScript
  BY <1>7, PinsByScript
<1>8. CASE RunStart
  <2>1. \/ printer' = printer
        \/ \E f, t, b : printer' = [printer EXCEPT !.file = f, !.state = t, !.paused = b]
    BY <1>8 DEF RunStart, Runs
  <2>2. ASSUME NEW f, NEW t, NEW b,
               printer' = [printer EXCEPT !.file = f, !.state = t, !.paused = b]
        PROVE  printer'.pin = printer.pin
    BY <2>2 DEF Printer, PrintersTyped
  <2>3. clean' \subseteq clean /\ dialog' = dialog
    BY <1>8 DEF RunStart, Runs
  <2> QED
    BY <1>8, <2>1, <2>2, <2>3, PinsKept, StepKept, PinsByScript, PinsByStart
<1>9. CASE StateFollows
  <2>1. printer' = printer \/ \E t : printer' = [printer EXCEPT !.state = t]
    BY <1>9 DEF StateFollows
  <2>2. ASSUME NEW t, printer' = [printer EXCEPT !.state = t]
        PROVE  printer'.pin = printer.pin
    BY <2>2 DEF Printer, PrintersTyped
  <2>3. clean' \subseteq clean /\ dialog' = dialog
    BY <1>9 DEF StateFollows
  <2> QED
    BY <1>9, <2>1, <2>2, <2>3, PinsKept, StepKept, PinsByScript, PinsByStart
<1>10. CASE Publish
  <2>1. /\ printer'.pin = printer.pin /\ clean' \subseteq clean
        /\ dialog' = dialog \/ dialog' = NoDialog
    BY <1>10, PinKept DEF Publish, PrintersTyped
  <2> QED
    BY <1>10, <2>1, PinsKept, StepKept, PinsByScript, PinsByStart
<1>11. ASSUME NEW i \in DOMAIN pending, AnswerMetadata(i) PROVE PinsChosen'
  <2>1. /\ printer'.pin = printer.pin /\ clean' \subseteq clean
        /\ dialog' = dialog \/ dialog' = NoDialog
    BY <1>11, PinKept DEF AnswerMetadata, PrintersTyped
  <2> QED
    BY <1>11, <2>1, PinsKept, StepKept, PinsByScript, PinsByStart
<1>12. CASE Lose
  <2>1. /\ printer'.pin = printer.pin /\ clean' \subseteq clean
        /\ dialog' = dialog \/ dialog' = NoDialog
    BY <1>12, PinKept DEF Lose, PrintersTyped
  <2> QED
    BY <1>12, <2>1, PinsKept, StepKept, PinsByScript, PinsByStart
<1>13. CASE Reconnect
  <2>1. /\ printer'.pin = printer.pin /\ clean' \subseteq clean
        /\ dialog' = dialog \/ dialog' = NoDialog
    BY <1>13, PinKept DEF Reconnect, PrintersTyped
  <2> QED
    BY <1>13, <2>1, PinsKept, StepKept, PinsByScript, PinsByStart
<1>14. CASE Consume
  <2>1. /\ printer'.pin = printer.pin /\ clean' \subseteq clean
        /\ dialog' = dialog \/ dialog' = NoDialog
    BY <1>14, PinKept DEF Consume, PrintersTyped
  <2> QED
    BY <1>14, <2>1, PinsKept, StepKept, PinsByScript, PinsByStart
<1>15. CASE HandleMetadata
  <2>1. /\ printer'.pin = printer.pin /\ clean' \subseteq clean
        /\ dialog' = dialog \/ dialog' = NoDialog
    BY <1>15, PinKept DEF HandleMetadata, PrintersTyped
  <2> QED
    BY <1>15, <2>1, PinsKept, StepKept, PinsByScript, PinsByStart
<1>16. CASE HandleRan
  <2>1. /\ printer'.pin = printer.pin /\ clean' \subseteq clean
        /\ dialog' = dialog \/ dialog' = NoDialog
    BY <1>16, PinKept DEF HandleRan, PrintersTyped
  <2> QED
    BY <1>16, <2>1, PinsKept, StepKept, PinsByScript, PinsByStart
<1>17. CASE Tap
  <2>1. /\ printer'.pin = printer.pin /\ clean' \subseteq clean
        /\ dialog' = dialog \/ dialog' = NoDialog
    BY <1>17, PinKept DEF Tap, PrintersTyped
  <2> QED
    BY <1>17, <2>1, PinsKept, StepKept, PinsByScript, PinsByStart
<1>18. CASE TapMini
  <2>1. /\ printer'.pin = printer.pin /\ clean' \subseteq clean
        /\ dialog' = dialog \/ dialog' = NoDialog
    BY <1>18, PinKept DEF TapMini, PrintersTyped
  <2> QED
    BY <1>18, <2>1, PinsKept, StepKept, PinsByScript, PinsByStart
<1>19. ASSUME NEW f \in Files, Open(f) PROVE PinsChosen'
  BY <1>19, PinsByOpen
<1>20. ASSUME NEW m \in Modes, Start(m) PROVE PinsChosen'
  BY <1>20, PinsByStart
<1>21. CASE Cancel
  <2>1. /\ printer'.pin = printer.pin /\ clean' \subseteq clean
        /\ dialog' = dialog \/ dialog' = NoDialog
    BY <1>21, PinKept DEF Cancel, PrintersTyped
  <2> QED
    BY <1>21, <2>1, PinsKept, StepKept, PinsByScript, PinsByStart
<1>22. CASE UNCHANGED vars
  <2>1. /\ printer'.pin = printer.pin /\ clean' \subseteq clean
        /\ dialog' = dialog \/ dialog' = NoDialog
    BY <1>22, PinKept DEF vars, PrintersTyped
  <2> QED
    BY <1>22, <2>1, PinsKept, StepKept, PinsByScript, PinsByStart
<1> QED
  BY <1>1, <1>2, <1>3, <1>4, <1>5, <1>6, <1>7, <1>8, <1>9, <1>10, <1>11, <1>12, <1>13,
     <1>14, <1>15, <1>16, <1>17, <1>18, <1>19, <1>20, <1>21, <1>22
     DEF Next, Klipper, LoopThread

-----------------------------------------------------------------------------
(* The theorems. *)

LEMMA InitInv == Init => IInv
<1> SUFFICES ASSUME Init PROVE IInv
  OBVIOUS
<1>1. MirrorFollows
  BY DEF Init, MirrorFollows, Follows, LastTells
<1>2. PageFollows
  <2>1. /\ mirror.file = None /\ mirror.state = "standby" /\ mirror.paused = FALSE
        /\ label = None /\ status = "ready" /\ active = FALSE /\ resume = FALSE
    BY Zenon DEF Init
  <2>2. Text("standby") = "ready" /\ ("standby" \in Running) = FALSE
    BY DEF Text, Running
  <2> QED
    BY <2>1, <2>2, Zenon DEF PageFollows
<1>3. EstimateFollows
  BY DEF Init, EstimateFollows
<1>4. \A c \in Flow : ~Sends(c) /\ ~Ready(c)
  BY DEF Init, Sends, Ready, Holds, Ran
<1>5. SentOnce
  BY <1>4 DEF SentOnce
<1>6. PinsChosen
  BY <1>4 DEF Init, PinsChosen
<1> QED
  BY <1>1, <1>2, <1>3, <1>5, <1>6, InitType DEF IInv

LEMMA StepInv == IInv /\ [Next]_vars => IInv'
<1> SUFFICES ASSUME IInv, [Next]_vars PROVE IInv'
  OBVIOUS
<1>1. PrintersTyped /\ QueuesTyped /\ FlowTyped
  BY TypeParts DEF IInv
<1> QED
  BY <1>1, StepType, StepMirror, StepPageShows, StepEstimate, StepSentOnce, StepPins DEF IInv

LEMMA Invariance == Spec => []IInv
<1> QED
  BY InitInv, StepInv, PTL DEF Spec

(* What the variables hold: a disabled button is the one that is shown, an   *)
(* open dialog is the one opened last, and nothing arrives without a link.   *)
THEOREM TypeCorrect == Spec => []TypeOK
<1>1. IInv => TypeOK
  BY DEF IInv
<1> QED
  BY <1>1, Invariance, PTL

(* Whatever is selected, started, paused or lost meanwhile, and however many *)
(* dialogs are open one after another: a print starts with the bed mesh and  *)
(* purge line chosen in its dialog.                                          *)
THEOREM PinsAsChosen == Spec => []StartsAsChosen
<1>1. IInv => StartsAsChosen
  <2> SUFFICES ASSUME IInv, AtHead("start"), Head(gcode).n \in clean
               PROVE  printer.pin = Head(gcode).chosen
    BY DEF StartsAsChosen
  <2>1. gcode \in Seq(Commands) /\ gcode /= <<>> /\ Head(gcode).op = "start"
    BY DEF IInv, TypeOK, AtHead
  <2>2. Head(gcode) \in Flow
    BY <2>1, HeadIsFlow
  <2>3. Ready(Head(gcode))
    BY <2>1, HoldsTail DEF Ready
  <2> QED
    BY <2>2, <2>3 DEF IInv, PinsChosen
<1> QED
  BY <1>1, Invariance, PTL

(* When everything was reported, the page shows the printer's file, its      *)
(* state, the right button and the estimate of this file.                    *)
THEOREM PageShowsPrint == Spec => []SettledShowsPrint
<1>1. IInv => SettledShowsPrint
  <2> SUFFICES ASSUME IInv, Settled
               PROVE  /\ label = printer.file
                      /\ ~bare => status = Text(printer.state) /\ active = (printer.state \in Running)
                      /\ ~split => resume = printer.paused
                      /\ pending = <<>> /\ lastOk /\ ~crossed /\ label /= None => estimate = label
    BY Zenon DEF SettledShowsPrint
  <2>1. up /\ told = printer /\ inbox = <<>>
    BY DEF Settled
  <2>2. \A f \in Fields : mirror[f] = printer[f]
    BY <2>1 DEF IInv, MirrorFollows, Follows
  <2>3. mirror.file = printer.file /\ mirror.state = printer.state /\ mirror.paused = printer.paused
    BY <2>2 DEF Fields
  <2>4. pending = <<>> /\ lastOk /\ ~crossed /\ label /= None => estimate = label
    BY <2>1 DEF IInv, EstimateFollows, AnswersFor
  <2> QED
    BY <2>3, <2>4, Zenon DEF IInv, PageFollows
<1> QED
  BY <1>1, Invariance, PTL

=============================================================================
