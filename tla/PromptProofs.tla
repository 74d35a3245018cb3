----------------------------- MODULE PromptProofs -----------------------------
(***************************************************************************)
(* Theorems about Prompt for any macros that show their prompt after its   *)
(* buttons: types, LOAD of the manual menu, and that the screen shows the  *)
(* prompt that was written.                                                *)
(***************************************************************************)
EXTENDS Prompt, TLAPS, WellFoundedInduction

Messages == Lines \cup [op: {"status", "filled"}, state: States] \cup [op: {"ready"}]

TypeInv ==
  /\ state \in States /\ told \in States \cup {None} /\ mirror \in States \cup {None}
  /\ up \in BOOLEAN /\ asked \in BOOLEAN /\ manual \in BOOLEAN /\ load \in BOOLEAN
  /\ off \in BOOLEAN /\ shown \in BOOLEAN /\ body \in BOOLEAN
  /\ group \in {None, "open", "gone"}
  /\ out \in Seq(Lines) /\ inbox \in Seq(Messages)
  /\ content \in Seq([kind: Kinds, place: Places])

(* LOAD exists while the menu and its button do. *)
LoadInv == load => manual /\ \E i \in DOMAIN content : content[i].kind = "fill"

(* What is under way last about State, if anything, is what Moonraker told.  *)
LastStatus(q, s) ==
  \E i \in DOMAIN q : /\ q[i].op \in {"status", "filled"} /\ q[i].state = s
                      /\ \A j \in DOMAIN q : j > i => q[j].op \notin Session
NoStatus(q) == \A i \in DOMAIN q : q[i].op \notin Session
MirrorInv ==
  /\ ~up => inbox = <<>> /\ told = None /\ ~asked
  /\ told /= None => (mirror = told /\ NoStatus(inbox)) \/ LastStatus(inbox, told)

(* A button on its way is followed by the prompt_show of its macro, or by    *)
(* the restart that ended it.                                                *)
Covered(q, i) == \E j \in DOMAIN q : j > i /\ q[j].op \in {"show", "ready"}
CoverIn(q) == Covered(q, 0)
Followed(q, r) == \A i \in DOMAIN q : q[i].op = "button" => Covered(q, i) \/ CoverIn(r)
ShowInv == Followed(inbox, out) /\ \A i \in DOMAIN out : out[i].op = "button" => Covered(out, i)

(* LOAD follows State, or what will see to it is on its way.                 *)
OffInv ==
  up /\ ~blind /\ ~gap /\ load /\ shown =>
    (off <=> mirror = "printing") \/ CoverIn(inbox) \/ CoverIn(out)

IInv == TypeInv /\ LoadInv /\ MirrorInv /\ ShowInv /\ OffInv

-----------------------------------------------------------------------------
(* Queues. *)

LEMMA ElementFacts ==
  ASSUME NEW S, NEW q \in Seq(S), NEW i \in DOMAIN q
  PROVE  q[i] \in S
  OBVIOUS

(* What leaving the front of a queue does to its elements. *)
LEMMA TailFacts ==
  ASSUME NEW S, NEW q \in Seq(S), q /= <<>>
  PROVE  /\ Tail(q) \in Seq(S) /\ Head(q) \in S
         /\ 1 \in DOMAIN q /\ q[1] = Head(q)
         /\ \A i \in DOMAIN Tail(q) : i + 1 \in DOMAIN q /\ Tail(q)[i] = q[i + 1]
         /\ \A i \in DOMAIN q : i > 1 => i - 1 \in DOMAIN Tail(q) /\ Tail(q)[i - 1] = q[i]
  OBVIOUS

(* What joining the end of a queue does to its elements. *)
LEMMA AppendFacts ==
  ASSUME NEW S, NEW q \in Seq(S), NEW x \in S
  PROVE  /\ Append(q, x) \in Seq(S)
         /\ \A i \in DOMAIN q : i \in DOMAIN Append(q, x) /\ Append(q, x)[i] = q[i]
         /\ Len(q) + 1 \in DOMAIN Append(q, x) /\ Append(q, x)[Len(q) + 1] = x
         /\ \A i \in DOMAIN Append(q, x) : i \in DOMAIN q \/ i = Len(q) + 1
         /\ \A i \in DOMAIN q : i \in Nat /\ i < Len(q) + 1
  OBVIOUS

(* The head of a queue that is no prompt_show was not the show of anything. *)
LEMMA CoverInTail ==
  ASSUME NEW S, NEW q \in Seq(S), q /= <<>>, Head(q).op \notin {"show", "ready"}, CoverIn(q)
  PROVE  CoverIn(Tail(q))
<1>1. PICK j \in DOMAIN q : j > 0 /\ q[j].op \in {"show", "ready"}
  BY DEF CoverIn, Covered
<1>2. j \in Nat /\ j > 1
  BY <1>1, TailFacts
<1>3. j - 1 \in DOMAIN Tail(q) /\ Tail(q)[j - 1].op \in {"show", "ready"}
  BY <1>1, <1>2, TailFacts
<1> QED
  BY <1>2, <1>3 DEF CoverIn, Covered

LEMMA FollowedTail ==
  ASSUME NEW S, NEW q \in Seq(S), q /= <<>>, NEW r, Followed(q, r)
  PROVE  Followed(Tail(q), r)
<1> SUFFICES ASSUME NEW i \in DOMAIN Tail(q), Tail(q)[i].op = "button", ~CoverIn(r)
             PROVE  Covered(Tail(q), i)
  BY DEF Followed
<1>1. i + 1 \in DOMAIN q /\ q[i + 1].op = "button" /\ i \in Nat /\ i >= 1
  BY TailFacts
<1>2. PICK j \in DOMAIN q : j > i + 1 /\ q[j].op \in {"show", "ready"}
  BY <1>1 DEF Followed, Covered
<1>3. j - 1 \in DOMAIN Tail(q) /\ Tail(q)[j - 1].op \in {"show", "ready"} /\ j - 1 > i
  BY <1>1, <1>2, TailFacts
<1> QED
  BY <1>3 DEF Covered

(* A button that reaches the front still has its prompt_show to come. *)
LEMMA FollowedHead ==
  ASSUME NEW S, NEW q \in Seq(S), q /= <<>>, NEW r, Followed(q, r), Head(q).op = "button"
  PROVE  CoverIn(Tail(q)) \/ CoverIn(r)
<1>1. CASE CoverIn(r)
  BY <1>1
<1>2. CASE ~CoverIn(r)
  <2>1. PICK j \in DOMAIN q : j > 1 /\ q[j].op \in {"show", "ready"}
    BY <1>2, TailFacts DEF Followed, Covered
  <2>2. j - 1 \in DOMAIN Tail(q) /\ Tail(q)[j - 1].op \in {"show", "ready"} /\ j - 1 > 0
    BY <2>1, TailFacts
  <2> QED
    BY <2>2 DEF CoverIn, Covered
<1> QED
  BY <1>1, <1>2

(* A show stays among the lines to come when one of them is sent. *)
LEMMA CoverSent ==
  ASSUME NEW S, NEW T, NEW q \in Seq(S), NEW r \in Seq(T), r /= <<>>, Head(r) \in S,
         CoverIn(q) \/ CoverIn(r)
  PROVE  CoverIn(Append(q, Head(r))) \/ CoverIn(Tail(r))
<1>1. CASE CoverIn(q)
  BY <1>1, AppendFacts DEF CoverIn, Covered
<1>2. CASE Head(r).op \in {"show", "ready"}
  <2>1. Len(q) + 1 \in DOMAIN Append(q, Head(r)) /\ Append(q, Head(r))[Len(q) + 1] = Head(r)
    BY AppendFacts
  <2>2. Len(q) + 1 > 0
    OBVIOUS
  <2> QED
    BY <1>2, <2>1, <2>2 DEF CoverIn, Covered
<1>3. CASE CoverIn(r) /\ Head(r).op \notin {"show", "ready"}
  BY <1>3, CoverInTail
<1> QED
  BY <1>1, <1>2, <1>3

(* So does the show of a button. *)
LEMMA FollowedSent ==
  ASSUME NEW S, NEW T, NEW q \in Seq(S), NEW r \in Seq(T), r /= <<>>, Head(r) \in S,
         Followed(q, r), \A i \in DOMAIN r : r[i].op = "button" => Covered(r, i)
  PROVE  Followed(Append(q, Head(r)), Tail(r))
<1> DEFINE a == Append(q, Head(r))
<1> SUFFICES ASSUME NEW i \in DOMAIN a, a[i].op = "button", ~CoverIn(Tail(r))
             PROVE  Covered(a, i)
  BY DEF Followed
<1>1. CASE i \in DOMAIN q
  <2>1. q[i].op = "button" /\ i < Len(q) + 1
    BY <1>1, AppendFacts
  <2>2. CASE Covered(q, i)
    BY <2>2, AppendFacts DEF Covered
  <2>3. CASE CoverIn(r)
    <3>1. Head(r).op \in {"show", "ready"}
      BY <2>3, CoverInTail
    <3>2. Len(q) + 1 \in DOMAIN a /\ a[Len(q) + 1] = Head(r)
      BY AppendFacts
    <3> QED
      BY <2>1, <3>1, <3>2 DEF Covered
  <2> QED
    BY <1>1, <2>1, <2>2, <2>3 DEF Followed
<1>2. CASE i = Len(q) + 1
  <2>1. r[1].op = "button" /\ 1 \in DOMAIN r
    BY <1>2, AppendFacts, TailFacts
  <2>2. PICK j \in DOMAIN r : j > 1 /\ r[j].op \in {"show", "ready"}
    BY <2>1 DEF Covered
  <2>3. j - 1 \in DOMAIN Tail(r) /\ Tail(r)[j - 1].op \in {"show", "ready"} /\ j - 1 > 0
    BY <2>2, TailFacts
  <2> QED
    BY <2>3 DEF CoverIn, Covered
<1> QED
  BY <1>1, <1>2, AppendFacts

(* Reports in a queue that loses its front ... *)
LEMMA StatusTail ==
  ASSUME NEW S, NEW q \in Seq(S), q /= <<>>, NEW s
  PROVE  /\ NoStatus(q) => NoStatus(Tail(q)) /\ Head(q).op \notin Session
         /\ LastStatus(q, s) =>
              \/ LastStatus(Tail(q), s)
              \/ NoStatus(Tail(q)) /\ Head(q).op \in {"status", "filled"} /\ Head(q).state = s
<1>1. NoStatus(q) => NoStatus(Tail(q)) /\ Head(q).op \notin Session
  BY TailFacts DEF NoStatus
<1>2. ASSUME NEW i \in DOMAIN q, i > 1, q[i].op \in {"status", "filled"}, q[i].state = s,
             \A j \in DOMAIN q : j > i => q[j].op \notin Session
      PROVE  LastStatus(Tail(q), s)
  <2>1. i - 1 \in DOMAIN Tail(q) /\ Tail(q)[i - 1] = q[i]
    BY <1>2, TailFacts
  <2>2. ASSUME NEW j \in DOMAIN Tail(q), j > i - 1 PROVE Tail(q)[j].op \notin Session
    <3>1. j + 1 \in DOMAIN q /\ j + 1 > i /\ Tail(q)[j] = q[j + 1]
      BY <2>2, TailFacts
    <3> QED
      BY <1>2, <3>1
  <2> QED
    BY <1>2, <2>1, <2>2 DEF LastStatus
<1>3. ASSUME q[1].state = s, q[1].op \in {"status", "filled"},
             \A j \in DOMAIN q : j > 1 => q[j].op \notin Session
      PROVE  NoStatus(Tail(q)) /\ Head(q).op \in {"status", "filled"} /\ Head(q).state = s
  <2>1. ASSUME NEW i \in DOMAIN Tail(q) PROVE Tail(q)[i].op \notin Session
    <3>1. i + 1 \in DOMAIN q /\ i + 1 > 1 /\ Tail(q)[i] = q[i + 1]
      BY TailFacts
    <3> QED
      BY <1>3, <3>1
  <2> QED
    BY <1>3, <2>1, TailFacts DEF NoStatus
<1>4. \A i \in DOMAIN q : i = 1 \/ i > 1
  OBVIOUS
<1>5. ASSUME LastStatus(q, s)
      PROVE  \/ LastStatus(Tail(q), s)
             \/ NoStatus(Tail(q)) /\ Head(q).op \in {"status", "filled"} /\ Head(q).state = s
  <2>1. PICK i \in DOMAIN q : /\ q[i].op \in {"status", "filled"} /\ q[i].state = s
                              /\ \A j \in DOMAIN q : j > i => q[j].op \notin Session
    BY <1>5 DEF LastStatus
  <2>2. CASE i > 1
    BY <1>2, <2>1, <2>2
  <2>3. CASE i = 1
    BY <1>3, <2>1, <2>3
  <2> QED
    BY <1>4, <2>2, <2>3
<1> QED
  BY <1>1, <1>5

(* ... or takes in another message. *)
LEMMA StatusAppend ==
  ASSUME NEW S, NEW q \in Seq(S), NEW x \in S, NEW s
  PROVE  /\ x.op \notin Session /\ NoStatus(q) => NoStatus(Append(q, x))
         /\ x.op \notin Session /\ LastStatus(q, s) => LastStatus(Append(q, x), s)
         /\ x.op \in {"status", "filled"} /\ x.state = s => LastStatus(Append(q, x), s)
<1>1. x.op \notin Session /\ NoStatus(q) => NoStatus(Append(q, x))
  BY AppendFacts DEF NoStatus
<1>2. ASSUME x.op \notin Session, LastStatus(q, s) PROVE LastStatus(Append(q, x), s)
  <2>1. PICK i \in DOMAIN q : q[i].op \in {"status", "filled"} /\ q[i].state = s
                              /\ \A j \in DOMAIN q : j > i => q[j].op \notin Session
    BY <1>2 DEF LastStatus
  <2>2. \A j \in DOMAIN Append(q, x) : j > i => Append(q, x)[j].op \notin Session
    BY <1>2, <2>1, AppendFacts
  <2> QED
    BY <2>1, <2>2, AppendFacts DEF LastStatus
<1>3. ASSUME x.op \in {"status", "filled"}, x.state = s PROVE LastStatus(Append(q, x), s)
  <2>1. \A j \in DOMAIN Append(q, x) : ~(j > Len(q) + 1)
    OBVIOUS
  <2> QED
    BY <1>3, <2>1, AppendFacts DEF LastStatus
<1> QED
  BY <1>1, <1>2, <1>3

-----------------------------------------------------------------------------
(* The initial state, and the steps of Klipper, Moonraker and the link. *)

LEMMA InitInv == Init => IInv
<1> SUFFICES ASSUME Init PROVE IInv
  OBVIOUS
<1>1. TypeInv
  <2>1. up \in BOOLEAN /\ asked \in BOOLEAN /\ manual \in BOOLEAN /\ load \in BOOLEAN
        /\ off \in BOOLEAN /\ shown \in BOOLEAN /\ body \in BOOLEAN
    BY Zenon DEF Init
  <2>2. state \in States /\ told \in States /\ mirror \in States
        /\ group \in {None, "open", "gone"}
    BY DEF Init, States
  <2>3. out \in Seq(Lines) /\ inbox \in Seq(Messages)
        /\ content \in Seq([kind: Kinds, place: Places])
    BY DEF Init
  <2> QED
    BY <2>1, <2>2, <2>3 DEF TypeInv
<1>2. LoadInv /\ OffInv
  BY DEF Init, LoadInv, OffInv
<1>3. MirrorInv
  BY DEF Init, MirrorInv, NoStatus
<1>4. ShowInv
  BY DEF Init, ShowInv, Followed
<1> QED
  BY <1>1, <1>2, <1>3, <1>4 DEF IInv

LEMMA StartMacroStep ==
  ASSUME IInv, NEW m \in Macros, StartMacro(m)
  PROVE  IInv'
<1> USE DEF IInv
<1>1. m \in Seq(Lines) /\ \A i \in DOMAIN m : m[i].op = "button" => Covered(m, i)
  BY PromptAssumption DEF ShowAfter, Covered
<1>2. /\ out = <<>> /\ out' = m
      /\ UNCHANGED <<state, told, asked, jobs, up, inbox, mirror, gap, blind>> /\ UNCHANGED prompt
  BY DEF StartMacro
<1>3. ~CoverIn(out)
  BY <1>2 DEF CoverIn, Covered
<1>4. TypeInv' /\ LoadInv' /\ MirrorInv'
  BY <1>1, <1>2 DEF TypeInv, LoadInv, MirrorInv, prompt
<1>5. ShowInv' /\ OffInv'
  BY <1>1, <1>2, <1>3 DEF ShowInv, Followed, OffInv, prompt
<1> QED
  BY <1>4, <1>5

LEMMA WriteStep ==
  ASSUME IInv, Write
  PROVE  IInv'
<1> USE DEF IInv
<1>1. /\ out /= <<>> /\ out' = Tail(out)
      /\ inbox' = IF up THEN Append(inbox, Head(out)) ELSE inbox
      /\ UNCHANGED <<state, told, asked, up, mirror, blind>> /\ UNCHANGED prompt
  BY DEF Write
<1>2. /\ out \in Seq(Lines) /\ inbox \in Seq(Messages)
      /\ Head(out) \in Lines /\ Head(out) \in Messages
      /\ Head(out).op \notin Session /\ Tail(out) \in Seq(Lines)
  <2>1. out \in Seq(Lines) /\ inbox \in Seq(Messages)
    BY DEF TypeInv
  <2>2. Head(out) \in Lines /\ Tail(out) \in Seq(Lines)
    BY <1>1, <2>1, TailFacts
  <2> QED
    BY <2>1, <2>2 DEF Lines, Messages, Session
<1>3. TypeInv' /\ LoadInv'
  <2>1. inbox' \in Seq(Messages)
    BY <1>1, <1>2, AppendFacts
  <2> QED
    BY <1>1, <1>2, <2>1 DEF TypeInv, LoadInv, prompt
<1>4. MirrorInv'
  BY <1>1, <1>2, StatusAppend DEF MirrorInv
<1>5. \A i \in DOMAIN out' : out'[i].op = "button" => Covered(out', i)
  <2> SUFFICES ASSUME NEW i \in DOMAIN Tail(out), Tail(out)[i].op = "button"
               PROVE  Covered(Tail(out), i)
    BY <1>1
  <2>1. i + 1 \in DOMAIN out /\ out[i + 1].op = "button" /\ i \in Nat /\ i >= 1
    BY <1>1, <1>2, TailFacts
  <2>2. PICK j \in DOMAIN out : j > i + 1 /\ out[j].op \in {"show", "ready"}
    BY <2>1 DEF ShowInv, Covered
  <2>3. j - 1 \in DOMAIN Tail(out) /\ Tail(out)[j - 1].op \in {"show", "ready"} /\ j - 1 > i
    BY <1>1, <1>2, <2>1, <2>2, TailFacts
  <2> QED
    BY <2>3 DEF Covered
<1>6. CASE up
  <2>1. inbox' = Append(inbox, Head(out)) /\ (~gap' => ~gap)
    BY <1>1, <1>6 DEF Write
  <2>2. Followed(inbox', out')
    BY <1>1, <1>2, <2>1, FollowedSent DEF ShowInv
  <2>3. CoverIn(inbox) \/ CoverIn(out) => CoverIn(inbox') \/ CoverIn(out')
    BY <1>1, <1>2, <2>1, CoverSent
  <2>4. OffInv'
    BY <1>1, <2>1, <2>3 DEF OffInv, prompt
  <2> QED
    BY <1>3, <1>4, <1>5, <2>2, <2>4 DEF ShowInv
<1>7. CASE ~up
  <2>1. inbox' = <<>> /\ ~up'
    BY <1>1, <1>7 DEF MirrorInv
  <2>2. Followed(inbox', out') /\ OffInv'
    BY <2>1 DEF Followed, OffInv
  <2> QED
    BY <1>3, <1>4, <1>5, <2>2 DEF ShowInv
<1> QED
  BY <1>6, <1>7

LEMMA OutsideStep ==
  ASSUME IInv, (\E s \in States : PrintChanges(s)) \/ RunJob
  PROVE  IInv'
<1> USE DEF IInv
<1>1. /\ state' \in States
      /\ UNCHANGED <<told, asked, up, inbox, mirror, gap, blind>> /\ UNCHANGED prompt
  BY DEF PrintChanges, RunJob, TypeInv, States
<1>2. \/ UNCHANGED out
      \/ out = <<>> /\ out' \in {<<[op |-> "end"]>>, <<>>}
  BY DEF PrintChanges, RunJob
<1>3. /\ out' \in Seq(Lines)
      /\ \A i \in DOMAIN out' : out'[i].op = "button" => Covered(out', i)
  <2>1. CASE UNCHANGED out
    BY <2>1 DEF TypeInv, ShowInv
  <2>2. CASE out' = <<[op |-> "end"]>>
    BY <2>2 DEF Lines
  <2>3. CASE out' = <<>>
    BY <2>3
  <2> QED
    BY <1>2, <2>1, <2>2, <2>3
<1>4. CoverIn(out) => CoverIn(out')
  BY <1>2 DEF CoverIn, Covered
<1>5. TypeInv' /\ LoadInv' /\ MirrorInv'
  BY <1>1, <1>3 DEF TypeInv, LoadInv, MirrorInv, prompt
<1>6. ShowInv' /\ OffInv'
  BY <1>1, <1>3, <1>4 DEF ShowInv, Followed, OffInv, prompt
<1> QED
  BY <1>5, <1>6

(* Klipper's state on its way to the screen, as a report or as an answer. *)
LEMMA TellStep ==
  ASSUME IInv, Report \/ Answer
  PROVE  IInv'
<1> USE DEF IInv
<1>1. PICK op \in {"status", "filled"} :
        inbox' = Append(inbox, [op |-> op, state |-> state])
  BY DEF Report, Answer
<1> DEFINE msg == [op |-> op, state |-> state]
<1>2. /\ up /\ told' = state /\ asked' \in BOOLEAN
      /\ UNCHANGED <<state, out, up, mirror, gap, blind>> /\ UNCHANGED prompt
  <2>1. CASE Report
    BY <2>1 DEF Report, TypeInv
  <2>2. CASE Answer
    <3>1. up
      BY <2>2 DEF Answer, MirrorInv, TypeInv
    <3> QED
      BY <2>2, <3>1 DEF Answer
  <2> QED
    BY <2>1, <2>2
<1>3. inbox \in Seq(Messages) /\ msg \in Messages /\ msg.op = op /\ msg.state = state
  BY DEF TypeInv, Messages
<1> HIDE DEF msg
<1>4. inbox' = Append(inbox, msg)
  BY <1>1 DEF msg
<1>5. TypeInv' /\ LoadInv'
  <2>1. inbox' \in Seq(Messages)
    BY <1>3, <1>4, AppendFacts
  <2> QED
    BY <1>2, <2>1 DEF TypeInv, LoadInv, prompt
<1>6. MirrorInv'
  <2>1. LastStatus(inbox', state)
    BY <1>3, <1>4, StatusAppend
  <2> QED
    BY <1>2, <2>1 DEF MirrorInv
<1>7. CoverIn(inbox) => CoverIn(inbox')
  BY <1>3, <1>4, AppendFacts DEF CoverIn, Covered
<1>8. Followed(inbox', out')
  <2> SUFFICES ASSUME NEW i \in DOMAIN inbox', inbox'[i].op = "button"
               PROVE  Covered(inbox', i) \/ CoverIn(out)
    BY <1>2 DEF Followed
  <2>1. i \in DOMAIN inbox /\ inbox[i].op = "button"
    BY <1>3, <1>4, AppendFacts
  <2> QED
    BY <1>3, <1>4, <2>1, AppendFacts DEF ShowInv, Followed, Covered
<1>9. ShowInv' /\ OffInv'
  BY <1>2, <1>7, <1>8 DEF ShowInv, OffInv, prompt
<1> QED
  BY <1>5, <1>6, <1>9

(* A restart ends the macro, and announces itself to a screen that listens. *)
LEMMA RestartStep ==
  ASSUME IInv, Restart
  PROVE  IInv'
<1> USE DEF IInv
<1> DEFINE msg == [op |-> "ready"]
<1>1. /\ state' = "standby" /\ told' = None /\ out' = <<>>
      /\ inbox' = IF up THEN Append(inbox, msg) ELSE inbox
      /\ UNCHANGED <<up, mirror, gap, blind>> /\ UNCHANGED prompt
  BY DEF Restart
<1>2. asked' \in BOOLEAN /\ (asked' => asked)
  <2>1. asked' \in {FALSE, asked} /\ asked \in BOOLEAN
    BY Zenon DEF Restart, TypeInv
  <2>2. CASE asked' = FALSE
    BY <2>2
  <2>3. CASE asked' = asked
    BY <2>1, <2>3
  <2> QED
    BY <2>1, <2>2, <2>3, Zenon
<1>3. inbox \in Seq(Messages) /\ msg \in Messages /\ msg.op = "ready"
  BY DEF TypeInv, Messages
<1> HIDE DEF msg
<1>4. inbox' \in Seq(Messages)
  BY <1>1, <1>3, AppendFacts
<1>5. TypeInv' /\ LoadInv'
  <2>1. out' \in Seq(Lines) /\ state' \in States
    BY <1>1 DEF States
  <2> QED
    BY <1>1, <1>2, <1>4, <2>1 DEF TypeInv, LoadInv, prompt
<1>6. MirrorInv'
  BY <1>1, <1>2 DEF MirrorInv
<1>7. CASE up
  <2>1. inbox' = Append(inbox, msg)
    BY <1>1, <1>7
  <2>2. ASSUME NEW i \in DOMAIN inbox', inbox'[i].op = "button" PROVE Covered(inbox', i)
    <3>1. i \in DOMAIN inbox /\ i < Len(inbox) + 1
      BY <1>3, <2>1, <2>2, AppendFacts
    <3> QED
      BY <1>3, <2>1, <3>1, AppendFacts DEF Covered
  <2>3. CoverIn(inbox')
    <3>1. Len(inbox) + 1 > 0
      BY <1>3
    <3> QED
      BY <1>3, <2>1, <3>1, AppendFacts DEF CoverIn, Covered
  <2> QED
    BY <1>1, <1>5, <1>6, <2>2, <2>3 DEF ShowInv, Followed, OffInv
<1>8. CASE ~up
  <2>1. inbox' = <<>>
    BY <1>1, <1>8 DEF MirrorInv
  <2> QED
    BY <1>1, <1>5, <1>6, <1>8, <2>1 DEF ShowInv, Followed, OffInv
<1> QED
  BY <1>7, <1>8

LEMMA DropStep ==
  ASSUME IInv, Drop
  PROVE  IInv'
<1> USE DEF IInv
<1>1. /\ inbox' = <<>> /\ told' = None
      /\ UNCHANGED <<state, out, mirror, blind>> /\ UNCHANGED prompt
  BY DEF Drop
<1>2. up' = FALSE /\ up' \in BOOLEAN /\ asked' = FALSE /\ asked' \in BOOLEAN
  BY Zenon DEF Drop
<1>3. TypeInv'
  <2>1. inbox' \in Seq(Messages)
    BY <1>1
  <2> QED
    BY <1>1, <1>2, <2>1 DEF TypeInv, prompt
<1>4. LoadInv' /\ MirrorInv'
  BY <1>1, <1>2 DEF LoadInv, MirrorInv, prompt
<1>5. ShowInv' /\ OffInv'
  BY <1>1, <1>2 DEF ShowInv, Followed, OffInv
<1> QED
  BY <1>3, <1>4, <1>5

LEMMA ReconnectStep ==
  ASSUME IInv, Reconnect
  PROVE  IInv'
<1> USE DEF IInv
<1>1. /\ ~up /\ inbox = <<>> /\ told = None /\ mirror' = None
      /\ UNCHANGED <<state, told, out, inbox, gap>> /\ UNCHANGED prompt
  BY DEF Reconnect, Connected, MirrorInv
<1>2. up' = TRUE /\ asked' = TRUE /\ blind' = TRUE
  BY DEF Reconnect, Connected
<1>3. TypeInv' /\ LoadInv'
  BY <1>1, <1>2 DEF TypeInv, LoadInv, prompt
<1>4. MirrorInv'
  BY <1>1, <1>2 DEF MirrorInv
<1>5. ShowInv' /\ OffInv'
  BY <1>1, <1>2 DEF ShowInv, Followed, OffInv
<1> QED
  BY <1>3, <1>4, <1>5

(* RESUME and CLOSE only hide the prompt. *)
LEMMA TouchStep ==
  ASSUME IInv, NEW i \in DOMAIN content, Touch(i)
  PROVE  IInv'
<1> USE DEF IInv
<1>1. /\ shown' \in BOOLEAN /\ shown
      /\ UNCHANGED <<state, told, asked, out, up, inbox, mirror, manual, content, body, group,
                     load, off, gap, blind>>
  BY DEF Touch
<1>2. TypeInv' /\ LoadInv' /\ MirrorInv' /\ ShowInv' /\ OffInv'
  BY <1>1 DEF TypeInv, LoadInv, MirrorInv, ShowInv, OffInv
<1> QED
  BY <1>2

-----------------------------------------------------------------------------
(* The loop thread: what every message that is taken does to the queue ...   *)

LEMMA Received ==
  ASSUME TypeInv, MirrorInv, ShowInv, NEW op, Receive(op)
  PROVE  /\ inbox' \in Seq(Messages) /\ Head(inbox) \in Messages /\ Head(inbox).op = op
         /\ ShowInv' /\ up
         /\ UNCHANGED <<state, told, out, jobs, up>>
         /\ op \notin {"show", "ready"} /\ CoverIn(inbox) => CoverIn(inbox')
         /\ op = "button" => CoverIn(inbox') \/ CoverIn(out')
<1>1. /\ inbox /= <<>> /\ Head(inbox).op = op /\ inbox' = Tail(inbox)
      /\ UNCHANGED <<state, told, out, jobs, up>>
  BY DEF Receive
<1>2. inbox \in Seq(Messages) /\ up
  BY <1>1 DEF TypeInv, MirrorInv
<1>3. inbox' \in Seq(Messages) /\ Head(inbox) \in Messages
  BY <1>1, <1>2, TailFacts
<1>4. ShowInv'
  BY <1>1, <1>2, FollowedTail DEF ShowInv
<1>5. op \notin {"show", "ready"} /\ CoverIn(inbox) => CoverIn(inbox')
  BY <1>1, <1>2, CoverInTail
<1>6. op = "button" => CoverIn(inbox') \/ CoverIn(out')
  BY <1>1, <1>2, FollowedHead DEF ShowInv
<1> QED
  BY <1>1, <1>2, <1>3, <1>4, <1>5, <1>6

(* ... what it does to State and to what is under way about it ... *)
LEMMA ReceivedMirror ==
  ASSUME TypeInv, MirrorInv, NEW op, Receive(op),
         op \in {"status", "filled"} => mirror' = Head(inbox).state,
         op \notin Session => mirror' = mirror
  PROVE  MirrorInv'
<1>1. /\ inbox /= <<>> /\ Head(inbox).op = op /\ inbox' = Tail(inbox)
      /\ UNCHANGED <<told, up>>
  BY DEF Receive
<1>2. inbox \in Seq(Messages) /\ up /\ up'
  BY <1>1 DEF TypeInv, MirrorInv
<1>3. ASSUME told /= None
      PROVE  (mirror' = told /\ NoStatus(inbox')) \/ LastStatus(inbox', told)
  <2>1. CASE mirror = told /\ NoStatus(inbox)
    <3>1. op \notin Session /\ NoStatus(inbox')
      BY <1>1, <1>2, <2>1, StatusTail
    <3> QED
      BY <2>1, <3>1
  <2>2. CASE LastStatus(inbox, told)
    BY <1>1, <1>2, <2>2, StatusTail
  <2> QED
    BY <1>3, <2>1, <2>2 DEF MirrorInv
<1> QED
  BY <1>1, <1>2, <1>3 DEF MirrorInv

(* ... and what each does to the prompt. *)
LEMMA StatusStep ==
  ASSUME IInv, Status
  PROVE  IInv'
<1> USE DEF IInv
<1>1. /\ Receive("status") /\ mirror' = Head(inbox).state
      /\ UNCHANGED <<asked, manual, content, body, group, load, shown, gap>>
  BY DEF Status
<1>2. off' <=> load /\ mirror' = "printing"
  <2>1. off' = (load /\ Head(inbox).state = "printing") /\ mirror' = Head(inbox).state
    BY Zenon DEF Status, Refresh
  <2> QED
    BY <2>1, Zenon
<1>3. off' \in BOOLEAN
  BY Zenon DEF Status, Refresh
<1>4. /\ inbox' \in Seq(Messages) /\ Head(inbox) \in Messages /\ Head(inbox).op = "status"
      /\ ShowInv' /\ UNCHANGED <<state, told, out, up>>
  BY <1>1, Received
<1>5. MirrorInv'
  BY <1>1, ReceivedMirror DEF Session
<1>6. mirror' \in States
  BY <1>1, <1>4 DEF Messages, Lines
<1>7. TypeInv'
  BY <1>1, <1>3, <1>4, <1>6 DEF TypeInv
<1>8. LoadInv' /\ OffInv'
  BY <1>1, <1>2 DEF LoadInv, OffInv
<1> QED
  BY <1>4, <1>5, <1>7, <1>8

(* A session that starts over leaves the buttons behind State. *)
LEMMA ReadyStep ==
  ASSUME IInv, Ready
  PROVE  IInv'
<1> USE DEF IInv
<1>1. /\ Receive("ready") /\ mirror' = None /\ asked' = TRUE /\ blind' = TRUE
      /\ UNCHANGED <<prompt, gap>>
  BY DEF Ready, Connected
<1>2. /\ inbox' \in Seq(Messages) /\ ShowInv' /\ up /\ UNCHANGED <<state, told, out, up>>
  BY <1>1, Received
<1>3. MirrorInv'
  BY <1>1, ReceivedMirror DEF Session
<1>4. TypeInv' /\ LoadInv' /\ OffInv'
  BY <1>1, <1>2 DEF TypeInv, LoadInv, OffInv, prompt
<1> QED
  BY <1>2, <1>3, <1>4

LEMMA FillStep ==
  ASSUME IInv, Fill
  PROVE  IInv'
<1> USE DEF IInv
<1>1. /\ Receive("filled") /\ mirror' = Head(inbox).state
      /\ UNCHANGED <<asked, prompt, gap>>
  BY DEF Fill
<1>2. ~blind' => ~blind /\ mirror' = mirror
  BY DEF Fill
<1>3. /\ inbox' \in Seq(Messages) /\ Head(inbox) \in Messages /\ Head(inbox).op = "filled"
      /\ ShowInv' /\ UNCHANGED <<state, told, out, up>> /\ (CoverIn(inbox) => CoverIn(inbox'))
  BY <1>1, Received
<1>4. MirrorInv'
  BY <1>1, ReceivedMirror DEF Session
<1>5. mirror' \in States
  BY <1>1, <1>3 DEF Messages, Lines
<1>6. TypeInv' /\ LoadInv'
  BY <1>1, <1>3, <1>5 DEF TypeInv, LoadInv, prompt
<1>7. OffInv'
  BY <1>1, <1>2, <1>3 DEF OffInv, prompt
<1> QED
  BY <1>3, <1>4, <1>6, <1>7

LEMMA BeginEndStep ==
  ASSUME IInv, Begin \/ End
  PROVE  IInv'
<1> USE DEF IInv
<1>1. PICK op \in {"begin", "end"} : Receive(op)
  BY DEF Begin, End
<1>2. /\ content' = <<>> /\ load' = FALSE /\ off' = FALSE /\ UNCHANGED <<asked, mirror>>
      /\ group' \in {None, "open", "gone"}
  BY DEF Begin, End, Clean, TypeInv
<1>3. /\ inbox' \in Seq(Messages) /\ MirrorInv' /\ ShowInv'
      /\ UNCHANGED <<state, told, out, up>>
  BY <1>1, <1>2, Received, ReceivedMirror DEF Session
<1>4. manual' \in BOOLEAN /\ shown' \in BOOLEAN /\ body' \in BOOLEAN
  <2>1. CASE Begin
    <3>1. Head(inbox) \in Messages /\ Head(inbox).op = "begin"
      BY <2>1, Received DEF Begin
    <3>2. Head(inbox).manual \in BOOLEAN
      BY <3>1 DEF Messages, Lines
    <3> QED
      BY <2>1, <3>2 DEF Begin, TypeInv
  <2>2. CASE End
    BY <2>2 DEF End
  <2> QED
    BY <2>1, <2>2
<1>5. TypeInv'
  <2>1. load' \in BOOLEAN /\ off' \in BOOLEAN
    BY <1>2, Zenon
  <2>2. content' \in Seq([kind: Kinds, place: Places])
    BY <1>2
  <2> QED
    BY <1>2, <1>3, <1>4, <2>1, <2>2 DEF TypeInv
<1>6. LoadInv' /\ OffInv'
  BY <1>2 DEF LoadInv, OffInv
<1> QED
  BY <1>3, <1>5, <1>6

LEMMA GroupStep ==
  ASSUME IInv, Group \/ GroupEnd \/ Text
  PROVE  IInv'
<1> USE DEF IInv
<1>1. PICK op \in {"group_start", "group_end", "text"} : Receive(op)
  BY DEF Group, GroupEnd, Text
<1>2. /\ UNCHANGED <<asked, mirror, manual, content, load, off, shown, gap, blind>>
      /\ group' \in {None, "open", "gone"} /\ body' \in BOOLEAN
  BY DEF Group, GroupEnd, Text, TypeInv
<1>3. /\ inbox' \in Seq(Messages) /\ MirrorInv' /\ ShowInv'
      /\ UNCHANGED <<state, told, out, up>> /\ (CoverIn(inbox) => CoverIn(inbox'))
  BY <1>1, <1>2, Received, ReceivedMirror DEF Session
<1>4. TypeInv' /\ LoadInv' /\ OffInv'
  BY <1>2, <1>3 DEF TypeInv, LoadInv, OffInv
<1> QED
  BY <1>3, <1>4

(* A new LOAD button is enabled; the prompt_show of its macro sets it right. *)
LEMMA ButtonStep ==
  ASSUME IInv, Button
  PROVE  IInv'
<1> USE DEF IInv
<1> DEFINE b == Head(inbox)
           place == IF b.footer THEN "footer" ELSE IF group = None THEN "flex" ELSE group
<1>1. /\ Receive("button") /\ UNCHANGED <<asked, mirror, manual, body, group, shown, gap, blind>>
  BY DEF Button
<1>2. /\ inbox' \in Seq(Messages) /\ b \in Messages /\ b.op = "button"
      /\ MirrorInv' /\ ShowInv' /\ UNCHANGED <<state, told, out, up>>
      /\ (CoverIn(inbox') \/ CoverIn(out'))
  BY <1>1, Received, ReceivedMirror DEF Session
<1>3. b.kind \in Kinds
  BY <1>2 DEF Messages, Lines
<1>4. place \in Places \cup {"gone"}
  BY DEF TypeInv, Places
<1>5. content' = IF place = "gone" THEN content
                 ELSE Append(content, [kind |-> b.kind, place |-> place])
  BY DEF Button
<1>6. content' \in Seq([kind: Kinds, place: Places])
  <2>1. content \in Seq([kind: Kinds, place: Places])
    BY DEF TypeInv
  <2>2. CASE place = "gone"
    BY <1>5, <2>1, <2>2
  <2>3. CASE place /= "gone"
    <3>1. [kind |-> b.kind, place |-> place] \in [kind: Kinds, place: Places]
      BY <1>3, <1>4, <2>3
    <3>2. content' = Append(content, [kind |-> b.kind, place |-> place])
      BY <1>5, <2>3
    <3> HIDE DEF place
    <3> QED
      BY <2>1, <3>1, <3>2, AppendFacts
  <2> QED
    BY <2>2, <2>3
<1>7. IF manual /\ b.kind = "fill" /\ place /= "gone"
      THEN load' = TRUE /\ off' = FALSE
      ELSE UNCHANGED <<load, off>>
  BY DEF Button
<1>8. TypeInv'
  BY <1>1, <1>2, <1>6, <1>7 DEF TypeInv
<1>9. LoadInv'
  <2>1. \A i \in DOMAIN content : i \in DOMAIN content' /\ content'[i] = content[i]
    BY <1>5 DEF TypeInv
  <2>2. place /= "gone" => \E i \in DOMAIN content' : content'[i].kind = b.kind
    <3> SUFFICES ASSUME place /= "gone"
                 PROVE  \E i \in DOMAIN content' : content'[i].kind = b.kind
      OBVIOUS
    <3>1. content' = Append(content, [kind |-> b.kind, place |-> place])
      BY <1>5
    <3>2. Len(content) + 1 \in DOMAIN content'
          /\ content'[Len(content) + 1] = [kind |-> b.kind, place |-> place]
      BY <3>1 DEF TypeInv
    <3> QED
      BY <3>2
  <2> QED
    BY <1>1, <1>7, <2>1, <2>2 DEF LoadInv
<1>10. OffInv'
  BY <1>2 DEF OffInv
<1> QED
  BY <1>2, <1>8, <1>9, <1>10

LEMMA ShowStep ==
  ASSUME IInv, Show
  PROVE  IInv'
<1> USE DEF IInv
<1>1. /\ Receive("show") /\ shown' = TRUE
      /\ UNCHANGED <<asked, mirror, manual, content, body, group, load, gap>>
  BY DEF Show
<1>2. off' <=> load /\ mirror = "printing"
  <2>1. off' = (load /\ mirror = "printing")
    BY DEF Show, Refresh
  <2> QED
    BY <2>1, Zenon
<1>3. off' \in BOOLEAN
  BY Zenon DEF Show, Refresh
<1>4. /\ inbox' \in Seq(Messages) /\ MirrorInv' /\ ShowInv'
      /\ UNCHANGED <<state, told, out, up>>
  BY <1>1, Received, ReceivedMirror DEF Session
<1>5. TypeInv'
  BY <1>1, <1>3, <1>4 DEF TypeInv
<1>6. LoadInv' /\ OffInv'
  BY <1>1, <1>2 DEF LoadInv, OffInv
<1> QED
  BY <1>4, <1>5, <1>6

-----------------------------------------------------------------------------
(* The invariant behind the theorems below: reports and lines under way      *)
(* determine what the prompt will be.                                        *)
THEOREM Inductive == Spec => []IInv
<1>1. ASSUME IInv, [Next]_vars PROVE IInv'
  <2>1. CASE UNCHANGED vars
    BY <1>1, <2>1 DEF IInv, TypeInv, LoadInv, MirrorInv, ShowInv, OffInv, vars, klipper, prompt
  <2>2. CASE Next
    BY <1>1, <2>2, StartMacroStep, WriteStep, OutsideStep, TellStep, RestartStep, DropStep,
       ReconnectStep, TouchStep, StatusStep, ReadyStep, FillStep, BeginEndStep,
       GroupStep, ButtonStep, ShowStep
    DEF Next, LoopThread
  <2> QED
    BY <1>1, <2>1, <2>2
<1> QED
  BY InitInv, <1>1, PTL DEF Spec

(* Every variable keeps its type, and load_btn never outlives its button,    *)
(* whatever prompts begin inside each other (prompt_panel.cpp:286).          *)
THEOREM TypeCorrect == Spec => []TypeOK
<1>1. ASSUME IInv PROVE TypeOK
  <2> USE <1>1 DEF IInv
  <2>1. \A i \in DOMAIN content : content[i].kind \in Kinds /\ content[i].place \in Places
    <3>1. content \in Seq([kind: Kinds, place: Places])
      BY DEF TypeInv
    <3>2. \A i \in DOMAIN content : content[i] \in [kind: Kinds, place: Places]
      BY <3>1, ElementFacts
    <3> QED
      BY <3>2
  <2>2. \A b \in Range(content) : b.kind \in Kinds /\ b.place \in Places
    BY <2>1 DEF Range
  <2>3. load => manual /\ \E b \in Range(content) : b.kind = "fill"
    BY DEF LoadInv, Range
  <2> QED
    BY <2>2, <2>3 DEF TypeInv, TypeOK
<1> QED
  BY Inductive, <1>1, PTL

(* With everything handled, LOAD is disabled exactly while a print runs      *)
(* (prompt_panel.cpp:158), for any macros that show what they declare.       *)
THEOREM FillIsSafe == Spec => []FillSafe
<1>1. ASSUME IInv, Settled, ~gap, ~blind, load, shown PROVE off = (state = "printing")
  <2>1. mirror = state
    <3>1. told /= None /\ told = state /\ inbox = <<>>
      BY <1>1, PromptAssumption DEF Settled, IInv, TypeInv
    <3> QED
      BY <1>1, <3>1 DEF IInv, MirrorInv, LastStatus
  <2>2. ~CoverIn(inbox) /\ ~CoverIn(out) /\ up
    BY <1>1 DEF Settled, CoverIn, Covered
  <2>3. off <=> state = "printing"
    BY <1>1, <2>1, <2>2 DEF IInv, OffInv
  <2>4. off \in BOOLEAN
    BY <1>1 DEF IInv, TypeInv
  <2> QED
    BY <2>3, <2>4
<1> QED
  BY Inductive, <1>1, PTL DEF FillSafe

-----------------------------------------------------------------------------
(* What the messages under way make of the prompt. *)

now ==
  [content |-> content, body |-> body, group |-> group, shown |-> shown,
   dismissed |-> dismissed, gap |-> gap, loose |-> loose]

Filled(s, m) ==
  LET place == IF m.footer THEN "footer" ELSE IF s.group = None THEN "flex" ELSE s.group IN
  IF place = "gone" THEN s.content
  ELSE Append(s.content, [kind |-> m.kind, place |-> place])
After(s, m) ==
  LET empties == m.op \in Bounds IN
  [content |-> IF empties THEN <<>> ELSE IF m.op = "button" THEN Filled(s, m) ELSE s.content,
   body |-> IF m.op = "begin" THEN FALSE ELSE IF m.op \in {"end", "text"} THEN TRUE ELSE s.body,
   group |-> IF empties THEN IF s.group = "open" THEN "gone" ELSE s.group
             ELSE IF m.op = "group_start" THEN "open"
             ELSE IF m.op = "group_end" THEN None ELSE s.group,
   shown |-> IF m.op = "show" THEN TRUE ELSE IF m.op = "end" THEN FALSE ELSE s.shown,
   dismissed |-> IF m.op = "show" THEN FALSE ELSE s.dismissed,
   gap |-> IF empties THEN FALSE ELSE s.gap,
   loose |-> IF empties THEN s.group /= None ELSE s.loose]

(* h[k] is the prompt once the first k messages of q are handled, from s on. *)
Replays(h, q, s) ==
  h = [k \in 0..Len(q) |-> IF k = 0 THEN s ELSE After(h[k - 1], q[k])]

(* The prompt is the one the lines declare. *)
Fits(s, lines) ==
  ~s.gap /\ ~s.loose =>
    /\ s.content = Declared(lines)
    /\ s.body <=> (Begun(lines) => TextIn(lines))
    /\ s.group = IF Inside(lines, Len(lines)) THEN "open" ELSE None
    /\ ShowIn(lines) => (s.shown <=> ~s.dismissed)
    /\ Ended(lines) /\ ~ShowIn(lines) => ~s.shown

(* With what is under way handled, the prompt is the one Klipper wrote. *)
SaidInv ==
  /\ said \in Seq(Lines)
  /\ dismissed \in BOOLEAN /\ gap \in BOOLEAN /\ loose \in BOOLEAN
  /\ shown => ~dismissed
  /\ \A h : Replays(h, inbox, now) => Fits(h[Len(inbox)], said)

-----------------------------------------------------------------------------
(* The buttons that lines declare. *)

LEMMA Smallest ==
  ASSUME NEW S \in SUBSET Nat, S /= {}
  PROVE  \E m \in S : \A k \in S : m <= k
<1> DEFINE R == OpToRel(<, Nat)
<1>1. IsWellFoundedOn(R, Nat)
  BY NatLessThanWellFounded
<1>2. R = {p \in Nat \X Nat : p[1] < p[2]}
  BY DEF OpToRel
<1> HIDE DEF R
<1>3. PICK m \in S : \A k \in S : <<k, m>> \notin R
  BY <1>1, WFMin
<1>4. ASSUME NEW k \in S PROVE m <= k
  <2>1. <<k, m>> \in Nat \X Nat /\ <<k, m>>[1] = k /\ <<k, m>>[2] = m
    OBVIOUS
  <2>2. ~(k < m)
    BY <1>2, <1>3, <2>1
  <2> QED
    BY <2>2
<1> QED
  BY <1>4

(* The buttons of the first lines, up to the n-th.                           *)
Builds(h, n, lines) ==
  h = [k \in 0..n |->
        IF k = 0 THEN <<>>
        ELSE IF lines[k].op = "button" THEN Append(h[k - 1], Placed(lines, k))
        ELSE h[k - 1]]

LEMMA BuildsExist ==
  ASSUME NEW lines
  PROVE  \A n \in Nat : \E h : Builds(h, n, lines)
<1> DEFINE Bad == {n \in Nat : ~\E h : Builds(h, n, lines)}
<1> SUFFICES ASSUME Bad /= {} PROVE FALSE
  OBVIOUS
<1>1. PICK m \in Bad : \A n \in Bad : m <= n
  <2>1. Bad \in SUBSET Nat
    OBVIOUS
  <2> HIDE DEF Bad
  <2> QED
    BY <2>1, Smallest
<1>2. m /= 0
  <2>1. Builds([k \in 0..0 |-> <<>>], 0, lines)
    BY DEF Builds
  <2> QED
    BY <2>1
<1>3. m \in Nat /\ m - 1 \in Nat /\ m - 1 \notin Bad
  BY <1>1, <1>2
<1>4. PICK h : Builds(h, m - 1, lines)
  BY <1>3
<1> DEFINE last == IF lines[m].op = "button" THEN Append(h[m - 1], Placed(lines, m)) ELSE h[m - 1]
           g == [k \in 0..m |-> IF k = m THEN last ELSE h[k]]
<1>5. Builds(g, m, lines)
  <2>1. ASSUME NEW k \in 0..m
        PROVE  g[k] = IF k = 0 THEN <<>>
                      ELSE IF lines[k].op = "button" THEN Append(g[k - 1], Placed(lines, k))
                      ELSE g[k - 1]
    <3>1. CASE k = m
      <4>1. m - 1 \in 0..m /\ m - 1 /= m
        BY <1>2, <1>3
      <4>2. g[m - 1] = h[m - 1]
        BY <4>1
      <4> QED
        BY <1>2, <3>1, <4>2
    <3>2. CASE k /= m
      <4>1. k \in 0..(m - 1) /\ g[k] = h[k]
        BY <1>3, <3>2
      <4>2. h[k] = IF k = 0 THEN <<>>
                   ELSE IF lines[k].op = "button" THEN Append(h[k - 1], Placed(lines, k))
                   ELSE h[k - 1]
        BY <1>4, <4>1 DEF Builds
      <4>3. k /= 0 => k - 1 \in 0..m /\ k - 1 /= m
        BY <1>3, <4>1
      <4>4. k /= 0 => g[k - 1] = h[k - 1]
        BY <4>3
      <4> QED
        BY <4>1, <4>2, <4>4
    <3> QED
      BY <3>1, <3>2
  <2> HIDE DEF g
  <2>2. g = [k \in 0..m |-> g[k]]
    BY DEF g
  <2> QED
    BY <2>1, <2>2 DEF Builds
<1> QED
  BY <1>1, <1>5

(* Declared builds up; how does not depend on what comes after.              *)
LEMMA DeclaredBuilds ==
  ASSUME NEW lines, Len(lines) \in Nat
  PROVE  \E h : Builds(h, Len(lines), lines) /\ Declared(lines) = h[Len(lines)]
<1> DEFINE h == CHOOSE h : Builds(h, Len(lines), lines)
<1>1. Builds(h, Len(lines), lines)
  BY BuildsExist
<1>2. Declared(lines) = h[Len(lines)]
  BY DEF Declared, Builds
<1> QED
  BY <1>1, <1>2

LEMMA BuildsAgree ==
  ASSUME NEW lines, NEW more, NEW n \in Nat, NEW m \in Nat, n <= m,
         NEW h, Builds(h, n, lines), NEW g, Builds(g, m, more),
         \A k \in 1..n : lines[k] = more[k] /\ Placed(lines, k) = Placed(more, k)
  PROVE  \A k \in 0..n : h[k] = g[k]
<1> DEFINE Bad == {k \in 0..n : h[k] /= g[k]}
<1> SUFFICES ASSUME Bad /= {} PROVE FALSE
  OBVIOUS
<1>1. PICK b \in Bad : \A k \in Bad : b <= k
  <2>1. Bad \in SUBSET Nat
    OBVIOUS
  <2> HIDE DEF Bad
  <2> QED
    BY <2>1, Smallest
<1>2. /\ \A k \in 0..n :
           h[k] = IF k = 0 THEN <<>>
                  ELSE IF lines[k].op = "button" THEN Append(h[k - 1], Placed(lines, k))
                  ELSE h[k - 1]
      /\ \A k \in 0..m :
           g[k] = IF k = 0 THEN <<>>
                  ELSE IF more[k].op = "button" THEN Append(g[k - 1], Placed(more, k))
                  ELSE g[k - 1]
  BY DEF Builds
<1>3. b \in 0..n /\ b \in 0..m /\ h[b] /= g[b]
  BY <1>1
<1>4. b /= 0
  BY <1>2, <1>3
<1>5. b \in 1..n /\ b - 1 \in 0..n /\ b - 1 \notin Bad
  BY <1>1, <1>3, <1>4
<1>6. h[b - 1] = g[b - 1]
  BY <1>5
<1>7. lines[b] = more[b] /\ Placed(lines, b) = Placed(more, b)
  BY <1>5
<1> QED
  BY <1>2, <1>3, <1>4, <1>6, <1>7

(* One more line declares one more button, or none.                          *)
LEMMA DeclaredAppend ==
  ASSUME NEW lines \in Seq(Lines), NEW x \in Lines
  PROVE  /\ Declared(Append(lines, x)) =
              IF x.op = "button"
              THEN Append(Declared(lines), Placed(Append(lines, x), Len(lines) + 1))
              ELSE Declared(lines)
         /\ Inside(Append(lines, x), Len(lines) + 1) <=>
              x.op = "group_start" \/ (x.op /= "group_end" /\ Inside(lines, Len(lines)))
<1> DEFINE n == Len(lines)
           more == Append(lines, x)
<1>1. /\ n \in Nat /\ Len(more) = n + 1 /\ more[n + 1] = x
      /\ \A k \in 1..n : more[k] = lines[k]
  OBVIOUS
<1> HIDE DEF n, more
<1>2. ASSUME NEW k \in 1..n
      PROVE  Placed(more, k) = Placed(lines, k)
  <2>1. more[k] = lines[k] /\ \A j \in 1..k : j \in 1..n /\ more[j] = lines[j]
    BY <1>1
  <2>2. \A j \in 1..k : \A i \in j..k : i \in 1..k
    BY <1>1
  <2>3. Inside(more, k) <=> Inside(lines, k)
    BY <2>1, <2>2 DEF Inside
  <2> QED
    BY <2>1, <2>3 DEF Placed
<1>3. PICK h : Builds(h, n, lines) /\ Declared(lines) = h[n]
  BY <1>1, DeclaredBuilds DEF n
<1>4. PICK g : Builds(g, n + 1, more) /\ Declared(more) = g[n + 1]
  BY <1>1, DeclaredBuilds
<1>5. h[n] = g[n]
  <2>1. \A k \in 0..n : h[k] = g[k]
    BY <1>1, <1>2, <1>3, <1>4, BuildsAgree
  <2> QED
    BY <1>1, <2>1
<1>6. g[n + 1] = IF x.op = "button" THEN Append(g[n], Placed(more, n + 1)) ELSE g[n]
  <2>1. n + 1 \in 0..(n + 1) /\ n + 1 /= 0 /\ (n + 1) - 1 = n
    BY <1>1
  <2>2. \A k \in 0..(n + 1) :
          g[k] = IF k = 0 THEN <<>>
                 ELSE IF more[k].op = "button" THEN Append(g[k - 1], Placed(more, k))
                 ELSE g[k - 1]
    BY <1>4 DEF Builds
  <2> QED
    BY <1>1, <2>1, <2>2
<1>7. Inside(more, n + 1) <=> x.op = "group_start" \/ (x.op /= "group_end" /\ Inside(lines, n))
  <2>1. ASSUME x.op = "group_start" PROVE Inside(more, n + 1)
    <3>1. n + 1 \in 1..(n + 1) /\ \A k \in (n + 1)..(n + 1) : k = n + 1
      BY <1>1
    <3> QED
      BY <1>1, <2>1, <3>1 DEF Inside
  <2>2. ASSUME x.op /= "group_end", Inside(lines, n) PROVE Inside(more, n + 1)
    <3>1. PICK j \in 1..n : lines[j].op = "group_start"
                            /\ \A k \in j..n : lines[k].op /= "group_end"
      BY <2>2 DEF Inside
    <3>2. j \in 1..(n + 1) /\ more[j] = lines[j]
          /\ \A k \in j..(n + 1) : k = n + 1 \/ (k \in j..n /\ more[k] = lines[k])
      BY <1>1
    <3> QED
      BY <1>1, <2>2, <3>1, <3>2 DEF Inside
  <2>3. ASSUME Inside(more, n + 1), x.op /= "group_start"
        PROVE  x.op /= "group_end" /\ Inside(lines, n)
    <3>1. PICK j \in 1..(n + 1) : more[j].op = "group_start"
                                  /\ \A k \in j..(n + 1) : more[k].op /= "group_end"
      BY <2>3 DEF Inside
    <3>2. j \in 1..n /\ n + 1 \in j..(n + 1)
      BY <1>1, <2>3, <3>1
    <3>3. \A k \in j..n : k \in j..(n + 1) /\ more[k] = lines[k]
      BY <1>1, <3>2
    <3>4. j \in j..n /\ lines[j] = more[j]
      BY <1>1, <3>2
    <3> QED
      BY <1>1, <3>1, <3>2, <3>3, <3>4 DEF Inside
  <2> QED
    BY <2>1, <2>2, <2>3
<1> QED
  BY <1>3, <1>4, <1>5, <1>6, <1>7 DEF n, more

(* A prompt_begin or prompt_end alone declares nothing.                      *)
LEMMA DeclaredNothing ==
  /\ Declared(<<>>) = <<>> /\ ~Inside(<<>>, 0)
  /\ \A x \in Lines : x.op \in Bounds => Declared(<<x>>) = <<>> /\ ~Inside(<<x>>, 1)
<1>1. Declared(<<>>) = <<>> /\ ~Inside(<<>>, 0)
  <2>1. Len(<<>>) = 0
    OBVIOUS
  <2>2. PICK h : Builds(h, 0, <<>>) /\ Declared(<<>>) = h[0]
    BY <2>1, DeclaredBuilds
  <2> QED
    BY <2>2 DEF Builds, Inside
<1>2. ASSUME NEW x \in Lines, x.op \in Bounds
      PROVE  Declared(<<x>>) = <<>> /\ ~Inside(<<x>>, 1)
  <2>1. x.op \notin {"button", "group_start", "group_end"}
    BY <1>2 DEF Bounds
  <2>2. <<x>> = Append(<<>>, x) /\ <<>> \in Seq(Lines) /\ Len(<<>>) = 0
    OBVIOUS
  <2>3. /\ Declared(Append(<<>>, x)) = Declared(<<>>)
        /\ Inside(Append(<<>>, x), Len(<<>>) + 1) => Inside(<<>>, Len(<<>>))
    BY ONLY <1>2, <2>1, <2>2, DeclaredAppend
  <2>4. ~Inside(Append(<<>>, x), 1)
    <3>1. Len(<<>>) = 0 /\ Len(<<>>) + 1 = 1
      OBVIOUS
    <3> QED
      BY <1>1, <2>3, <3>1
  <2> QED
    BY <1>1, <2>2, <2>3, <2>4
<1> QED
  BY <1>1, <1>2

-----------------------------------------------------------------------------
(* One line more, written and handled, keeps the prompt as declared.         *)

LEMMA FitsBound ==
  ASSUME NEW s, NEW x \in Lines, x.op \in Bounds
  PROVE  Fits(After(s, x), <<x>>)
<1>1. Declared(<<x>>) = <<>> /\ ~Inside(<<x>>, 1) /\ Len(<<x>>) = 1 /\ Head(<<x>>) = x
  BY DeclaredNothing
<1>0. After(s, x).body <=> (Begun(<<x>>) => TextIn(<<x>>))
  <2>1. x.op \in {"begin", "end"} /\ Head(<<x>>) = x /\ <<x>> /= <<>> /\ ~TextIn(<<x>>)
    BY <1>1 DEF Bounds, TextIn
  <2>2. Begun(<<x>>) <=> x.op = "begin"
    BY <2>1 DEF Begun
  <2>3. After(s, x).body = (IF x.op = "begin" THEN FALSE ELSE TRUE)
    BY <2>1 DEF After
  <2> QED
    BY <2>1, <2>2, <2>3
<1>2. ~ShowIn(<<x>>)
  BY DEF ShowIn, ShowAfter, Bounds
<1> DEFINE t == After(s, x)
<1>3. /\ t.content = <<>>
      /\ t.group = (IF s.group = "open" THEN "gone" ELSE s.group)
      /\ t.loose = (s.group /= None)
  BY DEF After
<1>4. x.op = "end" => ~t.shown
  BY DEF After
<1> HIDE DEF t
<1>5. ~t.loose => t.group = None
  BY <1>3, PromptAssumption
<1> QED
  BY <1>0, <1>1, <1>2, <1>3, <1>4, <1>5 DEF Fits, Ended, t

LEMMA FitsAppend ==
  ASSUME NEW s, NEW lines \in Seq(Lines), NEW x \in Lines, x.op \notin Bounds, Fits(s, lines)
  PROVE  Fits(After(s, x), Append(lines, x))
<1> DEFINE t == After(s, x)
           more == Append(lines, x)
<1>1. t.gap = s.gap /\ t.loose = s.loose
  BY DEF After
<1>2. /\ Len(lines) \in Nat /\ Len(more) = Len(lines) + 1 /\ more[Len(more)] = x
      /\ \A i \in DOMAIN lines : i \in DOMAIN more /\ more[i] = lines[i]
      /\ \A i \in DOMAIN more : i > 0 /\ (i \in DOMAIN lines \/ i = Len(more))
      /\ Len(more) \in DOMAIN more
  OBVIOUS
<1> SUFFICES ASSUME ~s.gap, ~s.loose
             PROVE  /\ t.content = Declared(more)
                    /\ t.body <=> (Begun(more) => TextIn(more))
                    /\ t.group = IF Inside(more, Len(more)) THEN "open" ELSE None
                    /\ ShowIn(more) => (t.shown <=> ~t.dismissed)
                    /\ Ended(more) /\ ~ShowIn(more) => ~t.shown
  BY <1>1 DEF Fits
<1>3. /\ s.content = Declared(lines)
      /\ s.body <=> (Begun(lines) => TextIn(lines))
      /\ s.group = IF Inside(lines, Len(lines)) THEN "open" ELSE None
      /\ ShowIn(lines) => (s.shown <=> ~s.dismissed)
      /\ Ended(lines) /\ ~ShowIn(lines) => ~s.shown
  BY DEF Fits
<1>4. /\ Declared(more) = IF x.op = "button" THEN Append(Declared(lines), Placed(more, Len(more)))
                          ELSE Declared(lines)
      /\ Inside(more, Len(more)) <=>
           x.op = "group_start" \/ (x.op /= "group_end" /\ Inside(lines, Len(lines)))
  <2>1. Len(more) = Len(lines) + 1
    BY <1>2
  <2> QED
    BY <2>1, DeclaredAppend
<1>5. t.group = IF Inside(more, Len(more)) THEN "open" ELSE None
  BY <1>3, <1>4 DEF After
<1>6. t.content = Declared(more)
  <2>1. CASE x.op = "button"
    <3>1. Placed(more, Len(more)) =
            [kind |-> x.kind, place |-> IF x.footer THEN "footer"
                                        ELSE IF Inside(lines, Len(lines)) THEN "open" ELSE "flex"]
      BY <1>2, <1>4, <2>1 DEF Placed
    <3>2. Filled(s, x) = Append(s.content, Placed(more, Len(more)))
      BY <1>3, <3>1, PromptAssumption DEF Filled
    <3> QED
      BY <1>3, <1>4, <2>1, <3>2 DEF After
  <2>2. CASE x.op /= "button"
    BY <1>3, <1>4, <2>2 DEF After
  <2> QED
    BY <2>1, <2>2
<1>7. ShowIn(more) <=> ShowIn(lines) \/ x.op = "show"
  BY <1>2 DEF ShowIn, ShowAfter
<1>8. Ended(more) => Ended(lines)
  <2>1. CASE lines = <<>>
    BY <2>1 DEF Ended, Bounds
  <2>2. CASE lines /= <<>>
    BY <2>2 DEF Ended
  <2> QED
    BY <2>1, <2>2
<1>10. t.body <=> (Begun(more) => TextIn(more))
  <2>1. TextIn(more) <=> TextIn(lines) \/ x.op = "text"
    BY <1>2 DEF TextIn
  <2>2. Begun(more) <=> Begun(lines)
    <3>1. CASE lines = <<>>
      BY <3>1 DEF Begun, Bounds
    <3>2. CASE lines /= <<>>
      BY <3>2 DEF Begun
    <3> QED
      BY <3>1, <3>2
  <2>3. t.body = (IF x.op = "text" THEN TRUE ELSE s.body)
    BY DEF After, Bounds
  <2> HIDE DEF t, more
  <2> QED
    BY <1>3, <2>1, <2>2, <2>3
<1>9. /\ t.shown = IF x.op = "show" THEN TRUE ELSE s.shown
      /\ t.dismissed = IF x.op = "show" THEN FALSE ELSE s.dismissed
  BY DEF After, Bounds
<1> HIDE DEF t, more
<1> QED
  BY <1>3, <1>5, <1>6, <1>7, <1>8, <1>9, <1>10

-----------------------------------------------------------------------------
(* What a queue that changes at its ends makes of the prompt. *)

LEMMA ReplayValues ==
  ASSUME NEW q \in Seq(Messages), NEW s, NEW h, Replays(h, q, s)
  PROVE  /\ h[0] = s
         /\ \A k \in 1..Len(q) : h[k] = After(h[k - 1], q[k])
<1>1. Len(q) \in Nat
  OBVIOUS
<1> QED
  BY <1>1 DEF Replays

LEMMA ReplayTail ==
  ASSUME NEW q \in Seq(Messages), q /= <<>>, NEW s, NEW h,
         Replays(h, Tail(q), After(s, Head(q)))
  PROVE  \E g : Replays(g, q, s) /\ g[Len(q)] = h[Len(Tail(q))]
<1> DEFINE g == [k \in 0..Len(q) |-> IF k = 0 THEN s ELSE h[k - 1]]
           n == Len(q)
<1>1. /\ n \in Nat /\ n >= 1 /\ Len(Tail(q)) = n - 1 /\ q[1] = Head(q)
      /\ \A k \in 1..(n - 1) : Tail(q)[k] = q[k + 1]
  OBVIOUS
<1>2. \A k \in 0..(n - 1) :
        h[k] = IF k = 0 THEN After(s, q[1]) ELSE After(h[k - 1], Tail(q)[k])
  BY <1>1 DEF Replays
<1>3. ASSUME NEW k \in 0..n
      PROVE  g[k] = IF k = 0 THEN s ELSE After(g[k - 1], q[k])
  <2>1. CASE k = 0
    BY <2>1
  <2>2. CASE k = 1
    <3>1. g[1] = h[0] /\ g[0] = s
      BY <1>1
    <3>2. h[0] = After(s, q[1])
      BY <1>1, <1>2
    <3> QED
      BY <2>2, <3>1, <3>2
  <2>3. CASE k > 1
    <3>1. /\ k - 1 \in 0..(n - 1) /\ k - 1 \in 1..(n - 1) /\ k - 1 \in 0..n /\ k - 1 /= 0
          /\ (k - 1) + 1 = k
      BY <1>1, <2>3
    <3>2. g[k] = h[k - 1] /\ g[k - 1] = h[(k - 1) - 1]
      BY <2>3, <3>1
    <3>3. h[k - 1] = After(h[(k - 1) - 1], q[k])
      BY <1>1, <1>2, <3>1
    <3> QED
      BY <2>3, <3>2, <3>3
  <2> QED
    BY <1>1, <2>1, <2>2, <2>3
<1>4. g = [k \in 0..n |-> g[k]] /\ g[n] = h[n - 1]
  BY <1>1
<1> HIDE DEF g
<1>5. Replays(g, q, s)
  BY <1>3, <1>4 DEF Replays
<1> QED
  BY <1>1, <1>4, <1>5

LEMMA ReplayFront ==
  ASSUME NEW q \in Seq(Messages), NEW x \in Messages, NEW s, NEW h, Replays(h, Append(q, x), s)
  PROVE  \E g : Replays(g, q, s) /\ h[Len(Append(q, x))] = After(g[Len(q)], x)
<1> DEFINE g == [k \in 0..Len(q) |-> h[k]]
           n == Len(q)
<1>1. /\ n \in Nat /\ Len(Append(q, x)) = n + 1 /\ Append(q, x)[n + 1] = x
      /\ \A k \in 1..n : Append(q, x)[k] = q[k]
  OBVIOUS
<1>2. \A k \in 0..(n + 1) : h[k] = IF k = 0 THEN s ELSE After(h[k - 1], Append(q, x)[k])
  BY <1>1 DEF Replays
<1>3. ASSUME NEW k \in 0..n
      PROVE  g[k] = IF k = 0 THEN s ELSE After(g[k - 1], q[k])
  <2>1. k \in 0..(n + 1) /\ g[k] = h[k]
    BY <1>1
  <2>2. k /= 0 => k - 1 \in 0..n /\ g[k - 1] = h[k - 1] /\ Append(q, x)[k] = q[k]
    BY <1>1
  <2> QED
    BY <1>2, <2>1, <2>2
<1>4. g = [k \in 0..n |-> g[k]] /\ g[n] = h[n]
  BY <1>1
<1>5. h[n + 1] = After(h[n], x)
  <2>1. n + 1 \in 0..(n + 1) /\ n + 1 /= 0 /\ (n + 1) - 1 = n
    BY <1>1
  <2> QED
    BY <1>1, <1>2, <2>1
<1> HIDE DEF g
<1>6. Replays(g, q, s)
  BY <1>3, <1>4 DEF Replays
<1> QED
  BY <1>1, <1>4, <1>5, <1>6

LEMMA ReplayNothing ==
  ASSUME NEW s, NEW h, Replays(h, <<>>, s)
  PROVE  Len(<<>>) = 0 /\ h[Len(<<>>)] = s
BY DEF Replays

-----------------------------------------------------------------------------
(* The steps that send, lose or touch. *)

LEMMA SaidInit == Init => SaidInv
<1> SUFFICES ASSUME Init PROVE SaidInv
  OBVIOUS
<1>1. /\ said = <<>> /\ inbox = <<>> /\ content = <<>> /\ dismissed = FALSE /\ gap = FALSE
      /\ loose = (group = "gone") /\ shown = FALSE /\ body = TRUE /\ group \in {None, "gone"}
  BY DEF Init
<1>2. loose \in BOOLEAN /\ said \in Seq(Lines)
  BY <1>1
<1>3. ~ShowIn(<<>>) /\ ~Ended(<<>>) /\ ~Begun(<<>>) /\ Len(<<>>) = 0
  BY DEF ShowIn, ShowAfter, Ended, Begun
<1>4. Fits(now, said)
  BY <1>1, <1>3, DeclaredNothing DEF Fits, now
<1>5. \A h : Replays(h, inbox, now) => Fits(h[Len(inbox)], said)
  BY <1>1, <1>4, ReplayNothing
<1> QED
  BY <1>1, <1>2, <1>5 DEF SaidInv

LEMMA SaidSame ==
  ASSUME SaidInv, UNCHANGED <<said, inbox, content, body, group, shown, dismissed, gap, loose>>
  PROVE  SaidInv'
BY DEF SaidInv, now

LEMMA SaidWrite ==
  ASSUME IInv, SaidInv, Write
  PROVE  SaidInv'
<1> DEFINE x == Head(out)
<1>1. /\ out /= <<>>
      /\ said' = IF x.op \in Bounds THEN <<x>> ELSE Append(said, x)
      /\ inbox' = IF up THEN Append(inbox, x) ELSE inbox
      /\ UNCHANGED <<content, body, group, shown, dismissed, loose>>
  BY DEF Write, prompt
<1>2. gap' <=> gap \/ ~up
  BY DEF Write
<1>3. gap' \in BOOLEAN
  BY Zenon DEF Write
<1>4. x \in Lines /\ x \in Messages /\ inbox \in Seq(Messages) /\ said \in Seq(Lines)
  BY <1>1, TailFacts DEF IInv, TypeInv, Messages, SaidInv
<1> HIDE DEF x
<1>5. said' \in Seq(Lines)
  BY <1>1, <1>4
<1>6. CASE up
  <2>1. now' = now
    <3>1. gap' = gap
      BY <1>2, <1>3, <1>6 DEF SaidInv
    <3> QED
      BY <1>1, <3>1 DEF now
  <2>2. ASSUME NEW h, Replays(h, Append(inbox, x), now)
        PROVE  Fits(h[Len(Append(inbox, x))], said')
    <3>1. PICK g : Replays(g, inbox, now)
                   /\ h[Len(Append(inbox, x))] = After(g[Len(inbox)], x)
      BY <1>4, <2>2, ReplayFront
    <3>2. Fits(g[Len(inbox)], said)
      BY <3>1 DEF SaidInv
    <3>3. Fits(After(g[Len(inbox)], x), said')
      BY <1>1, <1>4, <3>2, FitsBound, FitsAppend
    <3> QED
      BY <3>1, <3>3
  <2> QED
    BY <1>1, <1>3, <1>5, <1>6, <2>1, <2>2 DEF SaidInv
<1>7. CASE ~up
  <2>1. inbox' = <<>> /\ gap'
    BY <1>1, <1>2, <1>7 DEF IInv, MirrorInv
  <2>2. now'.gap
    BY <2>1 DEF now
  <2>3. \A h : Replays(h, inbox', now') => Fits(h[Len(inbox')], said')
    BY <2>1, <2>2, ReplayNothing DEF Fits
  <2> QED
    BY <1>1, <1>3, <1>5, <2>3 DEF SaidInv
<1> QED
  BY <1>6, <1>7

LEMMA SaidTold ==
  ASSUME IInv, SaidInv, NEW x \in Messages, x.op \in Session, inbox' = Append(inbox, x),
         UNCHANGED <<said, content, body, group, shown, dismissed, gap, loose>>
  PROVE  SaidInv'
<1>1. now' = now
  BY DEF now
<1>2. inbox \in Seq(Messages)
  BY DEF IInv, TypeInv
<1>3. ASSUME NEW h, Replays(h, Append(inbox, x), now)
      PROVE  Fits(h[Len(Append(inbox, x))], said)
  <2>1. PICK g : Replays(g, inbox, now)
                 /\ h[Len(Append(inbox, x))] = After(g[Len(inbox)], x)
    BY <1>2, <1>3, ReplayFront
  <2>2. Fits(g[Len(inbox)], said)
    BY <2>1 DEF SaidInv
  <2>3. Fits(After(g[Len(inbox)], x), said)
    BY <2>2 DEF After, Bounds, Session, Fits
  <2> QED
    BY <2>1, <2>3
<1> QED
  BY <1>1, <1>3 DEF SaidInv

LEMMA SaidTell ==
  ASSUME IInv, SaidInv, Report \/ Answer
  PROVE  SaidInv'
<1>1. PICK op \in {"status", "filled"} :
        inbox' = Append(inbox, [op |-> op, state |-> state])
  BY DEF Report, Answer
<1>2. [op |-> op, state |-> state] \in Messages /\ op \in Session
  BY DEF IInv, TypeInv, Messages, Session
<1>3. UNCHANGED <<said, content, body, group, shown, dismissed, gap, loose>>
  BY DEF Report, Answer, prompt
<1> QED
  BY <1>1, <1>2, <1>3, SaidTold

LEMMA SaidRestart ==
  ASSUME IInv, SaidInv, Restart
  PROVE  SaidInv'
<1>1. /\ inbox' = IF up THEN Append(inbox, [op |-> "ready"]) ELSE inbox
      /\ UNCHANGED <<said, content, body, group, shown, dismissed, gap, loose>>
  BY DEF Restart, prompt
<1>2. [op |-> "ready"] \in Messages /\ "ready" \in Session
  BY DEF Messages, Session
<1>3. CASE up
  BY <1>1, <1>2, <1>3, SaidTold
<1>4. CASE ~up
  BY <1>1, <1>4, SaidSame
<1> QED
  BY <1>3, <1>4

(* What is lost with the link was no line, or gap says so.                   *)
LEMMA SaidDrop ==
  ASSUME IInv, SaidInv, Drop
  PROVE  SaidInv'
<1>1. /\ inbox' = <<>> /\ said' = said
      /\ UNCHANGED <<content, body, group, shown, dismissed, loose>>
  BY DEF Drop, prompt
<1>2. gap' <=> gap \/ \E i \in DOMAIN inbox : inbox[i].op \notin Session
  BY DEF Drop
<1>3. gap' \in BOOLEAN
  BY Zenon DEF Drop
<1>4. CASE gap'
  <2>1. now'.gap
    BY <1>4 DEF now
  <2>2. \A h : Replays(h, inbox', now') => Fits(h[Len(inbox')], said')
    BY <1>1, <2>1, ReplayNothing DEF Fits
  <2> QED
    BY <1>1, <1>3, <2>2 DEF SaidInv
<1>5. CASE ~gap'
  <2>1. /\ ~gap /\ now' = now
        /\ \A i \in DOMAIN inbox : inbox[i].op \in Session
    <3>1. gap' = gap
      BY <1>2, <1>3, <1>5 DEF SaidInv
    <3> QED
      BY <1>1, <1>2, <1>5, <3>1 DEF now
  <2>2. ASSUME NEW i \in DOMAIN inbox
        PROVE  After(now, inbox[i]) = now
    BY <2>1 DEF After, now, Bounds, Session
  <2> DEFINE h == [k \in 0..Len(inbox) |-> now]
  <2>3. Len(inbox) \in Nat /\ DOMAIN inbox = 1..Len(inbox)
    BY DEF IInv, TypeInv
  <2>4. Replays(h, inbox, now)
    <3>1. ASSUME NEW k \in 0..Len(inbox)
          PROVE  now = IF k = 0 THEN now ELSE After(h[k - 1], inbox[k])
      <4>1. k /= 0 => k \in DOMAIN inbox /\ k - 1 \in 0..Len(inbox)
        BY <2>3
      <4> QED
        BY <2>2, <4>1
    <3> QED
      BY <3>1 DEF Replays
  <2>5. Fits(now, said)
    <3>1. h[Len(inbox)] = now
      BY <2>3
    <3> QED
      BY <2>4, <3>1 DEF SaidInv
  <2>6. \A g : Replays(g, inbox', now') => Fits(g[Len(inbox')], said')
    BY <1>1, <2>1, <2>5, ReplayNothing
  <2> QED
    BY <1>1, <1>3, <2>6 DEF SaidInv
<1> QED
  BY <1>4, <1>5

(* A prompt that a touch dismissed stays so until the next prompt_show.      *)
LEMMA StaysDismissed ==
  ASSUME NEW q \in Seq(Messages), NEW s, ~s.shown, s.dismissed, NEW h, Replays(h, q, s),
         ~ShowIn(q)
  PROVE  \A k \in 0..Len(q) : ~h[k].shown /\ h[k].dismissed
<1> DEFINE Good(k) == ~h[k].shown /\ h[k].dismissed
           Bad == {k \in 0..Len(q) : ~Good(k)}
<1>1. Len(q) \in Nat /\ DOMAIN q = 1..Len(q)
  OBVIOUS
<1>2. /\ h[0] = s
      /\ \A k \in 1..Len(q) : h[k] = After(h[k - 1], q[k])
  BY <1>1 DEF Replays
<1>3. ASSUME NEW k \in 1..Len(q), Good(k - 1) PROVE Good(k)
  <2>1. q[k].op /= "show"
    BY <1>1 DEF ShowIn, ShowAfter
  <2>2. h[k].shown = (IF q[k].op = "end" THEN FALSE ELSE h[k - 1].shown)
        /\ h[k].dismissed = h[k - 1].dismissed
    <3> DEFINE t == After(h[k - 1], q[k])
    <3>1. t.shown = (IF q[k].op = "end" THEN FALSE ELSE h[k - 1].shown)
          /\ t.dismissed = h[k - 1].dismissed
      BY <2>1 DEF After
    <3>2. h[k] = t
      BY <1>2
    <3> HIDE DEF t
    <3> QED
      BY <3>1, <3>2
  <2> QED
    BY <1>3, <2>2
<1> HIDE DEF Good
<1>4. Good(0)
  BY <1>2 DEF Good
<1>5. Bad = {}
  <2> SUFFICES ASSUME Bad /= {} PROVE FALSE
    OBVIOUS
  <2>1. PICK m \in Bad : \A k \in Bad : m <= k
    <3>1. Bad \in SUBSET Nat
      BY <1>1
    <3> HIDE DEF Bad
    <3> QED
      BY <3>1, Smallest
  <2>2. m \in 1..Len(q) /\ m - 1 \in 0..Len(q) /\ m - 1 \notin Bad
    BY <1>1, <1>4, <2>1
  <2> QED
    BY <1>3, <2>1, <2>2
<1> QED
  BY <1>5 DEF Good

(* But for that, a touch changes nothing of what the messages will do.       *)
LEMMA ReplayTouched ==
  ASSUME NEW q \in Seq(Messages), NEW c, NEW bo, NEW gr, NEW ga, NEW lo, NEW h,
         Replays(h, q, [content |-> c, body |-> bo, group |-> gr, shown |-> FALSE,
                        dismissed |-> TRUE, gap |-> ga, loose |-> lo])
  PROVE  \E g : /\ Replays(g, q, [content |-> c, body |-> bo, group |-> gr, shown |-> TRUE,
                                  dismissed |-> FALSE, gap |-> ga, loose |-> lo])
                /\ LET s == g[Len(q)]
                       t == h[Len(q)] IN
                   /\ s.content = t.content /\ s.body = t.body /\ s.group = t.group
                   /\ s.gap = t.gap /\ s.loose = t.loose
                   /\ ShowIn(q) => s.shown = t.shown /\ s.dismissed = t.dismissed
<1> DEFINE Met(k, op) == \E i \in 1..k : q[i].op = op
           g == [k \in 0..Len(q) |->
                  [content |-> h[k].content, body |-> h[k].body, group |-> h[k].group,
                   shown |-> IF Met(k, "show") THEN h[k].shown
                             ELSE IF Met(k, "end") THEN FALSE ELSE TRUE,
                   dismissed |-> IF Met(k, "show") THEN h[k].dismissed ELSE FALSE,
                   gap |-> h[k].gap, loose |-> h[k].loose]]
           n == Len(q)
           s0 == [content |-> c, body |-> bo, group |-> gr, shown |-> TRUE, dismissed |-> FALSE,
                  gap |-> ga, loose |-> lo]
           t0 == [content |-> c, body |-> bo, group |-> gr, shown |-> FALSE, dismissed |-> TRUE,
                  gap |-> ga, loose |-> lo]
<1>1. n \in Nat /\ DOMAIN q = 1..n
  OBVIOUS
<1>2. /\ h[0] = t0
      /\ \A k \in 1..n : h[k] = After(h[k - 1], q[k])
  BY ReplayValues
<1>3. g[0] = s0
  <2>1. ~Met(0, "show") /\ ~Met(0, "end") /\ 0 \in 0..n
    BY <1>1
  <2>2. h[0].content = c /\ h[0].body = bo /\ h[0].group = gr /\ h[0].gap = ga /\ h[0].loose = lo
    BY <1>2
  <2> HIDE DEF Met
  <2>3. g[0] = [content |-> h[0].content, body |-> h[0].body, group |-> h[0].group,
                shown |-> TRUE, dismissed |-> FALSE, gap |-> h[0].gap, loose |-> h[0].loose]
    BY <2>1
  <2> QED
    BY <2>2, <2>3
<1>4. ASSUME NEW k \in 1..n PROVE g[k] = After(g[k - 1], q[k])
  <2>1. /\ k \in 0..n /\ k - 1 \in 0..n /\ k \in 1..k
        /\ \A i \in 1..k : i = k \/ i \in 1..(k - 1)
        /\ \A i \in 1..(k - 1) : i \in 1..k
    BY <1>1
  <2>2. \A op : Met(k, op) <=> q[k].op = op \/ Met(k - 1, op)
    BY <2>1
  <2> HIDE DEF Met
  <2> DEFINE old == h[k - 1]
             new == After(old, q[k])
             mine == g[k - 1]
  <2>3. h[k] = new
    BY <1>2
  <2>4. /\ mine.content = old.content /\ mine.body = old.body /\ mine.group = old.group
        /\ mine.gap = old.gap /\ mine.loose = old.loose
        /\ mine.shown = (IF Met(k - 1, "show") THEN old.shown
                         ELSE IF Met(k - 1, "end") THEN FALSE ELSE TRUE)
        /\ mine.dismissed = (IF Met(k - 1, "show") THEN old.dismissed ELSE FALSE)
    BY <2>1
  <2>5. g[k] = [content |-> new.content, body |-> new.body, group |-> new.group,
                shown |-> IF Met(k, "show") THEN new.shown
                          ELSE IF Met(k, "end") THEN FALSE ELSE TRUE,
                dismissed |-> IF Met(k, "show") THEN new.dismissed ELSE FALSE,
                gap |-> new.gap, loose |-> new.loose]
    BY <2>1, <2>3
  <2> HIDE DEF g, mine, old
  <2>6. (IF Met(k, "show") THEN new.shown ELSE IF Met(k, "end") THEN FALSE ELSE TRUE)
          = After(mine, q[k]).shown
    <3>1. /\ new.shown = (IF q[k].op = "show" THEN TRUE
                          ELSE IF q[k].op = "end" THEN FALSE ELSE old.shown)
          /\ After(mine, q[k]).shown = (IF q[k].op = "show" THEN TRUE
                                        ELSE IF q[k].op = "end" THEN FALSE ELSE mine.shown)
      BY DEF After
    <3> HIDE DEF new
    <3>2. CASE q[k].op = "show"
      BY <2>2, <3>1, <3>2
    <3>3. CASE q[k].op = "end"
      BY <2>2, <3>1, <3>3
    <3>4. CASE q[k].op \notin {"show", "end"}
      BY <2>2, <2>4, <3>1, <3>4
    <3> QED
      BY <3>2, <3>3, <3>4
  <2>7. (IF Met(k, "show") THEN new.dismissed ELSE FALSE) = After(mine, q[k]).dismissed
    <3>1. /\ new.dismissed = (IF q[k].op = "show" THEN FALSE ELSE old.dismissed)
          /\ After(mine, q[k]).dismissed = (IF q[k].op = "show" THEN FALSE ELSE mine.dismissed)
      BY DEF After
    <3> HIDE DEF new
    <3> QED
      BY <2>2, <2>4, <3>1
  <2>8. /\ new.content = After(mine, q[k]).content /\ new.body = After(mine, q[k]).body
        /\ new.group = After(mine, q[k]).group
        /\ new.gap = After(mine, q[k]).gap /\ new.loose = After(mine, q[k]).loose
    BY <2>4 DEF After, Filled
  <2>9. After(mine, q[k]) =
          [content |-> After(mine, q[k]).content, body |-> After(mine, q[k]).body,
           group |-> After(mine, q[k]).group,
           shown |-> After(mine, q[k]).shown, dismissed |-> After(mine, q[k]).dismissed,
           gap |-> After(mine, q[k]).gap, loose |-> After(mine, q[k]).loose]
    BY DEF After
  <2> HIDE DEF new
  <2>10. g[k] = After(mine, q[k])
    BY <2>5, <2>6, <2>7, <2>8, <2>9
  <2> QED
    BY <2>10 DEF mine
<1>5. Met(n, "show") <=> ShowIn(q)
  BY <1>1 DEF ShowIn, ShowAfter
<1>6. /\ g[n].content = h[n].content /\ g[n].body = h[n].body /\ g[n].group = h[n].group
      /\ g[n].gap = h[n].gap /\ g[n].loose = h[n].loose
      /\ Met(n, "show") => g[n].shown = h[n].shown /\ g[n].dismissed = h[n].dismissed
  <2>1. n \in 0..n
    BY <1>1
  <2> HIDE DEF Met
  <2> QED
    BY <2>1
<1>7. g = [k \in 0..n |-> g[k]]
  OBVIOUS
<1> HIDE DEF g, Met
<1>8. Replays(g, q, s0)
  <2>1. \A k \in 0..n : g[k] = IF k = 0 THEN s0 ELSE After(g[k - 1], q[k])
    BY <1>1, <1>3, <1>4
  <2> QED
    BY <1>7, <2>1 DEF Replays
<1> QED
  BY <1>5, <1>6, <1>8

LEMMA SaidTouch ==
  ASSUME IInv, SaidInv, NEW i \in DOMAIN content, Touch(i)
  PROVE  SaidInv'
<1> DEFINE hides == content[i].kind = "resume" \/ (content[i].kind = "close" /\ ~manual)
<1>1. /\ shown /\ shown' = ~hides /\ UNCHANGED <<said, inbox, content, body, group, gap, loose>>
  BY DEF Touch
<1>2. dismissed' <=> dismissed \/ hides
  BY DEF Touch
<1>3. dismissed' \in BOOLEAN
  BY Zenon DEF Touch
<1>4. ~dismissed
  BY <1>1 DEF SaidInv
<1> HIDE DEF hides
<1>5. CASE ~hides
  <2>1. shown' = shown /\ dismissed' = dismissed
    BY <1>1, <1>2, <1>3, <1>4, <1>5 DEF SaidInv, IInv, TypeInv
  <2> QED
    BY <1>1, <2>1, SaidSame
<1>6. CASE hides
  <2>1. shown' = FALSE /\ dismissed' = TRUE /\ shown = TRUE /\ dismissed = FALSE
    BY <1>1, <1>2, <1>3, <1>4, <1>6 DEF SaidInv, IInv, TypeInv
  <2>2. /\ now' = [content |-> content, body |-> body, group |-> group, shown |-> FALSE,
                   dismissed |-> TRUE, gap |-> gap, loose |-> loose]
        /\ now = [content |-> content, body |-> body, group |-> group, shown |-> TRUE,
                  dismissed |-> FALSE, gap |-> gap, loose |-> loose]
    BY <1>1, <2>1 DEF now
  <2>3. inbox \in Seq(Messages) /\ Len(inbox) \in 0..Len(inbox)
    BY DEF IInv, TypeInv
  <2>4. ASSUME NEW h, Replays(h, inbox, now')
        PROVE  Fits(h[Len(inbox)], said)
    <3> DEFINE t == h[Len(inbox)]
    <3>1. PICK g : /\ Replays(g, inbox, now)
                   /\ LET s == g[Len(inbox)] IN
                      /\ s.content = t.content /\ s.body = t.body /\ s.group = t.group
                      /\ s.gap = t.gap /\ s.loose = t.loose
                      /\ ShowIn(inbox) => s.shown = t.shown /\ s.dismissed = t.dismissed
      BY <2>2, <2>3, <2>4, ReplayTouched
    <3>2. Fits(g[Len(inbox)], said)
      BY <3>1 DEF SaidInv
    <3>3. ~ShowIn(inbox) => ~t.shown /\ t.dismissed
      <4>1. ~now'.shown /\ now'.dismissed
        BY <2>2
      <4> HIDE DEF t
      <4> QED
        BY <2>3, <2>4, <4>1, StaysDismissed DEF t
    <3> HIDE DEF t
    <3>4. Fits(t, said)
      BY <3>1, <3>2, <3>3 DEF Fits
    <3> QED
      BY <3>4 DEF t
  <2> QED
    BY <1>1, <1>3, <2>1, <2>4 DEF SaidInv
<1> QED
  BY <1>5, <1>6

-----------------------------------------------------------------------------
(* The loop thread handles the message that the replay begins with. *)

LEMMA SaidReceived ==
  ASSUME IInv, SaidInv, NEW op, Receive(op), now' = After(now, Head(inbox)),
         dismissed' \in BOOLEAN, gap' \in BOOLEAN, loose' \in BOOLEAN, shown' => ~dismissed'
  PROVE  SaidInv'
<1>1. inbox /= <<>> /\ inbox' = Tail(inbox) /\ said' = said
  BY DEF Receive
<1>2. inbox \in Seq(Messages)
  BY DEF IInv, TypeInv
<1>3. ASSUME NEW h, Replays(h, inbox', now')
      PROVE  Fits(h[Len(inbox')], said')
  <2>1. PICK g : Replays(g, inbox, now) /\ g[Len(inbox)] = h[Len(inbox')]
    BY <1>1, <1>2, <1>3, ReplayTail
  <2> QED
    BY <1>1, <2>1 DEF SaidInv
<1> QED
  BY <1>1, <1>3 DEF SaidInv

LEMMA SaidSession ==
  ASSUME IInv, SaidInv, Status \/ Ready \/ Fill
  PROVE  SaidInv'
<1>1. PICK op \in Session : Receive(op) /\ Head(inbox).op = op
  BY DEF Status, Ready, Fill, Receive, Session
<1>2. UNCHANGED <<content, body, group, shown, dismissed, gap, loose>>
  BY DEF Status, Ready, Fill, prompt
<1>3. now' = now /\ After(now, Head(inbox)) = now
  BY <1>1, <1>2 DEF now, After, Bounds, Session
<1> QED
  BY <1>1, <1>2, <1>3, SaidReceived DEF SaidInv

LEMMA SaidBeginEnd ==
  ASSUME IInv, SaidInv, Begin \/ End
  PROVE  SaidInv'
<1>1. PICK op \in Bounds : /\ Receive(op) /\ Head(inbox).op = op
                           /\ shown' = (IF op = "end" THEN FALSE ELSE shown)
  BY DEF Begin, End, Receive, Bounds
<1>5. body' = (Head(inbox).op = "end")
  BY DEF Begin, End, Receive
<1>2. /\ content' = <<>> /\ group' = (IF group = "open" THEN "gone" ELSE group)
      /\ gap' = FALSE /\ dismissed' = dismissed /\ loose' = (group /= None)
  BY DEF Begin, End, Clean
<1>3. now' = After(now, Head(inbox))
  BY <1>1, <1>2, <1>5 DEF now, After, Bounds
<1>4. loose' \in BOOLEAN /\ gap' \in BOOLEAN /\ dismissed' \in BOOLEAN /\ (shown' => ~dismissed')
  BY <1>1, <1>2 DEF SaidInv
<1> QED
  BY <1>1, <1>3, <1>4, SaidReceived

LEMMA SaidGroup ==
  ASSUME IInv, SaidInv, Group \/ GroupEnd \/ Text
  PROVE  SaidInv'
<1>1. PICK op \in {"group_start", "group_end", "text"} :
        /\ Receive(op) /\ Head(inbox).op = op
        /\ group' = (IF op = "group_start" THEN "open"
                     ELSE IF op = "group_end" THEN None ELSE group)
        /\ body' = (IF op = "text" THEN TRUE ELSE body)
  BY DEF Group, GroupEnd, Text, Receive
<1>2. UNCHANGED <<content, shown, dismissed, gap, loose>>
  BY DEF Group, GroupEnd, Text
<1>3. now' = After(now, Head(inbox))
  BY <1>1, <1>2 DEF now, After, Bounds
<1> QED
  BY <1>1, <1>2, <1>3, SaidReceived DEF SaidInv

LEMMA SaidButton ==
  ASSUME IInv, SaidInv, Button
  PROVE  SaidInv'
<1>1. /\ Receive("button") /\ Head(inbox).op = "button"
      /\ UNCHANGED <<body, group, shown, dismissed, gap, loose>>
  BY DEF Button, Receive
<1>2. content' = Filled(now, Head(inbox))
  BY DEF Button, Filled, now
<1>3. now' = After(now, Head(inbox))
  BY <1>1, <1>2 DEF now, After, Bounds
<1> QED
  BY <1>1, <1>3, SaidReceived DEF SaidInv

LEMMA SaidShow ==
  ASSUME IInv, SaidInv, Show
  PROVE  SaidInv'
<1>1. /\ Receive("show") /\ Head(inbox).op = "show"
      /\ shown' = TRUE /\ dismissed' = FALSE /\ UNCHANGED <<content, body, group, gap, loose>>
  BY DEF Show, Receive
<1>2. now' = After(now, Head(inbox))
  BY <1>1 DEF now, After, Bounds
<1> QED
  BY <1>1, <1>2, SaidReceived DEF SaidInv

(* With every line handled the prompt is the one Klipper wrote last, buttons *)
(* in their groups (prompt_panel.cpp:280-566), for any macros, also those    *)
(* that begin a prompt inside another or add buttons after prompt_end.       *)
THEOREM AsWritten == Spec => []PromptAsWritten
<1>1. ASSUME IInv, SaidInv, [Next]_vars PROVE SaidInv'
  <2>1. CASE UNCHANGED vars
    BY <1>1, <2>1, SaidSame DEF vars, klipper, prompt
  <2>2. CASE \E m \in Macros : StartMacro(m)
    BY <1>1, <2>2, SaidSame DEF StartMacro, prompt
  <2>3. CASE RunJob \/ \E s \in States : PrintChanges(s)
    BY <1>1, <2>3, SaidSame DEF RunJob, PrintChanges, prompt
  <2>4. CASE Reconnect
    BY <1>1, <2>4, SaidSame DEF Reconnect, prompt
  <2> QED
    BY <1>1, <2>1, <2>2, <2>3, <2>4, SaidWrite, SaidTell, SaidRestart, SaidDrop, SaidTouch,
       SaidSession, SaidBeginEnd, SaidGroup, SaidButton, SaidShow
    DEF Next, LoopThread
<1>2. IInv /\ SaidInv => PromptAsWritten
  <2> SUFFICES ASSUME IInv, SaidInv, Settled, ~gap, ~loose
               PROVE  /\ content = Declared(said)
                      /\ body = (Begun(said) => TextIn(said))
                      /\ IF ShowIn(said) THEN shown = ~dismissed ELSE Ended(said) => ~shown
    BY DEF PromptAsWritten
  <2> DEFINE h == [k \in 0..0 |-> now]
  <2>1. inbox = <<>> /\ Len(inbox) = 0
    BY DEF Settled
  <2>2. Replays(h, inbox, now) /\ h[Len(inbox)] = now
    BY <2>1 DEF Replays
  <2>3. Fits(now, said)
    BY <2>2 DEF SaidInv
  <2>4. /\ content = Declared(said)
        /\ body <=> (Begun(said) => TextIn(said))
        /\ ShowIn(said) => (shown <=> ~dismissed)
        /\ Ended(said) /\ ~ShowIn(said) => ~shown
    BY <2>3 DEF Fits, now
  <2>5. shown \in BOOLEAN /\ dismissed \in BOOLEAN /\ body \in BOOLEAN
    BY DEF IInv, TypeInv, SaidInv
  <2> QED
    BY <2>4, <2>5
<1> QED
  BY Inductive, SaidInit, <1>1, <1>2, PTL DEF Spec
=============================================================================
