----------------------------- MODULE SessionProofs -----------------------------
(***************************************************************************)
(* Theorems about Session for any configuration of the printer and any     *)
(* number of losses: types, the two copies of a sensor's value, and the    *)
(* notice after Klipper or the link is gone.                               *)
(***************************************************************************)
EXTENDS Session, TLAPS, WellFoundedInduction

Gone == {"close", "klippy_disconnected"}
Hides(m) == m.kind = "subscribe" /\ m.ok

(* A message that will show the notice is on its way, and none behind it     *)
(* hides it but a refused subscription.                                      *)
WillShow(q) ==
  \E i \in DOMAIN q : q[i].kind \in Gone /\ \A j \in DOMAIN q : j > i => ~Hides(q[j])
WontHide(q) == \A i \in DOMAIN q : ~Hides(q[i])

NoticeInv ==
  ~Online => WillShow(inbox) \/ ((screen.notice \/ refused) /\ WontHide(inbox))

(* The last message about an object that is on its way gives it the value t; *)
(* if there is none, State has it, v.                                        *)
Starts == {"open", "klippy_ready"}
Touches(m, o) ==
  \/ m.kind \in Starts
  \/ m.kind = "update" /\ m.obj = o
  \/ m.kind = "subscribe" /\ m.snap[o] /= Absent
Gives(m, o) ==
  IF m.kind \in Starts THEN Absent ELSE IF m.kind = "update" THEN m.val ELSE m.snap[o]
LastTouches(q, i, o) == Touches(q[i], o) /\ \A j \in DOMAIN q : j > i => ~Touches(q[j], o)
Follows(q, o, t, v) ==
  /\ \A i \in DOMAIN q : LastTouches(q, i, o) => Gives(q[i], o) = t
  /\ (\A i \in DOMAIN q : ~Touches(q[i], o)) => v = t

MirrorInv ==
  /\ ~linkUp => reqs = <<>>
  /\ ~Online => sub = {}
  /\ Online => \A o \in sub : Follows(inbox, o, truth[o], screen.mirror[o])

(* Behind the last message that starts a session come only answers and       *)
(* updates of the present configuration.                                     *)
Current(m) ==
  \/ m.kind = "list" /\ m.ok /\ m.objs = config
  \/ m.kind = "subscribe" /\ m.ok /\ \A o \in Objects \ config : m.snap[o] = Absent
  \/ m.kind = "update" /\ m.obj \in config
Pending(q, kinds) == \E i \in DOMAIN q : q[i].kind \in kinds
Behind(q, i, kinds) == \E j \in DOMAIN q : j > i /\ q[j].kind \in kinds
CurrentInv ==
  Online =>
    /\ sub \subseteq config
    /\ \A i \in DOMAIN inbox :
         Current(inbox[i]) \/ inbox[i].kind \in Starts \/ Behind(inbox, i, Starts)

(* Once the session has started again, a subscription made for an earlier    *)
(* configuration has another list behind it, as its answer has.              *)
Started == Online /\ ~Pending(inbox, Starts)
Full(m) == \A o \in config : m.snap[o] /= Absent
RequestInv ==
  Started =>
    /\ \A i \in DOMAIN reqs : reqs[i].kind = "subscribe" =>
         reqs[i].objs = config \/ Behind(reqs, i, {"list"})
    /\ \A i \in DOMAIN inbox : inbox[i].kind = "subscribe" =>
         Full(inbox[i]) \/ Pending(reqs, {"list"}) \/ Behind(inbox, i, {"list"})

(* The steps of a start: each is done or still to come.                      *)
Listing == Pending(reqs, {"list"}) \/ Pending(inbox, {"list"})
Subscribing == Listing \/ Pending(reqs, {"subscribe"})
Filling == Subscribing \/ Pending(inbox, {"subscribe"})
StageInv ==
  Started =>
    /\ \A o \in Objects \ config : screen.mirror[o] = Absent
    /\ Listing \/ (screen.known = config
                    /\ {o \in Objects : screen.cards[o] /= NoCard} = Displayed(config))
    /\ Subscribing \/ sub = config
    /\ Filling \/ (~screen.notice /\ \A o \in Objects : screen.cards[o] /= Absent)

IInv ==
  /\ TypeOK /\ CardsFollowMirror /\ NoticeInv
  /\ MirrorInv /\ CurrentInv /\ RequestInv /\ StageInv

-----------------------------------------------------------------------------
(* Queues. *)

LEMMA TailFacts ==
  ASSUME NEW S, NEW q \in Seq(S), q /= <<>>
  PROVE  /\ Tail(q) \in Seq(S) /\ Head(q) \in S
         /\ 1 \in DOMAIN q /\ q[1] = Head(q)
         /\ \A i \in DOMAIN Tail(q) : i + 1 \in DOMAIN q /\ Tail(q)[i] = q[i + 1]
         /\ \A i \in DOMAIN q : i > 1 => i - 1 \in DOMAIN Tail(q) /\ Tail(q)[i - 1] = q[i]
  OBVIOUS

LEMMA AppendFacts ==
  ASSUME NEW S, NEW q \in Seq(S), NEW x \in S
  PROVE  /\ Append(q, x) \in Seq(S)
         /\ \A i \in DOMAIN q : i \in DOMAIN Append(q, x) /\ Append(q, x)[i] = q[i]
         /\ Len(q) + 1 \in DOMAIN Append(q, x) /\ Append(q, x)[Len(q) + 1] = x
         /\ \A i \in DOMAIN Append(q, x) : i \in DOMAIN q \/ i = Len(q) + 1
         /\ \A i \in DOMAIN q : i \in Nat /\ i < Len(q) + 1
  OBVIOUS

(* What the notice owes to the queue survives every message that joins it    *)
(* and does not hide it ...                                                  *)
LEMMA Joined ==
  ASSUME NEW S, NEW q \in Seq(S), NEW m \in S, ~Hides(m)
  PROVE  /\ WillShow(q) => WillShow(Append(q, m))
         /\ WontHide(q) => WontHide(Append(q, m))
<1> DEFINE a == Append(q, m)
<1>1. ASSUME WillShow(q) PROVE WillShow(a)
  <2>1. PICK i \in DOMAIN q : q[i].kind \in Gone /\ \A j \in DOMAIN q : j > i => ~Hides(q[j])
    BY <1>1 DEF WillShow
  <2>2. i \in DOMAIN a /\ a[i] = q[i]
    BY AppendFacts
  <2>3. ASSUME NEW j \in DOMAIN a, j > i PROVE ~Hides(a[j])
    BY <2>1, <2>3, AppendFacts
  <2> QED
    BY <2>1, <2>2, <2>3 DEF WillShow
<1>2. ASSUME WontHide(q) PROVE WontHide(a)
  BY <1>2, AppendFacts DEF WontHide
<1> QED
  BY <1>1, <1>2

(* ... and one that shows it settles the matter.                             *)
LEMMA Shows ==
  ASSUME NEW S, NEW q \in Seq(S), NEW m \in S, m.kind \in Gone
  PROVE  WillShow(Append(q, m))
<1> DEFINE a == Append(q, m)
<1>1. Len(q) + 1 \in DOMAIN a /\ a[Len(q) + 1] = m
  BY AppendFacts
<1>2. \A j \in DOMAIN a : ~(j > Len(q) + 1)
  BY AppendFacts
<1> QED
  BY <1>1, <1>2 DEF WillShow

LEMMA Left ==
  ASSUME NEW S, NEW q \in Seq(S), q /= <<>>
  PROVE  /\ WillShow(q) => WillShow(Tail(q)) \/ (Head(q).kind \in Gone /\ WontHide(Tail(q)))
         /\ WontHide(q) => ~Hides(Head(q)) /\ WontHide(Tail(q))
<1>1. ASSUME WillShow(q), ~WillShow(Tail(q))
      PROVE  Head(q).kind \in Gone /\ WontHide(Tail(q))
  <2>1. PICK i \in DOMAIN q : q[i].kind \in Gone /\ \A j \in DOMAIN q : j > i => ~Hides(q[j])
    BY <1>1 DEF WillShow
  <2>2. i \in Nat /\ i >= 1
    OBVIOUS
  <2>3. CASE i > 1
    <3>1. i - 1 \in DOMAIN Tail(q) /\ Tail(q)[i - 1].kind \in Gone
      BY <2>1, <2>3, TailFacts
    <3>2. ASSUME NEW j \in DOMAIN Tail(q), j > i - 1 PROVE ~Hides(Tail(q)[j])
      <4>1. j + 1 \in DOMAIN q /\ Tail(q)[j] = q[j + 1] /\ j + 1 > i
        BY <2>2, <3>2, TailFacts
      <4> QED
        BY <2>1, <4>1
    <3> QED
      BY <1>1, <3>1, <3>2 DEF WillShow
  <2>4. CASE i = 1
    <3>1. ASSUME NEW j \in DOMAIN Tail(q) PROVE ~Hides(Tail(q)[j])
      <4>1. j + 1 \in DOMAIN q /\ Tail(q)[j] = q[j + 1] /\ j + 1 > i
        BY <2>4, TailFacts
      <4> QED
        BY <2>1, <4>1
    <3> QED
      BY <2>1, <2>4, <3>1, TailFacts DEF WontHide
  <2> QED
    BY <2>2, <2>3, <2>4
<1>2. ASSUME WontHide(q) PROVE ~Hides(Head(q)) /\ WontHide(Tail(q))
  BY <1>2, TailFacts DEF WontHide
<1> QED
  BY <1>1, <1>2

-----------------------------------------------------------------------------
(* What is still to come. *)

LEMMA PendingTail ==
  ASSUME NEW S, NEW q \in Seq(S), q /= <<>>, NEW kinds
  PROVE  Pending(q, kinds) <=> Head(q).kind \in kinds \/ Pending(Tail(q), kinds)
<1>1. ASSUME Pending(q, kinds) PROVE Head(q).kind \in kinds \/ Pending(Tail(q), kinds)
  <2>1. PICK i \in DOMAIN q : q[i].kind \in kinds
    BY <1>1 DEF Pending
  <2>2. i = 1 \/ i > 1
    OBVIOUS
  <2> QED
    BY <2>1, <2>2, TailFacts DEF Pending
<1>2. ASSUME Head(q).kind \in kinds \/ Pending(Tail(q), kinds) PROVE Pending(q, kinds)
  BY <1>2, TailFacts DEF Pending
<1> QED
  BY <1>1, <1>2

LEMMA PendingAppend ==
  ASSUME NEW S, NEW q \in Seq(S), NEW x \in S, NEW kinds
  PROVE  Pending(Append(q, x), kinds) <=> Pending(q, kinds) \/ x.kind \in kinds
BY AppendFacts DEF Pending

LEMMA BehindTail ==
  ASSUME NEW S, NEW q \in Seq(S), q /= <<>>, NEW kinds, NEW i \in DOMAIN Tail(q),
         Behind(q, i + 1, kinds)
  PROVE  Behind(Tail(q), i, kinds)
<1>1. PICK j \in DOMAIN q : j > i + 1 /\ q[j].kind \in kinds
  BY DEF Behind
<1>2. i \in Nat /\ i >= 1 /\ j \in Nat
  BY TailFacts
<1>3. j > 1 /\ j - 1 > i
  BY <1>1, <1>2
<1> QED
  BY <1>1, <1>3, TailFacts DEF Behind

LEMMA BehindAppend ==
  ASSUME NEW S, NEW q \in Seq(S), NEW x \in S, NEW kinds, NEW i \in DOMAIN q
  PROVE  Behind(q, i, kinds) \/ x.kind \in kinds => Behind(Append(q, x), i, kinds)
BY AppendFacts DEF Behind

LEMMA NoneBehind ==
  ASSUME NEW q, NEW i, NEW kinds, ~Pending(q, kinds)
  PROVE  ~Behind(q, i, kinds)
BY DEF Behind, Pending

LEMMA FollowsTail ==
  ASSUME NEW S, NEW q \in Seq(S), q /= <<>>, NEW o, NEW t, NEW v, Follows(q, o, t, v)
  PROVE  Follows(Tail(q), o, t, IF Touches(Head(q), o) THEN Gives(Head(q), o) ELSE v)
<1> DEFINE r == Tail(q)
<1>1. ASSUME NEW i \in DOMAIN r, LastTouches(r, i, o) PROVE Gives(r[i], o) = t
  <2>1. i + 1 \in DOMAIN q /\ r[i] = q[i + 1] /\ Touches(q[i + 1], o) /\ i \in Nat
    BY <1>1, TailFacts DEF LastTouches
  <2>2. ASSUME NEW j \in DOMAIN q, j > i + 1 PROVE ~Touches(q[j], o)
    <3>1. j > 1 /\ j - 1 > i
      BY <2>1, <2>2
    <3>2. j - 1 \in DOMAIN r /\ r[j - 1] = q[j]
      BY <3>1, TailFacts
    <3> QED
      BY <1>1, <3>1, <3>2 DEF LastTouches
  <2>3. LastTouches(q, i + 1, o)
    BY <2>1, <2>2 DEF LastTouches
  <2> QED
    BY <2>1, <2>3 DEF Follows
<1>2. ASSUME \A i \in DOMAIN r : ~Touches(r[i], o)
      PROVE  (IF Touches(Head(q), o) THEN Gives(Head(q), o) ELSE v) = t
  <2>1. \A j \in DOMAIN q : j > 1 => ~Touches(q[j], o)
    BY <1>2, TailFacts
  <2>2. CASE Touches(Head(q), o)
    <3>1. LastTouches(q, 1, o) /\ 1 \in DOMAIN q /\ q[1] = Head(q)
      BY <2>1, <2>2, TailFacts DEF LastTouches
    <3> QED
      BY <2>2, <3>1 DEF Follows
  <2>3. CASE ~Touches(Head(q), o)
    <3>1. \A j \in DOMAIN q : j = 1 \/ j > 1
      OBVIOUS
    <3>2. \A j \in DOMAIN q : ~Touches(q[j], o)
      BY <2>1, <2>3, <3>1, TailFacts
    <3> QED
      BY <2>3, <3>2 DEF Follows
  <2> QED
    BY <2>2, <2>3
<1> QED
  BY <1>1, <1>2, Zenon DEF Follows

LEMMA FollowsNew ==
  ASSUME NEW S, NEW q \in Seq(S), NEW x \in S, NEW o, NEW v, Touches(x, o)
  PROVE  Follows(Append(q, x), o, Gives(x, o), v)
<1> DEFINE r == Append(q, x)
<1>1. Len(q) + 1 \in DOMAIN r /\ r[Len(q) + 1] = x
  BY AppendFacts
<1>2. ASSUME NEW i \in DOMAIN r, LastTouches(r, i, o) PROVE Gives(r[i], o) = Gives(x, o)
  <2>1. ~(Len(q) + 1 > i)
    BY <1>1, <1>2 DEF LastTouches
  <2>2. i = Len(q) + 1
    BY <2>1, AppendFacts
  <2> QED
    BY <1>1, <2>2
<1> QED
  BY <1>1, <1>2 DEF Follows

LEMMA FollowsOther ==
  ASSUME NEW S, NEW q \in Seq(S), NEW x \in S, NEW o, NEW t, NEW v,
         ~Touches(x, o), Follows(q, o, t, v)
  PROVE  Follows(Append(q, x), o, t, v)
<1> DEFINE r == Append(q, x)
<1>1. ASSUME NEW i \in DOMAIN r, LastTouches(r, i, o) PROVE Gives(r[i], o) = t
  <2>1. i \in DOMAIN q
    BY <1>1, AppendFacts DEF LastTouches
  <2>2. LastTouches(q, i, o) /\ r[i] = q[i]
    BY <1>1, <2>1, AppendFacts DEF LastTouches
  <2> QED
    BY <2>1, <2>2 DEF Follows
<1>2. ASSUME \A i \in DOMAIN r : ~Touches(r[i], o) PROVE v = t
  BY <1>2, AppendFacts DEF Follows
<1> QED
  BY <1>1, <1>2 DEF Follows

-----------------------------------------------------------------------------
(* Messages. *)

LEMMA MessageFacts ==
  ASSUME NEW m \in Messages
  PROVE  /\ m.kind \in Signals \cup {"update", "list", "subscribe"}
         /\ m.kind = "update" => m.obj \in Objects /\ m.val \in Values
         /\ m.kind = "list" => m.ok \in BOOLEAN /\ m.objs \in SUBSET Objects
         /\ m.kind = "subscribe" => m.ok \in BOOLEAN /\ m.snap \in Snapshots
  BY DEF Messages, Signals

LEMMA MessageTypes ==
  /\ \A s \in Signals : Signal(s) \in Messages /\ ~Hides(Signal(s)) /\ Signal(s).kind = s
  /\ \A o \in Objects, v \in Values : Update(o, v) \in Messages /\ ~Hides(Update(o, v))
  /\ \A ok \in BOOLEAN, objs \in SUBSET Objects :
        ObjectList(ok, objs) \in Messages /\ ~Hides(ObjectList(ok, objs))
  /\ \A ok \in BOOLEAN, snap \in Snapshots :
        Status(ok, snap) \in Messages /\ (Hides(Status(ok, snap)) <=> ok)
<1>1. \A s \in Signals : Signal(s) \in Messages /\ ~Hides(Signal(s)) /\ Signal(s).kind = s
  BY DEF Signal, Signals, Messages, Hides
<1>2. \A o \in Objects, v \in Values : Update(o, v) \in Messages /\ ~Hides(Update(o, v))
  BY DEF Update, Messages, Hides
<1>3. \A ok \in BOOLEAN, objs \in SUBSET Objects :
        ObjectList(ok, objs) \in Messages /\ ~Hides(ObjectList(ok, objs))
  BY DEF ObjectList, Messages, Hides
<1>4. \A ok \in BOOLEAN, snap \in Snapshots :
        Status(ok, snap) \in Messages /\ (Hides(Status(ok, snap)) <=> ok)
  BY DEF Status, Messages, Hides
<1> QED
  BY <1>1, <1>2, <1>3, <1>4

-----------------------------------------------------------------------------
(* What the handlers make of the screen. *)

LEMMA ResetFacts ==
  ASSUME NEW s \in ScreenType
  PROVE  /\ Reset(s) \in ScreenType
         /\ Reset(s).mirror = Nothing /\ Reset(s).cards = s.cards
<1>1. Nothing \in Snapshots /\ {} \in SUBSET Objects
  BY DEF Nothing, Snapshots
<1> QED
  BY <1>1 DEF Reset, ScreenType

LEMMA ListedFacts ==
  ASSUME NEW s \in ScreenType, NEW m \in Messages, m.kind = "list"
  PROVE  /\ Listed(s, m) \in ScreenType
         /\ Listed(s, m).mirror = s.mirror
         /\ \A o \in Objects : Listed(s, m).cards[o] \in {Absent, NoCard}
<1> DEFINE known == IF m.ok THEN m.objs ELSE s.known
           cards == NewCards(known)
<1>1. known \in SUBSET Objects
  BY MessageFacts DEF ScreenType
<1>2. /\ cards \in [Objects -> Values \cup {Absent, NoCard}]
      /\ \A o \in Objects : cards[o] \in {Absent, NoCard}
  BY DEF NewCards
<1> HIDE DEF known, cards
<1>3. [s EXCEPT !.known = known, !.cards = cards] \in ScreenType
  BY <1>1, <1>2 DEF ScreenType
<1>4. /\ [s EXCEPT !.known = known, !.cards = cards].mirror = s.mirror
      /\ [s EXCEPT !.known = known, !.cards = cards].cards = cards
  BY DEF ScreenType
<1>5. Listed(s, m) = [s EXCEPT !.known = known, !.cards = cards]
  BY DEF Listed, known, cards
<1> QED
  BY <1>2, <1>3, <1>4, <1>5

LEMMA MergeFacts ==
  ASSUME NEW s \in ScreenType, NEW snap \in Snapshots
  PROVE  /\ Merge(s, snap) \in ScreenType
         /\ \A o \in Objects :
              /\ Merge(s, snap).mirror[o] = IF snap[o] /= Absent THEN snap[o] ELSE s.mirror[o]
              /\ Merge(s, snap).cards[o] = IF snap[o] /= Absent /\ s.cards[o] /= NoCard
                                           THEN snap[o] ELSE s.cards[o]
<1> DEFINE mirror == [o \in Objects |-> IF snap[o] /= Absent THEN snap[o] ELSE s.mirror[o]]
           cards == [o \in Objects |-> IF snap[o] /= Absent /\ s.cards[o] /= NoCard
                                       THEN snap[o] ELSE s.cards[o]]
           t == [s EXCEPT !.mirror = mirror, !.cards = cards]
<1>1. mirror \in Snapshots /\ cards \in [Objects -> Values \cup {Absent, NoCard}]
  BY DEF ScreenType, Snapshots
<1>2. /\ \A o \in Objects : mirror[o] = IF snap[o] /= Absent THEN snap[o] ELSE s.mirror[o]
      /\ \A o \in Objects : cards[o] = IF snap[o] /= Absent /\ s.cards[o] /= NoCard
                                       THEN snap[o] ELSE s.cards[o]
  OBVIOUS
<1> HIDE DEF mirror, cards
<1>3. t \in ScreenType /\ t.mirror = mirror /\ t.cards = cards
  BY <1>1 DEF ScreenType
<1>4. Merge(s, snap) = t
  BY DEF Merge, mirror, cards
<1> QED
  BY <1>2, <1>3, <1>4

LEMMA NoticeFacts ==
  ASSUME NEW s \in ScreenType, NEW b \in BOOLEAN
  PROVE  /\ [s EXCEPT !.notice = b] \in ScreenType
         /\ [s EXCEPT !.notice = b].mirror = s.mirror
         /\ [s EXCEPT !.notice = b].cards = s.cards
         /\ [s EXCEPT !.notice = b].notice <=> b
BY DEF ScreenType

(* The two copies of a value, as a relation of one screen.                   *)
Agree(s) == \A o \in Objects : (s.cards[o] \in Values /\ s.mirror[o] /= Absent) =>
                                 s.cards[o] = s.mirror[o]

LEMMA HandlerFacts ==
  ASSUME TypeOK, CardsFollowMirror, Handle
  PROVE  screen' \in ScreenType /\ CardsFollowMirror'
<1>1. Agree(screen) /\ (Agree(screen') => CardsFollowMirror')
  BY DEF Agree, CardsFollowMirror
<1>2. screen \in ScreenType /\ (inbox /= <<>> => Head(inbox) \in Messages)
  BY TailFacts DEF TypeOK
<1>3. CASE Connected
  <2>1. screen' \in ScreenType /\ screen'.mirror = Nothing
    BY <1>2, <1>3, ResetFacts DEF Connected
  <2> QED
    BY <1>1, <2>1 DEF Agree, Nothing
<1>4. CASE Disconnected
  BY <1>1, <1>2, <1>4, NoticeFacts DEF Disconnected, Agree
<1>5. CASE HandleList
  <2>1. /\ screen' \in ScreenType
        /\ \A o \in Objects : screen'.cards[o] \in {Absent, NoCard}
    BY <1>2, <1>5, ListedFacts DEF HandleList, Take
  <2> QED
    BY <1>1, <2>1, SessionAssumption DEF Agree
<1>6. ASSUME NEW snap \in Snapshots
      PROVE  Merge(screen, snap) \in ScreenType /\ Agree(Merge(screen, snap))
  BY <1>1, <1>2, MergeFacts, SessionAssumption DEF Agree
<1>7. CASE HandleSubscribe
  <2>1. Head(inbox).snap \in Snapshots
    BY <1>2, <1>7, MessageFacts DEF HandleSubscribe, Take
  <2>2. screen' = [Merge(screen, Head(inbox).snap) EXCEPT !.notice = FALSE]
    BY <1>7 DEF HandleSubscribe, Subscribed
  <2> DEFINE s == Merge(screen, Head(inbox).snap)
  <2>3. s \in ScreenType /\ Agree(s)
    BY <1>6, <2>1
  <2> HIDE DEF s
  <2>4. /\ [s EXCEPT !.notice = FALSE] \in ScreenType
        /\ [s EXCEPT !.notice = FALSE].mirror = s.mirror
        /\ [s EXCEPT !.notice = FALSE].cards = s.cards
    BY <2>3, NoticeFacts
  <2>5. screen' = [s EXCEPT !.notice = FALSE]
    BY <2>2 DEF s
  <2>6. screen' \in ScreenType /\ screen'.mirror = s.mirror /\ screen'.cards = s.cards
    BY <2>4, <2>5
  <2> QED
    BY <1>1, <2>3, <2>6 DEF Agree
<1>8. CASE HandleUpdate
  <2> DEFINE snap == [Nothing EXCEPT ![Head(inbox).obj] = Head(inbox).val]
  <2>1. Head(inbox).obj \in Objects /\ Head(inbox).val \in Values
    BY <1>2, <1>8, MessageFacts DEF HandleUpdate, Take
  <2>2. snap \in Snapshots
    BY <2>1 DEF Nothing, Snapshots
  <2>3. screen' = Merge(screen, snap)
    BY <1>8 DEF HandleUpdate, Updated
  <2> HIDE DEF snap
  <2> QED
    BY <1>1, <1>6, <2>2, <2>3
<1> QED
  BY <1>3, <1>4, <1>5, <1>7, <1>8 DEF Handle

-----------------------------------------------------------------------------
(* Types. *)

LEMMA PushType ==
  ASSUME TypeOK, NEW m \in Messages, Push(m)
  PROVE  inbox' \in Seq(Messages)
BY AppendFacts DEF TypeOK, Push

LEMMA RequestType ==
  ASSUME TypeOK, NEW r \in Requests, Request(r)
  PROVE  reqs' \in Seq(Requests)
BY AppendFacts DEF TypeOK, Request

LEMMA EnvType ==
  ASSUME TypeOK, UNCHANGED env
  PROVE  /\ klippy' \in BOOLEAN /\ config' \in SUBSET Objects
         /\ truth' \in [Objects -> Values] /\ linkUp' \in BOOLEAN
         /\ sub' \in SUBSET Objects /\ faults' \in 0..MaxFaults
BY DEF TypeOK, env

LEMMA HandleType ==
  ASSUME TypeOK, CardsFollowMirror, Handle
  PROVE  TypeOK'
<1>1. screen' \in ScreenType
  BY HandlerFacts
<1>2. /\ inbox /= <<>> /\ inbox' = Tail(inbox) /\ UNCHANGED env
      /\ refused' \in BOOLEAN
  <2>1. inbox /= <<>> /\ inbox' = Tail(inbox) /\ UNCHANGED env
    BY DEF Handle, Connected, Disconnected, HandleList, HandleSubscribe, HandleUpdate, Take
  <2>2. refused' \in BOOLEAN
    BY Zenon
    DEF TypeOK, Handle, Connected, Disconnected, HandleList, HandleSubscribe, HandleUpdate
  <2> QED
    BY <2>1, <2>2
<1>3. Head(inbox) \in Messages /\ inbox' \in Seq(Messages)
  BY <1>2, TailFacts DEF TypeOK
<1>4. reqs' \in Seq(Requests)
  <2>1. CASE Connected
    <3>1. ListRequest \in Requests
      BY DEF Requests
    <3> QED
      BY <2>1, <3>1, RequestType DEF Connected
  <2>2. CASE HandleList
    <3>1. Head(inbox).objs \in SUBSET Objects
      BY <1>3, <2>2, MessageFacts DEF HandleList, Take
    <3>2. SubscribeRequest(Head(inbox).objs) \in Requests
      BY <3>1 DEF SubscribeRequest, Requests
    <3> QED
      BY <2>2, <3>2, RequestType DEF HandleList, TypeOK
  <2>3. CASE Disconnected \/ HandleSubscribe \/ HandleUpdate
    BY <2>3 DEF Disconnected, HandleSubscribe, HandleUpdate, TypeOK
  <2> QED
    BY <2>1, <2>2, <2>3 DEF Handle
<1> QED
  BY <1>1, <1>2, <1>3, <1>4, EnvType DEF TypeOK

(* Klipper, Moonraker and the link leave the screen alone.                   *)
Outside ==
  KlippyReady \/ KlippyDown \/ (\E o \in Objects, v \in Values : Change(o, v)) \/ Answer
    \/ LinkUp \/ LinkDown

LEMMA OutsideType ==
  ASSUME TypeOK, Outside
  PROVE  TypeOK' /\ UNCHANGED <<screen, refused>>
<1>0. Signal("klippy_ready") \in Messages /\ Signal("klippy_disconnected") \in Messages
      /\ Signal("open") \in Messages /\ Signal("close") \in Messages
  BY MessageTypes DEF Signals
<1>1. CASE KlippyReady
  <2>1. inbox' \in Seq(Messages)
    BY <1>0, <1>1, PushType DEF KlippyReady
  <2>2. klippy' \in BOOLEAN /\ config' \in SUBSET Objects /\ truth' \in [Objects -> Values]
    BY <1>1 DEF KlippyReady, Configs
  <2> QED
    BY <1>1, <2>1, <2>2 DEF KlippyReady, TypeOK
<1>2. CASE KlippyDown
  <2>1. inbox' \in Seq(Messages)
    BY <1>0, <1>2, PushType DEF KlippyDown
  <2>2. faults' \in 0..MaxFaults
    BY <1>2, SessionAssumption DEF KlippyDown, TypeOK
  <2>5. klippy' \in BOOLEAN
    BY <1>2, Zenon DEF KlippyDown
  <2> QED
    BY <1>2, <2>1, <2>2, <2>5 DEF KlippyDown, TypeOK
<1>3. ASSUME NEW o \in Objects, NEW v \in Values, Change(o, v)
      PROVE  TypeOK' /\ UNCHANGED <<screen, refused>>
  <2>1. inbox' \in Seq(Messages)
    BY <1>3, MessageTypes, PushType DEF Change, TypeOK
  <2> QED
    BY <1>3, <2>1 DEF Change, TypeOK
<1>4. CASE AnswerList
  <2>1. inbox' \in Seq(Messages)
    <3>1. ObjectList(klippy, IF klippy THEN config ELSE {}) \in Messages
      BY MessageTypes DEF TypeOK
    <3> QED
      BY <1>4, <3>1, PushType DEF AnswerList
  <2>2. reqs' \in Seq(Requests)
    BY <1>4, TailFacts DEF AnswerList, TypeOK
  <2> QED
    BY <1>4, <2>1, <2>2, EnvType DEF AnswerList, TypeOK
<1>5. CASE AnswerSubscribe
  <2> DEFINE objs == IF klippy THEN Head(reqs).objs \cap config ELSE {}
             snap == [o \in Objects |-> IF o \in objs THEN truth[o] ELSE Absent]
  <2>1. objs \in SUBSET Objects /\ snap \in Snapshots
    BY DEF TypeOK, Snapshots
  <2>2. sub' = (IF klippy THEN objs ELSE sub) /\ Push(Status(klippy, snap))
    BY <1>5 DEF AnswerSubscribe
  <2> HIDE DEF objs, snap
  <2>3. inbox' \in Seq(Messages)
    <3>1. Status(klippy, snap) \in Messages
      BY <2>1, MessageTypes DEF TypeOK
    <3> QED
      BY <2>2, <3>1, PushType
  <2>4. reqs' \in Seq(Requests)
    BY <1>5, TailFacts DEF AnswerSubscribe, TypeOK
  <2> QED
    BY <1>5, <2>1, <2>2, <2>3, <2>4 DEF AnswerSubscribe, TypeOK
<1>6. CASE LinkDown
  <2>1. PICK n \in 0..Len(inbox) : inbox' = Append(SubSeq(inbox, 1, n), Signal("close"))
    BY <1>6 DEF LinkDown
  <2>2. SubSeq(inbox, 1, n) \in Seq(Messages)
    BY DEF TypeOK
  <2>3. inbox' \in Seq(Messages)
    BY <1>0, <2>1, <2>2, AppendFacts
  <2>4. faults' \in 0..MaxFaults
    BY <1>6, SessionAssumption DEF LinkDown, TypeOK
  <2>5. linkUp' \in BOOLEAN
    BY <1>6, Zenon DEF LinkDown
  <2> QED
    BY <1>6, <2>3, <2>4, <2>5 DEF LinkDown, TypeOK
<1>7. CASE LinkUp
  BY <1>0, <1>7 DEF LinkUp, TypeOK
<1> QED
  BY <1>1, <1>2, <1>3, <1>4, <1>5, <1>6, <1>7 DEF Outside, Answer

-----------------------------------------------------------------------------
(* The notice. *)

LEMMA HandleNotice ==
  ASSUME TypeOK, NoticeInv, Handle
  PROVE  NoticeInv'
<1> SUFFICES ASSUME ~Online
             PROVE  WillShow(inbox') \/ ((screen'.notice \/ refused') /\ WontHide(inbox'))
  <2>1. UNCHANGED env
    BY DEF Handle, Connected, Disconnected, HandleList, HandleSubscribe, HandleUpdate, Take
  <2> QED
    BY <2>1 DEF NoticeInv, Online, env
<1>1. inbox /= <<>> /\ inbox' = Tail(inbox) /\ inbox \in Seq(Messages)
  BY DEF Handle, Connected, Disconnected, HandleList, HandleSubscribe, HandleUpdate, Take, TypeOK
<1>2. \/ WillShow(inbox')
      \/ Head(inbox).kind \in Gone /\ WontHide(inbox')
      \/ (screen.notice \/ refused) /\ ~Hides(Head(inbox)) /\ WontHide(inbox')
  BY <1>1, Left DEF NoticeInv
<1>3. screen \in ScreenType /\ Head(inbox) \in Messages
  BY <1>1, TailFacts DEF TypeOK
<1>4. CASE Disconnected
  BY <1>2, <1>3, <1>4, NoticeFacts DEF Disconnected, Take, Hides, Gone
<1>5. CASE Connected \/ HandleList \/ HandleUpdate
  <2>1. (screen'.notice <=> screen.notice) /\ refused' = refused
    <3>1. CASE Connected
      BY <1>3, <3>1 DEF Connected, Reset, ScreenType
    <3>2. CASE HandleList
      BY <1>3, <3>2 DEF HandleList, Listed, ScreenType
    <3>3. CASE HandleUpdate
      BY <1>3, <3>3 DEF HandleUpdate, Updated, Merge, ScreenType
    <3> QED
      BY <1>5, <3>1, <3>2, <3>3
  <2>2. Head(inbox).kind \notin Gone
    BY <1>5 DEF Connected, HandleList, HandleUpdate, Take, Gone
  <2> QED
    BY <1>2, <2>1, <2>2
<1>6. CASE HandleSubscribe
  <2>1. Head(inbox).kind = "subscribe"
    BY <1>6 DEF HandleSubscribe, Take
  <2>2. ~Hides(Head(inbox)) => refused'
    BY <1>6, <2>1 DEF HandleSubscribe, Hides
  <2> QED
    BY <1>2, <2>1, <2>2 DEF Gone
<1> QED
  BY <1>4, <1>5, <1>6 DEF Handle

LEMMA OutsideNotice ==
  ASSUME TypeOK, NoticeInv, Outside
  PROVE  NoticeInv'
<1> SUFFICES ASSUME ~Online'
             PROVE  WillShow(inbox') \/ ((screen.notice \/ refused) /\ WontHide(inbox'))
  BY OutsideType DEF NoticeInv
<1> DEFINE Owed == WillShow(inbox) \/ ((screen.notice \/ refused) /\ WontHide(inbox))
<1>1. ASSUME NEW m \in Messages, ~Hides(m), inbox' = Append(inbox, m), Owed
      PROVE  WillShow(inbox') \/ ((screen.notice \/ refused) /\ WontHide(inbox'))
  BY <1>1, Joined DEF TypeOK
<1>2. ASSUME NEW m \in Messages, ~Hides(m), Push(m), Owed
      PROVE  WillShow(inbox') \/ ((screen.notice \/ refused) /\ WontHide(inbox'))
  BY <1>1, <1>2 DEF Push
<1>3. ~Online => Owed
  BY DEF NoticeInv
<1> HIDE DEF Owed
<1>4. CASE KlippyReady
  <2>1. ~Online /\ Signal("klippy_ready") \in Messages /\ ~Hides(Signal("klippy_ready"))
    BY <1>4, MessageTypes DEF KlippyReady, Online, Signals
  <2> QED
    BY <1>2, <1>3, <1>4, <2>1 DEF KlippyReady
<1>5. CASE KlippyDown
  <2>1. /\ Signal("klippy_disconnected") \in Messages
        /\ Signal("klippy_disconnected").kind \in Gone
        /\ ~Hides(Signal("klippy_disconnected"))
    BY MessageTypes DEF Signals, Gone
  <2>2. CASE linkUp
    BY <1>5, <2>1, <2>2, Shows DEF KlippyDown, Push, TypeOK
  <2>3. CASE ~linkUp
    BY <1>2, <1>3, <1>5, <2>1, <2>3 DEF KlippyDown, Online
  <2> QED
    BY <2>2, <2>3
<1>6. ASSUME NEW o \in Objects, NEW v \in Values, Change(o, v)
      PROVE  WillShow(inbox') \/ ((screen.notice \/ refused) /\ WontHide(inbox'))
  <2>1. ~Online /\ Update(o, v) \in Messages /\ ~Hides(Update(o, v))
    BY <1>6, MessageTypes DEF Change, Online
  <2>2. CASE Push(Update(o, v))
    BY <1>2, <1>3, <2>1, <2>2
  <2>3. CASE UNCHANGED inbox
    BY <1>3, <2>1, <2>3 DEF Owed
  <2> QED
    BY <1>6, <2>2, <2>3 DEF Change
<1>7. CASE AnswerList
  <2> DEFINE m == ObjectList(klippy, IF klippy THEN config ELSE {})
  <2>1. ~Online /\ m \in Messages /\ ~Hides(m)
    BY <1>7, MessageTypes DEF AnswerList, Online, env, TypeOK
  <2>2. Push(m)
    BY <1>7 DEF AnswerList
  <2> HIDE DEF m
  <2> QED
    BY <1>2, <1>3, <2>1, <2>2
<1>8. CASE AnswerSubscribe
  <2> DEFINE objs == IF klippy THEN Head(reqs).objs \cap config ELSE {}
             snap == [o \in Objects |-> IF o \in objs THEN truth[o] ELSE Absent]
  <2>1. ~Online /\ snap \in Snapshots
    BY <1>8 DEF AnswerSubscribe, Online, TypeOK, Snapshots
  <2>2. Push(Status(klippy, snap))
    BY <1>8 DEF AnswerSubscribe
  <2> HIDE DEF objs, snap
  <2>3. CASE linkUp
    <3>1. ~klippy
      BY <2>1, <2>3 DEF Online
    <3>2. Status(klippy, snap) \in Messages /\ ~Hides(Status(klippy, snap))
      BY <2>1, <3>1, MessageTypes DEF TypeOK
    <3> QED
      BY <1>2, <1>3, <2>1, <2>2, <3>2
  <2>4. CASE ~linkUp
    BY <1>3, <2>1, <2>2, <2>4 DEF Push, Owed
  <2> QED
    BY <2>3, <2>4
<1>9. CASE LinkDown
  <2>1. PICK n \in 0..Len(inbox) : inbox' = Append(SubSeq(inbox, 1, n), Signal("close"))
    BY <1>9 DEF LinkDown
  <2>2. SubSeq(inbox, 1, n) \in Seq(Messages)
    BY DEF TypeOK
  <2>3. Signal("close") \in Messages /\ Signal("close").kind \in Gone
    BY MessageTypes DEF Signals, Gone
  <2> QED
    BY <2>1, <2>2, <2>3, Shows
<1>10. CASE LinkUp
  <2>1. ~Online /\ inbox = <<>> /\ inbox' = <<Signal("open")>> /\ ~Hides(Signal("open"))
    BY <1>10, MessageTypes DEF LinkUp, Online, Signals
  <2>2. ~WillShow(inbox)
    BY <2>1 DEF WillShow
  <2>3. WontHide(inbox')
    BY <2>1 DEF WontHide
  <2> QED
    BY <1>3, <2>1, <2>2, <2>3 DEF Owed
<1> QED
  BY <1>4, <1>5, <1>6, <1>7, <1>8, <1>9, <1>10 DEF Outside, Answer

-----------------------------------------------------------------------------
(* State follows the queue. *)

LEMMA HandlerTakes ==
  ASSUME TypeOK, Handle
  PROVE  /\ inbox \in Seq(Messages) /\ inbox /= <<>> /\ inbox' = Tail(inbox) /\ UNCHANGED env
         /\ Head(inbox) \in Messages
<1>1. inbox \in Seq(Messages) /\ inbox /= <<>> /\ inbox' = Tail(inbox) /\ UNCHANGED env
  BY DEF TypeOK, Handle, Connected, Disconnected, HandleList, HandleSubscribe, HandleUpdate, Take
<1> QED
  BY <1>1, TailFacts

(* Any message: what After makes of a screen.                                *)
LEMMA AfterFacts ==
  ASSUME NEW s \in ScreenType, NEW m \in Messages
  PROVE  /\ After(s, m) \in ScreenType
         /\ \A o \in Objects : After(s, m).mirror[o] = IF Touches(m, o) THEN Gives(m, o)
                                                       ELSE s.mirror[o]
<1>1. CASE m.kind \in Starts
  <2>1. After(s, m) = Reset(s)
    BY <1>1 DEF After, Starts
  <2> QED
    BY <1>1, <2>1, ResetFacts DEF Nothing, Touches, Gives
<1>2. CASE m.kind \in Gone
  <2>1. After(s, m) = [s EXCEPT !.notice = TRUE]
    BY <1>2 DEF After, Gone
  <2>2. \A o : ~Touches(m, o)
    BY <1>2 DEF Touches, Starts, Gone
  <2> QED
    BY <2>1, <2>2, NoticeFacts
<1>3. CASE m.kind = "list"
  <2>1. After(s, m) = Listed(s, m)
    BY <1>3 DEF After
  <2>2. \A o : ~Touches(m, o)
    BY <1>3 DEF Touches, Starts
  <2> QED
    BY <1>3, <2>1, <2>2, ListedFacts
<1>4. CASE m.kind = "subscribe"
  <2>1. After(s, m) = [Merge(s, m.snap) EXCEPT !.notice = FALSE] /\ m.snap \in Snapshots
    BY <1>4, MessageFacts DEF After, Subscribed
  <2>2. Merge(s, m.snap) \in ScreenType
    BY <2>1, MergeFacts
  <2>3. After(s, m) \in ScreenType /\ After(s, m).mirror = Merge(s, m.snap).mirror
    BY <2>1, <2>2, NoticeFacts
  <2>4. \A o \in Objects : After(s, m).mirror[o] = IF m.snap[o] /= Absent THEN m.snap[o]
                                                   ELSE s.mirror[o]
    BY <2>1, <2>3, MergeFacts
  <2> QED
    BY <1>4, <2>3, <2>4 DEF Touches, Gives, Starts
<1>5. CASE m.kind = "update"
  <2> DEFINE snap == [Nothing EXCEPT ![m.obj] = m.val]
  <2>1. m.obj \in Objects /\ m.val \in Values
    BY <1>5, MessageFacts
  <2>2. snap \in Snapshots /\ \A o \in Objects : snap[o] = IF o = m.obj THEN m.val ELSE Absent
    BY <2>1 DEF Nothing, Snapshots
  <2>3. After(s, m) = Merge(s, snap)
    BY <1>5 DEF After, Updated
  <2> HIDE DEF snap
  <2>4. /\ After(s, m) \in ScreenType
        /\ \A o \in Objects : After(s, m).mirror[o] = IF snap[o] /= Absent THEN snap[o]
                                                      ELSE s.mirror[o]
    BY <2>2, <2>3, MergeFacts
  <2>5. \A o \in Objects : Touches(m, o) <=> m.obj = o
    BY <1>5 DEF Touches, Starts
  <2> QED
    BY <1>5, <2>1, <2>2, <2>4, <2>5, SessionAssumption DEF Gives, Starts
<1> QED
  BY <1>1, <1>2, <1>3, <1>4, <1>5, MessageFacts DEF Signals, Starts, Gone

LEMMA HandlerMirror ==
  ASSUME TypeOK, Handle, NEW o \in Objects
  PROVE  screen'.mirror[o] = IF Touches(Head(inbox), o) THEN Gives(Head(inbox), o)
                             ELSE screen.mirror[o]
<1>1. screen' = After(screen, Head(inbox))
  <2>1. Handle => screen' = After(screen, Head(inbox))
    BY DEF Handle, Connected, Disconnected, HandleList, HandleSubscribe, HandleUpdate, Take,
           After
  <2> QED
    BY <2>1
<1> QED
  BY <1>1, HandlerTakes, AfterFacts DEF TypeOK

LEMMA HandleMirrorInv ==
  ASSUME TypeOK, MirrorInv, Handle
  PROVE  MirrorInv'
<1>1. /\ inbox \in Seq(Messages) /\ inbox /= <<>> /\ inbox' = Tail(inbox) /\ UNCHANGED env
  BY HandlerTakes
<1>2. ~linkUp' => reqs' = <<>>
  BY <1>1 DEF MirrorInv, Handle, Connected, Disconnected, HandleList, HandleSubscribe,
              HandleUpdate, Request, env
<1>3. ~Online' => sub' = {}
  BY <1>1 DEF MirrorInv, Online, env
<1>4. ASSUME Online', NEW o \in sub'
      PROVE  Follows(inbox', o, truth'[o], screen'.mirror[o])
  <2>1. Online /\ o \in sub /\ o \in Objects /\ truth' = truth
    BY <1>1, <1>4 DEF Online, env, TypeOK
  <2>2. Follows(inbox, o, truth[o], screen.mirror[o])
    BY <2>1 DEF MirrorInv
  <2>3. Follows(Tail(inbox), o, truth[o],
                IF Touches(Head(inbox), o) THEN Gives(Head(inbox), o) ELSE screen.mirror[o])
    BY <1>1, <2>2, FollowsTail
  <2> QED
    BY <1>1, <2>1, <2>3, HandlerMirror
<1> QED
  BY <1>2, <1>3, <1>4 DEF MirrorInv

LEMMA OutsideMirrorInv ==
  ASSUME TypeOK, MirrorInv, Outside
  PROVE  MirrorInv'
<1>0. screen' = screen /\ inbox \in Seq(Messages)
  BY OutsideType DEF TypeOK
<1>1. CASE KlippyReady
  BY <1>1 DEF KlippyReady, MirrorInv, Online
<1>2. CASE KlippyDown
  BY <1>2 DEF KlippyDown, MirrorInv, Online
<1>3. ASSUME NEW c \in Objects, NEW v \in Values, Change(c, v)
      PROVE  MirrorInv'
  <2> DEFINE m == Update(c, v)
  <2>1. m \in Messages /\ m.kind = "update" /\ m.obj = c /\ m.val = v
    BY MessageTypes DEF Update
  <2>2. UNCHANGED <<klippy, linkUp, sub, reqs>> /\ truth' = [truth EXCEPT ![c] = v]
    BY <1>3 DEF Change
  <2>3. inbox' = IF c \in sub /\ linkUp THEN Append(inbox, m) ELSE inbox
    BY <1>3 DEF Change, Push
  <2> HIDE DEF m
  <2>4. ASSUME Online', NEW o \in sub'
        PROVE  Follows(inbox', o, truth'[o], screen'.mirror[o])
    <3>1. linkUp /\ o \in sub /\ Follows(inbox, o, truth[o], screen.mirror[o])
      BY <2>2, <2>4 DEF MirrorInv, Online
    <3>2. CASE o = c
      <4>1. Touches(m, o) /\ Gives(m, o) = v
        BY <2>1, <3>2 DEF Touches, Gives, Starts
      <4>2. inbox' = Append(inbox, m) /\ truth'[o] = v
        BY <2>2, <2>3, <3>1, <3>2 DEF TypeOK
      <4> QED
        BY <1>0, <2>1, <4>1, <4>2, FollowsNew
    <3>3. CASE o /= c
      <4>1. ~Touches(m, o) /\ truth'[o] = truth[o]
        BY <2>1, <2>2, <3>3 DEF Touches, Starts, TypeOK
      <4>2. CASE c \in sub
        <5>1. inbox' = Append(inbox, m)
          BY <2>3, <3>1, <4>2
        <5> QED
          BY <1>0, <2>1, <3>1, <4>1, <5>1, FollowsOther
      <4>3. CASE c \notin sub
        BY <1>0, <2>3, <3>1, <4>1, <4>3
      <4> QED
        BY <4>2, <4>3
    <3> QED
      BY <3>2, <3>3
  <2> QED
    BY <2>2, <2>4 DEF MirrorInv, Online
<1>4. CASE AnswerList
  <2> DEFINE m == ObjectList(klippy, IF klippy THEN config ELSE {})
  <2>1. m \in Messages /\ m.kind = "list"
    BY MessageTypes DEF ObjectList, TypeOK
  <2>2. Push(m) /\ UNCHANGED env /\ reqs' = Tail(reqs) /\ reqs /= <<>>
    BY <1>4 DEF AnswerList
  <2> HIDE DEF m
  <2>3. linkUp /\ linkUp' /\ inbox' = Append(inbox, m)
    BY <2>2 DEF MirrorInv, Push, env
  <2>4. ASSUME Online', NEW o \in sub'
        PROVE  Follows(inbox', o, truth'[o], screen'.mirror[o])
    <3>1. Follows(inbox, o, truth'[o], screen'.mirror[o])
      BY <1>0, <2>2, <2>4 DEF MirrorInv, Online, env
    <3>2. ~Touches(m, o)
      BY <2>1 DEF Touches, Starts
    <3> QED
      BY <1>0, <2>1, <2>3, <3>1, <3>2, FollowsOther
  <2> QED
    BY <2>2, <2>3, <2>4 DEF MirrorInv, Online, env
<1>5. CASE AnswerSubscribe
  <2> DEFINE objs == IF klippy THEN Head(reqs).objs \cap config ELSE {}
             snap == [o \in Objects |-> IF o \in objs THEN truth[o] ELSE Absent]
             m == Status(klippy, snap)
  <2>1. snap \in Snapshots /\ m.kind = "subscribe" /\ m.snap = snap
        /\ \A o \in objs : o \in Objects /\ snap[o] = truth[o] /\ truth[o] /= Absent
    BY SessionAssumption DEF TypeOK, Snapshots, Status
  <2>2. m \in Messages
    BY <2>1, MessageTypes DEF TypeOK
  <2>3. /\ sub' = (IF klippy THEN objs ELSE sub) /\ Push(m) /\ reqs /= <<>>
        /\ UNCHANGED <<klippy, truth, linkUp>>
    BY <1>5 DEF AnswerSubscribe
  <2> HIDE DEF m, snap, objs
  <2>4. linkUp /\ linkUp' /\ inbox' = Append(inbox, m)
    BY <2>3 DEF MirrorInv, Push
  <2>5. ~Online' => sub' = {}
    BY <2>3, <2>4 DEF MirrorInv, Online
  <2>6. ASSUME Online', NEW o \in sub'
        PROVE  Follows(inbox', o, truth'[o], screen'.mirror[o])
    <3>1. o \in objs
      BY <2>3, <2>6 DEF Online
    <3>2. Touches(m, o) /\ Gives(m, o) = truth'[o]
      BY <2>1, <2>3, <3>1 DEF Touches, Gives, Starts
    <3> QED
      BY <1>0, <2>2, <2>4, <3>2, FollowsNew
  <2> QED
    BY <2>4, <2>5, <2>6 DEF MirrorInv
<1>6. CASE LinkUp
  BY <1>6 DEF LinkUp, MirrorInv, Online
<1>7. CASE LinkDown
  BY <1>7 DEF LinkDown, MirrorInv, Online
<1> QED
  BY <1>1, <1>2, <1>3, <1>4, <1>5, <1>6, <1>7 DEF Outside, Answer

-----------------------------------------------------------------------------
(* What is on its way is of the present configuration. *)

LEMMA HandleCurrent ==
  ASSUME TypeOK, CurrentInv, Handle
  PROVE  CurrentInv'
<1>1. inbox \in Seq(Messages) /\ inbox /= <<>> /\ inbox' = Tail(inbox) /\ UNCHANGED env
  BY HandlerTakes
<1> SUFFICES ASSUME Online', NEW i \in DOMAIN inbox'
             PROVE  Current(inbox'[i]) \/ inbox'[i].kind \in Starts \/ Behind(inbox', i, Starts)
  BY <1>1 DEF CurrentInv, Online, Current, env
<1>2. i + 1 \in DOMAIN inbox /\ inbox'[i] = inbox[i + 1]
  BY <1>1, TailFacts
<1>3. Current(inbox[i + 1]) \/ inbox[i + 1].kind \in Starts \/ Behind(inbox, i + 1, Starts)
  BY <1>1, <1>2 DEF CurrentInv, Online, env
<1> QED
  BY <1>1, <1>2, <1>3, BehindTail

(* A message of the present configuration may join ...                       *)
LEMMA CurrentJoins ==
  ASSUME TypeOK, CurrentInv, NEW m \in Messages, Current(m), inbox' = Append(inbox, m),
         UNCHANGED <<klippy, linkUp, config>>, sub' \subseteq config
  PROVE  CurrentInv'
<1> SUFFICES ASSUME Online', NEW i \in DOMAIN inbox'
             PROVE  Current(inbox'[i]) \/ inbox'[i].kind \in Starts \/ Behind(inbox', i, Starts)
  BY DEF CurrentInv, Online, Current
<1>1. inbox \in Seq(Messages) /\ Online
  BY DEF TypeOK, Online
<1>2. CASE i \in DOMAIN inbox
  <2>1. inbox'[i] = inbox[i]
    BY <1>1, <1>2, AppendFacts
  <2>2. Current(inbox[i]) \/ inbox[i].kind \in Starts \/ Behind(inbox, i, Starts)
    BY <1>1, <1>2 DEF CurrentInv
  <2> QED
    BY <1>1, <1>2, <2>1, <2>2, BehindAppend
<1>3. CASE i = Len(inbox) + 1
  BY <1>1, <1>3, AppendFacts
<1> QED
  BY <1>1, <1>2, <1>3, AppendFacts

(* ... and one that starts a session settles the matter.                     *)
LEMMA StartJoins ==
  ASSUME TypeOK, NEW m \in Messages, m.kind \in Starts, inbox' = Append(inbox, m), sub' = {}
  PROVE  CurrentInv'
<1> SUFFICES ASSUME NEW i \in DOMAIN inbox'
             PROVE  inbox'[i].kind \in Starts \/ Behind(inbox', i, Starts)
  BY DEF CurrentInv
<1>1. inbox \in Seq(Messages)
  BY DEF TypeOK
<1>2. CASE i \in DOMAIN inbox
  BY <1>1, <1>2, BehindAppend
<1>3. CASE i = Len(inbox) + 1
  BY <1>1, <1>3, AppendFacts
<1> QED
  BY <1>1, <1>2, <1>3, AppendFacts

LEMMA OutsideCurrent ==
  ASSUME TypeOK, MirrorInv, CurrentInv, Outside
  PROVE  CurrentInv'
<1> SUFFICES ASSUME Online' PROVE CurrentInv'
  BY DEF CurrentInv
<1>1. CASE KlippyReady
  <2>1. Signal("klippy_ready") \in Messages /\ Signal("klippy_ready").kind \in Starts
    BY MessageTypes DEF Signals, Starts
  <2>2. inbox' = Append(inbox, Signal("klippy_ready")) /\ sub' = {}
    BY <1>1 DEF KlippyReady, Push, Online, MirrorInv
  <2> QED
    BY <2>1, <2>2, StartJoins
<1>2. CASE KlippyDown \/ LinkDown
  BY <1>2 DEF KlippyDown, LinkDown, Online
<1>3. ASSUME NEW c \in Objects, NEW v \in Values, Change(c, v)
      PROVE  CurrentInv'
  <2>1. Update(c, v) \in Messages /\ Current(Update(c, v))
    BY <1>3, MessageTypes DEF Change, Update, Current
  <2>2. UNCHANGED <<klippy, linkUp, config, sub>> /\ linkUp /\ Online
    BY <1>3 DEF Change, Online
  <2>3. sub \subseteq config
    BY <2>2 DEF CurrentInv
  <2>4. inbox' = Append(inbox, Update(c, v)) \/ inbox' = inbox
    BY <1>3 DEF Change, Push
  <2>5. CASE inbox' = inbox
    BY <2>2, <2>5 DEF CurrentInv, Online, Current
  <2> QED
    BY <2>1, <2>2, <2>3, <2>4, <2>5, CurrentJoins
<1>4. CASE AnswerList
  <2> DEFINE m == ObjectList(klippy, IF klippy THEN config ELSE {})
  <2>1. UNCHANGED <<klippy, linkUp, config, sub>> /\ Online
    BY <1>4 DEF AnswerList, env, Online
  <2>2. m \in Messages /\ Current(m)
    BY <2>1, MessageTypes DEF ObjectList, Current, Online, TypeOK
  <2>3. inbox' = Append(inbox, m) /\ sub \subseteq config
    BY <1>4, <2>1 DEF AnswerList, Push, Online, CurrentInv
  <2> HIDE DEF m
  <2> QED
    BY <2>1, <2>2, <2>3, CurrentJoins
<1>5. CASE AnswerSubscribe
  <2> DEFINE objs == IF klippy THEN Head(reqs).objs \cap config ELSE {}
             snap == [o \in Objects |-> IF o \in objs THEN truth[o] ELSE Absent]
             m == Status(klippy, snap)
  <2>1. UNCHANGED <<klippy, linkUp, config>> /\ Online /\ klippy /\ linkUp
    BY <1>5 DEF AnswerSubscribe, Online
  <2>2. objs \subseteq config /\ snap \in Snapshots /\ \A o \in Objects \ config : snap[o] = Absent
    BY DEF TypeOK, Snapshots
  <2>3. sub' = objs /\ Push(m)
    BY <1>5, <2>1 DEF AnswerSubscribe
  <2> HIDE DEF objs, snap
  <2>4. m \in Messages /\ Current(m)
    BY <2>1, <2>2, MessageTypes DEF Status, Current, TypeOK
  <2> HIDE DEF m
  <2> QED
    BY <2>1, <2>2, <2>3, <2>4, CurrentJoins DEF Push
<1>6. CASE LinkUp
  <2>1. Signal("open") \in Messages /\ Signal("open").kind \in Starts
    BY MessageTypes DEF Signals, Starts
  <2>2. inbox' = Append(inbox, Signal("open")) /\ sub' = {}
    BY <1>6 DEF LinkUp, Online, MirrorInv
  <2> QED
    BY <2>1, <2>2, StartJoins
<1> QED
  BY <1>1, <1>2, <1>3, <1>4, <1>5, <1>6 DEF Outside, Answer

-----------------------------------------------------------------------------
(* The start of a session. *)

(* While Klipper and the link are up, a handler meets a message that starts  *)
(* the session again, or one of the present configuration.                   *)
LEMMA StartedHandles ==
  ASSUME TypeOK, CurrentInv, Handle, Started'
  PROVE  /\ Online /\ linkUp
         /\ \/ Connected
            \/ /\ Started /\ Current(Head(inbox))
               /\ HandleList \/ HandleSubscribe \/ HandleUpdate
<1>1. inbox \in Seq(Messages) /\ inbox /= <<>> /\ inbox' = Tail(inbox) /\ UNCHANGED env
  BY HandlerTakes
<1>2. Online /\ linkUp /\ ~Pending(Tail(inbox), Starts)
  BY <1>1 DEF Started, Online, env
<1>3. CASE Head(inbox).kind \in Starts
  <2>1. Connected
    BY <1>3 DEF Handle, Connected, Disconnected, HandleList, HandleSubscribe, HandleUpdate,
                Take, Starts
  <2> QED
    BY <1>2, <2>1
<1>4. CASE Head(inbox).kind \notin Starts
  <2>1. ~Pending(inbox, Starts)
    BY <1>1, <1>2, <1>4, PendingTail
  <2>2. Current(inbox[1]) \/ inbox[1].kind \in Starts \/ Behind(inbox, 1, Starts)
    BY <1>1, <1>2, TailFacts DEF CurrentInv
  <2>3. Current(Head(inbox))
    BY <1>1, <1>4, <2>1, <2>2, NoneBehind, TailFacts
  <2>4. HandleList \/ HandleSubscribe \/ HandleUpdate
    BY <1>4, <2>3 DEF Handle, Connected, Disconnected, Take, Starts, Current
  <2> QED
    BY <1>2, <2>1, <2>3, <2>4 DEF Started
<1> QED
  BY <1>3, <1>4

(* Nor does anything else but an update or an answer leave it started.       *)
LEMMA StartedOutside ==
  ASSUME TypeOK, Outside, Started'
  PROVE  /\ Started /\ linkUp /\ klippy
         /\ (\E o \in Objects, v \in Values : Change(o, v)) \/ Answer
<1>1. linkUp' /\ klippy' /\ ~Pending(inbox', Starts) /\ inbox \in Seq(Messages)
  BY DEF Started, Online, TypeOK
<1>2. ASSUME NEW m \in Messages, inbox' = Append(inbox, m)
      PROVE  m.kind \notin Starts /\ ~Pending(inbox, Starts)
  BY <1>1, <1>2, PendingAppend
<1>3. ~KlippyReady
  <2>1. Signal("klippy_ready") \in Messages /\ Signal("klippy_ready").kind \in Starts
    BY MessageTypes DEF Signals, Starts
  <2> QED
    BY <1>1, <1>2, <2>1 DEF KlippyReady, Push
<1>4. ~KlippyDown /\ ~LinkDown
  BY <1>1 DEF KlippyDown, LinkDown
<1>5. ~LinkUp
  <2>1. Signal("open") \in Messages /\ Signal("open").kind \in Starts
    BY MessageTypes DEF Signals, Starts
  <2>2. LinkUp => inbox' = Append(inbox, Signal("open"))
    BY DEF LinkUp
  <2> QED
    BY <1>1, <1>2, <2>1, <2>2
<1>6. ASSUME NEW c \in Objects, NEW v \in Values, Change(c, v)
      PROVE  Started /\ linkUp /\ klippy
  <2>1. Update(c, v) \in Messages
    BY MessageTypes
  <2>2. linkUp /\ klippy /\ (inbox' = Append(inbox, Update(c, v)) \/ inbox' = inbox)
    BY <1>1, <1>6 DEF Change, Push
  <2> QED
    BY <1>1, <1>2, <2>1, <2>2 DEF Started, Online
<1>7. ASSUME Answer
      PROVE  Started /\ linkUp /\ klippy
  <2>1. linkUp /\ klippy
    BY <1>1, <1>7 DEF Answer, AnswerList, AnswerSubscribe, env
  <2>2. ~Pending(inbox, Starts)
    <3>1. CASE AnswerList
      <4> DEFINE m == ObjectList(klippy, IF klippy THEN config ELSE {})
      <4>1. m \in Messages
        BY MessageTypes DEF TypeOK
      <4>2. inbox' = Append(inbox, m)
        BY <2>1, <3>1 DEF AnswerList, Push
      <4> QED
        BY <1>2, <4>1, <4>2
    <3>2. CASE AnswerSubscribe
      <4> DEFINE objs == IF klippy THEN Head(reqs).objs \cap config ELSE {}
                 snap == [o \in Objects |-> IF o \in objs THEN truth[o] ELSE Absent]
      <4>1. snap \in Snapshots
        BY DEF TypeOK, Snapshots
      <4>2. Push(Status(klippy, snap))
        BY <3>2 DEF AnswerSubscribe
      <4> HIDE DEF objs, snap
      <4>3. Status(klippy, snap) \in Messages
        BY <4>1, MessageTypes DEF TypeOK
      <4> QED
        BY <1>2, <2>1, <4>2, <4>3 DEF Push
    <3> QED
      BY <1>7, <3>1, <3>2 DEF Answer
  <2> QED
    BY <2>1, <2>2 DEF Started, Online
<1> QED
  BY <1>3, <1>4, <1>5, <1>6, <1>7 DEF Outside

(* A request is one of the two.                                              *)
LEMMA RequestFacts ==
  /\ ListRequest \in Requests /\ ListRequest.kind = "list"
  /\ \A objs \in SUBSET Objects :
       /\ SubscribeRequest(objs) \in Requests
       /\ SubscribeRequest(objs).kind = "subscribe" /\ SubscribeRequest(objs).objs = objs
  /\ \A r \in Requests : r.kind = "list" \/ (r.kind = "subscribe" /\ r.objs \in SUBSET Objects)
BY DEF ListRequest, SubscribeRequest, Requests

(* The two halves of RequestInv.                                             *)
AsksPresent(rs) ==
  \A i \in DOMAIN rs : rs[i].kind = "subscribe" => rs[i].objs = config \/ Behind(rs, i, {"list"})
TellsPresent(q, rs) ==
  \A i \in DOMAIN q : q[i].kind = "subscribe" =>
    Full(q[i]) \/ Pending(rs, {"list"}) \/ Behind(q, i, {"list"})

LEMMA AsksTail ==
  ASSUME NEW rs \in Seq(Requests), rs /= <<>>, AsksPresent(rs)
  PROVE  AsksPresent(Tail(rs))
<1> SUFFICES ASSUME NEW i \in DOMAIN Tail(rs), Tail(rs)[i].kind = "subscribe"
             PROVE  Tail(rs)[i].objs = config \/ Behind(Tail(rs), i, {"list"})
  BY DEF AsksPresent
<1>1. i + 1 \in DOMAIN rs /\ Tail(rs)[i] = rs[i + 1]
  BY TailFacts
<1>2. rs[i + 1].objs = config \/ Behind(rs, i + 1, {"list"})
  BY <1>1 DEF AsksPresent
<1> QED
  BY <1>1, <1>2, BehindTail

LEMMA AsksAppend ==
  ASSUME NEW rs \in Seq(Requests), NEW r \in Requests,
         r.kind = "list" \/ (AsksPresent(rs) /\ r.objs = config)
  PROVE  AsksPresent(Append(rs, r))
<1> SUFFICES ASSUME NEW i \in DOMAIN Append(rs, r), Append(rs, r)[i].kind = "subscribe"
             PROVE  Append(rs, r)[i].objs = config \/ Behind(Append(rs, r), i, {"list"})
  BY DEF AsksPresent
<1>1. CASE i \in DOMAIN rs
  <2>1. Append(rs, r)[i] = rs[i]
    BY <1>1, AppendFacts
  <2>2. r.kind = "list" \/ rs[i].objs = config \/ Behind(rs, i, {"list"})
    BY <1>1, <2>1 DEF AsksPresent
  <2> QED
    BY <1>1, <2>1, <2>2, BehindAppend
<1>2. CASE i = Len(rs) + 1
  BY <1>2, AppendFacts
<1> QED
  BY <1>1, <1>2, AppendFacts

LEMMA TellsTail ==
  ASSUME NEW q \in Seq(Messages), q /= <<>>, NEW rs, TellsPresent(q, rs)
  PROVE  TellsPresent(Tail(q), rs)
<1> SUFFICES ASSUME NEW i \in DOMAIN Tail(q), Tail(q)[i].kind = "subscribe"
             PROVE  Full(Tail(q)[i]) \/ Pending(rs, {"list"}) \/ Behind(Tail(q), i, {"list"})
  BY DEF TellsPresent
<1>1. i + 1 \in DOMAIN q /\ Tail(q)[i] = q[i + 1]
  BY TailFacts
<1>2. Full(q[i + 1]) \/ Pending(rs, {"list"}) \/ Behind(q, i + 1, {"list"})
  BY <1>1 DEF TellsPresent
<1> QED
  BY <1>1, <1>2, BehindTail

LEMMA TellsAppend ==
  ASSUME NEW q \in Seq(Messages), NEW m \in Messages, NEW rs, NEW sr,
         TellsPresent(q, rs),
         Pending(rs, {"list"}) => m.kind = "list" \/ Pending(sr, {"list"}),
         m.kind = "subscribe" => Full(m) \/ Pending(sr, {"list"})
  PROVE  TellsPresent(Append(q, m), sr)
<1> SUFFICES ASSUME NEW i \in DOMAIN Append(q, m), Append(q, m)[i].kind = "subscribe"
             PROVE  Full(Append(q, m)[i]) \/ Pending(sr, {"list"})
                      \/ Behind(Append(q, m), i, {"list"})
  BY DEF TellsPresent
<1>1. CASE i \in DOMAIN q
  <2>1. Append(q, m)[i] = q[i]
    BY <1>1, AppendFacts
  <2>2. Full(q[i]) \/ m.kind = "list" \/ Pending(sr, {"list"}) \/ Behind(q, i, {"list"})
    BY <1>1, <2>1 DEF TellsPresent
  <2> QED
    BY <1>1, <2>1, <2>2, BehindAppend
<1>2. CASE i = Len(q) + 1
  BY <1>2, AppendFacts
<1> QED
  BY <1>1, <1>2, AppendFacts

LEMMA RequestHalves ==
  /\ Started /\ RequestInv => AsksPresent(reqs) /\ TellsPresent(inbox, reqs)
  /\ (config' = config /\ (Started' => AsksPresent(reqs') /\ TellsPresent(inbox', reqs')))
       => RequestInv'
BY DEF RequestInv, AsksPresent, TellsPresent, Full

LEMMA HandleRequests ==
  ASSUME TypeOK, CurrentInv, RequestInv, Handle
  PROVE  RequestInv'
<1>1. /\ inbox \in Seq(Messages) /\ inbox /= <<>> /\ inbox' = Tail(inbox) /\ UNCHANGED env
      /\ Head(inbox) \in Messages /\ reqs \in Seq(Requests) /\ config' = config
  BY HandlerTakes DEF TypeOK, env
<1>2. ASSUME Started'
      PROVE  AsksPresent(reqs') /\ TellsPresent(inbox', reqs')
  <2>1. Online /\ linkUp
    BY <1>2, StartedHandles
  <2>2. CASE Connected
    <3>1. reqs' = Append(reqs, ListRequest)
      BY <2>1, <2>2 DEF Connected, Request
    <3>2. AsksPresent(reqs')
      BY <1>1, <3>1, AsksAppend, RequestFacts
    <3>3. Pending(reqs', {"list"})
      BY <1>1, <3>1, PendingAppend, RequestFacts
    <3> QED
      BY <3>2, <3>3 DEF TellsPresent
  <2>3. CASE Started /\ Current(Head(inbox)) /\ (HandleSubscribe \/ HandleUpdate)
    <3>1. reqs' = reqs
      BY <2>3 DEF HandleSubscribe, HandleUpdate
    <3> QED
      BY <1>1, <2>3, <3>1, RequestHalves, TellsTail
  <2>4. CASE Started /\ Current(Head(inbox)) /\ HandleList
    <3>1. Head(inbox).kind = "list" /\ Head(inbox).ok /\ Head(inbox).objs = config
      BY <2>4 DEF HandleList, Take, Current
    <3>2. reqs' = Append(reqs, SubscribeRequest(config))
      BY <2>1, <2>4, <3>1 DEF HandleList, Request
    <3>3. config \in SUBSET Objects /\ SubscribeRequest(config) \in Requests
            /\ SubscribeRequest(config).objs = config
      BY RequestFacts DEF TypeOK
    <3>4. AsksPresent(reqs')
      BY <1>1, <2>4, <3>2, <3>3, RequestHalves, AsksAppend
    <3>5. Pending(reqs, {"list"}) => Pending(reqs', {"list"})
      BY <1>1, <3>2, <3>3, PendingAppend
    <3>6. TellsPresent(inbox', reqs)
      BY <1>1, <2>4, RequestHalves, TellsTail
    <3>7. TellsPresent(inbox', reqs')
      BY <3>5, <3>6 DEF TellsPresent
    <3> QED
      BY <3>4, <3>7
  <2> QED
    BY <1>2, <2>2, <2>3, <2>4, StartedHandles
<1> QED
  BY <1>1, <1>2, RequestHalves

LEMMA OutsideRequests ==
  ASSUME TypeOK, RequestInv, Outside
  PROVE  RequestInv'
<1>1. inbox \in Seq(Messages) /\ reqs \in Seq(Requests)
  BY DEF TypeOK
<1> SUFFICES ASSUME Started' PROVE RequestInv'
  BY DEF RequestInv
<1>2. /\ linkUp /\ klippy /\ AsksPresent(reqs) /\ TellsPresent(inbox, reqs)
      /\ (\E o \in Objects, v \in Values : Change(o, v)) \/ Answer
  BY StartedOutside, RequestHalves
<1>3. ASSUME NEW c \in Objects, NEW v \in Values, Change(c, v)
      PROVE  RequestInv'
  <2>1. /\ Update(c, v) \in Messages /\ Update(c, v).kind = "update"
        /\ config' = config /\ reqs' = reqs
        /\ inbox' = Append(inbox, Update(c, v)) \/ inbox' = inbox
    BY <1>3, MessageTypes DEF Change, Push, Update
  <2>2. TellsPresent(Append(inbox, Update(c, v)), reqs)
    BY <1>1, <1>2, <2>1, TellsAppend
  <2> QED
    BY <1>2, <2>1, <2>2, RequestHalves
<1>4. CASE AnswerList
  <2> DEFINE m == ObjectList(klippy, IF klippy THEN config ELSE {})
  <2>1. m \in Messages /\ m.kind = "list"
    BY MessageTypes DEF ObjectList, TypeOK
  <2>2. /\ inbox' = Append(inbox, m) /\ config' = config
        /\ reqs /= <<>> /\ reqs' = Tail(reqs)
    BY <1>2, <1>4 DEF AnswerList, Push, env
  <2> HIDE DEF m
  <2>3. AsksPresent(reqs')
    BY <1>1, <1>2, <2>2, AsksTail
  <2>4. TellsPresent(inbox', reqs')
    BY <1>1, <1>2, <2>1, <2>2, TellsAppend
  <2> QED
    BY <2>2, <2>3, <2>4, RequestHalves
<1>5. CASE AnswerSubscribe
  <2> DEFINE objs == IF klippy THEN Head(reqs).objs \cap config ELSE {}
             snap == [o \in Objects |-> IF o \in objs THEN truth[o] ELSE Absent]
             m == Status(klippy, snap)
  <2>1. snap \in Snapshots /\ m.kind = "subscribe" /\ m.snap = snap
        /\ \A o \in objs : o \in Objects /\ snap[o] = truth[o] /\ truth[o] /= Absent
    BY SessionAssumption DEF TypeOK, Snapshots, Status
  <2>2. m \in Messages
    BY <2>1, MessageTypes DEF TypeOK
  <2>3. objs = Head(reqs).objs \cap config
    BY <1>2
  <2>4. /\ Push(m) /\ config' = config /\ reqs /= <<>> /\ reqs' = Tail(reqs)
        /\ Head(reqs).kind = "subscribe"
    BY <1>5 DEF AnswerSubscribe
  <2> HIDE DEF m, snap, objs
  <2>5. inbox' = Append(inbox, m)
    BY <1>2, <2>4 DEF Push
  <2>6. AsksPresent(reqs')
    BY <1>1, <1>2, <2>4, AsksTail
  <2>7. Pending(reqs, {"list"}) => Pending(reqs', {"list"})
    BY <1>1, <2>4, PendingTail
  <2>8. Full(m) \/ Pending(reqs', {"list"})
    <3>1. Head(reqs).objs = config \/ Behind(reqs, 1, {"list"})
      BY <1>1, <1>2, <2>4, TailFacts DEF AsksPresent
    <3>2. CASE Head(reqs).objs = config
      BY <2>1, <2>3, <3>2 DEF Full
    <3>3. CASE Behind(reqs, 1, {"list"})
      <4>1. Pending(reqs, {"list"})
        BY <3>3 DEF Behind, Pending
      <4> QED
        BY <2>7, <4>1
    <3> QED
      BY <3>1, <3>2, <3>3
  <2>9. TellsPresent(inbox', reqs')
    BY <1>1, <1>2, <2>2, <2>5, <2>7, <2>8, TellsAppend
  <2> QED
    BY <2>4, <2>6, <2>9, RequestHalves
<1> QED
  BY <1>2, <1>3, <1>4, <1>5 DEF Answer

LEMMA MergeShape ==
  ASSUME NEW s \in ScreenType, NEW snap \in Snapshots
  PROVE  /\ Merge(s, snap).known = s.known /\ Merge(s, snap).notice = s.notice
         /\ \A o \in Objects : Merge(s, snap).cards[o] = NoCard <=> s.cards[o] = NoCard
<1>1. Merge(s, snap).known = s.known /\ Merge(s, snap).notice = s.notice
  BY DEF Merge, ScreenType
<1>2. ASSUME NEW o \in Objects
      PROVE  Merge(s, snap).cards[o] = NoCard <=> s.cards[o] = NoCard
  <2>1. snap[o] /= NoCard
    BY SessionAssumption DEF Snapshots
  <2> QED
    BY <2>1, MergeFacts
<1> QED
  BY <1>1, <1>2

LEMMA HandleStage ==
  ASSUME TypeOK, CurrentInv, RequestInv, StageInv, Handle
  PROVE  StageInv'
<1> SUFFICES ASSUME Started' PROVE StageInv'
  BY DEF StageInv
<1>1. /\ inbox \in Seq(Messages) /\ inbox /= <<>> /\ inbox' = Tail(inbox) /\ UNCHANGED env
      /\ Head(inbox) \in Messages /\ reqs \in Seq(Requests) /\ screen \in ScreenType
      /\ config' = config /\ sub' = sub /\ config \in SUBSET Objects
  BY HandlerTakes DEF TypeOK, env
<1>2. Online /\ linkUp
  BY StartedHandles
<1>3. CASE Connected
  <2>1. reqs' = Append(reqs, ListRequest)
    BY <1>2, <1>3 DEF Connected, Request
  <2>2. Listing' /\ Subscribing' /\ Filling'
    BY <1>1, <2>1, PendingAppend, RequestFacts DEF Listing, Subscribing, Filling
  <2>3. screen'.mirror = Nothing
    BY <1>1, <1>3, ResetFacts DEF Connected
  <2> QED
    BY <2>2, <2>3 DEF StageInv, Nothing
<1>4. CASE Started /\ Current(Head(inbox)) /\ HandleList
  <2> DEFINE m == Head(inbox)
  <2>1. m.kind = "list" /\ m.ok /\ m.objs = config
    BY <1>4 DEF HandleList, Take, Current
  <2>2. reqs' = Append(reqs, SubscribeRequest(config))
    BY <1>2, <1>4, <2>1 DEF HandleList, Request
  <2>3. Subscribing' /\ Filling'
    BY <1>1, <2>2, PendingAppend, RequestFacts DEF Subscribing, Filling
  <2>4. screen' = [screen EXCEPT !.known = config, !.cards = NewCards(config)]
    BY <1>4, <2>1 DEF HandleList, Listed
  <2>5. screen'.known = config /\ screen'.cards = NewCards(config)
        /\ screen'.mirror = screen.mirror
    BY <1>1, <2>4 DEF ScreenType
  <2>6. {o \in Objects : screen'.cards[o] /= NoCard} = Displayed(config)
    <3>1. Displayed(config) \subseteq Objects
      BY <1>1 DEF Displayed
    <3>2. \A o \in Objects : NewCards(config)[o] /= NoCard <=> o \in Displayed(config)
      BY SessionAssumption DEF NewCards
    <3> QED
      BY <2>5, <3>1, <3>2
  <2> QED
    BY <1>1, <1>4, <2>3, <2>5, <2>6 DEF StageInv
<1>5. ASSUME Started, Current(Head(inbox)), NEW snap \in Snapshots, reqs' = reqs,
             \A o \in Objects \ config : snap[o] = Absent,
             screen'.mirror = Merge(screen, snap).mirror,
             screen'.cards = Merge(screen, snap).cards, screen'.known = screen.known,
             Head(inbox).kind \notin {"list"}
      PROVE  /\ \A o \in Objects \ config : screen'.mirror[o] = Absent
             /\ Listing' \/ (screen'.known = config
                   /\ {o \in Objects : screen'.cards[o] /= NoCard} = Displayed(config))
             /\ Subscribing' \/ sub' = config
             /\ Listing' <=> Listing
             /\ Subscribing' <=> Subscribing
  <2>1. \A o \in Objects \ config : screen'.mirror[o] = Absent
    BY <1>1, <1>5, MergeFacts DEF StageInv
  <2>2. Pending(inbox', {"list"}) <=> Pending(inbox, {"list"})
    BY <1>1, <1>5, PendingTail
  <2>3. (Listing' <=> Listing) /\ (Subscribing' <=> Subscribing)
    BY <1>5, <2>2 DEF Listing, Subscribing
  <2>4. Listing \/ (screen.known = config
                     /\ {o \in Objects : screen.cards[o] /= NoCard} = Displayed(config))
    BY <1>5 DEF StageInv
  <2>5. {o \in Objects : screen'.cards[o] /= NoCard} = {o \in Objects : screen.cards[o] /= NoCard}
    BY <1>1, <1>5, MergeShape
  <2>6. Subscribing \/ sub = config
    BY <1>5 DEF StageInv
  <2> QED
    BY <1>1, <1>5, <2>1, <2>3, <2>4, <2>5, <2>6
<1>6. CASE Started /\ Current(Head(inbox)) /\ HandleSubscribe
  <2> DEFINE m == Head(inbox)
             t == Merge(screen, m.snap)
  <2>1. /\ m.kind = "subscribe" /\ m.snap \in Snapshots /\ reqs' = reqs
        /\ \A o \in Objects \ config : m.snap[o] = Absent
    BY <1>1, <1>6, MessageFacts DEF HandleSubscribe, Take, Current
  <2>2. t \in ScreenType /\ t.known = screen.known
    BY <1>1, <2>1, MergeFacts, MergeShape
  <2>3. screen' = [t EXCEPT !.notice = FALSE]
    BY <1>6 DEF HandleSubscribe, Subscribed
  <2>4. /\ \A o \in Objects : t.cards[o] = IF m.snap[o] /= Absent /\ screen.cards[o] /= NoCard
                                           THEN m.snap[o] ELSE screen.cards[o]
    BY <1>1, <2>1, MergeFacts
  <2> HIDE DEF t
  <2>5. screen'.mirror = t.mirror /\ screen'.cards = t.cards /\ screen'.known = t.known
        /\ ~screen'.notice
    BY <2>2, <2>3 DEF ScreenType
  <2>6. ASSUME ~Filling' PROVE \A o \in Objects : screen'.cards[o] /= Absent
    <3>1. ~Pending(reqs, {"list"}) /\ ~Pending(inbox, {"list"})
      BY <1>1, <2>1, <2>6, PendingTail DEF Filling, Subscribing, Listing
    <3>2. Full(m)
      <4>1. Full(inbox[1]) \/ Pending(reqs, {"list"}) \/ Behind(inbox, 1, {"list"})
        BY <1>1, <1>6, <2>1, TailFacts DEF RequestInv
      <4> QED
        BY <1>1, <3>1, <4>1, NoneBehind, TailFacts
    <3>3. {o \in Objects : screen.cards[o] /= NoCard} = Displayed(config)
      BY <1>6, <3>1 DEF StageInv, Listing
    <3>4. ASSUME NEW o \in Objects PROVE screen'.cards[o] /= Absent
      <4>1. CASE o \in config
        <5>1. m.snap[o] /= Absent
          BY <3>2, <4>1 DEF Full
        <5> QED
          BY <2>4, <2>5, <5>1, SessionAssumption
      <4>2. CASE o \notin config
        <5>1. o \notin Displayed(config)
          BY <4>2 DEF Displayed
        <5>2. screen.cards[o] = NoCard
          BY <3>3, <5>1
        <5> QED
          BY <2>4, <2>5, <5>2, SessionAssumption
      <4> QED
        BY <4>1, <4>2
    <3> QED
      BY <3>4
  <2> QED
    BY <1>1, <1>5, <1>6, <2>1, <2>2, <2>5, <2>6 DEF StageInv, t
<1>7. CASE Started /\ Current(Head(inbox)) /\ HandleUpdate
  <2> DEFINE m == Head(inbox)
             snap == [Nothing EXCEPT ![m.obj] = m.val]
  <2>1. m.kind = "update" /\ m.obj \in Objects /\ m.val \in Values /\ m.obj \in config
        /\ reqs' = reqs
    BY <1>1, <1>7, MessageFacts DEF HandleUpdate, Take, Current
  <2>2. snap \in Snapshots /\ \A o \in Objects : snap[o] = IF o = m.obj THEN m.val ELSE Absent
    BY <2>1 DEF Nothing, Snapshots
  <2>3. screen' = Merge(screen, snap)
    BY <1>7 DEF HandleUpdate, Updated
  <2> HIDE DEF snap
  <2>4. screen'.known = screen.known /\ screen'.notice = screen.notice
    BY <1>1, <2>2, <2>3, MergeShape
  <2>5. \A o \in Objects : screen.cards[o] /= Absent => screen'.cards[o] /= Absent
    BY <1>1, <2>2, <2>3, MergeFacts
  <2>6. /\ \A o \in Objects \ config : screen'.mirror[o] = Absent
        /\ Listing' \/ (screen'.known = config
              /\ {o \in Objects : screen'.cards[o] /= NoCard} = Displayed(config))
        /\ Subscribing' \/ sub' = config
        /\ Listing' <=> Listing
        /\ Subscribing' <=> Subscribing
    BY <1>5, <1>7, <2>1, <2>2, <2>3, <2>4
  <2>7. Filling' <=> Filling
    BY <1>1, <2>1, <2>6, PendingTail DEF Filling
  <2> QED
    BY <1>1, <1>7, <2>4, <2>5, <2>6, <2>7 DEF StageInv
<1> QED
  BY <1>3, <1>4, <1>6, <1>7, StartedHandles

LEMMA OutsideStage ==
  ASSUME TypeOK, RequestInv, StageInv, Outside
  PROVE  StageInv'
<1>1. inbox \in Seq(Messages) /\ reqs \in Seq(Requests) /\ screen' = screen
  BY OutsideType DEF TypeOK
<1> SUFFICES ASSUME Started' PROVE StageInv'
  BY DEF StageInv
<1>2. /\ linkUp /\ klippy /\ Started
      /\ (\E o \in Objects, v \in Values : Change(o, v)) \/ Answer
  BY StartedOutside
<1>3. ASSUME NEW c \in Objects, NEW v \in Values, Change(c, v)
      PROVE  StageInv'
  <2>1. /\ Update(c, v) \in Messages /\ Update(c, v).kind = "update"
        /\ config' = config /\ reqs' = reqs /\ sub' = sub
        /\ inbox' = Append(inbox, Update(c, v)) \/ inbox' = inbox
    BY <1>3, MessageTypes DEF Change, Push, Update
  <2>2. /\ Pending(inbox', {"list"}) <=> Pending(inbox, {"list"})
        /\ Pending(inbox', {"subscribe"}) <=> Pending(inbox, {"subscribe"})
    <3>1. CASE inbox' = inbox
      BY <3>1
    <3>2. CASE inbox' = Append(inbox, Update(c, v))
      <4>1. Pending(inbox', {"list"}) <=> Pending(inbox, {"list"})
        BY <1>1, <2>1, <3>2, PendingAppend
      <4>2. Pending(inbox', {"subscribe"}) <=> Pending(inbox, {"subscribe"})
        BY <1>1, <2>1, <3>2, PendingAppend
      <4> QED
        BY <4>1, <4>2
    <3> QED
      BY <2>1, <3>1, <3>2
  <2>3. (Listing' <=> Listing) /\ (Subscribing' <=> Subscribing) /\ (Filling' <=> Filling)
    BY <2>1, <2>2 DEF Listing, Subscribing, Filling
  <2> QED
    BY <1>1, <1>2, <2>1, <2>3 DEF StageInv
<1>4. CASE AnswerList
  <2> DEFINE m == ObjectList(klippy, IF klippy THEN config ELSE {})
  <2>1. m \in Messages /\ m.kind = "list"
    BY MessageTypes DEF ObjectList, TypeOK
  <2>2. inbox' = Append(inbox, m) /\ config' = config
    BY <1>2, <1>4 DEF AnswerList, Push, env
  <2> HIDE DEF m
  <2>3. Listing' /\ Subscribing' /\ Filling'
    BY <1>1, <2>1, <2>2, PendingAppend DEF Listing, Subscribing, Filling
  <2> QED
    BY <1>1, <1>2, <2>2, <2>3 DEF StageInv
<1>5. CASE AnswerSubscribe
  <2> DEFINE objs == IF klippy THEN Head(reqs).objs \cap config ELSE {}
             snap == [o \in Objects |-> IF o \in objs THEN truth[o] ELSE Absent]
             m == Status(klippy, snap)
  <2>1. snap \in Snapshots /\ m.kind = "subscribe"
    BY DEF TypeOK, Snapshots, Status
  <2>2. m \in Messages
    BY <2>1, MessageTypes DEF TypeOK
  <2>3. /\ sub' = Head(reqs).objs \cap config
        /\ Push(m) /\ config' = config /\ reqs /= <<>> /\ reqs' = Tail(reqs)
        /\ Head(reqs).kind = "subscribe"
    BY <1>2, <1>5 DEF AnswerSubscribe
  <2> HIDE DEF m, snap, objs
  <2>4. inbox' = Append(inbox, m)
    BY <1>2, <2>3 DEF Push
  <2>5. Filling'
    BY <1>1, <2>1, <2>2, <2>4, PendingAppend DEF Filling
  <2>6. Pending(reqs, {"list"}) <=> Pending(reqs', {"list"})
    BY <1>1, <2>3, PendingTail
  <2>7. Listing' <=> Listing
    BY <1>1, <2>1, <2>2, <2>4, <2>6, PendingAppend DEF Listing
  <2>8. Subscribing' \/ sub' = config
    <3>1. Head(reqs).objs = config \/ Behind(reqs, 1, {"list"})
      BY <1>1, <1>2, <2>3, TailFacts DEF RequestInv
    <3>2. CASE Behind(reqs, 1, {"list"})
      <4>1. Pending(reqs, {"list"})
        BY <3>2 DEF Behind, Pending
      <4> QED
        BY <2>6, <4>1 DEF Subscribing, Listing
    <3> QED
      BY <2>3, <3>1, <3>2
  <2> QED
    BY <1>1, <1>2, <2>3, <2>5, <2>7, <2>8 DEF StageInv
<1> QED
  BY <1>2, <1>3, <1>4, <1>5 DEF Answer

-----------------------------------------------------------------------------
LEMMA InitInv == Init => IInv
<1> SUFFICES ASSUME Init PROVE IInv
  OBVIOUS
<1> USE DEF Init
<1>1. TypeOK
  <2>1. screen \in ScreenType
    BY DEF ScreenType, Nothing, Snapshots
  <2>2. klippy \in BOOLEAN /\ linkUp \in BOOLEAN /\ refused \in BOOLEAN
    BY Zenon
  <2>3. /\ config \in SUBSET Objects /\ truth \in [Objects -> Values] /\ sub \in SUBSET Objects
        /\ reqs \in Seq(Requests) /\ inbox \in Seq(Messages) /\ faults \in 0..MaxFaults
    BY SessionAssumption DEF Configs
  <2> QED
    BY <2>1, <2>2, <2>3 DEF TypeOK
<1>2. CardsFollowMirror
  BY DEF CardsFollowMirror, Nothing
<1>3. NoticeInv
  BY DEF NoticeInv, WontHide
<1>4. ~Online /\ ~Started /\ MirrorInv
  BY DEF Online, Started, MirrorInv
<1> QED
  BY <1>1, <1>2, <1>3, <1>4 DEF IInv, CurrentInv, RequestInv, StageInv

(* The parts of IInv say nothing of refused and faults but in TypeOK and     *)
(* NoticeInv.                                                                *)
LEMMA StutterInv == IInv /\ UNCHANGED vars => IInv'
<1> SUFFICES ASSUME IInv, UNCHANGED vars PROVE IInv'
  OBVIOUS
<1>1. UNCHANGED <<klippy, config, truth, linkUp, sub, reqs, inbox, screen, refused, faults>>
  BY DEF vars
<1>2. TypeOK' /\ CardsFollowMirror'
  BY <1>1 DEF IInv, TypeOK, CardsFollowMirror
<1>3. NoticeInv' /\ MirrorInv'
  BY <1>1 DEF IInv, NoticeInv, MirrorInv, Online
<1>4. CurrentInv'
  BY <1>1 DEF IInv, CurrentInv, Current, Online
<1>5. RequestInv'
  BY <1>1 DEF IInv, RequestInv, Started, Full, Online
<1>6. StageInv'
  BY <1>1 DEF IInv, StageInv, Started, Online, Listing, Subscribing, Filling
<1> QED
  BY <1>2, <1>3, <1>4, <1>5, <1>6 DEF IInv

LEMMA NextInv == IInv /\ [Next]_vars => IInv'
<1> SUFFICES ASSUME IInv, [Next]_vars PROVE IInv'
  OBVIOUS
<1>1. /\ TypeOK /\ CardsFollowMirror /\ NoticeInv
      /\ MirrorInv /\ CurrentInv /\ RequestInv /\ StageInv
  BY DEF IInv
<1>2. CASE Handle
  <2>1. TypeOK' /\ CardsFollowMirror' /\ NoticeInv' /\ MirrorInv'
    BY <1>1, <1>2, HandlerFacts, HandleType, HandleNotice, HandleMirrorInv
  <2>2. CurrentInv' /\ RequestInv' /\ StageInv'
    BY <1>1, <1>2, HandleCurrent, HandleRequests, HandleStage
  <2> QED
    BY <2>1, <2>2 DEF IInv
<1>3. CASE Outside
  <2>1. TypeOK' /\ NoticeInv' /\ MirrorInv'
    BY <1>1, <1>3, OutsideType, OutsideNotice, OutsideMirrorInv
  <2>2. CardsFollowMirror'
    BY <1>1, <1>3, OutsideType DEF CardsFollowMirror
  <2>3. CurrentInv' /\ RequestInv' /\ StageInv'
    BY <1>1, <1>3, OutsideCurrent, OutsideRequests, OutsideStage
  <2> QED
    BY <2>1, <2>2, <2>3 DEF IInv
<1> QED
  BY <1>2, <1>3, StutterInv DEF Next, Outside

THEOREM Inductive == Spec => []IInv
BY InitInv, NextInv, PTL DEF Spec

-----------------------------------------------------------------------------
(* Every variable keeps its type, the messages under way included.           *)
THEOREM TypeCorrect == Spec => []TypeOK
<1>1. IInv => TypeOK
  BY DEF IInv
<1> QED
  BY Inductive, <1>1, PTL

(* A card and State never disagree about the value of a sensor.              *)
THEOREM CardsAreTrue == Spec => []CardsFollowMirror
<1>1. IInv => CardsFollowMirror
  BY DEF IInv
<1> QED
  BY Inductive, <1>1, PTL

(* Once it knows that Klipper or the link is gone, the screen shows the      *)
(* notice, unless a refused subscription hid it (init_panel.cpp).            *)
THEOREM NoticeShown == Spec => []NoticeUnlessRefused
<1>1. IInv => NoticeUnlessRefused
  BY DEF IInv, NoticeInv, NoticeUnlessRefused, WillShow
<1> QED
  BY Inductive, <1>1, PTL

-----------------------------------------------------------------------------
(* The queue handled to its end. *)

(* A set of numbers has a smallest: what the inductions below rest on.       *)
LEMMA Smallest ==
  ASSUME NEW S \in SUBSET Nat, S /= {}
  PROVE  \E m \in S : \A k \in S : m <= k
<1> DEFINE R == OpToRel(<, Nat)
<1>1. IsWellFoundedOn(R, Nat)
  BY NatLessThanWellFounded
<1>2. R = {p \in Nat \X Nat : p[1] < p[2]}
  BY DEF OpToRel
<1> HIDE DEF R
<1>3. PICK m \in S : \A k \in S : <<k, m>> \notin R
  BY <1>1, WFMin
<1>4. ASSUME NEW k \in S PROVE m <= k
  <2>1. <<k, m>> \in Nat \X Nat /\ <<k, m>>[1] = k /\ <<k, m>>[2] = m
    OBVIOUS
  <2>2. ~(k < m)
    BY <1>2, <1>3, <2>1
  <2> QED
    BY <2>2
<1> QED
  BY <1>4

(* The screens that s becomes over the first n messages of q.                *)
Replays(h, n, q, s) ==
  h = [k \in 0..n |-> IF k = 0 THEN s ELSE After(h[k - 1], q[k])]

LEMMA ReplaysExist ==
  ASSUME NEW q \in Seq(Messages), NEW s
  PROVE  \A n \in Nat : \E h : Replays(h, n, q, s)
<1> DEFINE Bad == {n \in Nat : ~\E h : Replays(h, n, q, s)}
<1> SUFFICES ASSUME Bad /= {} PROVE FALSE
  OBVIOUS
<1>1. PICK m \in Bad : \A n \in Bad : m <= n
  BY Smallest
<1>2. m /= 0
  <2>1. Replays([k \in 0..0 |-> s], 0, q, s)
    BY DEF Replays
  <2> QED
    BY <2>1
<1>3. m \in Nat /\ m - 1 \in Nat /\ m - 1 \notin Bad
  BY <1>1, <1>2
<1>4. PICK h : Replays(h, m - 1, q, s)
  BY <1>3
<1> DEFINE g == [k \in 0..m |-> IF k = m THEN After(h[m - 1], q[m]) ELSE h[k]]
<1>5. Replays(g, m, q, s)
  <2>1. ASSUME NEW k \in 0..m
        PROVE  g[k] = IF k = 0 THEN s ELSE After(g[k - 1], q[k])
    <3>1. CASE k = m
      <4>1. m - 1 \in 0..m /\ m - 1 /= m
        BY <1>2, <1>3
      <4>2. g[m - 1] = h[m - 1]
        BY <4>1
      <4> QED
        BY <1>2, <3>1, <4>2
    <3>2. CASE k /= m
      <4>1. k \in 0..(m - 1) /\ g[k] = h[k]
        BY <1>3, <3>2
      <4>2. h[k] = IF k = 0 THEN s ELSE After(h[k - 1], q[k])
        BY <1>4, <4>1 DEF Replays
      <4>3. k /= 0 => k - 1 \in 0..m /\ k - 1 /= m
        BY <1>3, <4>1
      <4>4. k /= 0 => g[k - 1] = h[k - 1]
        BY <4>3
      <4> QED
        BY <4>1, <4>2, <4>4
    <3> QED
      BY <3>1, <3>2
  <2> HIDE DEF g
  <2>2. g = [k \in 0..m |-> g[k]]
    BY DEF g
  <2> QED
    BY <2>1, <2>2 DEF Replays
<1> QED
  BY <1>1, <1>5

(* When the queue gives an object the value t, its replay ends with it.      *)
LEMMA ReplayFollows ==
  ASSUME NEW q \in Seq(Messages), NEW s \in ScreenType, NEW h, Replays(h, Len(q), q, s),
         NEW o \in Objects, NEW t, Follows(q, o, t, s.mirror[o])
  PROVE  h[Len(q)].mirror[o] = t
<1> DEFINE Quiet(k) == \A i \in DOMAIN q : i > k => ~Touches(q[i], o)
           Good(k) == h[k] \in ScreenType /\ (Quiet(k) => h[k].mirror[o] = t)
           Bad == {k \in 0..Len(q) : ~Good(k)}
<1>1. Len(q) \in Nat /\ DOMAIN q = 1..Len(q)
  OBVIOUS
<1>2. /\ h[0] = s
      /\ \A k \in 1..Len(q) : h[k] = After(h[k - 1], q[k])
  BY <1>1 DEF Replays
<1>3. Good(0)
  <2>1. Quiet(0) => s.mirror[o] = t
    BY <1>1 DEF Follows
  <2> QED
    BY <1>2, <2>1
<1>4. ASSUME NEW k \in 1..Len(q), Good(k - 1)
      PROVE  Good(k)
  <2>1. q[k] \in Messages /\ k \in DOMAIN q /\ h[k] = After(h[k - 1], q[k])
    BY <1>1, <1>2
  <2>2. /\ h[k] \in ScreenType
        /\ h[k].mirror[o] = IF Touches(q[k], o) THEN Gives(q[k], o) ELSE h[k - 1].mirror[o]
    <3>1. h[k - 1] \in ScreenType
      BY <1>4
    <3>2. /\ After(h[k - 1], q[k]) \in ScreenType
          /\ After(h[k - 1], q[k]).mirror[o] = IF Touches(q[k], o) THEN Gives(q[k], o)
                                               ELSE h[k - 1].mirror[o]
      BY <2>1, <3>1, AfterFacts
    <3> QED
      BY <2>1, <3>2
  <2>3. ASSUME Quiet(k) PROVE h[k].mirror[o] = t
    <3>1. CASE Touches(q[k], o)
      <4>1. LastTouches(q, k, o)
        BY <2>3, <3>1 DEF LastTouches
      <4> QED
        BY <2>1, <2>2, <3>1, <4>1 DEF Follows
    <3>2. CASE ~Touches(q[k], o)
      <4>1. \A i \in DOMAIN q : i > k - 1 => i = k \/ i > k
        BY <1>1
      <4>2. Quiet(k - 1)
        BY <2>3, <3>2, <4>1
      <4> QED
        BY <1>4, <2>2, <3>2, <4>2
    <3> QED
      BY <3>1, <3>2
  <2> QED
    BY <2>2, <2>3
<1> HIDE DEF Good
<1>5. Bad = {}
  <2> SUFFICES ASSUME Bad /= {} PROVE FALSE
    OBVIOUS
  <2>0. Bad \in SUBSET Nat
    BY <1>1
  <2> HIDE DEF Bad
  <2>1. PICK m \in Bad : \A k \in Bad : m <= k
    BY <2>0, Smallest
  <2> USE DEF Bad
  <2>2. m \in 1..Len(q)
    BY <1>1, <1>3, <2>1
  <2>3. m - 1 \in 0..Len(q) /\ m - 1 \notin Bad
    BY <1>1, <2>1, <2>2
  <2> QED
    BY <1>4, <2>1, <2>2, <2>3
<1>6. Good(Len(q)) /\ Quiet(Len(q))
  BY <1>1, <1>5
<1> QED
  BY <1>6 DEF Good

(* State ends with the present value of every subscribed object once it has  *)
(* handled what is on its way, whatever happened to Klipper and the link     *)
(* before (State::reset, State::set_data).                                   *)
THEOREM Converges == Spec => []MirrorConverges
<1>1. IInv => MirrorConverges
  <2> SUFFICES ASSUME IInv, Online, NEW o \in sub
               PROVE  Replay.mirror[o] = truth[o]
    BY DEF MirrorConverges
  <2>1. /\ inbox \in Seq(Messages) /\ screen \in ScreenType /\ o \in Objects
        /\ Follows(inbox, o, truth[o], screen.mirror[o])
    BY DEF IInv, TypeOK, MirrorInv
  <2> DEFINE h == CHOOSE h : Replays(h, Len(inbox), inbox, screen)
  <2>2. Replays(h, Len(inbox), inbox, screen)
    <3>1. Len(inbox) \in Nat
      BY <2>1
    <3>2. \E g : Replays(g, Len(inbox), inbox, screen)
      BY <2>1, <3>1, ReplaysExist
    <3> QED
      BY <3>2
  <2>3. Replay = h[Len(inbox)]
    BY DEF Replay, Replays
  <2> HIDE DEF h
  <2> QED
    BY <2>1, <2>2, <2>3, ReplayFollows
<1> QED
  BY Inductive, <1>1, PTL

(* When nothing is on its way between the screen and a ready Klipper, the    *)
(* notice is gone, and objects, cards and values are those of the            *)
(* configuration in use (init_panel.cpp, main_panel.cpp, state.cpp).         *)
THEOREM SettledComplete == Spec => []SettledIsComplete
<1>1. IInv => SettledIsComplete
  <2> SUFFICES ASSUME IInv, Online, inbox = <<>>, reqs = <<>>
               PROVE  /\ Complete(screen) /\ sub = config
                      /\ \A o \in Objects :
                           /\ screen.mirror[o] = (IF o \in config THEN truth[o] ELSE Absent)
                           /\ screen.cards[o] /= NoCard => screen.cards[o] = truth[o]
    BY DEF SettledIsComplete
  <2>1. Started /\ ~Listing /\ ~Subscribing /\ ~Filling
    BY DEF Started, Pending, Listing, Subscribing, Filling
  <2>2. /\ \A o \in Objects \ config : screen.mirror[o] = Absent
        /\ screen.known = config
        /\ {o \in Objects : screen.cards[o] /= NoCard} = Displayed(config)
        /\ sub = config /\ ~screen.notice /\ \A o \in Objects : screen.cards[o] /= Absent
    BY <2>1 DEF IInv, StageInv
  <2>3. \A o \in config : screen.mirror[o] = truth[o]
    <3>1. \A o \in config : Follows(inbox, o, truth[o], screen.mirror[o])
      BY <2>2 DEF IInv, MirrorInv
    <3>2. DOMAIN inbox = {}
      OBVIOUS
    <3> QED
      BY <3>1, <3>2 DEF Follows
  <2>4. ASSUME NEW o \in Objects, screen.cards[o] /= NoCard
        PROVE  screen.cards[o] = truth[o]
    <3>1. o \in config /\ truth[o] \in Values /\ truth[o] /= Absent
      BY <2>2, <2>4, SessionAssumption DEF Displayed, IInv, TypeOK
    <3>2. screen.cards[o] \in Values
      BY <2>2, <2>4 DEF IInv, TypeOK, ScreenType
    <3> QED
      BY <2>3, <3>1, <3>2 DEF IInv, CardsFollowMirror
  <2> QED
    BY <2>2, <2>3, <2>4 DEF Complete
<1> QED
  BY Inductive, <1>1, PTL
=============================================================================
