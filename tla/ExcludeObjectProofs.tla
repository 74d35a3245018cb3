------------------------- MODULE ExcludeObjectProofs -------------------------
(***************************************************************************)
(* Theorems about ExcludeObject for any labels, prints and restarts: the   *)
(* list the screen shows is the one State has, its marks are the printer's *)
(* or its own, and a sync corrects it.                                     *)
(***************************************************************************)
EXTENDS ExcludeObject, TLAPS, FiniteSetTheorems

(* The course of State: what it will hold after each message on its way.     *)
(* It ends at Klipper's last report, and each of its states is nothing or    *)
(* one Klipper was in, where only early holds objects excluded unlabeled.    *)
Course(h, q) ==
  \A i \in 1..Len(q) :
    h[i] = IF q[i].kind = "ready" THEN NoStatus ELSE Merged(h[i - 1], q[i].status)
Honest(s) == s = NoStatus \/ (s \in Statuses /\ s.excl \ s.objs \subseteq early)
CourseInv ==
  /\ klipper.excl \ klipper.objs \subseteq early
  /\ \E h \in [0..Len(inbox) -> Statuses \cup {NoStatus}] :
       /\ Course(h, inbox)
       /\ h[0] = state /\ (told /= None => h[Len(inbox)] = told)
       /\ \A i \in 0..Len(inbox) : Honest(h[i])

(* What the panel has yet to merge, State has merged already ...             *)
HalfInv == half /= None => Merged(state, half) = state

(* ... and with it merged, the panel follows State.                          *)
Follows(p) ==
  /\ ToSet(p.list) = state.objs
  /\ (state.excl \cap state.objs) \ p.flags \subseteq early
  /\ p.flags \ state.excl \subseteq {q[1] : q \in sent}
FollowInv ==
  ~stale /\ state /= NoStatus => Follows(IF half = None THEN panel ELSE PanelMerge(panel, half))

IInv == TypeOK /\ CourseInv /\ HalfInv /\ FollowInv

-----------------------------------------------------------------------------
(* Sorted lists. *)

(* A set of numbers has a smallest.                                          *)
LEMMA Smallest ==
  ASSUME NEW S \in SUBSET Nat, S /= {}
  PROVE  \E m \in S : \A k \in S : m <= k
<1> DEFINE R == OpToRel(<, Nat)
<1>1. IsWellFoundedOn(R, Nat)
  BY NatLessThanWellFounded
<1>2. R = {p \in Nat \X Nat : p[1] < p[2]}
  BY DEF OpToRel
<1> HIDE DEF R
<1>3. PICK m \in S : \A k \in S : <<k, m>> \notin R
  BY <1>1, WFMin
<1>4. ASSUME NEW k \in S PROVE m <= k
  <2>1. <<k, m>> \in Nat \X Nat /\ <<k, m>>[1] = k /\ <<k, m>>[2] = m
    OBVIOUS
  <2>2. ~(k < m)
    BY <1>2, <1>3, <2>1
  <2> QED
    BY <2>2
<1> QED
  BY <1>4

Sorts(list, names) == list \in [1..Cardinality(names) -> names] /\ IsSortedList(list)

(* The smallest name before the sorted others.                               *)
LEMMA SortedPrepends ==
  ASSUME NEW S \in Lists, NEW a \in S, \A k \in S : a <= k,
         NEW l, Sorts(l, S \ {a})
  PROVE  \E list : Sorts(list, S)
<1> DEFINE n == Cardinality(S)
           list == [i \in 1..n |-> IF i = 1 THEN a ELSE l[i - 1]]
<1>1. n \in Nat /\ n >= 1 /\ Cardinality(S \ {a}) = n - 1 /\ S \subseteq Nat /\ S \subseteq Names
  <2>1. IsFiniteSet(S) /\ S \subseteq Names /\ S \subseteq Nat
    BY ExcludeAssumption DEF Lists
  <2>2. n \in Nat /\ Cardinality(S \ {a}) = n - 1
    BY <2>1, FS_CardinalityType, FS_RemoveElement
  <2>3. n /= 0
    BY <2>1, FS_EmptySet
  <2> QED
    BY <2>1, <2>2, <2>3
<1>2. /\ l \in [1..(n - 1) -> S \ {a}]
      /\ \A i, j \in 1..(n - 1) : i < j => l[i] < l[j]
  BY <1>1 DEF Sorts, IsSortedList
<1> HIDE DEF n
<1>3. ASSUME NEW i \in 1..n, i /= 1
      PROVE  i - 1 \in 1..(n - 1) /\ list[i] = l[i - 1] /\ l[i - 1] \in S \ {a}
  BY <1>1, <1>2, <1>3
<1>4. list \in [1..n -> S]
  <2>1. ASSUME NEW i \in 1..n PROVE (IF i = 1 THEN a ELSE l[i - 1]) \in S
    BY <1>3, <2>1
  <2> QED
    BY <2>1
<1>5. ASSUME NEW i \in 1..n, NEW j \in 1..n, i < j PROVE list[i] < list[j]
  <2>1. j /= 1 /\ list[j] = l[j - 1] /\ l[j - 1] \in S \ {a} /\ j - 1 \in 1..(n - 1)
    BY <1>1, <1>3, <1>5
  <2>2. CASE i = 1
    <3>1. list[i] = a
      BY <2>2
    <3>2. a \in Nat /\ l[j - 1] \in Nat /\ a <= l[j - 1] /\ a /= l[j - 1]
      BY <1>1, <2>1
    <3> HIDE DEF list
    <3> QED
      BY <2>1, <3>1, <3>2
  <2>3. CASE i /= 1
    <3>1. list[i] = l[i - 1] /\ i - 1 \in 1..(n - 1) /\ i - 1 < j - 1
      BY <1>1, <1>3, <1>5, <2>1, <2>3
    <3> QED
      BY <1>2, <2>1, <3>1
  <2> QED
    BY <2>2, <2>3
<1>6. DOMAIN list = 1..n
  OBVIOUS
<1> HIDE DEF list
<1>7. list \in Seq(Names)
  <2>1. list \in [1..n -> Names]
    BY <1>1, <1>4
  <2> QED
    BY <1>1, <2>1
<1>8. IsSortedList(list)
  BY <1>5, <1>6, <1>7 DEF IsSortedList
<1> QED
  BY <1>4, <1>8 DEF Sorts, n

LEMMA SortedExists ==
  \A S \in Lists : \E list : Sorts(list, S)
<1> DEFINE Bad == {n \in Nat : \E S \in Lists : Cardinality(S) = n /\ ~\E list : Sorts(list, S)}
<1>1. ASSUME Bad /= {} PROVE FALSE
  <2>0. Bad \in SUBSET Nat
    OBVIOUS
  <2>1. PICK m \in Bad : \A n \in Bad : m <= n
    <3> HIDE DEF Bad
    <3> QED
      BY <1>1, <2>0, Smallest
  <2>2. PICK S \in Lists : Cardinality(S) = m /\ ~\E list : Sorts(list, S)
    BY <2>1
  <2>3. IsFiniteSet(S) /\ S \subseteq Names /\ S \subseteq Nat /\ m \in Nat
    BY <2>1, ExcludeAssumption DEF Lists
  <2>4. CASE S = {}
    <3>1. Cardinality(S) = 0
      BY <2>4, FS_EmptySet
    <3>2. Sorts(<<>>, S)
      BY <2>4, <3>1 DEF Sorts, IsSortedList
    <3> QED
      BY <2>2, <3>2
  <2>5. CASE S /= {}
    <3>1. PICK a \in S : \A k \in S : a <= k
      BY <2>3, <2>5, Smallest
    <3>2. IsFiniteSet(S \ {a}) /\ Cardinality(S \ {a}) = m - 1
      BY <2>2, <2>3, FS_RemoveElement
    <3>3. m - 1 \in Nat /\ m - 1 \notin Bad
      <4>1. m - 1 \in Nat
        BY <3>2, FS_CardinalityType
      <4> QED
        BY <2>1, <2>3, <4>1
    <3>4. S \ {a} \in Lists
      BY <2>3, <3>2 DEF Lists
    <3>5. PICK l : Sorts(l, S \ {a})
      BY <3>2, <3>3, <3>4
    <3> QED
      BY <2>2, <3>1, <3>5, SortedPrepends
  <2> QED
    BY <2>4, <2>5
<1>2. ASSUME NEW S \in Lists PROVE \E list : Sorts(list, S)
  <2>1. Cardinality(S) \in Nat
    BY FS_CardinalityType DEF Lists
  <2> QED
    BY <1>1, <2>1
<1> QED
  BY <1>2

(* The array of some names is sorted and holds just them.                    *)
LEMMA SortedFacts ==
  ASSUME NEW S \in Lists
  PROVE  IsSortedList(Sorted(S)) /\ ToSet(Sorted(S)) = S
<1> DEFINE list == Sorted(S)
           n == Cardinality(S)
<1>1. list \in [1..n -> S] /\ IsSortedList(list)
  <2>1. \E l \in [1..n -> S] : IsSortedList(l)
    BY SortedExists DEF Sorts
  <2> QED
    BY <2>1 DEF Sorted
<1>2. IsFiniteSet(S) /\ n \in Nat /\ S \subseteq Nat
  BY FS_CardinalityType, ExcludeAssumption DEF Lists
<1> HIDE DEF list, n
<1>3. list \in Injection(1..n, S)
  <2>1. ASSUME NEW i \in 1..n, NEW j \in 1..n, list[i] = list[j] PROVE i = j
    <3>1. list[i] \in Nat
      BY <1>1, <1>2
    <3>2. DOMAIN list = 1..n
      BY <1>1
    <3>3. /\ i < j => list[i] < list[j]
          /\ j < i => list[j] < list[i]
      BY <1>1, <3>2 DEF IsSortedList
    <3>4. ~(i < j) /\ ~(j < i)
      BY <2>1, <3>1, <3>3
    <3> QED
      BY <1>2, <3>4
  <2> QED
    BY <1>1, <2>1 DEF Injection, IsInjective
<1>4. Cardinality(1..n) = n
  BY <1>2, FS_Interval
<1>5. list \in Surjection(1..n, S)
  BY <1>2, <1>3, <1>4, FS_Injection DEF n
<1>6. ToSet(list) = S
  <2>1. DOMAIN list = 1..n /\ \A i \in 1..n : list[i] \in S
    BY <1>1
  <2>2. \A k \in S : \E i \in 1..n : list[i] = k
    BY <1>5 DEF Surjection
  <2> QED
    BY <2>1, <2>2 DEF ToSet
<1> QED
  BY <1>1, <1>6 DEF list

-----------------------------------------------------------------------------
(* Reports and lists merged. *)

LEMMA MergedFacts ==
  ASSUME NEW old \in Fields, NEW new \in Fields
  PROVE  /\ Merged(old, new) \in Fields
         /\ Merged(old, new).objs = IF new.objs = NoField THEN old.objs ELSE new.objs
         /\ Merged(old, new).excl = IF new.excl = NoField THEN old.excl ELSE new.excl
BY DEF Merged, Fields

LEMMA StatusFacts ==
  /\ Statuses \subseteq Fields /\ NoStatus \in Fields
  /\ \A s \in Statuses : s.objs \in Lists /\ s.excl \in Lists
                          /\ s.objs /= NoField /\ s.excl /= NoField /\ s /= NoStatus
  /\ \A s \in Fields : s /= None
  /\ \A s \in Fields : s.objs /= NoField /\ s.excl /= NoField => s \in Statuses
<1>1. Statuses \subseteq Fields /\ NoStatus \in Fields
  BY DEF Statuses, Fields, NoStatus
<1>2. \A l \in Lists : l \in SUBSET Names /\ l /= NoField
  BY ExcludeAssumption DEF Lists
<1>3. ASSUME NEW s \in Statuses
      PROVE  s.objs \in Lists /\ s.excl \in Lists
             /\ s.objs /= NoField /\ s.excl /= NoField /\ s /= NoStatus
  BY <1>2 DEF Statuses, NoStatus
<1>4. ASSUME NEW s \in Fields PROVE s /= None
  <2>1. s = [objs |-> s.objs, excl |-> s.excl]
    BY DEF Fields
  <2>2. s.objs \in Lists \cup {NoField} /\ s.excl \in Lists \cup {NoField}
    BY DEF Fields
  <2>3. Lists \cup {NoField} \subseteq (SUBSET Names) \cup {NoField}
    BY DEF Lists
  <2> QED
    BY <2>1, <2>2, <2>3, ExcludeAssumption
<1>5. \A s \in Fields : s.objs /= NoField /\ s.excl /= NoField => s \in Statuses
  BY DEF Fields, Statuses
<1> QED
  BY <1>1, <1>3, <1>4, <1>5

(* A list of the screen: its rows in order, each once, and marks on rows.    *)
IsPanel(p) ==
  /\ p \in [list: Seq(Names), flags: SUBSET Names]
  /\ IsSortedList(p.list)
  /\ p.flags \subseteq ToSet(p.list)

LEMMA ToSetFacts ==
  ASSUME NEW S, NEW q \in Seq(S)
  PROVE  ToSet(q) \subseteq S /\ \A i \in DOMAIN q : q[i] \in ToSet(q)
<1>1. \A i \in DOMAIN q : q[i] \in S
  OBVIOUS
<1> QED
  BY <1>1 DEF ToSet

LEMMA PanelMergeFacts ==
  ASSUME NEW p, IsPanel(p), NEW status \in Fields
  PROVE  /\ IsPanel(PanelMerge(p, status))
         /\ ToSet(PanelMerge(p, status).list) =
               IF status.objs = NoField THEN ToSet(p.list) ELSE status.objs
         /\ PanelMerge(p, status).flags =
               (IF status.excl = NoField THEN p.flags ELSE status.excl)
                 \cap ToSet(PanelMerge(p, status).list)
<1> DEFINE list == IF status.objs = NoField THEN p.list ELSE Sorted(status.objs)
           marked == IF status.excl = NoField THEN p.flags ELSE status.excl
<1>1. IsSortedList(list) /\ ToSet(list) = IF status.objs = NoField THEN ToSet(p.list) ELSE status.objs
  BY SortedFacts DEF IsPanel, Fields
<1>2. PanelMerge(p, status) = [list |-> list, flags |-> marked \cap ToSet(list)]
  BY DEF PanelMerge
<1> HIDE DEF list
<1>3. list \in Seq(Names) /\ ToSet(list) \subseteq Names
  BY <1>1, ToSetFacts DEF IsSortedList
<1>4. PanelMerge(p, status).list = list /\ PanelMerge(p, status).flags = marked \cap ToSet(list)
  BY <1>2
<1>5. marked \cap ToSet(list) \subseteq Names
  BY <1>3
<1> HIDE DEF marked
<1>6. IsPanel(PanelMerge(p, status))
  BY <1>1, <1>2, <1>3, <1>4, <1>5 DEF IsPanel
<1> QED
  BY <1>1, <1>4, <1>6 DEF marked

-----------------------------------------------------------------------------
(* Types. *)

KlipperTyped ==
  /\ klipper \in Statuses
  /\ commands \in Seq(Names)
  /\ told \in Statuses \cup {None}
  /\ early \subseteq Names
  /\ prints \in 0..MaxPrints

QueueTyped ==
  /\ inbox \in Seq(Messages)
  /\ state \in Fields
  /\ half \in Fields \cup {None}

ScreenTyped ==
  /\ IsPanel(panel)
  /\ dialog \in [title: Names, index: Nat \ {0}] \cup {None}
  /\ sent \subseteq Names \X Names
  /\ stale \in BOOLEAN

LEMMA TypeParts == TypeOK <=> KlipperTyped /\ QueueTyped /\ ScreenTyped
BY DEF TypeOK, KlipperTyped, QueueTyped, ScreenTyped, IsPanel

LEMMA InitType == Init => TypeOK
<1> SUFFICES ASSUME Init PROVE TypeOK
  OBVIOUS
<1>1. klipper \in Statuses /\ {} \in Lists
  BY FS_EmptySet DEF Init, Statuses, Lists
<1>2. KlipperTyped
  BY <1>1, ExcludeAssumption DEF Init, KlipperTyped
<1>3. QueueTyped
  BY <1>1, StatusFacts DEF Init, QueueTyped
<1>4. IsPanel(panel)
  BY DEF Init, IsPanel, IsSortedList
<1>5. ScreenTyped
  BY <1>4 DEF Init, ScreenTyped
<1> QED
  BY <1>2, <1>3, <1>5, TypeParts

Printer ==
  (\E n \in Names : Define(n)) \/ NewPrint \/ RunCommand \/ Report \/ Restart \/ Snapshot
Touch ==
  Sync \/ Foreground \/ Cancel \/ Confirm \/ \E i \in DOMAIN panel.list : Ask(i)

LEMMA Cases == Next <=> Printer \/ LoopThread \/ Touch
BY DEF Next, Printer, Touch

LEMMA AddName ==
  ASSUME NEW l \in Lists, NEW n \in Names
  PROVE  l \cup {n} \in Lists
BY FS_AddElement DEF Lists

LEMMA KlipperStep ==
  ASSUME TypeOK, Next
  PROVE  KlipperTyped'
<1>1. KlipperTyped /\ QueueTyped /\ ScreenTyped
  BY TypeParts
<1> USE <1>1 DEF KlipperTyped
<1>2. [objs |-> {}, excl |-> {}] \in Statuses
  BY FS_EmptySet DEF Statuses, Lists
<1>3. ASSUME NEW n \in Names, Define(n) PROVE KlipperTyped'
  <2>1. klipper' \in Statuses
    BY <1>3, AddName DEF Define, Statuses
  <2> QED
    BY <1>3, <2>1 DEF Define
<1>4. CASE NewPrint
  BY <1>2, <1>4, ExcludeAssumption DEF NewPrint
<1>5. CASE RunCommand
  <2>1. Head(commands) \in Names /\ commands' \in Seq(Names)
    BY <1>5 DEF RunCommand
  <2>2. klipper' \in Statuses
    BY <1>5, <2>1, AddName DEF RunCommand, Statuses
  <2>3. early' \subseteq Names
    BY <1>5, <2>1 DEF RunCommand
  <2> QED
    BY <1>5, <2>1, <2>2, <2>3 DEF RunCommand
<1>6. CASE Report
  BY <1>6 DEF Report
<1>7. CASE Restart
  BY <1>2, <1>7, ExcludeAssumption DEF Restart
<1>8. CASE Snapshot
  BY <1>8 DEF Snapshot
<1>9. CASE LoopThread
  BY <1>9 DEF LoopThread, HandleReady, HandleSnapshot, StateConsume, PanelConsume, klipperVars
<1>10. CASE Sync \/ Foreground \/ Cancel \/ \E i \in DOMAIN panel.list : Ask(i)
  BY <1>10 DEF Sync, Foreground, Cancel, Ask, klipperVars
<1>11. CASE Confirm
  <2>1. commands' \in Seq(Names)
    <3>1. CASE dialog.index \in DOMAIN panel.list
      <4>1. panel.list[dialog.index] \in Names
        BY <3>1 DEF ScreenTyped, IsPanel, IsSortedList
      <4> QED
        BY <1>11, <3>1, <4>1 DEF Confirm
    <3>2. CASE dialog.index \notin DOMAIN panel.list
      BY <1>11, <3>2 DEF Confirm
    <3> QED
      BY <3>1, <3>2
  <2> QED
    BY <1>11, <2>1 DEF Confirm
<1> QED
  BY <1>3, <1>4, <1>5, <1>6, <1>7, <1>8, <1>9, <1>10, <1>11, Cases DEF Printer, Touch

(* The fields that differ from the last report.                              *)
Difference ==
  [objs |-> IF klipper.objs = told.objs THEN NoField ELSE klipper.objs,
   excl |-> IF klipper.excl = told.excl THEN NoField ELSE klipper.excl]

LEMMA MessageFacts ==
  /\ [kind |-> "ready"] \in Messages
  /\ \A s \in Fields, k \in {"snapshot", "update"} :
       LET m == [kind |-> k, status |-> s] IN m \in Messages /\ m.kind = k /\ m.status = s
  /\ \A m \in Messages : m.kind = "ready" \/ m.status \in Fields
BY DEF Messages

LEMMA QueueStep ==
  ASSUME TypeOK, Next
  PROVE  QueueTyped'
<1>1. KlipperTyped /\ QueueTyped /\ ScreenTyped
  BY TypeParts
<1> USE <1>1 DEF QueueTyped
<1>2. ASSUME NEW k, Take(k), k \in {"snapshot", "update"}
      PROVE  /\ inbox' \in Seq(Messages) /\ Head(inbox).status \in Fields
             /\ Merged(state, Head(inbox).status) \in Fields
  <2>1. Head(inbox) \in Messages /\ inbox' \in Seq(Messages) /\ Head(inbox).kind = k
    BY <1>2 DEF Take
  <2> QED
    BY <1>2, <2>1, MessageFacts, MergedFacts
<1>3. CASE Report
  <2>1. told \in Statuses /\ Difference \in Fields
    BY <1>3 DEF Report, KlipperTyped, Difference, Statuses, Fields
  <2>2. inbox' = Append(inbox, [kind |-> "update", status |-> Difference])
    BY <1>3 DEF Report, Difference
  <2>3. inbox' \in Seq(Messages)
    <3>1. [kind |-> "update", status |-> Difference] \in Messages
      BY <2>1 DEF Messages
    <3> QED
      BY <2>2, <3>1
  <2> QED
    BY <1>3, <2>3 DEF Report
<1>4. CASE Restart
  BY <1>4, MessageFacts DEF Restart
<1>5. CASE Snapshot
  <2>1. [kind |-> "snapshot", status |-> klipper] \in Messages
    BY MessageFacts, StatusFacts DEF KlipperTyped
  <2> QED
    BY <1>5, <2>1 DEF Snapshot
<1>6. CASE HandleReady
  BY <1>6, StatusFacts DEF HandleReady, Take
<1>7. CASE HandleSnapshot
  BY <1>2, <1>7 DEF HandleSnapshot
<1>8. CASE StateConsume
  BY <1>2, <1>8 DEF StateConsume
<1>9. CASE PanelConsume
  BY <1>9 DEF PanelConsume
<1>10. CASE Touch
  BY <1>10 DEF Touch, Sync, Foreground, Cancel, Confirm, Ask
<1>11. CASE (\E n \in Names : Define(n)) \/ NewPrint \/ RunCommand
  BY <1>11 DEF Define, NewPrint, RunCommand
<1> QED
  BY <1>3, <1>4, <1>5, <1>6, <1>7, <1>8, <1>9, <1>10, <1>11, Cases DEF Printer, LoopThread

LEMMA SyncedFacts ==
  ASSUME TypeOK
  PROVE  IsPanel(Synced)
BY TypeParts, PanelMergeFacts DEF Synced, QueueTyped, ScreenTyped

(* A confirmation may find the row it was opened for, or another, or none.   *)
LEMMA ConfirmFacts ==
  ASSUME TypeOK, Confirm
  PROVE  /\ IsPanel(panel') /\ panel'.list = panel.list
         /\ \/ panel' = panel /\ UNCHANGED <<commands, sent>>
            \/ \E n \in Names :
                 /\ panel'.flags = panel.flags \cup {n}
                 /\ sent' = sent \cup {<<n, dialog.title>>}
<1>1. IsPanel(panel)
  BY TypeParts DEF ScreenTyped
<1>2. CASE dialog.index \in DOMAIN panel.list
  <2> DEFINE n == panel.list[dialog.index]
  <2>1. n \in Names /\ n \in ToSet(panel.list)
    BY <1>1, <1>2, ToSetFacts DEF IsPanel
  <2>2. panel' = [panel EXCEPT !.flags = @ \cup {n}] /\ sent' = sent \cup {<<n, dialog.title>>}
    BY <1>2 DEF Confirm
  <2> HIDE DEF n
  <2>3. panel'.list = panel.list /\ panel'.flags = panel.flags \cup {n}
        /\ panel' \in [list: Seq(Names), flags: SUBSET Names]
    BY <1>1, <2>1, <2>2 DEF IsPanel
  <2>4. IsPanel(panel')
    BY <1>1, <2>1, <2>3 DEF IsPanel
  <2> QED
    BY <2>1, <2>2, <2>3, <2>4
<1>3. CASE dialog.index \notin DOMAIN panel.list
  BY <1>1, <1>3 DEF Confirm
<1> QED
  BY <1>2, <1>3

LEMMA ScreenStep ==
  ASSUME TypeOK, Next
  PROVE  ScreenTyped'
<1>1. KlipperTyped /\ QueueTyped /\ ScreenTyped
  BY TypeParts
<1> USE <1>1 DEF ScreenTyped
<1>2. CASE Printer
  BY <1>2 DEF Printer, Define, NewPrint, RunCommand, Report, Restart, Snapshot, screenVars
<1>3. CASE HandleReady \/ HandleSnapshot
  BY <1>3 DEF HandleReady, HandleSnapshot
<1>4. CASE StateConsume
  BY <1>4 DEF StateConsume, screenVars
<1>5. CASE PanelConsume
  <2>1. IsPanel(panel')
    BY <1>5, PanelMergeFacts DEF PanelConsume, QueueTyped
  <2> QED
    BY <1>5, <2>1 DEF PanelConsume
<1>6. CASE Sync \/ Foreground
  <2>1. IsPanel(panel') /\ stale' \in BOOLEAN /\ sent' = sent
    BY <1>6, SyncedFacts DEF Sync, Foreground
  <2> QED
    BY <1>6, <2>1 DEF Sync, Foreground
<1>7. ASSUME NEW i \in DOMAIN panel.list, Ask(i) PROVE ScreenTyped'
  <2>1. panel.list[i] \in Names /\ i \in Nat \ {0}
    BY <1>7 DEF IsPanel
  <2>2. dialog' \in [title: Names, index: Nat \ {0}]
    BY <1>7, <2>1 DEF Ask
  <2> QED
    BY <1>7, <2>2 DEF Ask
<1>8. CASE Cancel
  BY <1>8 DEF Cancel
<1>9. CASE Confirm
  <2>1. IsPanel(panel') /\ dialog' = None /\ stale' = stale
    BY <1>9, ConfirmFacts DEF Confirm
  <2>2. dialog.title \in Names
    BY <1>9 DEF Confirm
  <2>3. sent' \subseteq Names \X Names
    BY <1>9, <2>2, ConfirmFacts
  <2> QED
    BY <2>1, <2>3
<1> QED
  BY <1>2, <1>3, <1>4, <1>5, <1>6, <1>7, <1>8, <1>9, Cases DEF LoopThread, Touch

LEMMA TypeStep == TypeOK /\ [Next]_vars => TypeOK'
<1>1. TypeOK /\ Next => TypeOK'
  <2> SUFFICES ASSUME TypeOK, Next PROVE KlipperTyped' /\ QueueTyped' /\ ScreenTyped'
    BY TypeParts DEF TypeOK, KlipperTyped, QueueTyped, ScreenTyped, IsPanel
  <2> QED
    BY KlipperStep, QueueStep, ScreenStep
<1>2. TypeOK /\ UNCHANGED vars => TypeOK'
  BY DEF TypeOK, vars
<1> QED
  BY <1>1, <1>2

-----------------------------------------------------------------------------
(* The course of State. *)

(* A message that joins the queue adds a state at its end ...                *)
LEMMA CourseJoins ==
  ASSUME NEW S, NEW q \in Seq(Messages), NEW m \in Messages, NEW h \in [0..Len(q) -> S],
         Course(h, q), NEW s \in S,
         s = IF m.kind = "ready" THEN NoStatus ELSE Merged(h[Len(q)], m.status)
  PROVE  \E g \in [0..Len(Append(q, m)) -> S] :
            /\ Course(g, Append(q, m))
            /\ g[Len(Append(q, m))] = s
            /\ \A i \in 0..Len(q) : g[i] = h[i]
<1> DEFINE n == Len(q)
           g == [i \in 0..(n + 1) |-> IF i = n + 1 THEN s ELSE h[i]]
<1>1. n \in Nat /\ Len(Append(q, m)) = n + 1
  OBVIOUS
<1>2. g[n + 1] = s /\ \A i \in 0..n : g[i] = h[i] /\ h[i] \in S
  BY <1>1
<1>3. g \in [0..(n + 1) -> S]
  <2>1. \A i \in 0..(n + 1) : i = n + 1 \/ i \in 0..n
    BY <1>1
  <2>2. \A i \in 0..(n + 1) : (IF i = n + 1 THEN s ELSE h[i]) \in S
    BY <1>2, <2>1
  <2> QED
    BY <2>2
<1> HIDE DEF g
<1>4. ASSUME NEW i \in 1..(n + 1)
      PROVE  g[i] = IF Append(q, m)[i].kind = "ready" THEN NoStatus
                    ELSE Merged(g[i - 1], Append(q, m)[i].status)
  <2>1. CASE i = n + 1
    <3>1. Append(q, m)[i] = m /\ g[i - 1] = h[n]
      BY <1>1, <1>2, <2>1
    <3> QED
      BY <1>2, <2>1, <3>1
  <2>2. CASE i \in 1..n
    <3>1. Append(q, m)[i] = q[i] /\ g[i] = h[i] /\ g[i - 1] = h[i - 1]
      BY <1>1, <1>2, <2>2
    <3> QED
      BY <2>2, <3>1 DEF Course
  <2> QED
    BY <1>1, <2>1, <2>2
<1>5. Course(g, Append(q, m))
  BY <1>1, <1>4 DEF Course
<1> QED
  BY <1>1, <1>2, <1>3, <1>5

(* ... and one that is handled takes the first away.                         *)
LEMMA CourseLeaves ==
  ASSUME NEW S, NEW q \in Seq(Messages), q /= <<>>, NEW h \in [0..Len(q) -> S], Course(h, q)
  PROVE  \E g \in [0..Len(Tail(q)) -> S] :
            /\ Course(g, Tail(q))
            /\ g[0] = IF Head(q).kind = "ready" THEN NoStatus ELSE Merged(h[0], Head(q).status)
            /\ g[Len(Tail(q))] = h[Len(q)]
            /\ \A i \in 0..Len(Tail(q)) : \E j \in 0..Len(q) : g[i] = h[j]
<1> DEFINE n == Len(Tail(q))
           g == [i \in 0..n |-> h[i + 1]]
<1>1. n \in Nat /\ Len(q) = n + 1 /\ q[1] = Head(q)
  OBVIOUS
<1>2. \A i \in 0..n : i + 1 \in 0..(n + 1) /\ g[i] = h[i + 1] /\ h[i + 1] \in S
  BY <1>1
<1>3. g \in [0..n -> S]
  BY <1>2
<1> HIDE DEF g
<1>4. ASSUME NEW i \in 1..n
      PROVE  g[i] = IF Tail(q)[i].kind = "ready" THEN NoStatus
                    ELSE Merged(g[i - 1], Tail(q)[i].status)
  <2>1. Tail(q)[i] = q[i + 1] /\ g[i] = h[i + 1] /\ g[i - 1] = h[i] /\ i + 1 \in 1..Len(q)
    <3>1. i \in 0..n /\ i - 1 \in 0..n /\ (i - 1) + 1 = i /\ i + 1 \in 1..Len(q)
      BY <1>1
    <3>2. g[i - 1] = h[(i - 1) + 1]
      BY <1>2, <3>1
    <3> QED
      BY <1>2, <3>1, <3>2
  <2>2. (i + 1) - 1 = i
    BY <1>1
  <2> QED
    BY <2>1, <2>2 DEF Course
<1>5. Course(g, Tail(q))
  BY <1>4 DEF Course
<1>6. h[1] = IF Head(q).kind = "ready" THEN NoStatus ELSE Merged(h[0], Head(q).status)
  BY <1>1 DEF Course
<1>7. 0 \in 0..n /\ n \in 0..n /\ g[0] = h[1] /\ g[n] = h[n + 1]
  BY <1>1, <1>2
<1> QED
  BY <1>1, <1>2, <1>3, <1>5, <1>6, <1>7

(* The states Klipper was in stay honest while early grows.                  *)
LEMMA HonestStays ==
  ASSUME early \subseteq early', NEW s, Honest(s)
  PROVE  Honest(s)'
BY DEF Honest

(* A step that leaves queue, State and report alone.                         *)
LEMMA CourseStutters ==
  ASSUME CourseInv, UNCHANGED <<told, inbox, state>>, early \subseteq early',
         klipper'.excl \ klipper'.objs \subseteq early'
  PROVE  CourseInv'
<1>1. PICK h \in [0..Len(inbox) -> Statuses \cup {NoStatus}] :
        /\ Course(h, inbox)
        /\ h[0] = state /\ (told /= None => h[Len(inbox)] = told)
        /\ \A i \in 0..Len(inbox) : Honest(h[i])
  BY DEF CourseInv
<1>2. \A i \in 0..Len(inbox) : h[i] = NoStatus
          \/ (h[i] \in Statuses /\ h[i].excl \ h[i].objs \subseteq early')
  BY <1>1 DEF Honest
<1> QED
  BY <1>1, <1>2 DEF CourseInv, Honest

(* A message Klipper sends.                                                  *)
LEMMA CourseReports ==
  ASSUME TypeOK, CourseInv, NEW m \in Messages, inbox' = Append(inbox, m),
         UNCHANGED <<state, early>>, NEW s \in Statuses \cup {NoStatus}, Honest(s),
         \A h \in [0..Len(inbox) -> Statuses \cup {NoStatus}] :
           h[0] = state /\ (told /= None => h[Len(inbox)] = told) =>
             s = IF m.kind = "ready" THEN NoStatus ELSE Merged(h[Len(inbox)], m.status),
         told' /= None => told' = s,
         klipper'.excl \ klipper'.objs \subseteq early
  PROVE  CourseInv'
<1>1. PICK h \in [0..Len(inbox) -> Statuses \cup {NoStatus}] :
        /\ Course(h, inbox)
        /\ h[0] = state /\ (told /= None => h[Len(inbox)] = told)
        /\ \A i \in 0..Len(inbox) : Honest(h[i])
  BY DEF CourseInv
<1>2. inbox \in Seq(Messages)
  BY DEF TypeOK
<1>3. PICK g \in [0..Len(inbox') -> Statuses \cup {NoStatus}] :
        /\ Course(g, inbox') /\ g[Len(inbox')] = s
        /\ \A i \in 0..Len(inbox) : g[i] = h[i]
  <2>1. Course(h, inbox) /\ s = IF m.kind = "ready" THEN NoStatus
                                ELSE Merged(h[Len(inbox)], m.status)
    BY <1>1
  <2>2. \E g \in [0..Len(Append(inbox, m)) -> Statuses \cup {NoStatus}] :
          /\ Course(g, Append(inbox, m))
          /\ g[Len(Append(inbox, m))] = s
          /\ \A i \in 0..Len(inbox) : g[i] = h[i]
    BY <1>2, <2>1, CourseJoins, SMTT(30)
  <2> QED
    BY <2>2
<1>4. Len(inbox) \in Nat /\ Len(inbox') = Len(inbox) + 1
  BY <1>2
<1>5. ASSUME NEW i \in 0..Len(inbox') PROVE Honest(g[i])
  <2>1. i \in 0..Len(inbox) \/ i = Len(inbox')
    BY <1>4
  <2> QED
    BY <1>1, <1>3, <2>1
<1>6. g[0] = state
  BY <1>1, <1>3, <1>4
<1>7. \A i \in 0..Len(inbox') : g[i] = NoStatus
          \/ (g[i] \in Statuses /\ g[i].excl \ g[i].objs \subseteq early')
  BY <1>5 DEF Honest
<1> QED
  BY <1>3, <1>6, <1>7 DEF CourseInv, Honest

(* A message the loop thread handles.                                        *)
LEMMA CourseHandled ==
  ASSUME TypeOK, CourseInv, inbox /= <<>>, inbox' = Tail(inbox),
         UNCHANGED klipperVars,
         state' = IF Head(inbox).kind = "ready" THEN NoStatus
                  ELSE Merged(state, Head(inbox).status)
  PROVE  CourseInv' /\ (state' = NoStatus \/ state' \in Statuses)
<1>1. PICK h \in [0..Len(inbox) -> Statuses \cup {NoStatus}] :
        /\ Course(h, inbox)
        /\ h[0] = state /\ (told /= None => h[Len(inbox)] = told)
        /\ \A i \in 0..Len(inbox) : Honest(h[i])
  BY DEF CourseInv
<1>2. inbox \in Seq(Messages)
  BY DEF TypeOK
<1>3. PICK g \in [0..Len(inbox') -> Statuses \cup {NoStatus}] :
        /\ Course(g, inbox') /\ g[0] = state' /\ g[Len(inbox')] = h[Len(inbox)]
        /\ \A i \in 0..Len(inbox') : \E j \in 0..Len(inbox) : g[i] = h[j]
  <2> DEFINE S == Statuses \cup {NoStatus}
  <2>1. h \in [0..Len(inbox) -> S] /\ Course(h, inbox) /\ inbox /= <<>>
    BY <1>1
  <2> HIDE DEF S
  <2>2. PICK g \in [0..Len(Tail(inbox)) -> S] :
          /\ Course(g, Tail(inbox))
          /\ g[0] = IF Head(inbox).kind = "ready" THEN NoStatus
                    ELSE Merged(h[0], Head(inbox).status)
          /\ g[Len(Tail(inbox))] = h[Len(inbox)]
          /\ \A i \in 0..Len(Tail(inbox)) : \E j \in 0..Len(inbox) : g[i] = h[j]
    BY ONLY <1>2, <2>1, CourseLeaves
  <2> QED
    BY <1>1, <2>2 DEF S
<1>4. \A i \in 0..Len(inbox') : g[i] = NoStatus
          \/ (g[i] \in Statuses /\ g[i].excl \ g[i].objs \subseteq early')
  BY <1>1, <1>3 DEF Honest, klipperVars
<1>5. CourseInv'
  <2>1. UNCHANGED <<klipper, told, early>>
    BY DEF klipperVars
  <2> QED
    BY <1>1, <1>3, <1>4, <2>1 DEF CourseInv, Honest
<1>6. 0 \in 0..Len(inbox')
  BY <1>2
<1> QED
  BY <1>3, <1>5, <1>6

LEMMA InitCourse == Init => CourseInv /\ HalfInv /\ FollowInv
<1> SUFFICES ASSUME Init PROVE CourseInv /\ HalfInv /\ FollowInv
  OBVIOUS
<1>1. klipper \in Statuses /\ inbox = <<>> /\ state = klipper /\ told = klipper
      /\ klipper.excl \ klipper.objs \subseteq early
  BY FS_EmptySet DEF Init, Statuses, Lists
<1>2. CourseInv
  <2> DEFINE h == [i \in 0..0 |-> state]
  <2>1. h \in [0..Len(inbox) -> Statuses \cup {NoStatus}] /\ h[0] = state /\ Len(inbox) = 0
    BY <1>1
  <2>2. Course(h, inbox) /\ \A i \in 0..Len(inbox) : Honest(h[i])
    BY <1>1 DEF Course, Honest
  <2> QED
    BY <1>1, <2>1, <2>2 DEF CourseInv
<1>3. HalfInv
  BY DEF Init, HalfInv
<1>4. FollowInv
  BY <1>1, ToSetFacts DEF Init, FollowInv, Follows, ToSet
<1> QED
  BY <1>2, <1>3, <1>4

LEMMA CourseStep ==
  ASSUME TypeOK, CourseInv, Next
  PROVE  CourseInv'
<1>1. KlipperTyped /\ QueueTyped /\ ScreenTyped
  BY TypeParts
<1>2. klipper \in Statuses /\ klipper.excl \ klipper.objs \subseteq early
  BY <1>1 DEF KlipperTyped, CourseInv
<1>3. ASSUME NEW n \in Names, Define(n) PROVE CourseInv'
  <2>1. klipper'.objs = klipper.objs \cup {n} /\ klipper'.excl = klipper.excl
    BY <1>2, <1>3 DEF Define, Statuses
  <2> QED
    BY <1>2, <1>3, <2>1, CourseStutters DEF Define
<1>4. CASE NewPrint
  BY <1>4, CourseStutters DEF NewPrint
<1>5. CASE RunCommand
  <2> DEFINE n == Head(commands)
  <2>1. klipper'.objs = klipper.objs /\ klipper'.excl = klipper.excl \cup {n}
        /\ early' = early \cup ({n} \ klipper.objs)
    BY <1>2, <1>5 DEF RunCommand, Statuses
  <2> QED
    BY <1>2, <1>5, <2>1, CourseStutters DEF RunCommand
<1>6. CASE Report
  <2> DEFINE m == [kind |-> "update", status |-> Difference]
  <2>1. told \in Statuses /\ Difference \in Fields
    BY <1>1, <1>6 DEF Report, KlipperTyped, Difference, Statuses, Fields
  <2>2. inbox' = Append(inbox, m) /\ told' = klipper
        /\ UNCHANGED <<klipper, state, early>> /\ told /= None
    BY <1>6 DEF Report, Difference
  <2>3. m \in Messages /\ m.kind = "update" /\ m.status = Difference
    BY <2>1 DEF Messages
  <2>4. Merged(told, Difference) = klipper
    <3>1. Merged(told, Difference).objs = klipper.objs
          /\ Merged(told, Difference).excl = klipper.excl
      BY <1>2, <2>1, StatusFacts DEF Merged, Difference
    <3>2. Merged(told, Difference) = [objs |-> klipper.objs, excl |-> klipper.excl]
      BY <3>1 DEF Merged
    <3> QED
      BY <1>2, <3>2 DEF Statuses
  <2>5. Honest(klipper)
    BY <1>2 DEF Honest
  <2> HIDE DEF m
  <2> QED
    BY <1>2, <2>2, <2>3, <2>4, <2>5, CourseReports
<1>7. CASE Restart
  <2> DEFINE m == [kind |-> "ready"]
  <2>1. m \in Messages /\ m.kind = "ready"
    BY MessageFacts
  <2>2. inbox' = Append(inbox, m) /\ told' = None /\ UNCHANGED <<state, early>>
        /\ klipper'.excl \ klipper'.objs \subseteq early
    BY <1>7 DEF Restart
  <2>3. Honest(NoStatus)
    BY DEF Honest
  <2> HIDE DEF m
  <2> QED
    BY <2>1, <2>2, <2>3, CourseReports
<1>8. CASE Snapshot
  <2> DEFINE m == [kind |-> "snapshot", status |-> klipper]
  <2>1. m \in Messages /\ m.kind = "snapshot" /\ m.status = klipper
    BY <1>2, StatusFacts DEF Messages
  <2>2. inbox' = Append(inbox, m) /\ told' = klipper /\ state = NoStatus /\ Len(inbox) = 0
        /\ UNCHANGED <<klipper, state, early>>
    BY <1>8 DEF Snapshot
  <2>3. Merged(NoStatus, klipper) = klipper
    <3>1. Merged(NoStatus, klipper) = [objs |-> klipper.objs, excl |-> klipper.excl]
      BY <1>2, StatusFacts DEF Merged
    <3> QED
      BY <1>2, <3>1 DEF Statuses
  <2>4. Honest(klipper)
    BY <1>2 DEF Honest
  <2> HIDE DEF m
  <2> QED
    BY <1>2, <2>1, <2>2, <2>3, <2>4, CourseReports
<1>9. CASE HandleReady \/ HandleSnapshot \/ StateConsume
  BY <1>9, CourseHandled DEF HandleReady, HandleSnapshot, StateConsume, Take
<1>10. CASE PanelConsume
  BY <1>2, <1>10, CourseStutters DEF PanelConsume, klipperVars
<1>11. CASE Touch
  <2>1. UNCHANGED <<klipper, told, inbox, state, early>>
    BY <1>11 DEF Touch, Sync, Foreground, Cancel, Confirm, Ask, klipperVars
  <2> QED
    BY <1>2, <2>1, CourseStutters
<1> QED
  BY <1>3, <1>4, <1>5, <1>6, <1>7, <1>8, <1>9, <1>10, <1>11, Cases DEF Printer, LoopThread

-----------------------------------------------------------------------------
(* The panel follows State. *)

LEMMA StateIsStatus ==
  ASSUME CourseInv
  PROVE  Honest(state) /\ (told /= None /\ inbox = <<>> => state = told)
<1>1. PICK h \in [0..Len(inbox) -> Statuses \cup {NoStatus}] :
        /\ h[0] = state /\ (told /= None => h[Len(inbox)] = told)
        /\ \A i \in 0..Len(inbox) : Honest(h[i])
  BY DEF CourseInv
<1>2. inbox = <<>> => Len(inbox) = 0
  OBVIOUS
<1> QED
  BY <1>1, <1>2

LEMMA HalfStep ==
  ASSUME TypeOK, CourseInv, HalfInv, Next
  PROVE  HalfInv'
<1>1. KlipperTyped /\ QueueTyped /\ ScreenTyped
  BY TypeParts
<1>2. CASE UNCHANGED <<half, state>>
  BY <1>2 DEF HalfInv
<1>3. CASE HandleReady \/ HandleSnapshot
  BY <1>3 DEF HandleReady, HandleSnapshot, Take, HalfInv
<1>4. CASE PanelConsume
  BY <1>4 DEF PanelConsume, HalfInv
<1>5. CASE StateConsume
  <2> DEFINE st == Head(inbox).status
  <2>1. Head(inbox) \in Messages /\ Head(inbox).kind = "update" /\ inbox /= <<>>
    BY <1>1, <1>5 DEF StateConsume, Take, QueueTyped
  <2>2. st \in Fields /\ state \in Fields /\ state' = Merged(state, st) /\ half' = st
    BY <1>1, <1>5, <2>1, MessageFacts DEF StateConsume, QueueTyped
  <2> HIDE DEF st
  <2>3. Merged(Merged(state, st), st) = Merged(state, st)
    BY DEF Merged
  <2> QED
    BY <2>2, <2>3 DEF HalfInv
<1> QED
  BY <1>2, <1>3, <1>4, <1>5, Cases
  DEF Printer, LoopThread, Touch, Define, NewPrint, RunCommand, Report, Restart, Snapshot,
      Sync, Foreground, Cancel, Confirm, Ask

(* A panel that merges all of State follows it, and so it does after a       *)
(* report that State has merged already.                                     *)
LEMMA SyncedFollows ==
  ASSUME TypeOK, CourseInv, HalfInv, state /= NoStatus
  PROVE  /\ Follows(Synced)
         /\ half /= None => Follows(PanelMerge(Synced, half))
         /\ ToSet(Synced.list) = state.objs
         /\ Synced.flags = state.excl \cap state.objs
<1>1. state \in Statuses /\ state \in Fields /\ IsPanel(panel) /\ half \in Fields \cup {None}
      /\ state.objs /= NoField /\ state.excl /= NoField
  BY StateIsStatus, StatusFacts, TypeParts DEF Honest, QueueTyped, ScreenTyped
<1>2. /\ IsPanel(Synced) /\ ToSet(Synced.list) = state.objs
      /\ Synced.flags = state.excl \cap state.objs
  BY <1>1, PanelMergeFacts DEF Synced
<1>3. Follows(Synced)
  BY <1>2 DEF Follows
<1>4. ASSUME half /= None PROVE Follows(PanelMerge(Synced, half))
  <2> DEFINE p == PanelMerge(Synced, half)
  <2>1. half \in Fields /\ Merged(state, half) = state
    BY <1>1, <1>4 DEF HalfInv
  <2>2. (half.objs = NoField \/ half.objs = state.objs)
        /\ (half.excl = NoField \/ half.excl = state.excl)
    BY <1>1, <2>1, MergedFacts
  <2>3. /\ ToSet(p.list) = IF half.objs = NoField THEN ToSet(Synced.list) ELSE half.objs
        /\ p.flags = (IF half.excl = NoField THEN Synced.flags ELSE half.excl) \cap ToSet(p.list)
    BY <1>2, <2>1, PanelMergeFacts
  <2> HIDE DEF p
  <2>4. ToSet(p.list) = state.objs /\ p.flags = state.excl \cap state.objs
    BY <1>2, <2>2, <2>3
  <2> QED
    BY <2>4 DEF Follows, p
<1> QED
  BY <1>2, <1>3, <1>4

(* The panel takes a report over as State did.                               *)
LEMMA ReportFollows ==
  ASSUME TypeOK, CourseInv, HalfInv, FollowInv, StateConsume
  PROVE  FollowInv'
<1> DEFINE st == Head(inbox).status
           p == PanelMerge(panel, st)
<1>1. KlipperTyped /\ QueueTyped /\ ScreenTyped
  BY TypeParts
<1>2. Head(inbox) \in Messages /\ Head(inbox).kind = "update" /\ inbox /= <<>> /\ half = None
  BY <1>1 DEF StateConsume, Take, QueueTyped
<1>3. /\ st \in Fields /\ state \in Fields /\ state' = Merged(state, st) /\ half' = st
      /\ UNCHANGED <<panel, sent, stale, early>> /\ IsPanel(panel)
  BY <1>1, <1>2, MessageFacts
  DEF StateConsume, QueueTyped, ScreenTyped, screenVars, klipperVars
<1>4. half' /= None
  BY <1>3, StatusFacts
<1>5. /\ ToSet(p.list) = IF st.objs = NoField THEN ToSet(panel.list) ELSE st.objs
      /\ p.flags = (IF st.excl = NoField THEN panel.flags ELSE st.excl) \cap ToSet(p.list)
      /\ panel.flags \subseteq ToSet(panel.list)
  BY <1>3, PanelMergeFacts DEF IsPanel
<1>6. /\ state'.objs = IF st.objs = NoField THEN state.objs ELSE st.objs
      /\ state'.excl = IF st.excl = NoField THEN state.excl ELSE st.excl
  BY <1>3, MergedFacts
<1> SUFFICES ASSUME ~stale, state' /= NoStatus
             PROVE  /\ ToSet(p.list) = state'.objs
                    /\ (state'.excl \cap state'.objs) \ p.flags \subseteq early
                    /\ p.flags \ state'.excl \subseteq {q[1] : q \in sent}
  BY <1>3, <1>4 DEF FollowInv, Follows
<1>7. state' \in Statuses
  BY <1>2, CourseHandled DEF StateConsume, Take
<1> HIDE DEF p, st
<1>8. CASE state = NoStatus
  <2>1. st.objs /= NoField /\ st.excl /= NoField
    BY <1>6, <1>7, <1>8, StatusFacts DEF NoStatus
  <2> QED
    BY <1>5, <1>6, <2>1
<1>9. CASE state /= NoStatus
  <2>1. /\ ToSet(panel.list) = state.objs
        /\ (state.excl \cap state.objs) \ panel.flags \subseteq early
        /\ panel.flags \ state.excl \subseteq {q[1] : q \in sent}
    BY <1>2, <1>9 DEF FollowInv, Follows
  <2>2. state.excl \ state.objs \subseteq early
    BY <1>9, StateIsStatus DEF Honest
  <2>3. ToSet(p.list) = state'.objs
    BY <1>5, <1>6, <2>1
  <2>4. CASE st.excl = NoField
    BY <1>5, <1>6, <2>1, <2>2, <2>3, <2>4
  <2>5. CASE st.excl /= NoField
    BY <1>5, <1>6, <2>3, <2>5
  <2> QED
    BY <2>3, <2>4, <2>5
<1> QED
  BY <1>8, <1>9

LEMMA FollowStep ==
  ASSUME TypeOK, CourseInv, HalfInv, FollowInv, Next
  PROVE  FollowInv'
<1>1. KlipperTyped /\ QueueTyped /\ ScreenTyped
  BY TypeParts
<1>2. ASSUME UNCHANGED <<state, half, panel, sent, stale>>, early \subseteq early'
      PROVE  FollowInv'
  BY <1>2 DEF FollowInv, Follows
<1>3. CASE Printer
  BY <1>2, <1>3
  DEF Printer, Define, NewPrint, RunCommand, Report, Restart, Snapshot, screenVars
<1>4. CASE HandleReady \/ HandleSnapshot
  BY <1>4 DEF HandleReady, HandleSnapshot, FollowInv
<1>5. CASE StateConsume
  BY <1>5, ReportFollows
<1>6. CASE PanelConsume
  <2>1. half /= None /\ half' = None /\ panel' = PanelMerge(panel, half)
        /\ UNCHANGED <<state, sent, stale, early>>
    BY <1>6 DEF PanelConsume, klipperVars
  <2> QED
    BY <2>1 DEF FollowInv, Follows
<1>7. CASE Sync \/ Foreground
  <2>1. panel' = Synced /\ UNCHANGED <<state, half, sent, early>>
    BY <1>7 DEF Sync, Foreground, klipperVars
  <2>2. CASE state = NoStatus
    BY <2>1, <2>2 DEF FollowInv
  <2>3. CASE state /= NoStatus
    BY <2>1, <2>3, SyncedFollows DEF FollowInv, Follows
  <2> QED
    BY <2>2, <2>3
<1>8. CASE Cancel \/ \E i \in DOMAIN panel.list : Ask(i)
  BY <1>2, <1>8 DEF Cancel, Ask, klipperVars
<1>9. CASE Confirm
  <2>1. UNCHANGED <<state, half, stale, early>> /\ IsPanel(panel) /\ IsPanel(panel')
        /\ panel'.list = panel.list
    BY <1>1, <1>9, ConfirmFacts DEF Confirm, ScreenTyped
  <2>2. CASE UNCHANGED <<panel, sent>>
    BY <1>2, <2>1, <2>2
  <2>3. ASSUME NEW n \in Names, panel'.flags = panel.flags \cup {n},
               sent' = sent \cup {<<n, dialog.title>>}
        PROVE  FollowInv'
    <3>1. {q[1] : q \in sent'} = {q[1] : q \in sent} \cup {n}
      <4> DEFINE e == <<n, dialog.title>>
      <4>1. e[1] = n /\ sent' = sent \cup {e}
        BY <2>3
      <4> HIDE DEF e
      <4> QED
        BY <4>1
    <3>2. CASE half = None
      BY <2>1, <2>3, <3>1, <3>2 DEF FollowInv, Follows
    <3>3. CASE half /= None
      <4> DEFINE p == PanelMerge(panel, half)
                 r == PanelMerge(panel', half)
      <4>1. half \in Fields
        BY <1>1, <3>3 DEF QueueTyped
      <4>2. /\ ToSet(p.list) = IF half.objs = NoField THEN ToSet(panel.list) ELSE half.objs
            /\ p.flags = (IF half.excl = NoField THEN panel.flags ELSE half.excl)
                           \cap ToSet(p.list)
        BY <2>1, <4>1, PanelMergeFacts
      <4>3. /\ ToSet(r.list) = IF half.objs = NoField THEN ToSet(panel.list) ELSE half.objs
            /\ r.flags = (IF half.excl = NoField THEN panel'.flags ELSE half.excl)
                           \cap ToSet(r.list)
        BY <2>1, <4>1, PanelMergeFacts
      <4> HIDE DEF p, r
      <4>4. ToSet(r.list) = ToSet(p.list) /\ p.flags \subseteq r.flags
            /\ r.flags \subseteq p.flags \cup {n}
        BY <2>3, <4>2, <4>3
      <4>5. ASSUME ~stale, state /= NoStatus
            PROVE  /\ ToSet(r.list) = state.objs
                   /\ (state.excl \cap state.objs) \ r.flags \subseteq early
                   /\ r.flags \ state.excl \subseteq {q[1] : q \in sent'}
        <5>1. Follows(p)
          BY <3>3, <4>5 DEF FollowInv, p
        <5> QED
          BY <3>1, <4>4, <5>1 DEF Follows
      <4> QED
        BY <2>1, <3>3, <4>5 DEF FollowInv, Follows, r
    <3> QED
      BY <3>2, <3>3
  <2> QED
    BY <1>9, <2>2, <2>3, ConfirmFacts
<1> QED
  BY <1>3, <1>4, <1>5, <1>6, <1>7, <1>8, <1>9, Cases DEF LoopThread, Touch

-----------------------------------------------------------------------------
LEMMA InitInv == Init => IInv
BY InitType, InitCourse DEF IInv

LEMMA NextInv == IInv /\ [Next]_vars => IInv'
<1> SUFFICES ASSUME IInv, [Next]_vars PROVE IInv'
  OBVIOUS
<1>1. CASE Next
  BY <1>1, TypeStep, CourseStep, HalfStep, FollowStep DEF IInv
<1>2. CASE UNCHANGED vars
  <2>1. TypeOK' /\ HalfInv' /\ FollowInv'
    BY <1>2, TypeStep DEF IInv, vars, HalfInv, FollowInv, Follows
  <2>2. CourseInv'
    BY <1>2, CourseStutters DEF IInv, vars, CourseInv
  <2> QED
    BY <2>1, <2>2 DEF IInv
<1> QED
  BY <1>1, <1>2

THEOREM Inductive == Spec => []IInv
BY InitInv, NextInv, PTL DEF Spec

-----------------------------------------------------------------------------
(* The list is sorted and without doubles, its marks are on rows, and every  *)
(* other variable has its type (exclude_object_panel.cpp).                   *)
THEOREM TypeCorrect == Spec => []TypeOK
<1>1. IInv => TypeOK
  BY DEF IInv
<1> QED
  BY Inductive, <1>1, PTL

(* Between two steps of the loop thread the panel lists what State lists,    *)
(* and its marks are State's but for what merge() cannot know                *)
(* (exclude_object_panel.cpp, merge and sync_from_state).                    *)
THEOREM PanelFollows == Spec => []PanelFollowsState
<1>1. IInv => PanelFollowsState
  BY DEF IInv, FollowInv, Follows, PanelFollowsState
<1> QED
  BY Inductive, <1>1, PTL

(* With nothing on its way, sync_from_state shows what Klipper has excluded. *)
THEOREM SyncIsRight == Spec => SyncCorrects
<1> DEFINE Right ==
      (Sync /\ inbox = <<>> /\ half = None /\ told = klipper)
         => /\ ToSet(panel'.list) = klipper.objs
            /\ panel'.flags = klipper.excl \cap klipper.objs
<1>1. IInv => Right
  <2> SUFFICES ASSUME IInv, Sync, inbox = <<>>, half = None, told = klipper
               PROVE  /\ ToSet(panel'.list) = klipper.objs
                      /\ panel'.flags = klipper.excl \cap klipper.objs
    OBVIOUS
  <2>1. klipper \in Statuses /\ told /= None
    BY StatusFacts DEF IInv, TypeOK
  <2>2. state = klipper /\ state /= NoStatus
    BY <2>1, StateIsStatus, StatusFacts DEF IInv
  <2>3. panel' = Synced
    BY DEF Sync
  <2> QED
    BY <2>2, <2>3, SyncedFollows DEF IInv
<1>2. IInv => [Right]_vars
  BY <1>1
<1> HIDE DEF Right
<1>3. Spec => [][Right]_vars
  BY Inductive, <1>2, PTL
<1> QED
  BY <1>3 DEF SyncCorrects, Right
=============================================================================
