------------------------------ MODULE WifiProofs ------------------------------
(***************************************************************************)
(* Theorems about Wifi for any networks, ids and numbers of touches and    *)
(* time-outs: types, the network a password is stored with, and what the   *)
(* panel shows when both threads are at rest.                              *)
(***************************************************************************)
EXTENDS Wifi, TLAPS, WellFoundedInduction

-----------------------------------------------------------------------------
(* What the handlers still do.                                               *)

USE DEF Reading

(* The steps of a handler and those that follow them.                        *)
Draws == {"redraw", "scanned"}
Planned(q) ==
  \A i \in DOMAIN q :
    /\ q[i].op = "ADD" =>
         i = 1 /\ 2 \in DOMAIN q /\ q[2].op = "SSID" /\ \A j \in DOMAIN q : q[j].op \notin Draws
    /\ q[i].op = "SSID" =>
         /\ i = 1 \/ q[i - 1].op = "ADD"
         /\ i + 1 \in DOMAIN q /\ q[i + 1].op = "KEY"
    /\ q[i].op = "KEY" => i = 1 \/ q[i - 1].op = "SSID"
    /\ q[i].op = "REMOVE" => i = 1 /\ 3 \in DOMAIN q /\ q[3].op = "LIST"
    /\ q[i].op \in {"LIST"} \cup Reading =>
         /\ i + 1 \in DOMAIN q /\ q[i + 1].op \in Draws
         /\ \A j \in DOMAIN q : j > i => q[j].op /= "LIST"
    /\ q[i].op \in Reading => i = 1
Asking == {"RESULTS", "LIST"}
Plan(t, q) ==
  /\ q \in Seq(Steps) /\ Planned(q)
  /\ \A i \in DOMAIN q : q[i].op = "SSID" => q[i].ssid /= Open
  /\ t = "ev" => \A i \in DOMAIN q : q[i].op \in Asking \cup Local
PlanInv ==
  /\ \A t \in Threads : Plan(t, todo[t])
  /\ \A i \in DOMAIN cmds : cmds[i].by = "ev" => cmds[i].step.op \in Asking

(* What the panel shows is drawn, or a handler will draw it, or undrawn says *)
(* that none will.                                                           *)
Drawing(t) == \E i \in DOMAIN todo[t] : todo[t][i].op \in Draws
Drawn ==
  /\ card = Status(networks, selected)
  /\ \A i \in DOMAIN networks : networks[i] = cur_network => i = 1
DrawInv == undrawn \/ (\E t \in Threads : Drawing(t)) \/ Drawn

TypeInv == TypeOK /\ PlanInv

-----------------------------------------------------------------------------
(* Sequences and sets of numbers. *)

LEMMA TailFacts ==
  ASSUME NEW S, NEW q \in Seq(S), q /= <<>>
  PROVE  /\ Tail(q) \in Seq(S) /\ Head(q) \in S
         /\ 1 \in DOMAIN q /\ q[1] = Head(q)
         /\ \A i \in DOMAIN Tail(q) : i + 1 \in DOMAIN q /\ Tail(q)[i] = q[i + 1]
         /\ \A i \in DOMAIN q : i > 1 => i - 1 \in DOMAIN Tail(q) /\ Tail(q)[i - 1] = q[i]
  OBVIOUS

LEMMA AppendFacts ==
  ASSUME NEW S, NEW q \in Seq(S), NEW x \in S
  PROVE  /\ Append(q, x) \in Seq(S)
         /\ \A i \in DOMAIN q : i \in DOMAIN Append(q, x) /\ Append(q, x)[i] = q[i]
         /\ Len(q) + 1 \in DOMAIN Append(q, x) /\ Append(q, x)[Len(q) + 1] = x
         /\ \A i \in DOMAIN Append(q, x) : i \in DOMAIN q \/ i = Len(q) + 1
         /\ \A i \in DOMAIN q : i \in Nat /\ i < Len(q) + 1
  OBVIOUS

LEMMA ConsFacts ==
  ASSUME NEW S, NEW q \in Seq(S), NEW x \in S
  PROVE  /\ <<x>> \o q \in Seq(S)
         /\ DOMAIN (<<x>> \o q) = 1..(Len(q) + 1)
         /\ (<<x>> \o q)[1] = x
         /\ \A i \in DOMAIN (<<x>> \o q) : i /= 1 => i - 1 \in DOMAIN q /\ (<<x>> \o q)[i] = q[i - 1]
  OBVIOUS

(* A set of numbers has a smallest.                                          *)
LEMMA Smallest ==
  ASSUME NEW S \in SUBSET Nat, S /= {}
  PROVE  \E m \in S : \A k \in S : m <= k
<1> DEFINE R == OpToRel(<, Nat)
<1>1. IsWellFoundedOn(R, Nat)
  BY NatLessThanWellFounded
<1>2. R = {p \in Nat \X Nat : p[1] < p[2]}
  BY DEF OpToRel
<1> HIDE DEF R
<1>3. PICK m \in S : \A k \in S : <<k, m>> \notin R
  BY <1>1, WFMin
<1>4. ASSUME NEW k \in S PROVE m <= k
  <2>1. <<k, m>> \in Nat \X Nat /\ <<k, m>>[1] = k /\ <<k, m>>[2] = m
    OBVIOUS
  <2>2. ~(k < m)
    BY <1>2, <1>3, <2>1
  <2> QED
    BY <2>2
<1> QED
  BY <1>4

(* A set of numbers up to a bound has a greatest.                            *)
LEMMA Greatest ==
  ASSUME NEW n \in Nat, NEW S \in SUBSET (0..n), S /= {}
  PROVE  Max(S) \in S /\ \A k \in S : k <= Max(S)
<1> DEFINE T == {n - k : k \in S}
<1>1. T \in SUBSET Nat /\ T /= {}
  OBVIOUS
<1>2. PICK m \in T : \A k \in T : m <= k
  <2> HIDE DEF T
  <2> QED
    BY <1>1, Smallest
<1>3. n - m \in S /\ \A k \in S : n - m >= k
  BY <1>2
<1> HIDE DEF T
<1>4. \E x \in S : \A y \in S : x >= y
  BY <1>3
<1>5. Max(S) \in S /\ \A y \in S : Max(S) >= y
  BY <1>4 DEF Max
<1> QED
  BY <1>5

-----------------------------------------------------------------------------
(* The order of the rows. *)

(* The rows of InOrder, up to the m-th of all networks.                      *)
UpTo(h, m, order, seen) ==
  h = [n \in 0..m |->
        IF n = 0 THEN <<>>
        ELSE IF order[n] \in seen THEN Append(h[n - 1], order[n]) ELSE h[n - 1]]

LEMMA RowsExist ==
  ASSUME NEW order, NEW seen
  PROVE  \A n \in Nat : \E h : UpTo(h, n, order, seen)
<1> DEFINE Bad == {n \in Nat : ~\E h : UpTo(h, n, order, seen)}
<1> SUFFICES ASSUME Bad /= {} PROVE FALSE
  OBVIOUS
<1>1. PICK m \in Bad : \A n \in Bad : m <= n
  <2>1. Bad \in SUBSET Nat
    OBVIOUS
  <2> HIDE DEF Bad
  <2> QED
    BY <2>1, Smallest
<1>2. m /= 0
  <2>1. UpTo([n \in 0..0 |-> <<>>], 0, order, seen)
    BY DEF UpTo
  <2> QED
    BY <2>1
<1>3. m \in Nat /\ m - 1 \in Nat /\ m - 1 \notin Bad
  BY <1>1, <1>2
<1>4. PICK h : UpTo(h, m - 1, order, seen)
  BY <1>3
<1> DEFINE last == IF order[m] \in seen THEN Append(h[m - 1], order[m]) ELSE h[m - 1]
           g == [n \in 0..m |-> IF n = m THEN last ELSE h[n]]
<1>5. UpTo(g, m, order, seen)
  <2>1. ASSUME NEW n \in 0..m
        PROVE  g[n] = IF n = 0 THEN <<>>
                      ELSE IF order[n] \in seen THEN Append(g[n - 1], order[n]) ELSE g[n - 1]
    <3>1. CASE n = m
      <4>1. m - 1 \in 0..m /\ m - 1 /= m
        BY <1>2, <1>3
      <4>2. g[m - 1] = h[m - 1]
        BY <4>1
      <4> QED
        BY <1>2, <3>1, <4>2
    <3>2. CASE n /= m
      <4>1. n \in 0..(m - 1) /\ g[n] = h[n]
        BY <1>3, <3>2
      <4>2. h[n] = IF n = 0 THEN <<>>
                   ELSE IF order[n] \in seen THEN Append(h[n - 1], order[n]) ELSE h[n - 1]
        BY <1>4, <4>1 DEF UpTo
      <4>3. n /= 0 => n - 1 \in 0..m /\ n - 1 /= m
        BY <1>3, <4>1
      <4>4. n /= 0 => g[n - 1] = h[n - 1]
        BY <4>3
      <4> QED
        BY <4>1, <4>2, <4>4
    <3> QED
      BY <3>1, <3>2
  <2> HIDE DEF g
  <2>2. g = [n \in 0..m |-> g[n]]
    BY DEF g
  <2> QED
    BY <2>1, <2>2 DEF UpTo
<1> QED
  BY <1>1, <1>5

(* InOrder lists networks of the set it is given.                            *)
LEMMA InOrderFacts ==
  ASSUME NEW order \in Seq(Ssids), NEW seen
  PROVE  InOrder(order, seen) \in Seq(Ssids \cap seen)
<1>1. Len(order) \in Nat /\ \A n \in 1..Len(order) : order[n] \in Ssids
  OBVIOUS
<1> DEFINE h == CHOOSE h : UpTo(h, Len(order), order, seen)
<1>2. UpTo(h, Len(order), order, seen)
  <2>1. \E g : UpTo(g, Len(order), order, seen)
    BY <1>1, RowsExist
  <2> QED
    BY <2>1
<1>3. InOrder(order, seen) = h[Len(order)]
  BY DEF InOrder, UpTo
<1> HIDE DEF h
<1> DEFINE Bad == {n \in 0..Len(order) : h[n] \notin Seq(Ssids \cap seen)}
<1>4. SUFFICES ASSUME Bad /= {} PROVE FALSE
  BY <1>1, <1>3
<1>5. PICK m \in Bad : \A n \in Bad : m <= n
  <2>1. Bad \in SUBSET Nat
    BY <1>1
  <2> HIDE DEF Bad
  <2> QED
    BY <1>4, <2>1, Smallest
<1>6. \A n \in 0..Len(order) :
        h[n] = IF n = 0 THEN <<>>
               ELSE IF order[n] \in seen THEN Append(h[n - 1], order[n]) ELSE h[n - 1]
  BY <1>2 DEF UpTo
<1>7. m \in 1..Len(order)
  <2>1. h[0] = <<>>
    BY <1>1, <1>6
  <2>2. m \in 0..Len(order) /\ h[m] \notin Seq(Ssids \cap seen)
    BY <1>5
  <2>3. <<>> \in Seq(Ssids \cap seen)
    OBVIOUS
  <2>4. m /= 0
    BY ONLY <2>1, <2>2, <2>3
  <2> QED
    BY <1>1, <2>2, <2>4
<1>8. m - 1 \in 0..Len(order) /\ m - 1 \notin Bad
  BY <1>1, <1>5, <1>7
<1>9. h[m - 1] \in Seq(Ssids \cap seen)
  BY <1>8
<1>10. h[m] \in Seq(Ssids \cap seen)
  <2>1. CASE order[m] \in seen
    <3>1. order[m] \in Ssids \cap seen
      BY <1>1, <1>7, <2>1
    <3>2. h[m] = Append(h[m - 1], order[m])
      <4>1. m \in 0..Len(order) /\ m /= 0
        BY <1>1, <1>7
      <4> QED
        BY <1>6, <2>1, <4>1
    <3> QED
      BY <1>9, <3>1, <3>2, AppendFacts
  <2>2. CASE order[m] \notin seen
    BY <1>1, <1>6, <1>7, <1>9, <2>2
  <2> QED
    BY <2>1, <2>2
<1> QED
  BY <1>5, <1>10

(* Ordered puts the connected network first and nowhere else.                *)
LEMMA OrderedFacts ==
  ASSUME NEW rows \in Seq(Ssids)
  PROVE  /\ Ordered(rows) \in Seq(Ssids)
         /\ \A i \in DOMAIN Ordered(rows) : Ordered(rows)[i] = cur_network => i = 1
<1> DEFINE seen == {rows[i] : i \in DOMAIN rows}
<1>1. Strength \in Seq(Ssids)
  BY WifiAssumption DEF IsOrder
<1>2. CASE cur_network \in seen
  <2> DEFINE rest == InOrder(Strength, seen \ {cur_network})
  <2>1. rest \in Seq(Ssids \cap (seen \ {cur_network}))
    BY <1>1, InOrderFacts
  <2>2. rest \in Seq(Ssids) /\ \A i \in DOMAIN rest : rest[i] /= cur_network
    <3> HIDE DEF rest
    <3> QED
      BY <2>1
  <2>3. cur_network \in Ssids
    BY <1>2
  <2>4. Ordered(rows) = <<cur_network>> \o rest
    BY <1>2 DEF Ordered
  <2> HIDE DEF rest
  <2> QED
    BY <2>2, <2>3, <2>4, ConsFacts
<1>3. CASE cur_network \notin seen
  <2> DEFINE rest == InOrder(Strength, seen)
  <2>1. rest \in Seq(Ssids \cap seen)
    BY <1>1, InOrderFacts
  <2>2. Ordered(rows) = rest
    BY <1>3 DEF Ordered
  <2> HIDE DEF rest, seen
  <2>3. rest \in Seq(Ssids) /\ \A i \in DOMAIN rest : rest[i] \in seen
    BY <2>1
  <2> QED
    BY <1>3, <2>2, <2>3
<1> QED
  BY <1>2, <1>3

LEMMA RebuildFacts ==
  ASSUME NEW rows \in Seq(Ssids), NEW sel, Rebuild(rows, sel)
  PROVE  /\ networks' \in Seq(Ssids) /\ selected' \in 0..Len(networks')
         /\ card' = Status(networks', selected')
         /\ \A i \in DOMAIN networks' : networks'[i] = cur_network => i = 1
<1> DEFINE wanted == IF sel \in DOMAIN rows THEN rows[sel] ELSE cur_network
           sorted == Ordered(rows)
           again == {i \in DOMAIN sorted : sorted[i] = wanted}
           pos == IF again /= {} THEN Max(again) ELSE IF sorted /= <<>> THEN 1 ELSE 0
<1>1. /\ sorted \in Seq(Ssids)
      /\ \A i \in DOMAIN sorted : sorted[i] = cur_network => i = 1
  BY OrderedFacts
<1>2. networks' = sorted /\ selected' = pos /\ card' = Status(sorted, pos)
  BY DEF Rebuild
<1> HIDE DEF sorted
<1>3. again /= {} => Max(again) \in again
  <2>1. Len(sorted) \in Nat /\ again \in SUBSET (0..Len(sorted))
    BY <1>1
  <2> HIDE DEF again
  <2> QED
    BY <2>1, Greatest
<1>4. pos \in 0..Len(sorted)
  BY <1>1, <1>3
<1> HIDE DEF pos
<1> QED
  BY <1>1, <1>2, <1>4

-----------------------------------------------------------------------------
(* Plans. *)

LEMMA PlanTail ==
  ASSUME NEW t, NEW q, Plan(t, q), q /= <<>>
  PROVE  Plan(t, Tail(q))
<1>1. q \in Seq(Steps)
  BY DEF Plan
<1>2. /\ Tail(q) \in Seq(Steps)
      /\ \A i \in DOMAIN Tail(q) : i + 1 \in DOMAIN q /\ Tail(q)[i] = q[i + 1]
      /\ \A i \in DOMAIN q : i > 1 => i - 1 \in DOMAIN Tail(q) /\ Tail(q)[i - 1] = q[i]
  BY <1>1, TailFacts
<1>3. DOMAIN q \subseteq Nat \ {0} /\ DOMAIN Tail(q) \subseteq Nat \ {0}
  BY <1>1, <1>2
<1> DEFINE r == Tail(q)
<1> HIDE DEF r
<1>4. ASSUME NEW i \in DOMAIN r
      PROVE  /\ r[i].op \notin {"ADD", "REMOVE"} \cup Reading
             /\ r[i].op = "SSID" =>
                  /\ i = 1 \/ r[i - 1].op = "ADD"
                  /\ i + 1 \in DOMAIN r /\ r[i + 1].op = "KEY"
             /\ r[i].op = "KEY" => i = 1 \/ r[i - 1].op = "SSID"
             /\ r[i].op = "LIST" =>
                  /\ i + 1 \in DOMAIN r /\ r[i + 1].op \in Draws
                  /\ \A j \in DOMAIN r : j > i => r[j].op /= "LIST"
             /\ r[i].op = "SSID" => r[i].ssid /= Open
             /\ t = "ev" => r[i].op \in Asking \cup Local
  <2>1. i \in Nat \ {0} /\ i + 1 \in DOMAIN q /\ r[i] = q[i + 1] /\ i + 1 > 1 /\ i + 1 /= 1
    BY <1>2, <1>3 DEF r
  <2>2. i /= 1 => i \in DOMAIN q /\ r[i - 1] = q[i]
    <3>1. i /= 1 => i - 1 \in DOMAIN r
      BY <1>2, <2>1 DEF r
    <3>2. i /= 1 => r[i - 1] = q[(i - 1) + 1]
      BY <1>2, <3>1 DEF r
    <3> QED
      BY <1>2, <2>1, <3>1, <3>2 DEF r
  <2>3. i + 2 \in DOMAIN q => i + 1 \in DOMAIN r /\ r[i + 1] = q[i + 2]
    <3>1. (i + 2) - 1 = i + 1 /\ i + 2 > 1
      BY <2>1
    <3> QED
      BY <1>2, <3>1 DEF r
  <2>4. (i + 1) + 1 = i + 2 /\ (i + 1) - 1 = i
    BY <2>1
  <2>5. ASSUME r[i].op = "LIST", NEW j \in DOMAIN r, j > i PROVE r[j].op /= "LIST"
    <3>1. j + 1 \in DOMAIN q /\ r[j] = q[j + 1] /\ j + 1 > i + 1
      BY <1>2, <1>3, <2>1, <2>5 DEF r
    <3>2. q[i + 1].op = "LIST"
      BY <2>1, <2>5
    <3>3. \A k \in DOMAIN q : k > i + 1 => q[k].op /= "LIST"
      BY <2>1, <3>2 DEF Plan, Planned
    <3> QED
      BY <3>1, <3>3
  <2>6. /\ r[i].op \notin Reading
        /\ r[i].op = "LIST" => i + 1 \in DOMAIN r /\ r[i + 1].op \in Draws
    BY <2>1, <2>3, <2>4 DEF Plan, Planned
  <2>7. /\ r[i].op \notin {"ADD", "REMOVE"}
        /\ r[i].op = "SSID" => r[i].ssid /= Open
        /\ t = "ev" => r[i].op \in Asking \cup Local
    BY <2>1 DEF Plan, Planned
  <2>8. r[i].op = "SSID" =>
          /\ i = 1 \/ r[i - 1].op = "ADD"
          /\ i + 1 \in DOMAIN r /\ r[i + 1].op = "KEY"
    <3>1. q[i + 1].op = "SSID" =>
            /\ i + 1 = 1 \/ q[(i + 1) - 1].op = "ADD"
            /\ (i + 1) + 1 \in DOMAIN q /\ q[(i + 1) + 1].op = "KEY"
      BY <2>1 DEF Plan, Planned
    <3>2. q[i + 1].op = "SSID" =>
            /\ q[i].op = "ADD" /\ i + 2 \in DOMAIN q /\ q[i + 2].op = "KEY"
      BY <2>1, <2>4, <3>1
    <3> QED
      BY <2>1, <2>2, <2>3, <3>2
  <2>9. r[i].op = "KEY" => i = 1 \/ r[i - 1].op = "SSID"
    BY <2>1, <2>2, <2>4 DEF Plan, Planned
  <2> QED
    BY <2>5, <2>6, <2>7, <2>8, <2>9
<1>5. Planned(r)
  BY <1>4 DEF Planned
<1> QED
  BY <1>2, <1>4, <1>5 DEF Plan, r

LEMMA PlanReaches ==
  ASSUME NEW t, NEW q, Plan(t, q), q /= <<>>, Head(q).op \in {"LIST"} \cup Reading,
         NEW op \in Reading
  PROVE  Plan(t, [q EXCEPT ![1] = Step(op, None, None)])
<1> DEFINE p == Step(op, None, None)
           r == [q EXCEPT ![1] = p]
<1>1. q \in Seq(Steps) /\ 1 \in DOMAIN q /\ q[1].op \in {"LIST"} \cup Reading
  BY DEF Plan
<1>2. p \in Steps /\ p.op \in Reading
  BY DEF Step, Steps, Local, Sent
<1> HIDE DEF p
<1>3. /\ r \in Seq(Steps) /\ DOMAIN r = DOMAIN q /\ r[1] = p
      /\ \A i \in DOMAIN q : i /= 1 => r[i] = q[i]
  BY <1>1, <1>2
<1>4. DOMAIN q \subseteq Nat \ {0}
  BY <1>1
<1> HIDE DEF r
<1>5. Planned(r)
  <2> SUFFICES ASSUME NEW i \in DOMAIN r
               PROVE  /\ r[i].op /= "ADD" /\ r[i].op /= "REMOVE"
                      /\ r[i].op = "SSID" =>
                           /\ i = 1 \/ r[i - 1].op = "ADD"
                           /\ i + 1 \in DOMAIN r /\ r[i + 1].op = "KEY"
                      /\ r[i].op = "KEY" => i = 1 \/ r[i - 1].op = "SSID"
                      /\ r[i].op \in {"LIST"} \cup Reading =>
                           /\ i + 1 \in DOMAIN r /\ r[i + 1].op \in Draws
                           /\ \A j \in DOMAIN r : j > i => r[j].op /= "LIST"
                      /\ r[i].op \in Reading => i = 1
    BY DEF Planned
  <2>1. i \in Nat \ {0} /\ i + 1 /= 1
    BY <1>3, <1>4
  <2>2. CASE i = 1
    <3>1. 2 \in DOMAIN q /\ q[2].op \in Draws
      <4>1. 1 + 1 \in DOMAIN q /\ q[1 + 1].op \in Draws
        BY <1>1 DEF Plan, Planned
      <4> QED
        BY <4>1
    <3>2. r[2] = q[2]
      BY <1>3, <3>1
    <3>3. ASSUME NEW j \in DOMAIN r, j > 1 PROVE r[j].op /= "LIST"
      BY <1>1, <1>3, <3>3 DEF Plan, Planned
    <3> QED
      BY <1>2, <1>3, <2>2, <3>1, <3>2, <3>3
  <2>3. CASE i /= 1
    <3>1. r[i] = q[i] /\ i \in DOMAIN q
      BY <1>3, <2>3
    <3>2. i + 1 \in DOMAIN q => r[i + 1] = q[i + 1]
      BY <1>3, <2>1
    <3>3. q[i].op \in {"SSID", "KEY"} => i - 1 \in DOMAIN q /\ i - 1 /= 1
      <4>1. i - 1 \in DOMAIN q
        BY <1>1, <2>1, <2>3, <3>1
      <4> QED
        BY <1>1, <2>3, <3>1, <4>1 DEF Plan, Planned
    <3>4. q[i].op \in {"SSID", "KEY"} => r[i - 1] = q[i - 1]
      BY <1>3, <3>3
    <3> QED
      BY <1>1, <1>3, <2>3, <3>1, <3>2, <3>3, <3>4 DEF Plan, Planned
  <2> QED
    BY <2>2, <2>3
<1> QED
  BY <1>1, <1>2, <1>3, <1>5 DEF Plan, r, p, Local

LEMMA PlanOver == \A t : Plan(t, <<>>)
BY DEF Plan, Planned

(* The plans of the touch handlers and of the events.                        *)
LEMMA ScanPlan == Plan("ui", <<Step("SCAN", None, None)>>)
<1> DEFINE a == Step("SCAN", None, None)
           q == <<a>>
<1>1. a \in Steps /\ a.op = "SCAN"
  BY DEF Step, Steps, Local, Sent, Plain
<1> HIDE DEF a
<1>2. q \in Seq(Steps) /\ DOMAIN q = {1} /\ q[1] = a
  BY <1>1
<1> HIDE DEF q
<1> QED
  BY <1>1, <1>2 DEF Plan, Planned, q, a

LEMMA ConnectPlan ==
  ASSUME NEW s \in Ssids \cup {None}, NEW k \in Ssids \cup {Open}
  PROVE  Plan("ui", <<Step("ADD", None, None), Step("SSID", s, None), Step("KEY", k, None),
                      Step("SELECT", None, None), Step("SAVE", None, None)>>)
<1> DEFINE a == Step("ADD", None, None)
           b == Step("SSID", s, None)
           c == Step("KEY", k, None)
           d == Step("SELECT", None, None)
           e == Step("SAVE", None, None)
           q == <<a, b, c, d, e>>
<1>1. /\ {a, b, c, d, e} \subseteq Steps
      /\ a.op = "ADD" /\ b.op = "SSID" /\ c.op = "KEY" /\ d.op = "SELECT" /\ e.op = "SAVE"
      /\ b.ssid = s
  BY DEF Step, Steps, Local, Sent, Plain
<1>2. s /= Open
  BY WifiAssumption
<1> HIDE DEF a, b, c, d, e
<1>3. /\ q \in Seq(Steps) /\ DOMAIN q = 1..5
      /\ q[1] = a /\ q[2] = b /\ q[3] = c /\ q[4] = d /\ q[5] = e
  BY <1>1
<1> HIDE DEF q
<1>4. DOMAIN q = {1, 2, 3, 4, 5}
  BY <1>3
<1>5. Planned(q)
  <2> SUFFICES ASSUME NEW i \in DOMAIN q
               PROVE  /\ q[i].op = "ADD" =>
                           i = 1 /\ 2 \in DOMAIN q /\ q[2].op = "SSID"
                           /\ \A j \in DOMAIN q : q[j].op \notin Draws
                      /\ q[i].op = "SSID" =>
                           /\ i = 1 \/ q[i - 1].op = "ADD"
                           /\ i + 1 \in DOMAIN q /\ q[i + 1].op = "KEY"
                      /\ q[i].op = "KEY" => i = 1 \/ q[i - 1].op = "SSID"
                      /\ q[i].op /= "REMOVE" /\ q[i].op \notin {"LIST"} \cup Reading
    BY DEF Planned
  <2> QED
    BY <1>1, <1>3, <1>4 DEF Draws
<1>6. \A i \in DOMAIN q : q[i].op = "SSID" => q[i].ssid /= Open
  BY <1>1, <1>2, <1>3, <1>4
<1> QED
  BY <1>3, <1>5, <1>6 DEF Plan, q, a, b, c, d, e

LEMMA SelectPlan ==
  ASSUME NEW n \in Ids \cup {None}
  PROVE  Plan("ui", <<Step("SELECT", None, n), Step("SAVE", None, None)>>)
<1> DEFINE a == Step("SELECT", None, n)
           b == Step("SAVE", None, None)
           q == <<a, b>>
<1>1. {a, b} \subseteq Steps /\ a.op = "SELECT" /\ b.op = "SAVE"
  BY DEF Step, Steps, Local, Sent, Plain
<1> HIDE DEF a, b
<1>2. q \in Seq(Steps) /\ DOMAIN q = {1, 2} /\ q[1] = a /\ q[2] = b
  BY <1>1
<1> HIDE DEF q
<1> QED
  BY <1>1, <1>2 DEF Plan, Planned, q, a, b

LEMMA ForgetPlan ==
  ASSUME NEW n \in Ids \cup {None}
  PROVE  Plan("ui", <<Step("REMOVE", None, n), Step("SAVE", None, None),
                      Step("LIST", None, None), Step("redraw", None, None)>>)
<1> DEFINE a == Step("REMOVE", None, n)
           b == Step("SAVE", None, None)
           c == Step("LIST", None, None)
           d == Step("redraw", None, None)
           q == <<a, b, c, d>>
<1>1. /\ {a, b, c, d} \subseteq Steps
      /\ a.op = "REMOVE" /\ b.op = "SAVE" /\ c.op = "LIST" /\ d.op = "redraw"
  BY DEF Step, Steps, Local, Sent, Plain
<1> HIDE DEF a, b, c, d
<1>2. /\ q \in Seq(Steps) /\ DOMAIN q = 1..4
      /\ q[1] = a /\ q[2] = b /\ q[3] = c /\ q[4] = d
  BY <1>1
<1> HIDE DEF q
<1>3. DOMAIN q = {1, 2, 3, 4}
  BY <1>2
<1>4. Planned(q)
  <2> SUFFICES ASSUME NEW i \in DOMAIN q
               PROVE  /\ q[i].op \notin {"ADD", "SSID", "KEY"}
                      /\ q[i].op = "REMOVE" => i = 1 /\ 3 \in DOMAIN q /\ q[3].op = "LIST"
                      /\ q[i].op \in {"LIST"} \cup Reading =>
                           /\ i + 1 \in DOMAIN q /\ q[i + 1].op \in Draws
                           /\ \A j \in DOMAIN q : j > i => q[j].op /= "LIST"
                      /\ q[i].op \notin Reading
    BY DEF Planned
  <2> QED
    BY <1>1, <1>2, <1>3 DEF Draws
<1> QED
  BY <1>1, <1>2, <1>3, <1>4 DEF Plan, q, a, b, c, d

LEMMA ResultsPlan ==
  \A t : Plan(t, <<Step("RESULTS", None, None), Step("LIST", None, None),
                   Step("scanned", None, None)>>)
<1> DEFINE a == Step("RESULTS", None, None)
           b == Step("LIST", None, None)
           c == Step("scanned", None, None)
           q == <<a, b, c>>
<1>1. {a, b, c} \subseteq Steps /\ a.op = "RESULTS" /\ b.op = "LIST" /\ c.op = "scanned"
  BY DEF Step, Steps, Local, Sent
<1> HIDE DEF a, b, c
<1>2. q \in Seq(Steps) /\ DOMAIN q = {1, 2, 3} /\ q[1] = a /\ q[2] = b /\ q[3] = c
  BY <1>1
<1> HIDE DEF q
<1>3. Planned(q)
  <2> SUFFICES ASSUME NEW i \in DOMAIN q
               PROVE  /\ q[i].op \notin {"ADD", "SSID", "KEY", "REMOVE"}
                      /\ q[i].op \in {"LIST"} \cup Reading =>
                           /\ i + 1 \in DOMAIN q /\ q[i + 1].op \in Draws
                           /\ \A j \in DOMAIN q : j > i => q[j].op /= "LIST"
                      /\ q[i].op \notin Reading
    BY DEF Planned
  <2> QED
    BY <1>1, <1>2 DEF Draws
<1> QED
  BY <1>1, <1>2, <1>3 DEF Plan, Asking, Local, q, a, b, c

LEMMA ConnectedPlan ==
  \A t : Plan(t, <<Step("LIST", None, None), Step("redraw", None, None)>>)
<1> DEFINE a == Step("LIST", None, None)
           b == Step("redraw", None, None)
           q == <<a, b>>
<1>1. {a, b} \subseteq Steps /\ a.op = "LIST" /\ b.op = "redraw"
  BY DEF Step, Steps, Local, Sent
<1> HIDE DEF a, b
<1>2. q \in Seq(Steps) /\ DOMAIN q = {1, 2} /\ q[1] = a /\ q[2] = b
  BY <1>1
<1> HIDE DEF q
<1>3. Planned(q)
  <2> SUFFICES ASSUME NEW i \in DOMAIN q
               PROVE  /\ q[i].op \notin {"ADD", "SSID", "KEY", "REMOVE"}
                      /\ q[i].op \in {"LIST"} \cup Reading =>
                           /\ i + 1 \in DOMAIN q /\ q[i + 1].op \in Draws
                           /\ \A j \in DOMAIN q : j > i => q[j].op /= "LIST"
                      /\ q[i].op \notin Reading
    BY DEF Planned
  <2> QED
    BY <1>1, <1>2 DEF Draws
<1> QED
  BY <1>1, <1>2, <1>3 DEF Plan, Asking, Local, q, a, b

-----------------------------------------------------------------------------
(* Types. *)

TodoOK ==
  /\ todo \in [Threads -> Seq(Steps)]
  /\ \A t \in Threads : \A i \in DOMAIN todo[t] : todo[t][i].op = "SSID" => todo[t][i].ssid /= Open
  /\ waiting \in [Threads -> BOOLEAN]
  /\ \A t \in Threads : waiting[t] => todo[t] /= <<>> /\ Head(todo[t]).op \in Sent
  /\ \A t \in Threads : Plan(t, todo[t])
LocalsOK ==
  /\ nid \in [id: Ids, word: BOOLEAN]
  /\ answer \in [Threads -> Lists]
  /\ heard \subseteq Ssids
CommandsOK ==
  /\ cmds \in Seq(Commands)
  /\ \A i \in DOMAIN cmds : cmds[i].step.op = "SSID" => cmds[i].step.ssid /= Open
  /\ \A i \in DOMAIN cmds : cmds[i].by = "ev" => cmds[i].step.op \in Asking
RepliesOK == replies \in Seq(Replies)
EventsOK == events \in Seq({"SCAN-RESULTS", "CONNECTED"})
FlagsOK == untold \in BOOLEAN /\ undrawn \in BOOLEAN

LEMMA Parts ==
  TypeInv <=> /\ PanelType /\ TodoOK /\ LocalsOK /\ CommandsOK /\ RepliesOK /\ EventsOK
              /\ SupplicantType /\ FlagsOK
BY DEF TypeInv, TypeOK, PlanInv, ThreadType, SocketType, TodoOK, LocalsOK, CommandsOK,
       RepliesOK, EventsOK, FlagsOK

(* A handler begins, goes on or ends.                                        *)
LEMMA Replans ==
  ASSUME TodoOK, NEW t \in Threads, NEW q, Plan(t, q), todo' = [todo EXCEPT ![t] = q],
         waiting' = waiting \/ waiting' = [waiting EXCEPT ![t] = FALSE], ~waiting'[t]
  PROVE  TodoOK'
<1>1. todo' \in [Threads -> Seq(Steps)] /\ \A u \in Threads : Plan(u, todo'[u])
  BY DEF TodoOK, Plan
<1>2. waiting' \in [Threads -> BOOLEAN] /\ \A u \in Threads : waiting'[u] => u /= t /\ waiting[u]
  BY DEF TodoOK
<1>3. \A u \in Threads : waiting'[u] => todo'[u] /= <<>> /\ Head(todo'[u]).op \in Sent
  BY <1>2 DEF TodoOK
<1>4. \A u \in Threads : \A i \in DOMAIN todo'[u] :
        todo'[u][i].op = "SSID" => todo'[u][i].ssid /= Open
  BY <1>1 DEF Plan
<1> QED
  BY <1>1, <1>2, <1>3, <1>4 DEF TodoOK

(* wpa_supplicant as it was found.                                           *)
LEMMA InitSupplicant ==
  ASSUME Init
  PROVE  /\ nets \in [Ids -> Networks \cup {None}]
         /\ enabled \subseteq Known /\ current \in enabled \cup {None}
         /\ \A i \in Known : nets[i].key \in {None, Open, nets[i].ssid}
<1>1. PICK b \in Boot :
        /\ nets = [i \in Ids |-> IF i < Len(b.stored) THEN Configured(b.stored[i + 1]) ELSE None]
        /\ enabled = b.enabled /\ current = b.current
  BY DEF Init
<1>2. /\ b.stored \in Seq(Ssids)
      /\ b.enabled \subseteq {i \in 0..MaxId : i < Len(b.stored)}
      /\ b.current \in b.enabled \cup {None}
  BY WifiAssumption
<1>3. /\ Secure \subseteq Ssids
      /\ \A s \in Ssids \cup {None}, k \in Ssids \cup {None, Open} : [ssid |-> s, key |-> k] /= None
  BY WifiAssumption
<1>4. ASSUME NEW s \in Ssids
      PROVE  /\ Configured(s) \in Networks /\ Configured(s) /= None
             /\ Configured(s).key \in {Open, Configured(s).ssid}
  BY <1>3 DEF Configured, Networks
<1>5. ASSUME NEW i \in Ids, i < Len(b.stored)
      PROVE  /\ nets[i] \in Networks /\ nets[i] /= None
             /\ nets[i].key \in {Open, nets[i].ssid}
  <2>1. b.stored[i + 1] \in Ssids
    BY <1>2, <1>5 DEF Ids
  <2>2. nets[i] = Configured(b.stored[i + 1])
    BY <1>1, <1>5
  <2> QED
    BY <1>4, <2>1, <2>2
<1>6. \A i \in Ids : ~(i < Len(b.stored)) => nets[i] = None
  BY <1>1
<1>7. nets \in [Ids -> Networks \cup {None}]
  <2>1. nets = [i \in Ids |-> nets[i]]
    BY <1>1
  <2> QED
    BY <1>5, <1>6, <2>1
<1> QED
  BY <1>1, <1>2, <1>5, <1>6, <1>7 DEF Known, Ids

LEMMA InitType == Init => TypeInv
<1> SUFFICES ASSUME Init PROVE TypeInv
  OBVIOUS
<1>1. 0 \in Ids
  BY WifiAssumption DEF Ids
<1>2. PanelType
  BY DEF Init, PanelType, NoList
<1>3. TodoOK
  BY PlanOver DEF Init, TodoOK
<1>4. LocalsOK
  BY <1>1 DEF Init, LocalsOK, NoList, Lists
<1>5. CommandsOK /\ RepliesOK /\ EventsOK /\ FlagsOK
  <2>1. cmds = <<>> /\ replies = <<>> /\ events = <<>> /\ untold \in BOOLEAN /\ undrawn = FALSE
    BY DEF Init
  <2>2. FlagsOK
    BY <2>1 DEF FlagsOK
  <2>3. CommandsOK
    BY <2>1 DEF CommandsOK
  <2> QED
    BY <2>1, <2>2, <2>3 DEF RepliesOK, EventsOK
<1>6. SupplicantType
  BY InitSupplicant DEF Init, SupplicantType
<1> QED
  BY <1>2, <1>3, <1>4, <1>5, <1>6, Parts

Touches ==
  \/ \E i \in DOMAIN networks : HandleRow(i)
  \/ Scan \/ PressConnect \/ PressForget \/ EnterPassword \/ Close

(* What every touch handler leaves alone.                                    *)
LEMMA TouchLeaves ==
  ASSUME Touches
  PROVE  /\ todo["ui"] = <<>>
         /\ UNCHANGED <<networks, cur_network, list_networks, waiting, nid, answer, heard,
                        sockets, supplicant, untold, undrawn, happened, late>>
BY DEF Touches, HandleRow, Scan, PressConnect, PressForget, EnterPassword, Close, Touch, Idle

LEMMA ShownType ==
  ASSUME PanelType, NEW sel
  PROVE  Shown(networks, sel) \in Ssids \cup {None}
BY DEF PanelType, Shown

LEMMA TouchType == ASSUME TypeInv, Touches PROVE TypeInv'
<1> USE DEF Threads
<1>1. PanelType /\ TodoOK /\ LocalsOK /\ CommandsOK /\ RepliesOK /\ EventsOK
      /\ SupplicantType /\ FlagsOK
  BY Parts
<1>2. ~waiting["ui"] /\ todo["ui"] = <<>>
  BY <1>1, TouchLeaves DEF TodoOK
<1>3. LocalsOK' /\ CommandsOK' /\ RepliesOK' /\ EventsOK' /\ FlagsOK'
  BY <1>1, TouchLeaves DEF LocalsOK, CommandsOK, RepliesOK, EventsOK, FlagsOK, sockets
<1>4. SupplicantType'
  BY <1>1, TouchLeaves DEF SupplicantType, supplicant, Known
<1>5. Shown(networks, selected) \in Ssids \cup {None}
  BY <1>1, ShownType
<1>6. \A s \in Ssids : list_networks[s] \in Ids \cup {None}
  BY <1>1 DEF PanelType
<1>7. PanelType'
  <2>1. selected' \in 0..Len(networks)
    <3>1. ASSUME NEW i \in DOMAIN networks, HandleRow(i) PROVE selected' \in 0..Len(networks)
      BY <1>1, <3>1 DEF HandleRow, PanelType
    <3>2. ASSUME Scan \/ PressConnect \/ PressForget \/ EnterPassword \/ Close
          PROVE  selected' \in 0..Len(networks)
      BY <1>1, <3>2 DEF Scan, PressConnect, PressForget, EnterPassword, Close, PanelType
    <3> QED
      BY <3>1, <3>2 DEF Touches
  <2>2. selected_network' \in Ssids \cup {None} /\ prompt' \in Ssids \cup {None}
    <3>1. ASSUME NEW i \in DOMAIN networks, HandleRow(i)
          PROVE  selected_network' \in Ssids \cup {None} /\ prompt' \in Ssids \cup {None}
      BY <1>1, <3>1 DEF HandleRow, PanelType
    <3>2. CASE PressConnect
      BY <1>1, <1>5, <3>2 DEF PressConnect, PanelType
    <3>3. CASE PressForget
      BY <1>1, <1>5, <3>3 DEF PressForget, PanelType
    <3>4. CASE Scan \/ EnterPassword \/ Close
      BY <1>1, <3>4 DEF Scan, EnterPassword, Close, PanelType
    <3> QED
      BY <3>1, <3>2, <3>3, <3>4 DEF Touches
  <2> QED
    BY <1>1, <2>1, <2>2, TouchLeaves DEF PanelType
<1>8. TodoOK'
  <2>1. CASE UNCHANGED todo
    BY <1>1, <2>1, TouchLeaves DEF TodoOK
  <2>2. ASSUME NEW q, Plan("ui", q), todo' = [todo EXCEPT !["ui"] = q]
        PROVE  TodoOK'
    <3>1. waiting' = waiting /\ ~waiting'["ui"]
      BY <1>2, TouchLeaves
    <3> QED
      BY <1>1, <2>2, <3>1, Replans
  <2>3. CASE Scan
    BY <2>2, <2>3, ScanPlan DEF Scan, Runs
  <2>4. CASE PressConnect
    <3>1. CASE UNCHANGED todo
      BY <2>1, <3>1
    <3>2. ASSUME NEW s, s = Shown(networks, selected), s /= None,
                 Runs(<<Step("SELECT", None, list_networks[s]), Step("SAVE", None, None)>>)
          PROVE  TodoOK'
      <4>1. list_networks[s] \in Ids \cup {None}
        BY <1>5, <1>6, <3>2
      <4> QED
        BY <2>2, <3>2, <4>1, SelectPlan DEF Runs
    <3>3. ASSUME NEW s, s = Shown(networks, selected), ConnectTo(s, Open)
          PROVE  TodoOK'
      BY <1>5, <2>2, <3>3, ConnectPlan DEF ConnectTo, Runs
    <3> QED
      BY <2>4, <3>1, <3>2, <3>3 DEF PressConnect
  <2>5. CASE PressForget
    <3>1. CASE UNCHANGED todo
      BY <2>1, <3>1
    <3>2. ASSUME NEW s, s = Shown(networks, selected), s /= None,
                 Runs(<<Step("REMOVE", None, list_networks[s]), Step("SAVE", None, None),
                        Step("LIST", None, None), Step("redraw", None, None)>>)
          PROVE  TodoOK'
      <4>1. list_networks[s] \in Ids \cup {None}
        BY <1>5, <1>6, <3>2
      <4> QED
        BY <2>2, <3>2, <4>1, ForgetPlan DEF Runs
    <3> QED
      BY <2>5, <3>1, <3>2 DEF PressForget
  <2>6. CASE EnterPassword
    <3>1. selected_network \in Ssids \cup {None} /\ prompt \in Ssids
      BY <1>1, <2>6 DEF PanelType, EnterPassword
    <3> QED
      BY <2>2, <2>6, <3>1, ConnectPlan DEF EnterPassword, ConnectTo, Runs
  <2>7. CASE Close \/ \E i \in DOMAIN networks : HandleRow(i)
    BY <2>1, <2>7 DEF Close, HandleRow
  <2> QED
    BY <2>3, <2>4, <2>5, <2>6, <2>7 DEF Touches
<1>9. (PanelType /\ TodoOK /\ LocalsOK /\ CommandsOK /\ RepliesOK /\ EventsOK
       /\ SupplicantType /\ FlagsOK)' => TypeInv'
  BY Parts, PTL
<1> QED
  BY <1>3, <1>4, <1>7, <1>8, <1>9

LEMMA ReplyFacts ==
  ASSUME NEW r \in Replies
  PROVE  /\ r.by \in Origins
         /\ r.op \in Sent
         /\ r.op = "ADD" => r.val \in Ids \cup {None}
         /\ r.op = "LIST" => r.val \in Lists
         /\ r.op = "RESULTS" => r.val \in SUBSET Ssids
<1>1. Air \subseteq SUBSET Ssids
  BY WifiAssumption
<1> QED
  BY <1>1 DEF Replies, Sent, Plain

LEMMA AddressedFacts ==
  ASSUME NEW s \in Steps, LocalsOK
  PROVE  /\ Addressed(s) \in Steps
         /\ Addressed(s).op = s.op /\ Addressed(s).ssid = s.ssid
         /\ s.op \in {"SSID", "KEY"} => Addressed(s).net = IF nid.word THEN nid.id ELSE None
BY DEF Steps, Addressed, LocalsOK

LEMMA HandleEventType == ASSUME TypeInv, HandleEvent PROVE TypeInv'
<1> USE DEF Threads
<1>1. PanelType /\ TodoOK /\ LocalsOK /\ CommandsOK /\ RepliesOK /\ EventsOK
      /\ SupplicantType /\ FlagsOK
  BY Parts
<1>2. UNCHANGED <<panel, waiting, nid, answer, heard, cmds, replies, supplicant,
                  faults, untold, undrawn, counts>>
  BY DEF HandleEvent
<1>3. LocalsOK' /\ CommandsOK' /\ RepliesOK' /\ FlagsOK' /\ PanelType' /\ SupplicantType'
  BY <1>1, <1>2 DEF LocalsOK, CommandsOK, RepliesOK, FlagsOK, PanelType, SupplicantType,
                    Known, panel, supplicant
<1>4. EventsOK'
  BY <1>1, TailFacts DEF HandleEvent, EventsOK
<1>5. TodoOK'
  <2>1. ~waiting'["ev"]
    BY <1>1, <1>2 DEF TodoOK, HandleEvent, Idle
  <2>2. PICK q : Plan("ev", q) /\ todo' = [todo EXCEPT !["ev"] = q]
    BY ResultsPlan, ConnectedPlan DEF HandleEvent
  <2> QED
    BY <1>1, <1>2, <2>1, <2>2, Replans
<1>6. (PanelType /\ TodoOK /\ LocalsOK /\ CommandsOK /\ RepliesOK /\ EventsOK
       /\ SupplicantType /\ FlagsOK)' => TypeInv'
  BY Parts, PTL
<1> QED
  BY <1>3, <1>4, <1>5, <1>6

(* The step a thread is at.                                                  *)
LEMMA HeadFacts ==
  ASSUME TodoOK, NEW t \in Threads, todo[t] /= <<>>
  PROVE  /\ Head(todo[t]) \in Steps /\ Head(todo[t]) = todo[t][1] /\ 1 \in DOMAIN todo[t]
         /\ Head(todo[t]).op = "SSID" => Head(todo[t]).ssid /= Open
         /\ t = "ev" => Head(todo[t]).op \in Asking \cup Local
         /\ Plan(t, Tail(todo[t]))
         /\ Head(todo[t]).op \in {"LIST"} \cup Reading =>
              \A op \in Reading : Plan(t, Reaches(t, op))
<1>1. Plan(t, todo[t]) /\ todo[t] \in Seq(Steps)
  BY DEF TodoOK, Plan
<1>2. Head(todo[t]) \in Steps /\ Head(todo[t]) = todo[t][1] /\ 1 \in DOMAIN todo[t]
  BY <1>1, TailFacts
<1>3. Head(todo[t]).op \in {"LIST"} \cup Reading =>
        \A op \in Reading : Plan(t, Reaches(t, op))
  BY <1>1, PlanReaches DEF Reaches
<1>4. Plan(t, Tail(todo[t]))
  BY <1>1, PlanTail
<1> QED
  BY <1>1, <1>2, <1>3, <1>4 DEF Plan

LEMMA SendType == ASSUME TypeInv, NEW t \in Threads, Send(t) PROVE TypeInv'
<1>1. PanelType /\ TodoOK /\ LocalsOK /\ CommandsOK /\ RepliesOK /\ EventsOK
      /\ SupplicantType /\ FlagsOK
  BY Parts
<1> DEFINE s == Head(todo[t])
           c == [by |-> t, step |-> Addressed(s)]
<1>2. /\ todo[t] /= <<>> /\ s.op \notin Local /\ cmds' = Append(cmds, c)
      /\ list_networks' = (IF s.op = "LIST" THEN NoList.saved ELSE list_networks)
      /\ waiting' = [waiting EXCEPT ![t] = TRUE]
      /\ UNCHANGED <<networks, selected, selected_network, cur_network, prompt, card,
                     todo, nid, answer, heard, replies, events, supplicant, untold, undrawn>>
  BY DEF Send, Idle
<1>3. s \in Steps /\ s.op \in Sent
      /\ (s.op = "SSID" => s.ssid /= Open) /\ (t = "ev" => s.op \in Asking)
  BY <1>1, <1>2, HeadFacts DEF Steps, Sent, Local, Plain
<1>4. LocalsOK' /\ RepliesOK' /\ FlagsOK' /\ SupplicantType' /\ EventsOK'
  BY <1>1, <1>2 DEF LocalsOK, RepliesOK, FlagsOK, SupplicantType, EventsOK, Known, supplicant
<1>5. PanelType'
  <2>1. list_networks' \in [Ssids -> Ids \cup {None}]
    BY <1>1, <1>2 DEF NoList, PanelType
  <2> QED
    BY <1>1, <1>2, <2>1 DEF PanelType
<1>6. TodoOK'
  BY <1>1, <1>2, <1>3 DEF TodoOK
<1>7. CommandsOK'
  <2>1. Addressed(s) \in Steps /\ Addressed(s).op = s.op /\ Addressed(s).ssid = s.ssid
    BY <1>1, <1>3, AddressedFacts
  <2>2. c \in Commands /\ c.by = t /\ c.step.op = s.op /\ c.step.ssid = s.ssid
    BY <1>3, <2>1 DEF Commands, Origins
  <2> HIDE DEF c
  <2>3. cmds \in Seq(Commands)
    BY <1>1 DEF CommandsOK
  <2>4. /\ cmds' \in Seq(Commands)
        /\ \A i \in DOMAIN cmds : cmds'[i] = cmds[i]
        /\ cmds'[Len(cmds) + 1] = c
        /\ \A i \in DOMAIN cmds' : i \in DOMAIN cmds \/ i = Len(cmds) + 1
    BY <1>2, <2>2, <2>3, AppendFacts
  <2> QED
    BY <1>1, <1>3, <2>2, <2>4 DEF CommandsOK
<1>8. (PanelType /\ TodoOK /\ LocalsOK /\ CommandsOK /\ RepliesOK /\ EventsOK
       /\ SupplicantType /\ FlagsOK)' => TypeInv'
  BY Parts, PTL
<1> QED
  BY <1>4, <1>5, <1>6, <1>7, <1>8

LEMMA TakeType == ASSUME TypeInv, NEW t \in Threads, Take(t) PROVE TypeInv'
<1>1. PanelType /\ TodoOK /\ LocalsOK /\ CommandsOK /\ RepliesOK /\ EventsOK
      /\ SupplicantType /\ FlagsOK
  BY Parts
<1> DEFINE r == Head(replies)
           op == Head(todo[t]).op
<1>2. /\ waiting[t] /\ replies /= <<>> /\ replies' = Tail(replies)
      /\ UNCHANGED <<panel, cmds, events, supplicant, untold, undrawn, counts>>
      /\ Advance(t, IF op = "LIST" THEN Reaches(t, "clear") ELSE Tail(todo[t]))
  BY DEF Take
<1>3. todo[t] /= <<>>
  BY <1>1, <1>2 DEF TodoOK
<1>4. r \in Replies /\ RepliesOK'
  BY <1>1, <1>2, TailFacts DEF RepliesOK
<1>5. /\ r.op = "ADD" => r.val \in Ids \cup {None}
      /\ r.op = "LIST" => r.val \in Lists
      /\ r.op = "RESULTS" => r.val \in SUBSET Ssids
  BY <1>4, ReplyFacts
<1>6. PanelType' /\ CommandsOK' /\ EventsOK' /\ SupplicantType' /\ FlagsOK'
  BY <1>1, <1>2 DEF PanelType, CommandsOK, EventsOK, SupplicantType, FlagsOK, Known, panel,
                    supplicant
<1>7. LocalsOK'
  <2>1. /\ nid' = (IF op /= "ADD" THEN nid
                   ELSE IF r.op = "ADD" /\ r.val /= None THEN [id |-> r.val, word |-> TRUE]
                   ELSE [id |-> 0, word |-> r.op \notin {"LIST", "RESULTS"}])
        /\ heard' = (IF op /= "RESULTS" THEN heard ELSE IF r.op = "RESULTS" THEN r.val ELSE {})
        /\ answer' = (IF op /= "LIST" THEN answer
                      ELSE [answer EXCEPT ![t] = IF r.op = "LIST" THEN r.val ELSE NoList])
    BY DEF Take
  <2>2. 0 \in Ids
    BY WifiAssumption DEF Ids
  <2>3. NoList \in Lists
    BY DEF NoList, Lists
  <2> HIDE DEF r, op
  <2>4. nid' \in [id: Ids, word: BOOLEAN]
    BY <1>1, <1>5, <2>1, <2>2 DEF LocalsOK
  <2>5. heard' \subseteq Ssids
    BY <1>1, <1>5, <2>1 DEF LocalsOK
  <2>6. answer' \in [Threads -> Lists]
    BY <1>1, <1>5, <2>1, <2>3 DEF LocalsOK
  <2> QED
    BY <2>4, <2>5, <2>6 DEF LocalsOK
<1>8. TodoOK'
  <2>1. PICK q : Plan(t, q) /\ todo' = [todo EXCEPT ![t] = q]
    BY <1>1, <1>2, <1>3, HeadFacts DEF Advance
  <2>2. waiting' = [waiting EXCEPT ![t] = FALSE] /\ ~waiting'[t]
    BY <1>1, <1>2 DEF Advance, TodoOK
  <2> QED
    BY <1>1, <2>1, <2>2, Replans
<1>9. (PanelType /\ TodoOK /\ LocalsOK /\ CommandsOK /\ RepliesOK /\ EventsOK
       /\ SupplicantType /\ FlagsOK)' => TypeInv'
  BY Parts, PTL
<1> QED
  BY <1>4, <1>6, <1>7, <1>8, <1>9

(* A command that is given up changes hands and nothing else.                *)
LEMMA AbandonedFacts ==
  ASSUME CommandsOK, NEW t \in Threads
  PROVE  /\ Abandoned(t) \in Seq(Commands) /\ DOMAIN Abandoned(t) = DOMAIN cmds
         /\ Len(Abandoned(t)) = Len(cmds)
         /\ \A i \in DOMAIN cmds :
              /\ Abandoned(t)[i].step = cmds[i].step
              /\ Abandoned(t)[i].by = IF cmds[i].by = t THEN "nobody" ELSE cmds[i].by
<1>1. cmds \in Seq(Commands)
  BY DEF CommandsOK
<1>2. /\ DOMAIN Abandoned(t) = DOMAIN cmds
      /\ \A i \in DOMAIN cmds :
           Abandoned(t)[i] = IF cmds[i].by = t THEN [cmds[i] EXCEPT !.by = "nobody"] ELSE cmds[i]
  BY DEF Abandoned
<1>3. ASSUME NEW i \in DOMAIN cmds
      PROVE  /\ Abandoned(t)[i] \in Commands
             /\ Abandoned(t)[i].step = cmds[i].step
             /\ Abandoned(t)[i].by = IF cmds[i].by = t THEN "nobody" ELSE cmds[i].by
  <2>1. cmds[i] \in Commands
    BY <1>1
  <2> QED
    BY <1>2, <2>1 DEF Commands, Origins
<1>4. Abandoned(t) \in Seq(Commands) /\ Len(Abandoned(t)) = Len(cmds)
  <2>1. DOMAIN cmds = 1..Len(cmds) /\ Len(cmds) \in Nat
    BY <1>1
  <2>2. Abandoned(t) \in [1..Len(cmds) -> Commands]
    <3>1. Abandoned(t) = [i \in 1..Len(cmds) |-> Abandoned(t)[i]]
      BY <2>1 DEF Abandoned
    <3> QED
      BY <1>3, <2>1, <3>1
  <2> QED
    BY <2>1, <2>2
<1> QED
  BY <1>2, <1>3, <1>4

LEMMA FailType == ASSUME TypeInv, NEW t \in Threads, Fail(t) PROVE TypeInv'
<1>1. PanelType /\ TodoOK /\ LocalsOK /\ CommandsOK /\ RepliesOK /\ EventsOK
      /\ SupplicantType /\ FlagsOK
  BY Parts
<1> DEFINE op == Head(todo[t]).op
<1>2. /\ waiting[t] /\ cmds' = Abandoned(t)
      /\ UNCHANGED <<panel, nid, replies, events, supplicant, untold, undrawn, touches, happened>>
      /\ Advance(t, CASE op = "ADD" -> <<>>
                      [] op = "LIST" -> Reaches(t, "clear")
                      [] OTHER -> Tail(todo[t]))
      /\ heard' = (IF op = "RESULTS" THEN {} ELSE heard)
      /\ answer' = (IF op = "LIST" THEN [answer EXCEPT ![t] = NoList] ELSE answer)
  BY DEF Fail
<1>3. todo[t] /= <<>>
  BY <1>1, <1>2 DEF TodoOK
<1>4. PanelType' /\ RepliesOK' /\ EventsOK' /\ SupplicantType' /\ FlagsOK'
  BY <1>1, <1>2 DEF PanelType, RepliesOK, EventsOK, SupplicantType, FlagsOK, Known, panel,
                    supplicant
<1>5. CommandsOK'
  <2>1. /\ cmds' \in Seq(Commands) /\ DOMAIN cmds' = DOMAIN cmds
        /\ \A i \in DOMAIN cmds : /\ cmds'[i].step = cmds[i].step
                                  /\ cmds'[i].by = IF cmds[i].by = t THEN "nobody" ELSE cmds[i].by
    BY <1>1, <1>2, AbandonedFacts
  <2> QED
    BY <1>1, <2>1 DEF CommandsOK
<1>6. LocalsOK'
  <2>1. NoList \in Lists
    BY DEF NoList, Lists
  <2> HIDE DEF op
  <2> QED
    BY <1>1, <1>2, <2>1 DEF LocalsOK
<1>7. TodoOK'
  <2>1. PICK q : Plan(t, q) /\ todo' = [todo EXCEPT ![t] = q]
    <3>1. CASE op = "ADD"
      BY <1>2, <3>1, PlanOver DEF Advance
    <3>2. CASE op = "LIST"
      BY <1>1, <1>2, <1>3, <3>2, HeadFacts DEF Advance
    <3>3. CASE op \notin {"ADD", "LIST"}
      BY <1>1, <1>2, <1>3, <3>3, HeadFacts DEF Advance
    <3> QED
      BY <3>1, <3>2, <3>3
  <2>2. waiting' = [waiting EXCEPT ![t] = FALSE] /\ ~waiting'[t]
    BY <1>1, <1>2 DEF Advance, TodoOK
  <2> QED
    BY <1>1, <2>1, <2>2, Replans
<1>8. (PanelType /\ TodoOK /\ LocalsOK /\ CommandsOK /\ RepliesOK /\ EventsOK
       /\ SupplicantType /\ FlagsOK)' => TypeInv'
  BY Parts, PTL
<1> QED
  BY <1>4, <1>5, <1>6, <1>7, <1>8

LEMMA ParseType == ASSUME TypeInv, NEW t \in Threads, Parse(t) PROVE TypeInv'
<1>1. PanelType /\ TodoOK /\ LocalsOK /\ CommandsOK /\ RepliesOK /\ EventsOK
      /\ SupplicantType /\ FlagsOK
  BY Parts
<1>2. /\ todo[t] /= <<>>
      /\ cur_network' = (IF answer[t].cur /= None THEN answer[t].cur ELSE cur_network)
      /\ list_networks' = [s \in Ssids |-> IF answer[t].saved[s] /= None
                                           THEN answer[t].saved[s] ELSE list_networks[s]]
      /\ Advance(t, IF Skips(t) THEN <<>> ELSE Tail(todo[t]))
      /\ undrawn' = (undrawn \/ Skips(t))
      /\ UNCHANGED <<networks, selected, selected_network, prompt, card, nid, answer, heard,
                     sockets, supplicant, untold>>
  BY DEF Parse, Idle
<1>3. LocalsOK' /\ CommandsOK' /\ RepliesOK' /\ EventsOK' /\ SupplicantType'
  BY <1>1, <1>2 DEF LocalsOK, CommandsOK, RepliesOK, EventsOK, SupplicantType, Known, sockets,
                    supplicant
<1>4. FlagsOK'
  BY <1>1, <1>2 DEF FlagsOK, Skips
<1>5. PanelType'
  <2>1. answer[t].cur \in Ssids \cup {None} /\ answer[t].saved \in [Ssids -> Ids \cup {None}]
    BY <1>1 DEF LocalsOK, Lists
  <2>2. list_networks' \in [Ssids -> Ids \cup {None}]
    BY <1>1, <1>2, <2>1 DEF PanelType
  <2> QED
    BY <1>1, <1>2, <2>1, <2>2 DEF PanelType
<1>6. TodoOK'
  <2>1. PICK q : Plan(t, q) /\ todo' = [todo EXCEPT ![t] = q]
    BY <1>1, <1>2, HeadFacts, PlanOver DEF Advance
  <2>2. waiting' = [waiting EXCEPT ![t] = FALSE] /\ ~waiting'[t]
    BY <1>1, <1>2 DEF Advance, TodoOK
  <2> QED
    BY <1>1, <2>1, <2>2, Replans
<1>7. (PanelType /\ TodoOK /\ LocalsOK /\ CommandsOK /\ RepliesOK /\ EventsOK
       /\ SupplicantType /\ FlagsOK)' => TypeInv'
  BY Parts, PTL
<1> QED
  BY <1>3, <1>4, <1>5, <1>6, <1>7

LEMMA ClearType == ASSUME TypeInv, NEW t \in Threads, Clear(t) PROVE TypeInv'
<1>1. PanelType /\ TodoOK /\ LocalsOK /\ CommandsOK /\ RepliesOK /\ EventsOK
      /\ SupplicantType /\ FlagsOK
  BY Parts
<1>2. /\ todo[t] /= <<>> /\ Head(todo[t]).op = "clear"
      /\ cur_network' = None
      /\ Advance(t, Reaches(t, "parse"))
      /\ UNCHANGED <<networks, selected, selected_network, list_networks, prompt, card, nid,
                     answer, heard, sockets, supplicant, untold, undrawn>>
  BY DEF Clear, Idle
<1>3. LocalsOK' /\ CommandsOK' /\ RepliesOK' /\ EventsOK' /\ SupplicantType' /\ FlagsOK'
  BY <1>1, <1>2 DEF LocalsOK, CommandsOK, RepliesOK, EventsOK, SupplicantType, Known, FlagsOK,
                    sockets, supplicant
<1>4. PanelType'
  BY <1>1, <1>2 DEF PanelType
<1>5. TodoOK'
  <2>1. Plan(t, Reaches(t, "parse")) /\ todo' = [todo EXCEPT ![t] = Reaches(t, "parse")]
    BY <1>1, <1>2, HeadFacts DEF Advance
  <2>2. waiting' = [waiting EXCEPT ![t] = FALSE] /\ ~waiting'[t]
    BY <1>1, <1>2 DEF Advance, TodoOK
  <2> QED
    BY <1>1, <2>1, <2>2, Replans
<1>6. (PanelType /\ TodoOK /\ LocalsOK /\ CommandsOK /\ RepliesOK /\ EventsOK
       /\ SupplicantType /\ FlagsOK)' => TypeInv'
  BY Parts, PTL
<1> QED
  BY <1>3, <1>4, <1>5, <1>6

(* What a redraw leaves in the panel.                                        *)
LEMMA RedrawFacts ==
  ASSUME PanelType, NEW t, Redraw(t)
  PROVE  /\ networks' \in Seq(Ssids) /\ selected' \in 0..Len(networks')
         /\ card' = Status(networks', selected')
         /\ \A i \in DOMAIN networks' : networks'[i] = cur_network => i = 1
<1>1. PICK rows \in Seq(Ssids) : Rebuild(rows, selected)
  <2>1. CASE Head(todo[t]).op = "scanned"
    <3>1. Alpha \in Seq(Ssids)
      BY WifiAssumption DEF IsOrder
    <3> DEFINE rows == InOrder(Alpha, heard)
    <3>2. rows \in Seq(Ssids \cap heard)
      BY <3>1, InOrderFacts
    <3>3. Rebuild(rows, selected)
      BY <2>1 DEF Redraw
    <3> HIDE DEF rows
    <3>4. rows \in Seq(Ssids)
      BY <3>2
    <3> QED
      BY <3>3, <3>4
  <2>2. CASE Head(todo[t]).op /= "scanned"
    BY <2>2 DEF Redraw, PanelType
  <2> QED
    BY <2>1, <2>2
<1> QED
  BY <1>1, RebuildFacts

LEMMA RedrawType == ASSUME TypeInv, NEW t \in Threads, Redraw(t) PROVE TypeInv'
<1>1. PanelType /\ TodoOK /\ LocalsOK /\ CommandsOK /\ RepliesOK /\ EventsOK
      /\ SupplicantType /\ FlagsOK
  BY Parts
<1>2. /\ todo[t] /= <<>>
      /\ undrawn' = FALSE
      /\ Advance(t, Tail(todo[t]))
      /\ UNCHANGED <<selected_network, cur_network, list_networks, prompt, nid, answer,
                     heard, sockets, supplicant, untold>>
  BY DEF Redraw, Idle
<1>3. LocalsOK' /\ CommandsOK' /\ RepliesOK' /\ EventsOK' /\ SupplicantType' /\ FlagsOK'
  BY <1>1, <1>2 DEF LocalsOK, CommandsOK, RepliesOK, EventsOK, SupplicantType, Known, FlagsOK,
                    sockets, supplicant
<1>4. PanelType'
  BY <1>1, <1>2, RedrawFacts DEF PanelType
<1>5. TodoOK'
  <2>1. Plan(t, Tail(todo[t])) /\ todo' = [todo EXCEPT ![t] = Tail(todo[t])]
    BY <1>1, <1>2, HeadFacts DEF Advance
  <2>2. waiting' = [waiting EXCEPT ![t] = FALSE] /\ ~waiting'[t]
    BY <1>1, <1>2 DEF Advance, TodoOK
  <2> QED
    BY <1>1, <2>1, <2>2, Replans
<1>6. (PanelType /\ TodoOK /\ LocalsOK /\ CommandsOK /\ RepliesOK /\ EventsOK
       /\ SupplicantType /\ FlagsOK)' => TypeInv'
  BY Parts, PTL
<1> QED
  BY <1>3, <1>4, <1>5, <1>6

-----------------------------------------------------------------------------
(* wpa_supplicant. *)

LEMMA IdFacts ==
  /\ MaxId \in Nat /\ Known \in SUBSET (0..MaxId) /\ None \notin Ids
  /\ NewId \in Ids => NewId \notin Known
<1>1. MaxId \in Nat /\ Known \in SUBSET (0..MaxId) /\ None \notin Ids
  BY WifiAssumption DEF Known, Ids
<1>2. NewId \notin Known
  <2>1. CASE Known = {}
    BY <2>1
  <2>2. CASE Known /= {}
    <3>1. Max(Known) \in 0..MaxId /\ \A k \in Known : k <= Max(Known)
      BY <1>1, <2>2, Greatest
    <3>2. NewId = Max(Known) + 1
      BY <2>2 DEF NewId
    <3> QED
      BY <1>1, <3>1, <3>2
  <2> QED
    BY <2>1, <2>2
<1> QED
  BY <1>1, <1>2

LEMMA ListedType == ASSUME SupplicantType PROVE Listed \in Lists
<1>1. SsidOf(current) \in Ssids \cup {None}
  BY DEF SupplicantType, SsidOf, Known, Networks
<1>2. ASSUME NEW s \in Ssids
      PROVE  (LET ids == {i \in Known : nets[i].ssid = s}
              IN  IF ids = {} THEN None ELSE Max(ids)) \in Ids \cup {None}
  <2> DEFINE ids == {i \in Known : nets[i].ssid = s}
  <2>1. ids \in SUBSET (0..MaxId) /\ MaxId \in Nat
    BY IdFacts
  <2>2. ids /= {} => Max(ids) \in ids
    <3> HIDE DEF ids
    <3> QED
      BY <2>1, Greatest
  <2>3. ids \subseteq Ids
    BY <2>1 DEF Ids
  <2> QED
    BY <2>2, <2>3
<1> QED
  BY <1>1, <1>2 DEF Listed, Lists

(* The reply to the first command.                                           *)
LEMMA ReplyType ==
  ASSUME CommandsOK, RepliesOK, cmds /= <<>>, NEW val, Reply(val),
         \/ Command.op = "ADD" /\ val \in Ids \cup {None}
         \/ Command.op = "LIST" /\ val \in Lists
         \/ Command.op = "RESULTS" /\ val \in Air
         \/ Command.op \in Plain /\ val \in {"OK", "FAIL"}
  PROVE  CommandsOK' /\ RepliesOK'
<1>1. cmds \in Seq(Commands) /\ Head(cmds) \in Commands
  BY TailFacts DEF CommandsOK
<1>2. CommandsOK'
  BY <1>1, TailFacts DEF CommandsOK, Reply
<1> DEFINE r == [by |-> Head(cmds).by, op |-> Command.op, val |-> val]
<1>3. r \in Replies
  BY <1>1 DEF Commands, Replies, Command
<1>4. replies' = Append(replies, r)
  BY DEF Reply, Command
<1> HIDE DEF r
<1>5. RepliesOK'
  BY <1>3, <1>4, AppendFacts DEF RepliesOK
<1> QED
  BY <1>2, <1>5

LEMMA CommandFacts ==
  ASSUME CommandsOK, cmds /= <<>>
  PROVE  /\ Command \in Steps /\ Command.op \in Sent
         /\ Command.op = "SSID" => Command.ssid /= Open
         /\ Command.ssid \in Ssids \cup {None, Open} /\ Command.net \in Ids \cup {None}
         /\ 1 \in DOMAIN cmds /\ cmds[1].step = Command /\ cmds[1] = Head(cmds)
<1>1. cmds \in Seq(Commands) /\ Head(cmds) \in Commands /\ Head(cmds) = cmds[1] /\ 1 \in DOMAIN cmds
  BY TailFacts DEF CommandsOK
<1> QED
  BY <1>1 DEF CommandsOK, Commands, Command, Steps

LEMMA ServeParts ==
  ASSUME TypeInv, Serve
  PROVE  CommandsOK' /\ RepliesOK' /\ SupplicantType' /\ FlagsOK'
<1>1. PanelType /\ TodoOK /\ LocalsOK /\ CommandsOK /\ RepliesOK /\ EventsOK
      /\ SupplicantType /\ FlagsOK
  BY Parts
<1>2. cmds /= <<>> /\ UNCHANGED <<panel, threads, events, dead, faults, undrawn, counts>>
  BY DEF Serve
<1>3. undrawn' \in BOOLEAN /\ dead' \in BOOLEAN
  BY <1>1, <1>2 DEF FlagsOK, SupplicantType
<1>4. /\ Command.op \in Sent /\ (Command.op = "SSID" => Command.ssid /= Open)
      /\ Command.ssid \in Ssids \cup {None, Open} /\ Command.net \in Ids \cup {None}
  BY <1>1, <1>2, CommandFacts
<1>5. None \notin Ids /\ Known \subseteq Ids /\ Open \notin Ssids \cup {None}
  BY IdFacts, WifiAssumption DEF Ids
<1>6. \A s \in Ssids \cup {None}, k \in Ssids \cup {None, Open} : [ssid |-> s, key |-> k] /= None
  BY WifiAssumption
<1>7. /\ nets \in [Ids -> Networks \cup {None}]
      /\ enabled \subseteq Known /\ current \in enabled \cup {None}
      /\ untold \in BOOLEAN
  BY <1>1 DEF SupplicantType, FlagsOK
<1>8. \A i \in Known : /\ nets[i] \in Networks /\ nets[i].ssid \in Ssids \cup {None}
                       /\ nets[i].key \in Ssids \cup {None, Open}
  BY <1>7 DEF Known, Networks
<1>9. CASE AddNetwork
  <2>1. CASE NewId \in Ids /\ nets' = [nets EXCEPT ![NewId] = [ssid |-> None, key |-> None]]
             /\ Reply(NewId)
    <3>1. CommandsOK' /\ RepliesOK'
      BY <1>1, <1>2, <1>9, <2>1, ReplyType DEF AddNetwork
    <3>2. nets' \in [Ids -> Networks \cup {None}]
      BY <1>7, <2>1 DEF Networks
    <3>3. \A i \in Known : i \in Known'
      BY <1>7, <2>1, IdFacts DEF Known
    <3>4. SupplicantType' /\ FlagsOK'
      BY <1>3, <1>7, <1>9, <3>2, <3>3 DEF SupplicantType, FlagsOK, AddNetwork
    <3> QED
      BY <3>1, <3>4
  <2>2. CASE Reply(None) /\ UNCHANGED nets
    <3>1. CommandsOK' /\ RepliesOK'
      BY <1>1, <1>2, <1>9, <2>2, ReplyType DEF AddNetwork
    <3>2. SupplicantType' /\ FlagsOK'
      BY <1>3, <1>7, <1>9, <2>2 DEF SupplicantType, FlagsOK, AddNetwork, Known
    <3> QED
      BY <3>1, <3>2
  <2> QED
    BY <1>9, <2>1, <2>2 DEF AddNetwork
<1>10. CASE SetSsid \/ SetKey
  <2>1. /\ Command.net \in Known /\ Reply("OK") /\ UNCHANGED <<enabled, current, untold>>
        /\ Command.op \in {"SSID", "KEY"}
    BY <1>10 DEF SetSsid, SetKey, Names
  <2>2. CommandsOK' /\ RepliesOK'
    BY <1>1, <1>2, <2>1, ReplyType DEF Plain
  <2>3. PICK n \in Networks : nets' = [nets EXCEPT ![Command.net] = n]
    <3>1. CASE SetSsid
      <4> DEFINE n == [nets[Command.net] EXCEPT !.ssid = Command.ssid]
      <4>1. n \in Networks
        BY <1>4, <1>8, <2>1, <3>1 DEF SetSsid, Names, Networks
      <4>2. nets' = [nets EXCEPT ![Command.net] = n]
        BY <3>1 DEF SetSsid
      <4> QED
        BY <4>1, <4>2
    <3>2. CASE SetKey
      <4>1. CASE nets' = nets
        BY <1>5, <1>7, <1>8, <2>1, <4>1
      <4>2. CASE nets' = [nets EXCEPT ![Command.net].key = Command.ssid]
        <5> DEFINE n == [nets[Command.net] EXCEPT !.key = Command.ssid]
        <5>1. n \in Networks
          BY <1>4, <1>8, <2>1 DEF Networks
        <5>2. nets' = [nets EXCEPT ![Command.net] = n]
          BY <4>2
        <5> QED
          BY <5>1, <5>2
      <4> QED
        BY <3>2, <4>1, <4>2 DEF SetKey
    <3> QED
      BY <1>10, <3>1, <3>2
  <2>4. n /= None
    BY <1>6 DEF Networks
  <2>5. nets' \in [Ids -> Networks \cup {None}]
    BY <1>7, <2>3
  <2>6. \A i \in Known : i \in Known'
    BY <1>5, <1>7, <2>1, <2>3, <2>4 DEF Known
  <2>7. SupplicantType' /\ FlagsOK'
    BY <1>3, <1>7, <2>1, <2>5, <2>6 DEF SupplicantType, FlagsOK
  <2> QED
    BY <2>2, <2>7
<1>11. CASE SelectNetwork
  <2>1. CommandsOK' /\ RepliesOK'
    BY <1>1, <1>2, <1>11, ReplyType DEF SelectNetwork, Names, Plain
  <2>2. SupplicantType' /\ FlagsOK'
    BY <1>3, <1>5, <1>7, <1>11 DEF SupplicantType, FlagsOK, SelectNetwork, Names, Known
  <2> QED
    BY <2>1, <2>2
<1>12. CASE RemoveNetwork
  <2>1. CommandsOK' /\ RepliesOK'
    BY <1>1, <1>2, <1>12, ReplyType DEF RemoveNetwork, Names, Plain
  <2>2. nets' \in [Ids -> Networks \cup {None}]
    BY <1>7, <1>12 DEF RemoveNetwork
  <2>3. \A i \in Known : i /= Command.net => i \in Known'
    BY <1>5, <1>7, <1>12 DEF Known, RemoveNetwork
  <2>4. SupplicantType' /\ FlagsOK'
    BY <1>3, <1>7, <1>12, <2>2, <2>3 DEF SupplicantType, FlagsOK, RemoveNetwork
  <2> QED
    BY <2>1, <2>4
<1>13. CASE NoSuchNetwork
  <2>1. CommandsOK' /\ RepliesOK'
    BY <1>1, <1>2, <1>13, ReplyType DEF NoSuchNetwork, Plain
  <2>2. SupplicantType' /\ FlagsOK'
    BY <1>3, <1>7, <1>13 DEF SupplicantType, FlagsOK, NoSuchNetwork, Known
  <2> QED
    BY <2>1, <2>2
<1>14. CASE Query
  <2>1. CommandsOK' /\ RepliesOK'
    BY <1>1, <1>2, <1>14, ReplyType, ListedType DEF Query, Plain
  <2>2. SupplicantType' /\ FlagsOK'
    BY <1>3, <1>7, <1>14 DEF SupplicantType, FlagsOK, Query, Known
  <2> QED
    BY <2>1, <2>2
<1> QED
  BY <1>9, <1>10, <1>11, <1>12, <1>13, <1>14 DEF Serve

LEMMA ServeType == ASSUME TypeInv, Serve PROVE TypeInv'
<1>1. PanelType /\ TodoOK /\ LocalsOK /\ EventsOK
  BY Parts
<1>2. UNCHANGED <<panel, threads, events>>
  BY DEF Serve
<1>3. PanelType' /\ TodoOK' /\ LocalsOK' /\ EventsOK'
  BY <1>1, <1>2 DEF PanelType, TodoOK, LocalsOK, EventsOK, panel, threads
<1>4. CommandsOK' /\ RepliesOK' /\ SupplicantType' /\ FlagsOK'
  BY ServeParts
<1>5. (PanelType /\ TodoOK /\ LocalsOK /\ CommandsOK /\ RepliesOK /\ EventsOK
       /\ SupplicantType /\ FlagsOK)' => TypeInv'
  BY Parts, PTL
<1> QED
  BY <1>3, <1>4, <1>5

(* An event of wpa_supplicant, the loss of the connection, its end.          *)
LEMMA OtherType == ASSUME TypeInv, ScanDone \/ Joined \/ Join \/ Leave \/ Die PROVE TypeInv'
<1>1. PanelType /\ TodoOK /\ LocalsOK /\ CommandsOK /\ RepliesOK /\ EventsOK
      /\ SupplicantType /\ FlagsOK
  BY Parts
<1>2. UNCHANGED <<panel, threads, cmds, replies, nets, enabled, undrawn>>
  <2>1. CASE ScanDone \/ Joined
    BY <2>1 DEF ScanDone, Joined, Emit, supplicant
  <2>2. CASE Join \/ Leave \/ Die
    BY <2>2 DEF Join, Leave, Moves, Die, sockets
  <2> QED
    BY <2>1, <2>2
<1>3. PanelType' /\ TodoOK' /\ LocalsOK' /\ CommandsOK' /\ RepliesOK'
  BY <1>1, <1>2 DEF PanelType, TodoOK, LocalsOK, CommandsOK, RepliesOK, panel, threads
<1>4. FlagsOK'
  <2>1. untold' \in BOOLEAN
    BY DEF ScanDone, Joined, Join, Leave, Moves, Die, Emit
  <2> QED
    BY <1>1, <1>2, <2>1 DEF FlagsOK
<1>5. EventsOK'
  <2>1. CASE ScanDone \/ Joined
    <3>1. PICK e \in {"SCAN-RESULTS", "CONNECTED"} : events' = Append(events, e)
      BY <2>1 DEF ScanDone, Joined, Emit
    <3> QED
      BY <1>1, <3>1, AppendFacts DEF EventsOK
  <2>2. CASE Join \/ Leave \/ Die
    BY <1>1, <2>2 DEF EventsOK, Join, Leave, Moves, Die, sockets
  <2> QED
    BY <2>1, <2>2
<1>6. SupplicantType'
  <2>1. current' \in enabled \cup {None} /\ dead' \in BOOLEAN
    <3>1. CASE ScanDone \/ Joined \/ Die
      BY <1>1, <3>1 DEF SupplicantType, ScanDone, Joined, Die, Emit, supplicant
    <3>2. CASE Join
      BY <1>1, <3>2 DEF SupplicantType, Join, Moves
    <3>3. CASE Leave
      BY <1>1, <3>3 DEF SupplicantType, Leave, Moves
    <3> QED
      BY <3>1, <3>2, <3>3
  <2> QED
    BY <1>1, <1>2, <2>1 DEF SupplicantType, Known
<1>7. (PanelType /\ TodoOK /\ LocalsOK /\ CommandsOK /\ RepliesOK /\ EventsOK
       /\ SupplicantType /\ FlagsOK)' => TypeInv'
  BY Parts, PTL
<1> QED
  BY <1>3, <1>4, <1>5, <1>6, <1>7

LEMMA TypeStep == TypeInv /\ [Next]_vars => TypeInv'
<1> SUFFICES ASSUME TypeInv, [Next]_vars PROVE TypeInv'
  OBVIOUS
<1>1. CASE Touches
  BY <1>1, TouchType
<1>2. ASSUME NEW t \in Threads, Answered(t) \/ Inside(t) PROVE TypeInv'
  BY <1>2, TakeType, FailType, SendType, ClearType, ParseType, RedrawType DEF Answered, Inside
<1>3. CASE HandleEvent
  BY <1>3, HandleEventType
<1>4. CASE Serve
  BY <1>4, ServeType
<1>5. CASE ScanDone \/ Joined \/ Join \/ Leave \/ Die
  BY <1>5, OtherType
<1>6. CASE UNCHANGED vars
  BY <1>6 DEF vars, panel, threads, sockets, supplicant, TypeInv, TypeOK, PanelType, ThreadType,
              SocketType, SupplicantType, Known, PlanInv
<1> QED
  BY <1>1, <1>2, <1>3, <1>4, <1>5, <1>6 DEF Next, Touches

(* Every variable keeps its type, and a thread waits for an answer only at a *)
(* command it has sent.                                                      *)
THEOREM TypeCorrect == Spec => []TypeOK
<1>1. TypeInv => TypeOK
  BY DEF TypeInv
<1> QED
  BY <1>1, InitType, TypeStep, PTL DEF Spec

-----------------------------------------------------------------------------
(* What is drawn. *)

(* The steps of a thread, after one of them was done.                        *)
LEMMA StillDraws ==
  ASSUME NEW q \in Seq(Steps), NEW i \in DOMAIN q, q[i].op \in Draws, i /= 1
  PROVE  \E j \in DOMAIN Tail(q) : Tail(q)[j].op \in Draws
<1>1. q /= <<>> /\ i > 1
  OBVIOUS
<1>2. i - 1 \in DOMAIN Tail(q) /\ Tail(q)[i - 1] = q[i]
  BY <1>1, TailFacts
<1> QED
  BY <1>2

LEMMA DrawnSame ==
  ASSUME UNCHANGED <<networks, selected, cur_network, list_networks, card>>, Drawn
  PROVE  Drawn'
BY DEF Drawn, Status, Shown

(* An answer or a time-out leaves the redraw of the handler to be done.      *)
LEMMA AnsweredDraws ==
  ASSUME TypeInv, NEW t \in Threads, Answered(t), NEW u \in Threads, Drawing(u)
  PROVE  Drawing(u)'
<1>1. TodoOK
  BY Parts
<1>2. waiting[t] /\ todo[t] /= <<>> /\ Head(todo[t]).op \in Sent
  BY <1>1 DEF Answered, Take, Fail, TodoOK
<1>3. PICK q : /\ todo' = [todo EXCEPT ![t] = q]
               /\ q \in {Tail(todo[t]), Reaches(t, "clear")} \/ (Head(todo[t]).op = "ADD" /\ q = <<>>)
  BY DEF Answered, Take, Fail, Advance
<1>4. todo \in [Threads -> Seq(Steps)] /\ Plan(t, todo[t])
  BY <1>1 DEF TodoOK
<1>5. CASE u /= t
  <2>1. todo'[u] = todo[u]
    BY <1>3, <1>4, <1>5
  <2> QED
    BY <2>1 DEF Drawing
<1>6. CASE u = t
  <2>1. PICK i \in DOMAIN todo[t] : todo[t][i].op \in Draws
    BY <1>6 DEF Drawing
  <2>2. todo'[t] = q /\ todo[t] \in Seq(Steps)
    BY <1>3, <1>4
  <2>3. todo[t][1] = Head(todo[t]) /\ 1 \in DOMAIN todo[t]
    BY <1>2, <2>2, TailFacts
  <2>4. i /= 1
    BY <1>2, <2>1, <2>3 DEF Sent, Plain, Draws
  <2>5. Head(todo[t]).op /= "ADD"
    BY <1>4, <2>1, <2>3 DEF Plan, Planned
  <2>6. \E j \in DOMAIN q : q[j].op \in Draws
    <3>1. CASE q = Tail(todo[t])
      BY <2>1, <2>2, <2>4, <3>1, StillDraws
    <3>2. CASE q = Reaches(t, "clear")
      <4>1. DOMAIN q = DOMAIN todo[t] /\ q[i] = todo[t][i]
        BY <2>1, <2>4, <3>2 DEF Reaches
      <4> QED
        BY <2>1, <4>1
    <3> QED
      BY <1>3, <2>5, <3>1, <3>2
  <2> QED
    BY <1>6, <2>2, <2>6 DEF Drawing
<1> QED
  BY <1>5, <1>6

LEMMA DrawStep == TypeInv /\ DrawInv /\ [Next]_vars => DrawInv'
<1> SUFFICES ASSUME TypeInv, DrawInv, [Next]_vars PROVE DrawInv'
  OBVIOUS
<1>1. PanelType /\ TodoOK
  BY Parts
<1>2. todo \in [Threads -> Seq(Steps)] /\ \A t \in Threads : Plan(t, todo[t])
  BY <1>1 DEF TodoOK
<1>3. CASE Touches
  <2>1. todo["ui"] = <<>> /\ UNCHANGED <<networks, cur_network, list_networks, undrawn>>
    BY <1>3, TouchLeaves
  <2>2. ASSUME NEW t \in Threads, Drawing(t) PROVE Drawing(t)'
    <3>1. t /= "ui"
      BY <2>1, <2>2 DEF Drawing
    <3>2. todo'[t] = todo[t]
      BY <1>2, <1>3, <3>1 DEF Touches, HandleRow, Scan, PressConnect, PressForget, EnterPassword,
                              Close, Runs, ConnectTo
    <3> QED
      BY <2>2, <3>2 DEF Drawing
  <2>3. ASSUME Drawn PROVE Drawn'
    <3>1. ASSUME NEW i \in DOMAIN networks, HandleRow(i) PROVE Drawn'
      BY <2>1, <2>3, <3>1 DEF HandleRow, Drawn, Status, Shown
    <3>2. CASE Scan \/ PressConnect \/ PressForget \/ EnterPassword \/ Close
      <4>1. UNCHANGED <<selected, card>>
        BY <3>2 DEF Scan, PressConnect, PressForget, EnterPassword, Close
      <4> QED
        BY <2>1, <2>3, <4>1, DrawnSame
    <3> QED
      BY <1>3, <3>1, <3>2 DEF Touches
  <2> QED
    BY <2>1, <2>2, <2>3 DEF DrawInv
<1>4. ASSUME NEW t \in Threads, Answered(t) PROVE DrawInv'
  <2>1. UNCHANGED <<panel, undrawn>>
    BY <1>4 DEF Answered, Take, Fail
  <2>2. Drawn => Drawn'
    BY <2>1, DrawnSame DEF panel
  <2> QED
    BY <1>4, <2>1, <2>2, AnsweredDraws DEF DrawInv
<1>5. ASSUME NEW t \in Threads, Send(t) PROVE DrawInv'
  <2>1. UNCHANGED <<networks, selected, cur_network, card, todo, undrawn>> /\ todo[t] /= <<>>
    BY <1>5 DEF Send, Idle
  <2>2. CASE Head(todo[t]).op = "LIST"
    <3>1. Plan(t, todo[t]) /\ todo[t][1] = Head(todo[t]) /\ 1 \in DOMAIN todo[t]
      BY <1>1, <2>1, HeadFacts DEF TodoOK
    <3>2. Drawing(t)'
      BY <2>1, <2>2, <3>1 DEF Plan, Planned, Drawing
    <3> QED
      BY <3>2 DEF DrawInv
  <2>3. CASE Head(todo[t]).op /= "LIST"
    <3>1. UNCHANGED list_networks
      BY <1>5, <2>3 DEF Send
    <3>2. Drawn => Drawn'
      BY <2>1, <3>1, DrawnSame
    <3> QED
      BY <2>1, <3>2 DEF DrawInv, Drawing
  <2> QED
    BY <2>2, <2>3
<1>6. ASSUME NEW t \in Threads, Parse(t) PROVE DrawInv'
  <2>1. /\ todo[t] /= <<>> /\ Head(todo[t]).op = "parse"
        /\ undrawn' = (undrawn \/ Skips(t))
        /\ Advance(t, IF Skips(t) THEN <<>> ELSE Tail(todo[t]))
    BY <1>6 DEF Parse, Idle
  <2>2. CASE Skips(t)
    BY <2>1, <2>2 DEF DrawInv
  <2>3. CASE ~Skips(t)
    <3>1. Plan(t, todo[t]) /\ todo[t][1] = Head(todo[t]) /\ 1 \in DOMAIN todo[t]
      BY <1>1, <2>1, HeadFacts DEF TodoOK
    <3>2. 1 + 1 \in DOMAIN todo[t] /\ todo[t][1 + 1].op \in Draws
      BY <2>1, <3>1 DEF Plan, Planned
    <3>3. todo'[t] = Tail(todo[t])
      BY <1>2, <2>1, <2>3 DEF Advance
    <3>4. Drawing(t)'
      BY <1>2, <3>2, <3>3, StillDraws DEF Drawing
    <3> QED
      BY <3>4 DEF DrawInv
  <2> QED
    BY <2>2, <2>3
<1>10. ASSUME NEW t \in Threads, Clear(t) PROVE DrawInv'
  <2>1. todo[t] /= <<>> /\ Head(todo[t]).op = "clear" /\ Advance(t, Reaches(t, "parse"))
    BY <1>10 DEF Clear, Idle
  <2>2. Plan(t, todo[t]) /\ todo[t][1] = Head(todo[t]) /\ 1 \in DOMAIN todo[t]
    BY <1>1, <2>1, HeadFacts DEF TodoOK
  <2>3. 1 + 1 \in DOMAIN todo[t] /\ todo[t][1 + 1].op \in Draws
    BY <2>1, <2>2 DEF Plan, Planned
  <2>4. /\ todo'[t] = Reaches(t, "parse") /\ DOMAIN Reaches(t, "parse") = DOMAIN todo[t]
        /\ Reaches(t, "parse")[1 + 1] = todo[t][1 + 1]
    BY <1>2, <2>1, <2>3 DEF Advance, Reaches
  <2>5. Drawing(t)'
    BY <2>3, <2>4 DEF Drawing
  <2> QED
    BY <2>5 DEF DrawInv
<1>7. ASSUME NEW t \in Threads, Redraw(t) PROVE DrawInv'
  <2>1. UNCHANGED <<cur_network, list_networks>>
    BY <1>7 DEF Redraw
  <2>2. /\ card' = Status(networks', selected')
        /\ \A i \in DOMAIN networks' : networks'[i] = cur_network => i = 1
    BY <1>1, <1>7, RedrawFacts
  <2>3. Drawn'
    BY <2>1, <2>2 DEF Drawn, Status, Shown
  <2> QED
    BY <2>3 DEF DrawInv
<1>8. CASE HandleEvent
  <2>1. UNCHANGED <<panel, undrawn>> /\ todo["ev"] = <<>>
    BY <1>8 DEF HandleEvent, Idle
  <2>2. Drawn => Drawn'
    BY <2>1, DrawnSame DEF panel
  <2>3. ASSUME NEW t \in Threads, Drawing(t) PROVE Drawing(t)'
    <3>1. t /= "ev"
      BY <2>1, <2>3 DEF Drawing
    <3>2. todo'[t] = todo[t]
      BY <1>2, <1>8, <3>1 DEF HandleEvent
    <3> QED
      BY <2>3, <3>2 DEF Drawing
  <2> QED
    BY <2>1, <2>2, <2>3 DEF DrawInv
<1>9. CASE Serve \/ ScanDone \/ Joined \/ Join \/ Leave \/ Die \/ UNCHANGED vars
  <2>1. UNCHANGED <<panel, threads, undrawn>>
    BY <1>9 DEF Serve, ScanDone, Joined, Join, Leave, Moves, Die, Emit, vars
  <2>2. Drawn => Drawn'
    BY <2>1, DrawnSame DEF panel
  <2> QED
    BY <2>1, <2>2 DEF DrawInv, Drawing, threads
<1> QED
  BY <1>3, <1>4, <1>5, <1>6, <1>7, <1>8, <1>9, <1>10 DEF Next, Touches, Answered, Inside

(* When both threads are at rest the card says what the panel knows of the   *)
(* checked row, and only the first row is the connected one: rebuild_list    *)
(* and update_status follow whatever changed.  undrawn marks the one case    *)
(* that CTRL-EVENT-CONNECTED leaves without them.                            *)
THEOREM RestDrawn == Spec => [](Settled /\ ~undrawn => Drawn)
<1>1. Init => DrawInv
  BY DEF Init, DrawInv, Drawn, Status, Shown
<1>2. TypeInv /\ DrawInv => (Settled /\ ~undrawn => Drawn)
  BY DEF DrawInv, Settled, Drawing, Idle
<1> QED
  BY <1>1, <1>2, InitType, TypeStep, DrawStep, PTL DEF Spec

-----------------------------------------------------------------------------
(* Commands and answers under way. *)

Op(i) == cmds[i].step.op
At(op) == todo["ui"] /= <<>> /\ Head(todo["ui"]).op = op
Writes == {"ADD", "SSID", "KEY", "REMOVE"}
Quiet == \A i \in DOMAIN cmds : Op(i) \notin Writes
Uncrossed == "crossed" \notin faults

(* Until an answer was taken for another command, a thread has one command   *)
(* or answer under way, for the step it waits at.                            *)
OneCommand(t) ==
  \A i \in DOMAIN cmds : cmds[i].by = t =>
    /\ waiting[t] /\ Op(i) = Head(todo[t]).op
    /\ \A j \in DOMAIN cmds : cmds[j].by = t => j = i
    /\ \A j \in DOMAIN replies : replies[j].by /= t
OneReply(t) ==
  \A i \in DOMAIN replies : replies[i].by = t =>
    /\ waiting[t] /\ replies[i].op = Head(todo[t]).op
    /\ \A j \in DOMAIN replies : replies[j].by = t => j = i
OneInv == Uncrossed => \A t \in Threads : OneCommand(t) /\ OneReply(t)

(* Nothing that writes a network is behind the command the screen waits for. *)
LastInv ==
  Uncrossed =>
    /\ \A i \in DOMAIN cmds : cmds[i].by = "ui" =>
         \A j \in DOMAIN cmds : j > i => Op(j) \notin Writes
    /\ \A i \in DOMAIN replies : replies[i].by = "ui" => Quiet

-----------------------------------------------------------------------------
(* Passwords. *)

Clean == faults \cap {"crossed", "refused", "moved"} = {}

(* A network with no key; the network nid has the name s, or will have.      *)
Fresh(i) == i \in Known /\ nets[i].key = None
Named(s) ==
  \/ \E i \in DOMAIN cmds : Op(i) = "SSID" /\ cmds[i].step.ssid = s
  \/ /\ \A i \in DOMAIN cmds : Op(i) /= "SSID"
     /\ nid.id \in Known => nets[nid.id].ssid = s
Unchanging == \A i \in DOMAIN cmds : Op(i) \notin {"ADD", "REMOVE"}

(* What connect() knows of the network it describes, at each of its steps.   *)
DescribeInv ==
  /\ \A i \in DOMAIN replies :
       replies[i].by = "ui" /\ replies[i].op = "ADD" /\ replies[i].val /= None =>
         Fresh(replies[i].val)
  /\ At("SSID") /\ ~waiting["ui"] => nid.word /\ Quiet /\ Fresh(nid.id)
  /\ At("SSID") /\ waiting["ui"] => nid.word /\ Unchanging /\ Named(Head(todo["ui"]).ssid)
  /\ At("KEY") /\ ~waiting["ui"] =>
       /\ nid.word /\ Unchanging
       /\ Head(todo["ui"]).ssid = Open \/ Named(Head(todo["ui"]).ssid)

(* The commands that describe a network reach it in the order they were sent.*)
OrderAt(i) ==
  /\ Op(i) \in {"SSID", "KEY"} =>
       /\ cmds[i].step.net = nid.id
       /\ \A j \in DOMAIN cmds : j < i => Op(j) \notin {"ADD", "REMOVE"}
  /\ Op(i) = "SSID" =>
       /\ Fresh(nid.id)
       /\ \A j \in DOMAIN cmds : (j < i => Op(j) /= "KEY") /\ (j /= i => Op(j) /= "SSID")
  /\ Op(i) = "KEY" => cmds[i].step.ssid = Open \/ Named(cmds[i].step.ssid)
OrderInv == \A i \in DOMAIN cmds : OrderAt(i)

(* The key that goes out is that of the network named before it.             *)
PairedPlan(q) == \A i \in DOMAIN q : q[i].op = "SSID" => q[i + 1].ssid \in {Open, q[i].ssid}
PromptInv == prompt \in {None, selected_network} /\ PairedPlan(todo["ui"])

Stored == \A i \in Known : nets[i].key \in {None, Open, nets[i].ssid}
PasswordInv == Clean => DescribeInv /\ OrderInv /\ PromptInv /\ Stored

-----------------------------------------------------------------------------
(* The current network. *)

Sound == faults \cap {"crossed", "refused", "failed", "overlapped"} = {}
Owned ==
  /\ \A i \in DOMAIN cmds : cmds[i].by \in Threads
  /\ \A i \in DOMAIN replies : replies[i].by \in Threads
Parsing(t) == todo[t] /= <<>> /\ Head(todo[t]).op \in Reading
Reads(t) == Parsing(t) \/ (waiting[t] /\ Head(todo[t]).op = "LIST")
Alone == \A t, u \in Threads : Reads(t) /\ Reads(u) => t = u
NewIsIdle ==
  /\ At("SSID") => nid.id \notin enabled
  /\ \A i \in DOMAIN cmds : Op(i) = "SSID" => cmds[i].step.net \in {nid.id, None}
  /\ \A i \in DOMAIN replies :
       replies[i].op = "ADD" /\ replies[i].val /= None => replies[i].val \notin enabled
Asks(t) ==
  \E i \in DOMAIN todo[t] :
    todo[t][i].op = "LIST" /\ (i = 1 => \A j \in DOMAIN replies : replies[j].by /= t)
Told ==
  /\ \A i \in DOMAIN replies : replies[i].op = "LIST" => replies[i].val.cur = SsidOf(current)
  /\ \A t \in Threads : Parsing(t) =>
       /\ answer[t].cur = SsidOf(current)
       /\ Head(todo[t]).op = "parse" => cur_network = None
  /\ \/ \E i \in DOMAIN replies : replies[i].op = "LIST"
     \/ \E t \in Threads : Parsing(t)
     \/ cur_network = SsidOf(current)
Knows == untold \/ events /= <<>> \/ (\E t \in Threads : Asks(t)) \/ Told
CurrentInv == Sound => Owned /\ Alone /\ NewIsIdle /\ Knows

-----------------------------------------------------------------------------
(* What the actions do to the sockets. *)

LEMMA NatIndex ==
  ASSUME TypeInv
  PROVE  /\ \A i \in DOMAIN cmds : i \in Nat /\ i >= 1
         /\ \A i \in DOMAIN replies : i \in Nat /\ i >= 1
BY DEF TypeInv, TypeOK, SocketType

LEMMA SendFacts ==
  ASSUME TypeInv, NEW t \in Threads, Send(t)
  PROVE  /\ todo[t] /= <<>> /\ ~waiting[t] /\ Head(todo[t]) \in Steps /\ Head(todo[t]).op \in Sent
         /\ UNCHANGED <<todo, replies, nid, answer, events, supplicant, untold, prompt,
                        selected_network, cur_network>>
         /\ \A u \in Threads : waiting'[u] <=> u = t \/ waiting[u]
         /\ \E n \in Nat, c \in Commands :
              /\ c.by = t /\ c.step = Addressed(Head(todo[t]))
              /\ n \in DOMAIN cmds' /\ cmds'[n] = c
              /\ \A i \in DOMAIN cmds : i \in DOMAIN cmds' /\ cmds'[i] = cmds[i] /\ i < n
              /\ \A i \in DOMAIN cmds' : i \in DOMAIN cmds \/ i = n
         /\ faults \subseteq faults'
<1> DEFINE c == [by |-> t, step |-> Addressed(Head(todo[t]))]
           n == Len(cmds) + 1
<1>1. TodoOK /\ LocalsOK /\ CommandsOK
  BY Parts
<1>2. todo[t] /= <<>> /\ ~waiting[t] /\ Head(todo[t]).op \notin Local
      /\ waiting' = [waiting EXCEPT ![t] = TRUE] /\ cmds' = Append(cmds, c)
  BY DEF Send, Idle
<1>3. Head(todo[t]) \in Steps /\ Head(todo[t]).op \in Sent
  BY <1>1, <1>2, HeadFacts DEF Steps
<1>4. c \in Commands
  BY <1>1, <1>3, AddressedFacts DEF Commands, Origins
<1>5. c.by = t /\ c.step = Addressed(Head(todo[t]))
  OBVIOUS
<1> HIDE DEF c
<1>6. cmds \in Seq(Commands)
  BY <1>1 DEF CommandsOK
<1>7. n \in Nat /\ \A i \in DOMAIN cmds : i < n
  BY <1>6
<1>8. /\ n \in DOMAIN cmds' /\ cmds'[n] = c
      /\ \A i \in DOMAIN cmds : i \in DOMAIN cmds' /\ cmds'[i] = cmds[i]
      /\ \A i \in DOMAIN cmds' : i \in DOMAIN cmds \/ i = n
  BY <1>2, <1>4, <1>6, AppendFacts
<1>9. \A u \in Threads : waiting'[u] <=> u = t \/ waiting[u]
  BY <1>1, <1>2 DEF TodoOK
<1>10. faults \subseteq faults'
  BY DEF Send
<1>11. UNCHANGED <<todo, replies, nid, answer, events, supplicant, untold, prompt,
                   selected_network, cur_network>>
  BY DEF Send
<1>12. \E m \in Nat, d \in Commands :
         /\ d.by = t /\ d.step = Addressed(Head(todo[t]))
         /\ m \in DOMAIN cmds' /\ cmds'[m] = d
         /\ \A i \in DOMAIN cmds : i \in DOMAIN cmds' /\ cmds'[i] = cmds[i] /\ i < m
         /\ \A i \in DOMAIN cmds' : i \in DOMAIN cmds \/ i = m
  BY <1>4, <1>5, <1>7, <1>8
<1> QED
  BY <1>2, <1>3, <1>9, <1>10, <1>11, <1>12

LEMMA ServeFacts ==
  ASSUME TypeInv, Serve
  PROVE  /\ UNCHANGED <<panel, threads, events, faults>>
         /\ 1 \in DOMAIN cmds /\ cmds[1].step = Command
         /\ \A i \in DOMAIN cmds' : i + 1 \in DOMAIN cmds /\ cmds'[i] = cmds[i + 1]
         /\ \A i \in DOMAIN cmds : i = 1 \/ (i - 1 \in DOMAIN cmds' /\ cmds'[i - 1] = cmds[i])
         /\ \E n \in Nat, r \in Replies :
              /\ r.by = cmds[1].by /\ r.op = Command.op
              /\ n \in DOMAIN replies' /\ replies'[n] = r
              /\ \A i \in DOMAIN replies : i \in DOMAIN replies' /\ replies'[i] = replies[i] /\ i < n
              /\ \A i \in DOMAIN replies' : i \in DOMAIN replies \/ i = n
<1>1. CommandsOK /\ RepliesOK /\ cmds /= <<>>
  BY Parts DEF Serve
<1>2. CommandsOK' /\ RepliesOK'
  BY ServeParts
<1>3. PICK val : Reply(val)
  BY DEF Serve, AddNetwork, SetSsid, SetKey, SelectNetwork, RemoveNetwork, NoSuchNetwork, Query
<1>4. cmds \in Seq(Commands) /\ cmds' = Tail(cmds) /\ replies \in Seq(Replies)
  BY <1>1, <1>3 DEF CommandsOK, RepliesOK, Reply
<1> DEFINE r == [by |-> Head(cmds).by, op |-> Command.op, val |-> val]
           n == Len(replies) + 1
<1>5. /\ 1 \in DOMAIN cmds /\ cmds[1] = Head(cmds)
      /\ \A i \in DOMAIN cmds' : i + 1 \in DOMAIN cmds /\ cmds'[i] = cmds[i + 1]
      /\ \A i \in DOMAIN cmds : i > 1 => i - 1 \in DOMAIN cmds' /\ cmds'[i - 1] = cmds[i]
  BY <1>1, <1>4, TailFacts
<1>6. \A i \in DOMAIN cmds : i = 1 \/ i > 1
  BY <1>4
<1>7. replies' = Append(replies, r)
  BY <1>3 DEF Reply, Command
<1>8. r.by = cmds[1].by /\ r.op = Command.op
  BY <1>5
<1> HIDE DEF r
<1>9. /\ n \in Nat /\ n \in DOMAIN replies' /\ replies'[n] = r
      /\ \A i \in DOMAIN replies : i \in DOMAIN replies' /\ replies'[i] = replies[i] /\ i < n
      /\ \A i \in DOMAIN replies' : i \in DOMAIN replies \/ i = n
  BY <1>4, <1>7
<1>10. r \in Replies
  <2>1. replies' \in Seq(Replies)
    BY <1>2 DEF RepliesOK
  <2> QED
    BY <1>9, <2>1
<1>11. UNCHANGED <<panel, threads, events, faults>>
  BY DEF Serve
<1>12. \E m \in Nat, q \in Replies :
         /\ q.by = cmds[1].by /\ q.op = Command.op
         /\ m \in DOMAIN replies' /\ replies'[m] = q
         /\ \A i \in DOMAIN replies : i \in DOMAIN replies' /\ replies'[i] = replies[i] /\ i < m
         /\ \A i \in DOMAIN replies' : i \in DOMAIN replies \/ i = m
  BY <1>8, <1>9, <1>10
<1> QED
  BY <1>5, <1>6, <1>11, <1>12 DEF Command

(* The handlers of the other thread are not touched by an answer.            *)
LEMMA AdvanceFacts ==
  ASSUME TypeInv, NEW t \in Threads, NEW q, Advance(t, q)
  PROVE  /\ todo'[t] = q /\ ~waiting'[t]
         /\ \A u \in Threads : u /= t => todo'[u] = todo[u] /\ waiting'[u] = waiting[u]
BY Parts DEF Advance, TodoOK

LEMMA TakeFacts ==
  ASSUME TypeInv, NEW t \in Threads, Take(t)
  PROVE  /\ todo[t] /= <<>> /\ waiting[t] /\ Head(todo[t]).op \in Sent
         /\ UNCHANGED <<panel, cmds, events, supplicant, untold>>
         /\ ~waiting'[t]
         /\ todo'[t] = IF Head(todo[t]).op = "LIST" THEN Reaches(t, "clear") ELSE Tail(todo[t])
         /\ \A u \in Threads : u /= t => todo'[u] = todo[u] /\ waiting'[u] = waiting[u]
         /\ 1 \in DOMAIN replies /\ Head(replies) = replies[1] /\ replies[1] \in Replies
         /\ \A i \in DOMAIN replies' : i + 1 \in DOMAIN replies /\ replies'[i] = replies[i + 1]
         /\ \A i \in DOMAIN replies : i = 1 \/ (i - 1 \in DOMAIN replies' /\ replies'[i - 1] = replies[i])
         /\ faults \subseteq faults'
         /\ Uncrossed' => replies[1].by = t
<1>1. TodoOK /\ RepliesOK /\ replies /= <<>> /\ replies' = Tail(replies) /\ waiting[t]
  BY Parts DEF Take
<1>2. todo[t] /= <<>> /\ Head(todo[t]).op \in Sent
  BY <1>1 DEF TodoOK
<1>3. Advance(t, IF Head(todo[t]).op = "LIST" THEN Reaches(t, "clear") ELSE Tail(todo[t]))
  BY DEF Take
<1>4. /\ todo'[t] = (IF Head(todo[t]).op = "LIST" THEN Reaches(t, "clear") ELSE Tail(todo[t]))
      /\ ~waiting'[t]
      /\ \A u \in Threads : u /= t => todo'[u] = todo[u] /\ waiting'[u] = waiting[u]
  BY <1>3, AdvanceFacts
<1>5. replies \in Seq(Replies)
  BY <1>1 DEF RepliesOK
<1>6. /\ 1 \in DOMAIN replies /\ Head(replies) = replies[1] /\ replies[1] \in Replies
      /\ \A i \in DOMAIN replies' : i + 1 \in DOMAIN replies /\ replies'[i] = replies[i + 1]
      /\ \A i \in DOMAIN replies : i = 1 \/ (i - 1 \in DOMAIN replies' /\ replies'[i - 1] = replies[i])
  BY <1>1, <1>5, TailFacts
<1>7. faults \subseteq faults' /\ (Uncrossed' => replies[1].by = t)
  BY <1>6 DEF Take, Uncrossed
<1>8. UNCHANGED <<panel, cmds, events, supplicant, untold>>
  BY DEF Take
<1> QED
  BY <1>1, <1>2, <1>4, <1>6, <1>7, <1>8

LEMMA FailFacts ==
  ASSUME TypeInv, NEW t \in Threads, Fail(t)
  PROVE  /\ todo[t] /= <<>> /\ waiting[t] /\ Head(todo[t]).op \in Sent
         /\ UNCHANGED <<panel, nid, events, supplicant, untold>>
         /\ replies = <<>> /\ replies' = <<>> /\ DOMAIN replies' = {}
         /\ ~waiting'[t]
         /\ todo'[t] = CASE Head(todo[t]).op = "ADD" -> <<>>
                         [] Head(todo[t]).op = "LIST" -> Reaches(t, "clear")
                         [] OTHER -> Tail(todo[t])
         /\ \A u \in Threads : u /= t => todo'[u] = todo[u] /\ waiting'[u] = waiting[u]
         /\ DOMAIN cmds' = DOMAIN cmds
         /\ \A i \in DOMAIN cmds :
              /\ cmds'[i].step = cmds[i].step
              /\ cmds'[i].by = IF cmds[i].by = t THEN "nobody" ELSE cmds[i].by
         /\ faults' = faults \cup {"failed"}
<1>1. TodoOK /\ CommandsOK /\ waiting[t]
  BY Parts DEF Fail
<1>2. todo[t] /= <<>> /\ Head(todo[t]).op \in Sent
  BY <1>1 DEF TodoOK
<1>3. /\ UNCHANGED <<panel, nid, replies, events, supplicant, untold>>
      /\ replies = <<>> /\ cmds' = Abandoned(t) /\ faults' = faults \cup {"failed"}
      /\ Advance(t, CASE Head(todo[t]).op = "ADD" -> <<>>
                      [] Head(todo[t]).op = "LIST" -> Reaches(t, "clear")
                      [] OTHER -> Tail(todo[t]))
  BY DEF Fail
<1>4. /\ todo'[t] = (CASE Head(todo[t]).op = "ADD" -> <<>>
                       [] Head(todo[t]).op = "LIST" -> Reaches(t, "clear")
                       [] OTHER -> Tail(todo[t]))
      /\ ~waiting'[t]
      /\ \A u \in Threads : u /= t => todo'[u] = todo[u] /\ waiting'[u] = waiting[u]
  BY <1>3, AdvanceFacts
<1>5. DOMAIN replies' = {}
  BY <1>3
<1> QED
  BY <1>1, <1>2, <1>3, <1>4, <1>5, AbandonedFacts

(* The other steps of a handler need no command.                             *)
LEMMA LocalFacts ==
  ASSUME TypeInv, NEW t \in Threads, Clear(t) \/ Parse(t) \/ Redraw(t)
  PROVE  /\ todo[t] /= <<>> /\ Head(todo[t]).op \in Local /\ ~waiting[t] /\ ~waiting'[t]
         /\ \/ Clear(t) /\ todo'[t] = Reaches(t, "parse")
            \/ (Parse(t) \/ Redraw(t)) /\ todo'[t] \in {<<>>, Tail(todo[t])}
         /\ Redraw(t) => todo'[t] = Tail(todo[t])
         /\ \A u \in Threads : u /= t => todo'[u] = todo[u] /\ waiting'[u] = waiting[u]
         /\ UNCHANGED <<selected_network, prompt, nid, answer, sockets, supplicant, faults, untold>>
<1>1. TodoOK
  BY Parts
<1>2. /\ todo[t] /= <<>> /\ Head(todo[t]).op \in Local
      /\ UNCHANGED <<selected_network, prompt, nid, answer, sockets, supplicant, faults, untold>>
      /\ \/ Clear(t) /\ Advance(t, Reaches(t, "parse"))
         \/ /\ Parse(t) \/ Redraw(t)
            /\ Advance(t, Tail(todo[t])) \/ (Advance(t, <<>>) /\ ~Redraw(t))
  <2>1. CASE Parse(t)
    BY <2>1 DEF Parse, Redraw, Idle, Local
  <2>2. CASE Redraw(t)
    BY <2>2 DEF Redraw, Idle, Local
  <2>3. CASE Clear(t)
    BY <2>3 DEF Clear, Idle, Local
  <2> QED
    BY <2>1, <2>2, <2>3
<1>3. ~waiting[t]
  BY <1>1, <1>2 DEF TodoOK, Sent, Plain, Local
<1>4. Clear(t) => ~Redraw(t)
  BY DEF Clear, Redraw
<1> QED
  BY <1>2, <1>3, <1>4, AdvanceFacts

LEMMA TouchFacts ==
  ASSUME TypeInv, Touches
  PROVE  /\ ~waiting["ui"] /\ todo["ui"] = <<>> /\ todo'["ev"] = todo["ev"]
         /\ UNCHANGED <<cur_network, waiting, nid, answer, sockets, supplicant, untold>>
         /\ faults \subseteq faults' /\ faults' \subseteq faults \cup {"moved"}
<1>1. TodoOK
  BY Parts
<1>2. todo["ui"] = <<>> /\ UNCHANGED <<cur_network, waiting, nid, answer, sockets, supplicant, untold>>
  BY TouchLeaves
<1>3. ~waiting["ui"]
  BY <1>1, <1>2 DEF TodoOK, Threads
<1>4. todo'["ev"] = todo["ev"]
  BY <1>1 DEF TodoOK, Touches, HandleRow, Scan, PressConnect, PressForget, EnterPassword, Close,
              Runs, ConnectTo, Threads
<1>5. faults \subseteq faults' /\ faults' \subseteq faults \cup {"moved"}
  BY DEF Touches, HandleRow, Scan, PressConnect, PressForget, EnterPassword, Close
<1> QED
  BY <1>2, <1>3, <1>4, <1>5

LEMMA EventFacts ==
  ASSUME TypeInv, HandleEvent
  PROVE  /\ todo["ev"] = <<>> /\ ~waiting["ev"] /\ todo'["ui"] = todo["ui"]
         /\ UNCHANGED <<panel, waiting, nid, answer, cmds, replies, supplicant, faults, untold>>
<1>1. TodoOK
  BY Parts
<1>2. todo["ev"] = <<>> /\ todo'["ui"] = todo["ui"]
      /\ UNCHANGED <<panel, waiting, nid, answer, cmds, replies, supplicant, faults, untold>>
  BY <1>1 DEF HandleEvent, Idle, TodoOK, Threads
<1>3. ~waiting["ev"]
  BY <1>1, <1>2 DEF TodoOK, Threads
<1> QED
  BY <1>2, <1>3

-----------------------------------------------------------------------------
(* One command at a time. *)

(* faults only grows.                                                        *)
LEMMA FaultsGrow == [Next]_vars => faults \subseteq faults'
BY DEF Next, HandleRow, Scan, PressConnect, PressForget, EnterPassword, Close, Answered, Take, Fail,
       Inside, Send, Clear, Parse, Redraw, HandleEvent, Serve, ScanDone, Joined, Join, Moves, Emit, Leave, Die, vars

LEMMA OneStep == TypeInv /\ OneInv /\ [Next]_vars => OneInv'
<1> SUFFICES ASSUME TypeInv, OneInv, [Next]_vars, Uncrossed', NEW u \in Threads
             PROVE  (OneCommand(u) /\ OneReply(u))'
  BY DEF OneInv
<1>1. Uncrossed
  BY FaultsGrow DEF Uncrossed
<1>2. \A t \in Threads : OneCommand(t) /\ OneReply(t)
  BY <1>1 DEF OneInv
<1>3. CASE Touches
  <2>1. /\ ~waiting["ui"] /\ todo'["ev"] = todo["ev"]
        /\ UNCHANGED <<waiting, cmds, replies>>
    BY <1>3, TouchFacts DEF sockets
  <2> QED
    BY <1>2, <2>1 DEF OneCommand, OneReply, Op, Threads
<1>4. ASSUME NEW t \in Threads, Take(t) PROVE (OneCommand(u) /\ OneReply(u))'
  <2>1. replies[1].by = t /\ cmds' = cmds /\ 1 \in DOMAIN replies
    BY <1>4, TakeFacts
  <2>2. \A i \in DOMAIN cmds : cmds[i].by /= t
    BY <1>2, <2>1 DEF OneCommand
  <2>3. \A i \in DOMAIN replies' : replies'[i].by /= t
    <3>1. ASSUME NEW i \in DOMAIN replies', replies'[i].by = t PROVE FALSE
      <4>1. i + 1 \in DOMAIN replies /\ replies[i + 1].by = t
        BY <1>4, <3>1, TakeFacts
      <4>2. i + 1 = 1
        BY <1>2, <2>1, <4>1 DEF OneReply
      <4>3. i \in Nat /\ i >= 1
        BY <3>1, TypeStep, NatIndex DEF TypeInv, TypeOK, SocketType
      <4> QED
        BY <4>2, <4>3
    <3> QED
      BY <3>1
  <2>4. CASE u = t
    BY <2>1, <2>2, <2>3, <2>4 DEF OneCommand, OneReply
  <2>5. CASE u /= t
    <3>1. todo'[u] = todo[u] /\ waiting'[u] = waiting[u]
      BY <1>4, <2>5, TakeFacts
    <3>2. /\ \A i \in DOMAIN replies' : i + 1 \in DOMAIN replies /\ replies'[i] = replies[i + 1]
          /\ \A i \in DOMAIN replies' : i \in Nat
      BY <1>4, TakeFacts, TypeStep DEF TypeInv, TypeOK, SocketType
    <3>3. OneCommand(u)'
      BY <1>2, <2>1, <3>1, <3>2 DEF OneCommand, Op
    <3>4. OneReply(u)'
      BY <1>2, <3>1, <3>2 DEF OneReply
    <3> QED
      BY <3>3, <3>4
  <2> QED
    BY <2>4, <2>5
<1>5. ASSUME NEW t \in Threads, Fail(t) PROVE (OneCommand(u) /\ OneReply(u))'
  <2>1. /\ DOMAIN cmds' = DOMAIN cmds /\ DOMAIN replies' = {}
        /\ \A i \in DOMAIN cmds :
             /\ cmds'[i].step = cmds[i].step
             /\ cmds'[i].by = IF cmds[i].by = t THEN "nobody" ELSE cmds[i].by
        /\ u /= t => todo'[u] = todo[u] /\ waiting'[u] = waiting[u]
    BY <1>5, FailFacts
  <2>2. "nobody" \notin Threads
    BY DEF Threads
  <2> QED
    BY <1>2, <2>1, <2>2 DEF OneCommand, OneReply, Op
<1>6. ASSUME NEW t \in Threads, Send(t) PROVE (OneCommand(u) /\ OneReply(u))'
  <2>1. /\ ~waiting[t] /\ todo' = todo /\ replies' = replies /\ Head(todo[t]) \in Steps
        /\ \A v \in Threads : waiting'[v] <=> v = t \/ waiting[v]
    BY <1>6, SendFacts
  <2>2. PICK n \in Nat, c \in Commands :
          /\ c.by = t /\ c.step = Addressed(Head(todo[t]))
          /\ n \in DOMAIN cmds' /\ cmds'[n] = c
          /\ \A i \in DOMAIN cmds : i \in DOMAIN cmds' /\ cmds'[i] = cmds[i] /\ i < n
          /\ \A i \in DOMAIN cmds' : i \in DOMAIN cmds \/ i = n
    BY <1>6, SendFacts
  <2>3. c.step.op = Head(todo[t]).op
    BY <2>1, <2>2, Parts, AddressedFacts
  <2>4. OneReply(u)'
    BY <1>2, <2>1 DEF OneReply
  <2>5. OneCommand(u)'
    <3>1. CASE u = t
      BY <1>2, <2>1, <2>2, <2>3, <3>1 DEF OneCommand, OneReply, Op
    <3>2. CASE u /= t
      BY <1>2, <2>1, <2>2, <3>2 DEF OneCommand, Op
    <3> QED
      BY <3>1, <3>2
  <2> QED
    BY <2>4, <2>5
<1>7. ASSUME NEW t \in Threads, Clear(t) \/ Parse(t) \/ Redraw(t) PROVE (OneCommand(u) /\ OneReply(u))'
  <2>1. /\ ~waiting[t] /\ u /= t => todo'[u] = todo[u] /\ waiting'[u] = waiting[u]
        /\ UNCHANGED <<cmds, replies>>
    BY <1>7, LocalFacts DEF sockets
  <2> QED
    BY <1>2, <1>7, <2>1, LocalFacts DEF OneCommand, OneReply, Op
<1>8. CASE HandleEvent
  <2>1. /\ ~waiting["ev"] /\ todo'["ui"] = todo["ui"] /\ UNCHANGED <<waiting, cmds, replies>>
    BY <1>8, EventFacts
  <2> QED
    BY <1>2, <2>1 DEF OneCommand, OneReply, Op, Threads
<1>9. CASE Serve
  <2>1. /\ todo' = todo /\ waiting' = waiting
        /\ 1 \in DOMAIN cmds /\ cmds[1].step = Command
        /\ \A i \in DOMAIN cmds' : i + 1 \in DOMAIN cmds /\ cmds'[i] = cmds[i + 1]
    BY <1>9, ServeFacts DEF threads
  <2>2. PICK n \in Nat, r \in Replies :
          /\ r.by = cmds[1].by /\ r.op = Command.op
          /\ n \in DOMAIN replies' /\ replies'[n] = r
          /\ \A i \in DOMAIN replies : i \in DOMAIN replies' /\ replies'[i] = replies[i] /\ i < n
          /\ \A i \in DOMAIN replies' : i \in DOMAIN replies \/ i = n
    BY <1>9, ServeFacts
  <2>3. \A i \in DOMAIN cmds' : i \in Nat /\ i >= 1
    BY TypeStep, NatIndex DEF TypeInv, TypeOK, SocketType
  <2>4. OneCommand(u)'
    BY <1>2, <2>1, <2>2, <2>3 DEF OneCommand, Op
  <2>5. OneReply(u)'
    BY <1>2, <2>1, <2>2 DEF OneCommand, OneReply, Op
  <2> QED
    BY <2>4, <2>5
<1>10. CASE ScanDone \/ Joined \/ Join \/ Leave \/ Die \/ UNCHANGED vars
  <2>1. UNCHANGED <<todo, waiting, cmds, replies>>
    BY <1>10 DEF ScanDone, Joined, Join, Moves, Emit, Leave, Die, vars, threads, sockets
  <2> QED
    BY <1>2, <2>1 DEF OneCommand, OneReply, Op
<1> QED
  BY <1>3, <1>4, <1>5, <1>6, <1>7, <1>8, <1>9, <1>10 DEF Next, Touches, Answered, Inside

LEMMA LastStep == TypeInv /\ OneInv /\ LastInv /\ [Next]_vars => LastInv'
<1> DEFINE Behind == \A i \in DOMAIN cmds : cmds[i].by = "ui" =>
                       \A j \in DOMAIN cmds : j > i => Op(j) \notin Writes
           Before == \A i \in DOMAIN replies : replies[i].by = "ui" => Quiet
<1> SUFFICES ASSUME TypeInv, OneInv, LastInv, [Next]_vars, Uncrossed'
             PROVE  Behind' /\ Before'
  BY DEF LastInv
<1>1. Uncrossed
  BY FaultsGrow DEF Uncrossed
<1>2. Behind /\ Before /\ OneCommand("ui") /\ OneReply("ui")
  BY <1>1 DEF LastInv, OneInv, Threads
<1>3. ASSUME NEW t \in Threads, Take(t) PROVE Behind' /\ Before'
  <2>1. /\ cmds' = cmds
        /\ \A i \in DOMAIN replies' : i + 1 \in DOMAIN replies /\ replies'[i] = replies[i + 1]
    BY <1>3, TakeFacts
  <2> QED
    BY <1>2, <2>1 DEF Quiet, Op
<1>4. ASSUME NEW t \in Threads, Fail(t) PROVE Behind' /\ Before'
  <2>1. /\ DOMAIN cmds' = DOMAIN cmds /\ DOMAIN replies' = {}
        /\ \A i \in DOMAIN cmds :
             /\ cmds'[i].step = cmds[i].step
             /\ cmds'[i].by = IF cmds[i].by = t THEN "nobody" ELSE cmds[i].by
    BY <1>4, FailFacts
  <2> QED
    BY <1>2, <2>1 DEF Op
<1>5. ASSUME NEW t \in Threads, Send(t) PROVE Behind' /\ Before'
  <2>1. PICK n \in Nat, c \in Commands :
          /\ c.by = t /\ c.step = Addressed(Head(todo[t]))
          /\ n \in DOMAIN cmds' /\ cmds'[n] = c
          /\ \A i \in DOMAIN cmds : i \in DOMAIN cmds' /\ cmds'[i] = cmds[i] /\ i < n
          /\ \A i \in DOMAIN cmds' : i \in DOMAIN cmds \/ i = n
    BY <1>5, SendFacts
  <2>2. ~waiting[t] /\ replies' = replies /\ Head(todo[t]) \in Steps /\ todo[t] /= <<>>
    BY <1>5, SendFacts
  <2>3. c.step.op = Head(todo[t]).op
    BY <2>1, <2>2, Parts, AddressedFacts
  <2>4. \A i \in DOMAIN cmds : i \in Nat
    BY NatIndex
  <2>5. CASE t = "ui"
    <3>1. /\ \A i \in DOMAIN cmds : cmds[i].by /= "ui"
          /\ \A i \in DOMAIN replies : replies[i].by /= "ui"
      BY <1>2, <2>2, <2>5 DEF OneCommand, OneReply
    <3>2. Before'
      BY <2>2, <3>1
    <3>3. Behind'
      BY <2>1, <2>4, <3>1
    <3> QED
      BY <3>2, <3>3
  <2>6. CASE t = "ev"
    <3>1. c.step.op \notin Writes
      <4>1. TodoOK /\ "ev" \in Threads
        BY Parts DEF Threads
      <4>2. Head(todo["ev"]).op \in Asking \cup Local
        BY <2>2, <2>6, <4>1, HeadFacts
      <4> QED
        BY <2>3, <2>6, <4>2 DEF Writes, Asking, Local
    <3>2. Before'
      BY <1>2, <2>1, <2>2, <3>1 DEF Quiet, Op
    <3>3. Behind'
      BY <1>2, <2>1, <2>4, <2>6, <3>1 DEF Op
    <3> QED
      BY <3>2, <3>3
  <2> QED
    BY <2>5, <2>6 DEF Threads
<1>6. CASE Serve
  <2>1. /\ 1 \in DOMAIN cmds
        /\ \A i \in DOMAIN cmds' : i + 1 \in DOMAIN cmds /\ cmds'[i] = cmds[i + 1]
    BY <1>6, ServeFacts
  <2>2. PICK n \in Nat, r \in Replies :
          /\ r.by = cmds[1].by /\ r.op = Command.op
          /\ n \in DOMAIN replies' /\ replies'[n] = r
          /\ \A i \in DOMAIN replies : i \in DOMAIN replies' /\ replies'[i] = replies[i] /\ i < n
          /\ \A i \in DOMAIN replies' : i \in DOMAIN replies \/ i = n
    BY <1>6, ServeFacts
  <2>3. \A i \in DOMAIN cmds' : i \in Nat /\ i >= 1
    BY TypeStep, NatIndex DEF TypeInv, TypeOK, SocketType
  <2>4. Behind'
    BY <1>2, <2>1, <2>3 DEF Op
  <2>5. Before'
    <3>1. ASSUME NEW i \in DOMAIN replies', replies'[i].by = "ui", NEW j \in DOMAIN cmds'
          PROVE  cmds'[j].step.op \notin Writes
      <4>1. j + 1 \in DOMAIN cmds /\ cmds'[j] = cmds[j + 1] /\ j + 1 > 1
        BY <2>1, <2>3
      <4>2. CASE i = n
        BY <1>2, <2>1, <2>2, <3>1, <4>1, <4>2 DEF Op
      <4>3. CASE i \in DOMAIN replies
        BY <1>2, <2>2, <3>1, <4>1, <4>3 DEF Quiet, Op
      <4> QED
        BY <2>2, <4>2, <4>3
    <3> QED
      BY <3>1 DEF Quiet, Op
  <2> QED
    BY <2>4, <2>5
<1>7. CASE UNCHANGED <<cmds, replies>>
  BY <1>2, <1>7 DEF Quiet, Op
<1>8. CASE Touches
  BY <1>7, <1>8, TouchFacts DEF sockets
<1>9. ASSUME NEW t \in Threads, Clear(t) \/ Parse(t) \/ Redraw(t) PROVE Behind' /\ Before'
  BY <1>7, <1>9, LocalFacts DEF sockets
<1>10. CASE HandleEvent
  BY <1>7, <1>10, EventFacts
<1>11. CASE ScanDone \/ Joined \/ Join \/ Leave \/ Die \/ UNCHANGED vars
  BY <1>7, <1>11 DEF ScanDone, Joined, Join, Moves, Emit, Leave, Die, vars, sockets
<1> QED
  BY <1>3, <1>4, <1>5, <1>6, <1>8, <1>9, <1>10, <1>11 DEF Next, Touches, Answered, Inside

-----------------------------------------------------------------------------
(* A network and its password. *)

LEMMA SameCommands ==
  ASSUME DOMAIN cmds' = DOMAIN cmds, \A i \in DOMAIN cmds : cmds'[i].step = cmds[i].step,
         UNCHANGED <<nid, nets>>
  PROVE  /\ Known' = Known /\ (Quiet => Quiet') /\ (Unchanging => Unchanging')
         /\ \A s : Named(s) => Named(s)'
         /\ \A i : Fresh(i) => Fresh(i)'
         /\ OrderInv => OrderInv'
         /\ Stored => Stored'
<1>1. Known' = Known
  BY DEF Known
<1>2. Quiet => Quiet'
  BY DEF Quiet, Op
<1>3. Unchanging => Unchanging'
  BY DEF Unchanging, Op
<1>4. ASSUME NEW s, Named(s) PROVE Named(s)'
  BY <1>1, <1>4 DEF Named, Op
<1>5. ASSUME NEW i, Fresh(i) PROVE Fresh(i)'
  BY <1>1, <1>5 DEF Fresh
<1>6. ASSUME OrderInv PROVE OrderInv'
  BY <1>4, <1>5, <1>6 DEF OrderInv, OrderAt, Op
<1>7. Stored => Stored'
  BY <1>1 DEF Stored
<1> QED
  BY <1>1, <1>2, <1>3, <1>4, <1>5, <1>6, <1>7

LEMMA PairedTail ==
  ASSUME NEW t, NEW q, Plan(t, q), q /= <<>>, PairedPlan(q)
  PROVE  PairedPlan(Tail(q))
<1>1. q \in Seq(Steps)
  BY DEF Plan
<1>2. /\ Tail(q) \in Seq(Steps)
      /\ \A i \in DOMAIN Tail(q) : i + 1 \in DOMAIN q /\ Tail(q)[i] = q[i + 1]
      /\ \A i \in DOMAIN q : i > 1 => i - 1 \in DOMAIN Tail(q) /\ Tail(q)[i - 1] = q[i]
  BY <1>1, TailFacts
<1> DEFINE r == Tail(q)
<1> HIDE DEF r
<1>3. ASSUME NEW i \in DOMAIN r, r[i].op = "SSID" PROVE r[i + 1].ssid \in {Open, r[i].ssid}
  <2>1. i \in Nat /\ i >= 1
    BY <1>2 DEF r
  <2>2. i + 1 \in DOMAIN q /\ r[i] = q[i + 1]
    BY <1>2 DEF r
  <2>3. (i + 1) + 1 \in DOMAIN q /\ q[(i + 1) + 1].ssid \in {Open, q[i + 1].ssid}
    BY <1>3, <2>2 DEF Plan, Planned, PairedPlan
  <2>4. (i + 1) + 1 > 1 /\ ((i + 1) + 1) - 1 = i + 1
    BY <2>1
  <2>5. r[i + 1] = q[(i + 1) + 1]
    BY <1>2, <2>3, <2>4 DEF r
  <2> QED
    BY <2>2, <2>3, <2>5
<1> QED
  BY <1>3 DEF PairedPlan, r

LEMMA PairedReaches ==
  ASSUME NEW q, q \in Seq(Steps), q /= <<>>, PairedPlan(q), NEW op \in Reading
  PROVE  PairedPlan([q EXCEPT ![1] = Step(op, None, None)])
<1> DEFINE p == Step(op, None, None)
           r == [q EXCEPT ![1] = p]
<1>1. p.op \in Reading
  BY DEF Step
<1> HIDE DEF p
<1>2. DOMAIN r = DOMAIN q /\ r[1] = p /\ \A i \in DOMAIN q : i /= 1 => r[i] = q[i]
  OBVIOUS
<1>3. \A i \in DOMAIN q : i \in Nat /\ i >= 1
  OBVIOUS
<1> HIDE DEF r
<1>4. ASSUME NEW i \in DOMAIN r, r[i].op = "SSID" PROVE r[i + 1].ssid \in {Open, r[i].ssid}
  <2>1. i /= 1 /\ i \in DOMAIN q /\ r[i] = q[i] /\ i + 1 /= 1
    BY <1>1, <1>2, <1>3, <1>4
  <2>2. q[i + 1].ssid \in {Open, q[i].ssid}
    BY <1>4, <2>1 DEF PairedPlan
  <2>3. r[i + 1] = q[i + 1]
    BY <2>1 DEF r
  <2> QED
    BY <2>1, <2>2, <2>3
<1> QED
  BY <1>4 DEF PairedPlan, r, p

(* What comes after a step.                                                  *)
LEMMA NextStep ==
  ASSUME NEW t, NEW q, Plan(t, q), q /= <<>>, Tail(q) /= <<>>
  PROVE  /\ Head(Tail(q)).op = "SSID" => Head(q).op = "ADD"
         /\ Head(Tail(q)).op = "KEY" => Head(q).op = "SSID"
         /\ Head(q).op = "SSID" /\ PairedPlan(q) => Head(Tail(q)).ssid \in {Open, Head(q).ssid}
<1>1. q \in Seq(Steps)
  BY DEF Plan
<1>2. /\ Tail(q) \in Seq(Steps) /\ 1 \in DOMAIN q /\ q[1] = Head(q)
      /\ \A i \in DOMAIN Tail(q) : i + 1 \in DOMAIN q /\ Tail(q)[i] = q[i + 1]
  BY <1>1, TailFacts
<1>3. 1 \in DOMAIN Tail(q) /\ Tail(q)[1] = Head(Tail(q))
  BY <1>2, TailFacts
<1>4. 1 + 1 \in DOMAIN q /\ Head(Tail(q)) = q[1 + 1]
  BY <1>2, <1>3
<1>5. 1 + 1 /= 1 /\ (1 + 1) - 1 = 1
  OBVIOUS
<1>6. /\ q[1 + 1].op = "SSID" => q[1].op = "ADD"
      /\ q[1 + 1].op = "KEY" => q[1].op = "SSID"
  BY <1>4, <1>5 DEF Plan, Planned
<1> QED
  BY <1>2, <1>4, <1>6 DEF PairedPlan

(* connect() adds the network first and sends the password after the name.   *)
LEMMA ConnectPaired ==
  ASSUME NEW s, NEW k \in {Open, s}
  PROVE  LET q == <<Step("ADD", None, None), Step("SSID", s, None), Step("KEY", k, None),
                    Step("SELECT", None, None), Step("SAVE", None, None)>>
         IN  Head(q).op = "ADD" /\ PairedPlan(q)
<1> DEFINE a == Step("ADD", None, None)
           b == Step("SSID", s, None)
           c == Step("KEY", k, None)
           d == Step("SELECT", None, None)
           e == Step("SAVE", None, None)
           q == <<a, b, c, d, e>>
<1>1. /\ a.op = "ADD" /\ b.op = "SSID" /\ c.op = "KEY" /\ d.op = "SELECT" /\ e.op = "SAVE"
      /\ b.ssid = s /\ c.ssid = k
  BY DEF Step
<1> HIDE DEF a, b, c, d, e
<1>2. /\ DOMAIN q = {1, 2, 3, 4, 5} /\ Head(q) = a
      /\ q[1] = a /\ q[2] = b /\ q[3] = c /\ q[4] = d /\ q[5] = e
  OBVIOUS
<1> HIDE DEF q
<1>3. Head(q).op = "ADD" /\ PairedPlan(q)
  BY <1>1, <1>2 DEF PairedPlan
<1> QED
  BY <1>3 DEF q, a, b, c, d, e

LEMMA OtherPaired ==
  ASSUME NEW n
  PROVE  /\ LET q == <<Step("SCAN", None, None)>> IN Head(q).op = "SCAN" /\ PairedPlan(q)
         /\ LET q == <<Step("SELECT", None, n), Step("SAVE", None, None)>>
            IN  Head(q).op = "SELECT" /\ PairedPlan(q)
         /\ LET q == <<Step("REMOVE", None, n), Step("SAVE", None, None),
                       Step("LIST", None, None), Step("redraw", None, None)>>
            IN  Head(q).op = "REMOVE" /\ PairedPlan(q)
<1>1. LET q == <<Step("SCAN", None, None)>> IN Head(q).op = "SCAN" /\ PairedPlan(q)
  BY DEF Step, PairedPlan
<1>2. LET q == <<Step("SELECT", None, n), Step("SAVE", None, None)>>
      IN  Head(q).op = "SELECT" /\ PairedPlan(q)
  BY DEF Step, PairedPlan
<1>3. LET q == <<Step("REMOVE", None, n), Step("SAVE", None, None),
                 Step("LIST", None, None), Step("redraw", None, None)>>
      IN  Head(q).op = "REMOVE" /\ PairedPlan(q)
  BY DEF Step, PairedPlan
<1> QED
  BY <1>1, <1>2, <1>3

Describes == DescribeInv /\ OrderInv /\ PromptInv /\ Stored

LEMMA TouchDescribes ==
  ASSUME TypeInv, Clean', Describes, Touches
  PROVE  Describes'
<1>1. /\ ~waiting["ui"] /\ todo["ui"] = <<>>
      /\ UNCHANGED <<waiting, nid, replies, cmds, nets>>
      /\ faults \subseteq faults'
  BY TouchFacts DEF sockets, supplicant
<1>2. TodoOK /\ PromptInv
  BY Parts DEF Describes
<1>3. "moved" \notin faults'
  BY DEF Clean
<1> DEFINE New(q) == (q = <<>> \/ Head(q).op \notin {"SSID", "KEY"}) /\ PairedPlan(q)
<1>4. ASSUME NEW q, Runs(q) PROVE todo'["ui"] = q
  BY <1>2, <1>4 DEF Runs, TodoOK, Threads
<1>5. ASSUME NEW s, NEW k \in {Open, s}, ConnectTo(s, k) PROVE New(todo'["ui"])
  BY <1>4, <1>5, ConnectPaired DEF ConnectTo
<1>6. ASSUME UNCHANGED todo PROVE New(todo'["ui"])
  BY <1>1, <1>6 DEF PairedPlan
<1>7. New(todo'["ui"]) /\ prompt' \in {None, selected_network'}
  <2>1. CASE \E i \in DOMAIN networks : HandleRow(i)
    BY <1>6, <2>1 DEF HandleRow
  <2>2. CASE Scan
    BY <1>2, <1>4, <2>2, OtherPaired DEF Scan, PromptInv
  <2>3. CASE PressConnect
    <3>1. prompt' \in {None, selected_network'}
      BY <1>3, <2>3 DEF PressConnect
    <3>2. New(todo'["ui"])
      BY <1>4, <1>5, <1>6, <2>3, OtherPaired DEF PressConnect
    <3> QED
      BY <3>1, <3>2
  <2>4. CASE PressForget
    <3>1. prompt' \in {None, selected_network'}
      BY <1>3, <2>4 DEF PressForget
    <3>2. New(todo'["ui"])
      BY <1>4, <1>6, <2>4, OtherPaired DEF PressForget
    <3> QED
      BY <3>1, <3>2
  <2>5. CASE EnterPassword
    BY <1>2, <1>5, <2>5 DEF EnterPassword, PromptInv
  <2>6. CASE Close
    BY <1>6, <2>6 DEF Close
  <2> QED
    BY <2>1, <2>2, <2>3, <2>4, <2>5, <2>6 DEF Touches
<1>8. OrderInv' /\ Stored' /\ \A i : Fresh(i) => Fresh(i)'
  BY <1>1, SameCommands DEF Describes
<1>9. DescribeInv'
  BY <1>1, <1>7, <1>8 DEF Describes, DescribeInv, At
<1> QED
  BY <1>7, <1>8, <1>9 DEF Describes, PromptInv

(* A step of a handler, its own or of the other thread, that leaves nid as   *)
(* it is.                                                                    *)
LEMMA StepDescribes ==
  ASSUME TypeInv, Describes, NEW t \in Threads, todo[t] /= <<>>,
         UNCHANGED <<nid, nets, prompt, selected_network>>,
         DOMAIN cmds' = DOMAIN cmds, \A i \in DOMAIN cmds : cmds'[i].step = cmds[i].step,
         \A i \in DOMAIN replies' : \E j \in DOMAIN replies : replies'[i] = replies[j],
         ~waiting'[t], \A u \in Threads : u /= t => todo'[u] = todo[u] /\ waiting'[u] = waiting[u],
         \/ todo'[t] = <<>>
         \/ /\ todo'[t] = Tail(todo[t])
            /\ Head(todo[t]).op /= "ADD"
            /\ Head(todo[t]).op = "SSID" => waiting[t]
         \/ \E op \in Reading : todo'[t] = Reaches(t, op)
  PROVE  Describes'
<1>1. Plan(t, todo[t]) /\ todo[t] \in Seq(Steps)
  BY Parts DEF TodoOK
<1>2. /\ OrderInv' /\ Stored' /\ (\A i : Fresh(i) => Fresh(i)') /\ (Quiet => Quiet')
      /\ (Unchanging => Unchanging') /\ (\A s : Named(s) => Named(s)')
  BY SameCommands DEF Describes
<1>3. (\A i \in DOMAIN replies :
         replies[i].by = "ui" /\ replies[i].op = "ADD" /\ replies[i].val /= None =>
           Fresh(replies[i].val))'
  <2>1. ASSUME NEW i \in DOMAIN replies',
               replies'[i].by = "ui" /\ replies'[i].op = "ADD" /\ replies'[i].val /= None
        PROVE  replies'[i].val \in Known' /\ nets'[replies'[i].val].key = None
    <3>1. PICK j \in DOMAIN replies : replies'[i] = replies[j]
      OBVIOUS
    <3>2. Fresh(replies[j].val)
      BY <2>1, <3>1 DEF Describes, DescribeInv
    <3>3. Fresh(replies[j].val) => replies[j].val \in Known' /\ nets'[replies[j].val].key = None
      BY <1>2 DEF Fresh
    <3> QED
      BY <3>1, <3>2, <3>3
  <2> QED
    BY <2>1 DEF Fresh
<1>4. CASE t /= "ui"
  <2>1. todo'["ui"] = todo["ui"] /\ waiting'["ui"] = waiting["ui"]
    BY <1>4 DEF Threads
  <2> QED
    BY <1>2, <1>3, <2>1 DEF Describes, DescribeInv, PromptInv, At
<1>5. CASE t = "ui"
  <2>1. PairedPlan(todo["ui"])
    BY DEF Describes, PromptInv
  <2>2. CASE todo'["ui"] = <<>>
    <3>1. PairedPlan(todo'["ui"])
      BY <2>2 DEF PairedPlan
    <3> QED
      BY <1>2, <1>3, <2>2, <3>1 DEF Describes, DescribeInv, PromptInv, At
  <2>3. CASE todo'["ui"] = Tail(todo["ui"]) /\ todo'["ui"] /= <<>> /\ Head(todo["ui"]).op /= "ADD"
             /\ (Head(todo["ui"]).op = "SSID" => waiting["ui"])
    <3>1. PairedPlan(todo'["ui"])
      BY <1>1, <1>5, <2>1, <2>3, PairedTail
    <3>2. /\ ~At("SSID")'
          /\ At("KEY")' => /\ At("SSID") /\ waiting["ui"]
                           /\ Head(todo'["ui"]).ssid \in {Open, Head(todo["ui"]).ssid}
      BY <1>1, <1>5, <2>1, <2>3, NextStep DEF At
    <3>3. ASSUME At("KEY")'
          PROVE  (nid.word /\ Unchanging
                  /\ (Head(todo["ui"]).ssid = Open \/ Named(Head(todo["ui"]).ssid)))'
      <4>1. nid.word /\ Unchanging /\ Named(Head(todo["ui"]).ssid)
        BY <3>2, <3>3 DEF Describes, DescribeInv
      <4>2. PICK k : k = Head(todo["ui"]).ssid
        OBVIOUS
      <4>3. Named(k)'
        BY <1>2, <4>1, <4>2
      <4> QED
        BY <1>2, <3>2, <3>3, <4>1, <4>2, <4>3
    <3> QED
      BY <1>2, <1>3, <3>1, <3>2, <3>3 DEF Describes, DescribeInv, PromptInv
  <2>4. ASSUME NEW op \in Reading, todo'["ui"] = Reaches("ui", op) PROVE Describes'
    <3>1. PairedPlan(todo'["ui"])
      BY <1>1, <1>5, <2>1, <2>4, PairedReaches DEF Reaches
    <3>2. Head(todo'["ui"]).op \in Reading
      <4>1. 1 \in DOMAIN todo["ui"] /\ Reaches("ui", op)[1] = Step(op, None, None)
        BY <1>1, <1>5, TailFacts DEF Reaches
      <4>2. Head(todo'["ui"]) = Step(op, None, None)
        BY <2>4, <4>1
      <4> QED
        BY <4>2 DEF Step
    <3> QED
      BY <1>2, <1>3, <3>1, <3>2 DEF Describes, DescribeInv, PromptInv, At
  <2> QED
    BY <1>5, <2>2, <2>3, <2>4
<1> QED
  BY <1>4, <1>5

LEMMA TakeDescribes ==
  ASSUME TypeInv, OneInv, LastInv, Clean', Describes, NEW t \in Threads, Take(t)
  PROVE  Describes'
<1>1. TodoOK
  BY Parts
<1>2. /\ todo[t] /= <<>> /\ waiting[t] /\ ~waiting'[t]
      /\ UNCHANGED <<nets, prompt, selected_network, cmds>>
      /\ todo'[t] = (IF Head(todo[t]).op = "LIST" THEN Reaches(t, "clear") ELSE Tail(todo[t]))
      /\ \A u \in Threads : u /= t => todo'[u] = todo[u] /\ waiting'[u] = waiting[u]
      /\ \A i \in DOMAIN replies' : i + 1 \in DOMAIN replies /\ replies'[i] = replies[i + 1]
  BY TakeFacts DEF panel, supplicant
<1>3. CASE Head(todo[t]).op /= "ADD"
  <2>1. nid' = nid
    BY <1>3 DEF Take
  <2> QED
    BY <1>2, <1>3, <2>1, StepDescribes
<1>4. CASE Head(todo[t]).op = "ADD"
  <2>1. t = "ui"
    BY <1>1, <1>2, <1>4, HeadFacts DEF Threads, Asking, Local
  <2>2. /\ Uncrossed /\ replies[1].by = "ui" /\ 1 \in DOMAIN replies
        /\ Head(replies) = replies[1] /\ replies[1] \in Replies
    BY <2>1, TakeFacts DEF Clean, Uncrossed
  <2>3. replies[1].op = "ADD"
    BY <1>4, <2>1, <2>2 DEF OneInv, OneReply, Threads
  <2>4. replies[1].val /= None
    BY <1>4, <2>2, <2>3 DEF Take, Clean
  <2>5. nid' = [id |-> replies[1].val, word |-> TRUE]
    BY <1>4, <2>2, <2>3, <2>4 DEF Take
  <2>6. Quiet /\ Fresh(replies[1].val)
    BY <2>2, <2>3, <2>4 DEF LastInv, Describes, DescribeInv
  <2>7. Quiet' /\ Fresh(nid.id)'
    BY <1>2, <2>5, <2>6 DEF Quiet, Op, Fresh, Known
  <2>8. OrderInv'
    BY <2>7 DEF Quiet, OrderInv, OrderAt, Writes
  <2>9. \A i \in DOMAIN replies' : replies'[i].by /= "ui"
    <3>1. ASSUME NEW i \in DOMAIN replies', replies'[i].by = "ui" PROVE FALSE
      <4>1. i + 1 \in DOMAIN replies /\ replies[i + 1].by = "ui"
        BY <1>2, <3>1
      <4>2. i + 1 = 1
        BY <2>2, <4>1 DEF OneInv, OneReply, Threads
      <4>3. i \in Nat /\ i >= 1
        <5>1. RepliesOK'
          BY TakeType, Parts, PTL
        <5> QED
          BY <3>1, <5>1 DEF RepliesOK
      <4> QED
        BY <4>2, <4>3
    <3> QED
      BY <3>1
  <2>10. Plan("ui", todo["ui"]) /\ PairedPlan(todo["ui"]) /\ todo'["ui"] = Tail(todo["ui"])
    BY <1>1, <1>2, <1>4, <2>1 DEF TodoOK, Describes, PromptInv
  <2>11. PairedPlan(todo'["ui"]) /\ ~At("KEY")'
    BY <1>2, <1>4, <2>1, <2>10, PairedTail, NextStep DEF At
  <2>12. Stored' /\ prompt' \in {None, selected_network'}
    BY <1>2 DEF Describes, Stored, Known, PromptInv
  <2>13. DescribeInv'
    BY <1>2, <2>1, <2>5, <2>7, <2>9, <2>11 DEF DescribeInv
  <2> QED
    BY <2>8, <2>11, <2>12, <2>13 DEF Describes, PromptInv
<1> QED
  BY <1>3, <1>4

LEMMA FailDescribes ==
  ASSUME TypeInv, Describes, NEW t \in Threads, Fail(t)
  PROVE  Describes'
<1>1. /\ todo[t] /= <<>> /\ waiting[t] /\ ~waiting'[t]
      /\ UNCHANGED <<nid, nets, prompt, selected_network>>
      /\ DOMAIN cmds' = DOMAIN cmds
      /\ \A i \in DOMAIN cmds : cmds'[i].step = cmds[i].step
      /\ DOMAIN replies' = {}
      /\ \A u \in Threads : u /= t => todo'[u] = todo[u] /\ waiting'[u] = waiting[u]
  BY FailFacts DEF panel, supplicant
<1>2. \/ todo'[t] = <<>>
      \/ todo'[t] = Reaches(t, "clear")
      \/ todo'[t] = Tail(todo[t]) /\ Head(todo[t]).op /= "ADD"
  BY FailFacts
<1> QED
  BY <1>1, <1>2, StepDescribes

LEMMA LocalDescribes ==
  ASSUME TypeInv, Describes, NEW t \in Threads, Clear(t) \/ Parse(t) \/ Redraw(t)
  PROVE  Describes'
<1>1. /\ todo[t] /= <<>> /\ Head(todo[t]).op \in Local /\ ~waiting'[t]
      /\ UNCHANGED <<nid, nets, prompt, selected_network, cmds, replies>>
      /\ todo'[t] \in {<<>>, Tail(todo[t]), Reaches(t, "parse")}
      /\ \A u \in Threads : u /= t => todo'[u] = todo[u] /\ waiting'[u] = waiting[u]
  BY LocalFacts DEF sockets, supplicant
<1>2. Head(todo[t]).op \notin {"ADD", "SSID"}
  BY <1>1 DEF Local
<1> QED
  BY <1>1, <1>2, StepDescribes

(* connect() sends the name and the key of the network it has added.         *)
LEMMA SendDescribes ==
  ASSUME TypeInv, OneInv, Clean', Describes, NEW t \in Threads, Send(t)
  PROVE  Describes'
<1> DEFINE s == Head(todo[t])
<1>1. /\ todo[t] /= <<>> /\ ~waiting[t] /\ s \in Steps /\ s.op \in Sent
      /\ UNCHANGED <<todo, replies, nid, nets, prompt, selected_network>>
      /\ \A u \in Threads : waiting'[u] <=> u = t \/ waiting[u]
      /\ faults \subseteq faults'
  BY SendFacts DEF supplicant
<1>2. PICK n \in Nat, c \in Commands :
        /\ c.by = t /\ c.step = Addressed(s)
        /\ n \in DOMAIN cmds' /\ cmds'[n] = c
        /\ \A i \in DOMAIN cmds : i \in DOMAIN cmds' /\ cmds'[i] = cmds[i] /\ i < n
        /\ \A i \in DOMAIN cmds' : i \in DOMAIN cmds \/ i = n
  BY SendFacts
<1>3. /\ c.step.op = s.op /\ c.step.ssid = s.ssid
      /\ s.op \in {"SSID", "KEY"} => c.step.net = IF nid.word THEN nid.id ELSE None
  BY <1>1, <1>2, Parts, AddressedFacts
<1>4. \A i \in DOMAIN cmds : i \in Nat
  BY NatIndex
<1>5. Uncrossed
  BY <1>1 DEF Clean, Uncrossed
<1>6. Known' = Known /\ \A i : Fresh(i) <=> Fresh(i)'
  BY <1>1 DEF Known, Fresh
<1>7. Stored' /\ PromptInv'
  BY <1>1, <1>6 DEF Describes, Stored, PromptInv
<1>8. t = "ui" => At(s.op) /\ (\A op : At(op) => op = s.op) /\ ~waiting["ui"]
  BY <1>1 DEF At
<1>9. t = "ev" => s.op \notin Writes
  BY <1>1, Parts, HeadFacts DEF Writes, Asking, Local, Sent
<1>10. ASSUME s.op /= "SSID", NEW k, Named(k) PROVE Named(k)'
  BY <1>1, <1>2, <1>3, <1>6, <1>10 DEF Named, Op
<1>11. /\ s.op \notin Writes => (Quiet => Quiet')
       /\ s.op \notin {"ADD", "REMOVE"} => (Unchanging => Unchanging')
  BY <1>2, <1>3 DEF Quiet, Unchanging, Op
<1>12. \A op : At(op)' <=> At(op)
  BY <1>1 DEF At
<1> HIDE DEF s
<1>13. CASE s.op = "SSID"
  <2>1. t = "ui" /\ At("SSID") /\ ~waiting["ui"] /\ ~At("KEY")
    BY <1>8, <1>9, <1>13 DEF Threads, Writes
  <2>2. nid.word /\ Quiet /\ Fresh(nid.id)
    BY <2>1 DEF Describes, DescribeInv
  <2>3. c.step.op = "SSID" /\ c.step.net = nid.id /\ c.step.ssid = s.ssid
    BY <1>3, <1>13, <2>2
  <2>4. \A i \in DOMAIN cmds : cmds[i].step.op \notin Writes
    BY <2>2 DEF Quiet, Op
  <2>5. OrderInv'
    BY <1>1, <1>2, <1>4, <1>6, <2>2, <2>3, <2>4 DEF OrderInv, OrderAt, Op, Writes
  <2>6. Unchanging'
    BY <1>2, <2>3, <2>4 DEF Unchanging, Op, Writes
  <2>7. Named(Head(todo["ui"]).ssid)'
    BY <1>1, <1>2, <2>1, <2>3 DEF Named, Op, s
  <2>8. DescribeInv'
    BY <1>1, <1>6, <1>12, <2>1, <2>2, <2>6, <2>7 DEF Describes, DescribeInv
  <2> QED
    BY <1>7, <2>5, <2>8 DEF Describes
<1>14. CASE s.op = "KEY"
  <2>1. t = "ui" /\ At("KEY") /\ ~waiting["ui"] /\ ~At("SSID")
    BY <1>8, <1>9, <1>14 DEF Threads, Writes
  <2>2. nid.word /\ Unchanging /\ (s.ssid = Open \/ Named(s.ssid))
    BY <2>1 DEF Describes, DescribeInv, s
  <2>3. c.step.op = "KEY" /\ c.step.net = nid.id /\ c.step.ssid = s.ssid
    BY <1>3, <1>14, <2>2
  <2>4. \A i \in DOMAIN cmds : cmds[i].step.op \notin {"ADD", "REMOVE"}
    BY <2>2 DEF Unchanging, Op
  <2>5. \A k : Named(k) => Named(k)'
    BY <1>10, <1>14
  <2>6. OrderInv'
    <3> SUFFICES ASSUME NEW i \in DOMAIN cmds'
                 PROVE  OrderAt(i)'
      BY DEF OrderInv, OrderAt
    <3>1. CASE i = n
      BY <1>1, <1>2, <1>4, <2>2, <2>3, <2>4, <2>5, <3>1 DEF Op, OrderAt
    <3>2. CASE i \in DOMAIN cmds
      <4>1. /\ cmds'[i] = cmds[i] /\ i < n /\ i \in Nat
            /\ \A j \in DOMAIN cmds' : j < i => j \in DOMAIN cmds /\ cmds'[j] = cmds[j]
            /\ \A j \in DOMAIN cmds' :
                 (j \in DOMAIN cmds /\ cmds'[j] = cmds[j]) \/ cmds'[j].step.op = "KEY"
        BY <1>2, <1>4, <2>3, <3>2
      <4>2. OrderInv
        BY DEF Describes
      <4>3. Fresh(nid.id) => Fresh(nid.id)'
        BY <1>1, <1>6 DEF Fresh
      <4> QED
        BY <1>1, <2>4, <2>5, <3>2, <4>1, <4>2, <4>3 DEF OrderInv, OrderAt, Op
    <3> QED
      BY <1>2, <3>1, <3>2
  <2>7. DescribeInv'
    BY <1>1, <1>6, <1>12, <2>1 DEF Describes, DescribeInv
  <2> QED
    BY <1>7, <2>6, <2>7 DEF Describes
<1>15. CASE s.op \notin {"SSID", "KEY"}
  <2>1. \A k : Named(k) => Named(k)'
    BY <1>10, <1>15
  <2>2. OrderInv'
    <3> SUFFICES ASSUME NEW i \in DOMAIN cmds', cmds'[i].step.op \in {"SSID", "KEY"}
                 PROVE  OrderAt(i)'
      BY DEF OrderInv, OrderAt, Op
    <3>1. i \in DOMAIN cmds /\ OrderInv
      BY <1>2, <1>3, <1>15 DEF Describes
    <3>2. /\ cmds'[i] = cmds[i] /\ i < n /\ i \in Nat
          /\ \A j \in DOMAIN cmds' : j < i => j \in DOMAIN cmds /\ cmds'[j] = cmds[j]
          /\ \A j \in DOMAIN cmds' : \/ j \in DOMAIN cmds /\ cmds'[j] = cmds[j]
                                    \/ cmds'[j].step.op \notin {"SSID", "KEY"}
      BY <1>2, <1>3, <1>4, <1>15, <3>1
    <3>3. Fresh(nid.id) => Fresh(nid.id)'
      BY <1>1, <1>6 DEF Fresh
    <3> QED
      BY <1>1, <2>1, <3>1, <3>2, <3>3 DEF OrderInv, OrderAt, Op
  <2>3. DescribeInv'
    <3>1. CASE t = "ui"
      <4>1. ~At("SSID") /\ ~At("KEY")
        BY <1>8, <1>15, <3>1
      <4> QED
        BY <1>1, <1>6, <1>12, <4>1 DEF Describes, DescribeInv
    <3>2. CASE t = "ev"
      <4>1. waiting'["ui"] = waiting["ui"] \/ (waiting'["ui"] <=> waiting["ui"])
        BY <1>1, <3>2 DEF Threads
      <4>2. (Quiet => Quiet') /\ (Unchanging => Unchanging')
        BY <1>9, <1>11, <3>2 DEF Writes
      <4> QED
        BY <1>1, <1>6, <1>12, <2>1, <4>1, <4>2 DEF Describes, DescribeInv
    <3> QED
      BY <3>1, <3>2 DEF Threads
  <2> QED
    BY <1>7, <2>2, <2>3 DEF Describes
<1> QED
  BY <1>13, <1>14, <1>15

(* The answers to ADD_NETWORK.                                               *)
LEMMA AddFacts ==
  ASSUME TypeInv, Serve, AddNetwork
  PROVE  \A i \in DOMAIN replies' :
           \/ i \in DOMAIN replies /\ replies'[i] = replies[i]
           \/ replies'[i].val = None /\ UNCHANGED nets
           \/ /\ replies'[i].val = NewId /\ NewId \in Ids
              /\ nets' = [nets EXCEPT ![NewId] = [ssid |-> None, key |-> None]]
<1>1. RepliesOK
  BY Parts
<1>2. PICK val : /\ Reply(val)
                 /\ \/ val = None /\ UNCHANGED nets
                    \/ /\ val = NewId /\ NewId \in Ids
                       /\ nets' = [nets EXCEPT ![NewId] = [ssid |-> None, key |-> None]]
  BY DEF AddNetwork
<1> DEFINE r == [by |-> Head(cmds).by, op |-> Head(cmds).step.op, val |-> val]
<1>3. replies' = Append(replies, r) /\ r.val = val
  BY <1>2 DEF Reply
<1> HIDE DEF r
<1>4. \A i \in DOMAIN replies' : (i \in DOMAIN replies /\ replies'[i] = replies[i]) \/ replies'[i] = r
  BY <1>1, <1>3 DEF RepliesOK
<1> QED
  BY <1>2, <1>3, <1>4

LEMMA ServeDescribes ==
  ASSUME TypeInv, LastInv, Clean, Describes, Serve
  PROVE  Describes'
<1> DEFINE op == Command.op
<1>1. /\ UNCHANGED <<todo, waiting, nid, prompt, selected_network>>
      /\ 1 \in DOMAIN cmds /\ cmds[1].step = Command
      /\ \A i \in DOMAIN cmds' : i + 1 \in DOMAIN cmds /\ cmds'[i] = cmds[i + 1]
      /\ \A i \in DOMAIN cmds : i = 1 \/ (i - 1 \in DOMAIN cmds' /\ cmds'[i - 1] = cmds[i])
  BY ServeFacts DEF threads, panel
<1>2. PICK n \in Nat, r \in Replies :
        /\ r.by = cmds[1].by /\ r.op = op
        /\ n \in DOMAIN replies' /\ replies'[n] = r
        /\ \A i \in DOMAIN replies : i \in DOMAIN replies' /\ replies'[i] = replies[i] /\ i < n
        /\ \A i \in DOMAIN replies' : i \in DOMAIN replies \/ i = n
  BY ServeFacts
<1>3. /\ \A i \in DOMAIN cmds : i \in Nat /\ i >= 1
      /\ \A i \in DOMAIN cmds' : i \in Nat /\ i >= 1
  <2>1. CommandsOK /\ CommandsOK'
    BY Parts, ServeParts
  <2> QED
    BY <2>1 DEF CommandsOK
<1>4. DescribeInv /\ OrderInv /\ PromptInv /\ Stored
  BY DEF Describes
<1>5. PromptInv'
  BY <1>1, <1>4 DEF PromptInv
<1>6. \A a : At(a)' <=> At(a)
  BY <1>1 DEF At
<1>7. (Quiet => Quiet') /\ (Unchanging => Unchanging')
  BY <1>1 DEF Quiet, Unchanging, Op
<1>8. op \in Writes => /\ ~Quiet
                       /\ \A i \in DOMAIN replies : replies[i].by /= "ui"
  BY <1>1 DEF Quiet, Op, LastInv, Clean, Uncrossed
<1>9. op \in {"ADD", "REMOVE"} =>
        ~Unchanging /\ \A i \in DOMAIN cmds : Op(i) \notin {"SSID", "KEY"}
  <2>1. ASSUME op \in {"ADD", "REMOVE"}, NEW i \in DOMAIN cmds, Op(i) \in {"SSID", "KEY"} PROVE FALSE
    <3>1. i /= 1
      BY <1>1, <2>1 DEF Op
    <3>2. 1 < i
      BY <1>3, <3>1
    <3> QED
      BY <1>1, <1>4, <2>1, <3>2 DEF OrderInv, OrderAt, Op
  <2> QED
    BY <1>1, <2>1 DEF Unchanging, Op
<1>10. op \in Writes \ {"ADD"} =>
         \A i \in DOMAIN replies' : ~(replies'[i].by = "ui" /\ replies'[i].op = "ADD")
  BY <1>2, <1>8
<1>11. ASSUME op \in {"ADD", "REMOVE"} PROVE OrderInv'
  BY <1>1, <1>9, <1>11 DEF OrderInv, OrderAt, Op
<1>12. ASSUME \A k : Named(k) => Named(k)',
              ASSUME NEW i \in DOMAIN cmds', cmds'[i].step.op = "SSID" PROVE Fresh(nid.id)'
       PROVE  OrderInv'
  <2> SUFFICES ASSUME NEW i \in DOMAIN cmds', cmds'[i].step.op \in {"SSID", "KEY"}
               PROVE  OrderAt(i)'
    BY DEF OrderInv, OrderAt, Op
  <2>1. i + 1 \in DOMAIN cmds /\ cmds'[i] = cmds[i + 1]
    BY <1>1
  <2>2. \A j \in DOMAIN cmds' : /\ j + 1 \in DOMAIN cmds /\ cmds'[j] = cmds[j + 1]
                                /\ j < i => j + 1 < i + 1
                                /\ j /= i => j + 1 /= i + 1
    BY <1>1, <1>3
  <2>3. cmds[i + 1].step.op = "KEY" =>
          cmds[i + 1].step.ssid = Open \/ Named(cmds[i + 1].step.ssid)
    BY <1>4, <2>1 DEF OrderInv, OrderAt, Op
  <2>4. cmds'[i].step.op = "KEY" =>
          (cmds[i].step.ssid = Open \/ Named(cmds[i].step.ssid))'
    BY <1>12, <2>1, <2>3
  <2> QED
    BY <1>1, <1>4, <1>12, <2>1, <2>2, <2>4 DEF OrderInv, OrderAt, Op
<1> HIDE DEF op
<1>13. CASE AddNetwork
  <2>1. op = "ADD"
    BY <1>13 DEF AddNetwork, op
  <2>2. /\ \A i \in Known : i \in Known' /\ nets'[i] = nets[i]
        /\ \A i \in Known' : i \in Known \/ nets'[i].key = None
        /\ \/ UNCHANGED nets
           \/ NewId \in Known' /\ nets'[NewId].key = None
    <3>1. CASE UNCHANGED nets
      BY <3>1 DEF Known
    <3>2. CASE /\ NewId \in Ids
               /\ nets' = [nets EXCEPT ![NewId] = [ssid |-> None, key |-> None]]
      <4>1. NewId \notin Known /\ [ssid |-> None, key |-> None] /= None
        BY <3>2, IdFacts, WifiAssumption
      <4>2. nets \in [Ids -> Networks \cup {None}]
        BY DEF TypeInv, TypeOK, SupplicantType
      <4> QED
        BY <3>2, <4>1, <4>2 DEF Known
    <3> QED
      BY <1>13, <3>1, <3>2 DEF AddNetwork
  <2>3. (\A i \in DOMAIN replies :
           replies[i].by = "ui" /\ replies[i].op = "ADD" /\ replies[i].val /= None =>
             Fresh(replies[i].val))'
    <3>1. ASSUME NEW i \in DOMAIN replies',
                 replies'[i].by = "ui" /\ replies'[i].op = "ADD" /\ replies'[i].val /= None
          PROVE  replies'[i].val \in Known' /\ nets'[replies'[i].val].key = None
      <4>1. CASE i \in DOMAIN replies /\ replies'[i] = replies[i]
        BY <1>4, <2>2, <3>1, <4>1 DEF DescribeInv, Fresh
      <4>2. CASE /\ replies'[i].val = NewId /\ NewId \in Ids
                 /\ nets' = [nets EXCEPT ![NewId] = [ssid |-> None, key |-> None]]
        <5>1. ~UNCHANGED nets
          <6>1. nets \in [Ids -> Networks \cup {None}] /\ NewId \notin Known
            BY IdFacts, <4>2 DEF TypeInv, TypeOK, SupplicantType
          <6>2. nets'[NewId] /= None
            BY <4>2, <6>1, WifiAssumption
          <6> QED
            BY <4>2, <6>1, <6>2 DEF Known
        <5> QED
          BY <2>2, <4>2, <5>1
      <4> QED
        BY <1>13, <3>1, <4>1, <4>2, AddFacts
    <3> QED
      BY <3>1 DEF Fresh
  <2>4. DescribeInv'
    BY <1>1, <1>4, <1>6, <1>8, <1>9, <2>1, <2>3 DEF DescribeInv, Writes
  <2>5. Stored'
    BY <1>4, <2>2 DEF Stored
  <2> QED
    BY <1>5, <1>11, <2>1, <2>4, <2>5 DEF Describes
<1>14. CASE SetSsid
  <2>1. op = "SSID" /\ nets' = [nets EXCEPT ![Command.net].ssid = Command.ssid]
    BY <1>14 DEF SetSsid, Names, op
  <2>2. /\ Command.net = nid.id /\ nid.id \in Known /\ nets[nid.id].key = None
        /\ \A i \in DOMAIN cmds : Op(i) = "SSID" => i = 1
    BY <1>1, <1>4, <2>1 DEF OrderInv, OrderAt, Op, op, Fresh
  <2>3. /\ Known' = Known /\ nets'[nid.id].ssid = Command.ssid /\ nets'[nid.id].key = None
        /\ \A i \in Known : i /= nid.id => nets'[i] = nets[i]
    <3>1. /\ nets \in [Ids -> Networks \cup {None}]
          /\ \A m \in Networks : m /= None
          /\ Command.ssid \in Ssids \cup {None}
      <4>1. Command.ssid \in Ssids \cup {None, Open} /\ Command.ssid /= Open
        BY <1>1, <2>1, Parts, CommandFacts DEF op, Serve
      <4> QED
        BY <4>1, WifiAssumption DEF TypeInv, TypeOK, SupplicantType, Networks
    <3>2. nets[nid.id] \in Networks /\ nid.id \in Ids
      BY <2>2, <3>1 DEF Known
    <3>3. [nets[nid.id] EXCEPT !.ssid = Command.ssid] \in Networks
      BY <3>1, <3>2 DEF Networks
    <3>4. nets' = [nets EXCEPT ![nid.id] = [nets[nid.id] EXCEPT !.ssid = Command.ssid]]
      BY <2>1, <2>2
    <3>5. nets'[nid.id] /= None /\ nets'[nid.id].ssid = Command.ssid /\ nets'[nid.id].key = None
      BY <2>2, <3>1, <3>2, <3>3, <3>4 DEF Networks
    <3> QED
      BY <2>2, <3>1, <3>2, <3>4, <3>5 DEF Known
  <2>4. \A i \in DOMAIN cmds' : cmds'[i].step.op /= "SSID"
    BY <1>1, <1>3, <2>2 DEF Op
  <2>5. ASSUME NEW k, Named(k) PROVE Named(k)'
    <3>1. k = Command.ssid
      BY <1>1, <2>1, <2>2, <2>5 DEF Named, Op, op
    <3> QED
      BY <1>1, <2>3, <2>4, <3>1 DEF Named, Op
  <2>6. OrderInv'
    BY <1>12, <2>4, <2>5
  <2>7. DescribeInv'
    BY <1>1, <1>4, <1>6, <1>7, <1>8, <1>10, <2>1, <2>5 DEF DescribeInv, Writes
  <2>8. Stored'
    BY <1>4, <2>3 DEF Stored
  <2> QED
    BY <1>5, <2>6, <2>7, <2>8 DEF Describes
<1>15. CASE SetKey
  <2>1. op = "KEY" /\ nets' \in {[nets EXCEPT ![Command.net].key = Command.ssid], nets}
    BY <1>15 DEF SetKey, Names, op
  <2>2. \A i \in DOMAIN cmds : Op(i) /= "SSID"
    <3>1. ASSUME NEW i \in DOMAIN cmds, Op(i) = "SSID" PROVE FALSE
      <4>1. 1 < i
        BY <1>1, <1>3, <2>1, <3>1 DEF Op, op
      <4> QED
        BY <1>1, <1>4, <2>1, <3>1, <4>1 DEF OrderInv, OrderAt, Op, op
    <3> QED
      BY <3>1
  <2>3. Command.net = nid.id /\ nid.id \in Known
    BY <1>1, <1>4, <1>15, <2>1 DEF OrderInv, OrderAt, Op, op, SetKey, Names
  <2>4. Command.ssid = Open \/ nets[nid.id].ssid = Command.ssid
    BY <1>1, <1>4, <2>1, <2>2, <2>3 DEF OrderInv, OrderAt, Op, op, Named
  <2>5. /\ Known' = Known /\ nets'[nid.id].ssid = nets[nid.id].ssid
        /\ nets'[nid.id].key \in {nets[nid.id].key, Command.ssid}
        /\ \A i \in Known : i /= nid.id => nets'[i] = nets[i]
    <3>1. CASE nets' = nets
      BY <3>1 DEF Known
    <3>2. CASE nets' = [nets EXCEPT ![Command.net].key = Command.ssid]
      <4>1. /\ nets \in [Ids -> Networks \cup {None}]
            /\ \A m \in Networks : m /= None
            /\ Command.ssid \in Ssids \cup {None, Open}
        <5>1. Command.ssid \in Ssids \cup {None, Open}
          BY Parts, CommandFacts DEF Serve
        <5> QED
          BY <5>1, WifiAssumption DEF TypeInv, TypeOK, SupplicantType, Networks
      <4>2. nets[nid.id] \in Networks /\ nid.id \in Ids
        BY <2>3, <4>1 DEF Known
      <4>3. [nets[nid.id] EXCEPT !.key = Command.ssid] \in Networks
        BY <4>1, <4>2 DEF Networks
      <4>4. nets' = [nets EXCEPT ![nid.id] = [nets[nid.id] EXCEPT !.key = Command.ssid]]
        BY <2>3, <3>2
      <4>5. nets'[nid.id] /= None /\ nets'[nid.id].ssid = nets[nid.id].ssid
            /\ nets'[nid.id].key = Command.ssid
        BY <4>1, <4>2, <4>3, <4>4 DEF Networks
      <4> QED
        BY <2>3, <4>1, <4>2, <4>4, <4>5 DEF Known
    <3> QED
      BY <2>1, <3>1, <3>2
  <2>6. \A i \in DOMAIN cmds' : cmds'[i].step.op /= "SSID"
    BY <1>1, <2>2 DEF Op
  <2>7. ASSUME NEW k, Named(k) PROVE Named(k)'
    BY <1>1, <2>2, <2>5, <2>6, <2>7 DEF Named, Op
  <2>8. OrderInv'
    BY <1>12, <2>6, <2>7
  <2>9. DescribeInv'
    BY <1>1, <1>4, <1>6, <1>7, <1>8, <1>10, <2>1, <2>7 DEF DescribeInv, Writes
  <2>10. Stored'
    BY <1>4, <2>3, <2>4, <2>5 DEF Stored
  <2> QED
    BY <1>5, <2>8, <2>9, <2>10 DEF Describes
<1>16. CASE RemoveNetwork
  <2>1. op = "REMOVE"
    BY <1>16 DEF RemoveNetwork, Names, op
  <2>2. \A i \in Known' : i \in Known /\ nets'[i] = nets[i]
    <3>1. nets \in [Ids -> Networks \cup {None}]
      BY DEF TypeInv, TypeOK, SupplicantType
    <3> QED
      BY <1>16, <3>1 DEF RemoveNetwork, Known
  <2>3. DescribeInv'
    BY <1>1, <1>6, <1>8, <1>9, <1>10, <1>4, <2>1 DEF DescribeInv, Writes
  <2>4. Stored'
    BY <1>4, <2>2 DEF Stored
  <2> QED
    BY <1>5, <1>11, <2>1, <2>3, <2>4 DEF Describes
<1>17. CASE SelectNetwork \/ NoSuchNetwork \/ Query
  <2>1. nets' = nets /\ op /= "ADD" /\ Known' = Known
    BY <1>17 DEF SelectNetwork, NoSuchNetwork, Query, Names, op, Known
  <2>2. op /= "SSID"
    <3>1. op = "SSID" => Command.net \notin Known
      BY <1>17 DEF SelectNetwork, NoSuchNetwork, Query, Names, op
    <3>2. op = "SSID" => Command.net = nid.id /\ nid.id \in Known
      BY <1>1, <1>4 DEF OrderInv, OrderAt, Op, op, Fresh
    <3> QED
      BY <3>1, <3>2
  <2>3. ASSUME NEW k, Named(k) PROVE Named(k)'
    <3>1. CASE \A i \in DOMAIN cmds : Op(i) /= "SSID"
      BY <1>1, <2>1, <2>3, <3>1 DEF Named, Op
    <3>2. ASSUME NEW i \in DOMAIN cmds, Op(i) = "SSID" /\ cmds[i].step.ssid = k PROVE Named(k)'
      <4>1. i - 1 \in DOMAIN cmds' /\ cmds'[i - 1] = cmds[i]
        BY <1>1, <2>2, <3>2 DEF Op, op
      <4> QED
        BY <3>2, <4>1 DEF Named, Op
    <3> QED
      BY <2>3, <3>1, <3>2 DEF Named
  <2>4. \A i : Fresh(i) => Fresh(i)'
    BY <2>1 DEF Fresh
  <2>5. ASSUME NEW i \in DOMAIN cmds', cmds'[i].step.op = "SSID" PROVE Fresh(nid.id)'
    <3>1. Fresh(nid.id)
      BY <1>1, <1>4, <2>5 DEF OrderInv, OrderAt, Op
    <3> QED
      BY <1>1, <2>1, <3>1 DEF Fresh
  <2>6. OrderInv'
    BY <1>12, <2>3, <2>5
  <2>7. (\A i \in DOMAIN replies :
           replies[i].by = "ui" /\ replies[i].op = "ADD" /\ replies[i].val /= None =>
             Fresh(replies[i].val))'
    BY <1>2, <1>4, <2>1 DEF DescribeInv, Fresh
  <2>8. DescribeInv'
    BY <1>1, <1>4, <1>6, <1>7, <2>3, <2>4, <2>7 DEF DescribeInv
  <2>9. Stored'
    BY <1>4, <2>1 DEF Stored
  <2> QED
    BY <1>5, <2>6, <2>8, <2>9 DEF Describes
<1> QED
  BY <1>13, <1>14, <1>15, <1>16, <1>17 DEF Serve

LEMMA PasswordStep ==
  TypeInv /\ OneInv /\ LastInv /\ PasswordInv /\ [Next]_vars => PasswordInv'
<1> SUFFICES ASSUME TypeInv, OneInv, LastInv, PasswordInv, [Next]_vars, Clean'
             PROVE  Describes'
  BY DEF PasswordInv, Describes
<1>1. Clean /\ Describes
  BY FaultsGrow DEF Clean, PasswordInv, Describes
<1>2. CASE Touches
  BY <1>1, <1>2, TouchDescribes
<1>3. ASSUME NEW t \in Threads, Answered(t) \/ Inside(t) PROVE Describes'
  BY <1>1, <1>3, TakeDescribes, FailDescribes, SendDescribes, LocalDescribes DEF Answered, Inside
<1>4. CASE Serve
  BY <1>1, <1>4, ServeDescribes
<1>5. CASE HandleEvent \/ ScanDone \/ Joined \/ Join \/ Leave \/ Die \/ UNCHANGED vars
  <2>1. /\ UNCHANGED <<nid, nets, prompt, selected_network, cmds, replies, waiting>>
        /\ todo'["ui"] = todo["ui"]
    <3>1. CASE HandleEvent
      BY <3>1, EventFacts DEF panel, supplicant
    <3>2. CASE ScanDone \/ Joined
      BY <3>2 DEF ScanDone, Joined, Emit, panel, threads, supplicant
    <3>3. CASE Join \/ Leave \/ Die
      BY <3>3 DEF Join, Leave, Moves, Die, panel, threads, sockets
    <3>4. CASE UNCHANGED vars
      BY <3>4 DEF vars, panel, threads, sockets, supplicant
    <3> QED
      BY <1>5, <3>1, <3>2, <3>3, <3>4
  <2>2. /\ OrderInv' /\ Stored' /\ (\A i : Fresh(i) => Fresh(i)') /\ (Quiet => Quiet')
        /\ (Unchanging => Unchanging') /\ (\A s : Named(s) => Named(s)')
    BY <1>1, <2>1, SameCommands DEF Describes
  <2>3. DescribeInv'
    BY <1>1, <2>1, <2>2 DEF Describes, DescribeInv, At
  <2> QED
    BY <1>1, <2>1, <2>2, <2>3 DEF Describes, PromptInv
<1> QED
  BY <1>2, <1>3, <1>4, <1>5 DEF Next, Touches

(* A password is stored with the network its prompt named: ADD_NETWORK,      *)
(* SET_NETWORK ssid and SET_NETWORK psk speak of one network, whatever the   *)
(* event thread sends in between and however many requests time out.         *)
THEOREM PasswordSafe == Spec => []PasswordWhereTyped
<1>1. Init => OneInv /\ LastInv /\ PasswordInv
  <2> SUFFICES ASSUME Init PROVE OneInv /\ LastInv /\ PasswordInv
    OBVIOUS
  <2>1. /\ DOMAIN cmds = {} /\ DOMAIN replies = {} /\ prompt = None
        /\ todo["ui"] = <<>> /\ Stored
    <3>1. Stored
      BY InitSupplicant DEF Stored
    <3> QED
      BY <3>1 DEF Init, Threads
  <2>2. OneInv /\ LastInv
    BY <2>1 DEF OneInv, OneCommand, OneReply, LastInv
  <2>3. DescribeInv /\ OrderInv /\ PromptInv /\ Stored
    BY <2>1 DEF DescribeInv, OrderInv, OrderAt, PromptInv, PairedPlan, At
  <2> QED
    BY <2>2, <2>3 DEF PasswordInv
<1>2. PasswordInv => PasswordWhereTyped
  BY DEF PasswordInv, PasswordWhereTyped, Clean, Stored
<1> QED
  BY <1>1, <1>2, InitType, TypeStep, OneStep, LastStep, PasswordStep, PTL DEF Spec

-----------------------------------------------------------------------------
(* The current network. *)

LEMMA SoundFacts ==
  ASSUME [Next]_vars, Sound'
  PROVE  Sound /\ Uncrossed /\ Uncrossed' /\ \A t \in Threads : ~Fail(t)
<1>1. Sound /\ Uncrossed /\ Uncrossed'
  BY FaultsGrow DEF Sound, Uncrossed
<1>2. ASSUME NEW t \in Threads, Fail(t) PROVE FALSE
  BY <1>2 DEF Fail, Sound
<1> QED
  BY <1>1, <1>2

LEMMA OwnedStep ==
  ASSUME TypeInv, Owned, [Next]_vars, Sound'
  PROVE  Owned'
<1>1. ASSUME NEW t \in Threads, Take(t) PROVE Owned'
  BY <1>1, TakeFacts DEF Owned
<1>2. ASSUME NEW t \in Threads, Send(t) PROVE Owned'
  <2>1. PICK n \in Nat, c \in Commands :
          /\ c.by = t /\ c.step = Addressed(Head(todo[t]))
          /\ n \in DOMAIN cmds' /\ cmds'[n] = c
          /\ \A i \in DOMAIN cmds : i \in DOMAIN cmds' /\ cmds'[i] = cmds[i] /\ i < n
          /\ \A i \in DOMAIN cmds' : i \in DOMAIN cmds \/ i = n
    BY <1>2, SendFacts
  <2>2. replies' = replies
    BY <1>2, SendFacts
  <2> QED
    BY <2>1, <2>2 DEF Owned
<1>3. CASE Serve
  <2>1. /\ 1 \in DOMAIN cmds
        /\ \A i \in DOMAIN cmds' : i + 1 \in DOMAIN cmds /\ cmds'[i] = cmds[i + 1]
    BY <1>3, ServeFacts
  <2>2. PICK n \in Nat, r \in Replies :
          /\ r.by = cmds[1].by /\ r.op = Command.op
          /\ n \in DOMAIN replies' /\ replies'[n] = r
          /\ \A i \in DOMAIN replies : i \in DOMAIN replies' /\ replies'[i] = replies[i] /\ i < n
          /\ \A i \in DOMAIN replies' : i \in DOMAIN replies \/ i = n
    BY <1>3, ServeFacts
  <2> QED
    BY <2>1, <2>2 DEF Owned
<1>4. CASE UNCHANGED <<cmds, replies>>
  BY <1>4 DEF Owned
<1>5. CASE Touches
  BY <1>4, <1>5, TouchFacts DEF sockets
<1>6. ASSUME NEW t \in Threads, Clear(t) \/ Parse(t) \/ Redraw(t) PROVE Owned'
  BY <1>4, <1>6, LocalFacts DEF sockets
<1>7. CASE HandleEvent
  BY <1>4, <1>7, EventFacts
<1>8. CASE ScanDone \/ Joined \/ Join \/ Leave \/ Die \/ UNCHANGED vars
  BY <1>4, <1>8 DEF ScanDone, Joined, Join, Moves, Emit, Leave, Die, vars, sockets
<1> QED
  BY <1>1, <1>2, <1>3, <1>5, <1>6, <1>7, <1>8, SoundFacts DEF Next, Touches, Answered, Inside

(* No step of a plan but the first is the reading of an answer.              *)
LEMMA NeverReadsNext ==
  ASSUME NEW t, NEW q, Plan(t, q), q /= <<>>, Tail(q) /= <<>>
  PROVE  Head(Tail(q)).op \notin Reading
<1>1. q \in Seq(Steps)
  BY DEF Plan
<1>2. /\ Tail(q) \in Seq(Steps)
      /\ \A i \in DOMAIN Tail(q) : i + 1 \in DOMAIN q /\ Tail(q)[i] = q[i + 1]
  BY <1>1, TailFacts
<1>3. 1 \in DOMAIN Tail(q) /\ Tail(q)[1] = Head(Tail(q))
  BY <1>2, TailFacts
<1>4. 1 + 1 \in DOMAIN q /\ Head(Tail(q)) = q[1 + 1] /\ 1 + 1 /= 1
  BY <1>2, <1>3
<1> QED
  BY <1>4 DEF Plan, Planned

LEMMA ReachesHead ==
  ASSUME NEW t \in Threads, todo \in [Threads -> Seq(Steps)], todo[t] /= <<>>, NEW op
  PROVE  Reaches(t, op) /= <<>> /\ Head(Reaches(t, op)).op = op
<1>1. 1 \in DOMAIN todo[t] /\ Reaches(t, op)[1] = Step(op, None, None)
  BY TailFacts DEF Reaches
<1>2. DOMAIN Reaches(t, op) = DOMAIN todo[t] /\ Reaches(t, op) /= <<>>
  BY <1>1 DEF Reaches
<1> QED
  BY <1>1, <1>2 DEF Step

(* How a touch begins.                                                       *)
LEMMA TouchStarts ==
  ASSUME TypeInv, Touches
  PROVE  todo'["ui"] = <<>> \/ Head(todo'["ui"]).op \in {"SCAN", "ADD", "SELECT", "REMOVE"}
<1>1. TodoOK /\ todo["ui"] = <<>>
  BY Parts, TouchLeaves
<1>2. ASSUME NEW q, Runs(q) PROVE todo'["ui"] = q
  BY <1>1, <1>2 DEF Runs, TodoOK, Threads
<1>3. ASSUME NEW s, NEW k, ConnectTo(s, k) PROVE Head(todo'["ui"]).op = "ADD"
  BY <1>2, <1>3 DEF ConnectTo, Step
<1>4. CASE UNCHANGED todo
  BY <1>1, <1>4
<1>5. CASE Scan
  BY <1>2, <1>5, OtherPaired DEF Scan
<1>6. CASE PressConnect
  BY <1>2, <1>3, <1>4, <1>6, OtherPaired DEF PressConnect
<1>7. CASE PressForget
  BY <1>2, <1>4, <1>7, OtherPaired DEF PressForget
<1>8. CASE EnterPassword
  BY <1>3, <1>8 DEF EnterPassword
<1> QED
  BY <1>4, <1>5, <1>6, <1>7, <1>8 DEF Touches, Close, HandleRow

(* One thread at a time is inside find_current_network.                      *)
LEMMA AloneStep ==
  ASSUME TypeInv, Alone, [Next]_vars, Sound'
  PROVE  Alone'
<1>1. TodoOK
  BY Parts
<1>2. ASSUME \A t \in Threads : Reads(t)' => Reads(t) PROVE Alone'
  BY <1>2 DEF Alone
<1>3. ASSUME NEW t \in Threads, Take(t) PROVE Alone'
  <2>1. /\ todo[t] /= <<>> /\ waiting[t] /\ ~waiting'[t]
        /\ todo'[t] = (IF Head(todo[t]).op = "LIST" THEN Reaches(t, "clear") ELSE Tail(todo[t]))
        /\ \A u \in Threads : u /= t => todo'[u] = todo[u] /\ waiting'[u] = waiting[u]
    BY <1>3, TakeFacts
  <2>2. Plan(t, todo[t])
    BY <1>1 DEF TodoOK
  <2>3. Head(todo[t]).op /= "LIST" => ~Reads(t)'
    BY <2>1, <2>2, NeverReadsNext DEF Reads, Parsing
  <2> QED
    BY <1>2, <2>1, <2>3 DEF Reads, Parsing
<1>4. ASSUME NEW t \in Threads, Send(t) PROVE Alone'
  <2>1. /\ todo' = todo /\ \A u \in Threads : waiting'[u] <=> u = t \/ waiting[u]
    BY <1>4, SendFacts
  <2>2. CASE Head(todo[t]).op /= "LIST"
    BY <1>2, <2>1, <2>2 DEF Reads, Parsing
  <2>3. CASE Head(todo[t]).op = "LIST"
    <3>1. ASSUME NEW u \in Threads, u /= t, Reads(u) PROVE FALSE
      <4>1. Listing(u)
        BY <1>1, <3>1 DEF Reads, Parsing, Listing, TodoOK
      <4> QED
        BY <1>4, <2>3, <3>1, <4>1 DEF Send, Sound
    <3>2. \A u \in Threads : u /= t => ~Reads(u)'
      BY <2>1, <3>1 DEF Reads, Parsing
    <3> QED
      BY <3>2 DEF Alone
  <2> QED
    BY <2>2, <2>3
<1>5. ASSUME NEW t \in Threads, Clear(t) \/ Parse(t) \/ Redraw(t) PROVE Alone'
  <2>1. /\ todo[t] /= <<>> /\ ~waiting'[t]
        /\ Clear(t) \/ todo'[t] \in {<<>>, Tail(todo[t])}
        /\ \A u \in Threads : u /= t => todo'[u] = todo[u] /\ waiting'[u] = waiting[u]
    BY <1>5, LocalFacts
  <2>2. Plan(t, todo[t])
    BY <1>1 DEF TodoOK
  <2>3. Reads(t)' => Reads(t)
    <3>1. CASE Clear(t)
      BY <2>1, <3>1 DEF Reads, Parsing, Clear
    <3>2. CASE todo'[t] \in {<<>>, Tail(todo[t])}
      BY <2>1, <2>2, <3>2, NeverReadsNext DEF Reads, Parsing
    <3> QED
      BY <2>1, <3>1, <3>2
  <2> QED
    BY <1>2, <2>1, <2>3 DEF Reads, Parsing
<1>6. CASE Touches
  <2>1. ~waiting'["ui"] /\ todo'["ev"] = todo["ev"] /\ waiting' = waiting
    BY <1>6, TouchFacts
  <2>2. ~Reads("ui")'
    BY <1>6, <2>1, TouchStarts DEF Reads, Parsing
  <2> QED
    BY <1>2, <2>1, <2>2 DEF Reads, Parsing, Threads
<1>7. CASE HandleEvent
  <2>1. ~waiting'["ev"] /\ todo'["ui"] = todo["ui"] /\ waiting' = waiting
    BY <1>7, EventFacts
  <2>2. Head(todo'["ev"]).op \in {"RESULTS", "LIST"}
    BY <1>1, <1>7 DEF HandleEvent, TodoOK, Threads, Step
  <2>3. ~Reads("ev")'
    BY <2>1, <2>2 DEF Reads, Parsing
  <2> QED
    BY <1>2, <2>1, <2>3 DEF Reads, Parsing, Threads
<1>8. CASE UNCHANGED <<todo, waiting>>
  BY <1>2, <1>8 DEF Reads, Parsing
<1>9. CASE Serve
  BY <1>8, <1>9, ServeFacts DEF threads
<1>10. CASE ScanDone \/ Joined \/ Join \/ Leave \/ Die \/ UNCHANGED vars
  BY <1>8, <1>10 DEF ScanDone, Joined, Join, Moves, Emit, Leave, Die, vars, threads
<1> QED
  BY <1>3, <1>4, <1>5, <1>6, <1>7, <1>9, <1>10, SoundFacts DEF Next, Touches, Answered, Inside

(* A command or answer that is no question is the one the screen waits for.  *)
LEMMA UiFacts ==
  ASSUME TypeInv, OneInv, Uncrossed, Owned
  PROVE  /\ \A i \in DOMAIN cmds : Op(i) \notin Asking =>
              cmds[i].by = "ui" /\ At(Op(i)) /\ waiting["ui"]
         /\ \A i \in DOMAIN replies : replies[i].op \notin Asking =>
              replies[i].by = "ui" /\ At(replies[i].op) /\ waiting["ui"]
<1>1. TodoOK /\ CommandsOK
  BY Parts
<1>2. \A t \in Threads : OneCommand(t) /\ OneReply(t)
  BY DEF OneInv
<1>3. \A t \in Threads : waiting[t] => todo[t] /= <<>>
  BY <1>1 DEF TodoOK
<1>4. ASSUME NEW i \in DOMAIN cmds, Op(i) \notin Asking
      PROVE  cmds[i].by = "ui" /\ At(Op(i)) /\ waiting["ui"]
  <2>1. cmds[i].by = "ui"
    BY <1>1, <1>4 DEF CommandsOK, Op, Owned, Threads
  <2> QED
    BY <1>2, <1>3, <2>1 DEF OneCommand, At, Threads
<1>5. ASSUME NEW i \in DOMAIN replies, replies[i].op \notin Asking
      PROVE  replies[i].by = "ui" /\ At(replies[i].op) /\ waiting["ui"]
  <2>1. replies[i].by /= "ev"
    <3>1. ASSUME replies[i].by = "ev" PROVE FALSE
      <4>1. waiting["ev"] /\ replies[i].op = Head(todo["ev"]).op /\ "ev" \in Threads
        BY <1>2, <3>1 DEF OneReply, Threads
      <4>2. todo["ev"] /= <<>> /\ Head(todo["ev"]).op \in Sent
        BY <1>1, <4>1 DEF TodoOK
      <4>3. Head(todo["ev"]).op \in Asking \cup Local
        BY <1>1, <4>1, <4>2, HeadFacts
      <4> QED
        BY <1>5, <4>1, <4>2, <4>3 DEF Sent, Plain, Local
    <3> QED
      BY <3>1
  <2>2. replies[i].by = "ui"
    BY <2>1 DEF Owned, Threads
  <2> QED
    BY <1>2, <1>3, <2>2 DEF OneReply, At, Threads
<1> QED
  BY <1>4, <1>5

(* The network connect() describes is never the selected one.                *)
LEMMA NewStep ==
  ASSUME TypeInv, OneInv, Owned, NewIsIdle, [Next]_vars, Sound'
  PROVE  NewIsIdle'
<1>1. TodoOK /\ LocalsOK /\ Uncrossed
  BY Parts, SoundFacts
<1>2. /\ \A i \in DOMAIN cmds : Op(i) \notin Asking =>
           cmds[i].by = "ui" /\ At(Op(i)) /\ waiting["ui"]
      /\ \A i \in DOMAIN replies : replies[i].op \notin Asking =>
           replies[i].by = "ui" /\ At(replies[i].op) /\ waiting["ui"]
  BY <1>1, UiFacts
<1>3. /\ At("SSID") => nid.id \notin enabled
      /\ \A i \in DOMAIN cmds : Op(i) = "SSID" => cmds[i].step.net \in {nid.id, None}
      /\ \A i \in DOMAIN replies :
           replies[i].op = "ADD" /\ replies[i].val /= None => replies[i].val \notin enabled
  BY DEF NewIsIdle
<1>4. nid.id \in Ids /\ None \notin Ids
  BY <1>1, IdFacts DEF LocalsOK
<1>5. CASE UNCHANGED <<cmds, replies, nid, enabled>> /\ (At("SSID")' => At("SSID"))
  BY <1>3, <1>5 DEF NewIsIdle, Op
<1>6. CASE Touches
  <2>1. UNCHANGED <<cmds, replies, nid, enabled>>
    BY <1>6, TouchFacts DEF sockets, supplicant
  <2>2. ~At("SSID")'
    BY <1>6, TouchStarts DEF At
  <2> QED
    BY <1>5, <2>1, <2>2
<1>7. ASSUME NEW t \in Threads, Take(t) PROVE NewIsIdle'
  <2>1. /\ todo[t] /= <<>> /\ waiting[t] /\ Head(todo[t]).op \in Sent
        /\ UNCHANGED <<cmds, enabled>>
        /\ todo'[t] = (IF Head(todo[t]).op = "LIST" THEN Reaches(t, "clear") ELSE Tail(todo[t]))
        /\ \A u \in Threads : u /= t => todo'[u] = todo[u]
        /\ \A i \in DOMAIN replies' : i + 1 \in DOMAIN replies /\ replies'[i] = replies[i + 1]
        /\ 1 \in DOMAIN replies /\ Head(replies) = replies[1] /\ replies[1].by = t
    BY <1>7, TakeFacts, SoundFacts DEF supplicant
  <2>2. Plan(t, todo[t]) /\ todo \in [Threads -> Seq(Steps)]
    BY <1>1 DEF TodoOK
  <2>3. \A i \in DOMAIN replies' :
          replies'[i].op = "ADD" /\ replies'[i].val /= None => replies'[i].val \notin enabled'
    BY <1>3, <2>1
  <2>4. CASE Head(todo[t]).op /= "ADD"
    <3>1. nid' = nid
      BY <1>7, <2>4 DEF Take
    <3>2. At("SSID")' => At("SSID")
      <4>1. t = "ui" => ~At("SSID")'
        <5>1. CASE Head(todo[t]).op = "LIST"
          BY <2>1, <2>2, <5>1, ReachesHead DEF At
        <5>2. CASE Head(todo[t]).op /= "LIST"
          <6>1. ASSUME t = "ui", At("SSID")' PROVE FALSE
            <7>1. todo'["ui"] = Tail(todo["ui"]) /\ todo["ui"] /= <<>> /\ Plan("ui", todo["ui"])
              BY <2>1, <2>2, <5>2, <6>1
            <7>2. Tail(todo["ui"]) /= <<>> /\ Head(Tail(todo["ui"])).op = "SSID"
              BY <6>1, <7>1 DEF At
            <7>3. Head(todo["ui"]).op = "ADD"
              BY <7>1, <7>2, NextStep
            <7> QED
              BY <2>4, <6>1, <7>3
          <6> QED
            BY <6>1
        <5> QED
          BY <5>1, <5>2
      <4>2. t /= "ui" => todo'["ui"] = todo["ui"]
        BY <2>1 DEF Threads
      <4> QED
        BY <4>1, <4>2 DEF At
    <3> QED
      BY <1>3, <2>1, <2>3, <3>1, <3>2 DEF NewIsIdle, Op
  <2>5. CASE Head(todo[t]).op = "ADD"
    <3>1. t = "ui"
      BY <1>1, <2>1, <2>5, HeadFacts DEF Threads, Asking, Local
    <3>2. At("ADD") /\ ~At("SSID")
      BY <2>1, <2>5, <3>1 DEF At
    <3>3. \A i \in DOMAIN cmds : Op(i) /= "SSID"
      BY <1>2, <3>2 DEF Asking, At
    <3>4. replies[1].op = "ADD"
      BY <1>1, <2>1, <2>5 DEF OneInv, OneReply
    <3>5. replies[1].val /= None
      BY <1>7, <2>1, <2>5, <3>4 DEF Take, Sound
    <3>6. nid' = [id |-> replies[1].val, word |-> TRUE]
      BY <1>7, <2>1, <2>5, <3>4, <3>5 DEF Take
    <3>7. nid'.id \notin enabled'
      BY <1>3, <2>1, <3>4, <3>5, <3>6
    <3> QED
      BY <2>1, <2>3, <3>3, <3>7 DEF NewIsIdle, Op
  <2> QED
    BY <2>4, <2>5
<1>8. ASSUME NEW t \in Threads, Send(t) PROVE NewIsIdle'
  <2>1. /\ Head(todo[t]) \in Steps /\ UNCHANGED <<todo, replies, nid, enabled>>
    BY <1>8, SendFacts DEF supplicant
  <2>2. PICK n \in Nat, c \in Commands :
          /\ c.by = t /\ c.step = Addressed(Head(todo[t]))
          /\ n \in DOMAIN cmds' /\ cmds'[n] = c
          /\ \A i \in DOMAIN cmds : i \in DOMAIN cmds' /\ cmds'[i] = cmds[i] /\ i < n
          /\ \A i \in DOMAIN cmds' : i \in DOMAIN cmds \/ i = n
    BY <1>8, SendFacts
  <2>3. c.step.op = "SSID" => c.step.net \in {nid.id, None}
    BY <1>1, <2>1, <2>2, AddressedFacts
  <2> QED
    BY <1>3, <2>1, <2>2, <2>3 DEF NewIsIdle, Op, At
<1>9. ASSUME NEW t \in Threads, Clear(t) \/ Parse(t) \/ Redraw(t) PROVE NewIsIdle'
  <2>1. /\ todo[t] /= <<>> /\ Head(todo[t]).op \in Local
        /\ todo'[t] \in {<<>>, Tail(todo[t]), Reaches(t, "parse")}
        /\ \A u \in Threads : u /= t => todo'[u] = todo[u]
        /\ UNCHANGED <<cmds, replies, nid, enabled>>
    BY <1>9, LocalFacts DEF sockets, supplicant
  <2>2. Plan(t, todo[t]) /\ todo \in [Threads -> Seq(Steps)]
    BY <1>1 DEF TodoOK
  <2>3. t = "ui" => ~At("SSID")'
    <3>1. CASE todo'[t] = Reaches(t, "parse")
      BY <2>1, <2>2, <3>1, ReachesHead DEF At
    <3>2. CASE todo'[t] \in {<<>>, Tail(todo[t])}
      BY <2>1, <2>2, <3>2, NextStep DEF At, Local
    <3> QED
      BY <2>1, <3>1, <3>2
  <2>4. t /= "ui" => todo'["ui"] = todo["ui"]
    BY <2>1 DEF Threads
  <2> QED
    BY <1>5, <2>1, <2>3, <2>4 DEF At
<1>10. CASE HandleEvent \/ ScanDone \/ Joined \/ Join \/ Leave \/ Die \/ UNCHANGED vars
  <2>1. UNCHANGED <<cmds, replies, nid, enabled>> /\ todo'["ui"] = todo["ui"]
    <3>1. CASE HandleEvent
      BY <3>1, EventFacts DEF supplicant
    <3>2. CASE ScanDone \/ Joined \/ Join \/ Leave \/ Die \/ UNCHANGED vars
      BY <3>2 DEF ScanDone, Joined, Join, Moves, Emit, Leave, Die, vars, threads, sockets, supplicant
    <3> QED
      BY <1>10, <3>1, <3>2
  <2> QED
    BY <1>5, <2>1 DEF At
<1>11. CASE Serve
  <2>1. /\ UNCHANGED <<todo, nid>>
        /\ 1 \in DOMAIN cmds /\ cmds[1].step = Command
        /\ \A i \in DOMAIN cmds' : i + 1 \in DOMAIN cmds /\ cmds'[i] = cmds[i + 1]
    BY <1>11, ServeFacts DEF threads
  <2>2. PICK n \in Nat, r \in Replies :
          /\ r.by = cmds[1].by /\ r.op = Command.op
          /\ n \in DOMAIN replies' /\ replies'[n] = r
          /\ \A i \in DOMAIN replies : i \in DOMAIN replies' /\ replies'[i] = replies[i] /\ i < n
          /\ \A i \in DOMAIN replies' : i \in DOMAIN replies \/ i = n
    BY <1>11, ServeFacts
  <2>3. enabled \subseteq Known
    BY DEF TypeInv, TypeOK, SupplicantType
  <2>4. \A i \in DOMAIN cmds' : cmds'[i].step.op = "SSID" => cmds'[i].step.net \in {nid'.id, None}
    BY <1>3, <2>1 DEF Op
  <2>5. CASE AddNetwork
    <3>1. \A i \in DOMAIN replies' :
            replies'[i].op = "ADD" /\ replies'[i].val /= None => replies'[i].val \notin enabled
      BY <1>3, <1>4, <1>11, <2>3, <2>5, AddFacts, IdFacts
    <3>2. enabled' = enabled
      BY <2>5 DEF AddNetwork
    <3> QED
      BY <1>3, <2>1, <2>4, <3>1, <3>2 DEF NewIsIdle, At, Op
  <2>6. CASE Command.op /= "ADD" /\ enabled' = enabled
    BY <1>3, <2>1, <2>2, <2>4, <2>6 DEF NewIsIdle, At, Op
  <2>7. CASE SelectNetwork
    <3>1. At("SELECT")
      BY <1>2, <2>1, <2>7 DEF SelectNetwork, Names, Op, Asking
    <3>2. ~At("SSID") /\ ~At("ADD") /\ Command.op /= "ADD"
      BY <2>7, <3>1 DEF At, SelectNetwork, Names
    <3>3. \A i \in DOMAIN replies : replies[i].op /= "ADD"
      BY <1>2, <3>2 DEF Asking
    <3> QED
      BY <2>1, <2>2, <2>4, <3>2, <3>3 DEF NewIsIdle, At, Op
  <2>8. CASE RemoveNetwork
    <3>1. enabled' \subseteq enabled /\ Command.op /= "ADD"
      BY <2>8 DEF RemoveNetwork, Names
    <3> QED
      BY <1>3, <1>4, <2>1, <2>2, <2>4, <3>1 DEF NewIsIdle, At, Op
  <2>9. SetSsid \/ SetKey \/ NoSuchNetwork \/ Query => Command.op /= "ADD" /\ enabled' = enabled
    BY DEF SetSsid, SetKey, NoSuchNetwork, Query, Names
  <2> QED
    BY <1>11, <2>5, <2>6, <2>7, <2>8, <2>9 DEF Serve
<1> QED
  BY <1>6, <1>7, <1>8, <1>9, <1>10, <1>11, SoundFacts DEF Next, Touches, Answered, Inside

(* A LIST_NETWORKS that is still to come stays so when its handler goes on.  *)
LEMMA StillAsks ==
  ASSUME NEW t \in Threads, todo \in [Threads -> Seq(Steps)],
         NEW i \in DOMAIN todo[t], todo[t][i].op = "LIST", i /= 1,
         todo'[t] \in {Tail(todo[t]), Reaches(t, "clear")},
         \A j \in DOMAIN replies' : replies'[j].by /= t
  PROVE  Asks(t)'
<1>1. todo[t] \in Seq(Steps) /\ todo[t] /= <<>> /\ i > 1
  OBVIOUS
<1>2. CASE todo'[t] = Tail(todo[t])
  <2>1. i - 1 \in DOMAIN Tail(todo[t]) /\ Tail(todo[t])[i - 1] = todo[t][i]
    BY <1>1, TailFacts
  <2> QED
    BY <1>2, <2>1 DEF Asks
<1>3. CASE todo'[t] = Reaches(t, "clear")
  <2>1. DOMAIN Reaches(t, "clear") = DOMAIN todo[t] /\ Reaches(t, "clear")[i] = todo[t][i]
    BY DEF Reaches
  <2> QED
    BY <1>3, <2>1 DEF Asks
<1> QED
  BY <1>2, <1>3

LEMMA SameSsid ==
  ASSUME UNCHANGED current, current /= None => nets'[current].ssid = nets[current].ssid
  PROVE  SsidOf(current)' = SsidOf(current)
BY DEF SsidOf

(* An answer: the list of networks, or another.                              *)
LEMMA TakeKnows ==
  ASSUME TypeInv, OneInv, Knows, Uncrossed, Uncrossed', NEW t \in Threads, Take(t)
  PROVE  Knows'
<1> DEFINE op == Head(todo[t]).op
<1>1. TodoOK
  BY Parts
<1>2. /\ todo[t] /= <<>> /\ waiting[t] /\ op \in Sent
      /\ UNCHANGED <<events, untold, cur_network, current, nets>>
      /\ todo'[t] = (IF op = "LIST" THEN Reaches(t, "clear") ELSE Tail(todo[t]))
      /\ \A u \in Threads : u /= t => todo'[u] = todo[u]
      /\ \A i \in DOMAIN replies' : i + 1 \in DOMAIN replies /\ replies'[i] = replies[i + 1]
      /\ \A i \in DOMAIN replies : i = 1 \/ (i - 1 \in DOMAIN replies' /\ replies'[i - 1] = replies[i])
      /\ 1 \in DOMAIN replies /\ Head(replies) = replies[1] /\ replies[1].by = t
  BY TakeFacts DEF panel, supplicant
<1>3. OneReply(t)
  BY DEF OneInv
<1>4. replies[1].op = op
  BY <1>2, <1>3 DEF OneReply
<1>5. \A i \in DOMAIN replies' : replies'[i].by /= t
  <2>1. ASSUME NEW i \in DOMAIN replies', replies'[i].by = t PROVE FALSE
    <3>1. i + 1 \in DOMAIN replies /\ replies[i + 1].by = t
      BY <1>2, <2>1
    <3>2. i + 1 = 1
      BY <1>2, <1>3, <3>1 DEF OneReply
    <3>3. RepliesOK'
      BY TakeType, Parts, PTL
    <3>4. i \in Nat /\ i >= 1
      BY <2>1, <3>3 DEF RepliesOK
    <3> QED
      BY <3>2, <3>4
  <2> QED
    BY <2>1
<1>6. SsidOf(current)' = SsidOf(current)
  BY <1>2, SameSsid
<1>7. todo \in [Threads -> Seq(Steps)] /\ Plan(t, todo[t])
  BY <1>1 DEF TodoOK
<1> HIDE DEF op
<1>8. ASSUME NEW u \in Threads, Asks(u) PROVE Asks(u)'
  <2>1. CASE u /= t
    BY <1>2, <1>8, <2>1 DEF Asks
  <2>2. CASE u = t
    <3>1. PICK i \in DOMAIN todo[t] : todo[t][i].op = "LIST" /\ i /= 1
      BY <1>2, <1>8, <2>2 DEF Asks
    <3> QED
      BY <1>2, <1>5, <1>7, <2>2, <3>1, StillAsks
  <2> QED
    BY <2>1, <2>2
<1>9. ASSUME Told PROVE Told'
  <2>1. \A i \in DOMAIN replies' : replies'[i].op = "LIST" => replies'[i].val.cur = SsidOf(current)'
    BY <1>2, <1>6, <1>9 DEF Told
  <2>2. CASE op = "LIST"
    <3>1. answer' = [answer EXCEPT ![t] = replies[1].val]
      BY <1>2, <1>4, <2>2 DEF Take, op
    <3>2. answer'[t].cur = SsidOf(current)
      <4>1. answer \in [Threads -> Lists]
        BY Parts DEF LocalsOK
      <4> QED
        BY <1>2, <1>4, <1>9, <2>2, <3>1, <4>1 DEF Told
    <3>3. \A u \in Threads : u /= t => answer'[u] = answer[u]
      BY <3>1, Parts DEF LocalsOK
    <3>4. Parsing(t)' /\ Head(todo'[t]).op = "clear"
      BY <1>2, <1>7, <2>2, ReachesHead DEF Parsing
    <3>5. ASSUME NEW u \in Threads, Parsing(u)'
          PROVE  /\ answer'[u].cur = SsidOf(current)'
                 /\ Head(todo'[u]).op = "parse" => cur_network' = None
      <4>1. CASE u = t
        BY <1>6, <3>2, <3>4, <4>1
      <4>2. CASE u /= t
        BY <1>2, <1>6, <1>9, <3>3, <3>5, <4>2 DEF Told, Parsing
      <4> QED
        BY <4>1, <4>2
    <3> QED
      BY <2>1, <3>4, <3>5 DEF Told
  <2>3. CASE op /= "LIST"
    <3>1. answer' = answer
      BY <2>3 DEF Take, op
    <3>2. ~Parsing(t) /\ ~Parsing(t)'
      <4>1. ~Parsing(t)
        BY <1>2 DEF Parsing, op, Sent, Plain
      <4>2. ~Parsing(t)'
        BY <1>2, <1>7, <2>3, NeverReadsNext DEF Parsing
      <4> QED
        BY <4>1, <4>2
    <3>3. \A u \in Threads : Parsing(u)' <=> Parsing(u)
      BY <1>2, <3>2 DEF Parsing
    <3>4. (\E i \in DOMAIN replies : replies[i].op = "LIST") =>
            \E i \in DOMAIN replies' : replies'[i].op = "LIST"
      BY <1>2, <1>4, <2>3
    <3>5. ASSUME NEW u \in Threads, Parsing(u)'
          PROVE  /\ answer'[u].cur = SsidOf(current)'
                 /\ Head(todo'[u]).op = "parse" => cur_network' = None
      <4>1. Parsing(u) /\ u /= t
        BY <3>2, <3>3, <3>5
      <4> QED
        BY <1>2, <1>6, <1>9, <3>1, <4>1 DEF Told
    <3>6. \/ \E i \in DOMAIN replies' : replies'[i].op = "LIST"
          \/ \E u \in Threads : Parsing(u)'
          \/ cur_network' = SsidOf(current)'
      BY <1>2, <1>6, <1>9, <3>3, <3>4 DEF Told
    <3> QED
      BY <2>1, <3>5, <3>6 DEF Told
  <2> QED
    BY <2>2, <2>3
<1> QED
  BY <1>2, <1>8, <1>9 DEF Knows

(* The lines of the answer are read, or what was read is drawn.              *)
LEMMA LocalKnows ==
  ASSUME TypeInv, OneInv, Alone, Knows, Uncrossed, NEW t \in Threads, Clear(t) \/ Parse(t) \/ Redraw(t)
  PROVE  Knows'
<1>1. TodoOK
  BY Parts
<1>2. /\ todo[t] /= <<>> /\ Head(todo[t]).op \in Local /\ ~waiting[t]
      /\ Redraw(t) => todo'[t] = Tail(todo[t])
      /\ Clear(t) \/ todo'[t] \in {<<>>, Tail(todo[t])}
      /\ Clear(t) => todo'[t] = Reaches(t, "parse")
      /\ \A u \in Threads : u /= t => todo'[u] = todo[u]
      /\ UNCHANGED <<answer, replies, events, untold, current, nets>>
  <2>1. Clear(t) => ~Parse(t) /\ ~Redraw(t)
    BY DEF Clear, Parse, Redraw
  <2> QED
    BY <2>1, LocalFacts DEF sockets, supplicant
<1>3. SsidOf(current)' = SsidOf(current)
  BY <1>2, SameSsid
<1>4. todo \in [Threads -> Seq(Steps)] /\ Plan(t, todo[t]) /\ todo[t] \in Seq(Steps)
  BY <1>1 DEF TodoOK
<1>5. todo[t][1] = Head(todo[t]) /\ 1 \in DOMAIN todo[t]
  BY <1>2, <1>4, TailFacts
<1>6. \A i \in DOMAIN replies : replies[i].by /= t
  BY <1>2 DEF OneInv, OneReply
<1>7. ASSUME NEW u \in Threads, u /= t, Asks(u) PROVE Asks(u)'
  BY <1>2, <1>7 DEF Asks
<1>8. ~Clear(t) => ~Parsing(t)'
  BY <1>2, <1>4, NeverReadsNext DEF Parsing
<1>11. Head(todo[t]).op \in Reading =>
         ~Asks(t) /\ Parsing(t) /\ \A u \in Threads : u /= t => ~Parsing(u)
  <2> SUFFICES ASSUME Head(todo[t]).op \in Reading
               PROVE  ~Asks(t) /\ Parsing(t) /\ \A u \in Threads : u /= t => ~Parsing(u)
    OBVIOUS
  <2>2. ~Asks(t)
    <3>1. ASSUME NEW i \in DOMAIN todo[t], todo[t][i].op = "LIST" PROVE FALSE
      <4>1. i /= 1 /\ i > 1
        BY <1>4, <1>5, <3>1
      <4> QED
        BY <1>4, <1>5, <3>1, <4>1 DEF Plan, Planned
    <3> QED
      BY <3>1 DEF Asks
  <2>3. Parsing(t) /\ \A u \in Threads : u /= t => ~Parsing(u)
    BY <1>2 DEF Parsing, Alone, Reads
  <2> QED
    BY <2>2, <2>3
<1>9. CASE Parse(t)
  <2>1. /\ Head(todo[t]).op = "parse"
        /\ cur_network' = (IF answer[t].cur /= None THEN answer[t].cur ELSE cur_network)
        /\ ~Clear(t)
    BY <1>9 DEF Parse, Clear
  <2>2. ~Asks(t) /\ Parsing(t) /\ \A u \in Threads : u /= t => ~Parsing(u)
    BY <1>11, <2>1
  <2>4. \A u \in Threads : ~Parsing(u)'
    BY <1>2, <1>8, <2>1, <2>2 DEF Parsing
  <2>5. ASSUME Told PROVE Told'
    <3>1. cur_network' = SsidOf(current)
      BY <2>1, <2>2, <2>5 DEF Told
    <3> QED
      BY <1>2, <1>3, <2>4, <2>5, <3>1 DEF Told
  <2> QED
    BY <1>2, <1>7, <2>2, <2>5 DEF Knows
<1>12. CASE Clear(t)
  <2>1. Head(todo[t]).op = "clear" /\ cur_network' = None
    BY <1>12 DEF Clear
  <2>2. ~Asks(t) /\ Parsing(t) /\ \A u \in Threads : u /= t => ~Parsing(u)
    BY <1>11, <2>1
  <2>3. Parsing(t)' /\ \A u \in Threads : u /= t => ~Parsing(u)'
    BY <1>2, <1>4, <1>12, <2>2, ReachesHead DEF Parsing
  <2>4. ASSUME Told PROVE Told'
    BY <1>2, <1>3, <2>1, <2>2, <2>3, <2>4 DEF Told
  <2> QED
    BY <1>2, <1>7, <2>2, <2>4 DEF Knows
<1>10. CASE Redraw(t)
  <2>1. cur_network' = cur_network /\ Head(todo[t]).op \in Draws
    BY <1>10 DEF Redraw, Draws
  <2>2. ~Parse(t) /\ ~Clear(t)
    BY <2>1 DEF Parse, Clear, Draws
  <2>3. ASSUME Asks(t) PROVE Asks(t)'
    <3>1. PICK i \in DOMAIN todo[t] : todo[t][i].op = "LIST"
      BY <2>3 DEF Asks
    <3>2. i /= 1
      BY <1>5, <2>1, <3>1 DEF Draws
    <3>3. todo'[t] = Tail(todo[t]) /\ \A j \in DOMAIN replies' : replies'[j].by /= t
      BY <1>2, <1>6, <1>10
    <3> QED
      BY <1>4, <3>1, <3>2, <3>3, StillAsks
  <2>4. \A u \in Threads : Parsing(u)' <=> Parsing(u)
    BY <1>2, <1>8, <2>1, <2>2 DEF Parsing, Draws
  <2>5. ASSUME Told PROVE Told'
    BY <1>2, <1>3, <2>1, <2>2, <2>4, <2>5 DEF Told, Parsing, Draws
  <2> QED
    BY <1>2, <1>7, <2>3, <2>5 DEF Knows
<1> QED
  BY <1>9, <1>10, <1>12

(* wpa_supplicant answers: what it says of the current network is so, or a   *)
(* LIST_NETWORKS is still to come.                                           *)
LEMMA ServeKnows ==
  ASSUME TypeInv, OneInv, Uncrossed, Owned, Alone, NewIsIdle, Knows, Serve
  PROVE  Knows'
<1> DEFINE op == Command.op
<1>1. /\ UNCHANGED <<todo, waiting, answer, cur_network, events>>
      /\ 1 \in DOMAIN cmds /\ cmds[1].step = Command
  BY ServeFacts DEF threads, panel
<1>2. PICK n \in Nat, r \in Replies :
        /\ r.by = cmds[1].by /\ r.op = op
        /\ n \in DOMAIN replies' /\ replies'[n] = r
        /\ \A i \in DOMAIN replies : i \in DOMAIN replies' /\ replies'[i] = replies[i] /\ i < n
        /\ \A i \in DOMAIN replies' : i \in DOMAIN replies \/ i = n
  BY ServeFacts
<1>3. TodoOK /\ todo \in [Threads -> Seq(Steps)]
  BY Parts DEF TodoOK
<1>4. PICK v \in Threads : v = cmds[1].by
  BY <1>1 DEF Owned
<1>5. /\ waiting[v] /\ op = Head(todo[v]).op
      /\ \A j \in DOMAIN replies : replies[j].by /= v
  BY <1>1, <1>4 DEF OneInv, OneCommand, Op
<1>6. op /= "LIST" /\ untold => untold'
  BY DEF Serve, AddNetwork, SetSsid, SetKey, SelectNetwork, RemoveNetwork, NoSuchNetwork, Query
<1>7. \A u \in Threads : Parsing(u)' <=> Parsing(u)
  BY <1>1 DEF Parsing
<1>8. /\ nets \in [Ids -> Networks \cup {None}]
      /\ enabled \subseteq Known /\ current \in enabled \cup {None}
  BY DEF TypeInv, TypeOK, SupplicantType
<1> HIDE DEF op
<1>9. ASSUME op /= "LIST", NEW u \in Threads, Asks(u) PROVE Asks(u)'
  <2>1. PICK i \in DOMAIN todo[u] :
          todo[u][i].op = "LIST" /\ (i = 1 => \A j \in DOMAIN replies : replies[j].by /= u)
    BY <1>9 DEF Asks
  <2>2. CASE i /= 1
    BY <1>1, <2>1, <2>2 DEF Asks
  <2>3. CASE i = 1
    <3>1. Head(todo[u]).op = "LIST"
      BY <1>3, <2>1, <2>3
    <3>2. v /= u
      BY <1>5, <1>9, <3>1
    <3>3. \A j \in DOMAIN replies' : replies'[j].by /= u
      BY <1>2, <1>4, <2>1, <2>3, <3>2
    <3> QED
      BY <1>1, <2>1, <3>3 DEF Asks
  <2> QED
    BY <2>2, <2>3
<1>10. ASSUME op /= "LIST", SsidOf(current)' = SsidOf(current) PROVE Knows'
  <2>1. ASSUME Told PROVE Told'
    BY <1>1, <1>2, <1>7, <1>10, <2>1 DEF Told
  <2> QED
    BY <1>1, <1>6, <1>9, <1>10, <2>1 DEF Knows
<1>11. CASE AddNetwork
  <2>1. op = "ADD" /\ current' = current
    BY <1>11 DEF AddNetwork, op
  <2>2. current /= None => nets'[current].ssid = nets[current].ssid
    <3>1. \/ nets' = nets
          \/ NewId \in Ids /\ nets' = [nets EXCEPT ![NewId] = [ssid |-> None, key |-> None]]
      BY <1>11 DEF AddNetwork
    <3>2. NewId \in Ids => NewId \notin Known
      BY IdFacts
    <3>3. current /= None => current \in Known /\ current \in Ids
      BY <1>8 DEF Known
    <3> QED
      BY <1>8, <3>1, <3>2, <3>3
  <2> QED
    BY <1>10, <2>1, <2>2, SameSsid
<1>12. CASE SetSsid
  <2>1. /\ op = "SSID" /\ current' = current
        /\ nets' = [nets EXCEPT ![Command.net].ssid = Command.ssid]
    BY <1>12 DEF SetSsid, Names, op
  <2>2. At("SSID")
    BY <1>1, <2>1, UiFacts DEF Op, op, Asking
  <2>3. Command.net \in {nid.id, None} /\ nid.id \notin enabled
    BY <1>1, <2>1, <2>2 DEF NewIsIdle, Op, op
  <2>4. current /= None => Command.net /= current
    BY <1>8, <2>3
  <2>5. current /= None => nets'[current].ssid = nets[current].ssid
    BY <1>8, <2>1, <2>4
  <2> QED
    BY <1>10, <2>1, <2>5, SameSsid
<1>13. CASE SetKey
  <2>1. op = "KEY" /\ current' = current
    BY <1>13 DEF SetKey, Names, op
  <2>2. current /= None => nets'[current].ssid = nets[current].ssid
    <3>1. nets' \in {[nets EXCEPT ![Command.net].key = Command.ssid], nets}
      BY <1>13 DEF SetKey
    <3>2. current /= None => nets[current] \in Networks /\ current \in Ids
      BY <1>8 DEF Known
    <3> QED
      BY <1>8, <3>1, <3>2 DEF Networks
  <2> QED
    BY <1>10, <2>1, <2>2, SameSsid
<1>14. CASE SelectNetwork
  <2>1. op = "SELECT" /\ nets' = nets
    BY <1>14 DEF SelectNetwork, Names, op
  <2>2. CASE current' = current
    BY <1>10, <2>1, <2>2, SameSsid
  <2>3. CASE current' /= current
    BY <1>14, <2>3 DEF SelectNetwork, Knows
  <2> QED
    BY <2>2, <2>3
<1>15. CASE RemoveNetwork
  <2>1. Op(1) = "REMOVE" /\ Op(1) \notin Asking
    BY <1>1, <1>15 DEF RemoveNetwork, Names, Op, Asking
  <2>2. At("REMOVE")
    BY <1>1, <2>1, UiFacts
  <2>3. Plan("ui", todo["ui"]) /\ 1 \in DOMAIN todo["ui"] /\ todo["ui"][1].op = "REMOVE"
    BY <1>3, <2>2, HeadFacts DEF At, TodoOK, Threads
  <2>4. 3 \in DOMAIN todo["ui"] /\ todo["ui"][3].op = "LIST"
    BY <2>3 DEF Plan, Planned
  <2>5. Asks("ui")'
    BY <1>1, <2>4 DEF Asks
  <2> QED
    BY <2>5 DEF Knows, Threads
<1>16. CASE op /= "LIST" /\ (NoSuchNetwork \/ Query)
  <2>1. UNCHANGED <<nets, current>>
    BY <1>16 DEF NoSuchNetwork, Query
  <2> QED
    BY <1>10, <1>16, <2>1, SameSsid
<1>17. CASE op = "LIST"
  <2>1. Query /\ Reply(Listed)
    BY <1>17 DEF Serve, AddNetwork, SetSsid, SetKey, SelectNetwork, RemoveNetwork, NoSuchNetwork,
                 Query, Names, op
  <2>2. UNCHANGED <<nets, current>>
    BY <2>1 DEF Query
  <2>3. SsidOf(current)' = SsidOf(current)
    BY <2>2, SameSsid
  <2>4. r.val.cur = SsidOf(current)
    <3> DEFINE q == [by |-> Head(cmds).by, op |-> Head(cmds).step.op, val |-> Listed]
    <3>1. replies' = Append(replies, q) /\ q.val = Listed
      BY <2>1 DEF Reply
    <3> HIDE DEF q
    <3>2. \A i \in DOMAIN replies' : i \in DOMAIN replies \/ replies'[i] = q
      BY <3>1, Parts DEF RepliesOK
    <3>3. n \notin DOMAIN replies
      BY <1>2
    <3>4. r = q
      BY <1>2, <3>2, <3>3
    <3> QED
      BY <3>1, <3>4 DEF Listed
  <2>5. Reads(v)
    BY <1>5, <1>17 DEF Reads
  <2>6. \A u \in Threads : ~Parsing(u)
    <3>1. ~Parsing(v)
      BY <1>5, <1>17 DEF Parsing
    <3> QED
      BY <2>5, <3>1 DEF Alone, Reads
  <2>7. \A i \in DOMAIN replies : replies[i].op /= "LIST"
    <3>1. ASSUME NEW i \in DOMAIN replies, replies[i].op = "LIST" PROVE FALSE
      <4>1. PICK u \in Threads : u = replies[i].by
        BY DEF Owned
      <4>2. Reads(u)
        BY <3>1, <4>1 DEF OneInv, OneReply, Reads
      <4>3. u = v
        BY <2>5, <4>2 DEF Alone
      <4> QED
        BY <1>5, <4>1, <4>3
    <3> QED
      BY <3>1
  <2>8. Told'
    BY <1>2, <1>7, <1>17, <2>3, <2>4, <2>6, <2>7 DEF Told
  <2> QED
    BY <2>8 DEF Knows
<1> QED
  BY <1>11, <1>12, <1>13, <1>14, <1>15, <1>16, <1>17 DEF Serve

LEMMA KnowsStep ==
  ASSUME TypeInv, OneInv, Owned, Alone, NewIsIdle, Knows, [Next]_vars, Sound'
  PROVE  Knows'
<1>1. Uncrossed /\ Uncrossed' /\ \A t \in Threads : ~Fail(t)
  BY SoundFacts
<1>2. TodoOK
  BY Parts
<1>3. CASE Touches
  <2>1. /\ todo["ui"] = <<>> /\ todo'["ev"] = todo["ev"]
        /\ UNCHANGED <<cur_network, answer, replies, events, untold, nets, current>>
    BY <1>3, TouchFacts DEF sockets, supplicant
  <2>2. SsidOf(current)' = SsidOf(current)
    BY <2>1, SameSsid
  <2>3. ~Parsing("ui") /\ ~Parsing("ui")' /\ (Parsing("ev")' <=> Parsing("ev"))
    BY <1>3, <2>1, TouchStarts DEF Parsing
  <2>4. \A t \in Threads : Asks(t) => Asks(t)'
    BY <2>1 DEF Asks, Threads
  <2>5. Told => Told'
    BY <2>1, <2>2, <2>3 DEF Told, Threads
  <2> QED
    BY <2>1, <2>4, <2>5 DEF Knows
<1>4. ASSUME NEW t \in Threads, Send(t) PROVE Knows'
  <2>1. UNCHANGED <<todo, replies, answer, events, untold, cur_network, nets, current>>
    BY <1>4, SendFacts DEF supplicant
  <2>2. SsidOf(current)' = SsidOf(current)
    BY <2>1, SameSsid
  <2> QED
    BY <2>1, <2>2 DEF Knows, Asks, Told, Parsing
<1>5. CASE HandleEvent
  <2>1. ~waiting["ev"] /\ todo["ev"] = <<>> /\ replies' = replies
    BY <1>5, EventFacts
  <2>2. \A j \in DOMAIN replies' : replies'[j].by /= "ev"
    BY <1>1, <2>1 DEF OneInv, OneReply, Threads
  <2>3. \E i \in DOMAIN todo'["ev"] : todo'["ev"][i].op = "LIST"
    <3>1. PICK q : /\ todo'["ev"] = q
                   /\ \/ q = <<Step("RESULTS", None, None), Step("LIST", None, None),
                               Step("scanned", None, None)>>
                      \/ q = <<Step("LIST", None, None), Step("redraw", None, None)>>
      BY <1>2, <1>5 DEF HandleEvent, TodoOK, Threads
    <3>2. CASE q = <<Step("RESULTS", None, None), Step("LIST", None, None),
                     Step("scanned", None, None)>>
      <4>1. 2 \in DOMAIN q /\ q[2].op = "LIST"
        BY <3>2 DEF Step
      <4> QED
        BY <3>1, <4>1
    <3>3. CASE q = <<Step("LIST", None, None), Step("redraw", None, None)>>
      <4>1. 1 \in DOMAIN q /\ q[1].op = "LIST"
        BY <3>3 DEF Step
      <4> QED
        BY <3>1, <4>1
    <3> QED
      BY <3>1, <3>2, <3>3
  <2>4. Asks("ev")'
    BY <2>2, <2>3 DEF Asks
  <2> QED
    BY <2>4 DEF Knows, Threads
<1>6. CASE ScanDone \/ Joined
  <2>1. PICK e \in {"SCAN-RESULTS", "CONNECTED"} : events' = Append(events, e)
    BY <1>6 DEF ScanDone, Joined, Emit
  <2>2. events' /= <<>>
    BY <2>1, Parts DEF EventsOK
  <2> QED
    BY <2>2 DEF Knows
<1>7. CASE Join \/ Leave \/ Die
  BY <1>7 DEF Join, Leave, Moves, Die, Knows
<1>8. CASE UNCHANGED vars
  <2>1. UNCHANGED <<todo, replies, answer, events, untold, cur_network, nets, current>>
    BY <1>8 DEF vars, panel, threads, sockets, supplicant
  <2>2. SsidOf(current)' = SsidOf(current)
    BY <2>1, SameSsid
  <2> QED
    BY <2>1, <2>2 DEF Knows, Asks, Told, Parsing
<1>9. ASSUME NEW t \in Threads, Take(t) \/ Clear(t) \/ Parse(t) \/ Redraw(t) PROVE Knows'
  BY <1>1, <1>9, TakeKnows, LocalKnows
<1>10. CASE Serve
  BY <1>1, <1>10, ServeKnows
<1> QED
  BY <1>1, <1>3, <1>4, <1>5, <1>6, <1>7, <1>8, <1>9, <1>10 DEF Next, Touches, Answered, Inside

LEMMA CurrentStep == TypeInv /\ OneInv /\ CurrentInv /\ [Next]_vars => CurrentInv'
BY SoundFacts, OwnedStep, AloneStep, NewStep, KnowsStep DEF CurrentInv

(* When both threads are at rest the panel names the network wpa_supplicant  *)
(* is connected to, and has drawn what it knows, whatever was touched while  *)
(* the event thread was asking.                                              *)
THEOREM ShowsConnection == Spec => []SettledShowsConnection
<1>1. Init => OneInv /\ DrawInv /\ CurrentInv
  <2> SUFFICES ASSUME Init PROVE OneInv /\ DrawInv /\ CurrentInv
    OBVIOUS
  <2>1. /\ DOMAIN cmds = {} /\ DOMAIN replies = {} /\ cur_network = None
        /\ untold = (current /= None)
        /\ \A t \in Threads : todo[t] = <<>> /\ ~waiting[t]
        /\ todo["ui"] = <<>>
    BY DEF Init, Threads
  <2>2. OneInv
    BY <2>1 DEF OneInv, OneCommand, OneReply
  <2>3. DrawInv
    BY DEF Init, DrawInv, Drawn, Status, Shown
  <2>4. Owned /\ Alone /\ NewIsIdle
    BY <2>1 DEF Owned, Alone, Reads, Parsing, NewIsIdle, At
  <2>5. untold \/ Told
    BY <2>1 DEF Parsing, Told, SsidOf
  <2> QED
    BY <2>2, <2>3, <2>4, <2>5 DEF CurrentInv, Knows
<1>2. DrawInv /\ CurrentInv => SettledShowsConnection
  <2> SUFFICES ASSUME DrawInv, CurrentInv PROVE SettledShowsConnection
    OBVIOUS
  <2>1. Settled /\ ~undrawn => Drawn
    BY DEF DrawInv, Settled, Drawing, Idle
  <2>2. Settled /\ ~untold /\ Sound => cur_network = SsidOf(current)
    <3> SUFFICES ASSUME Settled, ~untold, Sound PROVE cur_network = SsidOf(current)
      OBVIOUS
    <3>1. /\ \A t \in Threads : todo[t] = <<>>
          /\ DOMAIN replies = {} /\ events = <<>>
      BY DEF Settled, Idle
    <3>2. \A t \in Threads : ~Asks(t) /\ ~Parsing(t)
      BY <3>1 DEF Asks, Parsing
    <3> QED
      BY <3>1, <3>2 DEF CurrentInv, Knows, Told
  <2> QED
    BY <2>1, <2>2 DEF SettledShowsConnection, Drawn, Sound
<1> QED
  BY <1>1, <1>2, InitType, TypeStep, OneStep, DrawStep, CurrentStep, PTL DEF Spec
=============================================================================
