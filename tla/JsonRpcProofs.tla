---------------------------- MODULE JsonRpcProofs ----------------------------
(***************************************************************************)
(* Theorems about JsonRpc for every set of threads and requests: types,    *)
(* distinct ids on the wire, what a call is promised when no other call    *)
(* overlaps it, and that the client implements Requests.                   *)
(***************************************************************************)
EXTENDS JsonRpc, TLAPS

Keys == 0..(MaxId + 1)
Solo(r) == r \notin overlapped

(* A thread inside a call works on a call of its own, not yet finished. *)
CallsInv ==
  /\ \A t \in Threads : Busy(t) => cur[t] \in made \ sent
  /\ \A t \in Threads : pc[t] \in {"find", "insert"} => cur[t] \in Cb
  /\ \A t, u \in Threads : Busy(t) /\ Busy(u) /\ cur[t] = cur[u] => t = u
  /\ sent \subseteq made

(* An entry sits at or below the next id, and at the next id only while some *)
(* call has inserted it and not stamped its message.                         *)
KeysInv ==
  \A k \in Keys : callbacks[k] /= None =>
    /\ k <= id
    /\ k = id => \E t \in Threads : pc[t] = "stamp" /\ cur[t] \in Cb

(* Stamped ids are below the next id and distinct. *)
StampInv ==
  /\ \A t \in Threads : pc[t] = "send" => stamp[t] < id
  /\ \A r \in sent : wire[r] < id
  /\ \A t, u \in Threads :
       pc[t] = "send" /\ pc[u] = "send" /\ stamp[t] = stamp[u] => t = u
  /\ \A t \in Threads, r \in sent : pc[t] = "send" => stamp[t] /= wire[r]
  /\ WireIdsUnique

(* While a solo call is under way every other thread is outside a call. *)
SoloInv ==
  \A t, u \in Threads : Busy(t) /\ Busy(u) /\ t /= u => ~Solo(cur[t])

(* The entry of a solo call sits where its own message points, if anywhere. *)
Own(k) ==
  /\ \A q \in sent : wire[q] = k => callbacks[k] = q
  /\ \A t \in Threads : pc[t] = "send" /\ stamp[t] = k => callbacks[k] = cur[t]
  /\ \A t \in Threads : pc[t] = "stamp" /\ id = k => callbacks[k] = cur[t]

OwnInv ==
  \A k \in Keys : callbacks[k] /= None /\ Solo(callbacks[k]) => Own(k)

(* Each callback is inserted once, and once run leaves with its entry. *)
OnceInv ==
  /\ \A k, l \in Keys : callbacks[k] /= None /\ callbacks[k] = callbacks[l] => k = l
  /\ \A k \in Keys : callbacks[k] /= None =>
       /\ callbacks[k] \in made
       /\ \A t \in Threads : pc[t] \in {"find", "insert"} => cur[t] /= callbacks[k]
  /\ \A p \in ran :
       /\ p[1] \in made
       /\ \A t \in Threads : pc[t] \in {"find", "insert"} => cur[t] /= p[1]
       /\ \A k \in Keys : callbacks[k] = p[1] => running /= NotRunning /\ running.key = k

IInv ==
  /\ TypeOK
  /\ CallsInv
  /\ KeysInv
  /\ StampInv
  /\ SoloInv
  /\ OwnInv
  /\ OnceInv
  /\ SoloAnswer
  /\ RunsOnce
  /\ SoloNotDropped

-----------------------------------------------------------------------------
LEMMA InitInv == Init => IInv
<1> SUFFICES ASSUME Init PROVE IInv
  OBVIOUS
<1>1. TypeOK
  <2>1. 0 \in Ids /\ id \in 0..(MaxId + 1)
    BY RpcAssumption DEF Init, Ids
  <2>2. running \in [key: Ids, cb: Requests \cup {None}, ans: Requests \cup {None}]
    BY <2>1 DEF Init, NotRunning
  <2> QED
    BY <2>1, <2>2 DEF Init, TypeOK, Steps
<1>2. CallsInv /\ SoloInv
  BY DEF Init, CallsInv, SoloInv, Busy
<1>3. KeysInv /\ OwnInv
  BY DEF Init, KeysInv, OwnInv, Keys
<1>4. StampInv
  BY DEF Init, StampInv, WireIdsUnique
<1>5. OnceInv
  BY DEF Init, OnceInv, Keys
<1>6. SoloAnswer /\ RunsOnce /\ SoloNotDropped
  BY DEF Init, SoloAnswer, RunsOnce, SoloNotDropped
<1> QED
  BY <1>1, <1>2, <1>3, <1>4, <1>5, <1>6 DEF IInv

LEMMA TypeStep == ASSUME TypeOK, CallsInv, Next PROVE TypeOK'
<1>. USE RpcAssumption DEF TypeOK, Ids, Steps
<1>1. ASSUME NEW t \in Threads, NEW r \in Requests, Begin(t, r) PROVE TypeOK'
  <2>1. overlapped' \subseteq Requests
    BY <1>1 DEF Begin, Others, Busy, CallsInv
  <2> QED BY <1>1, <2>1 DEF Begin
<1>2. ASSUME NEW t \in Threads, FindFree(t) PROVE TypeOK'
  BY <1>2 DEF FindFree
<1>3. ASSUME NEW t \in Threads, FindTaken(t) PROVE TypeOK'
  BY <1>3 DEF FindTaken, EndCall, CallsInv, Busy
<1>4. ASSUME NEW t \in Threads, Insert(t) PROVE TypeOK'
  BY <1>4 DEF Insert
<1>5. ASSUME NEW t \in Threads, Stamp(t) PROVE TypeOK'
  BY <1>5 DEF Stamp
<1>6. ASSUME NEW t \in Threads, Send(t) PROVE TypeOK'
  <2>1. cur[t] \in Requests /\ 0 \in Ids /\ stamp[t] \in Ids
    BY <1>6 DEF Send, CallsInv, Busy
  <2>2. /\ pc' \in [Threads -> Steps]
        /\ cur' \in [Threads -> Requests \cup {None}]
        /\ stamp' \in [Threads -> Ids]
    BY <1>6, <2>1 DEF Send, EndCall
  <2>3. wire' \in [Requests -> Ids]
    BY <1>6, <2>1 DEF Send
  <2>4. sent' \subseteq Requests /\ inFlight' \subseteq sent'
    BY <1>6, <2>1 DEF Send
  <2> QED
    BY <1>6, <2>2, <2>3, <2>4 DEF Send
<1>7. ASSUME NEW r \in Requests, Deliver(r) PROVE TypeOK'
  BY <1>7 DEF Deliver
<1>8. CASE Return
  BY <1>8 DEF Return, NotRunning
<1>9. CASE Open
  BY <1>9 DEF Open
<1>10. CASE Lose
  BY <1>10 DEF Lose
<1> QED
  BY <1>1, <1>2, <1>3, <1>4, <1>5, <1>6, <1>7, <1>8, <1>9, <1>10
  DEF Next, CallStep

LEMMA CallsStep == ASSUME TypeOK, CallsInv, Next PROVE CallsInv'
<1>. USE RpcAssumption DEF TypeOK, CallsInv, Busy
<1>1. ASSUME NEW t \in Threads, NEW r \in Requests, Begin(t, r) PROVE CallsInv'
  BY <1>1 DEF Begin
<1>2. ASSUME NEW t \in Threads, FindFree(t) PROVE CallsInv'
  BY <1>2 DEF FindFree
<1>3. ASSUME NEW t \in Threads, FindTaken(t) PROVE CallsInv'
  BY <1>3 DEF FindTaken, EndCall
<1>4. ASSUME NEW t \in Threads, Insert(t) PROVE CallsInv'
  BY <1>4 DEF Insert
<1>5. ASSUME NEW t \in Threads, Stamp(t) PROVE CallsInv'
  BY <1>5 DEF Stamp
<1>6. ASSUME NEW t \in Threads, Send(t) PROVE CallsInv'
  BY <1>6 DEF Send, EndCall
<1>7. ASSUME NEW r \in Requests, Deliver(r) PROVE CallsInv'
  BY <1>7 DEF Deliver
<1>8. CASE Return \/ Open \/ Lose
  BY <1>8 DEF Return, Open, Lose
<1> QED
  BY <1>1, <1>2, <1>3, <1>4, <1>5, <1>6, <1>7, <1>8 DEF Next, CallStep

LEMMA KeysStep == ASSUME TypeOK, KeysInv, CallsInv, Next PROVE KeysInv'
<1>. USE RpcAssumption DEF TypeOK, KeysInv, Keys, Ids
<1>1. ASSUME NEW t \in Threads, NEW r \in Requests, Begin(t, r) PROVE KeysInv'
  BY <1>1 DEF Begin, Busy
<1>2. ASSUME NEW t \in Threads, FindFree(t) PROVE KeysInv'
  BY <1>2 DEF FindFree
<1>3. ASSUME NEW t \in Threads, FindTaken(t) PROVE KeysInv'
  BY <1>3 DEF FindTaken, EndCall
<1>4. ASSUME NEW t \in Threads, Insert(t) PROVE KeysInv'
  <2>1. cur[t] \in Cb /\ pc'[t] = "stamp" /\ cur' = cur
    BY <1>4 DEF Insert, CallsInv
  <2>2. \A u \in Threads : pc[u] = "stamp" => pc'[u] = "stamp"
    BY <1>4 DEF Insert
  <2>3. id' = id
    BY <1>4 DEF Insert
  <2>4. \A k \in Keys : callbacks'[k] /= None => callbacks[k] /= None \/ k = id
    BY <1>4 DEF Insert
  <2> QED
    BY <2>1, <2>2, <2>3, <2>4
<1>5. ASSUME NEW t \in Threads, Stamp(t) PROVE KeysInv'
  BY <1>5 DEF Stamp
<1>6. ASSUME NEW t \in Threads, Send(t) PROVE KeysInv'
  BY <1>6 DEF Send, EndCall
<1>7. ASSUME NEW r \in Requests, Deliver(r) PROVE KeysInv'
  BY <1>7 DEF Deliver
<1>8. CASE Return
  BY <1>8 DEF Return
<1>9. CASE Open \/ Lose
  BY <1>9 DEF Open, Lose
<1> QED
  BY <1>1, <1>2, <1>3, <1>4, <1>5, <1>6, <1>7, <1>8, <1>9 DEF Next, CallStep

LEMMA StampStep == ASSUME TypeOK, CallsInv, StampInv, Next PROVE StampInv'
<1>. USE RpcAssumption DEF TypeOK, StampInv, WireIdsUnique, Ids
<1>1. ASSUME NEW t \in Threads, NEW r \in Requests, Begin(t, r) PROVE StampInv'
  BY <1>1 DEF Begin
<1>2. ASSUME NEW t \in Threads, FindFree(t) PROVE StampInv'
  BY <1>2 DEF FindFree
<1>3. ASSUME NEW t \in Threads, FindTaken(t) PROVE StampInv'
  BY <1>3 DEF FindTaken, EndCall
<1>4. ASSUME NEW t \in Threads, Insert(t) PROVE StampInv'
  BY <1>4 DEF Insert
<1>5. ASSUME NEW t \in Threads, Stamp(t) PROVE StampInv'
  BY <1>5 DEF Stamp
<1>6. ASSUME NEW t \in Threads, Send(t) PROVE StampInv'
  <2>1. cur[t] \in Requests \ sent
    BY <1>6 DEF Send, CallsInv, Busy
  <2>2. CASE linkUp
    <3>1. /\ sent' = sent \cup {cur[t]}
          /\ wire'[cur[t]] = stamp[t]
          /\ \A r \in sent : wire'[r] = wire[r]
          /\ id' = id
      BY <1>6, <2>1, <2>2 DEF Send
    <3>2. \A u \in Threads : pc'[u] = "send" => u /= t /\ pc[u] = "send" /\ stamp'[u] = stamp[u]
      BY <1>6 DEF Send, EndCall
    <3>3. pc[t] = "send"
      BY <1>6 DEF Send
    <3> QED
      BY <3>1, <3>2, <3>3
  <2>3. CASE ~linkUp
    BY <1>6, <2>3 DEF Send, EndCall
  <2> QED BY <2>2, <2>3
<1>7. ASSUME NEW r \in Requests, Deliver(r) PROVE StampInv'
  BY <1>7 DEF Deliver
<1>8. CASE Return \/ Open \/ Lose
  BY <1>8 DEF Return, Open, Lose
<1> QED
  BY <1>1, <1>2, <1>3, <1>4, <1>5, <1>6, <1>7, <1>8 DEF Next, CallStep

LEMMA SoloStep == ASSUME TypeOK, CallsInv, SoloInv, Next PROVE SoloInv'
<1>. USE RpcAssumption DEF TypeOK, SoloInv, Solo, Busy
<1>1. ASSUME NEW t \in Threads, NEW r \in Requests, Begin(t, r) PROVE SoloInv'
  <2>1. CASE Others(t) = {}
    BY <1>1, <2>1 DEF Begin, Others
  <2>2. CASE Others(t) /= {}
    <3>1. /\ r \in overlapped'
          /\ \A u \in Threads : u /= t /\ pc[u] /= "idle" => cur[u] \in overlapped'
      BY <1>1, <2>2 DEF Begin, Others
    <3>2. cur'[t] = r /\ \A u \in Threads : u /= t => cur'[u] = cur[u] /\ pc'[u] = pc[u]
      BY <1>1 DEF Begin
    <3> QED BY <3>1, <3>2
  <2> QED BY <2>1, <2>2
<1>2. ASSUME NEW t \in Threads, FindFree(t) PROVE SoloInv'
  BY <1>2 DEF FindFree
<1>3. ASSUME NEW t \in Threads, FindTaken(t) PROVE SoloInv'
  BY <1>3 DEF FindTaken, EndCall
<1>4. ASSUME NEW t \in Threads, Insert(t) PROVE SoloInv'
  BY <1>4 DEF Insert
<1>5. ASSUME NEW t \in Threads, Stamp(t) PROVE SoloInv'
  BY <1>5 DEF Stamp
<1>6. ASSUME NEW t \in Threads, Send(t) PROVE SoloInv'
  BY <1>6 DEF Send, EndCall
<1>7. ASSUME NEW r \in Requests, Deliver(r) PROVE SoloInv'
  BY <1>7 DEF Deliver
<1>8. CASE Return \/ Open \/ Lose
  BY <1>8 DEF Return, Open, Lose
<1> QED
  BY <1>1, <1>2, <1>3, <1>4, <1>5, <1>6, <1>7, <1>8 DEF Next, CallStep

LEMMA OwnStep ==
  ASSUME TypeOK, CallsInv, KeysInv, StampInv, SoloInv, OwnInv, Next
  PROVE  OwnInv'
<1> SUFFICES ASSUME NEW k \in Keys, callbacks'[k] /= None, callbacks'[k] \notin overlapped'
             PROVE  Own(k)'
  BY DEF OwnInv, Solo
<1> DEFINE Here == callbacks[k] /= None /\ callbacks[k] \notin overlapped
<1>0. Here => Own(k)
  BY DEF OwnInv, Solo
<1>1. ASSUME NEW t \in Threads, NEW r \in Requests, Begin(t, r) PROVE Own(k)'
  <2>1. overlapped \subseteq overlapped'
    BY <1>1 DEF Begin
  <2>2. /\ \A u \in Threads : u /= t => pc'[u] = pc[u] /\ cur'[u] = cur[u]
        /\ pc'[t] /= "send" /\ pc[t] = "idle"
    BY <1>1, RpcAssumption DEF Begin, Busy, TypeOK
  <2>3. UNCHANGED <<callbacks, id, sent, wire, stamp>>
    BY <1>1 DEF Begin
  <2>4. Own(k)
    BY <1>0, <2>1, <2>3
  <2>5. \A u \in Threads : u /= t /\ pc[u] = "stamp" => cur[u] \in overlapped'
    BY <1>1 DEF Begin, Others, Busy
  <2>6. id /= k
    <3>1. SUFFICES ASSUME k = id PROVE FALSE
      OBVIOUS
    <3>2. PICK u \in Threads : pc[u] = "stamp"
      BY <2>3, <3>1 DEF KeysInv
    <3>3. callbacks[k] = cur[u] /\ u /= t
      BY <2>2, <2>4, <3>1, <3>2 DEF Own
    <3> QED BY <2>3, <2>5, <3>2, <3>3
  <2> QED
    BY <2>2, <2>3, <2>4, <2>6 DEF Own
<1>2. ASSUME NEW t \in Threads, FindFree(t) PROVE Own(k)'
  BY <1>0, <1>2 DEF FindFree, Own, TypeOK
<1>3. ASSUME NEW t \in Threads, FindTaken(t) PROVE Own(k)'
  BY <1>0, <1>3 DEF FindTaken, EndCall, Own, TypeOK
<1>4. ASSUME NEW t \in Threads, Insert(t) PROVE Own(k)'
  <2>1. UNCHANGED <<id, cur, stamp, wire, sent, overlapped>>
    BY <1>4 DEF Insert
  <2>2. /\ \A u \in Threads : u /= t => pc'[u] = pc[u]
        /\ pc[t] = "insert" /\ pc'[t] = "stamp"
    BY <1>4 DEF Insert, TypeOK
  <2>3. CASE callbacks[id] /= None
    <3>1. callbacks' = callbacks
      BY <1>4, <2>3 DEF Insert
    <3>2. Own(k)
      BY <1>0, <2>1, <3>1
    <3>3. k /= id
      <4>1. SUFFICES ASSUME k = id PROVE FALSE
        OBVIOUS
      <4>2. PICK u \in Threads : pc[u] = "stamp"
        BY <2>3, <4>1 DEF KeysInv
      <4>3. callbacks[k] = cur[u] /\ u /= t
        BY <2>2, <3>2, <4>1, <4>2 DEF Own
      <4>4. cur[u] \in overlapped
        BY <2>2, <4>2, <4>3 DEF SoloInv, Busy, Solo
      <4> QED BY <2>1, <3>1, <4>3, <4>4
    <3> QED
      BY <2>1, <2>2, <3>1, <3>2, <3>3 DEF Own
  <2>4. CASE callbacks[id] = None
    <3>1. id \in Keys /\ callbacks'[id] = cur[t]
      BY <1>4, <2>4 DEF Insert, TypeOK, Keys
    <3>2. CASE k = id
      <4>1. \A q \in sent : wire[q] /= k
        BY <3>2, RpcAssumption DEF StampInv, TypeOK, Ids
      <4>2. \A u \in Threads : pc[u] = "send" => stamp[u] /= k
        BY <3>2, RpcAssumption DEF StampInv, TypeOK, Ids
      <4>3. \A u \in Threads : u /= t => pc[u] /= "stamp"
        BY <2>1, <2>2, <3>1, <3>2 DEF SoloInv, Busy, Solo
      <4> QED
        BY <2>1, <2>2, <3>1, <3>2, <4>1, <4>2, <4>3 DEF Own
    <3>3. CASE k /= id
      <4>1. callbacks'[k] = callbacks[k]
        BY <1>4, <3>3 DEF Insert, TypeOK, Keys
      <4> QED
        BY <1>0, <2>1, <2>2, <3>3, <4>1 DEF Own
    <3> QED BY <3>2, <3>3
  <2> QED BY <2>3, <2>4
<1>5. ASSUME NEW t \in Threads, Stamp(t) PROVE Own(k)'
  <2>1. UNCHANGED <<callbacks, cur, sent, wire, overlapped>>
    BY <1>5 DEF Stamp
  <2>2. /\ pc[t] = "stamp" /\ pc'[t] = "send" /\ stamp'[t] = id
        /\ \A u \in Threads : u /= t => stamp'[u] = stamp[u] /\ pc'[u] = pc[u]
    BY <1>5 DEF Stamp, TypeOK
  <2>3. id' /= k
    BY <1>5, <2>1 DEF Stamp, KeysInv, TypeOK, Keys
  <2> QED
    BY <1>0, <2>1, <2>2, <2>3 DEF Own
<1>6. ASSUME NEW t \in Threads, Send(t) PROVE Own(k)'
  <2>1. UNCHANGED <<id, callbacks, overlapped>>
    BY <1>6 DEF Send
  <2>2. /\ pc[t] = "send" /\ pc'[t] = "idle"
        /\ \A u \in Threads : u /= t => /\ stamp'[u] = stamp[u]
                                        /\ pc'[u] = pc[u]
                                        /\ cur'[u] = cur[u]
    BY <1>6 DEF Send, EndCall, TypeOK
  <2>3. cur[t] \in Requests \ sent
    BY <2>2 DEF CallsInv, Busy, TypeOK
  <2>4. ASSUME NEW q \in sent', wire'[q] = k PROVE callbacks'[k] = q
    <3>1. CASE q \in sent
      <4>1. wire'[q] = wire[q]
        BY <1>6, <2>3, <3>1 DEF Send, TypeOK
      <4> QED BY <1>0, <2>1, <2>4, <3>1, <4>1 DEF Own
    <3>2. CASE q \notin sent
      <4>1. q = cur[t] /\ wire'[q] = stamp[t]
        BY <1>6, <2>3, <3>2 DEF Send, TypeOK
      <4> QED BY <1>0, <2>1, <2>2, <2>4, <4>1 DEF Own
    <3> QED BY <3>1, <3>2
  <2> QED
    BY <1>0, <2>1, <2>2, <2>4 DEF Own
<1>7. ASSUME NEW r \in Requests, Deliver(r) PROVE Own(k)'
  BY <1>0, <1>7 DEF Deliver, Own
<1>8. CASE Return
  BY <1>0, <1>8 DEF Return, Own, TypeOK, Keys
<1>9. CASE Open \/ Lose
  BY <1>0, <1>9 DEF Open, Lose, Own
<1> QED
  BY <1>1, <1>2, <1>3, <1>4, <1>5, <1>6, <1>7, <1>8, <1>9 DEF Next, CallStep

LEMMA InsertEffect ==
  ASSUME TypeOK, NEW t \in Threads, Insert(t), NEW k \in Keys
  PROVE  callbacks'[k] = callbacks[k] \/ (k = id /\ callbacks'[k] = cur[t])
<1>1. CASE callbacks[id] = None
  BY <1>1 DEF Insert, TypeOK, Keys
<1>2. CASE callbacks[id] /= None
  BY <1>2 DEF Insert
<1> QED BY <1>1, <1>2

LEMMA OnceStep == ASSUME TypeOK, CallsInv, OnceInv, Next PROVE OnceInv'
<1>. USE RpcAssumption DEF TypeOK, OnceInv, Keys, Ids
<1>1. ASSUME NEW t \in Threads, NEW r \in Requests, Begin(t, r) PROVE OnceInv'
  BY <1>1 DEF Begin
<1>2. ASSUME NEW t \in Threads, FindFree(t) PROVE OnceInv'
  BY <1>2 DEF FindFree
<1>3. ASSUME NEW t \in Threads, FindTaken(t) PROVE OnceInv'
  BY <1>3 DEF FindTaken, EndCall
<1>4. ASSUME NEW t \in Threads, Insert(t) PROVE OnceInv'
  <2>1. /\ pc[t] = "insert" /\ pc'[t] = "stamp"
        /\ \A u \in Threads : u /= t => pc'[u] = pc[u]
        /\ UNCHANGED <<cur, made, ran, running>>
    BY <1>4 DEF Insert
  <2>2. cur[t] \in made
    BY <2>1 DEF CallsInv, Busy
  <2>3. \A u \in Threads : u /= t /\ pc[u] \in {"find", "insert"} => cur[u] /= cur[t]
    BY <2>1 DEF CallsInv, Busy
  <2>4. \A k \in Keys : callbacks'[k] = callbacks[k] \/ (k = id /\ callbacks'[k] = cur[t])
    BY <1>4, InsertEffect
  <2>5. \A k \in Keys : callbacks[k] /= cur[t]
    BY <2>1 DEF CallsInv
  <2>6. \A p \in ran : p[1] /= cur[t]
    BY <2>1
  <2>7. \A k, l \in Keys : callbacks'[k] /= None /\ callbacks'[k] = callbacks'[l] => k = l
    <3> SUFFICES ASSUME NEW k \in Keys, NEW l \in Keys, callbacks'[k] /= None,
                        callbacks'[k] = callbacks'[l]
                 PROVE  k = l
      OBVIOUS
    <3>1. \/ callbacks'[k] = callbacks[k] /\ callbacks'[l] = callbacks[l]
          \/ k = id /\ l = id
      <4> HIDE DEF OnceInv
      <4> QED BY <2>4, <2>5
    <3> QED BY <3>1
  <2>8. \A k \in Keys : callbacks'[k] /= None =>
          /\ callbacks'[k] \in made
          /\ \A u \in Threads : pc'[u] \in {"find", "insert"} => cur[u] /= callbacks'[k]
    <3> SUFFICES ASSUME NEW k \in Keys, callbacks'[k] /= None
                 PROVE  /\ callbacks'[k] \in made
                        /\ \A u \in Threads :
                             pc'[u] \in {"find", "insert"} => cur[u] /= callbacks'[k]
      OBVIOUS
    <3>1. CASE callbacks'[k] = callbacks[k]
      BY <2>1, <3>1
    <3>2. CASE callbacks'[k] = cur[t]
      BY <2>1, <2>2, <2>3, <3>2
    <3> QED BY <2>4, <3>1, <3>2
  <2>9. \A p \in ran, k \in Keys : callbacks'[k] = p[1] => callbacks[k] = p[1]
    BY <2>4, <2>6
  <2>10. \A p \in ran, u \in Threads : pc'[u] \in {"find", "insert"} => cur[u] /= p[1]
    BY <2>1
  <2> QED BY <2>1, <2>7, <2>8, <2>9, <2>10
<1>5. ASSUME NEW t \in Threads, Stamp(t) PROVE OnceInv'
  BY <1>5 DEF Stamp
<1>6. ASSUME NEW t \in Threads, Send(t) PROVE OnceInv'
  BY <1>6 DEF Send, EndCall
<1>7. ASSUME NEW r \in Requests, Deliver(r) PROVE OnceInv'
  <2>1. wire[r] \in Keys /\ UNCHANGED <<callbacks, pc, cur, made>>
    BY <1>7 DEF Deliver
  <2>2. CASE callbacks[wire[r]] = None
    BY <1>7, <2>1, <2>2 DEF Deliver
  <2>3. CASE callbacks[wire[r]] /= None
    <3>1. /\ running' = [key |-> wire[r], cb |-> callbacks[wire[r]], ans |-> r]
          /\ ran' = ran \cup {<<callbacks[wire[r]], r>>}
          /\ running = NotRunning
      BY <1>7, <2>3 DEF Deliver
    <3>2. running' /= NotRunning /\ running'.key = wire[r]
      BY <2>3, <3>1 DEF NotRunning
    <3>3. \A p \in ran, k \in Keys : callbacks[k] /= p[1]
      BY <3>1
    <3> QED BY <2>1, <2>3, <3>1, <3>2, <3>3
  <2> QED BY <2>2, <2>3
<1>8. CASE Return
  BY <1>8 DEF Return
<1>9. CASE Open \/ Lose
  BY <1>9 DEF Open, Lose
<1> QED
  BY <1>1, <1>2, <1>3, <1>4, <1>5, <1>6, <1>7, <1>8, <1>9 DEF Next, CallStep

LEMMA PromisesStep ==
  ASSUME IInv, Next
  PROVE  SoloAnswer' /\ RunsOnce' /\ SoloNotDropped'
<1>. USE DEF IInv, TypeOK
<1>1. overlapped \subseteq overlapped'
  BY DEF Next, CallStep, Begin, FindFree, FindTaken, Insert, Stamp, Send, Deliver,
         Return, Open, Lose
<1>2. SoloAnswer' /\ RunsOnce'
  <2>1. CASE ran' = ran
    BY <1>1, <2>1 DEF SoloAnswer, RunsOnce
  <2>2. CASE ran' /= ran
    <3>1. PICK r \in Requests : Deliver(r)
      BY <2>2 DEF Next, CallStep, Begin, FindFree, FindTaken, Insert, Stamp, Send,
                  Return, Open, Lose
    <3> DEFINE c == callbacks[wire[r]]
    <3>2. /\ wire[r] \in Keys /\ r \in sent /\ c /= None
          /\ ran' = ran \cup {<<c, r>>} /\ running = NotRunning
          /\ overlapped' = overlapped
      BY <2>2, <3>1, RpcAssumption DEF Deliver, Keys, Ids
    <3>3. c \notin overlapped => c = r
      BY <3>2 DEF OwnInv, Own, Solo
    <3>4. \A p \in ran : p[1] /= c
      BY <3>2 DEF OnceInv
    <3> QED BY <3>2, <3>3, <3>4 DEF SoloAnswer, RunsOnce
  <2> QED BY <2>1, <2>2
<1>3. SoloNotDropped'
  <2>1. CASE dropped' = dropped
    BY <1>1, <2>1 DEF SoloNotDropped
  <2>2. CASE dropped' /= dropped
    <3>1. PICK t \in Threads : FindTaken(t)
      BY <2>2 DEF Next, CallStep, Begin, FindFree, Insert, Stamp, Send, Deliver,
                  Return, Open, Lose
    <3>2. PICK u \in Threads : pc[u] = "stamp"
      BY <3>1 DEF FindTaken, KeysInv, Keys
    <3>3. cur[t] \in overlapped
      BY <3>1, <3>2 DEF FindTaken, SoloInv, Busy, Solo
    <3> QED BY <3>1, <3>3 DEF FindTaken, SoloNotDropped
  <2> QED BY <2>1, <2>2
<1> QED BY <1>2, <1>3

LEMMA InvStep == ASSUME IInv, [Next]_vars PROVE IInv'
<1>1. CASE Next
  BY <1>1, TypeStep, CallsStep, KeysStep, StampStep, SoloStep, OwnStep, OnceStep,
     PromisesStep DEF IInv
<1>2. CASE UNCHANGED vars
  <2>. USE <1>2 DEF vars
  <2>1. TypeOK' /\ CallsInv'
    BY DEF IInv, TypeOK, CallsInv, Busy
  <2>2. KeysInv' /\ StampInv' /\ SoloInv'
    BY DEF IInv, KeysInv, StampInv, SoloInv, WireIdsUnique, Busy, Solo
  <2>3. OwnInv' /\ OnceInv'
    BY DEF IInv, OwnInv, Own, OnceInv, Solo
  <2>4. SoloAnswer' /\ RunsOnce' /\ SoloNotDropped'
    BY DEF IInv, SoloAnswer, RunsOnce, SoloNotDropped
  <2> QED BY <2>1, <2>2, <2>3, <2>4 DEF IInv
<1> QED BY <1>1, <1>2

(* IInv is inductive. *)
THEOREM Inductive == Spec => []IInv
BY InitInv, InvStep, PTL DEF Spec

(* Every variable of the client keeps its type. *)
THEOREM TypeCorrect == Spec => []TypeOK
BY Inductive, PTL DEF IInv

(* id++ gives every message an id of its own (websocket_client.cpp:167,177). *)
THEOREM UniqueIds == Spec => []WireIdsUnique
BY Inductive, PTL DEF IInv, StampInv

(* A call that no other call overlaps gets its own answer or none. *)
THEOREM SoloCorrect == Spec => []SoloAnswer
BY Inductive, PTL DEF IInv

(* No callback runs for two answers. *)
THEOREM AtMostOnce == Spec => []RunsOnce
BY Inductive, PTL DEF IInv

(* A call that no other call overlaps is never dropped for an id in use. *)
THEOREM SoloSent == Spec => []SoloNotDropped
BY Inductive, PTL DEF IInv

-----------------------------------------------------------------------------
(* JsonRpc implements Requests: the initial states correspond, and each step *)
(* of the client is a step of Requests or none.  Beside IInv this needs that *)
(* the entry of a solo call is there when its answer comes.                  *)

Making == {cur[t] : t \in {u \in Threads : Busy(u)}}

(* A solo call finds its id free, and its callback waits under the id of its *)
(* message until the answer to it has been delivered.                        *)
PresentInv ==
  /\ running /= NotRunning =>
       running.ans \in sent \ inFlight /\ running.key = wire[running.ans]
  /\ \A t \in Threads : cur[t] \in Cb /\ Solo(cur[t]) =>
       /\ pc[t] = "insert" => callbacks[id] = None
       /\ pc[t] = "stamp" => callbacks[id] = cur[t]
       /\ pc[t] = "send" => callbacks[stamp[t]] = cur[t]
  /\ \A r \in inFlight \cap Cb : Solo(r) => callbacks[wire[r]] = r

LEMMA PresentInit == Init => PresentInv
BY DEF Init, PresentInv

(* What Return erases is the entry of an answer already delivered. *)
LEMMA ReturnEffect ==
  ASSUME IInv, PresentInv, Return
  PROVE  /\ \A t \in Threads : pc[t] = "send" => callbacks'[stamp[t]] = callbacks[stamp[t]]
         /\ callbacks'[id] = callbacks[id]
         /\ \A r \in inFlight : callbacks'[wire[r]] = callbacks[wire[r]]
<1>. USE RpcAssumption DEF IInv, TypeOK, Ids
<1>1. /\ running.ans \in sent /\ running.ans \notin inFlight
      /\ running.key = wire[running.ans]
      /\ callbacks' = [callbacks EXCEPT ![running.key] = None]
  BY DEF Return, PresentInv
<1>2. running.key < id /\ \A t \in Threads : pc[t] = "send" => stamp[t] /= running.key
  BY <1>1 DEF StampInv
<1>3. \A r \in inFlight : wire[r] /= running.key
  BY <1>1 DEF StampInv, WireIdsUnique
<1>4. /\ id \in 0..(MaxId + 1)
      /\ \A t \in Threads : stamp[t] \in 0..(MaxId + 1)
      /\ \A r \in inFlight : wire[r] \in 0..(MaxId + 1)
  OBVIOUS
<1> QED BY <1>1, <1>2, <1>3, <1>4

LEMMA PresentStep == ASSUME IInv, PresentInv, [Next]_vars PROVE PresentInv'
<1>. USE RpcAssumption DEF IInv, TypeOK, Ids, Steps, PresentInv, Solo
<1>1. ASSUME NEW t \in Threads, NEW r \in Requests, Begin(t, r) PROVE PresentInv'
  BY <1>1 DEF Begin, Busy
<1>2. ASSUME NEW t \in Threads, FindFree(t) PROVE PresentInv'
  BY <1>2 DEF FindFree
<1>3. ASSUME NEW t \in Threads, FindTaken(t) PROVE PresentInv'
  BY <1>3 DEF FindTaken, EndCall
<1>4. ASSUME NEW t \in Threads, Insert(t) PROVE PresentInv'
  <2>1. /\ pc[t] = "insert" /\ pc' = [pc EXCEPT ![t] = "stamp"]
        /\ UNCHANGED <<id, cur, stamp, wire, sent, inFlight, running, overlapped>>
        /\ callbacks' = IF callbacks[id] = None
                        THEN [callbacks EXCEPT ![id] = cur[t]] ELSE callbacks
    BY <1>4 DEF Insert
  <2>2. \A k \in Keys : callbacks[k] /= None => callbacks'[k] = callbacks[k]
    BY <2>1 DEF Keys
  <2>3. \A u \in Threads : u /= t /\ pc[u] = "insert" => ~Solo(cur[u])
    BY <2>1 DEF SoloInv, Busy
  <2>4. Solo(cur[t]) /\ cur[t] \in Cb => callbacks'[id] = cur[t]
    BY <2>1
  <2>5. /\ \A u \in Threads : stamp[u] \in Keys
        /\ id \in Keys
        /\ \A r \in inFlight : wire[r] \in Keys
    BY DEF Keys
  <2>6. \A u \in Threads : cur[u] \in Cb => cur[u] /= None
    OBVIOUS
  <2> QED BY <2>1, <2>2, <2>3, <2>4, <2>5, <2>6
<1>5. ASSUME NEW t \in Threads, Stamp(t) PROVE PresentInv'
  <2>1. /\ pc[t] = "stamp" /\ pc' = [pc EXCEPT ![t] = "send"]
        /\ stamp' = [stamp EXCEPT ![t] = id] /\ id' = id + 1
        /\ UNCHANGED <<callbacks, cur, wire, sent, inFlight, running, overlapped>>
    BY <1>5 DEF Stamp
  <2>2. \A u \in Threads : u /= t /\ pc[u] /= "idle" => ~Solo(cur[u])
    BY <2>1 DEF SoloInv, Busy
  <2> QED BY <2>1, <2>2
<1>6. ASSUME NEW t \in Threads, Send(t) PROVE PresentInv'
  <2>1. /\ pc[t] = "send" /\ cur[t] \in Requests /\ cur[t] \notin sent
        /\ pc' = [pc EXCEPT ![t] = "idle"] /\ cur' = [cur EXCEPT ![t] = None]
        /\ stamp' = [stamp EXCEPT ![t] = 0]
        /\ UNCHANGED <<callbacks, id, running, overlapped>>
    BY <1>6 DEF Send, EndCall, CallsInv, Busy
  <2>2. CASE linkUp
    <3>1. /\ sent' = sent \cup {cur[t]} /\ inFlight' = inFlight \cup {cur[t]}
          /\ wire' = [wire EXCEPT ![cur[t]] = stamp[t]]
      BY <1>6, <2>2 DEF Send
    <3>2. \A r \in inFlight : wire'[r] = wire[r]
      BY <2>1, <3>1
    <3>3. wire'[cur[t]] = stamp[t]
      BY <2>1, <3>1
    <3>4. running /= NotRunning => wire'[running.ans] = wire[running.ans] /\ running.ans /= cur[t]
      BY <2>1, <3>1
    <3> QED BY <2>1, <3>1, <3>2, <3>3, <3>4
  <2>3. CASE ~linkUp
    <3>1. UNCHANGED <<sent, inFlight, wire>>
      BY <1>6, <2>3 DEF Send
    <3> QED BY <2>1, <3>1
  <2> QED BY <2>2, <2>3
<1>7. ASSUME NEW r \in Requests, Deliver(r) PROVE PresentInv'
  <2>1. CASE callbacks[wire[r]] = None
    BY <1>7, <2>1 DEF Deliver
  <2>2. CASE callbacks[wire[r]] /= None
    <3>1. /\ running' = [key |-> wire[r], cb |-> callbacks[wire[r]], ans |-> r]
          /\ r \in sent /\ inFlight' = inFlight \ {r}
          /\ UNCHANGED <<callbacks, id, pc, cur, stamp, wire, sent, overlapped>>
      BY <1>7, <2>2 DEF Deliver
    <3>2. running'.ans = r /\ running'.key = wire[r]
      BY <3>1
    <3> QED BY <3>1, <3>2
  <2> QED BY <2>1, <2>2
<1>8. CASE Return
  <2>1. UNCHANGED <<id, pc, cur, stamp, wire, sent, inFlight, overlapped>> /\ running' = NotRunning
    BY <1>8 DEF Return
  <2> QED BY <1>8, <2>1, ReturnEffect
<1>9. CASE Open \/ Lose
  BY <1>9 DEF Open, Lose
<1>10. CASE UNCHANGED vars
  BY <1>10 DEF vars
<1> QED
  BY <1>1, <1>2, <1>3, <1>4, <1>5, <1>6, <1>7, <1>8, <1>9, <1>10 DEF Next, CallStep

(* The strengthened invariant is inductive, too. *)
THEOREM SoloEntryWaits == Spec => [](IInv /\ PresentInv)
<1>1. Init => PresentInv
  BY PresentInit
<1>2. IInv /\ PresentInv /\ [Next]_vars => PresentInv'
  BY PresentStep
<1> QED BY <1>1, <1>2, Inductive, PTL DEF Spec

-----------------------------------------------------------------------------
(* The simulation: one lemma per kind of step. *)

LEMMA RefineInit == Init => Abstract!Init
BY DEF Init, Abstract!Init, Busy

LEMMA RefineBegin ==
  ASSUME IInv, NEW t \in Threads, NEW r \in Requests, Begin(t, r)
  PROVE  Abstract!Ask(r)
<1>1. /\ cur' = [cur EXCEPT ![t] = r] /\ pc'[t] /= "idle"
      /\ \A u \in Threads : u /= t => pc'[u] = pc[u]
      /\ ~Busy(t)
  BY DEF Begin, IInv, TypeOK, Busy
<1>2. cur'[t] = r /\ \A u \in Threads : u /= t => cur'[u] = cur[u]
  BY <1>1 DEF IInv, TypeOK
<1>3. Making' = Making \cup {r}
  BY <1>1, <1>2 DEF Making, Busy
<1>4. {cur[u] : u \in Others(t)} = Making
  BY <1>1 DEF Making, Others
<1>5. Others(t) = {} <=> Making = {}
  BY <1>4
<1>6. overlapped' = IF Making = {} THEN overlapped ELSE overlapped \cup Making \cup {r}
  BY <1>4, <1>5 DEF Begin
<1> QED BY <1>3, <1>6 DEF Abstract!Ask, Begin, Making

(* A step inside a call that neither ends it nor sends anything is invisible. *)
LEMMA RefineInside ==
  ASSUME IInv, NEW t \in Threads, FindFree(t) \/ Insert(t) \/ Stamp(t)
  PROVE  UNCHANGED Abstract!vars
<1>1. cur' = cur /\ \A u \in Threads : Busy(u)' <=> Busy(u)
  BY DEF IInv, TypeOK, FindFree, Insert, Stamp, Busy
<1>2. Making' = Making
  BY <1>1 DEF Making
<1> QED BY <1>2 DEF Abstract!vars, Making, FindFree, Insert, Stamp

LEMMA MakingShrinks ==
  ASSUME IInv, NEW t \in Threads, Busy(t), EndCall(t)
  PROVE  cur[t] \in Making /\ Making' = Making \ {cur[t]}
<1>1. /\ \A u \in Threads : Busy(u)' <=> Busy(u) /\ u /= t
      /\ \A u \in Threads : u /= t => cur'[u] = cur[u]
  BY DEF IInv, TypeOK, EndCall, Busy
<1>2. \A u \in Threads : Busy(u) /\ u /= t => cur[u] /= cur[t]
  BY DEF IInv, CallsInv
<1> QED BY <1>1, <1>2 DEF Making

LEMMA RefineEnd ==
  ASSUME IInv, IInv', NEW t \in Threads, NEW r \in Requests, r = cur[t],
         FindTaken(t) \/ Send(t)
  PROVE  Abstract!Refuse(r) \/ Abstract!Submit(r)
<1>1. Busy(t) /\ EndCall(t)
  BY DEF FindTaken, Send, Busy
<1>2. cur[t] \in Making /\ Making' = Making \ {cur[t]}
  BY <1>1, MakingShrinks
<1>3. CASE FindTaken(t)
  <2>1. cur[t] \in Cb
    BY <1>3 DEF FindTaken, IInv, CallsInv
  <2>2. cur[t] \in overlapped
    BY <1>3 DEF FindTaken, IInv, SoloNotDropped
  <2> QED BY <1>2, <1>3, <2>1, <2>2 DEF Abstract!Refuse, FindTaken, Making
<1>4. CASE Send(t)
  BY <1>2, <1>4 DEF Abstract!Submit, Send, Making
<1> QED BY <1>3, <1>4

LEMMA RefineDeliver ==
  ASSUME IInv, IInv', PresentInv, NEW r \in Requests, Deliver(r)
  PROVE  Abstract!Answer(r)
<1> DEFINE c == callbacks[wire[r]]
<1>1. /\ r \in inFlight /\ inFlight' = inFlight \ {r}
      /\ UNCHANGED <<made, overlapped, dropped, linkUp, cur, pc>>
  BY DEF Deliver
<1>2. UNCHANGED <<made, Making, overlapped, dropped, linkUp>>
  BY <1>1 DEF Making, Busy
<1>3. r \in Cb \ overlapped => c = r /\ r /= None
  BY <1>1, RpcAssumption DEF PresentInv, Solo
<1>4. CASE c = None
  <2>1. ran' = ran /\ r \notin Cb \ overlapped
    BY <1>3, <1>4 DEF Deliver
  <2> QED BY <1>1, <1>2, <2>1 DEF Abstract!Answer, Making
<1>5. CASE c /= None
  <2>1. wire[r] \in Keys /\ ran' = ran \cup {<<c, r>>} /\ running = NotRunning
    BY <1>5, RpcAssumption DEF Deliver, IInv, TypeOK, Keys, Ids
  <2>2. c \in Requests /\ c \in made /\ \A p \in ran : p[1] /= c
    BY <1>5, <2>1 DEF IInv, TypeOK, OnceInv, Keys
  <2>3. c \notin overlapped => c = r
    <3>1. SoloAnswer' /\ <<c, r>> \in ran' /\ overlapped' = overlapped
      BY <1>2, <2>1 DEF IInv
    <3> HIDE DEF c
    <3> QED BY <3>1 DEF SoloAnswer
  <2>4. Abstract!Runs(c, r)
    BY <2>1, <2>2, <2>3 DEF Abstract!Runs
  <2>5. r \in Cb \ overlapped => <<r, r>> \in ran'
    BY <1>3, <2>1
  <2> QED BY <1>1, <1>2, <2>2, <2>4, <2>5 DEF Abstract!Answer, Making
<1> QED BY <1>4, <1>5

LEMMA RefineStep ==
  ASSUME IInv, IInv', PresentInv, [Next]_vars
  PROVE  [Abstract!Next]_(Abstract!vars)
<1>1. ASSUME NEW t \in Threads, NEW r \in Requests, Begin(t, r)
      PROVE  Abstract!Next
  BY <1>1, RefineBegin DEF Abstract!Next
<1>2. ASSUME NEW t \in Threads, FindTaken(t) \/ Send(t)
      PROVE  Abstract!Next
  <2>1. PICK r \in Requests : r = cur[t]
    BY <1>2 DEF FindTaken, Send, IInv, TypeOK, CallsInv, Busy
  <2> QED BY <1>2, <2>1, RefineEnd DEF Abstract!Next
<1>3. ASSUME NEW t \in Threads, FindFree(t) \/ Insert(t) \/ Stamp(t)
      PROVE  UNCHANGED Abstract!vars
  BY <1>3, RefineInside
<1>4. ASSUME NEW r \in Requests, Deliver(r)
      PROVE  Abstract!Next
  BY <1>4, RefineDeliver DEF Abstract!Next
<1>5. CASE Return
  BY <1>5 DEF Return, Abstract!vars, Busy
<1>6. CASE Open \/ Lose
  <2>1. UNCHANGED Making
    BY <1>6 DEF Open, Lose, Making, Busy
  <2> QED BY <1>6, <2>1 DEF Open, Lose, Abstract!Next, Abstract!Connect,
                            Abstract!Disconnect, Making
<1>7. CASE UNCHANGED vars
  BY <1>7 DEF vars, Abstract!vars, Busy
<1> QED BY <1>1, <1>2, <1>3, <1>4, <1>5, <1>6, <1>7 DEF Next, CallStep

(* send_jsonrpc and onmessage keep every safety promise of Requests: a call *)
(* made alone is sent under an id of its own, its callback waits for the    *)
(* answer, and runs when it comes, once and with that answer.               *)
THEOREM Refinement == Spec => Abstract!Spec
<1>1. Init => Abstract!Init
  BY RefineInit
<1>2. /\ IInv /\ PresentInv /\ [Next]_vars /\ IInv' /\ PresentInv'
      => [Abstract!Next]_(Abstract!vars)
  BY RefineStep
<1> QED BY <1>1, <1>2, SoloEntryWaits, PTL DEF Spec, Abstract!Spec
=============================================================================
