------------------------- MODULE WifiInstanceProof --------------------------
(***************************************************************************)
(* For any number of changes, calls and reply ids: what ConnMan reports    *)
(* reaches the page in order, and the page's context becomes ready through *)
(* a failure only.                                                         *)
(***************************************************************************)
EXTENDS WifiInstance, SequenceTheorems, TLAPS

-----------------------------------------------------------------------------
(* Sequences of changes. *)

LEMMA SetOfConcat ==
    ASSUME NEW s \in Seq(Nat), NEW t \in Seq(Nat)
    PROVE  ToSet(s \o t) = ToSet(s) \union ToSet(t)
<1>1. /\ s \o t \in Seq(Nat) /\ Len(s \o t) = Len(s) + Len(t)
      /\ \A i \in 1..Len(s) : (s \o t)[i] = s[i]
      /\ \A i \in 1..Len(t) : (s \o t)[Len(s) + i] = t[i]
  OBVIOUS
<1>2. ASSUME NEW i \in 1..Len(s \o t)
      PROVE  (s \o t)[i] \in ToSet(s) \union ToSet(t)
  <2>1. CASE i <= Len(s)
    BY <1>1, <2>1 DEF ToSet
  <2>2. CASE i > Len(s)
    <3>1. i - Len(s) \in 1..Len(t) /\ (s \o t)[i] = t[i - Len(s)]
      BY <1>1, <2>2
    <3> QED
      BY <3>1 DEF ToSet
  <2> QED
    BY <2>1, <2>2
<1>3. ToSet(s) \subseteq ToSet(s \o t)
  BY <1>1 DEF ToSet
<1>4. ASSUME NEW i \in 1..Len(t)
      PROVE  t[i] \in ToSet(s \o t)
  <2>1. Len(s) + i \in 1..Len(s \o t) /\ (s \o t)[Len(s) + i] = t[i]
    BY <1>1
  <2> QED
    BY <2>1 DEF ToSet
<1>5. ToSet(t) \subseteq ToSet(s \o t)
  BY <1>4 DEF ToSet
<1>6. ToSet(s \o t) \subseteq ToSet(s) \union ToSet(t)
  BY <1>1, <1>2 DEF ToSet
<1> QED
  BY <1>3, <1>5, <1>6

LEMMA SetOfAppend ==
    ASSUME NEW s \in Seq(Nat), NEW m \in Nat
    PROVE  ToSet(Append(s, m)) = ToSet(s) \union {m}
<1>1. /\ Len(Append(s, m)) = Len(s) + 1
      /\ \A i \in 1..Len(s) : Append(s, m)[i] = s[i]
      /\ Append(s, m)[Len(s) + 1] = m
  OBVIOUS
<1>2. ToSet(s) \subseteq ToSet(Append(s, m)) /\ m \in ToSet(Append(s, m))
  BY <1>1 DEF ToSet
<1>3. ASSUME NEW i \in 1..Len(Append(s, m))
      PROVE  Append(s, m)[i] \in ToSet(s) \union {m}
  <2>1. i \in 1..Len(s) \/ i = Len(s) + 1
    BY <1>1
  <2> QED
    BY <1>1, <2>1 DEF ToSet
<1>4. ToSet(Append(s, m)) \subseteq ToSet(s) \union {m}
  BY <1>3 DEF ToSet
<1> QED
  BY <1>2, <1>4

\* Whatever comes in t comes behind all that is smaller, in K or in t itself.
Behind(K, t) ==
    \A i \in DOMAIN t : \A m \in 1..(t[i] - 1) :
        m \in K \/ \E j \in 1..(i - 1) : t[j] = m

\* The order that the page is to see is that of a sequence that starts from
\* nothing.
LEMMA BehindAppend ==
    ASSUME NEW K, NEW t \in Seq(Nat), NEW c \in Nat, Behind(K, t),
           1..c \subseteq K \union ToSet(t)
    PROVE  Behind(K, Append(t, c + 1))
<1> DEFINE u == Append(t, c + 1)
<1>1. /\ DOMAIN u = 1..(Len(t) + 1) /\ u[Len(t) + 1] = c + 1
      /\ \A i \in 1..Len(t) : u[i] = t[i]
  OBVIOUS
<1>2. DOMAIN t = 1..Len(t)
  OBVIOUS
<1> HIDE DEF u
<1>3. ASSUME NEW i \in DOMAIN u, NEW m \in 1..(u[i] - 1)
      PROVE  m \in K \/ \E j \in 1..(i - 1) : u[j] = m
  <2>1. CASE i \in 1..Len(t)
    <3>1. m \in 1..(t[i] - 1)
      BY <1>1, <2>1
    <3>2. m \in K \/ \E j \in 1..(i - 1) : t[j] = m
      BY <1>2, <2>1, <3>1 DEF Behind
    <3>3. \A j \in 1..(i - 1) : u[j] = t[j]
      BY <1>1, <2>1
    <3> QED
      BY <3>2, <3>3
  <2>2. CASE i = Len(t) + 1
    <3>1. m \in 1..c
      BY <1>1, <2>2
    <3>2. m \in K \/ \E j \in 1..Len(t) : t[j] = m
      BY <1>2, <3>1 DEF ToSet
    <3>3. 1..(i - 1) = 1..Len(t)
      BY <2>2
    <3> QED
      BY <1>1, <3>2, <3>3
  <2> QED
    BY <1>1, <2>1, <2>2
<1> QED
  BY <1>3 DEF Behind, u

LEMMA BehindConcat ==
    ASSUME NEW K, NEW s \in Seq(Nat), NEW t \in Seq(Nat),
           Behind(K, s), Behind(K \union ToSet(s), t)
    PROVE  Behind(K, s \o t)
<1> DEFINE u == s \o t
<1>1. /\ DOMAIN u = 1..(Len(s) + Len(t))
      /\ DOMAIN s = 1..Len(s) /\ DOMAIN t = 1..Len(t)
      /\ \A i \in 1..Len(s) : u[i] = s[i]
      /\ \A i \in 1..Len(t) : u[Len(s) + i] = t[i]
  OBVIOUS
<1>2. Len(s) \in Nat /\ Len(t) \in Nat
  OBVIOUS
<1> HIDE DEF u
<1>3. ASSUME NEW i \in DOMAIN u, NEW m \in 1..(u[i] - 1)
      PROVE  m \in K \/ \E j \in 1..(i - 1) : u[j] = m
  <2>1. CASE i \in 1..Len(s)
    <3>1. m \in K \/ \E j \in 1..(i - 1) : s[j] = m
      BY <1>1, <2>1 DEF Behind
    <3>2. \A j \in 1..(i - 1) : u[j] = s[j]
      BY <1>1, <1>2, <2>1
    <3> QED
      BY <3>1, <3>2
  <2>2. CASE i \notin 1..Len(s)
    <3> DEFINE k == i - Len(s)
    <3>1. k \in 1..Len(t) /\ i = Len(s) + k
      BY <1>1, <1>2, <2>2
    <3>2. u[i] = t[k]
      BY <1>1, <3>1
    <3>3. m \in K \union ToSet(s) \/ \E j \in 1..(k - 1) : t[j] = m
      BY <1>1, <3>1, <3>2 DEF Behind
    <3>4. CASE m \in ToSet(s)
      <4>1. PICK j \in 1..Len(s) : s[j] = m
        BY <1>1, <3>4 DEF ToSet
      <4> QED
        BY <1>1, <1>2, <3>1, <4>1
    <3>5. CASE \E j \in 1..(k - 1) : t[j] = m
      <4>1. PICK j \in 1..(k - 1) : t[j] = m
        BY <3>5
      <4>2. j \in 1..Len(t) /\ Len(s) + j \in 1..(i - 1)
        BY <1>2, <3>1, <4>1
      <4> QED
        BY <1>1, <4>1, <4>2
    <3> QED
      BY <3>3, <3>4, <3>5
  <2> QED
    BY <2>1, <2>2
<1> QED
  BY <1>3 DEF Behind, u

LEMMA BehindMore ==
    ASSUME NEW K, NEW L, NEW t \in Seq(Nat), Behind(K, t), K \subseteq L
    PROVE  Behind(L, t)
BY DEF Behind

-----------------------------------------------------------------------------
(* Types. *)

LEMMA TypeStep == TypeOK /\ [Next]_vars => TypeOK'
<1> SUFFICES ASSUME TypeOK, [Next]_vars PROVE TypeOK'
  OBVIOUS
<1> USE WifiAssumption
<1>1. /\ changes \in Nat /\ queue \in Seq(1..changes) /\ posted \in Seq(1..changes)
      /\ Flushed(posted) \in Seq(1..changes)
  BY DEF TypeOK, Flushed
<1>2. ASSUME GetDefaultReply
      PROVE  jsReady' \in BOOLEAN /\ blocked' \in BOOLEAN
             /\ posted' \in Seq(1..changes)
  BY <1>1, <1>2 DEF GetDefaultReply, InternalSetSyncReply
<1>3. ASSUME NoReply
      PROVE  jsReady' \in BOOLEAN /\ blocked' \in BOOLEAN
             /\ posted' \in Seq(1..changes)
  BY <1>3 DEF NoReply, TypeOK
<1>4. ASSUME NEW x \in Proxy, NEW ok \in BOOLEAN, Finish(x, ok),
             GetDefaultReply \/ NoReply, fault' \in Fault
      PROVE  TypeOK'
  BY <1>2, <1>3, <1>4 DEF Finish, TypeOK
<1>5. ASSUME NEW x \in {"manager", "tech"}, NEW ok \in BOOLEAN,
             OnProxyCreated(x, ok)
      PROVE  TypeOK'
  BY <1>4, <1>5 DEF OnProxyCreated, Proxy, TypeOK
<1>6. ASSUME NEW ok \in BOOLEAN, OnServiceProxyCreated(ok)
      PROVE  TypeOK'
  <2>1. Finish("service", ok) /\ (GetDefaultReply \/ NoReply)
    BY <1>6 DEF OnServiceProxyCreated
  <2>2. fault' \in Fault
    BY <1>6 DEF OnServiceProxyCreated, TypeOK, Fault
  <2> QED
    BY <1>4, <2>1, <2>2 DEF Proxy
<1>7. ASSUME NEW ok \in BOOLEAN, OnAgentProxyCreated(ok)
      PROVE  TypeOK'
  BY <1>4, <1>7 DEF OnAgentProxyCreated, Proxy, TypeOK
<1>8. ASSUME NEW x \in Proxy, LateProxyCreated(x)
      PROVE  TypeOK'
  BY <1>8 DEF LateProxyCreated, TypeOK, Fault
<1>9. CASE CallAnswered
  BY <1>9 DEF CallAnswered, TypeOK, Fault
<1>10. CASE OnPropertiesChanged
  <2>1. changes' \in 0..MaxChanges /\ changes' \in 1..changes'
        /\ 1..changes \subseteq 1..changes'
    BY <1>1, <1>10 DEF OnPropertiesChanged, TypeOK
  <2>2. queue \in Seq(1..changes') /\ posted \in Seq(1..changes')
        /\ Flushed(posted) \in Seq(1..changes')
    BY <1>1, <2>1, SeqMonotonic
  <2>3. InternalPostMessage(changes')
    BY <1>10 DEF OnPropertiesChanged
  <2>4. Append(queue, changes') \in Seq(1..changes')
        /\ Append(Flushed(posted), changes') \in Seq(1..changes')
    BY <2>1, <2>2, AppendProperties
  <2>5. \/ queue' = queue /\ posted' = Append(Flushed(posted), changes')
        \/ queue' = Append(queue, changes') /\ posted' = posted
    BY <2>3 DEF InternalPostMessage
  <2>6. queue' \in Seq(1..changes') /\ posted' \in Seq(1..changes')
    BY <2>2, <2>4, <2>5
  <2> QED
    BY <1>10, <2>1, <2>6 DEF OnPropertiesChanged, TypeOK
<1>11. ASSUME NEW s \in Slot, NEW id \in ReplyId, NEW x, NEW m \in Method,
              Command(s, id, x, m)
       PROVE  callbackId' \in [Slot -> ReplyId \union {NoId}]
              /\ bus' \in Seq(Method)
  <2>1. callbackId' \in [Slot -> ReplyId \union {NoId}]
    BY <1>11 DEF Command, TypeOK
  <2>2. bus \in Seq(Method) /\ (bus' = bus \/ bus' = Append(bus, m))
    BY <1>11 DEF Command, TypeOK
  <2> HIDE DEF Method
  <2>3. bus' \in Seq(Method)
    BY <2>2
  <2> QED
    BY <2>1, <2>3
<1>12. ASSUME NEW cmd \in AsyncCmd, NEW id \in ReplyId, HandleMessage(cmd, id)
       PROVE  TypeOK'
  <2>1. callbackId' \in [Slot -> ReplyId \union {NoId}] /\ bus' \in Seq(Method)
    BY <1>11, <1>12 DEF HandleMessage, HandleActivate, HandleDeactivate,
          HandleConnect, HandleDisconnect, Slot, Method, TypeOK
  <2> QED
    BY <1>12, <2>1 DEF HandleMessage, TypeOK
<1>13. ASSUME NEW cmd \in {"GetServices", "other"}, NEW id \in ReplyId,
              HandleSyncMessage(cmd, id)
       PROVE  TypeOK'
  <2>1. callbackId' \in [Slot -> ReplyId \union {NoId}] /\ bus' \in Seq(Method)
    BY <1>11, <1>13 DEF HandleSyncMessage, HandleGetServices, Slot, Method, TypeOK
  <2> QED
    BY <1>13, <2>1 DEF HandleSyncMessage, TypeOK
<1>14. CASE InstanceCreated \/ InstanceDestroyed \/ UNCHANGED vars
  BY <1>14 DEF InstanceCreated, InstanceDestroyed, vars, TypeOK
<1>15. ASSUME OnShutdown \/ \E served \in BOOLEAN : XwInitialize(served)
       PROVE  TypeOK'
  BY <1>15 DEF OnShutdown, XwInitialize, Host, TypeOK
<1> QED
  BY <1>5, <1>6, <1>7, <1>8, <1>9, <1>10, <1>12, <1>13, <1>14, <1>15 DEF Next, Gio

LEMMA TypeInit == Init => TypeOK
<1> SUFFICES ASSUME Init PROVE TypeOK
  OBVIOUS
<1>1. changes \in 0..MaxChanges /\ fault \in Fault
  BY WifiAssumption DEF Init, Fault
<1>2. /\ queue \in Seq(1..changes)
      /\ posted \in Seq(1..changes)
      /\ bus \in Seq(Method)
  BY DEF Init
<1>3. callbackId \in [Slot -> ReplyId \union {NoId}]
  BY DEF Init
<1> QED
  BY <1>1, <1>2, <1>3 DEF Init, TypeOK

\* Every variable keeps its type.
THEOREM TypeCorrect == Spec => []TypeOK
<1> QED
  BY TypeInit, TypeStep, PTL DEF Spec

-----------------------------------------------------------------------------
(* Delivery. *)

\* Besides what the page has: the queue comes behind it.
DeliveryInv ==
    /\ TypeOK
    /\ FirstDeliveriesInOrder
    /\ Behind(ToSet(posted), queue)

LEMMA FirstDeliveries ==
    FirstDeliveriesInOrder <=>
        /\ ToSet(posted) \union ToSet(queue) = 1..changes
        /\ Behind({}, posted)
        /\ jsReady => ToSet(posted) = 1..changes
BY DEF FirstDeliveriesInOrder, Behind

LEMMA Sequences ==
    ASSUME TypeOK
    PROVE  posted \in Seq(Nat) /\ queue \in Seq(Nat) /\ changes \in Nat
BY WifiAssumption DEF TypeOK

\* FlushPendingMessages, whether for the first time or again
LEMMA FlushedInOrder ==
    ASSUME DeliveryInv
    PROVE  /\ Flushed(posted) \in Seq(Nat)
           /\ Behind({}, Flushed(posted))
           /\ ToSet(Flushed(posted)) = 1..changes
           /\ Behind(1..changes, queue)
<1>1. posted \in Seq(Nat) /\ queue \in Seq(Nat)
  BY Sequences DEF DeliveryInv
<1>2. /\ ToSet(posted) \union ToSet(queue) = 1..changes
      /\ Behind({}, posted) /\ Behind(ToSet(posted), queue)
  BY FirstDeliveries DEF DeliveryInv
<1>3. Behind({} \union ToSet(posted), queue)
  BY <1>2, BehindMore, <1>1
<1>4. Behind({}, posted \o queue)
  BY <1>1, <1>2, <1>3, BehindConcat
<1>5. ToSet(posted \o queue) = 1..changes
  BY <1>1, <1>2, SetOfConcat
<1>6. Behind(1..changes, queue)
  BY <1>1, <1>2, BehindMore
<1> QED
  BY <1>1, <1>4, <1>5, <1>6 DEF Flushed

LEMMA DefaultReplyStep ==
    ASSUME DeliveryInv, GetDefaultReply, UNCHANGED <<queue, changes>>, TypeOK'
    PROVE  DeliveryInv'
<1>1. posted' = Flushed(posted)
  BY DEF GetDefaultReply, InternalSetSyncReply
<1>2. ToSet(posted') \union ToSet(queue') = 1..changes'
  BY <1>1, FlushedInOrder, FirstDeliveries DEF DeliveryInv
<1>3. /\ Behind({}, posted') /\ ToSet(posted') = 1..changes'
      /\ Behind(ToSet(posted'), queue')
  BY <1>1, FlushedInOrder
<1>4. FirstDeliveriesInOrder'
  BY <1>2, <1>3 DEF FirstDeliveriesInOrder, Behind
<1>5. Behind(ToSet(posted), queue)'
  BY <1>3 DEF Behind
<1> QED
  BY <1>4, <1>5 DEF DeliveryInv

LEMMA NoReplyStep ==
    ASSUME DeliveryInv, UNCHANGED <<queue, changes, posted, jsReady>>, TypeOK'
    PROVE  DeliveryInv'
BY DEF DeliveryInv, FirstDeliveriesInOrder, Behind

LEMMA ChangedStep ==
    ASSUME DeliveryInv, OnPropertiesChanged, TypeOK'
    PROVE  DeliveryInv'
<1> DEFINE c == changes + 1
<1>0. changes' = c /\ InternalPostMessage(c) /\ UNCHANGED jsReady
  BY DEF OnPropertiesChanged
<1>1. posted \in Seq(Nat) /\ queue \in Seq(Nat) /\ changes \in Nat /\ c \in Nat
  BY Sequences DEF DeliveryInv
<1>2. 1..c = 1..changes \union {c}
  BY <1>1
<1>3. /\ ToSet(posted) \union ToSet(queue) = 1..changes
      /\ Behind({}, posted) /\ Behind(ToSet(posted), queue)
  BY FirstDeliveries DEF DeliveryInv
<1>4. CASE jsReady
  <2>1. posted' = Append(Flushed(posted), c) /\ queue' = queue
    BY <1>0, <1>4 DEF InternalPostMessage
  <2>2. ToSet(posted') = 1..c
    BY <1>1, <1>2, <2>1, FlushedInOrder, SetOfAppend
  <2>3. Behind({}, posted')
    <3>1. 1..changes \subseteq {} \union ToSet(Flushed(posted))
      BY FlushedInOrder
    <3> QED
      BY <1>1, <2>1, <3>1, FlushedInOrder, BehindAppend
  <2>4. Behind(ToSet(posted'), queue')
    BY <1>1, <1>2, <2>1, <2>2, FlushedInOrder, BehindMore
  <2>5. ToSet(posted') \union ToSet(queue') = 1..changes'
    BY <1>0, <1>2, <1>3, <2>1, <2>2
  <2> QED
    BY <1>0, <2>2, <2>3, <2>4, <2>5 DEF DeliveryInv, FirstDeliveriesInOrder, Behind
<1>5. CASE ~jsReady
  <2>1. queue' = Append(queue, c) /\ posted' = posted
    BY <1>0, <1>5 DEF InternalPostMessage
  <2>2. ToSet(posted') \union ToSet(queue') = 1..changes'
    BY <1>0, <1>1, <1>2, <1>3, <2>1, SetOfAppend
  <2>3. Behind(ToSet(posted'), queue')
    BY <1>1, <1>3, <2>1, BehindAppend
  <2> QED
    BY <1>0, <1>3, <1>5, <2>1, <2>2, <2>3
       DEF DeliveryInv, FirstDeliveriesInOrder, Behind
<1> QED
  BY <1>4, <1>5 DEF DeliveryInv, TypeOK

LEMMA DeliveryStep == DeliveryInv /\ [Next]_vars => DeliveryInv'
<1> SUFFICES ASSUME DeliveryInv, [Next]_vars PROVE DeliveryInv'
  OBVIOUS
<1>1. TypeOK'
  BY TypeStep DEF DeliveryInv
<1>2. ASSUME NEW x \in Proxy, NEW ok \in BOOLEAN, Finish(x, ok),
             GetDefaultReply \/ NoReply
      PROVE  DeliveryInv'
  BY <1>1, <1>2, DefaultReplyStep, NoReplyStep DEF Finish, NoReply
<1>3. CASE Gio
  <2>1. ASSUME NEW x \in {"manager", "tech"}, NEW ok \in BOOLEAN,
               OnProxyCreated(x, ok)
        PROVE  DeliveryInv'
    BY <1>2, <2>1 DEF OnProxyCreated, Proxy
  <2>2. ASSUME NEW ok \in BOOLEAN,
               OnServiceProxyCreated(ok) \/ OnAgentProxyCreated(ok)
        PROVE  DeliveryInv'
    BY <1>2, <2>2 DEF OnServiceProxyCreated, OnAgentProxyCreated, Proxy
  <2>3. ASSUME NEW x \in Proxy, LateProxyCreated(x)
        PROVE  DeliveryInv'
    BY <1>1, <2>3, NoReplyStep DEF LateProxyCreated
  <2>4. CASE CallAnswered
    BY <1>1, <2>4, NoReplyStep DEF CallAnswered
  <2> QED
    BY <1>3, <2>1, <2>2, <2>3, <2>4 DEF Gio
<1>4. CASE OnPropertiesChanged
  BY <1>1, <1>4, ChangedStep
<1>5. ASSUME NEW cmd, NEW id, HandleMessage(cmd, id) \/ HandleSyncMessage(cmd, id)
      PROVE  DeliveryInv'
  BY <1>1, <1>5, NoReplyStep DEF HandleMessage, HandleSyncMessage
<1>6. CASE InstanceCreated \/ InstanceDestroyed \/ UNCHANGED vars
  BY <1>1, <1>6, NoReplyStep DEF InstanceCreated, InstanceDestroyed, vars
<1>7. CASE OnShutdown \/ \E served \in BOOLEAN : XwInitialize(served)
  BY <1>1, <1>7, NoReplyStep DEF OnShutdown, XwInitialize, Host
<1> QED
  BY <1>3, <1>4, <1>5, <1>6, <1>7 DEF Next

LEMMA DeliveryInit == Init => DeliveryInv
<1> SUFFICES ASSUME Init PROVE DeliveryInv
  OBVIOUS
<1>1. ToSet(<<>>) = {} /\ 1..0 = {}
  BY DEF ToSet
<1>2. Behind({}, <<>>)
  BY DEF Behind
<1> QED
  BY <1>1, <1>2, TypeInit, FirstDeliveries DEF Init, DeliveryInv

\* No change is lost or overtaken on its way to the page, however often the
\* queue is flushed, and none waits once the page is ready.
THEOREM DeliveryCorrect == Spec => []FirstDeliveriesInOrder
<1> QED
  BY DeliveryInit, DeliveryStep, PTL DEF Spec, DeliveryInv

-----------------------------------------------------------------------------
(* What makes the page ready. *)

\* A proxy that is still being made has not failed.
Pending ==
    /\ creating \intersect failed = {}
    /\ object = "absent" => failed = {}

LEMMA PendingStep == Pending /\ [Next]_vars => Pending'
<1> SUFFICES ASSUME Pending, [Next]_vars PROVE Pending'
  OBVIOUS
<1>1. ASSUME NEW x, NEW ok, Finish(x, ok)
      PROVE  Pending'
  BY <1>1 DEF Finish, Pending
<1>2. CASE Gio
  BY <1>1, <1>2 DEF Gio, OnProxyCreated, OnServiceProxyCreated,
        OnAgentProxyCreated, LateProxyCreated, CallAnswered, Pending
<1>3. CASE OnPropertiesChanged
  BY <1>3 DEF OnPropertiesChanged, Pending
<1>4. ASSUME NEW cmd, NEW id, HandleMessage(cmd, id) \/ HandleSyncMessage(cmd, id)
      PROVE  Pending'
  BY <1>4 DEF HandleMessage, HandleSyncMessage, Pending
<1>5. CASE InstanceCreated \/ InstanceDestroyed \/ UNCHANGED vars
  BY <1>5 DEF InstanceCreated, InstanceDestroyed, vars, Pending
<1>6. CASE OnShutdown \/ \E served \in BOOLEAN : XwInitialize(served)
  BY <1>6 DEF OnShutdown, XwInitialize, Host, Pending
<1> QED
  BY <1>2, <1>3, <1>4, <1>5, <1>6 DEF Next

LEMMA ReadyStep ==
    ASSUME Pending, [Next]_vars
    PROVE  ~jsReady /\ jsReady' => failed' # failed \/ fault' # "none"
<1> SUFFICES ASSUME ~jsReady, jsReady' PROVE failed' # failed \/ fault' # "none"
  OBVIOUS
<1>1. ASSUME NEW x, NEW ok, Finish(x, ok), ~ok
      PROVE  failed' # failed
  BY <1>1 DEF Finish, Pending
<1>2. ASSUME NEW x, NEW ok \in BOOLEAN, OnProxyCreated(x, ok)
      PROVE  failed' # failed
  BY <1>1, <1>2 DEF OnProxyCreated, NoReply
<1>3. ASSUME NEW ok \in BOOLEAN, OnServiceProxyCreated(ok)
      PROVE  failed' # failed \/ fault' # "none"
  BY <1>1, <1>3 DEF OnServiceProxyCreated, NoReply
<1>4. ~\E ok \in BOOLEAN : OnAgentProxyCreated(ok)
  BY DEF OnAgentProxyCreated, NoReply
<1>5. /\ ~\E x \in Proxy : LateProxyCreated(x)
      /\ ~CallAnswered /\ ~OnPropertiesChanged
      /\ ~InstanceCreated /\ ~InstanceDestroyed /\ ~UNCHANGED vars
  BY DEF LateProxyCreated, CallAnswered, OnPropertiesChanged, InstanceCreated,
         InstanceDestroyed, vars
<1>6. /\ ~\E cmd \in AsyncCmd, id \in ReplyId : HandleMessage(cmd, id)
      /\ ~\E cmd \in {"GetServices", "other"}, id \in ReplyId :
            HandleSyncMessage(cmd, id)
  BY DEF HandleMessage, HandleSyncMessage
<1>7. ~OnShutdown /\ ~\E served \in BOOLEAN : XwInitialize(served)
  BY DEF OnShutdown, XwInitialize, Host
<1> QED
  BY <1>2, <1>3, <1>4, <1>5, <1>6, <1>7 DEF Next, Gio

\* Nothing but a proxy that cannot be made, or a fault, makes the page ready.
THEOREM ReadyCorrect == Spec => ReadyOnlyOnTrouble
<1>1. Init => Pending
  BY DEF Init, Pending
<1> QED
  BY <1>1, PendingStep, ReadyStep, PTL DEF Spec, ReadyOnlyOnTrouble
=============================================================================
