------------------------ MODULE GdbusServiceWatchProof -----------------------
(***************************************************************************)
(* For any number of watches, owners and changes of owner: a service watch *)
(* ends up right about its name, however the answer to its first look and  *)
(* the bus's signals cross; and nothing is called once it is removed.      *)
(***************************************************************************)
EXTENDS GdbusServiceWatch, SequenceTheorems, WellFoundedInduction, TLAPS

-----------------------------------------------------------------------------
(* Lists without repetitions. *)

LEMMA Least ==
    ASSUME NEW T, T \subseteq Nat, T # {}
    PROVE  \E m \in T : \A k \in T : m <= k
<1> DEFINE R == {ss \in Nat \X Nat : ss[1] < ss[2]}
<1>1. IsWellFoundedOn(R, Nat)
  BY NatLessThanWellFounded DEF OpToRel
<1>2. PICK m \in T : \A k \in T : <<k, m>> \notin R
  <2> HIDE DEF R
  <2> QED
    BY <1>1, WFMin
<1>3. ASSUME NEW k \in T PROVE m <= k
  <2>1. <<k, m>> \in Nat \X Nat /\ <<k, m>>[1] = k /\ <<k, m>>[2] = m
    OBVIOUS
  <2>2. ~(k < m)
    BY <2>1, <1>2
  <2> QED
    BY <2>2
<1> QED
  BY <1>3

LEMMA FirstRemoved ==
    ASSUME NEW s, Len(s) \in Nat, NEW e, \E i \in 1..Len(s) : s[i] = e
    PROVE  \E k \in 1..Len(s) : s[k] = e /\ RemoveFirst(s, e) = RemoveAt(s, k)
<1> DEFINE I == {i \in 1..Len(s) : s[i] = e}
<1>1. I \subseteq Nat /\ I # {}
  OBVIOUS
<1>2. RemoveFirst(s, e) = RemoveAt(s, Min(I))
  BY <1>1 DEF RemoveFirst, SelectInSeq
<1> HIDE DEF I
<1>3. \E m \in I : \A k \in I : m <= k
  BY <1>1, Least
<1>4. Min(I) \in I
  BY <1>3 DEF Min
<1> QED
  BY <1>2, <1>4 DEF I

LEMMA Domain ==
    ASSUME NEW S, NEW s \in Seq(S)
    PROVE  /\ Len(s) \in Nat /\ DOMAIN s = 1..Len(s)
           /\ \A i \in 1..Len(s) : s[i] \in S
           /\ ToSet(s) = {s[i] : i \in 1..Len(s)}
BY LenProperties DEF ToSet

\* What is left without place k
LEMMA Shortened ==
    ASSUME NEW S, NEW s \in Seq(S), NEW k \in 1..Len(s)
    PROVE  /\ RemoveAt(s, k) \in Seq(S) /\ Len(RemoveAt(s, k)) = Len(s) - 1
           /\ \A i \in 1..(Len(s) - 1) :
                 RemoveAt(s, k)[i] = IF i < k THEN s[i] ELSE s[i + 1]
<1> DEFINE a == SubSeq(s, 1, k - 1)
           b == SubSeq(s, k + 1, Len(s))
<1>1. Len(s) \in Nat /\ \A i \in 1..Len(s) : s[i] \in S
  BY Domain
<1>2. a \in Seq(S) /\ Len(a) = k - 1 /\ \A i \in 1..(k - 1) : a[i] = s[i]
  BY <1>1
<1>3. b \in Seq(S) /\ Len(b) = Len(s) - k
      /\ \A i \in 1..(Len(s) - k) : b[i] = s[k + i]
  BY <1>1
<1>4. RemoveAt(s, k) = a \o b
  BY DEF RemoveAt
<1> HIDE DEF a, b
<1>5. /\ a \o b \in Seq(S) /\ Len(a \o b) = Len(a) + Len(b)
      /\ \A i \in 1..(Len(a) + Len(b)) :
            (a \o b)[i] = IF i <= Len(a) THEN a[i] ELSE b[i - Len(a)]
  BY <1>2, <1>3, ConcatProperties
<1>6. ASSUME NEW i \in 1..(Len(s) - 1)
      PROVE  (a \o b)[i] = IF i < k THEN s[i] ELSE s[i + 1]
  <2>1. CASE i < k
    BY <1>1, <1>2, <1>3, <1>5, <2>1
  <2>2. CASE ~(i < k)
    <3>1. i - (k - 1) \in 1..(Len(s) - k) /\ k + (i - (k - 1)) = i + 1
      BY <1>1, <2>2
    <3>2. (a \o b)[i] = b[i - (k - 1)]
      BY <1>1, <1>2, <1>3, <1>5, <2>2
    <3>3. b[i - (k - 1)] = s[i + 1]
      BY <1>3, <3>1
    <3>4. (a \o b)[i] = s[i + 1]
      BY <3>2, <3>3, Zenon
    <3> QED
      BY <2>2, <3>4, Zenon
  <2> QED
    BY <2>1, <2>2, Zenon
<1> QED
  BY <1>1, <1>2, <1>3, <1>4, <1>5, <1>6

LEMMA ListRemove ==
    ASSUME NEW S, NEW s \in Seq(S), IsInjective(s), NEW e
    PROVE  /\ RemoveFirst(s, e) \in Seq(S) /\ IsInjective(RemoveFirst(s, e))
           /\ ToSet(RemoveFirst(s, e)) = ToSet(s) \ {e}
<1>1. Len(s) \in Nat /\ DOMAIN s = 1..Len(s) /\ ToSet(s) = {s[i] : i \in 1..Len(s)}
  BY Domain
<1>2. CASE ~\E i \in 1..Len(s) : s[i] = e
  BY <1>1, <1>2 DEF RemoveFirst
<1>3. CASE \E i \in 1..Len(s) : s[i] = e
  <2> DEFINE u == RemoveFirst(s, e)
  <2>1. PICK k \in 1..Len(s) : s[k] = e /\ u = RemoveAt(s, k)
    BY <1>1, <1>3, FirstRemoved
  <2> HIDE DEF u
  <2>2. /\ u \in Seq(S) /\ Len(u) = Len(s) - 1
        /\ \A i \in 1..Len(u) : u[i] = IF i < k THEN s[i] ELSE s[i + 1]
    BY <1>1, <2>1, Shortened
  <2>3. DOMAIN u = 1..Len(u) /\ ToSet(u) = {u[i] : i \in 1..Len(u)}
    BY <2>2, Domain
  <2>4. ASSUME NEW i \in 1..Len(u)
        PROVE  \E j \in 1..Len(s) : j # k /\ u[i] = s[j]
                                         /\ j = (IF i < k THEN i ELSE i + 1)
    BY <1>1, <2>2
  <2>5. ASSUME NEW j \in 1..Len(s), j # k
        PROVE  \E i \in 1..Len(u) : u[i] = s[j]
    <3>1. CASE j < k
      BY <1>1, <2>2, <3>1
    <3>2. CASE j > k
      <4>1. j - 1 \in 1..Len(u) /\ u[j - 1] = s[j]
        BY <1>1, <2>2, <3>2
      <4> QED
        BY <4>1
    <3> QED
      BY <2>5, <3>1, <3>2
  <2>6. IsInjective(u)
    <3> SUFFICES ASSUME NEW i \in 1..Len(u), NEW j \in 1..Len(u), u[i] = u[j]
                 PROVE  i = j
      BY <2>3 DEF IsInjective
    <3>1. PICK a \in 1..Len(s) : u[i] = s[a] /\ a = (IF i < k THEN i ELSE i + 1)
      BY <2>4
    <3>2. PICK b \in 1..Len(s) : u[j] = s[b] /\ b = (IF j < k THEN j ELSE j + 1)
      BY <2>4
    <3>3. a = b
      BY <1>1, <3>1, <3>2 DEF IsInjective
    <3> QED
      BY <2>2, <3>1, <3>2, <3>3
  <2>7. ToSet(u) \subseteq ToSet(s) \ {e}
    BY <1>1, <2>1, <2>3, <2>4 DEF IsInjective
  <2>8. ToSet(s) \ {e} \subseteq ToSet(u)
    BY <1>1, <2>1, <2>3, <2>5
  <2> QED
    BY <2>2, <2>6, <2>7, <2>8 DEF u
<1> QED
  BY <1>2, <1>3

LEMMA ListAppend ==
    ASSUME NEW S, NEW s \in Seq(S), IsInjective(s), NEW x \in S, x \notin ToSet(s)
    PROVE  /\ Append(s, x) \in Seq(S) /\ IsInjective(Append(s, x))
           /\ ToSet(Append(s, x)) = ToSet(s) \union {x}
<1> DEFINE u == Append(s, x)
<1>1. /\ u \in Seq(S) /\ Len(u) = Len(s) + 1 /\ Len(s) \in Nat
      /\ \A i \in 1..Len(s) : u[i] = s[i]
      /\ u[Len(u)] = x /\ DOMAIN s = 1..Len(s) /\ DOMAIN u = 1..Len(u)
  OBVIOUS
<1> HIDE DEF u
<1>2. ASSUME NEW i \in 1..Len(u)
      PROVE  i = Len(u) \/ (i \in 1..Len(s) /\ u[i] = s[i] /\ u[i] # x)
  BY <1>1 DEF ToSet
<1>3. IsInjective(u)
  BY <1>1, <1>2 DEF IsInjective
<1>4. ToSet(u) \subseteq ToSet(s) \union {x}
  BY <1>1, <1>2 DEF ToSet
<1>5. ToSet(s) \subseteq ToSet(u) /\ x \in ToSet(u)
  <2>1. \A i \in 1..Len(s) : i \in 1..Len(u) /\ u[i] = s[i]
    BY <1>1
  <2>2. Len(u) \in 1..Len(u)
    BY <1>1
  <2> QED
    BY <1>1, <2>1, <2>2 DEF ToSet
<1> QED
  BY <1>1, <1>3, <1>4, <1>5 DEF u

LEMMA ListTail ==
    ASSUME NEW S, NEW s \in Seq(S), IsInjective(s), s # <<>>
    PROVE  /\ Tail(s) \in Seq(S) /\ IsInjective(Tail(s)) /\ Head(s) \in ToSet(s)
           /\ ToSet(Tail(s)) = ToSet(s) \ {Head(s)}
<1>1. /\ Tail(s) \in Seq(S) /\ Len(Tail(s)) = Len(s) - 1 /\ Len(s) \in Nat /\ Len(s) > 0
      /\ \A i \in 1..Len(Tail(s)) : Tail(s)[i] = s[i + 1]
      /\ Head(s) = s[1] /\ DOMAIN s = 1..Len(s) /\ DOMAIN Tail(s) = 1..Len(Tail(s))
  OBVIOUS
<1>2. IsInjective(Tail(s)) /\ Head(s) \in ToSet(s)
  BY <1>1 DEF IsInjective, ToSet
<1>3. ASSUME NEW x \in ToSet(Tail(s))
      PROVE  x \in ToSet(s) /\ x # Head(s)
  <2>1. PICK i \in 1..Len(Tail(s)) : x = Tail(s)[i]
    BY <1>1 DEF ToSet
  <2>2. i + 1 \in 1..Len(s) /\ i + 1 # 1 /\ x = s[i + 1]
    BY <1>1, <2>1
  <2> QED
    BY <1>1, <2>2 DEF ToSet, IsInjective
<1>4. ASSUME NEW x \in ToSet(s), x # Head(s)
      PROVE  x \in ToSet(Tail(s))
  <2>1. PICK i \in 1..Len(s) : x = s[i]
    BY <1>1 DEF ToSet
  <2>2. i - 1 \in 1..Len(Tail(s)) /\ x = Tail(s)[i - 1]
    BY <1>1, <1>4, <2>1
  <2> QED
    BY <1>1, <2>2 DEF ToSet
<1> QED
  BY <1>1, <1>2, <1>3, <1>4

-----------------------------------------------------------------------------
(* The inductive invariant. *)

\* The main loop has seen all that the bus has said about the name.
NoNews == \A i \in DOMAIN inbox : inbox[i].kind # "changed"

\* No news follows what the connection has at place i.
Latest(i) ==
    /\ i \in DOMAIN inbox
    /\ \A j \in DOMAIN inbox : j > i => inbox[j].kind # "changed"

\* The watches that BeliefSettles is about
Sure(w) == state[w] = "active" /\ w \notin doubted

\* No callback is still to be called twice.
Once == IsInjective(todo)

\* A watch that is gone looks for nothing, one that is to come has heard
\* nothing, and what comes from the cache is doubted.
LooksOK ==
    /\ \A w \in Watch : check[w] # "none" => state[w] = "active"
    /\ \A w \in Watch : check[w] = "idle" => w \in doubted
    /\ \A w \in Watch : state[w] = "absent" =>
          /\ belief[w] = "none"
          /\ \A i \in DOMAIN requests : requests[i] # w
          /\ \A i \in DOMAIN inbox : inbox[i].kind = "reply" => inbox[i].watch # w

\* No sure watch came in a hurry; unless somebody did, the last news under way
\* is true.
NewsOK ==
    /\ \A w \in Watch : Sure(w) => ~hurried
    /\ MatchRule /\ ~hurried =>
          \A i \in DOMAIN inbox :
             Latest(i) /\ inbox[i].kind = "changed" => inbox[i].owner = owner

\* An answer that no news follows is true.
RepliesOK ==
    \A w \in Watch : check[w] = "call" =>
        \A i \in DOMAIN inbox :
           Latest(i) /\ inbox[i].kind = "reply" /\ inbox[i].watch = w
              => inbox[i].owner = owner

\* The news under dispatch is true if no other is under way.
DispatchOK ==
    \A w \in Watch : Sure(w) /\ NoNews /\ w \in ToSet(todo) => news = owner

\* A watch believes what is true, or its first look is still out.
Right(w) ==
    /\ w \in Conn \intersect Disc =>
          IF owner = Nobody THEN belief[w] # "conn"
          ELSE belief[w] = "conn" \/ check[w] = "call"
    /\ w \in Disc /\ metOwner[w] /\ owner = Nobody => belief[w] = "disc"

\* So it is with each that has heard all there is.
BeliefOK ==
    \A w \in Watch : Sure(w) /\ NoNews /\ w \notin ToSet(todo) => Right(w)

Invariant ==
    TypeOK /\ Once /\ LooksOK /\ NewsOK /\ RepliesOK /\ DispatchOK /\ BeliefOK

-----------------------------------------------------------------------------
(* The types. *)

LEMMA Message ==
    \A m \in Changed \union Reply :
        /\ m.owner \in Owner \union {Nobody}
        /\ m.kind = "reply" => m.watch \in Watch
        /\ m.kind \in {"changed", "reply"}
BY DEF Changed, Reply

\* The first message and those behind it
LEMMA FirstMessage ==
    ASSUME inbox \in Seq(Changed \union Reply), inbox # <<>>
    PROVE  /\ Head(inbox) = inbox[1] /\ Head(inbox) \in Changed \union Reply
           /\ Tail(inbox) \in Seq(Changed \union Reply)
           /\ Len(inbox) \in Nat /\ 1 \in DOMAIN inbox /\ DOMAIN inbox = 1..Len(inbox)
           /\ DOMAIN Tail(inbox) = 1..(Len(inbox) - 1)
           /\ \A i \in DOMAIN Tail(inbox) :
                 i + 1 \in DOMAIN inbox /\ Tail(inbox)[i] = inbox[i + 1]
OBVIOUS

\* The messages before a new one
LEMMA NewMessage ==
    ASSUME inbox \in Seq(Changed \union Reply), NEW m \in Changed \union Reply
    PROVE  /\ Append(inbox, m) \in Seq(Changed \union Reply)
           /\ Len(inbox) \in Nat /\ DOMAIN inbox = 1..Len(inbox)
           /\ DOMAIN Append(inbox, m) = 1..(Len(inbox) + 1)
           /\ \A i \in DOMAIN inbox : Append(inbox, m)[i] = inbox[i]
           /\ Append(inbox, m)[Len(inbox) + 1] = m
OBVIOUS

LEMMA InitialType == Init => TypeOK
<1> SUFFICES ASSUME Init PROVE TypeOK
  OBVIOUS
<1>1. ToSet(callbacks) = {} /\ ToSet(todo) = {} /\ IsInjective(callbacks)
  BY DEF Init, ToSet, IsInjective
<1>2. /\ requests \in Seq(Watch) /\ callbacks \in Seq(Watch) /\ todo \in Seq(Watch)
      /\ inbox \in Seq(Changed \union Reply)
  BY DEF Init
<1>3. \A w \in Watch : state[w] = "absent"
  BY DEF Init
<1>4. /\ state \in [Watch -> {"absent", "active", "removed"}]
      /\ check \in [Watch -> {"none", "call", "idle"}]
      /\ belief \in [Watch -> {"none", "conn", "disc"}]
      /\ metOwner \in [Watch -> BOOLEAN]
  BY DEF Init
<1>7. changes \in 0..MaxChanges
  BY ServiceWatchAssumption DEF Init
<1>5. /\ unique \in BOOLEAN /\ owner \in Owner \union {Nobody}
      /\ cache \in Owner \union {Nobody, Unknown, NoFilter}
      /\ news \in Owner \union {Nobody} /\ hurried \in BOOLEAN /\ doubted \subseteq Watch
  BY Zenon DEF Init
<1>6. ToSet(callbacks) = {w \in Watch : state[w] = "active"} /\ ToSet(todo) \subseteq ToSet(callbacks)
  BY <1>1, <1>3
<1> QED
  BY <1>1, <1>2, <1>4, <1>5, <1>6, <1>7 DEF TypeOK

\* A watch leaves the filter.
LEMMA Leaves ==
    ASSUME TypeOK, NEW w \in Watch, state' = [state EXCEPT ![w] = "removed"],
           callbacks' = RemoveFirst(callbacks, w)
    PROVE  /\ callbacks' \in Seq(Watch) /\ IsInjective(callbacks')
           /\ ToSet(callbacks') = ToSet(callbacks) \ {w}
           /\ ToSet(callbacks') = {v \in Watch : state'[v] = "active"}
<1>1. /\ callbacks' \in Seq(Watch) /\ IsInjective(callbacks')
      /\ ToSet(callbacks') = ToSet(callbacks) \ {w}
  BY ListRemove DEF TypeOK
<1>2. {v \in Watch : state'[v] = "active"} = {v \in Watch : state[v] = "active"} \ {w}
  BY DEF TypeOK
<1> QED
  BY <1>1, <1>2 DEF TypeOK

LEMMA TypeStep ==
    ASSUME TypeOK, Once, [Next]_vars
    PROVE  TypeOK' /\ Once'
<1> USE DEF Once
<1>1. ASSUME NEW o \in Owner \union {Nobody}, OwnerChanges(o)
      PROVE  TypeOK' /\ Once'
  <2>1. [kind |-> "changed", owner |-> o] \in Changed
    BY DEF Changed
  <2>2. inbox' \in Seq(Changed \union Reply)
    BY <1>1, <2>1 DEF OwnerChanges, TypeOK
  <2>3. changes' \in 0..MaxChanges /\ metOwner' \in [Watch -> BOOLEAN]
    BY <1>1, ServiceWatchAssumption DEF OwnerChanges, TypeOK
  <2> QED
    BY <1>1, <2>2, <2>3 DEF OwnerChanges, TypeOK
<1>2. CASE BusAnswers
  <2>1. Head(requests) \in Watch /\ Tail(requests) \in Seq(Watch)
    BY <1>2 DEF BusAnswers, TypeOK
  <2>2. [kind |-> "reply", watch |-> Head(requests), owner |-> owner] \in Reply
    BY <2>1 DEF Reply, TypeOK
  <2>3. inbox' \in Seq(Changed \union Reply)
    BY <1>2, <2>2 DEF BusAnswers, TypeOK
  <2> QED
    BY <1>2, <2>1, <2>3 DEF BusAnswers, TypeOK
<1>3. ASSUME NEW w \in Watch, AddServiceWatch(w)
      PROVE  TypeOK' /\ Once'
  <2>1. w \notin ToSet(callbacks)
    BY <1>3 DEF AddServiceWatch, TypeOK
  <2>2. /\ callbacks' \in Seq(Watch) /\ IsInjective(callbacks')
        /\ ToSet(callbacks') = ToSet(callbacks) \union {w}
    BY <1>3, <2>1, ListAppend DEF AddServiceWatch, TypeOK
  <2>3. ToSet(callbacks') = {v \in Watch : state'[v] = "active"}
    BY <1>3, <2>2 DEF AddServiceWatch, TypeOK
  <2>4. /\ requests' = requests \/ requests' = Append(requests, w)
        /\ \/ check' = check
           \/ check' = [check EXCEPT ![w] = "call"] \/ check' = [check EXCEPT ![w] = "idle"]
    BY <1>3, Zenon DEF AddServiceWatch
  <2>5. requests \in Seq(Watch) /\ Append(requests, w) \in Seq(Watch)
    BY DEF TypeOK
  <2>6. requests' \in Seq(Watch)
    BY <2>4, <2>5
  <2>7. check' \in [Watch -> {"none", "call", "idle"}]
    BY <2>4 DEF TypeOK
  <2>8. hurried' \in BOOLEAN /\ doubted' \subseteq Watch
    BY <1>3 DEF AddServiceWatch, TypeOK, Hurried
  <2>9. metOwner' \in [Watch -> BOOLEAN] /\ state' \in [Watch -> {"absent", "active", "removed"}]
    BY <1>3 DEF AddServiceWatch, TypeOK
  <2> QED
    BY <1>3, <2>2, <2>3, <2>6, <2>8, <2>9, <2>7 DEF AddServiceWatch, TypeOK
<1>4. ASSUME NEW w \in Watch, RemoveServiceWatch(w)
      PROVE  TypeOK' /\ Once'
  <2>1. /\ callbacks' \in Seq(Watch) /\ IsInjective(callbacks')
        /\ ToSet(callbacks') = ToSet(callbacks) \ {w}
        /\ ToSet(callbacks') = {v \in Watch : state'[v] = "active"}
    BY <1>4, Leaves DEF RemoveServiceWatch
  <2>2. /\ todo' \in Seq(Watch) /\ IsInjective(todo') /\ ToSet(todo') = ToSet(todo) \ {w}
    BY <1>4, ListRemove DEF RemoveServiceWatch, TypeOK
  <2> QED
    BY <1>4, <2>1, <2>2 DEF RemoveServiceWatch, TypeOK, bus
<1>5. ASSUME NEW w \in Watch, TimesOut(w)
      PROVE  TypeOK' /\ Once'
  BY <1>5 DEF TimesOut, TypeOK, bus
<1>6. CASE AddSignalWatch
  BY <1>6 DEF AddSignalWatch, TypeOK, bus, Hurried
<1>7. CASE RemoveSignalWatch
  BY <1>7 DEF RemoveSignalWatch, TypeOK, bus
<1>8. CASE NameOwnerChanged
  BY <1>8, FirstMessage, Message DEF NameOwnerChanged, TypeOK, bus
<1>9. CASE CallNext
  <2> DEFINE w == Head(todo)
  <2>1. /\ w \in ToSet(todo) /\ Tail(todo) \in Seq(Watch) /\ IsInjective(Tail(todo))
        /\ ToSet(Tail(todo)) = ToSet(todo) \ {w}
    BY <1>9, ListTail DEF CallNext, TypeOK
  <2>2. w \in Watch /\ state[w] = "active"
    BY <2>1 DEF TypeOK
  <2>3. belief' \in [Watch -> {"none", "conn", "disc"}]
    BY <1>9, <2>2 DEF CallNext, TypeOK, Told
  <2>4. CASE callbacks' = callbacks /\ state' = state /\ check' = check
    BY <1>9, <2>1, <2>3, <2>4 DEF CallNext, TypeOK, bus
  <2>5. CASE /\ callbacks' = RemoveFirst(callbacks, w)
             /\ state' = [state EXCEPT ![w] = "removed"]
             /\ check' = [check EXCEPT ![w] = "none"]
    <3>1. /\ callbacks' \in Seq(Watch) /\ IsInjective(callbacks')
          /\ ToSet(callbacks') = ToSet(callbacks) \ {w}
          /\ ToSet(callbacks') = {v \in Watch : state'[v] = "active"}
      BY <2>2, <2>5, Leaves
    <3> QED
      BY <1>9, <2>1, <2>3, <2>5, <3>1 DEF CallNext, TypeOK, bus
  <2> QED
    BY <1>9, <2>4, <2>5 DEF CallNext
<1>10. CASE ServiceReply
  BY <1>10, FirstMessage, Message DEF ServiceReply, TypeOK, bus
<1>11. ASSUME NEW w \in Watch, UpdateService(w)
       PROVE  TypeOK' /\ Once'
  BY <1>11 DEF UpdateService, TypeOK, bus
<1>12. CASE UNCHANGED vars
  BY <1>12 DEF vars, TypeOK, bus
<1> QED
  BY <1>1, <1>2, <1>3, <1>4, <1>5, <1>6, <1>7, <1>8, <1>9, <1>10, <1>11, <1>12
  DEF Next, MainLoop
-----------------------------------------------------------------------------
(* What a step does to what is under way. *)

LEMMA AfterFirst ==
    ASSUME TypeOK, inbox # <<>>, inbox' = Tail(inbox)
    PROVE  /\ \A i \in DOMAIN inbox' :
                 i + 1 \in DOMAIN inbox /\ inbox'[i] = inbox[i + 1]
           /\ \A i : Latest(i)' => Latest(i + 1)
           /\ NoNews' => Latest(1)
           /\ NoNews' /\ Head(inbox).kind # "changed" => NoNews
<1>1. inbox \in Seq(Changed \union Reply)
  BY DEF TypeOK
<1>2. /\ Head(inbox) = inbox[1] /\ Len(inbox) \in Nat /\ 1 \in DOMAIN inbox
      /\ DOMAIN inbox = 1..Len(inbox) /\ DOMAIN inbox' = 1..(Len(inbox) - 1)
      /\ \A i \in DOMAIN inbox' : i + 1 \in DOMAIN inbox /\ inbox'[i] = inbox[i + 1]
  BY <1>1, FirstMessage
<1>3. \A j \in DOMAIN inbox : j = 1 \/ (j - 1 \in DOMAIN inbox' /\ inbox[j] = inbox'[j - 1])
  BY <1>2
<1>4. ASSUME NEW i, Latest(i)' PROVE Latest(i + 1)
  <2>1. i \in DOMAIN inbox' /\ \A j \in DOMAIN inbox' : j > i => inbox'[j].kind # "changed"
    BY <1>4 DEF Latest
  <2>2. ASSUME NEW j \in DOMAIN inbox, j > i + 1
        PROVE  inbox[j].kind # "changed"
    <3>1. j - 1 \in DOMAIN inbox' /\ j - 1 > i /\ inbox[j] = inbox'[j - 1]
      BY <1>2, <1>3, <2>1, <2>2
    <3> QED
      BY <2>1, <3>1
  <2> QED
    BY <1>2, <2>1, <2>2 DEF Latest
<1>5. ASSUME NoNews' PROVE \A j \in DOMAIN inbox : j # 1 => inbox[j].kind # "changed"
  BY <1>3, <1>5 DEF NoNews
<1>6. NoNews' => Latest(1)
  BY <1>2, <1>5 DEF Latest
<1>7. NoNews' /\ Head(inbox).kind # "changed" => NoNews
  BY <1>2, <1>5 DEF NoNews
<1> QED
  BY <1>2, <1>4, <1>6, <1>7

LEMMA AfterNews ==
    ASSUME TypeOK, NEW m \in Changed, inbox' = Append(inbox, m)
    PROVE  ~NoNews' /\ \A i : Latest(i)' => inbox'[i] = m
<1>1. inbox \in Seq(Changed \union Reply) /\ m \in Changed \union Reply /\ m.kind = "changed"
  BY DEF TypeOK, Changed
<1>2. /\ Len(inbox) \in Nat /\ DOMAIN inbox' = 1..(Len(inbox) + 1)
      /\ inbox'[Len(inbox) + 1] = m
  BY <1>1, NewMessage
<1>3. ASSUME NEW i \in DOMAIN inbox', i # Len(inbox) + 1
      PROVE  ~Latest(i)'
  BY <1>1, <1>2, <1>3 DEF Latest
<1> QED
  BY <1>1, <1>2, <1>3 DEF Latest, NoNews

LEMMA AfterReply ==
    ASSUME TypeOK, NEW m \in Reply, inbox' = Append(inbox, m)
    PROVE  /\ NoNews' <=> NoNews
           /\ \A i \in DOMAIN inbox' :
                 inbox'[i] = m \/ (i \in DOMAIN inbox /\ inbox'[i] = inbox[i])
           /\ \A i : Latest(i)' => inbox'[i] = m \/ (Latest(i) /\ inbox'[i] = inbox[i])
<1>1. inbox \in Seq(Changed \union Reply) /\ m \in Changed \union Reply /\ m.kind # "changed"
  BY DEF TypeOK, Reply
<1>2. /\ Len(inbox) \in Nat /\ DOMAIN inbox = 1..Len(inbox)
      /\ DOMAIN inbox' = 1..(Len(inbox) + 1)
      /\ \A i \in DOMAIN inbox : inbox'[i] = inbox[i]
      /\ inbox'[Len(inbox) + 1] = m
  BY <1>1, NewMessage
<1>3. \A i \in DOMAIN inbox' : i = Len(inbox) + 1 \/ i \in DOMAIN inbox
  BY <1>2
<1>4. DOMAIN inbox \subseteq DOMAIN inbox'
  BY <1>2
<1>5. NoNews' <=> NoNews
  BY <1>1, <1>2, <1>3, <1>4 DEF NoNews
<1>6. ASSUME NEW i, Latest(i)' PROVE inbox'[i] = m \/ (Latest(i) /\ inbox'[i] = inbox[i])
  BY <1>1, <1>2, <1>3, <1>4, <1>6 DEF Latest
<1> QED
  BY <1>2, <1>3, <1>5, <1>6

\* A watch that is there keeps the match rule.
LEMMA Matched ==
    ASSUME TypeOK, NEW w \in Watch, state[w] = "active"
    PROVE  MatchRule /\ w \in ToSet(callbacks)
<1>1. w \in ToSet(callbacks)
  BY DEF TypeOK
<1>2. callbacks # <<>>
  BY <1>1 DEF ToSet
<1> QED
  BY <1>1, <1>2 DEF MatchRule

\* Nothing called and nothing removed but the watch whose turn it is
LEMMA Turn ==
    ASSUME TypeOK, Once, CallNext
    PROVE  /\ Head(todo) \in Watch /\ state[Head(todo)] = "active"
           /\ Head(todo) \in ToSet(todo) /\ ToSet(todo') = ToSet(todo) \ {Head(todo)}
           /\ belief' = [belief EXCEPT ![Head(todo)] = Told(Head(todo))]
           /\ \/ state' = state /\ check' = check /\ callbacks' = callbacks
              \/ /\ state' = [state EXCEPT ![Head(todo)] = "removed"]
                 /\ check' = [check EXCEPT ![Head(todo)] = "none"]
                 /\ unique /\ Head(todo) \notin Conn \intersect Disc
           /\ UNCHANGED <<bus, inbox, cache, news, metOwner, hurried, doubted>>
<1>1. /\ Head(todo) \in ToSet(todo) /\ ToSet(Tail(todo)) = ToSet(todo) \ {Head(todo)}
  BY ListTail DEF CallNext, TypeOK, Once
<1>2. Head(todo) \in Watch /\ state[Head(todo)] = "active"
  BY <1>1 DEF TypeOK
<1> QED
  BY <1>1, <1>2 DEF CallNext

LEMMA InitialRest == Init => Invariant
<1> SUFFICES ASSUME Init PROVE Invariant
  OBVIOUS
<1>1. TypeOK
  BY InitialType
<1>2. DOMAIN inbox = {} /\ DOMAIN requests = {} /\ ToSet(todo) = {} /\ IsInjective(todo)
  BY DEF Init, ToSet, IsInjective
<1>3. \A w \in Watch : state[w] = "absent" /\ check[w] = "none" /\ belief[w] = "none"
  BY DEF Init
<1> QED
  BY <1>1, <1>2, <1>3
  DEF Invariant, Once, LooksOK, NewsOK, RepliesOK, DispatchOK, BeliefOK, Right, Sure,
      NoNews

LEMMA LooksStep ==
    ASSUME TypeOK, Once, LooksOK, [Next]_vars
    PROVE  LooksOK'
<1> USE DEF LooksOK
<1>1. ASSUME NEW o \in Owner \union {Nobody}, OwnerChanges(o)
      PROVE  LooksOK'
  <2>1. CASE inbox' = inbox
    BY <1>1, <2>1 DEF OwnerChanges
  <2>2. CASE inbox' = Append(inbox, [kind |-> "changed", owner |-> o])
    <3>1. \A i \in DOMAIN inbox' :
             inbox'[i].kind = "changed" \/ (i \in DOMAIN inbox /\ inbox'[i] = inbox[i])
      BY <2>2 DEF TypeOK
    <3>2. \A i \in DOMAIN inbox' :
             inbox'[i].kind = "reply" => i \in DOMAIN inbox /\ inbox'[i] = inbox[i]
      BY <3>1
    <3> QED
      BY <1>1, <3>2 DEF OwnerChanges
  <2> QED
    BY <1>1, <2>1, <2>2 DEF OwnerChanges
<1>2. CASE BusAnswers
  <2> DEFINE m == [kind |-> "reply", watch |-> Head(requests), owner |-> owner]
  <2>1. m \in Reply /\ requests[1] = Head(requests) /\ 1 \in DOMAIN requests
    BY <1>2 DEF BusAnswers, TypeOK, Reply
  <2>2. \A i \in DOMAIN inbox' : inbox'[i] = m \/ (i \in DOMAIN inbox /\ inbox'[i] = inbox[i])
    BY <1>2, <2>1, AfterReply DEF BusAnswers
  <2>3. \A i \in DOMAIN requests' : i + 1 \in DOMAIN requests /\ requests'[i] = requests[i + 1]
    BY <1>2 DEF BusAnswers, TypeOK
  <2> QED
    BY <1>2, <2>1, <2>2, <2>3 DEF BusAnswers
<1>3. ASSUME NEW w \in Watch, AddServiceWatch(w)
      PROVE  LooksOK'
  <2>1. /\ state' = [state EXCEPT ![w] = "active"]
        /\ \/ check' = check /\ requests' = requests
           \/ check' = [check EXCEPT ![w] = "call"] /\ requests' = Append(requests, w)
           \/ check' = [check EXCEPT ![w] = "idle"] /\ requests' = requests /\ w \in doubted'
        /\ inbox' = inbox /\ belief' = belief /\ doubted \subseteq doubted'
    BY <1>3, Zenon DEF AddServiceWatch
  <2>2. \A i \in DOMAIN requests' :
           requests'[i] = w \/ (i \in DOMAIN requests /\ requests'[i] = requests[i])
    <3>1. \A i \in DOMAIN Append(requests, w) :
             \/ Append(requests, w)[i] = w
             \/ i \in DOMAIN requests /\ Append(requests, w)[i] = requests[i]
      BY DEF TypeOK
    <3> QED
      BY <2>1, <3>1
  <2> QED
    BY <2>1, <2>2 DEF TypeOK
<1>4. ASSUME NEW w \in Watch, RemoveServiceWatch(w)
      PROVE  LooksOK'
  BY <1>4 DEF RemoveServiceWatch, TypeOK, bus
<1>5. ASSUME NEW w \in Watch, TimesOut(w)
      PROVE  LooksOK'
  BY <1>5 DEF TimesOut, TypeOK, bus
<1>6. CASE AddSignalWatch
  BY <1>6 DEF AddSignalWatch, bus
<1>7. CASE RemoveSignalWatch
  BY <1>7 DEF RemoveSignalWatch, bus
<1>8. CASE NameOwnerChanged
  <2>1. \A i \in DOMAIN inbox' : i + 1 \in DOMAIN inbox /\ inbox'[i] = inbox[i + 1]
    BY <1>8, AfterFirst DEF NameOwnerChanged
  <2> QED
    BY <1>8, <2>1 DEF NameOwnerChanged, bus
<1>9. CASE CallNext
  <2>1. \A v \in Watch : v # Head(todo) =>
           state'[v] = state[v] /\ check'[v] = check[v] /\ belief'[v] = belief[v]
    BY <1>9, Turn DEF TypeOK
  <2>2. state'[Head(todo)] # "absent"
        /\ (check'[Head(todo)] # "none" =>
               state'[Head(todo)] = "active" /\ check' = check)
    BY <1>9, Turn DEF TypeOK
  <2> QED
    BY <1>9, <2>1, <2>2, Turn DEF bus
<1>10. CASE ServiceReply
  <2>1. \A i \in DOMAIN inbox' : i + 1 \in DOMAIN inbox /\ inbox'[i] = inbox[i + 1]
    BY <1>10, AfterFirst DEF ServiceReply
  <2>2. \A v \in Watch : /\ check'[v] = "none" \/ check'[v] = check[v]
                         /\ belief'[v] = belief[v] \/ state[v] = "active"
    BY <1>10 DEF ServiceReply, TypeOK
  <2> QED
    BY <1>10, <2>1, <2>2 DEF ServiceReply, bus
<1>11. ASSUME NEW w \in Watch, UpdateService(w)
       PROVE  LooksOK'
  BY <1>11 DEF UpdateService, TypeOK, bus
<1>12. CASE UNCHANGED vars
  BY <1>12 DEF vars, bus
<1> QED
  BY <1>1, <1>2, <1>3, <1>4, <1>5, <1>6, <1>7, <1>8, <1>9, <1>10, <1>11, <1>12
  DEF Next, MainLoop
LEMMA NewsStep ==
    ASSUME TypeOK, Once, LooksOK, NewsOK, [Next]_vars
    PROVE  NewsOK'
<1>1. ASSUME NEW o \in Owner \union {Nobody}, OwnerChanges(o)
      PROVE  NewsOK'
  <2> DEFINE m == [kind |-> "changed", owner |-> o]
  <2>1. m \in Changed
    BY DEF Changed
  <2>2. CASE MatchRule
    <3>1. \A i : Latest(i)' => inbox'[i] = m
      BY <1>1, <2>1, <2>2, AfterNews DEF OwnerChanges
    <3> QED
      BY <1>1, <3>1 DEF OwnerChanges, NewsOK, Sure
  <2>3. CASE ~MatchRule
    BY <1>1, <2>3 DEF OwnerChanges, NewsOK, Sure, MatchRule
  <2> QED
    BY <2>2, <2>3
<1>2. CASE BusAnswers
  <2> DEFINE m == [kind |-> "reply", watch |-> Head(requests), owner |-> owner]
  <2>1. m \in Reply
    BY <1>2 DEF BusAnswers, TypeOK, Reply
  <2>2. \A i : Latest(i)' => inbox'[i] = m \/ (Latest(i) /\ inbox'[i] = inbox[i])
    BY <1>2, <2>1, AfterReply DEF BusAnswers
  <2>3. \A i : Latest(i) => i \in DOMAIN inbox
    BY DEF Latest
  <2> QED
    BY <1>2, <2>2, <2>3 DEF BusAnswers, NewsOK, Sure, MatchRule
<1>3. ASSUME NEW w \in Watch, AddServiceWatch(w)
      PROVE  NewsOK'
  <2>1. /\ hurried' = Hurried /\ inbox' = inbox /\ owner' = owner
        /\ w \in doubted' \/ ~hurried'
        /\ doubted \subseteq doubted' /\ cache' = cache
        /\ \A v \in Watch \ {w} : state'[v] = state[v]
    BY <1>3 DEF AddServiceWatch, TypeOK
  <2>2. ASSUME NEW v \in Watch \ {w}, Sure(v)' PROVE ~hurried'
    <3>1. Sure(v)
      BY <2>1, <2>2 DEF Sure
    <3>2. MatchRule /\ ~hurried
      BY <3>1, Matched DEF Sure, NewsOK
    <3> QED
      BY <2>1, <3>2 DEF Hurried
  <2>3. ASSUME ~hurried', NEW i \in DOMAIN inbox', Latest(i)', inbox'[i].kind = "changed"
        PROVE  inbox'[i].owner = owner'
    <3>1. MatchRule /\ ~hurried
      BY <2>1, <2>3 DEF Hurried
    <3> QED
      BY <2>1, <2>3, <3>1 DEF NewsOK, Latest
  <2> QED
    BY <2>1, <2>2, <2>3 DEF NewsOK, Sure
<1>4. ASSUME NEW w \in Watch, RemoveServiceWatch(w)
      PROVE  NewsOK'
  <2>1. /\ inbox' = inbox /\ owner' = owner /\ hurried' = hurried
        /\ doubted' = doubted /\ cache' = cache
        /\ \A v \in Watch : state'[v] = "active" => state[v] = "active"
    BY <1>4 DEF RemoveServiceWatch, TypeOK, bus
  <2>2. MatchRule' => MatchRule
    <3>1. ToSet(callbacks') = ToSet(callbacks) \ {w} /\ callbacks' \in Seq(Watch)
      BY <1>4, Leaves DEF RemoveServiceWatch
    <3>2. callbacks = <<>> => callbacks' = <<>>
      BY <3>1 DEF ToSet
    <3> QED
      BY <2>1, <3>2 DEF MatchRule
  <2> QED
    BY <2>1, <2>2 DEF NewsOK, Sure, Latest
<1>5. ASSUME NEW w \in Watch, TimesOut(w)
      PROVE  NewsOK'
  BY <1>5 DEF TimesOut, NewsOK, Sure, MatchRule, Latest, bus
<1>6. CASE AddSignalWatch
  <2>1. /\ inbox' = inbox /\ owner' = owner /\ hurried' = Hurried /\ state' = state
        /\ doubted' = doubted
    BY <1>6 DEF AddSignalWatch, bus
  <2>2. ASSUME NEW v \in Watch, Sure(v)' PROVE ~hurried'
    <3>1. MatchRule /\ ~hurried
      BY <2>1, <2>2, Matched DEF Sure, NewsOK
    <3> QED
      BY <2>1, <3>1 DEF Hurried
  <2>3. ASSUME ~hurried', NEW i \in DOMAIN inbox', Latest(i)', inbox'[i].kind = "changed"
        PROVE  inbox'[i].owner = owner'
    <3>1. MatchRule /\ ~hurried
      BY <2>1, <2>3 DEF Hurried
    <3> QED
      BY <2>1, <2>3, <3>1 DEF NewsOK, Latest
  <2> QED
    BY <2>2, <2>3 DEF NewsOK
<1>7. CASE RemoveSignalWatch
  <2>1. MatchRule' => MatchRule
    BY <1>7 DEF RemoveSignalWatch, MatchRule
  <2> QED
    BY <1>7, <2>1 DEF RemoveSignalWatch, NewsOK, Sure, Latest, bus
<1>8. CASE NameOwnerChanged
  <2>1. /\ \A i \in DOMAIN inbox' : inbox'[i] = inbox[i + 1]
        /\ \A i : Latest(i)' => Latest(i + 1)
    BY <1>8, AfterFirst DEF NameOwnerChanged
  <2>2. MatchRule' => MatchRule
    BY <1>8, ServiceWatchAssumption DEF NameOwnerChanged, MatchRule
  <2>3. \A i : Latest(i) => i \in DOMAIN inbox
    BY DEF Latest
  <2> QED
    BY <1>8, <2>1, <2>2, <2>3 DEF NameOwnerChanged, NewsOK, Sure, bus
<1>9. CASE CallNext
  <2>1. /\ inbox' = inbox /\ owner' = owner /\ hurried' = hurried
        /\ doubted' = doubted
        /\ \A v \in Watch : state'[v] = "active" => state[v] = "active"
    BY <1>9, Turn DEF TypeOK, bus
  <2>2. MatchRule
    BY <1>9, Turn, Matched
  <2> QED
    BY <2>1, <2>2 DEF NewsOK, Sure, Latest
<1>10. CASE ServiceReply
  <2>1. /\ \A i \in DOMAIN inbox' : inbox'[i] = inbox[i + 1]
        /\ \A i : Latest(i)' => Latest(i + 1)
    BY <1>10, AfterFirst DEF ServiceReply
  <2>2. \A i : Latest(i) => i \in DOMAIN inbox
    BY DEF Latest
  <2> QED
    BY <1>10, <2>1, <2>2 DEF ServiceReply, NewsOK, Sure, MatchRule, bus
<1>11. ASSUME NEW w \in Watch, UpdateService(w)
       PROVE  NewsOK'
  BY <1>11 DEF UpdateService, NewsOK, Sure, MatchRule, Latest, bus
<1>12. CASE UNCHANGED vars
  BY <1>12 DEF vars, NewsOK, Sure, MatchRule, Latest, bus
<1> QED
  BY <1>1, <1>2, <1>3, <1>4, <1>5, <1>6, <1>7, <1>8, <1>9, <1>10, <1>11, <1>12
  DEF Next, MainLoop
LEMMA RepliesStep ==
    ASSUME TypeOK, Once, LooksOK, RepliesOK, [Next]_vars
    PROVE  RepliesOK'
<1>1. ASSUME NEW o \in Owner \union {Nobody}, OwnerChanges(o)
      PROVE  RepliesOK'
  <2> DEFINE m == [kind |-> "changed", owner |-> o]
  <2>1. m \in Changed /\ m.kind = "changed"
    BY DEF Changed
  <2>2. CASE MatchRule
    <3>1. \A i : Latest(i)' => inbox'[i] = m
      BY <1>1, <2>1, <2>2, AfterNews DEF OwnerChanges
    <3> QED
      BY <2>1, <3>1 DEF RepliesOK
  <2>3. CASE ~MatchRule
    <3>1. \A w \in Watch : check[w] = "none"
      BY <2>3, Matched DEF LooksOK
    <3> QED
      BY <1>1, <3>1 DEF OwnerChanges, RepliesOK
  <2> QED
    BY <2>2, <2>3
<1>2. CASE BusAnswers
  <2> DEFINE m == [kind |-> "reply", watch |-> Head(requests), owner |-> owner]
  <2>1. m \in Reply /\ m.owner = owner
    BY <1>2 DEF BusAnswers, TypeOK, Reply
  <2>2. \A i : Latest(i)' => inbox'[i] = m \/ (Latest(i) /\ inbox'[i] = inbox[i])
    BY <1>2, <2>1, AfterReply DEF BusAnswers
  <2>3. \A i : Latest(i) => i \in DOMAIN inbox
    BY DEF Latest
  <2> QED
    BY <1>2, <2>1, <2>2, <2>3 DEF BusAnswers, RepliesOK
<1>3. ASSUME NEW w \in Watch, AddServiceWatch(w)
      PROVE  RepliesOK'
  <2>1. /\ inbox' = inbox /\ owner' = owner
        /\ \A v \in Watch \ {w} : check'[v] = check[v]
    BY <1>3 DEF AddServiceWatch, TypeOK
  <2>2. \A i \in DOMAIN inbox : inbox[i].kind = "reply" => inbox[i].watch # w
    BY <1>3 DEF AddServiceWatch, LooksOK
  <2> QED
    BY <2>1, <2>2 DEF RepliesOK, Latest
<1>4. ASSUME NEW w \in Watch, RemoveServiceWatch(w)
      PROVE  RepliesOK'
  BY <1>4 DEF RemoveServiceWatch, TypeOK, RepliesOK, Latest, bus
<1>5. ASSUME NEW w \in Watch, TimesOut(w)
      PROVE  RepliesOK'
  BY <1>5 DEF TimesOut, TypeOK, RepliesOK, Latest, bus
<1>6. CASE AddSignalWatch
  BY <1>6 DEF AddSignalWatch, RepliesOK, Latest, bus
<1>7. CASE RemoveSignalWatch
  BY <1>7 DEF RemoveSignalWatch, RepliesOK, Latest, bus
<1>8. CASE NameOwnerChanged
  <2>1. /\ \A i \in DOMAIN inbox' : inbox'[i] = inbox[i + 1]
        /\ \A i : Latest(i)' => Latest(i + 1)
    BY <1>8, AfterFirst DEF NameOwnerChanged
  <2>2. \A i : Latest(i) => i \in DOMAIN inbox
    BY DEF Latest
  <2> QED
    BY <1>8, <2>1, <2>2 DEF NameOwnerChanged, RepliesOK, bus
<1>9. CASE CallNext
  <2>1. \A v \in Watch : check'[v] = check[v] \/ check'[v] = "none"
    BY <1>9, Turn DEF TypeOK
  <2>2. inbox' = inbox /\ owner' = owner
    BY <1>9, Turn DEF bus
  <2> QED
    BY <2>1, <2>2 DEF RepliesOK, Latest
<1>10. CASE ServiceReply
  <2>1. /\ \A i \in DOMAIN inbox' : inbox'[i] = inbox[i + 1]
        /\ \A i : Latest(i)' => Latest(i + 1)
    BY <1>10, AfterFirst DEF ServiceReply
  <2>2. \A i : Latest(i) => i \in DOMAIN inbox
    BY DEF Latest
  <2>3. \A v \in Watch : check'[v] = check[v] \/ check'[v] = "none"
    BY <1>10 DEF ServiceReply, TypeOK
  <2> QED
    BY <1>10, <2>1, <2>2, <2>3 DEF ServiceReply, RepliesOK, bus
<1>11. ASSUME NEW w \in Watch, UpdateService(w)
       PROVE  RepliesOK'
  BY <1>11 DEF UpdateService, TypeOK, RepliesOK, Latest, bus
<1>12. CASE UNCHANGED vars
  BY <1>12 DEF vars, RepliesOK, Latest, bus
<1> QED
  BY <1>1, <1>2, <1>3, <1>4, <1>5, <1>6, <1>7, <1>8, <1>9, <1>10, <1>11, <1>12
  DEF Next, MainLoop
LEMMA BeliefStep ==
    ASSUME Invariant, [Next]_vars
    PROVE  DispatchOK' /\ BeliefOK'
<1>0. TypeOK /\ Once /\ LooksOK /\ NewsOK /\ RepliesOK /\ DispatchOK /\ BeliefOK
  BY DEF Invariant
<1> SUFFICES ASSUME NEW w \in Watch, Sure(w)', NoNews'
             PROVE  /\ w \in ToSet(todo') => news' = owner'
                    /\ w \notin ToSet(todo') => Right(w)'
  BY DEF DispatchOK, BeliefOK
<1> DEFINE Goal == /\ w \in ToSet(todo') => news' = owner'
                   /\ w \notin ToSet(todo') => Right(w)'
\* A step that tells w nothing and that changes nothing it depends on
<1>a. ASSUME Sure(w), NoNews, news' = news, owner' = owner,
             w \in ToSet(todo') <=> w \in ToSet(todo),
             belief'[w] = belief[w], check'[w] = check[w], metOwner'[w] = metOwner[w]
      PROVE  Goal
  <2>1. Right(w) => Right(w)'
    BY <1>a DEF Right
  <2> QED
    BY <1>0, <1>a, <2>1 DEF DispatchOK, BeliefOK
<1>1. ASSUME NEW o \in Owner \union {Nobody}, OwnerChanges(o)
      PROVE  Goal
  <2>1. state[w] = "active"
    BY <1>1 DEF OwnerChanges, Sure
  <2>2. MatchRule
    BY <1>0, <2>1, Matched
  <2>3. [kind |-> "changed", owner |-> o] \in Changed
    BY DEF Changed
  <2>4. ~NoNews'
    BY <1>0, <1>1, <2>2, <2>3, AfterNews DEF OwnerChanges
  <2> QED
    BY <2>4
<1>2. CASE BusAnswers
  <2>1. [kind |-> "reply", watch |-> Head(requests), owner |-> owner] \in Reply
    BY <1>0, <1>2 DEF BusAnswers, TypeOK, Reply
  <2>2. NoNews
    BY <1>0, <1>2, <2>1, AfterReply DEF BusAnswers
  <2> QED
    BY <1>2, <1>a, <2>2 DEF BusAnswers, Sure
<1>3. ASSUME NEW v \in Watch, AddServiceWatch(v)
      PROVE  Goal
  <2>1. /\ inbox' = inbox /\ todo' = todo /\ news' = news /\ owner' = owner
        /\ belief' = belief /\ NoNews /\ doubted \subseteq doubted'
        /\ state[v] = "absent"
    BY <1>3 DEF AddServiceWatch, NoNews
  <2>2. CASE v = w
    <3>1. w \notin ToSet(todo')
      BY <1>0, <2>1, <2>2 DEF TypeOK
    <3>2. belief'[w] = "none" /\ (metOwner'[w] <=> owner # Nobody)
      BY <1>0, <1>3, <2>1, <2>2 DEF AddServiceWatch, TypeOK, LooksOK
    <3>3. w \in Conn => check'[w] = "call"
      BY <1>0, <1>3, <2>2 DEF AddServiceWatch, TypeOK, Sure
    <3> QED
      BY <2>1, <3>1, <3>2, <3>3 DEF Right
  <2>3. CASE v # w
    <3>1. /\ state'[w] = state[w] /\ check'[w] = check[w] /\ metOwner'[w] = metOwner[w]
      BY <1>0, <1>3, <2>3 DEF AddServiceWatch, TypeOK
    <3> QED
      BY <1>a, <2>1, <3>1 DEF Sure
  <2> QED
    BY <2>2, <2>3
<1>4. ASSUME NEW v \in Watch, RemoveServiceWatch(v)
      PROVE  Goal
  <2>1. v # w
    BY <1>0, <1>4 DEF RemoveServiceWatch, TypeOK, Sure
  <2>2. ToSet(todo') = ToSet(todo) \ {v}
    BY <1>0, <1>4, ListRemove DEF RemoveServiceWatch, TypeOK, Once
  <2> QED
    BY <1>0, <1>4, <1>a, <2>1, <2>2
    DEF RemoveServiceWatch, TypeOK, Sure, NoNews, bus
<1>5. ASSUME NEW v \in Watch, TimesOut(v)
      PROVE  Goal
  <2>1. v # w
    BY <1>5 DEF TimesOut, Sure
  <2> QED
    BY <1>0, <1>5, <1>a, <2>1 DEF TimesOut, TypeOK, Sure, NoNews, bus
<1>6. CASE AddSignalWatch
  BY <1>6, <1>a DEF AddSignalWatch, Sure, NoNews, bus
<1>7. CASE RemoveSignalWatch
  BY <1>7, <1>a DEF RemoveSignalWatch, Sure, NoNews, bus
<1>8. CASE NameOwnerChanged
  <2>1. state[w] = "active" /\ w \notin doubted /\ Sure(w)
    BY <1>8 DEF NameOwnerChanged, Sure
  <2>2. MatchRule /\ w \in ToSet(todo')
    BY <1>0, <1>8, <2>1, Matched DEF NameOwnerChanged
  <2>3. Latest(1) /\ 1 \in DOMAIN inbox /\ Head(inbox) = inbox[1]
    BY <1>0, <1>8, AfterFirst, FirstMessage DEF NameOwnerChanged, TypeOK
  <2>4. inbox[1].owner = owner
    BY <1>0, <1>8, <2>1, <2>2, <2>3 DEF NameOwnerChanged, NewsOK
  <2> QED
    BY <1>8, <2>2, <2>3, <2>4 DEF NameOwnerChanged, bus
<1>9. CASE CallNext
  <2>1. /\ UNCHANGED <<bus, inbox, cache, news, metOwner, hurried, doubted>>
        /\ ToSet(todo') = ToSet(todo) \ {Head(todo)} /\ Head(todo) \in ToSet(todo)
        /\ belief' = [belief EXCEPT ![Head(todo)] = Told(Head(todo))]
    BY <1>0, <1>9, Turn
  <2>2. NoNews /\ owner' = owner
    BY <2>1 DEF NoNews, bus
  <2>3. state'[w] = state[w] /\ check'[w] = check[w]
    BY <1>0, <1>9, Turn DEF TypeOK, Sure
  <2>4. Sure(w)
    BY <2>1, <2>3 DEF Sure
  <2>5. CASE w = Head(todo)
    <3>1. news = owner
      BY <1>0, <2>1, <2>2, <2>4, <2>5 DEF DispatchOK
    <3>2. belief'[w] = Told(w)
      BY <1>0, <2>1, <2>5 DEF TypeOK
    <3> QED
      BY <2>1, <2>2, <2>5, <3>1, <3>2 DEF Right, Told
  <2>6. CASE w # Head(todo)
    <3>1. belief'[w] = belief[w]
      BY <1>0, <2>1, <2>6 DEF TypeOK
    <3> QED
      BY <1>a, <2>1, <2>2, <2>3, <2>4, <2>6, <3>1
  <2> QED
    BY <2>5, <2>6
<1>10. CASE ServiceReply
  <2>1. /\ NoNews /\ Latest(1)
    BY <1>0, <1>10, AfterFirst DEF ServiceReply
  <2>2. /\ Head(inbox) = inbox[1] /\ 1 \in DOMAIN inbox /\ Head(inbox).watch \in Watch
    BY <1>0, <1>10, FirstMessage, Message DEF ServiceReply, TypeOK
  <2>3. Sure(w) /\ UNCHANGED <<owner, news, todo, metOwner>>
    BY <1>10 DEF ServiceReply, Sure, bus
  <2>4. CASE Head(inbox).watch = w /\ check[w] = "call"
    <3>1. Head(inbox).owner = owner
      BY <1>0, <1>10, <2>1, <2>2, <2>4 DEF ServiceReply, RepliesOK
    <3>2. belief'[w] = IF owner # Nobody THEN "conn" ELSE belief[w]
      BY <1>0, <1>10, <2>2, <2>4, <3>1 DEF ServiceReply, TypeOK
    <3>3. w \notin ToSet(todo) => Right(w)
      BY <1>0, <2>1, <2>3 DEF BeliefOK
    <3>4. Right(w) => Right(w)'
      BY <2>3, <3>2 DEF Right
    <3>5. w \in ToSet(todo) => news = owner
      BY <1>0, <2>1, <2>3 DEF DispatchOK
    <3> QED
      BY <2>3, <3>3, <3>4, <3>5
  <2>5. CASE ~(Head(inbox).watch = w /\ check[w] = "call")
    <3>1. belief'[w] = belief[w] /\ (check[w] = "call" => check'[w] = check[w])
      BY <1>0, <1>10, <2>2, <2>5 DEF ServiceReply, TypeOK
    <3>2. Right(w) => Right(w)'
      BY <2>3, <3>1 DEF Right
    <3> QED
      BY <1>0, <2>1, <2>3, <3>2 DEF BeliefOK, DispatchOK
  <2> QED
    BY <2>4, <2>5
<1>11. ASSUME NEW v \in Watch, UpdateService(v)
       PROVE  Goal
  <2>1. v # w
    BY <1>0, <1>11 DEF UpdateService, LooksOK, Sure
  <2> QED
    BY <1>0, <1>11, <1>a, <2>1 DEF UpdateService, TypeOK, Sure, NoNews, bus
<1>12. CASE UNCHANGED vars
  BY <1>12, <1>a DEF vars, Sure, NoNews, bus
<1> QED
  BY <1>1, <1>2, <1>3, <1>4, <1>5, <1>6, <1>7, <1>8, <1>9, <1>10, <1>11, <1>12
  DEF Next, MainLoop

-----------------------------------------------------------------------------
(* The theorems. *)

LEMMA Inductive == Invariant /\ [Next]_vars => Invariant'
BY TypeStep, LooksStep, NewsStep, RepliesStep, BeliefStep DEF Invariant

LEMMA Always == Spec => []Invariant
BY InitialRest, Inductive, PTL DEF Spec

\* The variables keep their types, the filter has exactly the active watches,
\* each once, and only these are still to be called (watch.c:354-380).
THEOREM TypeCorrect == Spec => []TypeOK
<1>1. Invariant => TypeOK
  BY DEF Invariant
<1> QED
  BY <1>1, Always, PTL

\* However the answers of the bus and its signals cross: with nothing under way
\* a watch has heard the truth about its name last, unless its owner came from
\* the cache, its look timed out or it was added in a hurry (watch.c:458-694).
THEOREM BeliefCorrect == Spec => []BeliefSettles
<1>1. Invariant => BeliefSettles
  <2> SUFFICES ASSUME Invariant, Quiet, NEW w \in Watch \ doubted, state[w] = "active"
               PROVE  Right(w) /\ check[w] # "call"
    BY DEF BeliefSettles, Right, Invariant, TypeOK
  <2>1. NoNews /\ w \notin ToSet(todo)
    BY DEF Quiet, NoNews, ToSet
  <2>2. Sure(w)
    BY DEF Sure
  <2> QED
    BY <2>1, <2>2 DEF Invariant, BeliefOK, Quiet
<1> QED
  BY <1>1, Always, PTL

\* No step calls a function of a watch that is removed: its turn never comes,
\* and neither its call nor its idle callback is left (watch.c:372-380).
THEOREM RemovalCorrect == Spec => NoCallAfterRemoval
<1> DEFINE Silent == \A w \in Watch : state[w] = "removed" => belief'[w] = belief[w]
<1>1. Invariant /\ [Next]_vars => Silent
  <2> SUFFICES ASSUME Invariant, [Next]_vars, NEW w \in Watch, state[w] = "removed"
               PROVE  belief'[w] = belief[w]
    OBVIOUS
  <2>0. TypeOK /\ Once /\ check[w] = "none"
    BY DEF Invariant, LooksOK, TypeOK
  <2>1. CASE CallNext
    BY <2>0, <2>1, Turn DEF TypeOK
  <2>2. CASE ServiceReply
    BY <2>0, <2>2 DEF ServiceReply, TypeOK
  <2>3. ASSUME NEW v \in Watch, UpdateService(v) PROVE belief'[w] = belief[w]
    BY <2>0, <2>3 DEF UpdateService, TypeOK
  <2>4. ASSUME NEW v \in Watch, AddServiceWatch(v) \/ RemoveServiceWatch(v) \/ TimesOut(v)
        PROVE  belief'[w] = belief[w]
    BY <2>4 DEF AddServiceWatch, RemoveServiceWatch, TimesOut
  <2>5. ASSUME NEW o \in Owner \union {Nobody}, OwnerChanges(o) PROVE belief'[w] = belief[w]
    BY <2>5 DEF OwnerChanges
  <2>6. CASE BusAnswers \/ AddSignalWatch \/ RemoveSignalWatch \/ NameOwnerChanged
    BY <2>6 DEF BusAnswers, AddSignalWatch, RemoveSignalWatch, NameOwnerChanged
  <2> QED
    BY <2>1, <2>2, <2>3, <2>4, <2>5, <2>6 DEF Next, MainLoop, vars
<1> QED
  BY <1>1, Always, PTL DEF Spec, NoCallAfterRemoval
=============================================================================
