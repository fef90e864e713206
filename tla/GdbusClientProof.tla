-------------------------- MODULE GdbusClientProof ---------------------------
(***************************************************************************)
(* For any number of interfaces, proxies, calls and events, whatever the   *)
(* service and the user do: a client reports a disconnection once, and,    *)
(* to a user who set the handlers first, announces exactly the proxies     *)
(* that it lists and calls nothing on a freed one.  If service and user    *)
(* keep to the rules and no call fails that the service gets, the list     *)
(* shows what the service has whenever nothing is under way.               *)
(***************************************************************************)
EXTENDS GdbusClient, SequenceTheorems, FiniteSetTheorems, WellFoundedInduction, TLAPS

-----------------------------------------------------------------------------
(* The inductive invariant. *)

\* Where s has an element of S
Hits(s, S) == {i \in DOMAIN s : s[i] \in S}

\* The answers to the calls of S
Replies(S) == [kind : {"reply"}, call : S, answer : {Failed} \union Val \union Contents]

\* How many calls of S are out: not routed, not answered, or not dispatched
Copies(S) ==
    Cardinality(Hits(outbox, S)) + Cardinality(Hits(calls, S))
    + Cardinality(orphans \intersect S) + Cardinality(Hits(inbox, Replies(S)))

Asking == [kind : {"properties"}, proxy : Nat]

\* Every GetAll call holds a reference, and so does the user.
RefsOK ==
    /\ IsFiniteSet(orphans)
    /\ refs >= Copies(Asking) + (IF released THEN 0 ELSE 1)

\* A GetAll call is made once for its proxy, which has its client and waits to be
\* listed.
WaitingOK ==
    \A p \in DOMAIN proxy :
        /\ Copies({Properties(p)}) <= 1
        /\ Copies({Properties(p)}) # 0 => proxy[p].linked /\ p \notin ToSet(proxies)

Down(m) == m.kind = "owner" /\ ~m.up
Risen(m) == m.kind = "owner" /\ m.up

\* A name is lost after it was owned, and the client has been told of a loss only
\* if there is none to come before the next owner.
StatusOK ==
    /\ disconnects <= 1
    /\ connected /\ refs > 0 => disconnects = 0
    /\ \A i, j \in DOMAIN inbox : i < j /\ Down(inbox[i]) /\ Down(inbox[j]) =>
          \E k \in DOMAIN inbox : i < k /\ k < j /\ Risen(inbox[k])
    /\ refs > 0 /\ disconnects # 0 =>
          \A j \in DOMAIN inbox : Down(inbox[j]) =>
             \E k \in DOMAIN inbox : k < j /\ Risen(inbox[k])
    /\ up => \A i \in DOMAIN inbox : Down(inbox[i]) =>
                \E k \in DOMAIN inbox : i < k /\ Risen(inbox[k])
    /\ up /\ refs > 0 /\ disconnects # 0 => \E k \in DOMAIN inbox : Risen(inbox[k])

SetFirst == handlers = "setFirst"

Invariant ==
    /\ TypeOK /\ RefsOK /\ StatusOK
    /\ SetFirst => WaitingOK /\ fault = "none" /\ announced = ToSet(proxies)

-----------------------------------------------------------------------------
(* Lists, and how often they hold something. *)

LEMMA Domain ==
    ASSUME NEW S, NEW s \in Seq(S)
    PROVE  /\ Len(s) \in Nat /\ DOMAIN s = 1..Len(s)
           /\ \A i \in 1..Len(s) : s[i] \in S
           /\ ToSet(s) = {s[i] : i \in 1..Len(s)}
BY LenProperties DEF ToSet

LEMMA Lengthened ==
    ASSUME NEW S, NEW s \in Seq(S), NEW t \in Seq(S)
    PROVE  /\ s \o t \in Seq(S) /\ Len(s \o t) = Len(s) + Len(t)
           /\ DOMAIN s = 1..Len(s) /\ DOMAIN t = 1..Len(t)
           /\ DOMAIN (s \o t) = 1..(Len(s) + Len(t))
           /\ Len(s) \in Nat /\ Len(t) \in Nat
           /\ \A i \in 1..Len(s) : (s \o t)[i] = s[i]
           /\ \A i \in 1..Len(t) : (s \o t)[Len(s) + i] = t[i]
           /\ ToSet(s \o t) = ToSet(s) \union ToSet(t)
<1>1. Len(s) \in Nat /\ Len(t) \in Nat /\ DOMAIN s = 1..Len(s) /\ DOMAIN t = 1..Len(t)
  BY LenProperties
<1>2. /\ s \o t \in Seq(S) /\ Len(s \o t) = Len(s) + Len(t)
      /\ \A i \in 1..(Len(s) + Len(t)) :
            (s \o t)[i] = IF i <= Len(s) THEN s[i] ELSE t[i - Len(s)]
  BY ConcatProperties
<1>3. DOMAIN (s \o t) = 1..(Len(s) + Len(t))
  BY <1>2, LenProperties
<1>4. ASSUME NEW i \in 1..Len(t) PROVE (s \o t)[Len(s) + i] = t[i]
  <2>1. Len(s) + i \in 1..(Len(s) + Len(t)) /\ ~(Len(s) + i <= Len(s))
        /\ (Len(s) + i) - Len(s) = i
    BY <1>1
  <2> QED
    BY <1>2, <2>1
<1>5. ASSUME NEW i \in 1..Len(s) PROVE (s \o t)[i] = s[i]
  BY <1>1, <1>2
<1>6. ToSet(s \o t) = ToSet(s) \union ToSet(t)
  <2>1. ASSUME NEW i \in 1..(Len(s) + Len(t))
        PROVE  (s \o t)[i] \in ToSet(s) \union ToSet(t)
    <3>1. CASE i <= Len(s)
      BY <1>1, <1>2, <3>1 DEF ToSet
    <3>2. CASE ~(i <= Len(s))
      <4>1. i - Len(s) \in 1..Len(t)
        BY <1>1, <3>2
      <4> QED
        BY <1>1, <1>2, <3>2, <4>1 DEF ToSet
    <3> QED
      BY <3>1, <3>2
  <2>2. \A i \in 1..Len(t) : Len(s) + i \in 1..(Len(s) + Len(t))
    BY <1>1
  <2>3. \A i \in 1..Len(s) : i \in 1..(Len(s) + Len(t))
    BY <1>1
  <2>4. ASSUME NEW i \in 1..Len(s) PROVE s[i] \in ToSet(s \o t)
    BY <1>3, <1>5, <2>3 DEF ToSet
  <2>5. ASSUME NEW i \in 1..Len(t) PROVE t[i] \in ToSet(s \o t)
    <3>1. Len(s) + i \in DOMAIN (s \o t) /\ (s \o t)[Len(s) + i] = t[i]
      BY <1>3, <1>4, <2>2
    <3> QED
      BY <3>1, Zenon DEF ToSet
  <2>6. ToSet(s \o t) \subseteq ToSet(s) \union ToSet(t)
    <3>1. ASSUME NEW x \in ToSet(s \o t) PROVE x \in ToSet(s) \union ToSet(t)
      <4>1. PICK i \in DOMAIN (s \o t) : x = (s \o t)[i]
        BY DEF ToSet
      <4> QED
        BY <1>3, <2>1, <4>1
    <3> QED
      BY <3>1
  <2>7. ToSet(s) \subseteq ToSet(s \o t) /\ ToSet(t) \subseteq ToSet(s \o t)
    <3>1. ASSUME NEW x \in ToSet(s) PROVE x \in ToSet(s \o t)
      BY <1>1, <2>4 DEF ToSet
    <3>2. ASSUME NEW x \in ToSet(t) PROVE x \in ToSet(s \o t)
      BY <1>1, <2>5 DEF ToSet
    <3> QED
      BY <3>1, <3>2
  <2> QED
    BY <2>6, <2>7
<1> QED
  BY <1>1, <1>2, <1>3, <1>4, <1>5, <1>6

\* A list of which every element is replaced, or kept
LEMMA Mapped ==
    ASSUME NEW S, NEW s \in Seq(S), NEW T, NEW t, t = [i \in DOMAIN s |-> t[i]],
           \A i \in DOMAIN s : t[i] \in T
    PROVE  t \in Seq(T) /\ Len(t) = Len(s) /\ DOMAIN t = DOMAIN s
<1>1. Len(s) \in Nat /\ DOMAIN s = 1..Len(s)
  BY Domain
<1>2. t \in [1..Len(s) -> T]
  BY <1>1
<1>3. t \in Seq(T)
  BY <1>1, <1>2, SeqDef
<1> QED
  BY <1>1, <1>2, <1>3, LenProperties

\* What is left behind the first of s
LEMMA Shifted ==
    ASSUME NEW S, NEW s \in Seq(S), s # <<>>
    PROVE  /\ Head(s) \in S /\ Head(s) = s[1] /\ 1 \in DOMAIN s
           /\ Tail(s) \in Seq(S) /\ Len(Tail(s)) = Len(s) - 1
           /\ DOMAIN Tail(s) = 1..(Len(s) - 1)
           /\ \A i \in DOMAIN Tail(s) : i + 1 \in DOMAIN s /\ Tail(s)[i] = s[i + 1]
<1>1. Len(s) \in Nat \ {0} /\ DOMAIN s = 1..Len(s)
  BY EmptySeq, Domain
<1>2. /\ Head(s) \in S /\ Tail(s) \in Seq(S) /\ Len(Tail(s)) = Len(s) - 1
      /\ \A i \in 1..Len(Tail(s)) : Tail(s)[i] = s[i + 1]
  BY HeadTailProperties
<1>3. DOMAIN Tail(s) = 1..(Len(s) - 1)
  BY <1>2, Domain
<1> QED
  BY <1>1, <1>2, <1>3

LEMMA One ==
    ASSUME NEW S, NEW e \in S
    PROVE  <<e>> \in Seq(S) /\ Len(<<e>>) = 1 /\ DOMAIN <<e>> = 1..1 /\ <<e>>[1] = e
OBVIOUS

LEMMA HitsFinite ==
    ASSUME NEW S, NEW s \in Seq(S), NEW H
    PROVE  IsFiniteSet(Hits(s, H)) /\ Cardinality(Hits(s, H)) \in 0..Len(s)
<1>1. Len(s) \in Nat /\ DOMAIN s = 1..Len(s)
  BY Domain
<1>2. IsFiniteSet(1..Len(s)) /\ Cardinality(1..Len(s)) = Len(s)
  BY <1>1, FS_Interval
<1>3. Hits(s, H) \in SUBSET (1..Len(s))
  BY <1>1 DEF Hits
<1>4. IsFiniteSet(Hits(s, H)) /\ Cardinality(Hits(s, H)) <= Len(s)
  BY <1>2, <1>3, FS_Subset
<1> QED
  BY <1>1, <1>4, FS_CardinalityType

LEMMA HitsConcat ==
    ASSUME NEW S, NEW s \in Seq(S), NEW t \in Seq(S), NEW H
    PROVE  Cardinality(Hits(s \o t, H)) = Cardinality(Hits(s, H)) + Cardinality(Hits(t, H))
<1> DEFINE n == Len(s)
           A == Hits(s, H)
           B == Hits(t, H)
           C == {n + i : i \in B}
           f == [i \in B |-> n + i]
<1>1. /\ n \in Nat /\ Len(t) \in Nat /\ DOMAIN s = 1..n /\ DOMAIN t = 1..Len(t)
      /\ DOMAIN (s \o t) = 1..(n + Len(t))
      /\ \A i \in 1..n : (s \o t)[i] = s[i]
      /\ \A i \in 1..Len(t) : (s \o t)[n + i] = t[i]
  BY Lengthened
<1>2. IsFiniteSet(A) /\ IsFiniteSet(B)
  BY HitsFinite
<1>3. A \subseteq 1..n /\ B \subseteq 1..Len(t)
  BY <1>1 DEF Hits
<1>4. IsFiniteSet(C) /\ Cardinality(C) = Cardinality(B)
  <2>1. f \in Bijection(B, C)
    BY <1>1, <1>3 DEF Bijection, Injection, Surjection, IsInjective
  <2>2. ExistsBijection(B, C)
    BY <2>1 DEF ExistsBijection
  <2> HIDE DEF B, C
  <2> QED
    BY <1>2, <2>2, FS_Bijection
<1>5. Hits(s \o t, H) = A \union C
  <2>1. ASSUME NEW i \in DOMAIN (s \o t), (s \o t)[i] \in H PROVE i \in A \union C
    <3>1. CASE i <= n
      BY <1>1, <2>1, <3>1 DEF Hits
    <3>2. CASE ~(i <= n)
      <4>1. i - n \in 1..Len(t) /\ n + (i - n) = i
        BY <1>1, <3>2
      <4>2. i - n \in B
        BY <1>1, <2>1, <4>1 DEF Hits
      <4> QED
        BY <4>1, <4>2
    <3> QED
      BY <3>1, <3>2
  <2>2. ASSUME NEW i \in A PROVE i \in DOMAIN (s \o t) /\ (s \o t)[i] \in H
    BY <1>1 DEF Hits
  <2>3. ASSUME NEW i \in B PROVE n + i \in DOMAIN (s \o t) /\ (s \o t)[n + i] \in H
    <3>1. i \in 1..Len(t) /\ t[i] \in H
      BY <1>1 DEF Hits
    <3> QED
      BY <1>1, <3>1
  <2> QED
    BY <2>1, <2>2, <2>3 DEF Hits
<1>6. A \intersect C = {}
  BY <1>1, <1>3
<1> HIDE DEF A, B, C
<1>7. Cardinality(A \union C) = Cardinality(A) + Cardinality(C) - Cardinality(A \intersect C)
  BY <1>2, <1>4, FS_Union
<1>8. Cardinality(A) \in Nat /\ Cardinality(C) \in Nat
  BY <1>2, <1>4, FS_CardinalityType
<1>9. Cardinality(A \union C) = Cardinality(A) + Cardinality(C)
  <2>1. Cardinality(A \intersect C) = 0
    BY <1>6, FS_EmptySet
  <2> QED
    BY <1>7, <1>8, <2>1
<1>10. Cardinality(Hits(s \o t, H)) = Cardinality(A) + Cardinality(B)
  BY <1>4, <1>5, <1>9
<1> QED
  BY <1>10 DEF A, B

LEMMA HitsNone ==
    ASSUME NEW S, NEW s \in Seq(S), NEW H
    PROVE  Cardinality(Hits(s, H)) = 0 <=> \A i \in DOMAIN s : s[i] \notin H
<1>1. Cardinality(Hits(s, H)) = 0 <=> Hits(s, H) = {}
  BY HitsFinite, FS_EmptySet
<1> QED
  BY <1>1 DEF Hits

LEMMA HitsOne ==
    ASSUME NEW e, NEW H
    PROVE  Cardinality(Hits(<<e>>, H)) = IF e \in H THEN 1 ELSE 0
<1>1. CASE e \in H
  <2>1. Hits(<<e>>, H) = {1}
    BY <1>1 DEF Hits
  <2> QED
    BY <1>1, <2>1, FS_Singleton
<1>2. CASE e \notin H
  <2>1. Hits(<<e>>, H) = {}
    BY <1>2 DEF Hits
  <2> QED
    BY <1>2, <2>1, FS_EmptySet
<1> QED
  BY <1>1, <1>2

LEMMA HitsAppend ==
    ASSUME NEW S, NEW s \in Seq(S), NEW e \in S, NEW H
    PROVE  Cardinality(Hits(Append(s, e), H))
              = Cardinality(Hits(s, H)) + (IF e \in H THEN 1 ELSE 0)
<1>1. Append(s, e) = s \o <<e>> /\ <<e>> \in Seq(S)
  BY AppendIsConcat
<1>2. Cardinality(Hits(s \o <<e>>, H)) = Cardinality(Hits(s, H)) + Cardinality(Hits(<<e>>, H))
  BY <1>1, HitsConcat
<1>3. Cardinality(Hits(<<e>>, H)) = IF e \in H THEN 1 ELSE 0
  BY HitsOne
<1> QED
  BY <1>1, <1>2, <1>3

LEMMA HitsTail ==
    ASSUME NEW S, NEW s \in Seq(S), s # <<>>, NEW H
    PROVE  Cardinality(Hits(s, H))
              = (IF Head(s) \in H THEN 1 ELSE 0) + Cardinality(Hits(Tail(s), H))
<1>1. Head(s) \in S /\ Tail(s) \in Seq(S) /\ <<Head(s)>> \in Seq(S)
  BY Shifted, One
<1>2. s = <<Head(s)>> \o Tail(s)
  OBVIOUS
<1>3. Cardinality(Hits(<<Head(s)>> \o Tail(s), H))
        = Cardinality(Hits(<<Head(s)>>, H)) + Cardinality(Hits(Tail(s), H))
  BY <1>1, HitsConcat
<1> QED
  BY <1>2, <1>3, HitsOne

\* The elements of H in s are no more than their places.
LEMMA HitsSet ==
    ASSUME NEW S, NEW s \in Seq(S), NEW H
    PROVE  /\ IsFiniteSet(ToSet(s)) /\ IsFiniteSet(ToSet(s) \intersect H)
           /\ Cardinality(ToSet(s) \intersect H) <= Cardinality(Hits(s, H))
<1>1. ASSUME NEW G
      PROVE  /\ IsFiniteSet(ToSet(s) \intersect G)
             /\ Cardinality(ToSet(s) \intersect G) <= Cardinality(Hits(s, G))
  <2> DEFINE f == [i \in Hits(s, G) |-> s[i]]
  <2>1. f \in Surjection(Hits(s, G), ToSet(s) \intersect G)
    BY DEF Hits, Surjection, ToSet
  <2>2. IsFiniteSet(Hits(s, G))
    BY HitsFinite
  <2> QED
    BY <2>1, <2>2, FS_Surjection
<1>2. ToSet(s) \intersect ToSet(s) = ToSet(s)
  OBVIOUS
<1> QED
  BY <1>1, <1>2

LEMMA Least ==
    ASSUME NEW T, T \subseteq Nat, T # {}
    PROVE  \E m \in T : \A k \in T : m <= k
<1> DEFINE R == {ss \in Nat \X Nat : ss[1] < ss[2]}
<1>1. IsWellFoundedOn(R, Nat)
  BY NatLessThanWellFounded DEF OpToRel
<1>2. PICK m \in T : \A k \in T : <<k, m>> \notin R
  <2> HIDE DEF R
  <2> QED
    BY <1>1, WFMin
<1>3. ASSUME NEW k \in T PROVE m <= k
  <2>1. <<k, m>> \in Nat \X Nat /\ <<k, m>>[1] = k /\ <<k, m>>[2] = m
    OBVIOUS
  <2>2. ~(k < m)
    BY <2>1, <1>2
  <2> QED
    BY <2>2
<1> QED
  BY <1>3

LEMMA MinIn ==
    ASSUME NEW T, T \subseteq Nat, T # {}
    PROVE  Min(T) \in T
BY Least DEF Min

\* What is left without place k
LEMMA Shortened ==
    ASSUME NEW S, NEW s \in Seq(S), NEW k \in 1..Len(s)
    PROVE  /\ RemoveAt(s, k) \in Seq(S) /\ Len(RemoveAt(s, k)) = Len(s) - 1
           /\ \A i \in 1..(Len(s) - 1) :
                 RemoveAt(s, k)[i] = IF i < k THEN s[i] ELSE s[i + 1]
<1> DEFINE a == SubSeq(s, 1, k - 1)
           b == SubSeq(s, k + 1, Len(s))
<1>1. Len(s) \in Nat /\ \A i \in 1..Len(s) : s[i] \in S
  BY Domain
<1>2. a \in Seq(S) /\ Len(a) = k - 1 /\ \A i \in 1..(k - 1) : a[i] = s[i]
  BY <1>1
<1>3. b \in Seq(S) /\ Len(b) = Len(s) - k
      /\ \A i \in 1..(Len(s) - k) : b[i] = s[k + i]
  BY <1>1
<1>4. RemoveAt(s, k) = a \o b
  BY DEF RemoveAt
<1> HIDE DEF a, b
<1>5. /\ a \o b \in Seq(S) /\ Len(a \o b) = Len(a) + Len(b)
      /\ \A i \in 1..(Len(a) + Len(b)) :
            (a \o b)[i] = IF i <= Len(a) THEN a[i] ELSE b[i - Len(a)]
  BY <1>2, <1>3, ConcatProperties
<1>6. ASSUME NEW i \in 1..(Len(s) - 1)
      PROVE  (a \o b)[i] = IF i < k THEN s[i] ELSE s[i + 1]
  <2>1. CASE i < k
    BY <1>1, <1>2, <1>3, <1>5, <2>1
  <2>2. CASE ~(i < k)
    <3>1. i - (k - 1) \in 1..(Len(s) - k) /\ k + (i - (k - 1)) = i + 1
      BY <1>1, <2>2
    <3>2. (a \o b)[i] = b[i - (k - 1)]
      BY <1>1, <1>2, <1>3, <1>5, <2>2
    <3>3. b[i - (k - 1)] = s[i + 1]
      BY <1>3, <3>1
    <3>4. (a \o b)[i] = s[i + 1]
      BY <3>2, <3>3, Zenon
    <3> QED
      BY <2>2, <3>4, Zenon
  <2> QED
    BY <2>1, <2>2, Zenon
<1> QED
  BY <1>1, <1>2, <1>3, <1>4, <1>5, <1>6

-----------------------------------------------------------------------------
(* Calls and messages. *)

LEMMA Calls ==
    /\ First.kind = "first" /\ Objects.kind = "objects"
    /\ \A p : Properties(p).kind = "properties" /\ Properties(p).proxy = p
    /\ First # Objects
    /\ \A p : Properties(p) # First /\ Properties(p) # Objects
    /\ \A p, q : Properties(p) = Properties(q) <=> p = q
<1>1. /\ First.kind = "first" /\ Objects.kind = "objects"
      /\ \A p : Properties(p).kind = "properties" /\ Properties(p).proxy = p
  BY DEF First, Objects, Properties
<1>2. First # Objects
  BY <1>1
<1>3. ASSUME NEW p PROVE Properties(p) # First /\ Properties(p) # Objects
  BY <1>1
<1>4. ASSUME NEW p, NEW q, Properties(p) = Properties(q) PROVE p = q
  <2>1. Properties(p).proxy = Properties(q).proxy
    BY <1>4
  <2> QED
    BY <1>1, <2>1
<1>5. ASSUME NEW p, NEW q, p = q PROVE Properties(p) = Properties(q)
  BY <1>5
<1> QED
  BY <1>1, <1>2, <1>3, <1>4, <1>5

LEMMA CallType ==
    ASSUME NEW c \in ServiceCall
    PROVE  /\ c # First /\ c.kind \in {"objects", "properties"}
           /\ c = Objects \/ (c # Objects /\ c.kind = "properties" /\ c.proxy \in DOMAIN proxy
                              /\ c = Properties(c.proxy))
           /\ c = Objects <=> c.kind = "objects"
<1>1. CASE c = Objects
  BY <1>1, Calls
<1>2. CASE \E p \in DOMAIN proxy : c = Properties(p)
  <2>1. PICK p \in DOMAIN proxy : c = Properties(p)
    BY <1>2
  <2> QED
    BY <2>1, Calls
<1> QED
  BY <1>1, <1>2 DEF ServiceCall

LEMMA MessageType ==
    ASSUME NEW m \in Message
    PROVE  /\ m.kind \in {"owner", "look", "added", "changed", "removed", "reply"}
           /\ m.kind \in {"owner", "look"} => m.up \in BOOLEAN
           /\ m.kind \in {"added", "changed", "removed"} => m.node \in Node
           /\ m.kind \in {"added", "changed"} => m.value \in Val
           /\ m.kind = "reply" =>
                 /\ m = Reply(m.call, m.answer) /\ m.call \in ServiceCall
                 /\ m.call = Objects => m.answer \in {Failed} \union Contents
                 /\ m.call # Objects => m.answer \in {Failed} \union Val
<1>1. CASE m \in [kind : {"owner", "look"}, up : BOOLEAN]
  BY <1>1
<1>2. CASE m \in [kind : {"added", "changed"}, node : Node, value : Val]
  BY <1>2
<1>3. CASE m \in [kind : {"removed"}, node : Node]
  BY <1>3
<1>4. CASE m \in [kind : {"reply"}, call : {Objects}, answer : {Failed} \union Contents]
  <2>1. /\ m.kind = "reply" /\ m.call = Objects /\ m.answer \in {Failed} \union Contents
        /\ m = [kind |-> m.kind, call |-> m.call, answer |-> m.answer]
    BY <1>4
  <2>2. m = Reply(m.call, m.answer) /\ m.call \in ServiceCall
    BY <2>1 DEF Reply, ServiceCall
  <2> QED
    BY <2>1, <2>2
<1>5. CASE m \in [kind : {"reply"}, call : ServiceCall \ {Objects},
                  answer : {Failed} \union Val]
  <2>1. /\ m.kind = "reply" /\ m.call \in ServiceCall \ {Objects}
        /\ m.answer \in {Failed} \union Val
        /\ m = [kind |-> m.kind, call |-> m.call, answer |-> m.answer]
    BY <1>5
  <2>2. m = Reply(m.call, m.answer)
    BY <2>1 DEF Reply
  <2> QED
    BY <2>1, <2>2
<1> QED
  BY <1>1, <1>2, <1>3, <1>4, <1>5 DEF Message

LEMMA ReplyType ==
    ASSUME NEW c \in ServiceCall, NEW a,
           a \in {Failed} \union (IF c = Objects THEN Contents ELSE Val)
    PROVE  /\ Reply(c, a) \in Message
           /\ ~Down(Reply(c, a)) /\ ~Risen(Reply(c, a))
           /\ Reply(c, a).kind = "reply" /\ Reply(c, a).call = c /\ Reply(c, a).answer = a
           /\ \A H : Reply(c, a) \in Replies(H) <=> c \in H
<1>1. Reply(c, a).kind = "reply" /\ Reply(c, a).call = c /\ Reply(c, a).answer = a
  BY DEF Reply
<1>2. Reply(c, a) \in Message
  <2>1. CASE c = Objects
    <3>1. Reply(c, a) \in [kind : {"reply"}, call : {Objects}, answer : {Failed} \union Contents]
      BY <2>1 DEF Reply
    <3> QED
      BY <3>1 DEF Message
  <2>2. CASE c # Objects
    <3>1. Reply(c, a) \in [kind : {"reply"}, call : ServiceCall \ {Objects},
                           answer : {Failed} \union Val]
      BY <2>2 DEF Reply
    <3> QED
      BY <3>1 DEF Message
  <2> QED
    BY <2>1, <2>2
<1>3. ~Down(Reply(c, a)) /\ ~Risen(Reply(c, a))
  BY <1>1 DEF Down, Risen
<1>4. ASSUME NEW H PROVE Reply(c, a) \in Replies(H) <=> c \in H
  <2>1. a \in {Failed} \union Val \union Contents
    OBVIOUS
  <2> QED
    BY <2>1 DEF Reply, Replies
<1> QED
  BY <1>1, <1>2, <1>3, <1>4

LEMMA SignalType ==
    /\ \A k \in {"owner", "look"}, b \in BOOLEAN :
          /\ [kind |-> k, up |-> b] \in Message
          /\ [kind |-> k, up |-> b].kind = k /\ [kind |-> k, up |-> b].up = b
          /\ \A H : [kind |-> k, up |-> b] \notin Replies(H)
    /\ \A n \in Node :
          /\ [kind |-> "removed", node |-> n] \in Message
          /\ [kind |-> "removed", node |-> n].kind = "removed"
          /\ \A H : [kind |-> "removed", node |-> n] \notin Replies(H)
    /\ \A k \in {"added", "changed"}, n \in Node, v \in Val :
          /\ [kind |-> k, node |-> n, value |-> v] \in Message
          /\ [kind |-> k, node |-> n, value |-> v].kind = k
          /\ \A H : [kind |-> k, node |-> n, value |-> v] \notin Replies(H)
<1>1. \A H : \A m \in Replies(H) : m.kind = "reply"
  BY DEF Replies
<1>2. ASSUME NEW k \in {"owner", "look"}, NEW b \in BOOLEAN
      PROVE  /\ [kind |-> k, up |-> b] \in Message
             /\ [kind |-> k, up |-> b].kind = k /\ [kind |-> k, up |-> b].up = b
             /\ \A H : [kind |-> k, up |-> b] \notin Replies(H)
  <2>1. [kind |-> k, up |-> b].kind = k /\ k # "reply" /\ [kind |-> k, up |-> b].up = b
    OBVIOUS
  <2>2. [kind |-> k, up |-> b] \in Message
    BY DEF Message
  <2> QED
    BY <1>1, <2>1, <2>2
<1>3. ASSUME NEW n \in Node
      PROVE  /\ [kind |-> "removed", node |-> n] \in Message
             /\ [kind |-> "removed", node |-> n].kind = "removed"
             /\ \A H : [kind |-> "removed", node |-> n] \notin Replies(H)
  <2>1. [kind |-> "removed", node |-> n].kind = "removed"
    OBVIOUS
  <2>2. [kind |-> "removed", node |-> n] \in Message
    BY DEF Message
  <2> QED
    BY <1>1, <2>1, <2>2
<1>4. ASSUME NEW k \in {"added", "changed"}, NEW n \in Node, NEW v \in Val
      PROVE  /\ [kind |-> k, node |-> n, value |-> v] \in Message
             /\ [kind |-> k, node |-> n, value |-> v].kind = k
             /\ \A H : [kind |-> k, node |-> n, value |-> v] \notin Replies(H)
  <2>1. [kind |-> k, node |-> n, value |-> v].kind = k /\ k # "reply"
    OBVIOUS
  <2>2. [kind |-> k, node |-> n, value |-> v] \in Message
    BY DEF Message
  <2> QED
    BY <1>1, <2>1, <2>2
<1> QED
  BY <1>2, <1>3, <1>4

-----------------------------------------------------------------------------
(* What comes from the service and the bus. *)

LEMMA Counted ==
    ASSUME NEW R, NEW o \in Seq(R), NEW S, NEW c \in Seq(S), NEW T, NEW i \in Seq(T),
           NEW X, IsFiniteSet(X), NEW H, NEW G
    PROVE  /\ Cardinality(Hits(o, H)) \in Nat /\ Cardinality(Hits(c, H)) \in Nat
           /\ Cardinality(X \intersect H) \in Nat
           /\ Cardinality(Hits(i, G)) \in Nat
<1>1. /\ Cardinality(Hits(o, H)) \in 0..Len(o) /\ Cardinality(Hits(c, H)) \in 0..Len(c)
      /\ Cardinality(Hits(i, G)) \in 0..Len(i)
  BY HitsFinite
<1>2. Cardinality(X \intersect H) \in Nat
  <2>1. X \intersect H \in SUBSET X
    OBVIOUS
  <2>2. IsFiniteSet(X \intersect H)
    BY <2>1, FS_Subset
  <2> QED
    BY <2>2, FS_CardinalityType
<1> QED
  BY <1>1, <1>2

LEMMA CopiesType ==
    ASSUME TypeOK, IsFiniteSet(orphans), NEW H
    PROVE  /\ Cardinality(Hits(outbox, H)) \in Nat /\ Cardinality(Hits(calls, H)) \in Nat
           /\ Cardinality(orphans \intersect H) \in Nat
           /\ Cardinality(Hits(inbox, Replies(H))) \in Nat
           /\ Copies(H) \in Nat
<1>1. /\ Cardinality(Hits(outbox, H)) \in Nat /\ Cardinality(Hits(calls, H)) \in Nat
      /\ Cardinality(orphans \intersect H) \in Nat
      /\ Cardinality(Hits(inbox, Replies(H))) \in Nat
  BY Counted DEF TypeOK
<1> QED
  BY <1>1 DEF Copies

LEMMA CopiesTypeNext ==
    ASSUME TypeOK', IsFiniteSet(orphans'), NEW H
    PROVE  /\ Cardinality(Hits(outbox', H)) \in Nat /\ Cardinality(Hits(calls', H)) \in Nat
           /\ Cardinality(orphans' \intersect H) \in Nat
           /\ Cardinality(Hits(inbox', Replies(H))) \in Nat
           /\ Copies(H)' \in Nat
<1>1. outbox' \in Seq(({First} \union ServiceCall)') /\ calls' \in Seq(ServiceCall')
      /\ inbox' \in Seq(Message')
  BY DEF TypeOK
<1>2. /\ Cardinality(Hits(outbox', H)) \in Nat /\ Cardinality(Hits(calls', H)) \in Nat
      /\ Cardinality(orphans' \intersect H) \in Nat
      /\ Cardinality(Hits(inbox', Replies(H))) \in Nat
  BY <1>1, Counted
<1> QED
  BY <1>2 DEF Copies

\* A call is made for a proxy that there is.
LEMMA NoneForOthers ==
    ASSUME TypeOK, IsFiniteSet(orphans), NEW p, p \notin DOMAIN proxy
    PROVE  Copies({Properties(p)}) = 0
<1> DEFINE c == Properties(p)
<1>1. c \notin {First} \union ServiceCall
  <2>1. c # First /\ c # Objects /\ \A q : c = Properties(q) => q = p
    BY Calls
  <2> QED
    BY <2>1 DEF ServiceCall
<1>2. Cardinality(Hits(outbox, {c})) = 0
  <2>1. \A i \in DOMAIN outbox : outbox[i] \notin {c}
    BY <1>1, Domain DEF TypeOK
  <2> QED
    BY <2>1, HitsNone DEF TypeOK
<1>3. Cardinality(Hits(calls, {c})) = 0
  <2>1. \A i \in DOMAIN calls : calls[i] \notin {c}
    BY <1>1, Domain DEF TypeOK
  <2> QED
    BY <2>1, HitsNone DEF TypeOK
<1>4. Cardinality(orphans \intersect {c}) = 0
  <2>1. orphans \intersect {c} = {}
    BY <1>1 DEF TypeOK
  <2> QED
    BY <2>1, FS_EmptySet
<1>5. Cardinality(Hits(inbox, Replies({c}))) = 0
  <2>1. ASSUME NEW i \in DOMAIN inbox PROVE inbox[i] \notin Replies({c})
    <3>1. inbox[i] \in Message
      BY Domain DEF TypeOK
    <3>2. inbox[i].kind = "reply" => inbox[i].call \in ServiceCall
      BY <3>1, MessageType
    <3>3. ASSUME inbox[i] \in Replies({c}) PROVE FALSE
      <4>1. inbox[i].kind = "reply" /\ inbox[i].call = c
        BY <3>3 DEF Replies
      <4> QED
        BY <1>1, <3>2, <4>1
    <3> QED
      BY <3>3
  <2> QED
    BY <2>1, HitsNone DEF TypeOK
<1> QED
  BY <1>2, <1>3, <1>4, <1>5 DEF Copies

\* Messages t come: of a loss at most the first one, and only if the name was
\* owned, of a new owner that one at once.
Arrives(t) ==
    /\ t \in Seq(Message) /\ inbox' = inbox \o t
    /\ \A i \in DOMAIN t : Down(t[i]) => i = 1 /\ up /\ ~up'
    /\ up' /\ ~up => 1 \in DOMAIN t /\ Risen(t[1])

LEMMA ArrivalStatus ==
    ASSUME TypeOK, StatusOK, NEW t, Arrives(t),
           UNCHANGED <<disconnects, connected, refs>>
    PROVE  StatusOK'
<1> DEFINE n == Len(inbox)
<1>1. /\ n \in Nat /\ Len(t) \in Nat /\ DOMAIN inbox = 1..n /\ DOMAIN t = 1..Len(t)
      /\ DOMAIN inbox' = 1..(n + Len(t))
      /\ \A i \in 1..n : inbox'[i] = inbox[i]
      /\ \A i \in 1..Len(t) : inbox'[n + i] = t[i]
  BY Lengthened DEF TypeOK, Arrives
<1>2. ASSUME NEW i \in DOMAIN inbox', Down(inbox'[i])
      PROVE  (i \in DOMAIN inbox /\ Down(inbox[i])) \/ (i = n + 1 /\ up /\ ~up')
  <2>1. CASE i <= n
    BY <1>1, <1>2, <2>1
  <2>2. CASE ~(i <= n)
    <3>1. i - n \in 1..Len(t) /\ n + (i - n) = i
      BY <1>1, <2>2
    <3>2. Down(t[i - n])
      BY <1>1, <1>2, <3>1
    <3> QED
      BY <1>1, <3>1, <3>2 DEF Arrives
  <2> QED
    BY <2>1, <2>2
<1>3. ASSUME up', ~up PROVE n + 1 \in DOMAIN inbox' /\ Risen(inbox'[n + 1])
  <2>1. 1 \in 1..Len(t) /\ Risen(t[1])
    BY <1>1, <1>3 DEF Arrives
  <2>2. n + 1 \in 1..(n + Len(t)) /\ inbox'[n + 1] = t[1]
    BY <1>1, <2>1
  <2> QED
    BY <1>1, <2>1, <2>2
<1>4. \A i \in DOMAIN inbox : i \in DOMAIN inbox' /\ inbox'[i] = inbox[i] /\ i < n + 1
  BY <1>1
<1>5. disconnects' <= 1 /\ (connected' /\ refs' > 0 => disconnects' = 0)
  BY DEF StatusOK
<1>6. ASSUME NEW i \in DOMAIN inbox', NEW j \in DOMAIN inbox', i < j,
             Down(inbox'[i]), Down(inbox'[j])
      PROVE  \E k \in DOMAIN inbox' : i < k /\ k < j /\ Risen(inbox'[k])
  <2>1. CASE j \in DOMAIN inbox
    <3>1. i \in DOMAIN inbox /\ Down(inbox[i]) /\ Down(inbox[j])
      BY <1>1, <1>6, <2>1
    <3>2. PICK k \in DOMAIN inbox : i < k /\ k < j /\ Risen(inbox[k])
      BY <1>6, <2>1, <3>1 DEF StatusOK
    <3> QED
      BY <1>4, <3>2
  <2>2. CASE j \notin DOMAIN inbox
    <3>1. j = n + 1 /\ up
      BY <1>2, <1>6, <2>2
    <3>2. i \in DOMAIN inbox /\ Down(inbox[i])
      BY <1>1, <1>2, <1>6, <3>1
    <3>3. PICK k \in DOMAIN inbox : i < k /\ Risen(inbox[k])
      BY <3>1, <3>2 DEF StatusOK
    <3> QED
      BY <1>4, <3>1, <3>3
  <2> QED
    BY <2>1, <2>2
<1>7. ASSUME refs' > 0, disconnects' # 0, NEW j \in DOMAIN inbox', Down(inbox'[j])
      PROVE  \E k \in DOMAIN inbox' : k < j /\ Risen(inbox'[k])
  <2>1. CASE j \in DOMAIN inbox /\ Down(inbox[j])
    <3>1. PICK k \in DOMAIN inbox : k < j /\ Risen(inbox[k])
      BY <1>7, <2>1 DEF StatusOK
    <3> QED
      BY <1>4, <3>1
  <2>2. CASE j = n + 1 /\ up
    <3>1. PICK k \in DOMAIN inbox : Risen(inbox[k])
      BY <1>7, <2>2 DEF StatusOK
    <3> QED
      BY <1>4, <2>2, <3>1
  <2> QED
    BY <1>2, <1>7, <2>1, <2>2
<1>8. ASSUME up', NEW i \in DOMAIN inbox', Down(inbox'[i])
      PROVE  \E k \in DOMAIN inbox' : i < k /\ Risen(inbox'[k])
  <2>1. i \in DOMAIN inbox /\ Down(inbox[i])
    BY <1>2, <1>8
  <2>2. CASE up
    <3>1. PICK k \in DOMAIN inbox : i < k /\ Risen(inbox[k])
      BY <2>1, <2>2 DEF StatusOK
    <3> QED
      BY <1>4, <3>1
  <2>3. CASE ~up
    BY <1>3, <1>4, <1>8, <2>1, <2>3
  <2> QED
    BY <2>2, <2>3
<1>9. ASSUME up', refs' > 0, disconnects' # 0
      PROVE  \E k \in DOMAIN inbox' : Risen(inbox'[k])
  <2>1. CASE up
    <3>1. PICK k \in DOMAIN inbox : Risen(inbox[k])
      BY <1>9, <2>1 DEF StatusOK
    <3> QED
      BY <1>4, <3>1
  <2>2. CASE ~up
    BY <1>3, <1>9, <2>2
  <2> QED
    BY <2>1, <2>2
<1> QED
  BY <1>5, <1>6, <1>7, <1>8, <1>9 DEF StatusOK

LEMMA SameCalls ==
    ASSUME UNCHANGED proxy
    PROVE  /\ ServiceCall' = ServiceCall /\ Message' = Message
<1>1. ServiceCall' = ServiceCall
  BY DEF ServiceCall
<1> QED
  BY <1>1 DEF Message

LEMMA Arrival ==
    ASSUME Invariant, NEW t, Arrives(t), UNCHANGED client,
           up' \in BOOLEAN, content' \in Contents, events' \in 0..MaxEvents,
           outbox' \in Seq({First} \union ServiceCall), calls' \in Seq(ServiceCall),
           orphans' \subseteq ServiceCall, IsFiniteSet(orphans'),
           \A H : Copies(H)' <= Copies(H)
    PROVE  Invariant'
<1>1. ServiceCall' = ServiceCall /\ Message' = Message
  BY SameCalls DEF client
<1>2. inbox' \in Seq(Message)
  BY Lengthened DEF Arrives, Invariant, TypeOK
<1>3. TypeOK'
  BY <1>1, <1>2 DEF Invariant, TypeOK, client, shown
<1>4. StatusOK'
  BY ArrivalStatus DEF Invariant, client, shown
<1>5. RefsOK'
  <2>1. Copies(Asking)' <= Copies(Asking)
    OBVIOUS
  <2>2. Copies(Asking) \in Nat /\ Copies(Asking)' \in Nat
    <3>1. TypeOK /\ IsFiniteSet(orphans)
      BY DEF Invariant, RefsOK
    <3>2. Copies(Asking) \in Nat
      BY <3>1, CopiesType
    <3>3. Copies(Asking)' \in Nat
      BY <1>3, CopiesTypeNext
    <3> QED
      BY <3>2, <3>3
  <2>3. refs' = refs /\ released' = released /\ refs \in Nat
    BY DEF client, Invariant, TypeOK
  <2> QED
    BY <2>1, <2>2, <2>3 DEF Invariant, RefsOK
<1>6. ASSUME SetFirst'
      PROVE  WaitingOK' /\ fault' = "none" /\ announced' = ToSet(proxies)'
  <2>1. WaitingOK /\ fault = "none" /\ announced = ToSet(proxies)
    BY <1>6 DEF Invariant, SetFirst, client
  <2>2. UNCHANGED <<proxy, proxies, fault, announced>>
    BY DEF client, shown
  <2>3. ASSUME NEW p \in DOMAIN proxy'
        PROVE  /\ (Copies({Properties(p)}) <= 1)'
               /\ (Copies({Properties(p)}) # 0)' => proxy'[p].linked /\ p \notin ToSet(proxies')
    <3> DEFINE H == {Properties(p)}
    <3>1. Copies(H)' <= Copies(H)
      OBVIOUS
    <3>2. TypeOK /\ IsFiniteSet(orphans)
      BY DEF Invariant, RefsOK
    <3>3. Copies(H) \in Nat
      BY <3>2, CopiesType
    <3>4. Copies(H)' \in Nat
      BY <1>3, CopiesTypeNext
    <3>5. Copies(H) <= 1 /\ (Copies(H) # 0 => proxy[p].linked /\ p \notin ToSet(proxies))
      BY <2>1, <2>2 DEF WaitingOK
    <3> HIDE DEF H
    <3>6. Copies(H)' <= 1 /\ (Copies(H)' # 0 => Copies(H) # 0)
      BY <3>1, <3>3, <3>4, <3>5
    <3> QED
      BY <2>2, <3>5, <3>6 DEF H
  <2> QED
    BY <2>1, <2>2, <2>3 DEF WaitingOK
<1> QED
  BY <1>3, <1>4, <1>5, <1>6 DEF Invariant

\* What a step takes from one place it puts in one other place at most.
LEMMA Moved ==
    ASSUME Invariant, NEW t, t \in Seq(Message), inbox' = inbox \o t, NEW H
    PROVE  /\ Cardinality(Hits(inbox', Replies(H)))
                 = Cardinality(Hits(inbox, Replies(H))) + Cardinality(Hits(t, Replies(H)))
           /\ Cardinality(Hits(t, Replies(H))) \in Nat
           /\ (\A i \in DOMAIN t : t[i].kind # "reply") => Cardinality(Hits(t, Replies(H))) = 0
<1>1. inbox \in Seq(Message)
  BY DEF Invariant, TypeOK
<1>2. Cardinality(Hits(inbox', Replies(H)))
        = Cardinality(Hits(inbox, Replies(H))) + Cardinality(Hits(t, Replies(H)))
  BY <1>1, HitsConcat
<1>3. Cardinality(Hits(t, Replies(H))) \in 0..Len(t) /\ Len(t) \in Nat
  BY HitsFinite, Domain
<1>4. ASSUME \A i \in DOMAIN t : t[i].kind # "reply"
      PROVE  Cardinality(Hits(t, Replies(H))) = 0
  <2>1. \A i \in DOMAIN t : t[i] \notin Replies(H)
    BY <1>4 DEF Replies
  <2> QED
    BY <2>1, HitsNone
<1> QED
  BY <1>2, <1>3, <1>4

LEMMA CopiesAre ==
    ASSUME Invariant, NEW H
    PROVE  /\ Cardinality(Hits(outbox, H)) \in Nat /\ Cardinality(Hits(calls, H)) \in Nat
           /\ Cardinality(orphans \intersect H) \in Nat
           /\ Cardinality(Hits(inbox, Replies(H))) \in Nat
BY CopiesType DEF Invariant, RefsOK

LEMMA UpStep == Invariant /\ ServiceUp => Invariant'
<1> SUFFICES ASSUME Invariant, ServiceUp PROVE Invariant'
  OBVIOUS
<1> DEFINE m == [kind |-> "owner", up |-> TRUE]
           t == <<m>>
<1>1. m \in Message /\ m.kind = "owner" /\ Risen(m) /\ ~Down(m)
  BY SignalType DEF Risen, Down
<1>2. t \in Seq(Message) /\ DOMAIN t = 1..1 /\ t[1] = m
  BY <1>1, One
<1> HIDE DEF m, t
<1>3. inbox' = inbox \o t /\ ~up /\ up' = TRUE /\ UNCHANGED <<bus, client>>
  BY DEF ServiceUp, Sent, t, m
<1>4. Arrives(t)
  BY <1>1, <1>2, <1>3 DEF Arrives
<1>5. \A H : Copies(H)' <= Copies(H)
  <2>1. ASSUME NEW H PROVE Copies(H)' <= Copies(H)
    <3>1. Cardinality(Hits(t, Replies(H))) = 0
      BY <1>1, <1>2, <1>3, Moved
    <3>2. Cardinality(Hits(inbox', Replies(H)))
            = Cardinality(Hits(inbox, Replies(H))) + Cardinality(Hits(t, Replies(H)))
      BY <1>2, <1>3, Moved
    <3>3. outbox' = outbox /\ calls' = calls /\ orphans' = orphans
      BY <1>3 DEF bus
    <3> QED
      BY <3>1, <3>2, <3>3, CopiesAre DEF Copies
  <2> QED
    BY <2>1
<1>6. content' \in Contents /\ events' \in 0..MaxEvents
  BY ClientAssumption DEF ServiceUp, Event, Invariant, TypeOK
<1>7. /\ outbox' \in Seq({First} \union ServiceCall) /\ calls' \in Seq(ServiceCall)
      /\ orphans' \subseteq ServiceCall /\ IsFiniteSet(orphans')
  BY <1>3 DEF bus, Invariant, TypeOK, RefsOK
<1> QED
  BY <1>3, <1>4, <1>5, <1>6, <1>7, Arrival

\* The service exits: its loss comes first, then the failures of its open calls.
Exits(t) ==
    /\ Arrives(t) /\ 1 \in DOMAIN t /\ Down(t[1]) /\ ~Risen(t[1]) /\ t[1].kind = "owner"
    /\ \A i \in DOMAIN t : i # 1 => /\ ~Risen(t[i]) /\ t[i].kind = "reply"
                                  /\ t[i].call \in ToSet(calls) /\ t[i].answer = Failed

LEMMA ExitsMessages ==
    ASSUME Invariant, ServiceExits
    PROVE  (\E t : Exits(t)) /\ \A H : Copies(H)' = Copies(H)
<1> DEFINE m == [kind |-> "owner", up |-> FALSE]
           r == [i \in DOMAIN calls |-> Reply(calls[i], Failed)]
           t == <<m>> \o r
<1>1. m \in Message /\ m.kind = "owner" /\ ~Risen(m) /\ Down(m)
  BY SignalType DEF Risen, Down
<1>2. <<m>> \in Seq(Message) /\ Len(<<m>>) = 1 /\ DOMAIN <<m>> = 1..1 /\ <<m>>[1] = m
  BY <1>1, One
<1>3. calls \in Seq(ServiceCall) /\ DOMAIN calls = 1..Len(calls) /\ Len(calls) \in Nat
      /\ \A i \in DOMAIN calls : calls[i] \in ServiceCall
  BY Domain DEF Invariant, TypeOK
<1>4. \A i \in DOMAIN calls :
         /\ r[i] = Reply(calls[i], Failed) /\ r[i] \in Message /\ ~Down(r[i]) /\ ~Risen(r[i])
         /\ \A H : r[i] \in Replies(H) <=> calls[i] \in H
  BY <1>3, ReplyType
<1>5. r = [i \in DOMAIN calls |-> r[i]]
  BY <1>4
<1> HIDE DEF m, r
<1>6. r \in Seq(Message) /\ Len(r) = Len(calls) /\ DOMAIN r = DOMAIN calls
  BY <1>3, <1>4, <1>5, Mapped
<1>7. /\ t \in Seq(Message) /\ DOMAIN t = 1..(1 + Len(calls)) /\ t[1] = m
      /\ \A i \in 1..Len(calls) : t[1 + i] = r[i]
  <2>1. /\ t \in Seq(Message) /\ DOMAIN t = 1..(1 + Len(calls))
        /\ \A i \in 1..1 : t[i] = <<m>>[i]
        /\ \A i \in 1..Len(calls) : t[1 + i] = r[i]
    BY <1>2, <1>6, Lengthened
  <2> QED
    BY <1>2, <2>1
<1>8. ASSUME NEW i \in DOMAIN t, i # 1
      PROVE  /\ ~Down(t[i]) /\ ~Risen(t[i]) /\ t[i].kind = "reply"
             /\ t[i].call \in ToSet(calls) /\ t[i].answer = Failed
  <2> DEFINE k == i - 1
  <2>1. k \in DOMAIN calls /\ 1 + k = i
    BY <1>3, <1>7, <1>8
  <2> HIDE DEF k
  <2>2. t[i] = Reply(calls[k], Failed) /\ ~Down(t[i]) /\ ~Risen(t[i])
    BY <1>3, <1>4, <1>7, <2>1
  <2>3. calls[k] \in ToSet(calls)
    BY <2>1 DEF ToSet
  <2> QED
    BY <2>2, <2>3 DEF Reply
<1> HIDE DEF t
<1>9. inbox' = inbox \o t /\ up /\ up' = FALSE /\ UNCHANGED <<outbox, orphans, client>>
      /\ calls' = <<>>
  BY DEF ServiceExits, Sent, t, m, r
<1>10. Arrives(t)
  BY <1>7, <1>8, <1>9 DEF Arrives
<1>11. \A H : Copies(H)' = Copies(H)
  <2>1. ASSUME NEW H PROVE Copies(H)' = Copies(H)
    <3>1. Cardinality(Hits(r, Replies(H))) = Cardinality(Hits(calls, H))
      <4>1. Hits(r, Replies(H)) = Hits(calls, H)
        BY <1>4, <1>6 DEF Hits
      <4> QED
        BY <4>1
    <3>2. Cardinality(Hits(<<m>>, Replies(H))) = 0
      <4>1. m \notin Replies(H)
        BY <1>1 DEF Replies
      <4> QED
        BY <4>1, HitsOne
    <3>3. Cardinality(Hits(t, Replies(H)))
            = Cardinality(Hits(<<m>>, Replies(H))) + Cardinality(Hits(r, Replies(H)))
      BY <1>2, <1>6, HitsConcat DEF t
    <3>4. Cardinality(Hits(inbox', Replies(H)))
            = Cardinality(Hits(inbox, Replies(H))) + Cardinality(Hits(t, Replies(H)))
      BY <1>7, <1>9, Moved
    <3>5. Cardinality(Hits(calls', H)) = 0
      <4>1. calls' \in Seq(ServiceCall) /\ \A i \in DOMAIN calls' : calls'[i] \notin H
        BY <1>9
      <4> QED
        BY <4>1, HitsNone
    <3>6. outbox' = outbox /\ orphans' = orphans
      BY <1>9
    <3> QED
      BY <3>1, <3>2, <3>3, <3>4, <3>5, <3>6, CopiesAre DEF Copies
  <2> QED
    BY <2>1
<1>12. Exits(t)
  <2>1. 1 \in DOMAIN t
    BY <1>3, <1>7
  <2> QED
    BY <1>1, <1>7, <1>8, <1>10, <2>1 DEF Exits
<1> QED
  BY <1>11, <1>12

LEMMA ExitsStep == Invariant /\ ServiceExits => Invariant'
<1> SUFFICES ASSUME Invariant, ServiceExits PROVE Invariant'
  OBVIOUS
<1>1. PICK t : Exits(t)
  BY ExitsMessages
<1>2. Arrives(t)
  BY <1>1 DEF Exits
<1>3. \A H : Copies(H)' <= Copies(H)
  <2>1. ASSUME NEW H PROVE Copies(H)' <= Copies(H)
    <3>1. TypeOK /\ IsFiniteSet(orphans)
      BY DEF Invariant, RefsOK
    <3>2. Copies(H) \in Nat /\ Copies(H)' = Copies(H)
      BY <3>1, CopiesType, ExitsMessages
    <3> QED
      BY <3>2
  <2> QED
    BY <2>1
<1>4. up' = FALSE /\ UNCHANGED <<outbox, orphans, client>> /\ calls' = <<>>
  BY DEF ServiceExits
<1>5. content' \in Contents /\ events' \in 0..MaxEvents
  BY ClientAssumption DEF ServiceExits, Event, Invariant, TypeOK, Contents, Nothing
<1>6. /\ outbox' \in Seq({First} \union ServiceCall) /\ calls' \in Seq(ServiceCall)
      /\ orphans' \subseteq ServiceCall /\ IsFiniteSet(orphans')
  BY <1>4 DEF Invariant, TypeOK, RefsOK
<1> QED
  BY <1>2, <1>3, <1>4, <1>5, <1>6, Arrival

LEMMA ReplacedStep ==
    ASSUME Invariant, NEW stays \in BOOLEAN, ServiceReplaced(stays)
    PROVE  Invariant'
<1> DEFINE m == [kind |-> "owner", up |-> stays]
           t == <<m>>
<1>1. m \in Message /\ m.kind = "owner" /\ (Risen(m) <=> stays) /\ (Down(m) <=> ~stays)
  BY SignalType DEF Risen, Down
<1>2. t \in Seq(Message) /\ DOMAIN t = 1..1 /\ t[1] = m
  BY <1>1, One
<1> HIDE DEF m, t
<1>3. /\ inbox' = inbox \o t /\ up /\ up' = stays /\ UNCHANGED <<outbox, client>>
      /\ calls' = <<>> /\ orphans' = orphans \union ToSet(calls)
  BY DEF ServiceReplaced, Sent, t, m
<1>4. Arrives(t)
  BY <1>1, <1>2, <1>3 DEF Arrives
<1>5. calls \in Seq(ServiceCall) /\ ToSet(calls) \subseteq ServiceCall
      /\ IsFiniteSet(ToSet(calls)) /\ IsFiniteSet(orphans) /\ orphans \subseteq ServiceCall
  <2>1. calls \in Seq(ServiceCall) /\ IsFiniteSet(orphans) /\ orphans \subseteq ServiceCall
    BY DEF Invariant, TypeOK, RefsOK
  <2>2. ToSet(calls) \subseteq ServiceCall
    BY <2>1, Domain
  <2> QED
    BY <2>1, <2>2, HitsSet
<1>6. \A H : Copies(H)' <= Copies(H)
  <2>1. ASSUME NEW H PROVE Copies(H)' <= Copies(H)
    <3> DEFINE A == orphans \intersect H
               B == ToSet(calls) \intersect H
    <3>1. Cardinality(Hits(t, Replies(H))) = 0
      BY <1>1, <1>2, <1>3, Moved
    <3>2. Cardinality(Hits(inbox', Replies(H)))
            = Cardinality(Hits(inbox, Replies(H))) + Cardinality(Hits(t, Replies(H)))
      BY <1>2, <1>3, Moved
    <3>3. Cardinality(Hits(calls', H)) = 0
      <4>1. calls' \in Seq(ServiceCall) /\ \A i \in DOMAIN calls' : calls'[i] \notin H
        BY <1>3
      <4> QED
        BY <4>1, HitsNone
    <3>4. orphans' \intersect H = A \union B
      BY <1>3
    <3>5. IsFiniteSet(A) /\ IsFiniteSet(B) /\ Cardinality(B) <= Cardinality(Hits(calls, H))
      <4>1. A \in SUBSET orphans
        OBVIOUS
      <4>2. IsFiniteSet(A)
        BY <1>5, <4>1, FS_Subset
      <4> QED
        BY <1>5, <4>2, HitsSet
    <3>6. Cardinality(A) \in Nat /\ Cardinality(B) \in Nat /\ Cardinality(A \intersect B) \in Nat
      <4>1. A \intersect B \in SUBSET A
        OBVIOUS
      <4>2. IsFiniteSet(A \intersect B)
        BY <3>5, <4>1, FS_Subset
      <4> QED
        BY <3>5, <4>2, FS_CardinalityType
    <3> HIDE DEF A, B
    <3>7. Cardinality(A \union B) = Cardinality(A) + Cardinality(B) - Cardinality(A \intersect B)
      BY <3>5, FS_Union
    <3>8. Cardinality(orphans' \intersect H)
            <= Cardinality(orphans \intersect H) + Cardinality(Hits(calls, H))
      <4>1. Cardinality(A \union B) <= Cardinality(A) + Cardinality(Hits(calls, H))
        <5>1. Cardinality(Hits(calls, H)) \in Nat
          BY CopiesAre
        <5> QED
          BY <3>5, <3>6, <3>7, <5>1
      <4> QED
        BY <3>4, <4>1 DEF A
    <3>9. Cardinality(orphans' \intersect H) \in Nat
      <4>1. IsFiniteSet(A \union B)
        BY <3>5, FS_Union
      <4> QED
        BY <3>4, <4>1, FS_CardinalityType
    <3>10. outbox' = outbox
      BY <1>3
    <3> QED
      BY <3>1, <3>2, <3>3, <3>8, <3>9, <3>10, CopiesAre DEF Copies
  <2> QED
    BY <2>1
<1>7. content' \in Contents /\ events' \in 0..MaxEvents /\ up' \in BOOLEAN
  BY <1>3, ClientAssumption
     DEF ServiceReplaced, Event, Invariant, TypeOK, Contents, Nothing
<1>8. /\ outbox' \in Seq({First} \union ServiceCall) /\ calls' \in Seq(ServiceCall)
      /\ orphans' \subseteq ServiceCall /\ IsFiniteSet(orphans')
  <2>1. IsFiniteSet(orphans \union ToSet(calls))
    BY <1>5, FS_Union
  <2> QED
    BY <1>3, <1>5, <2>1 DEF Invariant, TypeOK
<1> QED
  BY <1>3, <1>4, <1>6, <1>7, <1>8, Arrival

LEMMA ChangesStep ==
    ASSUME Invariant, NEW n \in Node, NEW v \in Val \union {Absent}, ServiceChanges(n, v)
    PROVE  Invariant'
<1> DEFINE m == IF v = Absent THEN [kind |-> "removed", node |-> n]
                ELSE [kind |-> IF content[n] = Absent THEN "added" ELSE "changed",
                      node |-> n, value |-> v]
           t == <<m>>
<1>1. m \in Message /\ m.kind \notin {"owner", "reply"}
  <2>1. CASE v = Absent
    BY <2>1, SignalType
  <2>2. CASE v # Absent
    BY <2>2, SignalType
  <2> QED
    BY <2>1, <2>2
<1>2. t \in Seq(Message) /\ DOMAIN t = 1..1 /\ t[1] = m
  BY <1>1, One
<1>3. inbox' = inbox \o t
  BY DEF ServiceChanges, Sent
<1> HIDE DEF m, t
<1>4. UNCHANGED <<up, bus, client>>
  BY DEF ServiceChanges
<1>5. Arrives(t)
  BY <1>1, <1>2, <1>3, <1>4 DEF Arrives, Down, Risen
<1>6. \A H : Copies(H)' <= Copies(H)
  <2>1. ASSUME NEW H PROVE Copies(H)' <= Copies(H)
    <3>1. Cardinality(Hits(t, Replies(H))) = 0
      BY <1>1, <1>2, <1>3, Moved
    <3>2. Cardinality(Hits(inbox', Replies(H)))
            = Cardinality(Hits(inbox, Replies(H))) + Cardinality(Hits(t, Replies(H)))
      BY <1>2, <1>3, Moved
    <3>3. outbox' = outbox /\ calls' = calls /\ orphans' = orphans
      BY <1>4 DEF bus
    <3> QED
      BY <3>1, <3>2, <3>3, CopiesAre DEF Copies
  <2> QED
    BY <2>1
<1>7. content' \in Contents /\ events' \in 0..MaxEvents /\ up' \in BOOLEAN
  BY ClientAssumption DEF ServiceChanges, Event, Invariant, TypeOK, Contents
<1>8. /\ outbox' \in Seq({First} \union ServiceCall) /\ calls' \in Seq(ServiceCall)
      /\ orphans' \subseteq ServiceCall /\ IsFiniteSet(orphans')
  BY <1>4 DEF bus, Invariant, TypeOK, RefsOK
<1> QED
  BY <1>4, <1>5, <1>6, <1>7, <1>8, Arrival

\* What BusRoutes, ServiceAnswers and OrphanFails leave alone; one message comes.
LEMMA OneArrives ==
    ASSUME Invariant, NEW m \in Message, ~Down(m), inbox' = inbox \o <<m>>,
           UNCHANGED <<service, client>>,
           outbox' \in Seq({First} \union ServiceCall), calls' \in Seq(ServiceCall),
           orphans' \subseteq ServiceCall, IsFiniteSet(orphans'),
           \A H : Cardinality(Hits(outbox', H)) + Cardinality(Hits(calls', H))
                    + Cardinality(orphans' \intersect H) + (IF m \in Replies(H) THEN 1 ELSE 0)
                  <= Cardinality(Hits(outbox, H)) + Cardinality(Hits(calls, H))
                     + Cardinality(orphans \intersect H)
    PROVE  Invariant'
<1> DEFINE t == <<m>>
<1>1. t \in Seq(Message) /\ DOMAIN t = 1..1 /\ t[1] = m
  BY One
<1>2. UNCHANGED <<up, content, events>>
  BY DEF service
<1>3. Arrives(t)
  BY <1>1, <1>2 DEF Arrives
<1>4. \A H : Copies(H)' <= Copies(H)
  <2>1. ASSUME NEW H PROVE Copies(H)' <= Copies(H)
    <3>1. Cardinality(Hits(t, Replies(H))) = IF m \in Replies(H) THEN 1 ELSE 0
      BY HitsOne
    <3> HIDE DEF t
    <3>2. Cardinality(Hits(inbox', Replies(H)))
            = Cardinality(Hits(inbox, Replies(H))) + Cardinality(Hits(t, Replies(H)))
      <4>1. inbox' = inbox \o t
        BY DEF t
      <4> QED
        BY <1>1, <4>1, Moved
    <3>3. Cardinality(Hits(outbox', H)) + Cardinality(Hits(calls', H))
            + Cardinality(orphans' \intersect H) + (IF m \in Replies(H) THEN 1 ELSE 0)
          <= Cardinality(Hits(outbox, H)) + Cardinality(Hits(calls, H))
             + Cardinality(orphans \intersect H)
      OBVIOUS
    <3>4. /\ Cardinality(Hits(outbox', H)) \in Nat /\ Cardinality(Hits(calls', H)) \in Nat
          /\ Cardinality(orphans' \intersect H) \in Nat
      <4>1. inbox \in Seq(Message)
        BY DEF Invariant, TypeOK
      <4> QED
        BY <4>1, Counted
    <3> QED
      BY <3>1, <3>2, <3>3, <3>4, CopiesAre DEF Copies
  <2> QED
    BY <2>1
<1>5. up' \in BOOLEAN /\ content' \in Contents /\ events' \in 0..MaxEvents
  BY <1>2 DEF Invariant, TypeOK
<1> HIDE DEF t
<1> QED
  BY <1>3, <1>4, <1>5, Arrival

LEMMA RoutesStep == Invariant /\ BusRoutes => Invariant'
<1> SUFFICES ASSUME Invariant, BusRoutes PROVE Invariant'
  OBVIOUS
<1> DEFINE c == Head(outbox)
<1>1. /\ outbox \in Seq({First} \union ServiceCall) /\ calls \in Seq(ServiceCall)
      /\ orphans \subseteq ServiceCall /\ IsFiniteSet(orphans) /\ up \in BOOLEAN
  BY DEF Invariant, TypeOK, RefsOK
<1>2. outbox # <<>> /\ outbox' = Tail(outbox) /\ UNCHANGED <<service, orphans, client>>
  BY DEF BusRoutes
<1>3. c \in {First} \union ServiceCall /\ outbox' \in Seq({First} \union ServiceCall)
  BY <1>1, <1>2, Shifted
<1>4. \A H : Cardinality(Hits(outbox, H))
               = (IF c \in H THEN 1 ELSE 0) + Cardinality(Hits(outbox', H))
  BY <1>1, <1>2, HitsTail
<1>5. \A H : /\ Cardinality(Hits(outbox', H)) \in Nat /\ Cardinality(Hits(calls, H)) \in Nat
             /\ Cardinality(orphans \intersect H) \in Nat
  <2>1. inbox \in Seq(Message)
    BY DEF Invariant, TypeOK
  <2> QED
    BY <1>1, <1>3, <2>1, Counted
<1>6. CASE c = First
  <2> DEFINE m == [kind |-> "look", up |-> up]
  <2>1. m \in Message /\ m.kind = "look" /\ \A H : m \notin Replies(H)
    BY <1>1, SignalType
  <2>2. inbox' = inbox \o <<m>> /\ calls' = calls
    BY <1>6 DEF BusRoutes, Sent
  <2> HIDE DEF m
  <2>3. ~Down(m)
    BY <2>1 DEF Down
  <2>4. \A H : Cardinality(Hits(outbox', H)) + Cardinality(Hits(calls', H))
                 + Cardinality(orphans' \intersect H) + (IF m \in Replies(H) THEN 1 ELSE 0)
               <= Cardinality(Hits(outbox, H)) + Cardinality(Hits(calls, H))
                  + Cardinality(orphans \intersect H)
    <3>1. orphans' = orphans
      BY <1>2
    <3> QED
      BY <1>4, <1>5, <2>1, <2>2, <3>1
  <2> QED
    BY <1>1, <1>2, <1>3, <2>1, <2>2, <2>3, <2>4, OneArrives
<1>7. CASE c # First /\ ~up
  <2> DEFINE m == Reply(c, Failed)
  <2>1. m \in Message /\ ~Down(m) /\ \A H : m \in Replies(H) <=> c \in H
    BY <1>3, <1>7, ReplyType
  <2>2. inbox' = inbox \o <<m>> /\ calls' = calls
    BY <1>7 DEF BusRoutes, Sent
  <2> HIDE DEF m
  <2>3. \A H : Cardinality(Hits(outbox', H)) + Cardinality(Hits(calls', H))
                 + Cardinality(orphans' \intersect H) + (IF m \in Replies(H) THEN 1 ELSE 0)
               <= Cardinality(Hits(outbox, H)) + Cardinality(Hits(calls, H))
                  + Cardinality(orphans \intersect H)
    <3>1. orphans' = orphans
      BY <1>2
    <3> QED
      BY <1>4, <1>5, <2>1, <2>2, <3>1
  <2> QED
    BY <1>1, <1>2, <1>3, <2>1, <2>2, <2>3, OneArrives
<1>8. CASE c # First /\ up
  <2>1. c \in ServiceCall /\ calls' = Append(calls, c) /\ inbox' = inbox
    BY <1>3, <1>8 DEF BusRoutes
  <2>2. calls' \in Seq(ServiceCall)
    BY <1>1, <2>1, AppendProperties
  <2>3. \A H : Cardinality(Hits(calls', H))
                 = Cardinality(Hits(calls, H)) + (IF c \in H THEN 1 ELSE 0)
    BY <1>1, <2>1, HitsAppend
  <2>4. \A H : Copies(H)' <= Copies(H)
    <3>1. ASSUME NEW H PROVE Copies(H)' <= Copies(H)
      <4>1. orphans' = orphans /\ inbox' = inbox
        BY <1>2, <2>1
      <4> QED
        BY <1>4, <1>5, <2>3, <4>1, CopiesAre DEF Copies
    <3> QED
      BY <3>1
  <2>5. Arrives(<<>>)
    <3>1. inbox \in Seq(Message) /\ <<>> \in Seq(Message)
      BY DEF Invariant, TypeOK
    <3>2. inbox \o <<>> = inbox
      BY <3>1, ConcatEmptySeq
    <3>3. UNCHANGED up
      BY <1>2 DEF service
    <3> QED
      BY <2>1, <3>1, <3>2, <3>3 DEF Arrives
  <2>6. up' \in BOOLEAN /\ content' \in Contents /\ events' \in 0..MaxEvents
    BY <1>2 DEF service, Invariant, TypeOK
  <2> QED
    BY <1>1, <1>2, <1>3, <2>2, <2>4, <2>5, <2>6, Arrival
<1> QED
  BY <1>6, <1>7, <1>8

LEMMA AnswerType ==
    ASSUME TypeOK, NEW c \in ServiceCall
    PROVE  Answer(c) \in {Failed} \union (IF c = Objects THEN Contents ELSE Val)
<1>1. CASE c = Objects
  BY <1>1 DEF Answer, TypeOK
<1>2. CASE c # Objects
  <2>1. c.proxy \in DOMAIN proxy
    BY <1>2, CallType
  <2>2. proxy[c.proxy].node \in Node
    <3>1. proxy[c.proxy] \in Proxy
      BY <2>1, Domain DEF TypeOK
    <3> QED
      BY <3>1 DEF Proxy
  <2>3. content[proxy[c.proxy].node] \in Val \union {Absent}
    BY <2>2 DEF TypeOK, Contents
  <2> QED
    BY <1>2, <2>3 DEF Answer
<1> QED
  BY <1>1, <1>2

LEMMA AnswersStep == Invariant /\ ServiceAnswers => Invariant'
<1> SUFFICES ASSUME Invariant, ServiceAnswers PROVE Invariant'
  OBVIOUS
<1> DEFINE c == Head(calls)
<1>1. /\ outbox \in Seq({First} \union ServiceCall) /\ calls \in Seq(ServiceCall)
      /\ orphans \subseteq ServiceCall /\ IsFiniteSet(orphans)
  BY DEF Invariant, TypeOK, RefsOK
<1>2. /\ calls # <<>> /\ calls' = Tail(calls)
      /\ UNCHANGED <<service, outbox, orphans, client>>
  BY DEF ServiceAnswers
<1>3. c \in ServiceCall /\ calls' \in Seq(ServiceCall)
  BY <1>1, <1>2, Shifted
<1>4. PICK a \in {Answer(c)} \union (IF MayFail THEN {Failed} ELSE {}) :
          inbox' = inbox \o <<Reply(c, a)>>
  BY DEF ServiceAnswers, Sent
<1> DEFINE m == Reply(c, a)
<1>5. m \in Message /\ ~Down(m) /\ \A H : m \in Replies(H) <=> c \in H
  <2>1. a \in {Failed} \union (IF c = Objects THEN Contents ELSE Val)
    BY <1>3, <1>4, AnswerType DEF Invariant
  <2> QED
    BY <1>3, <2>1, ReplyType
<1> HIDE DEF m
<1>6. \A H : Cardinality(Hits(outbox', H)) + Cardinality(Hits(calls', H))
               + Cardinality(orphans' \intersect H) + (IF m \in Replies(H) THEN 1 ELSE 0)
             <= Cardinality(Hits(outbox, H)) + Cardinality(Hits(calls, H))
                + Cardinality(orphans \intersect H)
  <2>1. \A H : Cardinality(Hits(calls, H))
                 = (IF c \in H THEN 1 ELSE 0) + Cardinality(Hits(calls', H))
    BY <1>1, <1>2, HitsTail
  <2>2. \A H : /\ Cardinality(Hits(outbox, H)) \in Nat /\ Cardinality(Hits(calls', H)) \in Nat
               /\ Cardinality(orphans \intersect H) \in Nat
    <3>1. inbox \in Seq(Message)
      BY DEF Invariant, TypeOK
    <3> QED
      BY <1>1, <1>3, <3>1, Counted
  <2>3. orphans' = orphans /\ outbox' = outbox
    BY <1>2
  <2> QED
    BY <1>5, <2>1, <2>2, <2>3
<1>7. inbox' = inbox \o <<m>>
  BY <1>4 DEF m
<1> QED
  BY <1>1, <1>2, <1>3, <1>5, <1>6, <1>7, OneArrives

LEMMA OrphanStep ==
    ASSUME Invariant, NEW c \in orphans, OrphanFails(c)
    PROVE  Invariant'
<1> DEFINE m == Reply(c, Failed)
<1>1. /\ outbox \in Seq({First} \union ServiceCall) /\ calls \in Seq(ServiceCall)
      /\ orphans \subseteq ServiceCall /\ IsFiniteSet(orphans)
  BY DEF Invariant, TypeOK, RefsOK
<1>2. m \in Message /\ ~Down(m) /\ \A H : m \in Replies(H) <=> c \in H
  BY <1>1, ReplyType
<1>3. /\ orphans' = orphans \ {c} /\ inbox' = inbox \o <<m>>
      /\ UNCHANGED <<service, outbox, calls, client>>
  BY DEF OrphanFails, Sent
<1> HIDE DEF m
<1>4. IsFiniteSet(orphans') /\ orphans' \subseteq ServiceCall
  BY <1>1, <1>3, FS_RemoveElement
<1>5. \A H : Cardinality(orphans' \intersect H) + (IF m \in Replies(H) THEN 1 ELSE 0)
             <= Cardinality(orphans \intersect H)
  <2>1. ASSUME NEW H
        PROVE  Cardinality(orphans' \intersect H) + (IF m \in Replies(H) THEN 1 ELSE 0)
                 <= Cardinality(orphans \intersect H)
    <3> DEFINE A == orphans \intersect H
    <3>1. orphans' \intersect H = A \ {c} /\ (c \in A <=> c \in H)
      BY <1>3
    <3>2. IsFiniteSet(A)
      <4>1. A \in SUBSET orphans
        OBVIOUS
      <4> QED
        BY <1>1, <4>1, FS_Subset
    <3> HIDE DEF A
    <3>3. Cardinality(A \ {c}) = IF c \in A THEN Cardinality(A) - 1 ELSE Cardinality(A)
      BY <3>2, FS_RemoveElement
    <3>4. Cardinality(A) \in Nat
      BY <3>2, FS_CardinalityType
    <3>5. Cardinality(A \ {c}) + (IF m \in Replies(H) THEN 1 ELSE 0) <= Cardinality(A)
      BY <1>2, <3>1, <3>3, <3>4
    <3> QED
      BY <3>1, <3>5 DEF A
  <2> QED
    BY <2>1
<1>6. \A H : Cardinality(Hits(outbox', H)) + Cardinality(Hits(calls', H))
               + Cardinality(orphans' \intersect H) + (IF m \in Replies(H) THEN 1 ELSE 0)
             <= Cardinality(Hits(outbox, H)) + Cardinality(Hits(calls, H))
                + Cardinality(orphans \intersect H)
  <2>1. \A H : /\ Cardinality(Hits(outbox, H)) \in Nat /\ Cardinality(Hits(calls, H)) \in Nat
               /\ Cardinality(orphans \intersect H) \in Nat
               /\ Cardinality(orphans' \intersect H) \in Nat
    <3>1. inbox \in Seq(Message)
      BY DEF Invariant, TypeOK
    <3> QED
      BY <1>1, <1>4, <3>1, Counted
  <2>2. outbox' = outbox /\ calls' = calls
    BY <1>3
  <2>3. ASSUME NEW H
        PROVE  Cardinality(Hits(outbox', H)) + Cardinality(Hits(calls', H))
                 + Cardinality(orphans' \intersect H) + (IF m \in Replies(H) THEN 1 ELSE 0)
               <= Cardinality(Hits(outbox, H)) + Cardinality(Hits(calls, H))
                  + Cardinality(orphans \intersect H)
    <3>1. /\ Cardinality(Hits(outbox, H)) \in Nat /\ Cardinality(Hits(calls, H)) \in Nat
          /\ Cardinality(orphans \intersect H) \in Nat
          /\ Cardinality(orphans' \intersect H) \in Nat
      BY <2>1
    <3>2. Cardinality(orphans' \intersect H) + (IF m \in Replies(H) THEN 1 ELSE 0)
            <= Cardinality(orphans \intersect H)
      BY <1>5
    <3> QED
      BY <2>2, <3>1, <3>2
  <2> QED
    BY <2>3
<1> QED
  BY <1>1, <1>2, <1>3, <1>4, <1>6, OneArrives

-----------------------------------------------------------------------------
(* Books. *)

\* What every book is: the list has different proxies with their clients. It has
\* all the proxies that there are, and perhaps more; those of W wait as they did.
Fits(b, W) ==
    /\ b = [proxies |-> b.proxies, proxy |-> b.proxy, announced |-> b.announced]
    /\ b.proxy \in Seq(Proxy) /\ b.proxies \in Seq(DOMAIN b.proxy)
    /\ IsInjective(b.proxies)
    /\ \A p \in ToSet(b.proxies) : b.proxy[p].linked
    /\ b.announced \subseteq DOMAIN b.proxy
    /\ SetFirst => b.announced = ToSet(b.proxies)
    /\ DOMAIN proxy \subseteq DOMAIN b.proxy
    /\ W \subseteq DOMAIN proxy
    /\ \A p \in W : b.proxy[p].linked /\ p \notin ToSet(b.proxies)

\* The proxies whose GetAll is out
Waiting == {p \in DOMAIN proxy : Copies({Properties(p)}) # 0}

LEMMA BookFields ==
    /\ Book.proxies = proxies /\ Book.proxy = proxy /\ Book.announced = announced
    /\ Book = [proxies |-> proxies, proxy |-> proxy, announced |-> announced]
BY DEF Book

LEMMA BookFits ==
    ASSUME Invariant, NEW W, W \subseteq DOMAIN proxy,
           \A p \in W : proxy[p].linked /\ p \notin ToSet(proxies)
    PROVE  Fits(Book, W)
BY BookFields DEF Fits, Invariant, TypeOK

LEMMA WaitingFits ==
    ASSUME Invariant, SetFirst
    PROVE  \A p \in Waiting : proxy[p].linked /\ p \notin ToSet(proxies)
BY DEF Invariant, WaitingOK, Waiting

LEMMA LookupIs ==
    ASSUME NEW S, NEW b, b.proxies \in Seq(S), NEW n
    PROVE  /\ Lookup(b, n) \in 0..Len(b.proxies)
           /\ Lookup(b, n) # 0 => b.proxy[b.proxies[Lookup(b, n)]].node = n
           /\ Lookup(b, n) = 0 => \A p \in ToSet(b.proxies) : b.proxy[p].node # n
<1> DEFINE I == {i \in 1..Len(b.proxies) : b.proxy[b.proxies[i]].node = n}
<1>1. Len(b.proxies) \in Nat /\ ToSet(b.proxies) = {b.proxies[i] : i \in 1..Len(b.proxies)}
  BY Domain
<1>2. Lookup(b, n) = IF I # {} THEN Min(I) ELSE 0
  BY DEF Lookup, SelectInSeq
<1>3. CASE I = {}
  <2>1. Lookup(b, n) = 0
    BY <1>2, <1>3
  <2> QED
    BY <1>1, <1>3, <2>1
<1>4. CASE I # {}
  <2>1. Min(I) \in I
    <3>1. I \subseteq Nat
      BY <1>1
    <3> HIDE DEF I
    <3> QED
      BY <1>4, <3>1, MinIn
  <2> QED
    BY <1>1, <1>2, <1>4, <2>1
<1> QED
  BY <1>3, <1>4

LEMMA Joined ==
    ASSUME NEW S, NEW s \in Seq(S), IsInjective(s), NEW t \in Seq(S), IsInjective(t),
           ToSet(s) \intersect ToSet(t) = {}
    PROVE  IsInjective(s \o t)
<1> DEFINE n == Len(s)
<1>1. /\ n \in Nat /\ Len(t) \in Nat /\ DOMAIN s = 1..n /\ DOMAIN t = 1..Len(t)
      /\ DOMAIN (s \o t) = 1..(n + Len(t))
      /\ \A i \in 1..n : (s \o t)[i] = s[i]
      /\ \A i \in 1..Len(t) : (s \o t)[n + i] = t[i]
  BY Lengthened
<1>2. ASSUME NEW i \in DOMAIN (s \o t)
      PROVE  \/ i \in DOMAIN s /\ (s \o t)[i] = s[i] /\ (s \o t)[i] \in ToSet(s)
             \/ /\ i - n \in DOMAIN t /\ (s \o t)[i] = t[i - n] /\ i = n + (i - n)
                /\ (s \o t)[i] \in ToSet(t)
  <2>1. CASE i <= n
    BY <1>1, <2>1 DEF ToSet
  <2>2. CASE ~(i <= n)
    <3>1. i - n \in 1..Len(t) /\ i = n + (i - n)
      BY <1>1, <2>2
    <3>2. (s \o t)[i] = t[i - n]
      BY <1>1, <3>1
    <3> QED
      BY <1>1, <3>1, <3>2 DEF ToSet
  <2> QED
    BY <2>1, <2>2
<1>3. ASSUME NEW i \in DOMAIN (s \o t), NEW j \in DOMAIN (s \o t),
             (s \o t)[i] = (s \o t)[j]
      PROVE  i = j
  <2>1. CASE i \in DOMAIN s /\ (s \o t)[i] = s[i] /\ (s \o t)[i] \in ToSet(s)
    <3>1. (s \o t)[j] \notin ToSet(t)
      BY <1>3, <2>1
    <3>2. j \in DOMAIN s /\ (s \o t)[j] = s[j]
      BY <1>2, <3>1
    <3> QED
      BY <1>3, <2>1, <3>2 DEF IsInjective
  <2>2. CASE /\ i - n \in DOMAIN t /\ (s \o t)[i] = t[i - n] /\ i = n + (i - n)
             /\ (s \o t)[i] \in ToSet(t)
    <3>1. (s \o t)[j] \notin ToSet(s)
      BY <1>3, <2>2
    <3>2. j - n \in DOMAIN t /\ (s \o t)[j] = t[j - n] /\ j = n + (j - n)
      BY <1>2, <3>1
    <3>3. i - n = j - n
      BY <1>3, <2>2, <3>2 DEF IsInjective
    <3> QED
      BY <2>2, <3>2, <3>3
  <2> QED
    BY <1>2, <2>1, <2>2
<1> QED
  BY <1>3 DEF IsInjective

LEMMA ProxyFields ==
    ASSUME NEW q \in Proxy
    PROVE  /\ \A v \in Val \union {Absent} :
                 LET r == [q EXCEPT !.value = v]
                 IN  r \in Proxy /\ r.linked = q.linked /\ r.node = q.node /\ r.value = v
           /\ \A v \in Val \union {Absent} :
                 LET r == [q EXCEPT !.linked = FALSE, !.value = v] IN r \in Proxy
           /\ \A h \in BOOLEAN :
                 LET r == [q EXCEPT !.held = h]
                 IN  r \in Proxy /\ r.linked = q.linked /\ r.node = q.node /\ r.value = q.value
BY DEF Proxy

LEMMA UnlinkedFits ==
    ASSUME NEW b, NEW W, Fits(b, W), NEW ps
    PROVE  \E q \in Seq(Proxy) :
              /\ Unlinked(b, ps) = [proxies |-> b.proxies, proxy |-> q,
                                    announced |-> b.announced \ ps]
              /\ DOMAIN q = DOMAIN b.proxy
              /\ \A p \in DOMAIN b.proxy : p \notin ps => q[p] = b.proxy[p]
<1> DEFINE px == [p \in DOMAIN b.proxy |->
                     IF p \in ps
                     THEN [b.proxy[p] EXCEPT !.linked = FALSE, !.value = Absent]
                     ELSE b.proxy[p]]
           u == Unlinked(b, ps)
<1>1. u = [b EXCEPT !.proxy = px, !.announced = b.announced \ ps]
  BY DEF Unlinked
<1>2. \A p \in DOMAIN b.proxy : px[p] \in Proxy
  <2>1. b.proxy \in Seq(Proxy)
    BY DEF Fits
  <2>2. \A p \in DOMAIN b.proxy : b.proxy[p] \in Proxy
    BY <2>1, Domain
  <2> QED
    BY <2>2, ProxyFields
<1>3. \A p \in DOMAIN b.proxy : p \notin ps => px[p] = b.proxy[p]
  OBVIOUS
<1>4. px = [p \in DOMAIN b.proxy |-> px[p]]
  OBVIOUS
<1> HIDE DEF px, u
<1>5. px \in Seq(Proxy) /\ DOMAIN px = DOMAIN b.proxy
  <2>1. b.proxy \in Seq(Proxy)
    BY DEF Fits
  <2> QED
    BY <1>2, <1>4, <2>1, Mapped
<1>6. u = [proxies |-> b.proxies, proxy |-> px, announced |-> b.announced \ ps]
  <2>1. b = [proxies |-> b.proxies, proxy |-> b.proxy, announced |-> b.announced]
    BY DEF Fits
  <2> QED
    BY <1>1, <2>1
<1> QED
  BY <1>3, <1>5, <1>6 DEF u

LEMMA Relisted ==
    ASSUME NEW l, NEW q, NEW a, NEW k
    PROVE  [[proxies |-> l, proxy |-> q, announced |-> a] EXCEPT !.proxies = k]
              = [proxies |-> k, proxy |-> q, announced |-> a]
OBVIOUS

LEMMA EmptiedFits ==
    ASSUME NEW b, NEW W, Fits(b, W)
    PROVE  Fits(Emptied(b), W) /\ Emptied(b).proxies = <<>> /\ ToSet(Emptied(b).proxies) = {}
<1> DEFINE ps == ToSet(b.proxies)
           u == Unlinked(b, ps)
           e == Emptied(b)
<1>1. ps \intersect W = {}
  BY DEF Fits
<1>2. PICK q \in Seq(Proxy) :
         /\ u = [proxies |-> b.proxies, proxy |-> q, announced |-> b.announced \ ps]
         /\ DOMAIN q = DOMAIN b.proxy
         /\ \A p \in DOMAIN b.proxy : p \notin ps => q[p] = b.proxy[p]
  <2> HIDE DEF ps
  <2> QED
    BY UnlinkedFits
<1>3. e = [u EXCEPT !.proxies = <<>>]
  BY DEF Emptied
<1> HIDE DEF e, u
<1>4. e = [proxies |-> <<>>, proxy |-> q, announced |-> b.announced \ ps]
  BY <1>2, <1>3, Relisted
<1>5. e.proxies = <<>> /\ e.proxy = q /\ e.announced = b.announced \ ps
  BY <1>4
<1>6. ToSet(e.proxies) = {} /\ IsInjective(e.proxies) /\ e.proxies \in Seq(DOMAIN e.proxy)
  BY <1>5 DEF ToSet, IsInjective
<1>7. Fits(e, W)
  <2>1. e = [proxies |-> e.proxies, proxy |-> e.proxy, announced |-> e.announced]
    BY <1>4, <1>5
  <2>2. e.announced \subseteq DOMAIN e.proxy
    BY <1>2, <1>5 DEF Fits
  <2>3. SetFirst => e.announced = ToSet(e.proxies)
    BY <1>5, <1>6 DEF Fits
  <2>4. DOMAIN proxy \subseteq DOMAIN e.proxy /\ W \subseteq DOMAIN proxy
    BY <1>2, <1>5 DEF Fits
  <2>5. \A p \in W : e.proxy[p].linked /\ p \notin ToSet(e.proxies)
    BY <1>1, <1>2, <1>5, <1>6 DEF Fits
  <2> QED
    BY <1>2, <1>5, <1>6, <2>1, <2>2, <2>3, <2>4, <2>5 DEF Fits
<1> QED
  BY <1>5, <1>6, <1>7 DEF e

LEMMA WithoutFits ==
    ASSUME NEW b, NEW W, Fits(b, W), NEW i \in 1..Len(b.proxies)
    PROVE  Fits(Without(b, i), W)
<1> DEFINE p == b.proxies[i]
           u == Unlinked(b, {p})
           l == RemoveAt(b.proxies, i)
           e == Without(b, i)
           n == Len(b.proxies)
<1>1. /\ n \in Nat /\ DOMAIN b.proxies = 1..n /\ p \in ToSet(b.proxies)
      /\ b.proxies \in Seq(DOMAIN b.proxy)
      /\ ToSet(b.proxies) = {b.proxies[k] : k \in 1..n}
  BY Domain DEF Fits
<1>2. {p} \intersect W = {}
  BY <1>1 DEF Fits
<1> HIDE DEF p
<1>3. PICK px \in Seq(Proxy) :
         /\ u = [proxies |-> b.proxies, proxy |-> px, announced |-> b.announced \ {p}]
         /\ DOMAIN px = DOMAIN b.proxy
         /\ \A q \in DOMAIN b.proxy : q \notin {p} => px[q] = b.proxy[q]
  <2> DEFINE ps == {p}
  <2>1. u = Unlinked(b, ps)
    OBVIOUS
  <2> HIDE DEF ps, u
  <2>2. \E q \in Seq(Proxy) :
           /\ u = [proxies |-> b.proxies, proxy |-> q, announced |-> b.announced \ ps]
           /\ DOMAIN q = DOMAIN b.proxy
           /\ \A k \in DOMAIN b.proxy : k \notin ps => q[k] = b.proxy[k]
    BY <2>1, UnlinkedFits
  <2> QED
    BY <2>2, Zenon DEF ps
<1>4. e = [u EXCEPT !.proxies = RemoveAt(u.proxies, i)]
  BY DEF Without, p
<1>5. /\ l \in Seq(DOMAIN b.proxy) /\ Len(l) = n - 1
      /\ \A k \in 1..(n - 1) : l[k] = IF k < i THEN b.proxies[k] ELSE b.proxies[k + 1]
  BY <1>1, Shortened
<1>6. DOMAIN l = 1..(n - 1)
  BY <1>5, Domain
<1> HIDE DEF e, u, l
<1>7. e = [proxies |-> l, proxy |-> px, announced |-> b.announced \ {p}]
  <2>1. u.proxies = b.proxies
    BY <1>3
  <2>2. e = [u EXCEPT !.proxies = l]
    BY <1>4, <2>1 DEF l
  <2> QED
    BY <1>3, <2>2, Relisted
<1>8. e.proxies = l /\ e.proxy = px /\ e.announced = b.announced \ {p}
  BY <1>7
<1> DEFINE at(k) == IF k < i THEN k ELSE k + 1
<1>9. \A k \in 1..(n - 1) : at(k) \in 1..n /\ at(k) # i /\ l[k] = b.proxies[at(k)]
  BY <1>1, <1>5
<1>10. \A j, k \in 1..(n - 1) : at(j) = at(k) => j = k
  BY <1>1
<1>11. \A k \in 1..n : k # i => \E j \in 1..(n - 1) : at(j) = k
  <2>1. ASSUME NEW k \in 1..n, k # i PROVE \E j \in 1..(n - 1) : at(j) = k
    <3>1. CASE k < i
      <4>1. k \in 1..(n - 1) /\ at(k) = k
        BY <1>1, <3>1
      <4> QED
        BY <4>1
    <3>2. CASE ~(k < i)
      <4>1. k - 1 \in 1..(n - 1) /\ at(k - 1) = k
        BY <1>1, <2>1, <3>2
      <4> QED
        BY <4>1
    <3> QED
      BY <3>1, <3>2
  <2> QED
    BY <2>1
<1> HIDE DEF at
<1>12. \A j, k \in 1..n : b.proxies[j] = b.proxies[k] => j = k
  BY <1>1 DEF Fits, IsInjective
<1>13. IsInjective(l)
  <2>1. ASSUME NEW j \in 1..(n - 1), NEW k \in 1..(n - 1), l[j] = l[k] PROVE j = k
    <3>1. at(j) = at(k)
      BY <1>9, <1>12, <2>1
    <3> QED
      BY <1>10, <3>1
  <2> QED
    BY <1>6, <2>1 DEF IsInjective
<1>14. ToSet(l) = ToSet(b.proxies) \ {p}
  <2>1. ASSUME NEW q \in ToSet(l) PROVE q \in ToSet(b.proxies) \ {p}
    <3>1. PICK k \in 1..(n - 1) : q = l[k]
      BY <1>6 DEF ToSet
    <3>2. at(k) \in 1..n /\ at(k) # i /\ q = b.proxies[at(k)]
      BY <1>9, <3>1
    <3> QED
      BY <1>1, <1>12, <3>2 DEF p
  <2>2. ASSUME NEW q \in ToSet(b.proxies) \ {p} PROVE q \in ToSet(l)
    <3>1. PICK k \in 1..n : q = b.proxies[k] /\ k # i
      BY <1>1 DEF p
    <3>2. PICK j \in 1..(n - 1) : at(j) = k
      BY <1>11, <3>1
    <3>3. q = l[j]
      BY <1>9, <3>1, <3>2
    <3> QED
      BY <1>6, <3>3 DEF ToSet
  <2> QED
    BY <2>1, <2>2
<1>15. Fits(e, W)
  <2>1. e = [proxies |-> e.proxies, proxy |-> e.proxy, announced |-> e.announced]
    BY <1>7, <1>8
  <2>2. e.announced \subseteq DOMAIN e.proxy
    BY <1>3, <1>8 DEF Fits
  <2>3. SetFirst => e.announced = ToSet(e.proxies)
    BY <1>8, <1>14 DEF Fits
  <2>4. DOMAIN proxy \subseteq DOMAIN e.proxy /\ W \subseteq DOMAIN proxy
    BY <1>3, <1>8 DEF Fits
  <2>5. \A q \in W : e.proxy[q].linked /\ q \notin ToSet(e.proxies)
    BY <1>2, <1>3, <1>8, <1>14 DEF Fits
  <2>6. \A q \in ToSet(e.proxies) : e.proxy[q].linked
    <3>1. ToSet(b.proxies) \subseteq DOMAIN b.proxy
      BY <1>1, Domain
    <3> QED
      BY <1>3, <1>8, <1>14, <3>1 DEF Fits
  <2> QED
    BY <1>3, <1>5, <1>8, <1>13, <2>1, <2>2, <2>3, <2>4, <2>5, <2>6 DEF Fits
<1> QED
  BY <1>15 DEF e

\* Other proxies, but what was linked is.
LEMMA ReproxiedFits ==
    ASSUME NEW b, NEW W, Fits(b, W), NEW q \in Seq(Proxy),
           DOMAIN b.proxy \subseteq DOMAIN q,
           \A p \in DOMAIN b.proxy : q[p].linked = b.proxy[p].linked
    PROVE  LET e == [b EXCEPT !.proxy = q]
           IN  /\ Fits(e, W)
               /\ e.proxies = b.proxies /\ e.proxy = q /\ e.announced = b.announced
<1> DEFINE e == [b EXCEPT !.proxy = q]
<1>1. b = [proxies |-> b.proxies, proxy |-> b.proxy, announced |-> b.announced]
  BY DEF Fits
<1>2. e = [proxies |-> b.proxies, proxy |-> q, announced |-> b.announced]
  BY <1>1
<1> HIDE DEF e
<1>3. e.proxies = b.proxies /\ e.proxy = q /\ e.announced = b.announced
  BY <1>2
<1>4. e = [proxies |-> e.proxies, proxy |-> e.proxy, announced |-> e.announced]
  BY <1>2, <1>3
<1>5. e.proxies \in Seq(DOMAIN e.proxy)
  BY <1>3, SeqMonotonic DEF Fits
<1>6. ToSet(b.proxies) \subseteq DOMAIN b.proxy
  BY Domain DEF Fits
<1>7. Fits(e, W)
  BY <1>3, <1>4, <1>5, <1>6 DEF Fits
<1> QED
  BY <1>3, <1>7 DEF e

LEMMA ListedFits ==
    ASSUME NEW b, NEW W, Fits(b, W), NEW ps \in Seq(DOMAIN b.proxy), IsInjective(ps),
           ToSet(ps) \intersect ToSet(b.proxies) = {}, ToSet(ps) \intersect W = {},
           \A p \in ToSet(ps) : b.proxy[p].linked
    PROVE  Fits(Listed(b, ps), W)
<1> DEFINE l == b.proxies \o ps
           a == IF Handled THEN b.announced \union ToSet(ps) ELSE b.announced
           e == Listed(b, ps)
<1>1. b = [proxies |-> b.proxies, proxy |-> b.proxy, announced |-> b.announced]
  BY DEF Fits
<1>2. e = [b EXCEPT !.proxies = l, !.announced = a]
  BY DEF Listed
<1>3. l \in Seq(DOMAIN b.proxy) /\ ToSet(l) = ToSet(b.proxies) \union ToSet(ps)
  BY Lengthened DEF Fits
<1>4. IsInjective(l)
  BY Joined DEF Fits
<1>5. a \subseteq DOMAIN b.proxy
  <2>1. ToSet(ps) \subseteq DOMAIN b.proxy
    BY Domain
  <2> QED
    BY <2>1 DEF Fits
<1>6. SetFirst => a = b.announced \union ToSet(ps)
  BY DEF SetFirst, Handled
<1> HIDE DEF l, a, e
<1>7. e = [proxies |-> l, proxy |-> b.proxy, announced |-> a]
  BY <1>1, <1>2
<1>8. e.proxies = l /\ e.proxy = b.proxy /\ e.announced = a
  BY <1>7
<1>9. e = [proxies |-> e.proxies, proxy |-> e.proxy, announced |-> e.announced]
  BY <1>7, <1>8
<1>10. Fits(e, W)
  BY <1>3, <1>4, <1>5, <1>6, <1>8, <1>9 DEF Fits
<1> QED
  BY <1>10 DEF e

LEMMA OrderIs ==
    ASSUME NEW D, D \subseteq Node, NEW order \in SetToSeqs(D)
    PROVE  order \in Seq(D) /\ IsInjective(order) /\ Len(order) \in Nat
           /\ DOMAIN order = 1..Len(order) /\ \A i \in 1..Len(order) : order[i] \in D
<1>1. IsFiniteSet(Node)
  BY ClientAssumption
<1>2. IsFiniteSet(D)
  BY <1>1, FS_Subset
<1>3. Cardinality(D) \in Nat
  BY <1>2, FS_CardinalityType
<1>4. order \in [1..Cardinality(D) -> D]
      /\ \A i, j \in 1..Cardinality(D) : i # j => order[i] # order[j]
  BY DEF SetToSeqs
<1>5. order \in Seq(D)
  BY <1>3, <1>4, SeqDef
<1> QED
  BY <1>4, <1>5, Domain DEF IsInjective

LEMMA ParsedFits ==
    ASSUME NEW b, NEW W, Fits(b, W), NEW D, D \subseteq Node, NEW a \in [D -> Val],
           NEW order \in SetToSeqs({n \in DOMAIN a : Lookup(b, n) = 0})
    PROVE  Fits(Parsed(b, a, order), W)
<1> DEFINE Known(p) == LET i == Lookup(b, b.proxy[p].node)
                       IN  b.proxy[p].node \in DOMAIN a /\ i # 0 /\ b.proxies[i] = p
           old == [p \in DOMAIN b.proxy |->
                     IF Known(p) THEN [b.proxy[p] EXCEPT !.value = a[b.proxy[p].node]]
                     ELSE b.proxy[p]]
           new == [i \in DOMAIN order |-> NewProxy(order[i], a[order[i]], FALSE)]
           q == old \o new
           n == Len(b.proxy)
           ps == [i \in DOMAIN order |-> n + i]
           c == [b EXCEPT !.proxy = q]
           N == {k \in DOMAIN a : Lookup(b, k) = 0}
<1>1. N \subseteq D /\ DOMAIN a = D /\ N \subseteq Node
  OBVIOUS
<1>2. /\ order \in Seq(N) /\ Len(order) \in Nat /\ DOMAIN order = 1..Len(order)
      /\ \A i \in 1..Len(order) : order[i] \in N
  <2> HIDE DEF N
  <2> QED
    BY <1>1, OrderIs DEF N
<1>3. /\ b.proxy \in Seq(Proxy) /\ n \in Nat /\ DOMAIN b.proxy = 1..n
      /\ \A p \in 1..n : b.proxy[p] \in Proxy
  BY Domain DEF Fits
<1>4. \A p \in DOMAIN b.proxy : old[p] \in Proxy /\ old[p].linked = b.proxy[p].linked
  <2>1. ASSUME NEW p \in DOMAIN b.proxy, Known(p)
        PROVE  /\ old[p] = [b.proxy[p] EXCEPT !.value = a[b.proxy[p].node]]
               /\ a[b.proxy[p].node] \in Val \union {Absent}
    BY <2>1
  <2>2. ASSUME NEW p \in DOMAIN b.proxy, ~Known(p) PROVE old[p] = b.proxy[p]
    BY <2>2
  <2> HIDE DEF old, Known
  <2>3. ASSUME NEW p \in DOMAIN b.proxy
        PROVE  old[p] \in Proxy /\ old[p].linked = b.proxy[p].linked
    <3>1. CASE Known(p)
      <4> DEFINE x == b.proxy[p]
                 v == a[b.proxy[p].node]
      <4>1. x \in Proxy /\ v \in Val \union {Absent} /\ old[p] = [x EXCEPT !.value = v]
        BY <1>3, <2>1, <3>1
      <4> HIDE DEF x, v
      <4>2. [x EXCEPT !.value = v] \in Proxy /\ [x EXCEPT !.value = v].linked = x.linked
        BY <4>1, ProxyFields
      <4> QED
        BY <4>1, <4>2 DEF x
    <3>2. CASE ~Known(p)
      BY <1>3, <2>2, <3>2
    <3> QED
      BY <3>1, <3>2
  <2> QED
    BY <2>3
<1>5. old = [p \in DOMAIN b.proxy |-> old[p]]
  OBVIOUS
<1>6. \A i \in DOMAIN order : new[i] \in Proxy /\ new[i].linked
  <2>1. ASSUME NEW i \in DOMAIN order PROVE new[i] \in Proxy /\ new[i].linked
    <3>1. order[i] \in Node /\ a[order[i]] \in Val
      BY <1>1, <1>2
    <3>2. new[i] = NewProxy(order[i], a[order[i]], FALSE)
      OBVIOUS
    <3> QED
      BY <3>1, <3>2 DEF NewProxy, Proxy
  <2> QED
    BY <2>1
<1>7. new = [i \in DOMAIN order |-> new[i]]
  OBVIOUS
<1>8. Parsed(b, a, order) = Listed(c, ps)
  BY DEF Parsed
<1> HIDE DEF old, new, N
<1>9. /\ old \in Seq(Proxy) /\ Len(old) = n /\ DOMAIN old = 1..n
      /\ new \in Seq(Proxy) /\ Len(new) = Len(order) /\ DOMAIN new = 1..Len(order)
  BY <1>2, <1>3, <1>4, <1>5, <1>6, <1>7, Mapped
<1>10. /\ q \in Seq(Proxy) /\ DOMAIN q = 1..(n + Len(order))
       /\ \A p \in 1..n : q[p] = old[p]
       /\ \A i \in 1..Len(order) : q[n + i] = new[i]
  <2>1. /\ q \in Seq(Proxy) /\ DOMAIN q = 1..(Len(old) + Len(new))
        /\ \A p \in 1..Len(old) : q[p] = old[p]
        /\ \A i \in 1..Len(new) : q[Len(old) + i] = new[i]
    <3>1. old \in Seq(Proxy) /\ new \in Seq(Proxy)
      BY <1>9
    <3>2. /\ old \o new \in Seq(Proxy) /\ DOMAIN (old \o new) = 1..(Len(old) + Len(new))
          /\ \A p \in 1..Len(old) : (old \o new)[p] = old[p]
          /\ \A i \in 1..Len(new) : (old \o new)[Len(old) + i] = new[i]
      BY <3>1, Lengthened
    <3> QED
      BY <3>2, Zenon
  <2> HIDE DEF q
  <2> QED
    BY <1>9, <2>1
<1> HIDE DEF q
<1>11. /\ DOMAIN b.proxy \subseteq DOMAIN q
       /\ \A p \in DOMAIN b.proxy : q[p].linked = b.proxy[p].linked
  BY <1>2, <1>3, <1>4, <1>10
<1>12. Fits(c, W) /\ c.proxies = b.proxies /\ c.proxy = q
  BY <1>10, <1>11, ReproxiedFits
<1> HIDE DEF c
<1>13. /\ \A i \in DOMAIN order : ps[i] = n + i /\ ps[i] \in DOMAIN q
       /\ ps = [i \in DOMAIN order |-> ps[i]] /\ DOMAIN ps = DOMAIN order
  BY <1>2, <1>3, <1>10
<1> HIDE DEF ps
<1>14. ps \in Seq(DOMAIN q)
  BY <1>2, <1>13, Mapped
<1>15. IsInjective(ps)
  BY <1>2, <1>3, <1>13 DEF IsInjective
<1>16. \A p \in ToSet(ps) : p \notin 1..n /\ q[p].linked
  <2>1. ASSUME NEW i \in DOMAIN ps PROVE ps[i] \notin 1..n /\ q[ps[i]].linked
    <3>1. ps[i] = n + i /\ i \in 1..Len(order) /\ i \in DOMAIN order
      BY <1>2, <1>13
    <3>2. q[n + i] = new[i] /\ new[i].linked
      BY <1>6, <1>10, <3>1
    <3>3. n + i \notin 1..n
      BY <1>3, <3>1
    <3> QED
      BY <3>1, <3>2, <3>3
  <2> QED
    BY <2>1 DEF ToSet
<1>17. ToSet(b.proxies) \subseteq 1..n /\ W \subseteq 1..n
  BY <1>3, Domain DEF Fits
<1>18. Fits(Listed(c, ps), W)
  BY <1>12, <1>14, <1>15, <1>16, <1>17, ListedFits
<1> QED
  BY <1>8, <1>18

-----------------------------------------------------------------------------
(* Handlers. *)

\* The proxies that go on waiting, to a user who set the handlers first, when
\* message m is dispatched
Left(m) ==
    {p \in DOMAIN proxy : /\ SetFirst /\ Copies({Properties(p)}) # 0
                          /\ ~(m.kind = "reply" /\ m.call = Properties(p))}

LEMMA LeftFits ==
    ASSUME Invariant, NEW m
    PROVE  Fits(Book, Left(m)) /\ Left(m) \subseteq DOMAIN proxy
<1>1. Left(m) \subseteq DOMAIN proxy
  BY DEF Left
<1>2. \A p \in Left(m) : proxy[p].linked /\ p \notin ToSet(proxies)
  BY WaitingFits DEF Left, Waiting
<1> QED
  BY <1>1, <1>2, BookFits

LEMMA DispatchStatus ==
    ASSUME TypeOK, StatusOK, inbox # <<>>, inbox' = Tail(inbox), UNCHANGED up,
           disconnects' <= 1, connected' /\ refs' > 0 => disconnects' = 0,
           disconnects' # 0 /\ refs' > 0 =>
              refs > 0 /\ ~Risen(Head(inbox)) /\ (Down(Head(inbox)) \/ disconnects # 0)
    PROVE  StatusOK'
<1> DEFINE m == Head(inbox)
<1>1. /\ m = inbox[1] /\ 1 \in DOMAIN inbox /\ Len(inbox) \in Nat
      /\ DOMAIN inbox = 1..Len(inbox) /\ DOMAIN inbox' = 1..(Len(inbox) - 1)
      /\ \A i \in DOMAIN inbox' : i + 1 \in DOMAIN inbox /\ inbox'[i] = inbox[i + 1]
  <2>1. inbox \in Seq(Message)
    BY DEF TypeOK
  <2> QED
    BY <2>1, Shifted, Domain
<1> HIDE DEF m
<1>2. ASSUME NEW k \in DOMAIN inbox, k > 1
      PROVE  k - 1 \in DOMAIN inbox' /\ inbox'[k - 1] = inbox[k]
  <2>1. k - 1 \in DOMAIN inbox' /\ (k - 1) + 1 = k
    BY <1>1, <1>2
  <2> QED
    BY <1>1, <2>1
<1>3. ASSUME NEW i \in DOMAIN inbox', NEW j \in DOMAIN inbox', i < j,
             Down(inbox'[i]), Down(inbox'[j])
      PROVE  \E k \in DOMAIN inbox' : i < k /\ k < j /\ Risen(inbox'[k])
  <2>1. i + 1 \in DOMAIN inbox /\ j + 1 \in DOMAIN inbox /\ i + 1 < j + 1
        /\ Down(inbox[i + 1]) /\ Down(inbox[j + 1])
    BY <1>1, <1>3
  <2>2. PICK k \in DOMAIN inbox : i + 1 < k /\ k < j + 1 /\ Risen(inbox[k])
    BY <2>1 DEF StatusOK
  <2>3. k > 1 /\ i < k - 1 /\ k - 1 < j
    BY <1>1, <2>2
  <2> QED
    BY <1>2, <2>2, <2>3
<1>4. ASSUME refs' > 0, disconnects' # 0, NEW j \in DOMAIN inbox', Down(inbox'[j])
      PROVE  \E k \in DOMAIN inbox' : k < j /\ Risen(inbox'[k])
  <2>1. j + 1 \in DOMAIN inbox /\ Down(inbox[j + 1]) /\ 1 < j + 1
    BY <1>1, <1>4
  <2>2. PICK k \in DOMAIN inbox : k > 1 /\ k < j + 1 /\ Risen(inbox[k])
    <3>1. CASE Down(m)
      BY <1>1, <2>1, <3>1 DEF StatusOK
    <3>2. CASE disconnects # 0
      <4>1. PICK k \in DOMAIN inbox : k < j + 1 /\ Risen(inbox[k])
        BY <1>4, <2>1, <3>2 DEF StatusOK
      <4>2. k # 1
        BY <1>1, <1>4, <4>1 DEF m
      <4> QED
        BY <1>1, <4>1, <4>2
    <3> QED
      BY <1>4, <3>1, <3>2 DEF m
  <2>3. k - 1 < j
    BY <1>1, <2>2
  <2> QED
    BY <1>2, <2>2, <2>3
<1>5. ASSUME up', NEW i \in DOMAIN inbox', Down(inbox'[i])
      PROVE  \E k \in DOMAIN inbox' : i < k /\ Risen(inbox'[k])
  <2>1. i + 1 \in DOMAIN inbox /\ Down(inbox[i + 1])
    BY <1>1, <1>5
  <2>2. PICK k \in DOMAIN inbox : i + 1 < k /\ Risen(inbox[k])
    BY <1>5, <2>1 DEF StatusOK
  <2>3. k > 1 /\ i < k - 1
    BY <1>1, <2>2
  <2> QED
    BY <1>2, <2>2, <2>3
<1>6. ASSUME up', refs' > 0, disconnects' # 0
      PROVE  \E k \in DOMAIN inbox' : Risen(inbox'[k])
  <2>1. PICK k \in DOMAIN inbox : k > 1 /\ Risen(inbox[k])
    <3>1. CASE Down(m)
      BY <1>1, <1>6, <3>1 DEF StatusOK
    <3>2. CASE disconnects # 0
      <4>1. PICK k \in DOMAIN inbox : Risen(inbox[k])
        BY <1>6, <3>2 DEF StatusOK
      <4>2. k # 1
        BY <1>1, <1>6, <4>1 DEF m
      <4> QED
        BY <1>1, <4>1, <4>2
    <3> QED
      BY <1>6, <3>1, <3>2 DEF m
  <2> QED
    BY <1>2, <2>1
<1> QED
  BY <1>3, <1>4, <1>5, <1>6 DEF StatusOK

LEMMA MoreCalls ==
    ASSUME DOMAIN proxy \subseteq DOMAIN proxy'
    PROVE  ServiceCall \subseteq ServiceCall' /\ Message \subseteq Message'
<1>1. ServiceCall \subseteq ServiceCall'
  BY DEF ServiceCall
<1>2. [kind : {"reply"}, call : ServiceCall \ {Objects}, answer : {Failed} \union Val]
        \subseteq [kind : {"reply"}, call : ServiceCall' \ {Objects},
                   answer : {Failed} \union Val]
  BY <1>1
<1> QED
  BY <1>1, <1>2 DEF Message

LEMMA BookedType ==
    ASSUME Invariant, UNCHANGED service, handlers' \in {"unset", "set", "setFirst"},
           NEW b, NEW W, Fits(b, W), Store(b),
           outbox' \in Seq({First} \union ServiceCall'), calls' \in Seq(ServiceCall),
           orphans' \subseteq ServiceCall, inbox' \in Seq(Message),
           refs' \in Nat, released' \in BOOLEAN, connected' \in BOOLEAN,
           fetching' \in BOOLEAN, ready' \in BOOLEAN, news' \in 0..MaxNews,
           disconnects' \in Nat,
           fault' \in {"none", "nullClient", "freedProxy", "freedClient"}
    PROVE  TypeOK'
<1>1. proxies' = b.proxies /\ proxy' = b.proxy /\ announced' = b.announced
  BY DEF Store
<1>2. ServiceCall \subseteq ServiceCall' /\ Message \subseteq Message'
  BY <1>1, MoreCalls DEF Fits
<1>3. calls' \in Seq(ServiceCall') /\ inbox' \in Seq(Message') /\ orphans' \subseteq ServiceCall'
  BY <1>2, SeqMonotonic
<1>4. up' \in BOOLEAN /\ content' \in Contents /\ events' \in 0..MaxEvents
  BY DEF service, Invariant, TypeOK
<1>5. /\ proxy' \in Seq(Proxy) /\ proxies' \in Seq(DOMAIN proxy') /\ IsInjective(proxies')
      /\ \A p \in ToSet(proxies') : proxy'[p].linked
      /\ announced' \subseteq DOMAIN proxy'
  BY <1>1 DEF Fits
<1> QED
  BY <1>3, <1>4, <1>5 DEF TypeOK

\* A handler may call or hang up, and leaves the proxies in book b.
LEMMA HandlerStep ==
    ASSUME Invariant, inbox # <<>>, inbox' = Tail(inbox),
           UNCHANGED <<service, calls, orphans, news, handlers, released>>,
           NEW b, Fits(b, Left(Head(inbox))), Store(b),
           outbox' \in Seq({First} \union ServiceCall), refs' \in Nat,
           connected' \in BOOLEAN, fetching' \in BOOLEAN, ready' \in BOOLEAN,
           disconnects' \in Nat, disconnects' <= 1,
           connected' /\ refs' > 0 => disconnects' = 0,
           disconnects' # 0 /\ refs' > 0 =>
              refs > 0 /\ ~Risen(Head(inbox)) /\ (Down(Head(inbox)) \/ disconnects # 0),
           fault' \in {"none", "nullClient", "freedProxy", "freedClient"},
           SetFirst => fault' = "none",
           refs' + (IF Head(inbox) \in Replies(Asking) THEN 1 ELSE 0)
             >= refs + (Cardinality(Hits(outbox', Asking)) - Cardinality(Hits(outbox, Asking))),
           SetFirst => \A p : Cardinality(Hits(outbox', {Properties(p)}))
                                <= Cardinality(Hits(outbox, {Properties(p)}))
    PROVE  Invariant'
<1> DEFINE m == Head(inbox)
<1>1. inbox \in Seq(Message) /\ m \in Message /\ inbox' \in Seq(Message)
  BY Shifted DEF Invariant, TypeOK
<1>2. TypeOK'
  <2>1. news' \in 0..MaxNews /\ released' \in BOOLEAN /\ calls' \in Seq(ServiceCall)
        /\ orphans' \subseteq ServiceCall
    BY DEF Invariant, TypeOK
  <2>2. ServiceCall \subseteq ServiceCall'
    BY MoreCalls DEF Fits, Store
  <2>3. outbox' \in Seq({First} \union ServiceCall')
    <3>1. {First} \union ServiceCall \subseteq {First} \union ServiceCall'
      BY <2>2
    <3> QED
      BY <3>1, SeqMonotonic
  <2>4. handlers' \in {"unset", "set", "setFirst"}
    BY DEF Invariant, TypeOK
  <2> QED
    BY <1>1, <2>1, <2>3, <2>4, BookedType
<1>3. StatusOK'
  <2>1. UNCHANGED up
    BY DEF service
  <2> QED
    BY <2>1, DispatchStatus DEF Invariant
<1>4. \A H : Cardinality(Hits(inbox, Replies(H)))
               = (IF m \in Replies(H) THEN 1 ELSE 0) + Cardinality(Hits(inbox', Replies(H)))
  BY <1>1, HitsTail
<1> HIDE DEF m
<1>5. IsFiniteSet(orphans')
  BY DEF Invariant, RefsOK
<1>6. ASSUME NEW H
      PROVE  /\ Cardinality(Hits(outbox', H)) \in Nat
             /\ Cardinality(Hits(outbox, H)) \in Nat /\ Cardinality(Hits(calls, H)) \in Nat
             /\ Cardinality(orphans \intersect H) \in Nat
             /\ Cardinality(Hits(inbox', Replies(H))) \in Nat
             /\ Copies(H) = Cardinality(Hits(outbox, H)) + Cardinality(Hits(calls, H))
                            + Cardinality(orphans \intersect H)
                            + Cardinality(Hits(inbox, Replies(H)))
             /\ Copies(H)' = Cardinality(Hits(outbox', H)) + Cardinality(Hits(calls, H))
                             + Cardinality(orphans \intersect H)
                             + Cardinality(Hits(inbox', Replies(H)))
  <2>1. /\ Cardinality(Hits(outbox', H)) \in Nat
        /\ Cardinality(Hits(inbox', Replies(H))) \in Nat
    BY <1>2, <1>5, CopiesTypeNext
  <2>2. Copies(H)' = Cardinality(Hits(outbox', H)) + Cardinality(Hits(calls, H))
                     + Cardinality(orphans \intersect H)
                     + Cardinality(Hits(inbox', Replies(H)))
    BY DEF Copies
  <2> QED
    BY <2>1, <2>2, CopiesAre DEF Copies
<1>7. RefsOK'
  <2>1. refs \in Nat /\ refs >= Copies(Asking) + (IF released THEN 0 ELSE 1)
    BY DEF Invariant, RefsOK, TypeOK
  <2>2. refs' + (IF m \in Replies(Asking) THEN 1 ELSE 0)
          >= refs + (Cardinality(Hits(outbox', Asking)) - Cardinality(Hits(outbox, Asking)))
    BY DEF m
  <2>3. refs' >= Copies(Asking)' + (IF released THEN 0 ELSE 1)
    <3>1. Cardinality(Hits(inbox, Replies(Asking)))
            = (IF m \in Replies(Asking) THEN 1 ELSE 0)
              + Cardinality(Hits(inbox', Replies(Asking)))
      BY <1>4
    <3>2. /\ Cardinality(Hits(outbox', Asking)) \in Nat
          /\ Cardinality(Hits(outbox, Asking)) \in Nat /\ Cardinality(Hits(calls, Asking)) \in Nat
          /\ Cardinality(orphans \intersect Asking) \in Nat
          /\ Cardinality(Hits(inbox', Replies(Asking))) \in Nat
          /\ Copies(Asking) = Cardinality(Hits(outbox, Asking)) + Cardinality(Hits(calls, Asking))
                         + Cardinality(orphans \intersect Asking)
                         + Cardinality(Hits(inbox, Replies(Asking)))
          /\ Copies(Asking)' = Cardinality(Hits(outbox', Asking)) + Cardinality(Hits(calls, Asking))
                          + Cardinality(orphans \intersect Asking)
                          + Cardinality(Hits(inbox', Replies(Asking)))
      BY <1>6
    <3> QED
      BY <2>1, <2>2, <3>1, <3>2, SMTT(60)
  <2>4. refs' >= Copies(Asking)' + (IF released' THEN 0 ELSE 1)
    BY <2>3
  <2> QED
    BY <1>5, <2>4 DEF RefsOK
<1>8. ASSUME SetFirst'
      PROVE  WaitingOK' /\ fault' = "none" /\ announced' = ToSet(proxies')
  <2>1. SetFirst /\ WaitingOK
    BY <1>8 DEF SetFirst, Invariant
  <2>2. fault' = "none" /\ announced' = ToSet(proxies')
    BY <2>1 DEF Fits, Store
  <2>3. ASSUME NEW p \in DOMAIN proxy'
        PROVE  /\ Copies({Properties(p)})' <= 1
               /\ Copies({Properties(p)})' # 0 => proxy'[p].linked /\ p \notin ToSet(proxies')
    <3> DEFINE H == {Properties(p)}
    <3>1. Cardinality(Hits(outbox', H)) <= Cardinality(Hits(outbox, H))
      BY <2>1
    <3>2. Cardinality(Hits(inbox, Replies(H)))
            = (IF m \in Replies(H) THEN 1 ELSE 0) + Cardinality(Hits(inbox', Replies(H)))
      BY <1>4
    <3>3. p \in DOMAIN proxy => Copies(H) <= 1
      BY <2>1 DEF WaitingOK
    <3>4. p \notin DOMAIN proxy => Copies(H) = 0
      BY NoneForOthers DEF Invariant, RefsOK
    <3>5. m \in Replies(H) <=> m.kind = "reply" /\ m.call = Properties(p)
      <4>1. ASSUME m.kind = "reply", m.call = Properties(p) PROVE m \in Replies(H)
        <5>1. m = Reply(m.call, m.answer) /\ m.call \in ServiceCall
              /\ m.answer \in {Failed} \union Val \union Contents
          <6>1. m \in Message
            BY <1>1 DEF m
          <6> QED
            BY <4>1, <6>1, MessageType
        <5> QED
          BY <4>1, <5>1 DEF Reply, Replies
      <4>2. ASSUME m \in Replies(H) PROVE m.kind = "reply" /\ m.call = Properties(p)
        BY <4>2 DEF Replies
      <4> QED
        BY <4>1, <4>2
    <3> HIDE DEF H
    <3>6. Copies(H)' <= 1 /\ (Copies(H)' # 0 => m \notin Replies(H) /\ Copies(H) # 0)
      <4>1. /\ Cardinality(Hits(outbox', H)) \in Nat
            /\ Cardinality(Hits(outbox, H)) \in Nat /\ Cardinality(Hits(calls, H)) \in Nat
            /\ Cardinality(orphans \intersect H) \in Nat
            /\ Cardinality(Hits(inbox', Replies(H))) \in Nat
            /\ Copies(H) = Cardinality(Hits(outbox, H)) + Cardinality(Hits(calls, H))
                           + Cardinality(orphans \intersect H)
                           + Cardinality(Hits(inbox, Replies(H)))
            /\ Copies(H)' = Cardinality(Hits(outbox', H)) + Cardinality(Hits(calls, H))
                            + Cardinality(orphans \intersect H)
                            + Cardinality(Hits(inbox', Replies(H)))
        BY <1>6
      <4> QED
        BY <3>1, <3>2, <3>3, <3>4, <4>1
    <3>7. ASSUME Copies(H)' # 0 PROVE proxy'[p].linked /\ p \notin ToSet(proxies')
      <4>1. p \in Left(m)
        BY <2>1, <3>4, <3>5, <3>6, <3>7 DEF Left, H
      <4> QED
        BY <4>1 DEF Fits, Store, m
    <3> QED
      BY <3>6, <3>7 DEF H
  <2> QED
    BY <2>2, <2>3 DEF WaitingOK
<1> QED
  BY <1>2, <1>3, <1>7, <1>8 DEF Invariant

LEMMA AskingCalls ==
    /\ First \notin Asking /\ Objects \notin Asking
    /\ \A p : First \notin {Properties(p)} /\ Objects \notin {Properties(p)}
    /\ \A p \in Nat : Properties(p) \in Asking
<1>1. \A c \in Asking : c.kind = "properties"
  BY DEF Asking
<1>2. First.kind # "properties" /\ Objects.kind # "properties"
  BY Calls
<1>3. \A p \in Nat : Properties(p) \in Asking
  BY DEF Properties, Asking
<1> QED
  BY <1>1, <1>2, <1>3, Calls

LEMMA Requests ==
    ASSUME Invariant, NEW c \in BOOLEAN, NEW h \in BOOLEAN, GetManagedObjects(c, h)
    PROVE  /\ outbox' \in Seq({First} \union ServiceCall) /\ fetching' \in BOOLEAN
           /\ refs' \in Nat /\ refs' >= refs /\ (h => refs' = refs)
           /\ refs' >= refs + (Cardinality(Hits(outbox', Asking))
                               - Cardinality(Hits(outbox, Asking)))
           /\ h => \A p : Cardinality(Hits(outbox', {Properties(p)}))
                            <= Cardinality(Hits(outbox, {Properties(p)}))
<1>1. /\ outbox \in Seq({First} \union ServiceCall) /\ refs \in Nat /\ fetching \in BOOLEAN
      /\ proxies \in Seq(DOMAIN proxy)
  BY DEF Invariant, TypeOK
<1>2. \A H : Cardinality(Hits(outbox, H)) \in Nat
  BY CopiesAre
<1>3. CASE ~c \/ (h /\ fetching)
  <2>1. outbox' = outbox /\ fetching' = fetching /\ refs' = refs
    BY <1>3 DEF GetManagedObjects
  <2>2. \A H : Cardinality(Hits(outbox', H)) = Cardinality(Hits(outbox, H))
    BY <2>1
  <2> QED
    BY <1>1, <1>2, <2>1, <2>2
<1>4. CASE ~(~c \/ (h /\ fetching)) /\ h
  <2>1. outbox' = Append(outbox, Objects) /\ fetching' = TRUE /\ refs' = refs
    BY <1>4 DEF GetManagedObjects
  <2>2. Objects \in {First} \union ServiceCall
    BY DEF ServiceCall
  <2>3. \A H : Cardinality(Hits(outbox', H))
                 = Cardinality(Hits(outbox, H)) + (IF Objects \in H THEN 1 ELSE 0)
    BY <1>1, <2>1, <2>2, HitsAppend
  <2>4. outbox' \in Seq({First} \union ServiceCall)
    BY <1>1, <2>1, <2>2, AppendProperties
  <2>5. Cardinality(Hits(outbox', Asking)) = Cardinality(Hits(outbox, Asking))
    BY <1>2, <2>3, AskingCalls
  <2>6. \A p : Cardinality(Hits(outbox', {Properties(p)}))
                 = Cardinality(Hits(outbox, {Properties(p)}))
    BY <1>2, <2>3, AskingCalls
  <2> QED
    BY <1>1, <1>2, <2>1, <2>4, <2>5, <2>6
<1>5. CASE ~(~c \/ (h /\ fetching)) /\ ~h
  <2> DEFINE g == [i \in DOMAIN proxies |-> Properties(proxies[i])]
  <2>1. outbox' = outbox \o g /\ fetching' = fetching /\ refs' = refs + Len(proxies)
    BY <1>5 DEF GetManagedObjects
  <2>2. \A i \in DOMAIN proxies : g[i] \in {First} \union ServiceCall
    <3>1. \A i \in DOMAIN proxies : proxies[i] \in DOMAIN proxy
      BY <1>1, Domain
    <3> QED
      BY <3>1 DEF ServiceCall
  <2>3. g = [i \in DOMAIN proxies |-> g[i]]
    OBVIOUS
  <2> HIDE DEF g
  <2>4. g \in Seq({First} \union ServiceCall) /\ Len(g) = Len(proxies)
    BY <1>1, <2>2, <2>3, Mapped
  <2>5. Cardinality(Hits(outbox', Asking))
          = Cardinality(Hits(outbox, Asking)) + Cardinality(Hits(g, Asking))
    BY <1>1, <2>1, <2>4, HitsConcat
  <2>6. Cardinality(Hits(g, Asking)) \in 0..Len(proxies) /\ Len(proxies) \in Nat
    BY <1>1, <2>4, HitsFinite, Domain
  <2>7. outbox' \in Seq({First} \union ServiceCall)
    BY <1>1, <2>1, <2>4, Lengthened
  <2>8. Cardinality(Hits(outbox, Asking)) \in Nat
    BY <1>2
  <2> QED
    BY <1>1, <1>5, <2>1, <2>5, <2>6, <2>7, <2>8
<1> QED
  BY <1>3, <1>4, <1>5

LEMMA ConnectStep ==
    ASSUME Invariant, inbox # <<>>, inbox' = Tail(inbox),
           UNCHANGED <<service, calls, orphans, news>>, ServiceConnect(Head(inbox))
    PROVE  Invariant'
<1>1. /\ GetManagedObjects(TRUE, Handled) /\ connected' = TRUE /\ disconnects' = 0
      /\ ready' = FALSE
      /\ UNCHANGED <<released, handlers, proxies, proxy, announced, fault>>
  BY DEF ServiceConnect
<1>2. Handled \in BOOLEAN /\ (SetFirst => Handled)
  BY DEF Handled, SetFirst
<1>3. /\ outbox' \in Seq({First} \union ServiceCall) /\ fetching' \in BOOLEAN
      /\ refs' \in Nat
      /\ refs' >= refs + (Cardinality(Hits(outbox', Asking))
                          - Cardinality(Hits(outbox, Asking)))
      /\ Handled => \A p : Cardinality(Hits(outbox', {Properties(p)}))
                             <= Cardinality(Hits(outbox, {Properties(p)}))
  BY <1>1, <1>2, Requests
<1>4. refs' + (IF Head(inbox) \in Replies(Asking) THEN 1 ELSE 0)
        >= refs + (Cardinality(Hits(outbox', Asking)) - Cardinality(Hits(outbox, Asking)))
  <2>1. Cardinality(Hits(outbox', Asking)) \in Nat /\ Cardinality(Hits(outbox, Asking)) \in Nat
    <3>1. Cardinality(Hits(outbox', Asking)) \in 0..Len(outbox') /\ Len(outbox') \in Nat
      BY <1>3, HitsFinite, Domain
    <3>2. Cardinality(Hits(outbox, Asking)) \in Nat
      BY CopiesAre
    <3> QED
      BY <3>1, <3>2
  <2>2. refs \in Nat
    BY DEF Invariant, TypeOK
  <2> QED
    BY <1>3, <2>1, <2>2
<1>5. Fits(Book, Left(Head(inbox))) /\ Store(Book)
  BY <1>1, LeftFits, BookFields DEF Store
<1>6. fault \in {"none", "nullClient", "freedProxy", "freedClient"}
      /\ (SetFirst => fault = "none")
  BY DEF Invariant, TypeOK
<1>7. SetFirst => \A p : Cardinality(Hits(outbox', {Properties(p)}))
                           <= Cardinality(Hits(outbox, {Properties(p)}))
  BY <1>2, <1>3
<1>8. UNCHANGED <<service, calls, orphans, news, handlers, released>>
  BY <1>1
<1>9. connected' \in BOOLEAN /\ ready' \in BOOLEAN /\ fault' = fault
  BY <1>1, Zenon
<1>10. disconnects' \in Nat /\ disconnects' <= 1 /\ disconnects' = 0
  BY <1>1
<1> QED
  BY <1>3, <1>4, <1>5, <1>6, <1>7, <1>8, <1>9, <1>10, HandlerStep

\* The handlers that leave the calls and the references alone
LEMMA PlainStep ==
    ASSUME Invariant, inbox # <<>>, inbox' = Tail(inbox),
           UNCHANGED <<service, calls, orphans, news, handlers, released, outbox, refs,
                       fault>>,
           NEW b, Fits(b, Left(Head(inbox))), Store(b),
           connected' \in BOOLEAN, fetching' \in BOOLEAN, ready' \in BOOLEAN,
           \/ UNCHANGED <<disconnects, connected>> /\ (Risen(Head(inbox)) => refs = 0)
           \/ refs > 0 /\ Down(Head(inbox)) /\ ~connected' /\ disconnects' = disconnects + 1
    PROVE  Invariant'
<1>1. /\ outbox \in Seq({First} \union ServiceCall) /\ refs \in Nat /\ disconnects \in Nat
      /\ fault \in {"none", "nullClient", "freedProxy", "freedClient"}
      /\ (SetFirst => fault = "none")
      /\ disconnects <= 1 /\ (connected /\ refs > 0 => disconnects = 0)
      /\ inbox \in Seq(Message)
  BY DEF Invariant, TypeOK, StatusOK
<1>2. /\ disconnects' \in Nat /\ disconnects' <= 1
      /\ (connected' /\ refs' > 0 => disconnects' = 0)
      /\ disconnects' # 0 /\ refs' > 0 =>
            refs > 0 /\ ~Risen(Head(inbox)) /\ (Down(Head(inbox)) \/ disconnects # 0)
  <2>1. CASE UNCHANGED <<disconnects, connected>> /\ (Risen(Head(inbox)) => refs = 0)
    BY <1>1, <2>1
  <2>2. CASE refs > 0 /\ Down(Head(inbox)) /\ ~connected' /\ disconnects' = disconnects + 1
    <3>1. ~Risen(Head(inbox))
      BY <2>2 DEF Down, Risen
    <3>2. disconnects = 0
      <4>1. ASSUME disconnects # 0 PROVE FALSE
        <5>1. Head(inbox) = inbox[1] /\ 1 \in DOMAIN inbox /\ DOMAIN inbox = 1..Len(inbox)
          BY <1>1, Shifted, Domain
        <5>2. PICK k \in DOMAIN inbox : k < 1
          BY <2>2, <4>1, <5>1 DEF Invariant, StatusOK
        <5> QED
          BY <5>1, <5>2
      <4> QED
        BY <4>1
    <3> QED
      BY <2>2, <3>1, <3>2
  <2> QED
    BY <2>1, <2>2
<1>3. refs' + (IF Head(inbox) \in Replies(Asking) THEN 1 ELSE 0)
        >= refs + (Cardinality(Hits(outbox', Asking)) - Cardinality(Hits(outbox, Asking)))
  <2>1. Cardinality(Hits(outbox', Asking)) = Cardinality(Hits(outbox, Asking))
        /\ Cardinality(Hits(outbox, Asking)) \in Nat /\ refs' = refs
    BY CopiesAre
  <2> QED
    BY <1>1, <2>1
<1>4. \A p : Cardinality(Hits(outbox', {Properties(p)}))
               <= Cardinality(Hits(outbox, {Properties(p)}))
  <2>1. \A H : Cardinality(Hits(outbox, H)) \in Nat
    BY CopiesAre
  <2>2. outbox' = outbox
    OBVIOUS
  <2> QED
    BY <2>1, <2>2
<1>5. outbox' = outbox /\ refs' = refs /\ fault' = fault
      /\ UNCHANGED <<service, calls, orphans, news, handlers, released>>
  OBVIOUS
<1> QED
  BY <1>1, <1>2, <1>3, <1>4, <1>5, HandlerStep

LEMMA DisconnectStep ==
    ASSUME Invariant, inbox # <<>>, inbox' = Tail(inbox),
           UNCHANGED <<service, calls, orphans, news>>, ServiceDisconnect(Head(inbox))
    PROVE  Invariant'
<1> DEFINE m == Head(inbox)
<1>1. /\ refs > 0 /\ Down(m) /\ connected' = FALSE /\ disconnects' = disconnects + 1
      /\ ready' = FALSE /\ Store(Emptied(Book))
      /\ UNCHANGED <<outbox, refs, released, handlers, fetching, fault>>
  BY DEF ServiceDisconnect, Down
<1>2. Fits(Emptied(Book), Left(m))
  BY LeftFits, EmptiedFits
<1>3. fetching' \in BOOLEAN
  BY <1>1 DEF Invariant, TypeOK
<1> QED
  BY <1>1, <1>2, <1>3, PlainStep

LEMMA StoredFits ==
    ASSUME Invariant, NEW D, D \subseteq Node, NEW a \in [D -> Val], StoreParsed(a), NEW m
    PROVE  \E b : Fits(b, Left(m)) /\ Store(b)
<1>1. PICK order \in SetToSeqs({n \in DOMAIN a : Lookup(Book, n) = 0}) :
         Store(Parsed(Book, a, order))
  BY DEF StoreParsed
<1>2. Fits(Book, Left(m))
  BY LeftFits
<1>3. Fits(Parsed(Book, a, order), Left(m))
  BY <1>2, ParsedFits
<1> QED
  BY <1>1, <1>3

LEMMA AddedStep ==
    ASSUME Invariant, inbox # <<>>, inbox' = Tail(inbox),
           UNCHANGED <<service, calls, orphans, news>>, InterfacesAdded(Head(inbox))
    PROVE  Invariant'
<1> DEFINE m == Head(inbox)
           a == [n \in {m.node} |-> m.value]
<1>1. /\ m.kind = "added" /\ StoreParsed(a)
      /\ UNCHANGED <<outbox, refs, released, handlers, connected, fetching,
                     disconnects, ready, fault>>
  BY DEF InterfacesAdded
<1>2. {m.node} \subseteq Node /\ m.value \in Val
  <2>1. m \in Message
    BY Shifted DEF Invariant, TypeOK
  <2> QED
    BY <1>1, <2>1, MessageType
<1>3. a \in [{m.node} -> Val]
  BY <1>2
<1>4. ~Risen(m)
  BY <1>1 DEF Risen
<1> HIDE DEF a, m
<1>5. PICK b : Fits(b, Left(m)) /\ Store(b)
  BY <1>1, <1>2, <1>3, StoredFits
<1>6. connected' \in BOOLEAN /\ fetching' \in BOOLEAN /\ ready' \in BOOLEAN
  BY <1>1 DEF Invariant, TypeOK
<1> QED
  BY <1>1, <1>4, <1>5, <1>6, PlainStep DEF m

LEMMA RemovedStep ==
    ASSUME Invariant, inbox # <<>>, inbox' = Tail(inbox),
           UNCHANGED <<service, calls, orphans, news>>, InterfacesRemoved(Head(inbox))
    PROVE  Invariant'
<1> DEFINE m == Head(inbox)
           i == Lookup(Book, m.node)
           b == IF i = 0 THEN Book ELSE Without(Book, i)
<1>1. /\ m.kind = "removed" /\ Store(b)
      /\ UNCHANGED <<outbox, refs, released, handlers, connected, fetching,
                     disconnects, ready, fault>>
  BY DEF InterfacesRemoved
<1>2. Fits(Book, Left(m))
  BY LeftFits
<1>3. i \in 0..Len(Book.proxies) /\ Len(Book.proxies) \in Nat
  BY <1>2, LookupIs, Domain DEF Fits
<1>4. Fits(b, Left(m))
  <2>1. CASE i = 0
    BY <1>2, <2>1
  <2>2. CASE i # 0
    <3>1. i \in 1..Len(Book.proxies)
      BY <1>3, <2>2
    <3> HIDE DEF i
    <3> QED
      BY <1>2, <2>2, <3>1, WithoutFits
  <2> QED
    BY <2>1, <2>2
<1>5. ~Risen(m)
  BY <1>1 DEF Risen
<1> HIDE DEF b, m
<1>6. connected' \in BOOLEAN /\ fetching' \in BOOLEAN /\ ready' \in BOOLEAN
  BY <1>1 DEF Invariant, TypeOK
<1> QED
  BY <1>1, <1>4, <1>5, <1>6, PlainStep DEF m

LEMMA ChangedStep ==
    ASSUME Invariant, inbox # <<>>, inbox' = Tail(inbox),
           UNCHANGED <<service, calls, orphans, news>>, PropertiesChanged(Head(inbox))
    PROVE  Invariant'
<1> DEFINE m == Head(inbox)
           q == [p \in DOMAIN proxy |->
                    IF proxy[p].linked /\ proxy[p].node = m.node
                    THEN [proxy[p] EXCEPT !.value = m.value] ELSE proxy[p]]
           b == [Book EXCEPT !.proxy = q]
<1>1. /\ m.kind = "changed" /\ proxy' = q
      /\ UNCHANGED <<outbox, refs, released, handlers, connected, fetching, proxies,
                     announced, disconnects, ready, fault>>
  BY DEF PropertiesChanged, shown
<1>2. m.value \in Val
  <2>1. m \in Message
    BY Shifted DEF Invariant, TypeOK
  <2> QED
    BY <1>1, <2>1, MessageType
<1>3. proxy \in Seq(Proxy) /\ \A p \in DOMAIN proxy : proxy[p] \in Proxy
  BY Domain DEF Invariant, TypeOK
<1>4. \A p \in DOMAIN proxy : q[p] \in Proxy /\ q[p].linked = proxy[p].linked
  BY <1>2, <1>3, ProxyFields
<1>5. q = [p \in DOMAIN proxy |-> q[p]]
  OBVIOUS
<1> HIDE DEF q
<1>6. q \in Seq(Proxy) /\ DOMAIN q = DOMAIN proxy
  BY <1>3, <1>4, <1>5, Mapped
<1>7. Fits(Book, Left(m))
  BY LeftFits
<1>8. Fits(b, Left(m)) /\ b.proxies = proxies /\ b.proxy = q /\ b.announced = announced
  BY <1>4, <1>6, <1>7, BookFields, ReproxiedFits
<1>9. Store(b)
  BY <1>1, <1>8 DEF Store
<1>10. ~Risen(m)
  BY <1>1 DEF Risen
<1> HIDE DEF b, m
<1>11. connected' \in BOOLEAN /\ fetching' \in BOOLEAN /\ ready' \in BOOLEAN
  BY <1>1 DEF Invariant, TypeOK
<1> QED
  BY <1>1, <1>8, <1>9, <1>10, <1>11, PlainStep DEF m

LEMMA ObjectsStep ==
    ASSUME Invariant, inbox # <<>>, inbox' = Tail(inbox),
           UNCHANGED <<service, calls, orphans, news>>, ManagedObjects(Head(inbox))
    PROVE  Invariant'
<1> DEFINE m == Head(inbox)
           D == {k \in Node : m.answer[k] # Absent}
           a == [n \in D |-> m.answer[n]]
<1>1. /\ m.kind = "reply" /\ m.call = Objects /\ fetching' = FALSE
      /\ UNCHANGED <<outbox, refs, released, handlers, connected, disconnects, fault>>
  BY DEF ManagedObjects
<1>2. ~Risen(m)
  BY <1>1 DEF Risen
<1>3. connected' \in BOOLEAN /\ fetching' \in BOOLEAN
  BY <1>1 DEF Invariant, TypeOK
<1>4. CASE m.answer = Failed
  <2>1. UNCHANGED <<proxies, proxy, announced, ready>>
    BY <1>4 DEF ManagedObjects
  <2>2. Fits(Book, Left(m)) /\ Store(Book)
    BY <2>1, LeftFits, BookFields DEF Store
  <2>3. ready' \in BOOLEAN
    BY <2>1 DEF Invariant, TypeOK
  <2> QED
    BY <1>1, <1>2, <1>3, <2>2, <2>3, PlainStep
<1>5. CASE m.answer # Failed
  <2>1. StoreParsed(a) /\ ready' = TRUE
    BY <1>5 DEF ManagedObjects
  <2>2. m.answer \in Contents
    <3>1. m \in Message
      BY Shifted DEF Invariant, TypeOK
    <3> QED
      BY <1>1, <1>5, <3>1, MessageType
  <2>3. D \subseteq Node /\ a \in [D -> Val]
    BY <2>2 DEF Contents
  <2> HIDE DEF a, D, m
  <2>4. PICK b : Fits(b, Left(m)) /\ Store(b)
    BY <2>1, <2>3, StoredFits
  <2> QED
    BY <1>1, <1>2, <1>3, <2>1, <2>4, PlainStep DEF m
<1> QED
  BY <1>4, <1>5

LEMMA IgnoredStep ==
    ASSUME Invariant, inbox # <<>>, inbox' = Tail(inbox),
           UNCHANGED <<service, calls, orphans, news>>, Ignored(Head(inbox))
    PROVE  Invariant'
<1> DEFINE m == Head(inbox)
<1>1. UNCHANGED <<outbox, refs, released, handlers, connected, fetching, proxies, proxy,
                  announced, disconnects, ready, fault>>
  BY DEF Ignored, client, shown
<1>2. Risen(m) => refs = 0
  BY DEF Ignored, Risen
<1>3. Fits(Book, Left(m)) /\ Store(Book)
  BY <1>1, LeftFits, BookFields DEF Store
<1>4. connected' \in BOOLEAN /\ fetching' \in BOOLEAN /\ ready' \in BOOLEAN
  BY <1>1 DEF Invariant, TypeOK
<1> QED
  BY <1>1, <1>2, <1>3, <1>4, PlainStep

LEMMA Unreferenced ==
    ASSUME Invariant, refs > 0, NEW b, NEW W, Fits(b, W), Unref(b)
    PROVE  \E e : /\ Fits(e, W) /\ Store(e)
                  /\ refs' \in Nat /\ refs' = refs - 1 /\ fetching' \in BOOLEAN
                  /\ disconnects' \in Nat /\ disconnects' <= 1
                  /\ refs' > 0 => disconnects' = disconnects
<1>1. /\ refs \in Nat /\ disconnects \in Nat /\ connected \in BOOLEAN
      /\ disconnects <= 1 /\ (connected => disconnects = 0)
  BY DEF Invariant, TypeOK, StatusOK
<1>2. CASE refs > 1
  <2>1. refs' = refs - 1 /\ Store(b) /\ fetching' = fetching /\ disconnects' = disconnects
    BY <1>2 DEF Unref
  <2>2. fetching' \in BOOLEAN
    BY <2>1 DEF Invariant, TypeOK
  <2>3. refs' \in Nat
    BY <1>1, <1>2, <2>1
  <2>4. disconnects' \in Nat /\ disconnects' <= 1
    BY <1>1, <2>1
  <2> QED
    BY <2>1, <2>2, <2>3, <2>4
<1>3. CASE ~(refs > 1)
  <2>1. /\ refs' = 0 /\ Store(Emptied(b)) /\ fetching' = FALSE
        /\ disconnects' = disconnects + (IF connected THEN 1 ELSE 0)
    BY <1>3 DEF Unref
  <2>2. refs' = refs - 1 /\ refs' \in Nat /\ ~(refs' > 0)
    BY <1>1, <1>3, <2>1
  <2>3. disconnects' \in Nat /\ disconnects' <= 1
    BY <1>1, <2>1
  <2>4. Fits(Emptied(b), W)
    BY EmptiedFits
  <2>5. fetching' \in BOOLEAN
    BY <2>1, Zenon
  <2> QED
    BY <2>1, <2>2, <2>3, <2>4, <2>5
<1> QED
  BY <1>2, <1>3

\* A client lives as long as answers to GetAll are to come.
LEMMA AskedAlive ==
    ASSUME Invariant, inbox # <<>>, Head(inbox).kind = "reply",
           Head(inbox).call.kind = "properties"
    PROVE  LET m == Head(inbox)
               p == m.call.proxy
           IN  /\ refs > 0 /\ m \in Replies(Asking) /\ p \in DOMAIN proxy
               /\ m.call = Properties(p) /\ m.answer \in {Failed} \union Val
               /\ SetFirst => proxy[p].linked /\ p \notin ToSet(proxies)
<1> DEFINE m == Head(inbox)
           p == m.call.proxy
<1>1. inbox \in Seq(Message) /\ m \in Message /\ m = inbox[1] /\ 1 \in DOMAIN inbox
  BY Shifted DEF Invariant, TypeOK
<1>2. /\ m = Reply(m.call, m.answer) /\ m.call \in ServiceCall
      /\ m.call # Objects => m.answer \in {Failed} \union Val
  BY <1>1, MessageType
<1>3. m.call # Objects /\ p \in DOMAIN proxy /\ m.call = Properties(p)
  <2>1. m.call.kind = "properties" /\ Objects.kind = "objects"
    BY Calls
  <2>2. m.call # Objects
    BY <2>1
  <2> QED
    BY <1>2, <2>2, CallType
<1>4. m.answer \in {Failed} \union Val
  BY <1>2, <1>3
<1>5. p \in Nat
  BY <1>3, Domain DEF Invariant, TypeOK
<1>6. \A H : m \in Replies(H) <=> m.call \in H
  <2>1. m.answer \in {Failed} \union Val \union Contents
    BY <1>4
  <2> HIDE DEF m
  <2>2. ASSUME NEW H PROVE Reply(m.call, m.answer) \in Replies(H) <=> m.call \in H
    BY <2>1 DEF Reply, Replies
  <2> QED
    BY <1>2, <2>2
<1>7. m \in Replies(Asking) /\ m \in Replies({Properties(p)})
  BY <1>3, <1>5, <1>6, AskingCalls
<1> HIDE DEF m, p
<1>8. ASSUME NEW H, m \in Replies(H) PROVE Copies(H) \in Nat /\ Copies(H) # 0
  <2>1. Cardinality(Hits(inbox, Replies(H))) # 0
    BY <1>1, <1>8, HitsNone
  <2>2. /\ Cardinality(Hits(outbox, H)) \in Nat /\ Cardinality(Hits(calls, H)) \in Nat
        /\ Cardinality(orphans \intersect H) \in Nat
        /\ Cardinality(Hits(inbox, Replies(H))) \in Nat
    BY CopiesAre
  <2> QED
    BY <2>1, <2>2 DEF Copies
<1>9. refs > 0
  <2>1. Copies(Asking) \in Nat /\ Copies(Asking) # 0
    BY <1>7, <1>8
  <2>2. refs \in Nat /\ refs >= Copies(Asking) + (IF released THEN 0 ELSE 1)
    BY DEF Invariant, TypeOK, RefsOK
  <2> QED
    BY <2>1, <2>2
<1>10. SetFirst => proxy[p].linked /\ p \notin ToSet(proxies)
  <2>1. Copies({Properties(p)}) # 0
    BY <1>7, <1>8
  <2> QED
    BY <1>3, <2>1 DEF Invariant, WaitingOK
<1> QED
  BY <1>3, <1>4, <1>7, <1>9, <1>10 DEF m, p

LEMMA PropertiesStep ==
    ASSUME Invariant, inbox # <<>>, inbox' = Tail(inbox),
           UNCHANGED <<service, calls, orphans, news>>, AllProperties(Head(inbox))
    PROVE  Invariant'
<1> DEFINE m == Head(inbox)
           p == m.call.proxy
           b == IF m.answer = Failed THEN Book ELSE [Book EXCEPT !.proxy[p].value = m.answer]
           W == Left(m)
<1>1. /\ m.kind = "reply" /\ m.call.kind = "properties"
      /\ UNCHANGED <<outbox, released, handlers, connected, ready>>
  BY DEF AllProperties
<1>2. /\ refs > 0 /\ m \in Replies(Asking) /\ p \in DOMAIN proxy
      /\ m.call = Properties(p) /\ m.answer \in {Failed} \union Val
      /\ SetFirst => proxy[p].linked /\ p \notin ToSet(proxies)
  BY <1>1, AskedAlive
<1>3. /\ outbox \in Seq({First} \union ServiceCall) /\ refs \in Nat
      /\ (connected /\ refs > 0 => disconnects = 0)
      /\ disconnects \in Nat /\ disconnects <= 1
      /\ proxy \in Seq(Proxy) /\ proxy[p] \in Proxy
      /\ DOMAIN proxy = 1..Len(proxy)
      /\ fault \in {"none", "nullClient", "freedProxy", "freedClient"}
      /\ (SetFirst => fault = "none")
  <2>1. proxy \in Seq(Proxy)
    BY DEF Invariant, TypeOK
  <2>2. proxy[p] \in Proxy /\ DOMAIN proxy = 1..Len(proxy)
    BY <1>2, <2>1, Domain
  <2> QED
    BY <2>1, <2>2 DEF Invariant, TypeOK, StatusOK
<1>4. Fits(Book, W) /\ p \notin W
  <2>1. p \notin W
    BY <1>1, <1>2 DEF Left
  <2> QED
    BY <2>1, LeftFits
<1>5. /\ Fits(b, W) /\ b.proxies = proxies /\ DOMAIN b.proxy = DOMAIN proxy
      /\ b.proxy[p].linked = proxy[p].linked
  <2>1. CASE m.answer = Failed
    BY <1>4, <2>1, BookFields
  <2>2. CASE m.answer # Failed
    <3> DEFINE x == [proxy[p] EXCEPT !.value = m.answer]
               q == [proxy EXCEPT ![p] = x]
    <3>1. x \in Proxy /\ x.linked = proxy[p].linked
      BY <1>2, <1>3, <2>2, ProxyFields
    <3>2. b = [Book EXCEPT !.proxy = q]
      BY <2>2, BookFields
    <3> HIDE DEF x
    <3>3. q \in Seq(Proxy) /\ DOMAIN q = DOMAIN proxy
      <4>1. p \in 1..Len(proxy)
        BY <1>2, <1>3
      <4> HIDE DEF p
      <4> QED
        BY <1>3, <3>1, <4>1, ExceptSeq
    <3>4. \A k \in DOMAIN proxy : q[k].linked = proxy[k].linked
      BY <3>1
    <3> HIDE DEF q, b
    <3>5. Fits(b, W) /\ b.proxies = proxies /\ b.proxy = q
      BY <1>4, <3>2, <3>3, <3>4, BookFields, ReproxiedFits
    <3> QED
      BY <1>2, <3>3, <3>4, <3>5
  <2> QED
    BY <2>1, <2>2
<1>6. /\ \A k : Cardinality(Hits(outbox', {Properties(k)}))
                  <= Cardinality(Hits(outbox, {Properties(k)}))
      /\ Cardinality(Hits(outbox', Asking)) = Cardinality(Hits(outbox, Asking))
      /\ Cardinality(Hits(outbox, Asking)) \in Nat
  <2>1. \A H : Cardinality(Hits(outbox, H)) \in Nat
    BY CopiesAre
  <2>2. outbox' = outbox
    BY <1>1
  <2> QED
    BY <2>1, <2>2
<1>7. ~Risen(m)
  BY <1>1 DEF Risen
<1>8. connected' \in BOOLEAN /\ ready' \in BOOLEAN /\ fetching \in BOOLEAN
  BY <1>1 DEF Invariant, TypeOK
<1>9. CASE proxy[p].linked
  <2> DEFINE l == IF p \in ToSet(proxies) THEN b ELSE Listed(b, <<p>>)
  <2>1. Unref(l) /\ fault' = fault
    BY <1>2, <1>9 DEF AllProperties
  <2>2. Fits(l, W)
    <3>1. CASE p \in ToSet(proxies)
      BY <1>5, <3>1
    <3>2. CASE p \notin ToSet(proxies)
      <4> HIDE DEF b, p, W
      <4>1. <<p>> \in Seq(DOMAIN b.proxy) /\ IsInjective(<<p>>) /\ ToSet(<<p>>) = {p}
        BY <1>2, <1>5 DEF IsInjective, ToSet
      <4>2. Fits(Listed(b, <<p>>), W)
        BY <1>4, <1>5, <1>9, <3>2, <4>1, ListedFits
      <4> QED
        BY <3>2, <4>2
    <3> QED
      BY <3>1, <3>2
  <2> HIDE DEF l
  <2>3. PICK e : /\ Fits(e, W) /\ Store(e)
                 /\ refs' \in Nat /\ refs' = refs - 1 /\ fetching' \in BOOLEAN
                 /\ disconnects' \in Nat /\ disconnects' <= 1
                 /\ refs' > 0 => disconnects' = disconnects
    BY <1>2, <2>1, <2>2, Unreferenced
  <2>4. refs' + (IF m \in Replies(Asking) THEN 1 ELSE 0)
          >= refs + (Cardinality(Hits(outbox', Asking)) - Cardinality(Hits(outbox, Asking)))
    BY <1>2, <1>3, <1>6, <2>3
  <2>5. /\ connected' /\ refs' > 0 => disconnects' = 0
        /\ disconnects' # 0 /\ refs' > 0 =>
              refs > 0 /\ ~Risen(m) /\ (Down(m) \/ disconnects # 0)
    BY <1>1, <1>2, <1>3, <1>7, <2>3
  <2> QED
    BY <1>1, <1>3, <1>6, <1>8, <2>1, <2>3, <2>4, <2>5, HandlerStep
<1>10. CASE ~proxy[p].linked
  <2>1. /\ fault' \in {"none", "nullClient", "freedProxy", "freedClient"}
        /\ UNCHANGED <<refs, proxies, proxy, fetching, announced, disconnects>>
    BY <1>2, <1>10 DEF AllProperties
  <2>2. ~SetFirst
    BY <1>2, <1>10
  <2>3. Store(Book)
    BY <2>1, BookFields DEF Store
  <2>4. refs' + (IF m \in Replies(Asking) THEN 1 ELSE 0)
          >= refs + (Cardinality(Hits(outbox', Asking)) - Cardinality(Hits(outbox, Asking)))
    BY <1>2, <1>3, <1>6, <2>1
  <2>5. /\ connected' /\ refs' > 0 => disconnects' = 0
        /\ disconnects' # 0 /\ refs' > 0 =>
              refs > 0 /\ ~Risen(m) /\ (Down(m) \/ disconnects # 0)
        /\ disconnects' \in Nat /\ disconnects' <= 1
    BY <1>1, <1>2, <1>3, <1>7, <2>1
  <2>6. refs' \in Nat /\ fetching' \in BOOLEAN
    BY <1>3, <1>8, <2>1
  <2> QED
    BY <1>1, <1>3, <1>4, <1>6, <1>8, <2>1, <2>2, <2>3, <2>4, <2>5, <2>6, HandlerStep
<1> QED
  BY <1>9, <1>10

-----------------------------------------------------------------------------
(* The user. *)

LEMMA SameStatus ==
    ASSUME TypeOK, StatusOK, UNCHANGED <<inbox, up, connected>>, disconnects' <= 1,
           refs' > 0 => refs > 0 /\ disconnects' = disconnects
    PROVE  StatusOK'
BY DEF StatusOK

\* Who has not given up the client's reference has a client.
LEMMA UserAlive ==
    ASSUME Invariant, ~released
    PROVE  refs > 0 /\ refs >= Copies(Asking) + 1
<1>1. refs \in Nat /\ Copies(Asking) \in Nat
  BY CopiesType DEF Invariant, RefsOK, TypeOK
<1>2. refs >= Copies(Asking) + 1
  BY DEF Invariant, RefsOK
<1> QED
  BY <1>1, <1>2

\* What a call of the user that makes no calls itself leaves alone
LEMMA UserStep ==
    ASSUME Invariant, UNCHANGED <<service, bus, inbox, handlers, connected, ready, fault>>,
           news' \in 0..MaxNews,
           NEW b, Fits(b, IF SetFirst THEN Waiting ELSE {}), Store(b),
           released' \in BOOLEAN, fetching' \in BOOLEAN,
           refs' \in Nat, refs' >= Copies(Asking) + (IF released' THEN 0 ELSE 1),
           disconnects' \in Nat, disconnects' <= 1,
           refs' > 0 => refs > 0 /\ disconnects' = disconnects
    PROVE  Invariant'
<1>1. UNCHANGED <<outbox, calls, orphans, up, content, events>>
  BY DEF bus, service
<1>2. TypeOK'
  <2>1. /\ handlers' \in {"unset", "set", "setFirst"} /\ calls' \in Seq(ServiceCall)
        /\ orphans' \subseteq ServiceCall /\ inbox' \in Seq(Message)
        /\ connected' \in BOOLEAN /\ ready' \in BOOLEAN
        /\ fault' \in {"none", "nullClient", "freedProxy", "freedClient"}
    BY <1>1 DEF Invariant, TypeOK
  <2>2. ServiceCall \subseteq ServiceCall'
    BY MoreCalls DEF Fits, Store
  <2>3. outbox' \in Seq({First} \union ServiceCall')
    <3>1. {First} \union ServiceCall \subseteq {First} \union ServiceCall'
      BY <2>2
    <3> QED
      BY <1>1, <3>1, SeqMonotonic DEF Invariant, TypeOK
  <2> QED
    BY <2>1, <2>3, BookedType
<1>3. StatusOK'
  BY <1>1, SameStatus DEF Invariant
<1>4. \A H : Copies(H)' = Copies(H)
  BY <1>1 DEF Copies
<1>5. RefsOK'
  <2>1. Copies(Asking)' = Copies(Asking)
    BY <1>4
  <2> QED
    BY <1>1, <2>1 DEF RefsOK, Invariant
<1>6. ASSUME SetFirst'
      PROVE  WaitingOK' /\ fault' = "none" /\ announced' = ToSet(proxies')
  <2>1. SetFirst /\ WaitingOK /\ fault = "none"
    BY <1>6 DEF SetFirst, Invariant
  <2>2. announced' = ToSet(proxies')
    BY <2>1 DEF Fits, Store
  <2>3. ASSUME NEW p \in DOMAIN proxy'
        PROVE  /\ Copies({Properties(p)})' <= 1
               /\ Copies({Properties(p)})' # 0 => proxy'[p].linked /\ p \notin ToSet(proxies')
    <3>1. Copies({Properties(p)})' = Copies({Properties(p)})
      BY <1>4
    <3>2. CASE p \in DOMAIN proxy
      <4>1. Copies({Properties(p)}) <= 1
        BY <2>1, <3>2 DEF WaitingOK
      <4>2. Copies({Properties(p)}) # 0 => p \in Waiting
        BY <3>2 DEF Waiting
      <4>3. Fits(b, Waiting)
        BY <2>1
      <4>4. p \in Waiting => proxy'[p].linked /\ p \notin ToSet(proxies')
        BY <4>3 DEF Fits, Store
      <4> QED
        BY <3>1, <4>1, <4>2, <4>4
    <3>3. CASE p \notin DOMAIN proxy
      <4>1. Copies({Properties(p)}) = 0
        BY <3>3, NoneForOthers DEF Invariant, RefsOK
      <4> QED
        BY <3>1, <4>1
    <3> QED
      BY <3>2, <3>3
  <2> QED
    BY <2>1, <2>2, <2>3 DEF WaitingOK
<1> QED
  BY <1>2, <1>3, <1>5, <1>6 DEF Invariant

LEMMA AllFits ==
    ASSUME Invariant
    PROVE  Fits(Book, IF SetFirst THEN Waiting ELSE {})
<1>1. CASE SetFirst
  <2>1. Waiting \subseteq DOMAIN proxy
    BY DEF Waiting
  <2>2. Fits(Book, Waiting)
    BY <1>1, <2>1, WaitingFits, BookFits
  <2> QED
    BY <1>1, <2>2
<1>2. CASE ~SetFirst
  <2>1. Fits(Book, {})
    BY BookFits
  <2> QED
    BY <1>2, <2>1
<1> QED
  BY <1>1, <1>2

LEMMA ClientUnrefStep == Invariant /\ ClientUnref => Invariant'
<1> SUFFICES ASSUME Invariant, ClientUnref PROVE Invariant'
  OBVIOUS
<1> DEFINE W == IF SetFirst THEN Waiting ELSE {}
<1>1. /\ ~released /\ released' = TRUE /\ Unref(Book)
      /\ UNCHANGED <<service, bus, inbox, handlers, connected, news, ready, fault>>
  BY DEF ClientUnref
<1>2. refs > 0 /\ refs >= Copies(Asking) + 1 /\ refs \in Nat /\ Copies(Asking) \in Nat
  BY <1>1, UserAlive, CopiesType DEF Invariant, TypeOK, RefsOK
<1>3. Fits(Book, W)
  BY AllFits
<1> HIDE DEF W
<1>4. PICK e : /\ Fits(e, W) /\ Store(e)
               /\ refs' \in Nat /\ refs' = refs - 1 /\ fetching' \in BOOLEAN
               /\ disconnects' \in Nat /\ disconnects' <= 1
               /\ refs' > 0 => disconnects' = disconnects
  BY <1>1, <1>2, <1>3, Unreferenced
<1>5. refs' >= Copies(Asking) + (IF released' THEN 0 ELSE 1)
  BY <1>1, <1>2, <1>4
<1>6. released' \in BOOLEAN
  BY <1>1, Zenon
<1>7. news' \in 0..MaxNews
  BY <1>1 DEF Invariant, TypeOK
<1> QED
  BY <1>1, <1>2, <1>4, <1>5, <1>6, <1>7, UserStep DEF W

LEMMA ProxyUnrefStep ==
    ASSUME Invariant, NEW p \in DOMAIN proxy, ProxyUnref(p)
    PROVE  Invariant'
<1> DEFINE W == IF SetFirst THEN Waiting ELSE {}
           x == [proxy[p] EXCEPT !.held = FALSE]
           q == [proxy EXCEPT ![p] = x]
           b == [Book EXCEPT !.proxy = q]
<1>1. /\ proxy' = q
      /\ UNCHANGED <<service, bus, inbox, refs, released, handlers, connected,
                     fetching, proxies, news, announced, disconnects, ready, fault>>
  BY DEF ProxyUnref, shown
<1>2. proxy \in Seq(Proxy) /\ proxy[p] \in Proxy /\ p \in 1..Len(proxy)
  BY Domain DEF Invariant, TypeOK
<1>3. x \in Proxy /\ x.linked = proxy[p].linked
  BY <1>2, ProxyFields
<1> HIDE DEF x
<1>4. q \in Seq(Proxy) /\ DOMAIN q = DOMAIN proxy
  BY <1>2, <1>3, ExceptSeq
<1>5. \A k \in DOMAIN proxy : q[k].linked = proxy[k].linked
  BY <1>3
<1> HIDE DEF q
<1>6. Fits(Book, W)
  BY AllFits
<1>7. Fits(b, W) /\ b.proxies = proxies /\ b.proxy = q /\ b.announced = announced
  BY <1>4, <1>5, <1>6, BookFields, ReproxiedFits
<1>8. Store(b)
  BY <1>1, <1>7 DEF Store
<1> HIDE DEF b, W
<1>9. /\ refs' \in Nat /\ refs' >= Copies(Asking) + (IF released' THEN 0 ELSE 1)
      /\ disconnects' \in Nat /\ disconnects' <= 1
      /\ refs' > 0 => refs > 0 /\ disconnects' = disconnects
  BY <1>1 DEF Invariant, TypeOK, RefsOK, StatusOK
<1>10. released' \in BOOLEAN /\ fetching' \in BOOLEAN /\ news' \in 0..MaxNews
  BY <1>1 DEF Invariant, TypeOK
<1> QED
  BY <1>1, <1>7, <1>8, <1>9, <1>10, UserStep DEF W

LEMMA SetHandlersStep == Invariant /\ SetProxyHandlers => Invariant'
<1> SUFFICES ASSUME Invariant, SetProxyHandlers PROVE Invariant'
  OBVIOUS
<1>1. /\ ~SetFirst /\ handlers' = "set" /\ GetManagedObjects(connected, TRUE)
      /\ UNCHANGED <<service, calls, orphans, inbox, released, connected, proxies,
                     proxy, news, announced, disconnects, ready, fault>>
  BY DEF SetProxyHandlers, Handled, SetFirst, shown
<1>2. connected \in BOOLEAN /\ TRUE \in BOOLEAN
  BY DEF Invariant, TypeOK
<1>3. /\ outbox' \in Seq({First} \union ServiceCall) /\ fetching' \in BOOLEAN
      /\ refs' \in Nat /\ refs' = refs
      /\ refs' >= refs + (Cardinality(Hits(outbox', Asking))
                          - Cardinality(Hits(outbox, Asking)))
  BY <1>1, <1>2, Requests
<1>4. Fits(Book, {}) /\ Store(Book)
  BY <1>1, BookFits, BookFields DEF Store
<1>5. TypeOK'
  <2>1. ServiceCall' = ServiceCall
    BY <1>1, SameCalls
  <2>2. outbox' \in Seq({First} \union ServiceCall')
    BY <1>3, <2>1
  <2>3. /\ calls' \in Seq(ServiceCall) /\ orphans' \subseteq ServiceCall
        /\ inbox' \in Seq(Message) /\ released' \in BOOLEAN /\ connected' \in BOOLEAN
        /\ ready' \in BOOLEAN /\ news' \in 0..MaxNews /\ disconnects' \in Nat
        /\ fault' \in {"none", "nullClient", "freedProxy", "freedClient"}
    BY <1>1 DEF Invariant, TypeOK
  <2>4. UNCHANGED service /\ handlers' \in {"unset", "set", "setFirst"}
    BY <1>1
  <2> QED
    BY <1>3, <1>4, <2>2, <2>3, <2>4, BookedType
<1>6. StatusOK'
  <2>1. UNCHANGED <<inbox, up, connected>> /\ disconnects' = disconnects
    BY <1>1 DEF service
  <2> QED
    BY <1>3, <2>1, SameStatus DEF Invariant, StatusOK
<1>7. RefsOK'
  <2>1. orphans' = orphans /\ inbox' = inbox /\ calls' = calls /\ released' = released
    BY <1>1
  <2>2. /\ Cardinality(Hits(outbox', Asking)) \in Nat
        /\ Cardinality(Hits(outbox, Asking)) \in Nat /\ Cardinality(Hits(calls, Asking)) \in Nat
        /\ Cardinality(orphans \intersect Asking) \in Nat
        /\ Cardinality(Hits(inbox, Replies(Asking))) \in Nat
    <3>1. IsFiniteSet(orphans')
      BY <2>1 DEF Invariant, RefsOK
    <3>2. Cardinality(Hits(outbox', Asking)) \in Nat
      BY <1>5, <3>1, CopiesTypeNext
    <3> QED
      BY <3>2, CopiesAre
  <2>3. Copies(Asking)' = Cardinality(Hits(outbox', Asking)) + Cardinality(Hits(calls, Asking))
                          + Cardinality(orphans \intersect Asking)
                          + Cardinality(Hits(inbox, Replies(Asking)))
    BY <2>1 DEF Copies
  <2>4. refs \in Nat /\ refs >= Copies(Asking) + (IF released THEN 0 ELSE 1)
        /\ IsFiniteSet(orphans)
    BY DEF Invariant, TypeOK, RefsOK
  <2>5. refs' >= Copies(Asking)' + (IF released THEN 0 ELSE 1)
    BY <1>3, <2>2, <2>3, <2>4 DEF Copies
  <2> QED
    BY <2>1, <2>4, <2>5 DEF RefsOK
<1>8. ~SetFirst'
  BY <1>1 DEF SetFirst
<1> QED
  BY <1>5, <1>6, <1>7, <1>8 DEF Invariant

LEMMA ProxyNewStep ==
    ASSUME Invariant, NEW n \in Node, ProxyNew(n)
    PROVE  Invariant'
<1> DEFINE W == IF SetFirst THEN Waiting ELSE {}
           i == Lookup(Book, n)
<1>1. /\ ~released /\ news' \in 0..MaxNews
      /\ UNCHANGED <<service, calls, orphans, inbox, released, handlers, connected,
                     fetching, proxies, announced, disconnects, ready, fault>>
  BY ClientAssumption DEF ProxyNew, Invariant, TypeOK, shown
<1>2. /\ proxy \in Seq(Proxy) /\ proxies \in Seq(DOMAIN proxy) /\ Len(proxy) \in Nat
      /\ DOMAIN proxy = 1..Len(proxy) /\ outbox \in Seq({First} \union ServiceCall)
      /\ released' \in BOOLEAN /\ fetching' \in BOOLEAN /\ refs \in Nat
  <2>1. /\ proxy \in Seq(Proxy) /\ proxies \in Seq(DOMAIN proxy)
        /\ outbox \in Seq({First} \union ServiceCall)
        /\ released' \in BOOLEAN /\ fetching' \in BOOLEAN /\ refs \in Nat
    BY <1>1 DEF Invariant, TypeOK
  <2> QED
    BY <2>1, Domain
<1>3. refs > 0 /\ refs >= Copies(Asking) + 1
  BY <1>1, UserAlive
<1>4. Fits(Book, W)
  BY AllFits
<1>5. i \in 0..Len(proxies) /\ Len(proxies) \in Nat /\ DOMAIN proxies = 1..Len(proxies)
  <2>1. Book.proxies \in Seq(DOMAIN proxy) /\ Book.proxies = proxies
    BY <1>2, BookFields
  <2> QED
    BY <1>2, <2>1, LookupIs, Domain
<1>6. CASE i # 0
  <2> DEFINE k == proxies[i]
             x == [proxy[k] EXCEPT !.held = TRUE]
             q == [proxy EXCEPT ![k] = x]
             b == [Book EXCEPT !.proxy = q]
  <2>1. proxy' = q /\ UNCHANGED <<outbox, refs>>
    BY <1>6 DEF ProxyNew
  <2>2. k \in 1..Len(proxy) /\ k \in DOMAIN proxy /\ proxy[k] \in Proxy
    <3>1. k \in DOMAIN proxy
      <4>1. i \in 1..Len(proxies)
        BY <1>5, <1>6
      <4> HIDE DEF i
      <4> QED
        BY <1>2, <4>1, Domain
    <3> HIDE DEF k
    <3> QED
      BY <1>2, <3>1, Domain
  <2> HIDE DEF k, i
  <2>3. x \in Proxy /\ x.linked = proxy[k].linked
    BY <2>2, ProxyFields
  <2> HIDE DEF x
  <2>4. q \in Seq(Proxy) /\ DOMAIN q = DOMAIN proxy
    BY <1>2, <2>2, <2>3, ExceptSeq
  <2>5. \A p \in DOMAIN proxy : q[p].linked = proxy[p].linked
    BY <2>3
  <2> HIDE DEF q, W
  <2>6. Fits(b, W) /\ b.proxies = proxies /\ b.proxy = q /\ b.announced = announced
    BY <1>4, <2>4, <2>5, BookFields, ReproxiedFits
  <2>7. Store(b)
    BY <1>1, <2>1, <2>6 DEF Store
  <2> HIDE DEF b
  <2>8. /\ refs' \in Nat /\ refs' >= Copies(Asking) + (IF released' THEN 0 ELSE 1)
        /\ disconnects' \in Nat /\ disconnects' <= 1
        /\ refs' > 0 => refs > 0 /\ disconnects' = disconnects
    BY <1>1, <2>1 DEF Invariant, TypeOK, RefsOK, StatusOK
  <2>9. UNCHANGED <<service, bus, inbox, handlers, connected, ready, fault>>
    BY <1>1, <2>1 DEF bus
  <2> QED
    BY <1>1, <1>2, <2>6, <2>7, <2>8, <2>9, UserStep DEF W
<1>7. CASE i = 0
  <2> DEFINE l == Len(proxy) + 1
             x == NewProxy(n, Absent, TRUE)
             q == Append(proxy, x)
             b == [Book EXCEPT !.proxy = q]
             c == Properties(l)
  <2>1. proxy' = q /\ outbox' = Append(outbox, c) /\ refs' = refs + 1
    BY <1>7 DEF ProxyNew
  <2> HIDE DEF W, i
  <2>2. x \in Proxy /\ x.linked
    BY DEF NewProxy, Proxy
  <2> HIDE DEF x
  <2>3. /\ q \in Seq(Proxy) /\ DOMAIN q = 1..l /\ q[l] = x /\ l \in Nat
        /\ \A p \in DOMAIN proxy : q[p] = proxy[p]
        /\ l \notin DOMAIN proxy /\ l \in DOMAIN q
    <3>1. /\ q \in Seq(Proxy) /\ Len(q) = Len(proxy) + 1 /\ q[Len(proxy) + 1] = x
          /\ \A p \in 1..Len(proxy) : q[p] = proxy[p]
      BY <1>2, <2>2, AppendProperties
    <3>2. DOMAIN q = 1..Len(q)
      BY <3>1, Domain
    <3> HIDE DEF q
    <3> QED
      BY <1>2, <3>1, <3>2
  <2> HIDE DEF q
  <2>4. DOMAIN proxy \subseteq DOMAIN q
    BY <1>2, <2>3
  <2>5. Fits(b, W) /\ b.proxies = proxies /\ b.proxy = q /\ b.announced = announced
    BY <1>4, <2>3, <2>4, BookFields, ReproxiedFits
  <2>6. Store(b)
    BY <1>1, <2>1, <2>5 DEF Store
  <2> HIDE DEF b
  <2>7. ServiceCall \subseteq ServiceCall' /\ c \in ServiceCall' /\ c \notin {First} \union ServiceCall
    <3>1. ServiceCall \subseteq ServiceCall'
      BY <2>1, <2>4, MoreCalls
    <3>2. c \in ServiceCall'
      BY <2>1, <2>3 DEF ServiceCall
    <3>3. c \notin {First} \union ServiceCall
      <4>1. c # First /\ c # Objects /\ \A p : c = Properties(p) => p = l
        BY Calls
      <4> QED
        BY <2>3, <4>1 DEF ServiceCall
    <3> QED
      BY <3>1, <3>2, <3>3
  <2> HIDE DEF c
  <2>8. outbox \in Seq({First} \union ServiceCall') /\ outbox' \in Seq({First} \union ServiceCall')
    <3>1. {First} \union ServiceCall \subseteq {First} \union ServiceCall'
      BY <2>7
    <3>2. outbox \in Seq({First} \union ServiceCall')
      BY <1>2, <3>1, SeqMonotonic
    <3> QED
      BY <2>1, <2>7, <3>2, AppendProperties
  <2>9. TypeOK'
    <3>1. /\ calls' \in Seq(ServiceCall) /\ orphans' \subseteq ServiceCall
          /\ inbox' \in Seq(Message) /\ connected' \in BOOLEAN
          /\ ready' \in BOOLEAN /\ disconnects' \in Nat
          /\ fault' \in {"none", "nullClient", "freedProxy", "freedClient"}
          /\ handlers' \in {"unset", "set", "setFirst"}
      BY <1>1 DEF Invariant, TypeOK
    <3>2. UNCHANGED service /\ refs' \in Nat
      BY <1>1, <1>2, <2>1
    <3> QED
      BY <1>1, <1>2, <2>5, <2>6, <2>8, <3>1, <3>2, BookedType
  <2>10. StatusOK'
    <3>1. UNCHANGED <<inbox, up, connected>> /\ disconnects' = disconnects
      BY <1>1 DEF service
    <3> QED
      BY <1>3, <3>1, SameStatus DEF Invariant, StatusOK
  <2>11. IsFiniteSet(orphans')
    BY <1>1 DEF Invariant, RefsOK
  <2>12. \A H : Copies(H) \in Nat /\ Copies(H)' = Copies(H) + (IF c \in H THEN 1 ELSE 0)
    <3>1. ASSUME NEW H
          PROVE  Copies(H) \in Nat /\ Copies(H)' = Copies(H) + (IF c \in H THEN 1 ELSE 0)
      <4>1. Cardinality(Hits(outbox', H))
              = Cardinality(Hits(outbox, H)) + (IF c \in H THEN 1 ELSE 0)
        BY <2>1, <2>7, <2>8, HitsAppend
      <4>2. calls' = calls /\ orphans' = orphans /\ inbox' = inbox
        BY <1>1
      <4> QED
        BY <4>1, <4>2, CopiesAre DEF Copies
    <3> QED
      BY <3>1
  <2>13. RefsOK'
    <3>1. Copies(Asking) \in Nat
          /\ Copies(Asking)' = Copies(Asking) + (IF c \in Asking THEN 1 ELSE 0)
      BY <2>12
    <3>2. refs' >= Copies(Asking)' + 1
      BY <1>2, <1>3, <2>1, <3>1
    <3>3. released' = FALSE
      BY <1>1 DEF Invariant, TypeOK
    <3> QED
      BY <2>11, <3>2, <3>3 DEF RefsOK
  <2>14. ASSUME SetFirst'
         PROVE  WaitingOK' /\ fault' = "none" /\ announced' = ToSet(proxies')
    <3>1. SetFirst /\ WaitingOK /\ fault = "none" /\ announced = ToSet(proxies)
      BY <1>1, <2>14 DEF SetFirst, Invariant
    <3>2. ASSUME NEW p \in DOMAIN proxy'
          PROVE  /\ Copies({Properties(p)})' <= 1
                 /\ Copies({Properties(p)})' # 0 =>
                       proxy'[p].linked /\ p \notin ToSet(proxies')
      <4>1. Copies({Properties(p)})' = Copies({Properties(p)})
                                       + (IF c = Properties(p) THEN 1 ELSE 0)
            /\ Copies({Properties(p)}) \in Nat
        <5>1. c \in {Properties(p)} <=> c = Properties(p)
          OBVIOUS
        <5> QED
          BY <2>12, <5>1
      <4>2. c = Properties(p) <=> p = l
        BY Calls DEF c
      <4>3. CASE p = l
        <5>1. Copies({Properties(p)}) = 0
          BY <2>3, <4>3, NoneForOthers DEF Invariant, RefsOK
        <5>2. Copies({Properties(p)})' = 1
          BY <4>1, <4>2, <4>3, <5>1
        <5>3. proxy'[p].linked
          BY <2>1, <2>2, <2>3, <4>3
        <5>4. p \notin ToSet(proxies')
          <6>1. ToSet(proxies) \subseteq DOMAIN proxy
            BY <1>2, Domain
          <6> QED
            BY <1>1, <2>3, <4>3, <6>1
        <5> QED
          BY <5>2, <5>3, <5>4
      <4>4. CASE p # l
        <5>1. p \in DOMAIN proxy /\ proxy'[p] = proxy[p] /\ proxies' = proxies
          BY <1>1, <1>2, <2>1, <2>3, <4>4
        <5>2. Copies({Properties(p)})' = Copies({Properties(p)})
          BY <4>1, <4>2, <4>4
        <5> QED
          BY <3>1, <5>1, <5>2 DEF WaitingOK
      <4> QED
        BY <4>3, <4>4
    <3>3. fault' = "none" /\ announced' = ToSet(proxies')
      BY <1>1, <3>1
    <3> QED
      BY <3>2, <3>3 DEF WaitingOK
  <2> QED
    BY <2>9, <2>10, <2>13, <2>14 DEF Invariant
<1> QED
  BY <1>6, <1>7

-----------------------------------------------------------------------------
(* The theorems. *)

LEMMA Starts == Init => Invariant
<1> SUFFICES ASSUME Init PROVE Invariant
  OBVIOUS
<1>1. /\ up \in BOOLEAN /\ content \in Contents /\ events = 0 /\ inbox = <<>>
      /\ outbox = <<First>> /\ calls = <<>> /\ orphans = {} /\ refs = 1
      /\ released = FALSE /\ handlers \in {"setFirst", "unset"}
      /\ connected = FALSE /\ fetching = FALSE
      /\ proxies = <<>> /\ proxy = <<>> /\ news = 0
      /\ announced = {} /\ disconnects = 0 /\ ready = FALSE /\ fault = "none"
  BY DEF Init, Contents, Nothing
<1>2. outbox \in Seq({First} \union ServiceCall) /\ calls \in Seq(ServiceCall)
      /\ orphans \subseteq ServiceCall /\ inbox \in Seq(Message)
  BY <1>1
<1>3. /\ proxy \in Seq(Proxy) /\ proxies \in Seq(DOMAIN proxy) /\ IsInjective(proxies)
      /\ ToSet(proxies) = {} /\ DOMAIN proxy = {}
  BY <1>1 DEF IsInjective, ToSet
<1>4. TypeOK
  <2>1. released \in BOOLEAN /\ connected \in BOOLEAN /\ fetching \in BOOLEAN
        /\ ready \in BOOLEAN
    BY <1>1, Zenon
  <2>2. events \in 0..MaxEvents /\ news \in 0..MaxNews /\ refs \in Nat /\ disconnects \in Nat
    BY <1>1, ClientAssumption
  <2>3. announced \subseteq DOMAIN proxy /\ handlers \in {"unset", "set", "setFirst"}
        /\ fault \in {"none", "nullClient", "freedProxy", "freedClient"}
        /\ \A p \in ToSet(proxies) : proxy[p].linked
    BY <1>1, <1>3
  <2> QED
    BY <1>1, <1>2, <1>3, <2>1, <2>2, <2>3 DEF TypeOK
<1>5. StatusOK
  <2>1. DOMAIN inbox = {}
    BY <1>1
  <2> QED
    BY <1>1, <2>1 DEF StatusOK
<1>6. RefsOK
  <2>1. IsFiniteSet(orphans) /\ Cardinality(orphans \intersect Asking) = 0
    BY <1>1, FS_EmptySet
  <2>2. Cardinality(Hits(outbox, Asking)) = 0
    <3>1. Cardinality(Hits(<<First>>, Asking)) = IF First \in Asking THEN 1 ELSE 0
      BY HitsOne
    <3> QED
      BY <1>1, <3>1, AskingCalls
  <2>3. Cardinality(Hits(calls, Asking)) = 0
    <3>1. \A i \in DOMAIN calls : calls[i] \notin Asking
      BY <1>1
    <3> QED
      BY <1>2, <3>1, HitsNone
  <2>4. Cardinality(Hits(inbox, Replies(Asking))) = 0
    <3>1. \A i \in DOMAIN inbox : inbox[i] \notin Replies(Asking)
      BY <1>1
    <3> QED
      BY <1>2, <3>1, HitsNone
  <2>5. Copies(Asking) = 0
    BY <2>1, <2>2, <2>3, <2>4 DEF Copies
  <2> QED
    BY <1>1, <2>1, <2>5 DEF RefsOK
<1>7. WaitingOK
  BY <1>3 DEF WaitingOK
<1> QED
  BY <1>1, <1>3, <1>4, <1>5, <1>6, <1>7 DEF Invariant

LEMMA DispatchStep == Invariant /\ Dispatch => Invariant'
<1> SUFFICES ASSUME Invariant, Dispatch PROVE Invariant'
  OBVIOUS
<1> DEFINE m == Head(inbox)
<1>1. inbox # <<>> /\ inbox' = Tail(inbox) /\ UNCHANGED <<service, calls, orphans, news>>
  BY DEF Dispatch
<1>2. CASE ServiceConnect(m)
  BY <1>1, <1>2, ConnectStep
<1>3. CASE ServiceDisconnect(m)
  BY <1>1, <1>3, DisconnectStep
<1>4. CASE InterfacesAdded(m)
  BY <1>1, <1>4, AddedStep
<1>5. CASE InterfacesRemoved(m)
  BY <1>1, <1>5, RemovedStep
<1>6. CASE PropertiesChanged(m)
  BY <1>1, <1>6, ChangedStep
<1>7. CASE ManagedObjects(m)
  BY <1>1, <1>7, ObjectsStep
<1>8. CASE AllProperties(m)
  BY <1>1, <1>8, PropertiesStep
<1>9. CASE Ignored(m)
  BY <1>1, <1>9, IgnoredStep
<1> QED
  BY <1>2, <1>3, <1>4, <1>5, <1>6, <1>7, <1>8, <1>9 DEF Dispatch

LEMMA Stutters == Invariant /\ UNCHANGED vars => Invariant'
<1> SUFFICES ASSUME Invariant, UNCHANGED vars PROVE Invariant'
  OBVIOUS
<1>1. /\ UNCHANGED <<service, bus, inbox, handlers, connected, ready, fault, released,
                     fetching, refs, disconnects, news, proxies, proxy, announced>>
  BY DEF vars, shown
<1>2. Fits(Book, IF SetFirst THEN Waiting ELSE {}) /\ Store(Book)
  BY <1>1, AllFits, BookFields DEF Store
<1>3. /\ news' \in 0..MaxNews /\ released' \in BOOLEAN /\ fetching' \in BOOLEAN
      /\ refs' \in Nat /\ refs' >= Copies(Asking) + (IF released' THEN 0 ELSE 1)
      /\ disconnects' \in Nat /\ disconnects' <= 1
      /\ refs' > 0 => refs > 0 /\ disconnects' = disconnects
  BY <1>1 DEF Invariant, TypeOK, RefsOK, StatusOK
<1> QED
  BY <1>1, <1>2, <1>3, UserStep

LEMMA Steps == Invariant /\ [Next]_vars => Invariant'
<1> SUFFICES ASSUME Invariant, [Next]_vars PROVE Invariant'
  OBVIOUS
<1>1. CASE Service
  <2>1. CASE ServiceUp
    BY <2>1, UpStep
  <2>2. CASE ServiceExits
    BY <2>2, ExitsStep
  <2>3. CASE \E stays \in BOOLEAN : ServiceReplaced(stays)
    BY <2>3, ReplacedStep
  <2>4. CASE \E n \in Node, v \in Val \union {Absent} : ServiceChanges(n, v)
    BY <2>4, ChangesStep
  <2> QED
    BY <1>1, <2>1, <2>2, <2>3, <2>4 DEF Service
<1>2. CASE User
  <2>1. CASE SetProxyHandlers
    BY <2>1, SetHandlersStep
  <2>2. CASE \E n \in Node : ProxyNew(n)
    BY <2>2, ProxyNewStep
  <2>3. CASE \E p \in DOMAIN proxy : ProxyUnref(p)
    BY <2>3, ProxyUnrefStep
  <2>4. CASE ClientUnref
    BY <2>4, ClientUnrefStep
  <2> QED
    BY <1>2, <2>1, <2>2, <2>3, <2>4 DEF User
<1>3. CASE Dispatch
  BY <1>3, DispatchStep
<1>4. CASE BusRoutes
  BY <1>4, RoutesStep
<1>5. CASE ServiceAnswers
  BY <1>5, AnswersStep
<1>6. CASE \E c \in orphans : OrphanFails(c)
  BY <1>6, OrphanStep
<1>7. CASE UNCHANGED vars
  BY <1>7, Stutters
<1> QED
  BY <1>1, <1>2, <1>3, <1>4, <1>5, <1>6, <1>7 DEF Next

\* The lists, calls and messages are what they should be; proxy_list has no proxy
\* twice and none without its client (client.c:300, client.c:430-451).
THEOREM TypeCorrect == Spec => []TypeOK
<1>1. Invariant => TypeOK
  BY DEF Invariant
<1> QED
  BY <1>1, Starts, Steps, PTL DEF Spec

\* Whatever the service and the user do, the disconnect function is called once
\* between two calls of the connect function, and on the way out only if it was
\* not called before (client.c:1296).
THEOREM DisconnectCorrect == Spec => []DisconnectReportedOnce
<1>1. Invariant => DisconnectReportedOnce
  BY DEF Invariant, StatusOK, DisconnectReportedOnce
<1> QED
  BY <1>1, Starts, Steps, PTL DEF Spec

\* A user who set the handlers first of all has been told of exactly the proxies
\* in the list, and of the end of all others (client.c:430-451).
THEOREM AnnouncedCorrect == Spec => []AnnouncedAreListed
<1>1. Invariant => AnnouncedAreListed
  BY DEF Invariant, AnnouncedAreListed, SetFirst
<1> QED
  BY <1>1, Starts, Steps, PTL DEF Spec

\* With such a user no reply reaches a freed proxy, a proxy without its client,
\* or a freed client (client.c:280-310).
THEOREM FaultCorrect == Spec => []NoFault
<1>1. Invariant => NoFault
  BY DEF Invariant, NoFault, SetFirst
<1> QED
  BY <1>1, Starts, Steps, PTL DEF Spec

-----------------------------------------------------------------------------
(* What the client makes of it all, when the service answers all calls and *)
(* everybody observes the rules.                                           *)

Undisturbed == Rule \subseteq Rules /\ ~MayFail

\* The listed proxies for n, and: do they show n with value v, or as Absent?
Known(n) == {p \in ToSet(proxies) : proxy[p].node = n}
Shows(n, v) ==
    IF v = Absent THEN Known(n) = {}
    ELSE \E p \in Known(n) : Known(n) = {p} /\ proxy[p].value = v

\* The client knows part of contents c and nothing else; it knows all of it.
Sound(c) == \A n \in Node : Shows(n, Absent) \/ Shows(n, c[n])
Exact(c) == \A n \in Node : Shows(n, c[n])

\* Only GetManagedObjects is called, and it is out while the client waits for it.
Orderly ==
    /\ SetFirst /\ orphans = {}
    /\ refs = IF released THEN 0 ELSE 1
    /\ ~up => content = Nothing
    /\ outbox \in Seq({First, Objects}) /\ calls \in Seq({Objects})
    /\ \A i \in DOMAIN inbox : inbox[i].kind = "reply" => inbox[i].call = Objects
    /\ refs > 0 => Copies({Objects}) = IF fetching THEN 1 ELSE 0

\* When m was sent, the contents had just changed from c to d.
Tells(m, c, d) ==
    /\ Risen(m) => c = Nothing
    /\ Down(m) => d = Nothing
    /\ m.kind = "added" => c[m.node] = Absent /\ d = [c EXCEPT ![m.node] = m.value]
    /\ m.kind = "changed" => c[m.node] # Absent /\ d = [c EXCEPT ![m.node] = m.value]
    /\ m.kind = "removed" => d = [c EXCEPT ![m.node] = Absent]
    /\ m.kind \in {"look", "reply"} => d = c
    /\ m.kind = "reply" => m.answer \in {Failed, c}

\* h: the contents when each message of box was sent, from those that the client
\* has heard of to those that there are.
Story(h, box, now) ==
    /\ h \in [0..Len(box) -> Contents] /\ h[Len(box)] = now
    /\ \A i \in 1..Len(box) : Tells(box[i], h[i - 1], h[i])

\* No owner is announced behind place j.
Latest(j) == \A k \in DOMAIN inbox : k > j => ~Risen(inbox[k])

\* An answer that says what there is, and an announcement that makes the client ask
Full(m) == m.kind = "reply" /\ m.answer # Failed
Herald(m) == (m.kind \in {"owner", "look"} /\ m.up) \/ Full(m)

\* Calls fail only if there is no service, or was none.
FailuresOK ==
    \A i \in DOMAIN inbox :
        inbox[i].kind = "reply" /\ inbox[i].answer = Failed => ~up \/ ~Latest(i)

\* A client that has heard of contents c and does not show all of it has asked, or
\* will ask, or the answer comes.
Coming(c) ==
    \/ outbox # <<>> \/ calls # <<>>
    \/ \E j \in DOMAIN inbox : Herald(inbox[j]) /\ Latest(j)
    \/ Latest(0) /\ Exact(c)

Agreement ==
    \E h \in [0..Len(inbox) -> Contents] :
        Story(h, inbox, content) /\ Sound(h[0]) /\ (up => Coming(h[0]))

AgreeInv ==
    /\ Invariant /\ Orderly /\ FailuresOK
    /\ refs > 0 => Agreement

\* An order of a set leaves nothing out.
LEMMA OrderOnto ==
    ASSUME NEW D, D \subseteq Node, NEW order \in SetToSeqs(D), NEW n \in D
    PROVE  \E i \in DOMAIN order : order[i] = n
<1> DEFINE c == Cardinality(D)
<1>1. IsFiniteSet(D)
  BY ClientAssumption, FS_Subset
<1>2. c \in Nat
  BY <1>1, FS_CardinalityType
<1>3. order \in [1..c -> D] /\ \A i, j \in 1..c : i # j => order[i] # order[j]
  BY DEF SetToSeqs
<1> HIDE DEF c
<1>4. Cardinality(1..c) = c
  BY <1>2, FS_Interval
<1>5. order \in Injection(1..c, D)
  BY <1>3 DEF Injection, IsInjective
<1>6. order \in Surjection(1..c, D)
  BY <1>1, <1>4, <1>5, FS_Injection DEF c
<1> QED
  BY <1>3, <1>6 DEF Surjection

\* Messages t come, and g is how the contents change with them.
LEMMA StoryGrows ==
    ASSUME NEW S, NEW box \in Seq(S), NEW t \in Seq(S), NEW now, NEW h, Story(h, box, now),
           NEW g \in [0..Len(t) -> Contents], g[0] = now,
           \A i \in 1..Len(t) : Tells(t[i], g[i - 1], g[i])
    PROVE  \E k : Story(k, box \o t, g[Len(t)]) /\ k[0] = h[0]
<1> DEFINE n == Len(box)
           l == Len(t)
           k == [i \in 0..(n + l) |-> IF i <= n THEN h[i] ELSE g[i - n]]
<1>1. /\ n \in Nat /\ l \in Nat /\ Len((box \o t)) = n + l
      /\ \A i \in 1..n : (box \o t)[i] = box[i]
      /\ \A i \in 1..l : (box \o t)[n + i] = t[i]
  BY Lengthened
<1>2. /\ h \in [0..n -> Contents] /\ h[n] = now
      /\ \A i \in 1..n : Tells(box[i], h[i - 1], h[i])
  BY DEF Story
<1>3. \A i \in 1..l : Tells(t[i], g[i - 1], g[i])
  OBVIOUS
<1>4. g \in [0..l -> Contents] /\ g[0] = now
  OBVIOUS
<1> HIDE DEF n, l
<1>5. \A i \in 0..n : k[i] = h[i]
  BY <1>1
<1>6. \A i \in 0..l : k[n + i] = g[i]
  <2> TAKE i \in 0..l
  <2>1. n + i \in 0..(n + l) /\ (n + i) - n = i /\ (n + i <= n <=> i = 0)
    BY <1>1
  <2>2. CASE i = 0
    BY <1>1, <1>2, <1>4, <1>5, <2>2
  <2>3. CASE i # 0
    BY <2>1, <2>3
  <2> QED
    BY <2>2, <2>3
<1>7. k \in [0..(n + l) -> Contents]
  <2>1. ASSUME NEW i \in 0..(n + l)
        PROVE  (IF i <= n THEN h[i] ELSE g[i - n]) \in Contents
    <3>1. CASE i <= n
      BY <1>1, <1>2, <3>1
    <3>2. CASE ~(i <= n)
      <4>1. i - n \in 0..l
        BY <1>1, <3>2
      <4> QED
        BY <1>4, <3>2, <4>1
    <3> QED
      BY <3>1, <3>2
  <2> QED
    BY <2>1
<1> HIDE DEF k
<1>8. ASSUME NEW i \in 1..(n + l) PROVE Tells((box \o t)[i], k[i - 1], k[i])
  <2>1. CASE i <= n
    <3>1. i \in 1..n /\ i - 1 \in 0..n /\ i \in 0..n
      BY <1>1, <2>1
    <3>2. (box \o t)[i] = box[i] /\ k[i - 1] = h[i - 1] /\ k[i] = h[i]
      BY <1>1, <1>5, <3>1
    <3> QED
      BY <1>2, <3>1, <3>2
  <2>2. CASE ~(i <= n)
    <3> DEFINE j == i - n
    <3>1. j \in 1..l /\ j - 1 \in 0..l /\ j \in 0..l /\ n + j = i /\ n + (j - 1) = i - 1
      BY <1>1, <2>2
    <3> HIDE DEF j
    <3>2. (box \o t)[i] = t[j] /\ k[i - 1] = g[j - 1] /\ k[i] = g[j]
      BY <1>1, <1>6, <3>1
    <3> QED
      BY <1>3, <3>1, <3>2
  <2> QED
    BY <2>1, <2>2
<1>9. Story(k, box \o t, g[l])
  <2>1. k[n + l] = g[l]
    BY <1>1, <1>6
  <2> QED
    BY <1>1, <1>7, <1>8, <2>1 DEF Story
<1>10. k[0] = h[0]
  BY <1>1, <1>5
<1> QED
  BY <1>9, <1>10 DEF l

LEMMA StoryShifts ==
    ASSUME NEW S, NEW box \in Seq(S), box # <<>>, NEW now, NEW h, Story(h, box, now)
    PROVE  /\ Tells(Head(box), h[0], h[1]) /\ h[0] \in Contents /\ h[1] \in Contents
           /\ \E k : Story(k, Tail(box), now) /\ k[0] = h[1]
<1> DEFINE n == Len(box)
           k == [i \in 0..(n - 1) |-> h[i + 1]]
<1>1. /\ n \in Nat \ {0} /\ Len(Tail(box)) = n - 1 /\ Head(box) = box[1]
      /\ \A i \in 1..(n - 1) : Tail(box)[i] = box[i + 1]
  <2>1. n \in Nat /\ DOMAIN box = 1..n /\ 1 \in DOMAIN box
    BY Shifted, Domain
  <2> QED
    BY <2>1, Shifted
<1>2. /\ h \in [0..n -> Contents] /\ h[n] = now
      /\ \A i \in 1..n : Tells(box[i], h[i - 1], h[i])
  BY DEF Story
<1> HIDE DEF n
<1>3. Tells(Head(box), h[0], h[1])
  <2>1. 1 \in 1..n /\ 1 - 1 = 0
    BY <1>1
  <2> QED
    BY <1>1, <1>2, <2>1
<1>4. \A i \in 0..(n - 1) : k[i] = h[i + 1] /\ h[i + 1] \in Contents
  BY <1>1, <1>2
<1>5. k \in [0..(n - 1) -> Contents]
  BY <1>4
<1>6. k[n - 1] = now /\ k[0] = h[1]
  <2>1. n - 1 \in 0..(n - 1) /\ (n - 1) + 1 = n /\ 0 \in 0..(n - 1) /\ 0 + 1 = 1
    BY <1>1
  <2> QED
    BY <1>2, <1>4, <2>1
<1> HIDE DEF k
<1>7. ASSUME NEW i \in 1..(n - 1) PROVE Tells(Tail(box)[i], k[i - 1], k[i])
  <2>1. i \in 0..(n - 1) /\ i - 1 \in 0..(n - 1) /\ (i - 1) + 1 = i /\ i + 1 \in 1..n
        /\ (i + 1) - 1 = i
    BY <1>1
  <2>2. Tail(box)[i] = box[i + 1] /\ k[i] = h[i + 1] /\ k[i - 1] = h[i]
    BY <1>1, <1>4, <2>1
  <2>3. Tells(box[i + 1], h[(i + 1) - 1], h[i + 1])
    BY <1>2, <2>1
  <2> QED
    BY <2>1, <2>2, <2>3
<1>8. Story(k, Tail(box), now)
  BY <1>1, <1>5, <1>6, <1>7 DEF Story
<1>9. h[0] \in Contents /\ h[1] \in Contents
  BY <1>1, <1>2
<1> QED
  BY <1>3, <1>6, <1>8, <1>9

\* What a handler does to what is shown for n
Keeps(n) == \A v : Shows(n, v) => Shows(n, v)'

Single(n) == Shows(n, Absent) \/ \E v \in Val : Shows(n, v)

LEMMA SameShown ==
    ASSUME UNCHANGED <<proxies, proxy>>, NEW n
    PROVE  Keeps(n)
BY DEF Keeps, Shows, Known

LEMMA ListedProxies ==
    ASSUME TypeOK
    PROVE  /\ ToSet(proxies) \subseteq DOMAIN proxy
           /\ \A p \in ToSet(proxies) : proxy[p] \in Proxy /\ proxy[p].linked
BY Domain DEF TypeOK

\* Where the list loses the proxies for n, and those only.
LEMMA LostShown ==
    ASSUME NEW n, \A p \in ToSet(proxies) : proxy'[p].node = n => p \notin ToSet(proxies'),
           ToSet(proxies') \subseteq ToSet(proxies)
    PROVE  Shows(n, Absent)'
BY DEF Shows, Known

LEMMA StaysShown ==
    ASSUME NEW n,
           \A p \in ToSet(proxies) : proxy[p].node = n =>
              p \in ToSet(proxies') /\ proxy'[p].node = n /\ proxy'[p].value = proxy[p].value,
           \A p \in ToSet(proxies') : proxy'[p].node = n =>
              p \in ToSet(proxies) /\ proxy[p].node = n
    PROVE  Keeps(n)
<1>1. Known(n)' = Known(n)
  BY DEF Known
<1>2. \A p \in Known(n) : proxy'[p].value = proxy[p].value
  BY DEF Known
<1> QED
  BY <1>1, <1>2 DEF Keeps, Shows

LEMMA EmptiedShown ==
    ASSUME Invariant, Store(Emptied(Book)), NEW n
    PROVE  Shows(n, Absent)'
<1>1. Fits(Book, {})
  BY BookFits
<1>2. ToSet(Emptied(Book).proxies) = {}
  BY <1>1, EmptiedFits
<1>3. ToSet(proxies') = {}
  BY <1>2 DEF Store
<1> QED
  BY <1>3 DEF Shows, Known

LEMMA WithoutIs ==
    ASSUME Invariant, NEW i \in 1..Len(proxies), Store(Without(Book, i))
    PROVE  /\ ToSet(proxies') = ToSet(proxies) \ {proxies[i]}
           /\ \A p \in DOMAIN proxy : p # proxies[i] => proxy'[p] = proxy[p]
<1> DEFINE x == proxies[i]
           b == Unlinked(Book, {x})
           e == Without(Book, i)
<1>1. Fits(Book, {})
  BY BookFits
<1>2. PICK q \in Seq(Proxy) :
         /\ b = [proxies |-> Book.proxies, proxy |-> q, announced |-> Book.announced \ {x}]
         /\ \A p \in DOMAIN Book.proxy : p \notin {x} => q[p] = Book.proxy[p]
  <2> DEFINE ps == {x}
  <2>1. b = Unlinked(Book, ps)
    OBVIOUS
  <2> HIDE DEF ps, b
  <2>2. \E q \in Seq(Proxy) :
           /\ b = [proxies |-> Book.proxies, proxy |-> q, announced |-> Book.announced \ ps]
           /\ DOMAIN q = DOMAIN Book.proxy
           /\ \A p \in DOMAIN Book.proxy : p \notin ps => q[p] = Book.proxy[p]
    BY <1>1, <2>1, UnlinkedFits
  <2> QED
    BY <2>2 DEF ps
<1>3. e = [b EXCEPT !.proxies = RemoveAt(b.proxies, i)]
  BY BookFields DEF Without
<1> HIDE DEF b, e
<1>4. b.proxies = proxies
  BY <1>2, BookFields
<1>5. e.proxies = RemoveAt(proxies, i) /\ e.proxy = q
  BY <1>2, <1>3, <1>4
<1>6. proxies' = RemoveAt(proxies, i) /\ proxy' = q
  BY <1>5 DEF Store, e
<1>7. /\ proxies \in Seq(DOMAIN proxy) /\ Len(proxies) \in Nat
      /\ DOMAIN proxies = 1..Len(proxies)
      /\ ToSet(proxies) = {proxies[k] : k \in 1..Len(proxies)}
      /\ \A k, l \in 1..Len(proxies) : k # l => proxies[k] # proxies[l]
  <2>1. proxies \in Seq(DOMAIN proxy) /\ IsInjective(proxies)
    BY DEF Invariant, TypeOK
  <2>2. DOMAIN proxies = 1..Len(proxies)
    BY <2>1, Domain
  <2> QED
    BY <2>1, <2>2, Domain DEF IsInjective
<1>8. /\ proxies' \in Seq(DOMAIN proxy) /\ Len(proxies') = Len(proxies) - 1
      /\ \A k \in 1..(Len(proxies) - 1) :
            proxies'[k] = IF k < i THEN proxies[k] ELSE proxies[k + 1]
  BY <1>6, <1>7, Shortened
<1>9. ToSet(proxies') = {proxies'[k] : k \in 1..(Len(proxies) - 1)}
  BY <1>8, Domain
<1>10. ASSUME NEW k \in 1..(Len(proxies) - 1)
       PROVE  proxies'[k] \in ToSet(proxies) \ {x}
  <2>1. CASE k < i
    <3>1. k \in 1..Len(proxies) /\ k # i
      BY <1>7, <2>1
    <3> QED
      BY <1>7, <1>8, <2>1, <3>1
  <2>2. CASE ~(k < i)
    <3>1. k + 1 \in 1..Len(proxies) /\ k + 1 # i
      BY <1>7, <2>2
    <3> QED
      BY <1>7, <1>8, <2>2, <3>1
  <2> QED
    BY <2>1, <2>2
<1>11. ASSUME NEW k \in 1..Len(proxies), k # i
       PROVE  proxies[k] \in ToSet(proxies')
  <2>1. CASE k < i
    <3>1. k \in 1..(Len(proxies) - 1) /\ proxies'[k] = proxies[k]
      BY <1>7, <1>8, <2>1
    <3> QED
      BY <1>9, <3>1
  <2>2. CASE ~(k < i)
    <3>1. k - 1 \in 1..(Len(proxies) - 1) /\ ~(k - 1 < i) /\ (k - 1) + 1 = k
      BY <1>7, <1>11, <2>2
    <3>2. proxies'[k - 1] = proxies[k]
      BY <1>8, <3>1
    <3> QED
      BY <1>9, <3>1, <3>2
  <2> QED
    BY <2>1, <2>2
<1>12. ToSet(proxies') = ToSet(proxies) \ {x}
  <2>1. ToSet(proxies') \subseteq ToSet(proxies) \ {x}
    BY <1>9, <1>10
  <2>2. ToSet(proxies) \ {x} \subseteq ToSet(proxies')
    BY <1>7, <1>11
  <2> QED
    BY <2>1, <2>2
<1> QED
  BY <1>2, <1>6, <1>12, BookFields

LEMMA RemovedShown ==
    ASSUME Invariant, NEW m, InterfacesRemoved(m), NEW n \in Node, Single(n)
    PROVE  /\ m.node = n => Shows(n, Absent)'
           /\ m.node # n => Keeps(n)
<1> DEFINE i == Lookup(Book, m.node)
<1>1. Store(IF i = 0 THEN Book ELSE Without(Book, i))
  BY DEF InterfacesRemoved
<1>2. proxies \in Seq(DOMAIN proxy) /\ ToSet(proxies) \subseteq DOMAIN proxy
  BY ListedProxies DEF Invariant, TypeOK
<1>3. /\ i \in 0..Len(proxies)
      /\ i # 0 => proxy[proxies[i]].node = m.node
      /\ i = 0 => \A p \in ToSet(proxies) : proxy[p].node # m.node
  BY <1>2, BookFields, LookupIs
<1> HIDE DEF i
<1>4. CASE i = 0
  <2>1. UNCHANGED <<proxies, proxy>>
    BY <1>1, <1>4, BookFields DEF Store
  <2>2. Keeps(n)
    BY <2>1, SameShown
  <2>3. m.node = n => Shows(n, Absent)'
    BY <1>3, <1>4, <2>1 DEF Shows, Known
  <2> QED
    BY <2>2, <2>3
<1>5. CASE i # 0
  <2> DEFINE x == proxies[i]
  <2>1. i \in 1..Len(proxies) /\ Store(Without(Book, i)) /\ Len(proxies) \in Nat
    BY <1>1, <1>2, <1>3, <1>5, Domain
  <2>2. x \in ToSet(proxies) /\ proxy[x].node = m.node
    BY <1>2, <1>3, <1>5, <2>1, Domain
  <2>3. /\ ToSet(proxies') = ToSet(proxies) \ {x}
        /\ \A p \in DOMAIN proxy : p # x => proxy'[p] = proxy[p]
    BY <2>1, WithoutIs
  <2> HIDE DEF x
  <2>4. ASSUME m.node = n PROVE Shows(n, Absent)'
    <3>1. Known(n) = {x}
      BY <2>2, <2>4 DEF Single, Shows, Known
    <3>2. \A p \in ToSet(proxies') : p \in ToSet(proxies) /\ p # x /\ proxy'[p] = proxy[p]
      BY <1>2, <2>3
    <3> QED
      BY <3>1, <3>2 DEF Shows, Known
  <2>5. ASSUME m.node # n PROVE Keeps(n)
    <3>1. \A p \in ToSet(proxies) : proxy[p].node = n =>
             p \in ToSet(proxies') /\ proxy'[p] = proxy[p]
      BY <1>2, <2>2, <2>3, <2>5
    <3>2. \A p \in ToSet(proxies') : p \in ToSet(proxies) /\ proxy'[p] = proxy[p]
      BY <1>2, <2>3
    <3> QED
      BY <3>1, <3>2, StaysShown
  <2> QED
    BY <2>4, <2>5
<1> QED
  BY <1>4, <1>5

LEMMA ChangedShown ==
    ASSUME Invariant, NEW m, PropertiesChanged(m), m.value \in Val, NEW n \in Node
    PROVE  /\ Shows(n, Absent) => Shows(n, Absent)'
           /\ m.node = n => \A v \in Val : Shows(n, v) => Shows(n, m.value)'
           /\ m.node # n => Keeps(n)
<1> DEFINE q == [p \in DOMAIN proxy |->
                    IF proxy[p].linked /\ proxy[p].node = m.node
                    THEN [proxy[p] EXCEPT !.value = m.value] ELSE proxy[p]]
<1>1. proxy' = q /\ proxies' = proxies
  BY DEF PropertiesChanged
<1>2. /\ ToSet(proxies) \subseteq DOMAIN proxy
      /\ \A p \in ToSet(proxies) : proxy[p] \in Proxy /\ proxy[p].linked
  BY ListedProxies DEF Invariant
<1>3. ASSUME NEW p \in ToSet(proxies)
      PROVE  /\ proxy'[p].node = proxy[p].node
             /\ proxy'[p].value = IF proxy[p].node = m.node THEN m.value ELSE proxy[p].value
  <2> DEFINE o == proxy[p]
  <2>1. o \in Proxy /\ o.linked /\ p \in DOMAIN proxy
    BY <1>2
  <2>2. proxy'[p] = IF o.node = m.node THEN [o EXCEPT !.value = m.value] ELSE o
    BY <1>1, <2>1
  <2> HIDE DEF o, q
  <2>3. [o EXCEPT !.value = m.value].node = o.node /\ [o EXCEPT !.value = m.value].value = m.value
    BY <2>1 DEF Proxy
  <2> QED
    BY <2>2, <2>3 DEF o
<1> HIDE DEF q
<1>4. Known(n)' = Known(n)
  BY <1>1, <1>3 DEF Known
<1>5. \A p \in Known(n) : proxy'[p].value = IF n = m.node THEN m.value ELSE proxy[p].value
  BY <1>3 DEF Known
<1>6. Absent \notin Val
  BY ClientAssumption
<1> QED
  BY <1>4, <1>5, <1>6 DEF Keeps, Shows

\* The new proxies of parsing a, which has the nodes D
Brings(new, D, a) ==
    /\ ToSet(proxies') = ToSet(proxies) \union new
    /\ \A x \in new :
          /\ proxy'[x].node \in D /\ proxy'[x].value = a[proxy'[x].node]
          /\ \A p \in ToSet(proxies) : proxy[p].node # proxy'[x].node
          /\ \A y \in new : proxy'[y].node = proxy'[x].node => y = x
    /\ \A n \in D : (\A p \in ToSet(proxies) : proxy[p].node # n) =>
                       \E x \in new : proxy'[x].node = n
    /\ \A p \in ToSet(proxies) :
          /\ proxy'[p].node = proxy[p].node
          /\ proxy[p].node \notin D => proxy'[p].value = proxy[p].value
          /\ proxy[p].node \in D
             /\ (\A o \in ToSet(proxies) : proxy[o].node = proxy[p].node => o = p)
             => proxy'[p].value = a[proxy[p].node]

\* A parsed message brings one new proxy for each node that has none, and updates
\* the only one of a node that has one.
LEMMA ParsedBook ==
    ASSUME Invariant, NEW D, D \subseteq Node, NEW a \in [D -> Val], StoreParsed(a)
    PROVE  \E new : Brings(new, D, a)
<1> DEFINE Unlisted == {n \in DOMAIN a : Lookup(Book, n) = 0}
<1>1. PICK order \in SetToSeqs(Unlisted) : Store(Parsed(Book, a, order))
  BY DEF StoreParsed
<1> DEFINE Hit(p) == LET i == Lookup(Book, Book.proxy[p].node)
                     IN  Book.proxy[p].node \in DOMAIN a /\ i # 0 /\ Book.proxies[i] = p
           old == [p \in DOMAIN Book.proxy |->
                     IF Hit(p) THEN [Book.proxy[p] EXCEPT !.value = a[Book.proxy[p].node]]
                     ELSE Book.proxy[p]]
           made == [i \in DOMAIN order |-> NewProxy(order[i], a[order[i]], FALSE)]
           q == old \o made
           l == Len(Book.proxy)
           ps == [i \in DOMAIN order |-> l + i]
           c == [Book EXCEPT !.proxy = q]
<1>2. Unlisted \subseteq D /\ DOMAIN a = D /\ Unlisted \subseteq Node
  OBVIOUS
<1>3. /\ proxy \in Seq(Proxy) /\ l \in Nat /\ DOMAIN proxy = 1..l
      /\ \A p \in 1..l : proxy[p] \in Proxy
      /\ proxies \in Seq(DOMAIN proxy) /\ ToSet(proxies) \subseteq 1..l
      /\ ToSet(proxies) = {proxies[k] : k \in 1..Len(proxies)}
  <2>1. proxy \in Seq(Proxy) /\ proxies \in Seq(DOMAIN proxy)
    BY DEF Invariant, TypeOK
  <2>2. l = Len(proxy)
    BY BookFields
  <2>3. /\ Len(proxy) \in Nat /\ DOMAIN proxy = 1..Len(proxy)
        /\ \A p \in 1..Len(proxy) : proxy[p] \in Proxy
    BY <2>1, Domain
  <2>4. /\ ToSet(proxies) = {proxies[k] : k \in 1..Len(proxies)}
        /\ \A k \in 1..Len(proxies) : proxies[k] \in DOMAIN proxy
    BY <2>1, Domain
  <2> HIDE DEF l
  <2> QED
    BY <2>1, <2>2, <2>3, <2>4
<1>4. /\ IsInjective(order) /\ Len(order) \in Nat /\ DOMAIN order = 1..Len(order)
      /\ \A i \in 1..Len(order) : order[i] \in Unlisted
      /\ \A n \in Unlisted : \E i \in 1..Len(order) : order[i] = n
  <2> HIDE DEF Unlisted
  <2>1. /\ IsInjective(order) /\ Len(order) \in Nat /\ DOMAIN order = 1..Len(order)
        /\ \A i \in 1..Len(order) : order[i] \in Unlisted
    BY <1>2, OrderIs
  <2>2. \A n \in Unlisted : \E i \in DOMAIN order : order[i] = n
    BY <1>2, OrderOnto
  <2> QED
    BY <2>1, <2>2
<1>5. \A n \in D : n \in Unlisted <=> \A p \in ToSet(proxies) : proxy[p].node # n
  <2>1. ASSUME NEW n \in D
        PROVE  n \in Unlisted <=> \A p \in ToSet(proxies) : proxy[p].node # n
    <3> DEFINE i == Lookup(Book, n)
    <3>1. /\ i \in 0..Len(proxies)
          /\ i # 0 => proxy[proxies[i]].node = n
          /\ i = 0 => \A p \in ToSet(proxies) : proxy[p].node # n
      BY <1>3, BookFields, LookupIs
    <3>2. n \in Unlisted <=> i = 0
      OBVIOUS
    <3> HIDE DEF i, Unlisted
    <3>3. i # 0 => proxies[i] \in ToSet(proxies)
      <4>1. Len(proxies) \in Nat
        BY <1>3, Domain
      <4> QED
        BY <1>3, <3>1, <4>1
    <3> QED
      BY <3>1, <3>2, <3>3
  <2> QED
    BY <2>1
<1>6. ASSUME NEW p \in 1..l
      PROVE  /\ old[p] \in Proxy /\ old[p].node = proxy[p].node
             /\ proxy[p].node \notin D => old[p].value = proxy[p].value
             /\ Hit(p) => old[p].value = a[proxy[p].node]
  <2> DEFINE x == proxy[p]
             v == a[proxy[p].node]
  <2>1. x \in Proxy /\ p \in DOMAIN Book.proxy /\ Book.proxy[p] = x
    BY <1>3, BookFields
  <2>2. Hit(p) => x.node \in D /\ v \in Val \union {Absent}
    BY <2>1
  <2>3. old[p] = IF Hit(p) THEN [x EXCEPT !.value = v] ELSE x
    BY <2>1
  <2> HIDE DEF x, v, old, Hit
  <2>4. CASE Hit(p)
    <3>1. LET r == [x EXCEPT !.value = v]
          IN  r \in Proxy /\ r.linked = x.linked /\ r.node = x.node /\ r.value = v
      BY <2>1, <2>2, <2>4, ProxyFields
    <3> QED
      BY <2>2, <2>3, <2>4, <3>1 DEF x, v
  <2>5. CASE ~Hit(p)
    BY <2>1, <2>3, <2>5 DEF x
  <2> QED
    BY <2>4, <2>5
<1>7. ASSUME NEW p \in ToSet(proxies), proxy[p].node \in D,
             \A o \in ToSet(proxies) : proxy[o].node = proxy[p].node => o = p
      PROVE  Hit(p)
  <2> DEFINE i == Lookup(Book, proxy[p].node)
  <2>1. /\ i \in 0..Len(proxies)
        /\ i # 0 => proxy[proxies[i]].node = proxy[p].node
        /\ i = 0 => \A o \in ToSet(proxies) : proxy[o].node # proxy[p].node
    BY <1>3, BookFields, LookupIs
  <2>2. Hit(p) <=> proxy[p].node \in D /\ i # 0 /\ proxies[i] = p
    BY BookFields
  <2> HIDE DEF i, Hit
  <2>3. i # 0
    BY <2>1
  <2>4. proxies[i] \in ToSet(proxies)
    <3>1. Len(proxies) \in Nat
      BY <1>3, Domain
    <3> QED
      BY <1>3, <2>1, <2>3, <3>1
  <2> QED
    BY <1>7, <2>1, <2>2, <2>3, <2>4
<1>8. old = [p \in 1..l |-> old[p]] /\ DOMAIN proxy = DOMAIN Book.proxy
  BY <1>3, BookFields
<1>9. ASSUME NEW i \in 1..Len(order)
      PROVE  made[i] \in Proxy /\ made[i].node = order[i] /\ made[i].value = a[order[i]]
  <2>1. order[i] \in Node /\ a[order[i]] \in Val /\ i \in DOMAIN order
    BY <1>2, <1>4
  <2>2. made[i] = NewProxy(order[i], a[order[i]], FALSE)
    BY <2>1
  <2> QED
    BY <2>1, <2>2 DEF NewProxy, Proxy
<1>10. made = [i \in DOMAIN order |-> made[i]]
  OBVIOUS
<1>11. Parsed(Book, a, order) = Listed(c, ps)
  BY DEF Parsed
<1> HIDE DEF old, made, Unlisted, Hit
<1>12. c.proxies = proxies /\ c.proxy = q
  BY BookFields
<1> HIDE DEF c, q
<1>13. Listed(c, ps).proxies = proxies \o ps /\ Listed(c, ps).proxy = q
  <2>1. c = [proxies |-> c.proxies, proxy |-> c.proxy, announced |-> c.announced]
    BY BookFields DEF c
  <2> QED
    BY <1>12, <2>1 DEF Listed
<1>14. proxies' = proxies \o ps /\ proxy' = q
  BY <1>1, <1>11, <1>13 DEF Store
<1>15. /\ old \in Seq(Proxy) /\ Len(old) = l /\ made \in Seq(Proxy) /\ Len(made) = Len(order)
  <2>1. old \in Seq(Proxy) /\ Len(old) = Len(proxy)
    <3>1. old = [p \in DOMAIN proxy |-> old[p]] /\ \A p \in DOMAIN proxy : old[p] \in Proxy
      BY <1>3, <1>6, <1>8
    <3> QED
      BY <1>3, <3>1, Mapped
  <2>2. made \in Seq(Proxy) /\ Len(made) = Len(order)
    <3>1. order \in Seq(Unlisted)
      BY <1>2, OrderIs
    <3>2. \A i \in DOMAIN order : made[i] \in Proxy
      BY <1>4, <1>9
    <3> QED
      BY <1>10, <3>1, <3>2, Mapped
  <2>3. l = Len(proxy)
    BY BookFields
  <2> QED
    BY <2>1, <2>2, <2>3
<1>16. /\ \A p \in 1..l : proxy'[p] = old[p]
       /\ \A i \in 1..Len(order) : proxy'[l + i] = made[i]
  <2>1. /\ \A p \in 1..Len(old) : (old \o made)[p] = old[p]
        /\ \A i \in 1..Len(made) : (old \o made)[Len(old) + i] = made[i]
    BY <1>15, Lengthened
  <2> QED
    BY <1>14, <1>15, <2>1 DEF q
<1> DEFINE new == ToSet(ps)
<1>17. /\ ps \in Seq(Nat) /\ new = {l + i : i \in 1..Len(order)}
  <2>1. order \in Seq(Unlisted) /\ ps = [i \in DOMAIN order |-> ps[i]]
        /\ \A i \in DOMAIN order : ps[i] = l + i /\ ps[i] \in Nat
    BY <1>2, <1>3, <1>4, OrderIs
  <2> HIDE DEF ps
  <2>2. ps \in Seq(Nat) /\ DOMAIN ps = DOMAIN order
    BY <2>1, Mapped
  <2> QED
    BY <1>4, <2>1, <2>2 DEF ToSet
<1> HIDE DEF ps
<1>18. ToSet(proxies') = ToSet(proxies) \union new
  <2>1. proxies \in Seq(Nat)
    <3>1. DOMAIN proxy \subseteq Nat
      BY <1>3
    <3> QED
      BY <1>3, <3>1, SeqDef
  <2> QED
    BY <1>14, <1>17, <2>1, Lengthened
<1> HIDE DEF new, l
<1>19. ASSUME NEW x \in new
       PROVE  \E i \in 1..Len(order) : x = l + i /\ proxy'[x].node = order[i]
                                       /\ proxy'[x].value = a[order[i]]
  <2>1. PICK i \in 1..Len(order) : x = l + i
    BY <1>17
  <2> QED
    BY <1>9, <1>16, <2>1
<1>20. ASSUME NEW x \in new
       PROVE  /\ proxy'[x].node \in D /\ proxy'[x].value = a[proxy'[x].node]
              /\ \A p \in ToSet(proxies) : proxy[p].node # proxy'[x].node
              /\ \A y \in new : proxy'[y].node = proxy'[x].node => y = x
  <2>1. PICK i \in 1..Len(order) : x = l + i /\ proxy'[x].node = order[i]
                                   /\ proxy'[x].value = a[order[i]]
    BY <1>19
  <2>2. order[i] \in Unlisted /\ order[i] \in D
    BY <1>2, <1>4
  <2>3. ASSUME NEW y \in new, proxy'[y].node = proxy'[x].node PROVE y = x
    <3>1. PICK j \in 1..Len(order) : y = l + j /\ proxy'[y].node = order[j]
      BY <1>19
    <3>2. i \in DOMAIN order /\ j \in DOMAIN order /\ order[i] = order[j]
      BY <1>4, <2>1, <2>3, <3>1
    <3>3. i = j
      BY <1>4, <3>2 DEF IsInjective
    <3> QED
      BY <2>1, <3>1, <3>3
  <2> QED
    BY <1>5, <2>1, <2>2, <2>3
<1>21. ASSUME NEW n \in D, \A p \in ToSet(proxies) : proxy[p].node # n
       PROVE  \E x \in new : proxy'[x].node = n
  <2>1. PICK i \in 1..Len(order) : order[i] = n
    BY <1>4, <1>5, <1>21
  <2>2. l + i \in new /\ proxy'[l + i].node = n
    BY <1>9, <1>16, <1>17, <2>1
  <2> QED
    BY <2>2
<1>22. ASSUME NEW p \in ToSet(proxies)
       PROVE  /\ proxy'[p].node = proxy[p].node
              /\ proxy[p].node \notin D => proxy'[p].value = proxy[p].value
              /\ proxy[p].node \in D
                 /\ (\A o \in ToSet(proxies) : proxy[o].node = proxy[p].node => o = p)
                 => proxy'[p].value = a[proxy[p].node]
  <2>1. p \in 1..l /\ proxy'[p] = old[p]
    BY <1>3, <1>16
  <2> QED
    BY <1>6, <1>7, <2>1
<1> QED
  BY <1>18, <1>20, <1>21, <1>22 DEF Brings

LEMMA ParsedShown ==
    ASSUME Invariant, NEW D, D \subseteq Node, NEW a \in [D -> Val], StoreParsed(a), NEW n
    PROVE  /\ n \in D /\ Single(n) => Shows(n, a[n])'
           /\ n \notin D => Keeps(n)
<1>1. PICK new : Brings(new, D, a)
  BY ParsedBook
<1>2. /\ ToSet(proxies') = ToSet(proxies) \union new
      /\ \A x \in new :
            /\ proxy'[x].node \in D /\ proxy'[x].value = a[proxy'[x].node]
            /\ \A p \in ToSet(proxies) : proxy[p].node # proxy'[x].node
            /\ \A y \in new : proxy'[y].node = proxy'[x].node => y = x
      /\ \A k \in D : (\A p \in ToSet(proxies) : proxy[p].node # k) =>
                         \E x \in new : proxy'[x].node = k
      /\ \A p \in ToSet(proxies) :
            /\ proxy'[p].node = proxy[p].node
            /\ proxy[p].node \notin D => proxy'[p].value = proxy[p].value
            /\ proxy[p].node \in D
               /\ (\A o \in ToSet(proxies) : proxy[o].node = proxy[p].node => o = p)
               => proxy'[p].value = a[proxy[p].node]
  BY <1>1 DEF Brings
<1>3. ASSUME n \in D, Single(n) PROVE Shows(n, a[n])'
  <2>1. a[n] \in Val /\ a[n] # Absent
    BY <1>3, ClientAssumption
  <2>2. \E p \in ToSet(proxies') :
           /\ proxy'[p].node = n /\ proxy'[p].value = a[n]
           /\ \A o \in ToSet(proxies') : proxy'[o].node = n => o = p
    <3>1. CASE Shows(n, Absent)
      <4>1. \A p \in ToSet(proxies) : proxy[p].node # n
        BY <3>1 DEF Shows, Known
      <4>2. PICK x \in new : proxy'[x].node = n
        BY <1>2, <1>3, <4>1
      <4>3. proxy'[x].value = a[n] /\ x \in ToSet(proxies')
        BY <1>2, <4>2
      <4>4. \A o \in ToSet(proxies') : proxy'[o].node = n => o = x
        BY <1>2, <4>1, <4>2
      <4> QED
        BY <4>2, <4>3, <4>4
    <3>2. CASE \E v \in Val : Shows(n, v)
      <4>1. PICK p \in ToSet(proxies) :
               proxy[p].node = n /\ \A o \in ToSet(proxies) : proxy[o].node = n => o = p
        BY <3>2, ClientAssumption DEF Shows, Known
      <4>2. proxy'[p].node = n /\ proxy'[p].value = a[n] /\ p \in ToSet(proxies')
        BY <1>2, <1>3, <4>1
      <4>3. \A o \in ToSet(proxies') : proxy'[o].node = n => o = p
        BY <1>2, <4>1
      <4> QED
        BY <4>2, <4>3
    <3> QED
      BY <1>3, <3>1, <3>2 DEF Single
  <2> QED
    BY <2>1, <2>2 DEF Shows, Known
<1>4. ASSUME n \notin D PROVE Keeps(n)
  <2>1. \A p \in ToSet(proxies) : proxy[p].node = n =>
           p \in ToSet(proxies') /\ proxy'[p].node = n /\ proxy'[p].value = proxy[p].value
    BY <1>2, <1>4
  <2>2. \A p \in ToSet(proxies') : proxy'[p].node = n =>
           p \in ToSet(proxies) /\ proxy[p].node = n
    BY <1>2, <1>4
  <2> QED
    BY <2>1, <2>2, StaysShown
<1> QED
  BY <1>3, <1>4

\* What a handler makes of n, which the client shows as in c or not at all, when
\* its message tells how the contents changed from c to d
FollowsAt(m, c, d, n) ==
    /\ Shows(n, Absent)' \/ Shows(n, d[n])'
    /\ Shows(n, c[n]) /\ ~Risen(m) => Shows(n, d[n])'
    /\ Full(m) /\ fetching => Shows(n, d[n])'

LEMMA NodeShown ==
    ASSUME NEW c \in Contents, Sound(c), NEW n \in Node
    PROVE  c[n] \in Val \union {Absent} /\ Single(n) /\ (Shows(n, Absent) \/ Shows(n, c[n]))
<1>1. c[n] \in Val \union {Absent}
  BY DEF Contents
<1>2. Shows(n, Absent) \/ Shows(n, c[n])
  BY DEF Sound
<1> QED
  BY <1>1, <1>2 DEF Single

LEMMA AllFollow ==
    ASSUME NEW m, NEW c, NEW d, \A n \in Node : FollowsAt(m, c, d, n)
    PROVE  Sound(d)' /\ (Exact(c) /\ ~Risen(m) => Exact(d)') /\ (Full(m) /\ fetching => Exact(d)')
BY DEF FollowsAt, Sound, Exact

LEMMA ConnectFollows ==
    ASSUME Invariant, NEW m, ServiceConnect(m), NEW c \in Contents, NEW d \in Contents,
           Tells(m, c, d), Sound(c), NEW n \in Node
    PROVE  FollowsAt(m, c, d, n)
<1>1. m.kind \in {"owner", "look"} /\ m.up /\ UNCHANGED <<proxies, proxy>>
  BY DEF ServiceConnect
<1>2. Keeps(n)
  BY <1>1, SameShown
<1>3. Shows(n, Absent) \/ Shows(n, c[n])
  BY NodeShown
<1>4. ~Full(m)
  BY <1>1 DEF Full
<1>5. CASE Risen(m)
  <2>1. c[n] = Absent
    BY <1>5 DEF Tells, Nothing
  <2> QED
    BY <1>2, <1>3, <1>4, <1>5, <2>1 DEF FollowsAt, Keeps
<1>6. CASE ~Risen(m)
  <2>1. d = c
    BY <1>1, <1>6 DEF Tells, Risen
  <2> QED
    BY <1>2, <1>3, <1>4, <2>1 DEF FollowsAt, Keeps
<1> QED
  BY <1>5, <1>6

LEMMA DisconnectFollows ==
    ASSUME Invariant, NEW m, ServiceDisconnect(m), NEW c \in Contents, NEW d \in Contents,
           Tells(m, c, d), Sound(c), NEW n \in Node
    PROVE  FollowsAt(m, c, d, n)
<1>1. m.kind = "owner" /\ Down(m) /\ Store(Emptied(Book))
  BY DEF ServiceDisconnect, Down
<1>2. d[n] = Absent
  BY <1>1 DEF Tells, Nothing
<1>3. Shows(n, Absent)'
  BY <1>1, EmptiedShown
<1> QED
  BY <1>2, <1>3 DEF FollowsAt

LEMMA AddedFollows ==
    ASSUME Invariant, NEW m \in Message, InterfacesAdded(m), NEW c \in Contents,
           NEW d \in Contents, Tells(m, c, d), Sound(c), NEW n \in Node
    PROVE  FollowsAt(m, c, d, n)
<1> DEFINE a == [k \in {m.node} |-> m.value]
<1>1. m.kind = "added" /\ StoreParsed(a)
  BY DEF InterfacesAdded
<1>2. m.node \in Node /\ m.value \in Val
  BY <1>1, MessageType
<1>3. d = [c EXCEPT ![m.node] = m.value]
  BY <1>1 DEF Tells
<1>4. {m.node} \subseteq Node /\ a \in [{m.node} -> Val] /\ a[m.node] = m.value
  BY <1>2
<1>5. Single(n) /\ (Shows(n, Absent) \/ Shows(n, c[n])) /\ ~Full(m)
  BY <1>1, NodeShown DEF Full
<1> HIDE DEF a
<1>6. /\ n \in {m.node} /\ Single(n) => Shows(n, a[n])'
      /\ n \notin {m.node} => Keeps(n)
  BY <1>1, <1>4, ParsedShown
<1>7. CASE n = m.node
  <2>1. d[n] = m.value /\ a[n] = m.value
    BY <1>3, <1>4, <1>7 DEF Contents
  <2>2. Shows(n, m.value)'
    BY <1>5, <1>6, <1>7, <2>1
  <2> QED
    BY <2>1, <2>2 DEF FollowsAt
<1>8. CASE n # m.node
  <2>1. d[n] = c[n]
    BY <1>3, <1>8 DEF Contents
  <2>2. Keeps(n)
    BY <1>6, <1>8
  <2> QED
    BY <1>5, <2>1, <2>2 DEF FollowsAt, Keeps
<1> QED
  BY <1>7, <1>8

LEMMA RemovedFollows ==
    ASSUME Invariant, NEW m, InterfacesRemoved(m), NEW c \in Contents, NEW d \in Contents,
           Tells(m, c, d), Sound(c), NEW n \in Node
    PROVE  FollowsAt(m, c, d, n)
<1>1. m.kind = "removed"
  BY DEF InterfacesRemoved
<1>2. d = [c EXCEPT ![m.node] = Absent]
  BY <1>1 DEF Tells
<1>3. Single(n) /\ (Shows(n, Absent) \/ Shows(n, c[n])) /\ ~Full(m)
  BY <1>1, NodeShown DEF Full
<1>4. /\ m.node = n => Shows(n, Absent)'
      /\ m.node # n => Keeps(n)
  BY <1>3, RemovedShown
<1>5. CASE n = m.node
  <2>1. d[n] = Absent
    BY <1>2, <1>5 DEF Contents
  <2> QED
    BY <1>4, <1>5, <2>1 DEF FollowsAt
<1>6. CASE n # m.node
  <2>1. d[n] = c[n]
    BY <1>2, <1>6 DEF Contents
  <2> QED
    BY <1>3, <1>4, <1>6, <2>1 DEF FollowsAt, Keeps
<1> QED
  BY <1>5, <1>6

LEMMA ChangedFollows ==
    ASSUME Invariant, NEW m \in Message, PropertiesChanged(m), NEW c \in Contents,
           NEW d \in Contents, Tells(m, c, d), Sound(c), NEW n \in Node
    PROVE  FollowsAt(m, c, d, n)
<1>1. m.kind = "changed"
  BY DEF PropertiesChanged
<1>2. m.node \in Node /\ m.value \in Val
  BY <1>1, MessageType
<1>3. c[m.node] # Absent /\ d = [c EXCEPT ![m.node] = m.value]
  BY <1>1 DEF Tells
<1>4. c[n] \in Val \union {Absent} /\ (Shows(n, Absent) \/ Shows(n, c[n])) /\ ~Full(m)
  BY <1>1, NodeShown DEF Full
<1>5. /\ Shows(n, Absent) => Shows(n, Absent)'
      /\ m.node = n => \A v \in Val : Shows(n, v) => Shows(n, m.value)'
      /\ m.node # n => Keeps(n)
  BY <1>2, ChangedShown
<1>6. CASE n = m.node
  <2>1. d[n] = m.value /\ c[n] \in Val
    BY <1>3, <1>4, <1>6 DEF Contents
  <2>2. Shows(n, c[n]) => Shows(n, m.value)'
    BY <1>5, <1>6, <2>1
  <2> QED
    BY <1>4, <1>5, <2>1, <2>2 DEF FollowsAt
<1>7. CASE n # m.node
  <2>1. d[n] = c[n]
    BY <1>3, <1>7 DEF Contents
  <2> QED
    BY <1>4, <1>5, <1>7, <2>1 DEF FollowsAt, Keeps
<1> QED
  BY <1>6, <1>7

LEMMA ObjectsFollow ==
    ASSUME Invariant, NEW m, ManagedObjects(m), NEW c \in Contents, NEW d \in Contents,
           Tells(m, c, d), Sound(c), NEW n \in Node
    PROVE  FollowsAt(m, c, d, n)
<1> DEFINE D == {k \in Node : m.answer[k] # Absent}
           a == [k \in D |-> m.answer[k]]
<1>1. m.kind = "reply" /\ d = c /\ m.answer \in {Failed, c}
  BY DEF ManagedObjects, Tells
<1>2. Single(n) /\ (Shows(n, Absent) \/ Shows(n, c[n])) /\ c[n] \in Val \union {Absent}
  BY NodeShown
<1>3. CASE m.answer = Failed
  <2>1. UNCHANGED <<proxies, proxy>> /\ ~Full(m)
    BY <1>3 DEF ManagedObjects, Full
  <2>2. Keeps(n)
    BY <2>1, SameShown
  <2> QED
    BY <1>1, <1>2, <2>1, <2>2 DEF FollowsAt, Keeps
<1>4. CASE m.answer # Failed
  <2>1. StoreParsed(a) /\ m.answer = c
    BY <1>1, <1>4 DEF ManagedObjects
  <2>2. D \subseteq Node /\ a \in [D -> Val] /\ (n \in D <=> c[n] # Absent)
        /\ (n \in D => a[n] = c[n])
    BY <2>1 DEF Contents
  <2> HIDE DEF a, D
  <2>3. /\ n \in D /\ Single(n) => Shows(n, a[n])'
        /\ n \notin D => Keeps(n)
    BY <2>1, <2>2, ParsedShown
  <2>4. CASE n \in D
    <3>1. a[n] = c[n] /\ Shows(n, a[n])'
      BY <1>2, <2>2, <2>3, <2>4
    <3> QED
      BY <1>1, <3>1 DEF FollowsAt
  <2>5. CASE n \notin D
    <3>1. c[n] = Absent /\ Shows(n, Absent)'
      BY <1>2, <2>2, <2>3, <2>5 DEF Keeps
    <3> QED
      BY <1>1, <3>1 DEF FollowsAt
  <2> QED
    BY <2>4, <2>5
<1> QED
  BY <1>3, <1>4

LEMMA IgnoredFollows ==
    ASSUME Invariant, NEW m, Ignored(m), refs > 0, NEW c \in Contents, NEW d \in Contents,
           Tells(m, c, d), Sound(c), NEW n \in Node
    PROVE  FollowsAt(m, c, d, n)
<1>1. UNCHANGED <<proxies, proxy>>
  BY DEF Ignored, client
<1>2. Keeps(n)
  BY <1>1, SameShown
<1>3. m.kind = "look" \/ (m.kind = "reply" /\ ~fetching)
  BY DEF Ignored, Invariant, TypeOK
<1>4. d = c /\ ~(Full(m) /\ fetching)
  BY <1>3 DEF Tells, Full
<1>5. Shows(n, Absent) \/ Shows(n, c[n])
  BY NodeShown
<1> QED
  BY <1>2, <1>4, <1>5 DEF FollowsAt, Keeps

LEMMA Follows ==
    ASSUME Invariant, refs > 0, NEW m \in Message, m.kind = "reply" => m.call = Objects,
           \/ ServiceConnect(m) \/ ServiceDisconnect(m)
           \/ InterfacesAdded(m) \/ InterfacesRemoved(m) \/ PropertiesChanged(m)
           \/ ManagedObjects(m) \/ AllProperties(m) \/ Ignored(m),
           NEW c \in Contents, NEW d \in Contents, Tells(m, c, d), Sound(c)
    PROVE  Sound(d)' /\ (Exact(c) /\ ~Risen(m) => Exact(d)') /\ (Full(m) /\ fetching => Exact(d)')
<1>1. ~AllProperties(m)
  BY Calls DEF AllProperties
<1>2. \A n \in Node : FollowsAt(m, c, d, n)
  BY <1>1, ConnectFollows, DisconnectFollows, AddedFollows, RemovedFollows, ChangedFollows,
     ObjectsFollow, IgnoredFollows
<1> QED
  BY <1>2, AllFollow

\* What comes after j in the inbox
LEMMA LatestGrows ==
    ASSUME TypeOK, NEW t \in Seq(Message), inbox' = inbox \o t,
           \A i \in DOMAIN t : ~Risen(t[i]), NEW j, j \in Nat, Latest(j)
    PROVE  Latest(j)'
<1> DEFINE n == Len(inbox)
<1>1. /\ n \in Nat /\ Len(t) \in Nat /\ DOMAIN inbox = 1..n /\ DOMAIN t = 1..Len(t)
      /\ DOMAIN inbox' = 1..(n + Len(t))
      /\ \A i \in 1..n : inbox'[i] = inbox[i]
      /\ \A i \in 1..Len(t) : inbox'[n + i] = t[i]
  BY Lengthened DEF TypeOK
<1> HIDE DEF n
<1>2. ASSUME NEW k \in DOMAIN inbox', k > j PROVE ~Risen(inbox'[k])
  <2>1. CASE k <= n
    BY <1>1, <1>2, <2>1 DEF Latest
  <2>2. CASE ~(k <= n)
    <3> DEFINE i == k - n
    <3>1. i \in DOMAIN t /\ n + i = k
      BY <1>1, <2>2
    <3> HIDE DEF i
    <3> QED
      BY <1>1, <3>1
  <2> QED
    BY <2>1, <2>2
<1> QED
  BY <1>2 DEF Latest

LEMMA ComingGrows ==
    ASSUME TypeOK, NEW t \in Seq(Message), inbox' = inbox \o t,
           \A i \in DOMAIN t : ~Risen(t[i]), UNCHANGED <<proxies, proxy>>,
           outbox # <<>> \/ calls # <<>> => outbox' # <<>> \/ calls' # <<>>,
           NEW c, Coming(c)
    PROVE  Coming(c)'
<1>1. CASE outbox # <<>> \/ calls # <<>>
  BY <1>1 DEF Coming
<1>2. CASE \E j \in DOMAIN inbox : Herald(inbox[j]) /\ Latest(j)
  <2>1. PICK j \in DOMAIN inbox : Herald(inbox[j]) /\ Latest(j)
    BY <1>2
  <2>2. j \in Nat /\ j \in DOMAIN inbox' /\ inbox'[j] = inbox[j]
    BY Lengthened DEF TypeOK
  <2>3. Latest(j)'
    BY <2>1, <2>2, LatestGrows
  <2> QED
    BY <2>1, <2>2, <2>3 DEF Coming
<1>3. CASE Latest(0) /\ Exact(c)
  <2>1. Latest(0)'
    BY <1>3, LatestGrows
  <2>2. Exact(c)'
    BY <1>3 DEF Exact, Shows, Known
  <2> QED
    BY <2>1, <2>2 DEF Coming
<1> QED
  BY <1>1, <1>2, <1>3 DEF Coming

LEMMA HeraldComes ==
    ASSUME TypeOK, NEW m \in Message, inbox' = inbox \o <<m>>, Herald(m), NEW c
    PROVE  Coming(c)'
<1>1. <<m>> \in Seq(Message) /\ Len(<<m>>) = 1 /\ <<m>>[1] = m
  BY One
<1>2. PICK n \in Nat : DOMAIN inbox' = 1..(n + 1) /\ inbox'[n + 1] = m
  <2>1. /\ Len(inbox) \in Nat /\ DOMAIN inbox' = 1..(Len(inbox) + 1)
        /\ \A i \in 1..1 : inbox'[Len(inbox) + i] = <<m>>[i]
    BY <1>1, Lengthened DEF TypeOK
  <2> QED
    BY <1>1, <2>1
<1>3. n + 1 \in DOMAIN inbox' /\ Herald(inbox'[n + 1])
  BY <1>2
<1>4. Latest(n + 1)'
  BY <1>2 DEF Latest
<1> QED
  BY <1>3, <1>4 DEF Coming

LEMMA FailuresGrow ==
    ASSUME TypeOK, FailuresOK, NEW t \in Seq(Message), inbox' = inbox \o t,
           \A i \in DOMAIN t : t[i].kind = "reply" /\ t[i].answer = Failed => ~up',
           up' => up \/ \E i \in DOMAIN t : Risen(t[i])
    PROVE  FailuresOK'
<1> DEFINE n == Len(inbox)
<1>1. /\ n \in Nat /\ Len(t) \in Nat /\ DOMAIN inbox = 1..n /\ DOMAIN t = 1..Len(t)
      /\ DOMAIN inbox' = 1..(n + Len(t))
      /\ \A i \in 1..n : inbox'[i] = inbox[i]
      /\ \A i \in 1..Len(t) : inbox'[n + i] = t[i]
  BY Lengthened DEF TypeOK
<1> HIDE DEF n
<1>2. ASSUME NEW i \in DOMAIN inbox', inbox'[i].kind = "reply", inbox'[i].answer = Failed, up'
      PROVE  \E k \in DOMAIN inbox' : k > i /\ Risen(inbox'[k])
  <2>1. CASE i <= n
    <3>1. i \in DOMAIN inbox /\ inbox[i].kind = "reply" /\ inbox[i].answer = Failed
      BY <1>1, <1>2, <2>1
    <3>2. CASE up
      <4>1. PICK k \in DOMAIN inbox : k > i /\ Risen(inbox[k])
        BY <3>1, <3>2 DEF FailuresOK, Latest
      <4>2. k \in DOMAIN inbox' /\ inbox'[k] = inbox[k]
        BY <1>1
      <4> QED
        BY <4>1, <4>2
    <3>3. CASE ~up
      <4>1. PICK k \in DOMAIN t : Risen(t[k])
        BY <1>2, <3>3
      <4>2. n + k \in DOMAIN inbox' /\ n + k > i /\ inbox'[n + k] = t[k]
        BY <1>1, <2>1
      <4> QED
        BY <4>1, <4>2
    <3> QED
      BY <3>2, <3>3
  <2>2. CASE ~(i <= n)
    <3> DEFINE k == i - n
    <3>1. k \in DOMAIN t /\ n + k = i
      BY <1>1, <2>2
    <3> HIDE DEF k
    <3>2. t[k].kind = "reply" /\ t[k].answer = Failed
      BY <1>1, <1>2, <3>1
    <3> QED
      BY <1>2, <3>1, <3>2
  <2> QED
    BY <2>1, <2>2
<1> QED
  BY <1>2 DEF FailuresOK, Latest

LEMMA OrderlyGrows ==
    ASSUME TypeOK, Orderly, NEW t \in Seq(Message), inbox' = inbox \o t, UNCHANGED client,
           \A i \in DOMAIN t : t[i].kind = "reply" => t[i].call = Objects,
           ~up' => content' = Nothing, orphans' = {},
           outbox' \in Seq({First, Objects}), calls' \in Seq({Objects}),
           Copies({Objects})' = Copies({Objects})
    PROVE  Orderly'
<1> DEFINE n == Len(inbox)
<1>1. /\ n \in Nat /\ Len(t) \in Nat /\ DOMAIN inbox = 1..n /\ DOMAIN t = 1..Len(t)
      /\ DOMAIN inbox' = 1..(n + Len(t))
      /\ \A i \in 1..n : inbox'[i] = inbox[i]
      /\ \A i \in 1..Len(t) : inbox'[n + i] = t[i]
  BY Lengthened DEF TypeOK
<1> HIDE DEF n
<1>2. ASSUME NEW i \in DOMAIN inbox', inbox'[i].kind = "reply" PROVE inbox'[i].call = Objects
  <2>1. CASE i <= n
    BY <1>1, <1>2, <2>1 DEF Orderly
  <2>2. CASE ~(i <= n)
    <3> DEFINE k == i - n
    <3>1. k \in DOMAIN t /\ n + k = i
      BY <1>1, <2>2
    <3> HIDE DEF k
    <3> QED
      BY <1>1, <1>2, <3>1
  <2> QED
    BY <2>1, <2>2
<1>3. UNCHANGED <<refs, released, handlers, fetching>>
  BY DEF client
<1>4. SetFirst' /\ (refs = IF released THEN 0 ELSE 1)'
  BY <1>3 DEF Orderly, SetFirst
<1>5. refs' > 0 => Copies({Objects})' = IF fetching' THEN 1 ELSE 0
  BY <1>3 DEF Orderly
<1> QED
  BY <1>2, <1>4, <1>5 DEF Orderly

\* Messages t come from the service or the bus; g is how the contents change with
\* them.
LEMMA AgreeGrows ==
    ASSUME AgreeInv, Invariant', NEW t \in Seq(Message), inbox' = inbox \o t,
           UNCHANGED client,
           \A i \in DOMAIN t : /\ t[i].kind = "reply" => t[i].call = Objects
                               /\ t[i].kind = "reply" /\ t[i].answer = Failed => ~up',
           up' => up \/ \E i \in DOMAIN t : Risen(t[i]),
           ~up' => content' = Nothing, orphans' = {},
           outbox' \in Seq({First, Objects}), calls' \in Seq({Objects}),
           Copies({Objects})' = Copies({Objects}),
           NEW g \in [0..Len(t) -> Contents], g[0] = content, g[Len(t)] = content',
           \A i \in 1..Len(t) : Tells(t[i], g[i - 1], g[i]),
           \A c : up' /\ (up => Coming(c)) => Coming(c)'
    PROVE  AgreeInv'
<1>1. TypeOK /\ inbox \in Seq(Message)
  BY DEF AgreeInv, Invariant, TypeOK
<1>2. Orderly'
  BY <1>1, OrderlyGrows DEF AgreeInv
<1>3. FailuresOK'
  BY <1>1, FailuresGrow DEF AgreeInv
<1>4. UNCHANGED <<refs, proxies, proxy>>
  BY DEF client
<1>5. ASSUME refs' > 0 PROVE Agreement'
  <2>1. PICK h \in [0..Len(inbox) -> Contents] :
           Story(h, inbox, content) /\ Sound(h[0]) /\ (up => Coming(h[0]))
    BY <1>4, <1>5 DEF AgreeInv, Agreement
  <2>2. PICK k : Story(k, inbox \o t, g[Len(t)]) /\ k[0] = h[0]
    <3>1. \A i \in 1..Len(t) : Tells(t[i], g[i - 1], g[i])
      OBVIOUS
    <3>2. inbox \in Seq(Message) /\ t \in Seq(Message) /\ Story(h, inbox, content)
          /\ g \in [0..Len(t) -> Contents] /\ g[0] = content
      BY <1>1, <2>1
    <3> QED
      BY ONLY <3>1, <3>2, StoryGrows
  <2>3. Story(k, inbox', content')
    BY <2>2
  <2>4. Sound(k[0])'
    BY <1>4, <2>1, <2>2 DEF Sound, Shows, Known
  <2>5. up' => Coming(k[0])'
    BY <2>1, <2>2
  <2>6. k \in [0..Len(inbox') -> Contents]
    BY <2>3 DEF Story
  <2> QED
    BY <2>3, <2>4, <2>5, <2>6 DEF Agreement
<1> QED
  BY <1>2, <1>3, <1>5 DEF AgreeInv

\* ... and one message only
LEMMA AgreeHears ==
    ASSUME AgreeInv, Invariant', NEW m \in Message, inbox' = inbox \o <<m>>,
           UNCHANGED client,
           m.kind = "reply" => m.call = Objects,
           m.kind = "reply" /\ m.answer = Failed => ~up',
           up' => up \/ Risen(m),
           ~up' => content' = Nothing, orphans' = {},
           outbox' \in Seq({First, Objects}), calls' \in Seq({Objects}),
           Copies({Objects})' = Copies({Objects}),
           content' \in Contents, Tells(m, content, content'),
           \A c : up' /\ (up => Coming(c)) => Coming(c)'
    PROVE  AgreeInv'
<1> DEFINE t == <<m>>
           g == [i \in 0..1 |-> IF i = 0 THEN content ELSE content']
<1>1. t \in Seq(Message) /\ Len(t) = 1 /\ DOMAIN t = 1..1 /\ t[1] = m /\ inbox' = inbox \o t
  BY One
<1>2. g \in [0..1 -> Contents] /\ g[0] = content /\ g[1] = content'
  BY DEF AgreeInv, Invariant, TypeOK
<1> HIDE DEF t, g
<1>3. \A i \in 1..1 : Tells(t[i], g[i - 1], g[i])
  <2>1. Tells(t[1], g[0], g[1])
    BY <1>1, <1>2
  <2>2. \A i \in 1..1 : i = 1 /\ i - 1 = 0
    OBVIOUS
  <2> QED
    BY <2>1, <2>2
<1>4. \A i \in DOMAIN t : /\ t[i].kind = "reply" => t[i].call = Objects
                          /\ t[i].kind = "reply" /\ t[i].answer = Failed => ~up'
  BY <1>1
<1>5. up' => up \/ \E i \in DOMAIN t : Risen(t[i])
  BY <1>1
<1>6. /\ g \in [0..Len(t) -> Contents] /\ g[Len(t)] = content'
      /\ \A i \in 1..Len(t) : Tells(t[i], g[i - 1], g[i])
  BY <1>1, <1>2, <1>3
<1> QED
  BY <1>1, <1>2, <1>4, <1>5, <1>6, AgreeGrows

\* The parts of AgreeInv that a step of the service or the bus starts from
LEMMA AgreeParts ==
    ASSUME AgreeInv
    PROVE  /\ Invariant /\ TypeOK /\ Orderly /\ SetFirst
           /\ orphans = {} /\ (~up => content = Nothing)
           /\ outbox \in Seq({First, Objects}) /\ calls \in Seq({Objects})
           /\ inbox \in Seq(Message) /\ content \in Contents /\ up \in BOOLEAN
           /\ Cardinality(Hits(outbox, {Objects})) \in Nat
           /\ Cardinality(Hits(calls, {Objects})) \in Nat
           /\ Cardinality(orphans \intersect {Objects}) = 0
           /\ Cardinality(Hits(inbox, Replies({Objects}))) \in Nat
<1>1. Invariant /\ Orderly /\ TypeOK
  BY DEF AgreeInv, Invariant
<1>2. Cardinality(orphans \intersect {Objects}) = 0
  <2>1. orphans \intersect {Objects} = {}
    BY <1>1 DEF Orderly
  <2> QED
    BY <2>1, FS_EmptySet
<1> QED
  BY <1>1, <1>2, CopiesAre DEF Orderly, TypeOK

LEMMA AgreeUp == AgreeInv /\ ServiceUp /\ Invariant' => AgreeInv'
<1> SUFFICES ASSUME AgreeInv, ServiceUp, Invariant' PROVE AgreeInv'
  OBVIOUS
<1> DEFINE m == [kind |-> "owner", up |-> TRUE]
<1>1. m \in Message /\ m.kind = "owner" /\ m.up /\ \A H : m \notin Replies(H)
  BY SignalType
<1>2. inbox' = inbox \o <<m>>
  BY DEF ServiceUp, Sent
<1> HIDE DEF m
<1>3. ~up /\ up' = TRUE /\ UNCHANGED <<outbox, calls, orphans, client>> /\ content' \in Contents
  BY DEF ServiceUp, bus
<1>4. Risen(m) /\ ~Down(m) /\ Herald(m)
  BY <1>1 DEF Risen, Down, Herald
<1>5. Tells(m, content, content')
  BY <1>1, <1>3, <1>4, AgreeParts DEF Tells
<1>6. Copies({Objects})' = Copies({Objects})
  <2>1. Cardinality(Hits(inbox', Replies({Objects})))
          = Cardinality(Hits(inbox, Replies({Objects}))) + 0
    <3>1. <<m>> \in Seq(Message) /\ Cardinality(Hits(<<m>>, Replies({Objects}))) = 0
      BY <1>1, One, HitsOne
    <3> QED
      BY <1>2, <3>1, AgreeParts, Moved
  <2> QED
    BY <1>3, <2>1, AgreeParts DEF Copies
<1>7. \A c : Coming(c)'
  BY <1>1, <1>2, <1>4, AgreeParts, HeraldComes
<1>8. /\ orphans' = {} /\ outbox' \in Seq({First, Objects}) /\ calls' \in Seq({Objects})
  BY <1>3, AgreeParts
<1> QED
  BY <1>1, <1>2, <1>3, <1>4, <1>5, <1>6, <1>7, <1>8, AgreeHears

LEMMA AgreeExits == AgreeInv /\ ServiceExits /\ Invariant' => AgreeInv'
<1> SUFFICES ASSUME AgreeInv, ServiceExits, Invariant' PROVE AgreeInv'
  OBVIOUS
<1>1. PICK t : Exits(t)
  BY AgreeParts, ExitsMessages
<1>2. /\ t \in Seq(Message) /\ inbox' = inbox \o t
      /\ 1 \in DOMAIN t /\ Down(t[1]) /\ ~Risen(t[1]) /\ t[1].kind = "owner"
      /\ \A i \in DOMAIN t : i # 1 => /\ ~Risen(t[i]) /\ t[i].kind = "reply"
                                      /\ t[i].call \in ToSet(calls) /\ t[i].answer = Failed
  BY <1>1 DEF Exits, Arrives
<1>3. /\ up' = FALSE /\ UNCHANGED <<outbox, orphans, client>> /\ content' = Nothing
      /\ calls' = <<>>
  BY DEF ServiceExits
<1>4. Nothing \in Contents
  BY DEF Nothing, Contents
<1>5. Len(t) \in Nat \ {0} /\ DOMAIN t = 1..Len(t)
  <2>1. Len(t) \in Nat /\ DOMAIN t = 1..Len(t)
    BY <1>2, Domain
  <2> QED
    BY <1>2, <2>1
<1> DEFINE g == [i \in 0..Len(t) |-> IF i = 0 THEN content ELSE Nothing]
<1>6. /\ g \in [0..Len(t) -> Contents] /\ g[0] = content /\ g[Len(t)] = Nothing
      /\ \A i \in 1..Len(t) : g[i] = Nothing
  BY <1>4, <1>5, AgreeParts
<1> HIDE DEF g
<1>7. ASSUME NEW i \in 1..Len(t) PROVE Tells(t[i], g[i - 1], g[i])
  <2>1. CASE i = 1
    <3>1. g[i] = Nothing /\ i \in DOMAIN t /\ t[i].kind = "owner" /\ ~Risen(t[i])
      BY <1>2, <1>5, <1>6, <2>1
    <3> QED
      BY <3>1 DEF Tells
  <2>2. CASE i # 1
    <3>1. i - 1 \in 1..Len(t)
      BY <1>5, <2>2
    <3>2. g[i] = Nothing /\ g[i - 1] = Nothing
      BY <1>6, <3>1
    <3>3. t[i].kind = "reply" /\ t[i].answer = Failed
      BY <1>2, <1>5, <2>2
    <3>4. ~Risen(t[i]) /\ ~Down(t[i])
      BY <3>3 DEF Risen, Down
    <3> QED
      BY <3>2, <3>3, <3>4 DEF Tells
  <2> QED
    BY <2>1, <2>2
<1>8. ASSUME NEW i \in DOMAIN t PROVE t[i].kind = "reply" => t[i].call = Objects
  <2>1. \A x \in ToSet(calls) : x = Objects
    BY AgreeParts, Domain
  <2> QED
    BY <1>2, <2>1
<1>9. Copies({Objects})' = Copies({Objects})
  BY AgreeParts, ExitsMessages
<1>10. orphans' = {} /\ outbox' \in Seq({First, Objects}) /\ calls' \in Seq({Objects})
  BY <1>3, AgreeParts
<1>11. \A i \in 1..Len(t) : Tells(t[i], g[i - 1], g[i])
  BY <1>7
<1>12. \A i \in DOMAIN t : /\ t[i].kind = "reply" => t[i].call = Objects
                           /\ t[i].kind = "reply" /\ t[i].answer = Failed => ~up'
  BY <1>3, <1>8
<1>13. g[Len(t)] = content'
  BY <1>3, <1>6
<1> QED
  BY <1>2, <1>3, <1>6, <1>9, <1>10, <1>11, <1>12, <1>13, AgreeGrows

LEMMA AgreeChanges ==
    ASSUME AgreeInv, NEW n \in Node, NEW v \in Val \union {Absent}, ServiceChanges(n, v),
           Invariant'
    PROVE  AgreeInv'
<1> DEFINE m == IF v = Absent THEN [kind |-> "removed", node |-> n]
                ELSE [kind |-> IF content[n] = Absent THEN "added" ELSE "changed",
                      node |-> n, value |-> v]
<1>1. inbox' = inbox \o <<m>>
  BY DEF ServiceChanges, Sent
<1>2. /\ up /\ UNCHANGED <<up, outbox, calls, orphans, client>> /\ content[n] # v
      /\ content' = [content EXCEPT ![n] = v] /\ content' \in Contents
  BY AgreeParts DEF ServiceChanges, bus, Contents
<1>3. /\ m \in Message /\ m.kind \in {"added", "changed", "removed"} /\ m.node = n
      /\ m.kind = "removed" => v = Absent
      /\ m.kind = "added" => content[n] = Absent /\ m.value = v
      /\ m.kind = "changed" => content[n] # Absent /\ m.value = v
      /\ m \notin Replies({Objects})
  <2>1. CASE v = Absent
    <3>1. m = [kind |-> "removed", node |-> n]
      BY <2>1
    <3> HIDE DEF m
    <3>2. m.kind = "removed" /\ m.node = n
      BY <3>1
    <3>3. m \in Message /\ m \notin Replies({Objects})
      BY <3>1, SignalType
    <3> QED
      BY <2>1, <3>2, <3>3
  <2>2. CASE v # Absent /\ content[n] = Absent
    <3>1. m = [kind |-> "added", node |-> n, value |-> v] /\ v \in Val
      BY <2>2
    <3> HIDE DEF m
    <3>2. m.kind = "added" /\ m.node = n /\ m.value = v
      BY <3>1
    <3>3. m \in Message /\ m \notin Replies({Objects})
      BY <3>1, SignalType
    <3> QED
      BY <2>2, <3>2, <3>3
  <2>3. CASE v # Absent /\ content[n] # Absent
    <3>1. m = [kind |-> "changed", node |-> n, value |-> v] /\ v \in Val
      BY <2>3
    <3> HIDE DEF m
    <3>2. m.kind = "changed" /\ m.node = n /\ m.value = v
      BY <3>1
    <3>3. m \in Message /\ m \notin Replies({Objects})
      BY <3>1, SignalType
    <3> QED
      BY <2>3, <3>2, <3>3
  <2> QED
    BY <2>1, <2>2, <2>3
<1> HIDE DEF m
<1>4. ~Risen(m) /\ ~Down(m) /\ m.kind # "reply"
  BY <1>3 DEF Risen, Down
<1>5. Tells(m, content, content')
  BY <1>2, <1>3, <1>4 DEF Tells
<1>6. <<m>> \in Seq(Message) /\ \A i \in DOMAIN <<m>> : ~Risen(<<m>>[i])
  BY <1>3, <1>4, One
<1>7. Copies({Objects})' = Copies({Objects})
  <2>1. Cardinality(Hits(inbox', Replies({Objects})))
          = Cardinality(Hits(inbox, Replies({Objects}))) + 0
    <3>1. Cardinality(Hits(<<m>>, Replies({Objects}))) = 0
      BY <1>3, HitsOne
    <3> QED
      BY <1>1, <1>6, <3>1, AgreeParts, Moved
  <2> QED
    BY <1>2, <2>1, AgreeParts DEF Copies
<1>8. ASSUME NEW c, Coming(c) PROVE Coming(c)'
  <2>1. UNCHANGED <<proxies, proxy, outbox, calls>>
    BY <1>2 DEF client
  <2> QED
    BY <1>1, <1>6, <1>8, <2>1, AgreeParts, ComingGrows
<1>9. /\ orphans' = {} /\ outbox' \in Seq({First, Objects}) /\ calls' \in Seq({Objects})
  BY <1>2, AgreeParts
<1> QED
  BY <1>1, <1>2, <1>3, <1>4, <1>5, <1>7, <1>8, <1>9, AgreeHears

LEMMA AgreeRoutes == AgreeInv /\ BusRoutes /\ Invariant' => AgreeInv'
<1> SUFFICES ASSUME AgreeInv, BusRoutes, Invariant' PROVE AgreeInv'
  OBVIOUS
<1> DEFINE c == Head(outbox)
<1>1. outbox # <<>> /\ outbox' = Tail(outbox) /\ UNCHANGED <<up, content, orphans, client>>
  BY DEF BusRoutes, service
<1>2. c \in {First, Objects} /\ outbox' \in Seq({First, Objects})
  BY <1>1, AgreeParts, Shifted
<1>3. Cardinality(Hits(outbox, {Objects}))
        = (IF c \in {Objects} THEN 1 ELSE 0) + Cardinality(Hits(outbox', {Objects}))
  BY <1>1, AgreeParts, HitsTail
<1>4. Cardinality(Hits(outbox', {Objects})) \in Nat /\ orphans' = {} /\ content' \in Contents
      /\ (~up' => content' = Nothing) /\ (up' => up)
  <2>1. Cardinality(Hits(outbox', {Objects})) \in 0..Len(outbox')
    BY <1>2, HitsFinite
  <2> QED
    BY <1>1, <2>1, AgreeParts
<1> DEFINE sent == Cardinality(Hits(outbox', {Objects}))
           open == Cardinality(Hits(calls, {Objects}))
           left == Cardinality(orphans \intersect {Objects})
           heard == Cardinality(Hits(inbox, Replies({Objects})))
<1>5. CASE c = First
  <2> DEFINE m == [kind |-> "look", up |-> up]
  <2>1. m \in Message /\ m.kind = "look" /\ m.up = up /\ m \notin Replies({Objects})
    BY AgreeParts, SignalType
  <2>2. inbox' = inbox \o <<m>> /\ calls' = calls
    BY <1>5 DEF BusRoutes, Sent
  <2> HIDE DEF m
  <2>3. Tells(m, content, content')
    BY <1>1, <2>1 DEF Tells, Risen, Down
  <2>4. Copies({Objects})' = Copies({Objects})
    <3>1. <<m>> \in Seq(Message) /\ Cardinality(Hits(<<m>>, Replies({Objects}))) = 0
      BY <2>1, One, HitsOne
    <3>2. Cardinality(Hits(inbox', Replies({Objects})))
            = Cardinality(Hits(inbox, Replies({Objects}))) + 0
      BY <2>2, <3>1, AgreeParts, Moved
    <3>3. c \notin {Objects}
      BY <1>5, Calls
    <3> QED
      BY <1>1, <1>3, <1>4, <2>2, <3>2, <3>3, AgreeParts DEF Copies
  <2>5. \A k : up' => Coming(k)'
    <3>1. up' => Herald(m)
      BY <1>1, <2>1 DEF Herald
    <3> QED
      BY <2>1, <2>2, <3>1, AgreeParts, HeraldComes
  <2>6. calls' \in Seq({Objects}) /\ m.kind # "reply"
    BY <2>1, <2>2, AgreeParts
  <2> QED
    BY <1>1, <1>2, <1>4, <2>1, <2>2, <2>3, <2>4, <2>5, <2>6, AgreeHears
<1>6. CASE c # First /\ ~up
  <2> DEFINE m == Reply(Objects, Failed)
  <2>1. c = Objects /\ Objects \in ServiceCall
    BY <1>2, <1>6 DEF ServiceCall
  <2>2. /\ m \in Message /\ ~Down(m) /\ ~Risen(m) /\ m \in Replies({Objects})
        /\ m.kind = "reply" /\ m.call = Objects /\ m.answer = Failed
    BY <2>1, ReplyType
  <2>3. inbox' = inbox \o <<m>> /\ calls' = calls
    BY <1>6, <2>1 DEF BusRoutes, Sent
  <2> HIDE DEF m
  <2>4. Tells(m, content, content')
    BY <1>1, <2>2 DEF Tells
  <2>5. Copies({Objects})' = Copies({Objects})
    <3>1. <<m>> \in Seq(Message) /\ Cardinality(Hits(<<m>>, Replies({Objects}))) = 1
      BY <2>2, One, HitsOne
    <3>2. Cardinality(Hits(inbox', Replies({Objects})))
            = Cardinality(Hits(inbox, Replies({Objects}))) + 1
      BY <2>3, <3>1, AgreeParts, Moved
    <3>3. c \in {Objects} /\ orphans' = orphans
      BY <1>1, <2>1
    <3>4. open \in Nat /\ left \in Nat /\ heard \in Nat /\ sent \in Nat
      BY <1>4, AgreeParts
    <3> HIDE DEF c
    <3> QED
      BY <1>3, <2>3, <3>2, <3>3, <3>4 DEF Copies
  <2>6. calls' \in Seq({Objects}) /\ ~up'
    BY <1>1, <1>6, <2>3, AgreeParts
  <2> QED
    BY <1>1, <1>2, <1>4, <2>2, <2>3, <2>4, <2>5, <2>6, AgreeHears
<1>7. CASE c # First /\ up
  <2>1. c = Objects /\ calls' = Append(calls, Objects) /\ inbox' = inbox
    BY <1>2, <1>7 DEF BusRoutes
  <2>2. calls' \in Seq({Objects}) /\ calls' # <<>>
    BY <2>1, AgreeParts, AppendProperties
  <2>3. Cardinality(Hits(calls', {Objects})) = Cardinality(Hits(calls, {Objects})) + 1
    BY <2>1, AgreeParts, HitsAppend
  <2>4. Copies({Objects})' = Copies({Objects})
    <3>1. orphans' = orphans /\ inbox' = inbox /\ c \in {Objects}
      BY <1>1, <2>1
    <3>2. open \in Nat /\ left \in Nat /\ heard \in Nat /\ sent \in Nat
      BY <1>4, AgreeParts
    <3> HIDE DEF c
    <3> QED
      BY <1>3, <2>3, <3>1, <3>2 DEF Copies
  <2>5. \A k : Coming(k)'
    BY <2>2 DEF Coming
  <2> DEFINE t == <<>>
             g == [i \in 0..0 |-> content]
  <2>6. t \in Seq(Message) /\ Len(t) = 0 /\ DOMAIN t = {} /\ inbox' = inbox \o t
    <3>1. inbox \o <<>> = inbox
      BY AgreeParts, ConcatEmptySeq
    <3>2. <<>> \in Seq(Message) /\ Len(<<>>) = 0 /\ DOMAIN <<>> = {}
      OBVIOUS
    <3> QED
      BY <2>1, <3>1, <3>2
  <2>7. g \in [0..0 -> Contents] /\ g[0] = content /\ g[0] = content'
    BY <1>1, AgreeParts
  <2> HIDE DEF t, g
  <2>8. /\ \A i \in 1..Len(t) : Tells(t[i], g[i - 1], g[i])
        /\ \A i \in DOMAIN t : /\ t[i].kind = "reply" => t[i].call = Objects
                               /\ t[i].kind = "reply" /\ t[i].answer = Failed => ~up'
        /\ g \in [0..Len(t) -> Contents] /\ g[Len(t)] = content'
    <3>1. 1..Len(t) = {}
      BY <2>6
    <3> QED
      BY <2>6, <2>7, <3>1
  <2> QED
    BY <1>1, <1>2, <1>4, <2>2, <2>4, <2>5, <2>6, <2>7, <2>8, AgreeGrows
<1> QED
  BY <1>5, <1>6, <1>7

LEMMA AgreeAnswers ==
    ASSUME ~MayFail
    PROVE  AgreeInv /\ ServiceAnswers /\ Invariant' => AgreeInv'
<1> SUFFICES ASSUME AgreeInv, ServiceAnswers, Invariant' PROVE AgreeInv'
  OBVIOUS
<1>1. /\ calls # <<>> /\ calls' = Tail(calls)
      /\ UNCHANGED <<up, content, outbox, orphans, client>>
  BY DEF ServiceAnswers, service
<1>2. Head(calls) = Objects /\ calls' \in Seq({Objects})
  BY <1>1, AgreeParts, Shifted
<1> DEFINE m == Reply(Objects, content)
<1>3. inbox' = inbox \o <<m>>
  BY <1>2 DEF ServiceAnswers, Answer, Sent
<1>4. /\ m \in Message /\ ~Down(m) /\ ~Risen(m) /\ m \in Replies({Objects})
      /\ m.kind = "reply" /\ m.call = Objects /\ m.answer = content
  <2>1. Objects \in ServiceCall
    BY DEF ServiceCall
  <2> QED
    BY <2>1, AgreeParts, ReplyType
<1> HIDE DEF m
<1>5. m.answer # Failed
  BY <1>4, AgreeParts, ClientAssumption DEF Contents
<1>6. Tells(m, content, content')
  BY <1>1, <1>4 DEF Tells
<1>7. Copies({Objects})' = Copies({Objects})
  <2>1. <<m>> \in Seq(Message) /\ Cardinality(Hits(<<m>>, Replies({Objects}))) = 1
    BY <1>4, One, HitsOne
  <2>2. Cardinality(Hits(inbox', Replies({Objects})))
          = Cardinality(Hits(inbox, Replies({Objects}))) + 1
    BY <1>3, <2>1, AgreeParts, Moved
  <2>3. Cardinality(Hits(calls, {Objects})) = 1 + Cardinality(Hits(calls', {Objects}))
    <3>1. Cardinality(Hits(calls, {Objects}))
            = (IF Head(calls) \in {Objects} THEN 1 ELSE 0)
              + Cardinality(Hits(Tail(calls), {Objects}))
      BY <1>1, AgreeParts, HitsTail
    <3> QED
      BY <1>1, <1>2, <3>1
  <2>4. Cardinality(Hits(calls', {Objects})) \in Nat
    BY <1>2, HitsFinite
  <2> QED
    BY <1>1, <2>2, <2>3, <2>4, AgreeParts DEF Copies
<1>8. \A c : Coming(c)'
  <2>1. Herald(m)
    BY <1>4, <1>5 DEF Herald, Full
  <2> QED
    BY <1>3, <1>4, <2>1, AgreeParts, HeraldComes
<1>9. /\ orphans' = {} /\ outbox' \in Seq({First, Objects}) /\ content' \in Contents
      /\ (~up' => content' = Nothing) /\ (up' => up)
  BY <1>1, AgreeParts
<1> QED
  BY <1>1, <1>2, <1>3, <1>4, <1>5, <1>6, <1>7, <1>8, <1>9, AgreeHears

\* What dispatching the first message leaves
LEMMA LatestShifts ==
    ASSUME inbox \in Seq(Message), inbox # <<>>, inbox' = Tail(inbox), NEW i \in Nat,
           Latest(i) \/ Latest(i + 1)
    PROVE  Latest(i)'
<1>1. /\ Len(inbox) \in Nat /\ DOMAIN inbox = 1..Len(inbox)
      /\ DOMAIN inbox' = 1..(Len(inbox) - 1)
      /\ \A k \in DOMAIN inbox' : k + 1 \in DOMAIN inbox /\ inbox'[k] = inbox[k + 1]
  BY Shifted, Domain
<1>2. ASSUME NEW k \in DOMAIN inbox', k > i PROVE ~Risen(inbox'[k])
  <2>1. k + 1 > i + 1 /\ k + 1 > i /\ k + 1 \in DOMAIN inbox /\ inbox'[k] = inbox[k + 1]
    BY <1>1, <1>2
  <2> QED
    BY <2>1 DEF Latest
<1> QED
  BY <1>2 DEF Latest

LEMMA FailuresShift ==
    ASSUME TypeOK, FailuresOK, inbox # <<>>, inbox' = Tail(inbox), UNCHANGED up
    PROVE  FailuresOK'
<1>1. /\ Len(inbox) \in Nat /\ DOMAIN inbox = 1..Len(inbox)
      /\ DOMAIN inbox' = 1..(Len(inbox) - 1)
      /\ \A k \in DOMAIN inbox' : k + 1 \in DOMAIN inbox /\ inbox'[k] = inbox[k + 1]
  BY Shifted, Domain DEF TypeOK
<1>2. ASSUME NEW i \in DOMAIN inbox', inbox'[i].kind = "reply", inbox'[i].answer = Failed, up'
      PROVE  \E k \in DOMAIN inbox' : k > i /\ Risen(inbox'[k])
  <2>1. i + 1 \in DOMAIN inbox /\ inbox'[i] = inbox[i + 1]
    BY <1>1
  <2>2. PICK k \in DOMAIN inbox : k > i + 1 /\ Risen(inbox[k])
    BY <1>2, <2>1 DEF FailuresOK, Latest
  <2> DEFINE l == k - 1
  <2>3. l \in DOMAIN inbox' /\ l > i /\ l + 1 = k
    BY <1>1, <2>2
  <2> HIDE DEF l
  <2> QED
    BY <1>1, <2>2, <2>3
<1> QED
  BY <1>2 DEF FailuresOK, Latest

\* Where the only GetManagedObjects call is
LEMMA CallIs ==
    ASSUME AgreeInv, refs > 0
    PROVE  /\ \A i \in DOMAIN inbox : inbox[i].kind = "reply" => fetching
           /\ fetching => \/ outbox # <<>> \/ calls # <<>>
                          \/ \E i \in DOMAIN inbox : inbox[i].kind = "reply"
<1>1. Copies({Objects}) = (IF fetching THEN 1 ELSE 0) /\ fetching \in BOOLEAN
  BY DEF AgreeInv, Orderly, Invariant, TypeOK
<1>2. ASSUME NEW i \in DOMAIN inbox, inbox[i].kind = "reply" PROVE fetching
  <2>1. inbox[i] \in Message /\ inbox[i].call = Objects
    BY <1>2, AgreeParts, Domain DEF Orderly
  <2>2. inbox[i] = Reply(Objects, inbox[i].answer)
        /\ inbox[i].answer \in {Failed} \union Contents
    BY <1>2, <2>1, MessageType
  <2>3. Objects \in ServiceCall
    BY DEF ServiceCall
  <2>4. inbox[i] \in Replies({Objects})
    BY <2>2, <2>3, ReplyType
  <2>5. Cardinality(Hits(inbox, Replies({Objects}))) # 0
    BY <2>4, AgreeParts, HitsNone
  <2>6. Copies({Objects}) # 0
    BY <2>5, AgreeParts DEF Copies
  <2> QED
    BY <1>1, <2>6
<1>3. ASSUME fetching, outbox = <<>>, calls = <<>>
      PROVE  \E i \in DOMAIN inbox : inbox[i].kind = "reply"
  <2>1. Cardinality(Hits(outbox, {Objects})) = 0 /\ Cardinality(Hits(calls, {Objects})) = 0
    <3>1. \A s : s = <<>> => Hits(s, {Objects}) = {}
      BY DEF Hits
    <3>2. Hits(outbox, {Objects}) = {} /\ Hits(calls, {Objects}) = {}
      BY <1>3, <3>1
    <3> QED
      BY <3>2, FS_EmptySet
  <2>2. Cardinality(Hits(inbox, Replies({Objects}))) # 0
    BY <1>1, <1>3, <2>1, AgreeParts DEF Copies
  <2>3. PICK i \in DOMAIN inbox : inbox[i] \in Replies({Objects})
    BY <2>2, AgreeParts, HitsNone
  <2> QED
    BY <2>3 DEF Replies
<1> QED
  BY <1>2, <1>3

\* What a message does to the calls
LEMMA Dispatched ==
    ASSUME AgreeInv, Dispatch, NEW m, m = Head(inbox)
    PROVE  /\ inbox # <<>> /\ inbox' = Tail(inbox) /\ m \in Message
           /\ m.kind = "reply" => m.call = Objects
           /\ \/ ServiceConnect(m) \/ ServiceDisconnect(m)
              \/ InterfacesAdded(m) \/ InterfacesRemoved(m) \/ PropertiesChanged(m)
              \/ ManagedObjects(m) \/ Ignored(m)
           /\ UNCHANGED <<up, content, calls, orphans, refs, released, handlers>>
           /\ \/ UNCHANGED <<outbox, fetching>> /\ (m.kind = "reply" => refs = 0)
              \/ /\ ServiceConnect(m) /\ ~fetching
                 /\ outbox' = Append(outbox, Objects) /\ fetching' = TRUE
              \/ ManagedObjects(m) /\ outbox' = outbox /\ fetching' = FALSE
<1>1. /\ inbox # <<>> /\ inbox' = Tail(inbox) /\ UNCHANGED <<up, content, calls, orphans>>
      /\ \/ ServiceConnect(m) \/ ServiceDisconnect(m)
         \/ InterfacesAdded(m) \/ InterfacesRemoved(m) \/ PropertiesChanged(m)
         \/ ManagedObjects(m) \/ AllProperties(m) \/ Ignored(m)
  BY DEF Dispatch, service
<1>2. m \in Message /\ m = inbox[1] /\ 1 \in DOMAIN inbox
  BY <1>1, AgreeParts, Shifted
<1>3. m.kind = "reply" => m.call = Objects
  BY <1>2, AgreeParts DEF Orderly
<1>4. ~AllProperties(m)
  BY <1>3, Calls DEF AllProperties
<1>5. m.kind = "reply" => fetching \/ ~(refs > 0)
  BY <1>2, CallIs
<1>6. Handled /\ refs \in Nat /\ fetching \in BOOLEAN
  BY AgreeParts DEF SetFirst, Handled, TypeOK
<1>7. CASE ServiceConnect(m)
  <2>1. /\ GetManagedObjects(TRUE, Handled) /\ UNCHANGED <<released, handlers>>
        /\ m.kind # "reply"
    BY <1>7 DEF ServiceConnect
  <2>2. CASE fetching
    <3>1. UNCHANGED <<outbox, fetching, refs>>
      BY <1>6, <2>1, <2>2 DEF GetManagedObjects
    <3> QED
      BY <1>1, <1>2, <1>3, <1>7, <2>1, <3>1
  <2>3. CASE ~fetching
    <3>1. outbox' = Append(outbox, Objects) /\ fetching' = TRUE /\ refs' = refs
      BY <1>6, <2>1, <2>3 DEF GetManagedObjects
    <3> QED
      BY <1>1, <1>2, <1>3, <1>7, <2>1, <2>3, <3>1
  <2> QED
    BY <2>2, <2>3
<1>8. CASE ServiceDisconnect(m) \/ InterfacesAdded(m) \/ InterfacesRemoved(m)
           \/ PropertiesChanged(m)
  <2>1. UNCHANGED <<outbox, refs, released, handlers, fetching>> /\ m.kind # "reply"
    BY <1>8 DEF ServiceDisconnect, InterfacesAdded, InterfacesRemoved, PropertiesChanged
  <2> QED
    BY <1>1, <1>2, <1>3, <1>8, <2>1
<1>9. CASE ManagedObjects(m)
  <2>1. UNCHANGED <<outbox, refs, released, handlers>> /\ fetching' = FALSE
    BY <1>9 DEF ManagedObjects
  <2> QED
    BY <1>1, <1>2, <1>3, <1>9, <2>1
<1>10. CASE Ignored(m)
  <2>1. UNCHANGED <<outbox, refs, released, handlers, fetching>>
    BY <1>10 DEF Ignored, client
  <2>2. m.kind = "reply" => refs = 0
    BY <1>5, <1>6, <1>10 DEF Ignored
  <2> QED
    BY <1>1, <1>2, <1>3, <1>10, <2>1, <2>2
<1> QED
  BY <1>1, <1>4, <1>7, <1>8, <1>9, <1>10

LEMMA OrderlyShifts == AgreeInv /\ Dispatch => Orderly'
<1> SUFFICES ASSUME AgreeInv, Dispatch PROVE Orderly'
  OBVIOUS
<1> DEFINE G == Replies({Objects})
           sent == Cardinality(Hits(outbox, {Objects}))
           open == Cardinality(Hits(calls, {Objects}))
           left == Cardinality(orphans \intersect {Objects})
           heard == Cardinality(Hits(inbox, G))
           behind == Cardinality(Hits(Tail(inbox), G))
<1>1. PICK m : m = Head(inbox)
  OBVIOUS
<1>2. /\ inbox # <<>> /\ inbox' = Tail(inbox) /\ m \in Message
      /\ m.kind = "reply" => m.call = Objects
      /\ UNCHANGED <<up, content, calls, orphans, refs, released, handlers>>
      /\ \/ UNCHANGED <<outbox, fetching>> /\ (m.kind = "reply" => refs = 0)
         \/ /\ ServiceConnect(m) /\ ~fetching
            /\ outbox' = Append(outbox, Objects) /\ fetching' = TRUE
         \/ ManagedObjects(m) /\ outbox' = outbox /\ fetching' = FALSE
  BY <1>1, Dispatched
<1>3. outbox' \in Seq({First, Objects})
  <2>1. Objects \in {First, Objects} /\ outbox \in Seq({First, Objects})
    BY AgreeParts
  <2>2. Append(outbox, Objects) \in Seq({First, Objects})
    BY <2>1, AppendProperties
  <2> QED
    BY <1>2, <2>1, <2>2
<1>4. \A k \in DOMAIN inbox' : inbox'[k].kind = "reply" => inbox'[k].call = Objects
  <2>1. \A k \in DOMAIN inbox' : k + 1 \in DOMAIN inbox /\ inbox'[k] = inbox[k + 1]
    BY <1>2, AgreeParts, Shifted
  <2> QED
    BY <2>1, AgreeParts DEF Orderly
<1>5. sent \in Nat /\ open \in Nat /\ left \in Nat /\ heard \in Nat /\ behind \in Nat
  <2>1. Tail(inbox) \in Seq(Message)
    BY <1>2, AgreeParts, Shifted
  <2>2. behind \in 0..Len(Tail(inbox))
    BY <2>1, HitsFinite
  <2> HIDE DEF behind
  <2> QED
    BY <2>2, AgreeParts
<1>6. heard = (IF m \in G THEN 1 ELSE 0) + behind
  BY <1>1, <1>2, AgreeParts, HitsTail
<1>7. Copies({Objects}) = sent + open + left + heard
  BY DEF Copies
<1>8. Copies({Objects})' = Cardinality(Hits(outbox', {Objects})) + open + left + behind
  BY <1>2 DEF Copies
<1>9. m.kind # "reply" => m \notin G
  BY DEF Replies
<1> HIDE DEF sent, open, left, heard, behind
<1>10. refs > 0 => Copies({Objects}) = IF fetching THEN 1 ELSE 0
  BY AgreeParts DEF Orderly
<1>11. ASSUME refs > 0 PROVE Copies({Objects})' = IF fetching' THEN 1 ELSE 0
  <2>1. CASE UNCHANGED <<outbox, fetching>> /\ (m.kind = "reply" => refs = 0)
    <3>1. Cardinality(Hits(outbox', {Objects})) = sent /\ m \notin G /\ fetching' = fetching
      BY <1>9, <1>11, <2>1 DEF sent
    <3> HIDE DEF G
    <3> QED
      BY <1>5, <1>6, <1>7, <1>8, <1>10, <1>11, <3>1
  <2>2. CASE /\ ServiceConnect(m) /\ ~fetching
             /\ outbox' = Append(outbox, Objects) /\ fetching' = TRUE
    <3>1. m \notin G
      BY <1>9, <2>2 DEF ServiceConnect
    <3>2. Cardinality(Hits(outbox', {Objects})) = sent + 1
      <4>1. Objects \in {First, Objects}
        OBVIOUS
      <4>2. Cardinality(Hits(Append(outbox, Objects), {Objects}))
              = sent + (IF Objects \in {Objects} THEN 1 ELSE 0)
        BY <4>1, AgreeParts, HitsAppend DEF sent
      <4> QED
        BY <2>2, <4>2
    <3> HIDE DEF G
    <3> QED
      BY <1>5, <1>6, <1>7, <1>8, <1>10, <1>11, <2>2, <3>1, <3>2
  <2>3. CASE ManagedObjects(m) /\ outbox' = outbox /\ fetching' = FALSE
    <3>1. m.kind = "reply" /\ fetching /\ Cardinality(Hits(outbox', {Objects})) = sent
      BY <2>3 DEF ManagedObjects, sent
    <3>2. m \in G
      <4>1. Objects \in ServiceCall
        BY DEF ServiceCall
      <4>2. m = Reply(Objects, m.answer) /\ m.answer \in {Failed} \union Contents
        BY <1>2, <3>1, MessageType
      <4> QED
        BY <4>1, <4>2, ReplyType
    <3> HIDE DEF G
    <3> QED
      BY <1>5, <1>6, <1>7, <1>8, <1>10, <1>11, <2>3, <3>1, <3>2
  <2> QED
    BY <1>2, <2>1, <2>2, <2>3
<1>12. /\ SetFirst' /\ orphans' = {} /\ (refs = IF released THEN 0 ELSE 1)'
       /\ (~up' => content' = Nothing) /\ calls' \in Seq({Objects})
  BY <1>2, AgreeParts DEF Orderly, SetFirst
<1>13. refs' > 0 => Copies({Objects})' = IF fetching' THEN 1 ELSE 0
  BY <1>2, <1>11
<1> QED
  BY <1>3, <1>4, <1>12, <1>13 DEF Orderly

\* A message that is dispatched may be the one that something else comes after.
LEMMA ComingShifts ==
    ASSUME AgreeInv, Dispatch, refs > 0, up, NEW m, m = Head(inbox), NEW c, Coming(c),
           NEW d, Exact(c) /\ ~Risen(m) => Exact(d)', Full(m) /\ fetching => Exact(d)'
    PROVE  Coming(d)'
<1>1. /\ inbox # <<>> /\ inbox' = Tail(inbox) /\ m \in Message
      /\ \/ ServiceConnect(m) \/ ServiceDisconnect(m)
         \/ InterfacesAdded(m) \/ InterfacesRemoved(m) \/ PropertiesChanged(m)
         \/ ManagedObjects(m) \/ Ignored(m)
      /\ calls' = calls /\ UNCHANGED up
      /\ \/ UNCHANGED <<outbox, fetching>> /\ (m.kind = "reply" => refs = 0)
         \/ /\ ServiceConnect(m) /\ ~fetching
            /\ outbox' = Append(outbox, Objects) /\ fetching' = TRUE
         \/ ManagedObjects(m) /\ outbox' = outbox /\ fetching' = FALSE
  BY Dispatched
<1>2. /\ inbox \in Seq(Message) /\ m = inbox[1] /\ 1 \in DOMAIN inbox
      /\ Len(inbox) \in Nat /\ DOMAIN inbox = 1..Len(inbox)
      /\ DOMAIN inbox' = 1..(Len(inbox) - 1)
      /\ \A k \in DOMAIN inbox' : inbox'[k] = inbox[k + 1]
  <2>1. inbox \in Seq(Message)
    BY AgreeParts
  <2> QED
    BY <1>1, <2>1, Shifted, Domain
<1>3. Append(outbox, Objects) # <<>>
  <2>1. Objects \in {First, Objects} /\ outbox \in Seq({First, Objects})
    BY AgreeParts
  <2> QED
    BY <2>1, AppendProperties
<1>4. CASE outbox # <<>> \/ calls # <<>>
  <2>1. outbox' # <<>> \/ calls' # <<>>
    BY <1>1, <1>3, <1>4
  <2> QED
    BY <2>1 DEF Coming
<1>5. ASSUME NEW j \in DOMAIN inbox, j > 1, Herald(inbox[j]), Latest(j)
      PROVE  Coming(d)'
  <2>1. PICK k \in Nat : k + 1 = j
    <3>1. j - 1 \in Nat /\ (j - 1) + 1 = j
      BY <1>2, <1>5
    <3> QED
      BY <3>1
  <2>2. k \in DOMAIN inbox' /\ inbox'[k] = inbox[j]
    BY <1>2, <1>5, <2>1
  <2>3. Latest(k + 1)
    BY <1>5, <2>1
  <2>4. Latest(k)'
    BY <1>1, <1>2, <2>3, LatestShifts
  <2> QED
    BY <1>5, <2>2, <2>4 DEF Coming
<1>6. ASSUME NEW j \in DOMAIN inbox, ~(j > 1), Herald(inbox[j]), Latest(j)
      PROVE  Coming(d)'
  <2>1. j = 1 /\ Herald(m) /\ Latest(1)
    BY <1>2, <1>6
  <2>2. CASE Full(m)
    <3>1. m.kind = "reply"
      BY <2>2 DEF Full
    <3>2. fetching
      BY <1>2, <3>1, CallIs
    <3>3. Exact(d)'
      BY <2>2, <3>2
    <3>4. Latest(0)'
      <4>1. 0 \in Nat /\ Latest(0 + 1)
        BY <2>1
      <4> QED
        BY <1>1, <1>2, <4>1, LatestShifts
    <3> QED
      BY <3>3, <3>4 DEF Coming
  <2>3. CASE m.kind \in {"owner", "look"} /\ m.up
    <3>1. ServiceConnect(m)
      <4>1. /\ ~ServiceDisconnect(m) /\ ~InterfacesAdded(m) /\ ~InterfacesRemoved(m)
            /\ ~PropertiesChanged(m) /\ ~ManagedObjects(m) /\ ~Ignored(m)
        BY <2>3 DEF ServiceDisconnect, InterfacesAdded, InterfacesRemoved, PropertiesChanged,
                    ManagedObjects, Ignored
      <4> QED
        BY <1>1, <4>1
    <3>2. CASE ~fetching
      <4>1. Handled /\ GetManagedObjects(TRUE, Handled)
        BY <3>1, AgreeParts DEF ServiceConnect, SetFirst, Handled
      <4>2. outbox' = Append(outbox, Objects)
        BY <3>2, <4>1 DEF GetManagedObjects
      <4> QED
        BY <1>3, <4>2 DEF Coming
    <3>3. CASE fetching
      <4>1. CASE outbox # <<>> \/ calls # <<>>
        BY <1>4, <4>1
      <4>2. CASE outbox = <<>> /\ calls = <<>>
        <5>1. PICK k \in DOMAIN inbox : inbox[k].kind = "reply"
          BY <3>3, <4>2, CallIs
        <5>2. k > 1
          BY <1>2, <2>3, <5>1
        <5>3. Latest(k)
          BY <1>2, <2>1, <5>2 DEF Latest
        <5>4. inbox[k].answer # Failed
          BY <5>1, <5>3 DEF AgreeInv, FailuresOK
        <5>5. Herald(inbox[k])
          BY <5>1, <5>4 DEF Herald, Full
        <5> QED
          BY <1>5, <5>2, <5>3, <5>5
      <4> QED
        BY <4>1, <4>2
    <3> QED
      BY <3>2, <3>3
  <2> QED
    BY <2>1, <2>2, <2>3 DEF Herald
<1>7. CASE Latest(0) /\ Exact(c)
  <2>1. ~Risen(m)
    BY <1>2, <1>7 DEF Latest
  <2>2. Exact(d)'
    BY <1>7, <2>1
  <2>3. Latest(0)'
    BY <1>1, <1>2, <1>7, LatestShifts
  <2> QED
    BY <2>2, <2>3 DEF Coming
<1> QED
  BY <1>4, <1>5, <1>6, <1>7 DEF Coming

LEMMA AgreeDispatch == AgreeInv /\ Dispatch /\ Invariant' => AgreeInv'
<1> SUFFICES ASSUME AgreeInv, Dispatch, Invariant' PROVE AgreeInv'
  OBVIOUS
<1>1. PICK m : m = Head(inbox)
  OBVIOUS
<1>2. /\ inbox # <<>> /\ inbox' = Tail(inbox) /\ m \in Message
      /\ m.kind = "reply" => m.call = Objects
      /\ \/ ServiceConnect(m) \/ ServiceDisconnect(m)
         \/ InterfacesAdded(m) \/ InterfacesRemoved(m) \/ PropertiesChanged(m)
         \/ ManagedObjects(m) \/ Ignored(m)
      /\ UNCHANGED <<up, content, refs>>
  BY <1>1, Dispatched
<1>3. FailuresOK'
  BY <1>2, AgreeParts, FailuresShift DEF AgreeInv
<1>4. ASSUME refs' > 0 PROVE Agreement'
  <2>1. refs > 0
    BY <1>2, <1>4
  <2>2. PICK h \in [0..Len(inbox) -> Contents] :
           Story(h, inbox, content) /\ Sound(h[0]) /\ (up => Coming(h[0]))
    BY <2>1 DEF AgreeInv, Agreement
  <2>3. /\ Tells(m, h[0], h[1]) /\ h[0] \in Contents /\ h[1] \in Contents
        /\ \E k : Story(k, Tail(inbox), content) /\ k[0] = h[1]
    BY <1>1, <1>2, <2>2, AgreeParts, StoryShifts
  <2>4. PICK k : Story(k, Tail(inbox), content) /\ k[0] = h[1]
    BY <2>3
  <2>5. PICK c \in Contents : c = h[0]
    BY <2>3
  <2>6. PICK d \in Contents : d = h[1]
    BY <2>3
  <2>7. Tells(m, c, d) /\ Sound(c) /\ (up => Coming(c))
    BY <2>2, <2>3, <2>5, <2>6
  <2>8. Sound(d)' /\ (Exact(c) /\ ~Risen(m) => Exact(d)') /\ (Full(m) /\ fetching => Exact(d)')
    BY <1>2, <2>1, <2>7, AgreeParts, Follows
  <2>9. up' => Coming(d)'
    <3>1. ASSUME up PROVE Coming(d)'
      BY <1>1, <2>1, <2>7, <2>8, <3>1, ComingShifts
    <3> QED
      BY <1>2, <3>1
  <2>10. Story(k, inbox', content')
    BY <1>2, <2>4
  <2>11. k[0] = d /\ k \in [0..Len(inbox') -> Contents]
    BY <2>4, <2>6, <2>10 DEF Story
  <2> QED
    BY <2>8, <2>9, <2>10, <2>11 DEF Agreement
<1> QED
  BY <1>3, <1>4, OrderlyShifts DEF AgreeInv

LEMMA AgreeProxyUnref ==
    ASSUME AgreeInv, NEW p \in DOMAIN proxy, ProxyUnref(p), Invariant'
    PROVE  AgreeInv'
<1>1. /\ proxy' = [proxy EXCEPT ![p].held = FALSE]
      /\ UNCHANGED <<up, content, outbox, calls, orphans, inbox, refs, released, handlers,
                     fetching, proxies>>
  BY DEF ProxyUnref, service, bus
<1>2. \A q \in ToSet(proxies) : proxy'[q].node = proxy[q].node /\ proxy'[q].value = proxy[q].value
  <2>1. ASSUME NEW q \in ToSet(proxies)
        PROVE  proxy'[q].node = proxy[q].node /\ proxy'[q].value = proxy[q].value
    <3> DEFINE x == proxy[q]
    <3>1. x \in Proxy /\ q \in DOMAIN proxy
      BY AgreeParts, ListedProxies
    <3>2. proxy'[q] = IF q = p THEN [x EXCEPT !.held = FALSE] ELSE x
      BY <1>1, <3>1
    <3> HIDE DEF x
    <3>3. LET r == [x EXCEPT !.held = FALSE] IN r.node = x.node /\ r.value = x.value
      BY <3>1, ProxyFields
    <3> QED
      BY <3>2, <3>3 DEF x
  <2> QED
    BY <2>1
<1>3. \A n : Known(n)' = Known(n)
  BY <1>1, <1>2 DEF Known
<1>4. ASSUME NEW n, NEW v, Shows(n, v) PROVE Shows(n, v)'
  <2>1. \A q \in Known(n) : proxy'[q].value = proxy[q].value
    BY <1>2 DEF Known
  <2> QED
    BY <1>3, <1>4, <2>1 DEF Shows
<1>5. Orderly' /\ FailuresOK'
  <2>1. Copies({Objects})' = Copies({Objects})
    BY <1>1 DEF Copies
  <2>2. Orderly'
    BY <1>1, <2>1, AgreeParts DEF Orderly, SetFirst
  <2>3. FailuresOK'
    BY <1>1 DEF AgreeInv, FailuresOK, Latest
  <2> QED
    BY <2>2, <2>3
<1>6. ASSUME refs' > 0 PROVE Agreement'
  <2>1. PICK h \in [0..Len(inbox) -> Contents] :
           Story(h, inbox, content) /\ Sound(h[0]) /\ (up => Coming(h[0]))
    BY <1>1, <1>6 DEF AgreeInv, Agreement
  <2>2. PICK c : c = h[0]
    OBVIOUS
  <2>3. Sound(c)' /\ (Exact(c) => Exact(c)')
    BY <1>4, <2>1, <2>2 DEF Sound, Exact
  <2>4. Latest(0) => Latest(0)'
    BY <1>1 DEF Latest
  <2>5. \A j : Latest(j) => Latest(j)'
    BY <1>1 DEF Latest
  <2>6. Coming(c) => Coming(c)'
    BY <1>1, <2>3, <2>5 DEF Coming
  <2>7. Story(h, inbox', content') /\ h \in [0..Len(inbox') -> Contents]
    BY <1>1, <2>1
  <2> QED
    BY <1>1, <2>1, <2>2, <2>3, <2>6, <2>7 DEF Agreement
<1> QED
  BY <1>5, <1>6 DEF AgreeInv

LEMMA AgreeClientUnref == AgreeInv /\ ClientUnref /\ Invariant' => AgreeInv'
<1> SUFFICES ASSUME AgreeInv, ClientUnref, Invariant' PROVE AgreeInv'
  OBVIOUS
<1>1. /\ ~released /\ released' = TRUE /\ Unref(Book)
      /\ UNCHANGED <<up, content, outbox, calls, orphans, inbox, handlers>>
  BY DEF ClientUnref, service, bus
<1>2. refs = 1
  BY <1>1, AgreeParts DEF Orderly
<1>3. refs' = 0
  BY <1>1, <1>2 DEF Unref
<1>4. Orderly'
  BY <1>1, <1>3, AgreeParts DEF Orderly, SetFirst
<1>5. FailuresOK'
  BY <1>1 DEF AgreeInv, FailuresOK, Latest
<1> QED
  BY <1>3, <1>4, <1>5 DEF AgreeInv

LEMMA AgreeStarts ==
    ASSUME Undisturbed
    PROVE  Init => AgreeInv
<1> SUFFICES ASSUME Init PROVE AgreeInv
  OBVIOUS
<1>1. Invariant
  BY Starts
<1>2. /\ content \in Contents /\ (~up => content = Nothing)
      /\ outbox = <<First>> /\ calls = <<>> /\ orphans = {} /\ inbox = <<>>
      /\ refs = 1 /\ released = FALSE /\ handlers = "setFirst" /\ fetching = FALSE
      /\ proxies = <<>>
  BY DEF Init, Undisturbed, Rule, Contents, Nothing
<1>3. Copies({Objects}) = 0
  <2>1. First \notin {Objects}
    BY Calls
  <2>2. Cardinality(Hits(outbox, {Objects})) = 0
    BY <1>2, <2>1, HitsOne
  <2>3. \A s, H : s = <<>> => Hits(s, H) = {}
    BY DEF Hits
  <2>4. /\ Hits(calls, {Objects}) = {} /\ orphans \intersect {Objects} = {}
        /\ Hits(inbox, Replies({Objects})) = {}
    BY <1>2, <2>3
  <2> QED
    BY <2>2, <2>4, FS_EmptySet DEF Copies
<1>4. Orderly
  <2>1. outbox \in Seq({First, Objects}) /\ calls \in Seq({Objects})
    BY <1>2
  <2> QED
    BY <1>2, <1>3, <2>1 DEF Orderly, SetFirst
<1>5. FailuresOK
  BY <1>2 DEF FailuresOK
<1>6. Agreement
  <2> DEFINE h == [i \in 0..0 |-> content]
  <2>1. Len(inbox) = 0 /\ h \in [0..0 -> Contents] /\ h[0] = content
    BY <1>2
  <2> HIDE DEF h
  <2>2. Story(h, inbox, content)
    BY <2>1 DEF Story
  <2>3. Sound(h[0])
    <3>1. ToSet(proxies) = {}
      BY <1>2 DEF ToSet
    <3> QED
      BY <3>1 DEF Sound, Shows, Known
  <2>4. Coming(h[0])
    BY <1>2 DEF Coming
  <2> QED
    BY <2>1, <2>2, <2>3, <2>4 DEF Agreement
<1> QED
  BY <1>1, <1>4, <1>5, <1>6 DEF AgreeInv

LEMMA AgreeSteps ==
    ASSUME Undisturbed
    PROVE  AgreeInv /\ [Next]_vars => AgreeInv'
<1> SUFFICES ASSUME AgreeInv, [Next]_vars PROVE AgreeInv'
  OBVIOUS
<1>1. Invariant'
  BY Steps DEF AgreeInv
<1>2. ~MayFail /\ "exits" \in Rules /\ "noProxyNew" \in Rules
  BY DEF Undisturbed, Rule
<1>3. CASE UNCHANGED vars
  <2>1. UNCHANGED <<up, content, outbox, calls, orphans, inbox, refs, released, handlers,
                    fetching, proxies, proxy>>
    BY <1>3 DEF vars, service, bus
  <2>2. Copies({Objects})' = Copies({Objects})
    BY <2>1 DEF Copies
  <2>3. Orderly' /\ FailuresOK'
    BY <2>1, <2>2 DEF AgreeInv, Orderly, SetFirst, FailuresOK, Latest
  <2>4. Agreement => Agreement'
    BY <2>1 DEF Agreement, Sound, Coming, Latest, Exact, Shows, Known
  <2> QED
    BY <1>1, <2>1, <2>3, <2>4 DEF AgreeInv
<1>4. CASE ServiceUp
  BY <1>1, <1>4, AgreeUp
<1>5. CASE ServiceExits
  BY <1>1, <1>5, AgreeExits
<1>6. CASE \E stays \in BOOLEAN : ServiceReplaced(stays)
  BY <1>2, <1>6 DEF ServiceReplaced
<1>7. CASE \E n \in Node, v \in Val \union {Absent} : ServiceChanges(n, v)
  BY <1>1, <1>7, AgreeChanges
<1>8. CASE SetProxyHandlers
  BY <1>8, AgreeParts DEF SetProxyHandlers, SetFirst, Handled
<1>9. CASE \E n \in Node : ProxyNew(n)
  BY <1>2, <1>9 DEF ProxyNew
<1>10. CASE \E p \in DOMAIN proxy : ProxyUnref(p)
  BY <1>1, <1>10, AgreeProxyUnref
<1>11. CASE ClientUnref
  BY <1>1, <1>11, AgreeClientUnref
<1>12. CASE Dispatch
  BY <1>1, <1>12, AgreeDispatch
<1>13. CASE BusRoutes
  BY <1>1, <1>13, AgreeRoutes
<1>14. CASE ServiceAnswers
  BY <1>1, <1>2, <1>14, AgreeAnswers
<1>15. CASE \E c \in orphans : OrphanFails(c)
  BY <1>15, AgreeParts
<1> QED
  BY <1>3, <1>4, <1>5, <1>6, <1>7, <1>8, <1>9, <1>10, <1>11, <1>12, <1>13, <1>14, <1>15
  DEF Next, Service, User

LEMMA AgreeShown == AgreeInv => ProxiesAgree
<1> SUFFICES ASSUME AgreeInv, Quiet, refs > 0, NEW n \in Node PROVE Shows(n, content[n])
  BY DEF ProxiesAgree, Shows, Known
<1>1. inbox = <<>> /\ outbox = <<>> /\ calls = <<>>
  BY DEF Quiet
<1>2. PICK h \in [0..Len(inbox) -> Contents] :
         Story(h, inbox, content) /\ Sound(h[0]) /\ (up => Coming(h[0]))
  BY DEF AgreeInv, Agreement
<1>3. h[0] = content
  BY <1>1, <1>2 DEF Story
<1>4. CASE up
  <2>1. Coming(content)
    BY <1>2, <1>3, <1>4
  <2>2. Exact(content)
    BY <1>1, <2>1 DEF Coming
  <2> QED
    BY <2>2 DEF Exact
<1>5. CASE ~up
  <2>1. content[n] = Absent
    BY <1>5, AgreeParts DEF Nothing
  <2> QED
    BY <1>2, <1>3, <2>1 DEF Sound
<1> QED
  BY <1>4, <1>5

\* When nobody breaks the rules and the service fails no call that it gets, the
\* client and its service agree: with nothing under way the list shows the
\* interfaces that there are, and no others (client.c:928-1169).
THEOREM AgreeCorrect ==
    ASSUME Rule \subseteq Rules, ~MayFail
    PROVE  Spec => []ProxiesAgree
<1>1. Undisturbed
  BY DEF Undisturbed
<1>2. Init => AgreeInv
  BY <1>1, AgreeStarts
<1>3. AgreeInv /\ [Next]_vars => AgreeInv'
  BY <1>1, AgreeSteps
<1> QED
  BY <1>2, <1>3, AgreeShown, PTL DEF Spec

=============================================================================
