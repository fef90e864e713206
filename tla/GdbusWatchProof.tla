-------------------------- MODULE GdbusWatchProof ---------------------------
(***************************************************************************)
(* For any number of watches, filters and signals: whatever callers do and *)
(* wherever the walk over the filters stands, each watch is with one       *)
(* filter until it is removed; and where callers and bus observe the rules *)
(* of GdbusWatch, a signal reaches each watch once, the bus keeps one match *)
(* rule per filter, and nothing that was freed is used.                    *)
(***************************************************************************)
EXTENDS GdbusWatch, SequenceTheorems, FiniteSetTheorems, WellFoundedInduction, TLAPS

-----------------------------------------------------------------------------
(* Lists without repetitions. *)

\* f is before g in the list s.
Before(s, f, g) == \E i, j \in DOMAIN s : i < j /\ s[i] = f /\ s[j] = g

LEMMA Least ==
    ASSUME NEW T, T \subseteq Nat, T # {}
    PROVE  \E m \in T : \A k \in T : m <= k
<1> DEFINE R == {ss \in Nat \X Nat : ss[1] < ss[2]}
<1>1. IsWellFoundedOn(R, Nat)
  BY NatLessThanWellFounded DEF OpToRel
<1>2. PICK m \in T : \A k \in T : <<k, m>> \notin R
  <2> HIDE DEF R
  <2> QED
    BY <1>1, WFMin
<1>3. ASSUME NEW k \in T PROVE m <= k
  <2>1. <<k, m>> \in Nat \X Nat /\ <<k, m>>[1] = k /\ <<k, m>>[2] = m
    OBVIOUS
  <2>2. ~(k < m)
    BY <2>1, <1>2
  <2> QED
    BY <2>2
<1> QED
  BY <1>3

LEMMA MinIn ==
    ASSUME NEW T, T \subseteq Nat, T # {}
    PROVE  Min(T) \in T
BY Least DEF Min

LEMMA FirstRemoved ==
    ASSUME NEW s, Len(s) \in Nat, NEW e, \E i \in 1..Len(s) : s[i] = e
    PROVE  \E k \in 1..Len(s) : s[k] = e /\ RemoveFirst(s, e) = RemoveAt(s, k)
<1> DEFINE I == {i \in 1..Len(s) : s[i] = e}
<1>1. I \subseteq Nat /\ I # {}
  OBVIOUS
<1>2. RemoveFirst(s, e) = RemoveAt(s, Min(I))
  BY <1>1 DEF RemoveFirst, SelectInSeq
<1> HIDE DEF I
<1>3. Min(I) \in I
  BY <1>1, MinIn
<1> QED
  BY <1>2, <1>3 DEF I

LEMMA Domain ==
    ASSUME NEW S, NEW s \in Seq(S)
    PROVE  /\ Len(s) \in Nat /\ DOMAIN s = 1..Len(s)
           /\ \A i \in 1..Len(s) : s[i] \in S
           /\ ToSet(s) = {s[i] : i \in 1..Len(s)}
BY LenProperties DEF ToSet

\* What is left without place k
LEMMA Shortened ==
    ASSUME NEW S, NEW s \in Seq(S), NEW k \in 1..Len(s)
    PROVE  /\ RemoveAt(s, k) \in Seq(S) /\ Len(RemoveAt(s, k)) = Len(s) - 1
           /\ \A i \in 1..(Len(s) - 1) :
                 RemoveAt(s, k)[i] = IF i < k THEN s[i] ELSE s[i + 1]
<1> DEFINE a == SubSeq(s, 1, k - 1)
           b == SubSeq(s, k + 1, Len(s))
<1>1. Len(s) \in Nat /\ \A i \in 1..Len(s) : s[i] \in S
  BY Domain
<1>2. a \in Seq(S) /\ Len(a) = k - 1 /\ \A i \in 1..(k - 1) : a[i] = s[i]
  BY <1>1
<1>3. b \in Seq(S) /\ Len(b) = Len(s) - k
      /\ \A i \in 1..(Len(s) - k) : b[i] = s[k + i]
  BY <1>1
<1>4. RemoveAt(s, k) = a \o b
  BY DEF RemoveAt
<1> HIDE DEF a, b
<1>5. /\ a \o b \in Seq(S) /\ Len(a \o b) = Len(a) + Len(b)
      /\ \A i \in 1..(Len(a) + Len(b)) :
            (a \o b)[i] = IF i <= Len(a) THEN a[i] ELSE b[i - Len(a)]
  BY <1>2, <1>3, ConcatProperties
<1>6. ASSUME NEW i \in 1..(Len(s) - 1)
      PROVE  (a \o b)[i] = IF i < k THEN s[i] ELSE s[i + 1]
  <2>1. CASE i < k
    BY <1>1, <1>2, <1>3, <1>5, <2>1
  <2>2. CASE ~(i < k)
    <3>1. i - (k - 1) \in 1..(Len(s) - k) /\ k + (i - (k - 1)) = i + 1
      BY <1>1, <2>2
    <3>2. (a \o b)[i] = b[i - (k - 1)]
      BY <1>1, <1>2, <1>3, <1>5, <2>2
    <3>3. b[i - (k - 1)] = s[i + 1]
      BY <1>3, <3>1
    <3>4. (a \o b)[i] = s[i + 1]
      BY <3>2, <3>3, Zenon
    <3> QED
      BY <2>2, <3>4, Zenon
  <2> QED
    BY <2>1, <2>2, Zenon
<1> QED
  BY <1>1, <1>2, <1>3, <1>4, <1>5, <1>6

LEMMA ListRemove ==
    ASSUME NEW S, NEW s \in Seq(S), IsInjective(s), NEW e
    PROVE  /\ RemoveFirst(s, e) \in Seq(S) /\ IsInjective(RemoveFirst(s, e))
           /\ ToSet(RemoveFirst(s, e)) = ToSet(s) \ {e}
           /\ \A f, g : Before(RemoveFirst(s, e), f, g) => Before(s, f, g)
<1>1. Len(s) \in Nat /\ DOMAIN s = 1..Len(s) /\ ToSet(s) = {s[i] : i \in 1..Len(s)}
  BY Domain
<1>2. CASE ~\E i \in 1..Len(s) : s[i] = e
  BY <1>1, <1>2 DEF RemoveFirst
<1>3. CASE \E i \in 1..Len(s) : s[i] = e
  <2> DEFINE u == RemoveFirst(s, e)
  <2>1. PICK k \in 1..Len(s) : s[k] = e /\ u = RemoveAt(s, k)
    BY <1>1, <1>3, FirstRemoved
  <2> HIDE DEF u
  <2>2. /\ u \in Seq(S) /\ Len(u) = Len(s) - 1
        /\ \A i \in 1..Len(u) : u[i] = IF i < k THEN s[i] ELSE s[i + 1]
    BY <1>1, <2>1, Shortened
  <2>3. DOMAIN u = 1..Len(u) /\ ToSet(u) = {u[i] : i \in 1..Len(u)}
    BY <2>2, Domain
  <2>4. ASSUME NEW i \in 1..Len(u)
        PROVE  \E j \in 1..Len(s) : j # k /\ u[i] = s[j]
                                         /\ j = (IF i < k THEN i ELSE i + 1)
    BY <1>1, <2>2
  <2>5. ASSUME NEW j \in 1..Len(s), j # k
        PROVE  \E i \in 1..Len(u) : u[i] = s[j]
    <3>1. CASE j < k
      BY <1>1, <2>2, <3>1
    <3>2. CASE j > k
      <4>1. j - 1 \in 1..Len(u) /\ u[j - 1] = s[j]
        BY <1>1, <2>2, <3>2
      <4> QED
        BY <4>1
    <3> QED
      BY <2>5, <3>1, <3>2
  <2>6. IsInjective(u)
    <3> SUFFICES ASSUME NEW i \in 1..Len(u), NEW j \in 1..Len(u), u[i] = u[j]
                 PROVE  i = j
      BY <2>3 DEF IsInjective
    <3>1. PICK a \in 1..Len(s) : u[i] = s[a] /\ a = (IF i < k THEN i ELSE i + 1)
      BY <2>4
    <3>2. PICK b \in 1..Len(s) : u[j] = s[b] /\ b = (IF j < k THEN j ELSE j + 1)
      BY <2>4
    <3>3. a = b
      BY <1>1, <3>1, <3>2 DEF IsInjective
    <3> QED
      BY <2>2, <3>1, <3>2, <3>3
  <2>7. ToSet(u) \subseteq ToSet(s) \ {e}
    BY <1>1, <2>1, <2>3, <2>4 DEF IsInjective
  <2>8. ToSet(s) \ {e} \subseteq ToSet(u)
    BY <1>1, <2>1, <2>3, <2>5
  <2>9. ASSUME NEW f, NEW g, Before(u, f, g) PROVE Before(s, f, g)
    <3>1. PICK i \in 1..Len(u), j \in 1..Len(u) : i < j /\ u[i] = f /\ u[j] = g
      BY <2>3, <2>9 DEF Before
    <3>2. PICK a \in 1..Len(s) : u[i] = s[a] /\ a = (IF i < k THEN i ELSE i + 1)
      BY <2>4
    <3>3. PICK b \in 1..Len(s) : u[j] = s[b] /\ b = (IF j < k THEN j ELSE j + 1)
      BY <2>4
    <3>4. a < b
      BY <2>2, <3>1, <3>2, <3>3
    <3> QED
      BY <1>1, <3>1, <3>2, <3>3, <3>4 DEF Before
  <2> QED
    BY <2>2, <2>6, <2>7, <2>8, <2>9 DEF u
<1> QED
  BY <1>2, <1>3

LEMMA ListAppend ==
    ASSUME NEW S, NEW s \in Seq(S), IsInjective(s), NEW x \in S, x \notin ToSet(s)
    PROVE  /\ Append(s, x) \in Seq(S) /\ IsInjective(Append(s, x))
           /\ ToSet(Append(s, x)) = ToSet(s) \union {x}
           /\ \A f, g : Before(s, f, g) => Before(Append(s, x), f, g)
           /\ \A f \in ToSet(s) : Before(Append(s, x), f, x)
<1> DEFINE u == Append(s, x)
<1>1. /\ u \in Seq(S) /\ Len(u) = Len(s) + 1 /\ Len(s) \in Nat
      /\ \A i \in 1..Len(s) : u[i] = s[i]
      /\ u[Len(u)] = x /\ DOMAIN s = 1..Len(s) /\ DOMAIN u = 1..Len(u)
  OBVIOUS
<1> HIDE DEF u
<1>2. ASSUME NEW i \in 1..Len(u)
      PROVE  i = Len(u) \/ (i \in 1..Len(s) /\ u[i] = s[i] /\ u[i] # x)
  BY <1>1 DEF ToSet
<1>3. IsInjective(u)
  BY <1>1, <1>2 DEF IsInjective
<1>4. ToSet(u) \subseteq ToSet(s) \union {x}
  BY <1>1, <1>2 DEF ToSet
<1>5. ToSet(s) \subseteq ToSet(u) /\ x \in ToSet(u)
  <2>1. \A i \in 1..Len(s) : i \in 1..Len(u) /\ u[i] = s[i]
    BY <1>1
  <2>2. Len(u) \in 1..Len(u)
    BY <1>1
  <2> QED
    BY <1>1, <2>1, <2>2 DEF ToSet
<1>6. \A i \in 1..Len(s) : i \in 1..Len(u) /\ i < Len(u) /\ Len(u) \in 1..Len(u)
  BY <1>1
<1>7. \A f, g : Before(s, f, g) => Before(u, f, g)
  BY <1>1, <1>6 DEF Before
<1>8. \A f \in ToSet(s) : Before(u, f, x)
  BY <1>1, <1>6 DEF Before, ToSet
<1> QED
  BY <1>1, <1>3, <1>4, <1>5, <1>7, <1>8 DEF u

LEMMA Joined ==
    ASSUME NEW S, NEW s \in Seq(S), NEW t \in Seq(S)
    PROVE  ToSet(s \o t) = ToSet(s) \union ToSet(t)
<1>1. /\ s \o t \in Seq(S) /\ Len(s \o t) = Len(s) + Len(t)
      /\ \A i \in 1..(Len(s) + Len(t)) :
            (s \o t)[i] = IF i <= Len(s) THEN s[i] ELSE t[i - Len(s)]
      /\ Len(s) \in Nat /\ Len(t) \in Nat
  BY ConcatProperties, Domain
<1>2. /\ DOMAIN s = 1..Len(s) /\ DOMAIN t = 1..Len(t)
      /\ DOMAIN (s \o t) = 1..(Len(s) + Len(t))
  BY <1>1, Domain
<1>3. \A i \in DOMAIN s : i \in DOMAIN (s \o t) /\ (s \o t)[i] = s[i]
  BY <1>1, <1>2
<1>4. \A i \in DOMAIN t : i + Len(s) \in DOMAIN (s \o t) /\ (s \o t)[i + Len(s)] = t[i]
  BY <1>1, <1>2
<1>5. \A i \in DOMAIN (s \o t) :
         \/ i \in DOMAIN s /\ (s \o t)[i] = s[i]
         \/ i - Len(s) \in DOMAIN t /\ (s \o t)[i] = t[i - Len(s)]
  BY <1>1, <1>2
<1>6. ToSet(s) \union ToSet(t) \subseteq ToSet(s \o t)
  BY <1>3, <1>4 DEF ToSet
<1>7. ToSet(s \o t) \subseteq ToSet(s) \union ToSet(t)
  BY <1>5 DEF ToSet
<1> QED
  BY <1>6, <1>7

LEMMA Ordered ==
    ASSUME NEW S, NEW s \in Seq(S), IsInjective(s)
    PROVE  /\ \A f, g : Before(s, f, g) =>
                 f # g /\ ~Before(s, g, f) /\ f \in ToSet(s) /\ g \in ToSet(s)
           /\ \A f, g \in ToSet(s) : f = g \/ Before(s, f, g) \/ Before(s, g, f)
<1>1. Len(s) \in Nat /\ DOMAIN s = 1..Len(s)
  BY Domain
<1>2. ASSUME NEW f, NEW g, Before(s, f, g)
      PROVE  f # g /\ ~Before(s, g, f) /\ f \in ToSet(s) /\ g \in ToSet(s)
  BY <1>1, <1>2 DEF Before, IsInjective, ToSet
<1>3. ASSUME NEW f \in ToSet(s), NEW g \in ToSet(s), f # g
      PROVE  Before(s, f, g) \/ Before(s, g, f)
  <2>1. PICK i \in 1..Len(s), j \in 1..Len(s) : s[i] = f /\ s[j] = g
    BY <1>1 DEF ToSet
  <2>2. i < j \/ j < i
    BY <1>1, <1>3, <2>1
  <2> QED
    BY <1>1, <2>1, <2>2 DEF Before
<1> QED
  BY <1>2, <1>3

\* Before the first of a list is none, before the next of f are f and those
\* before f; and before the end are all.
LEMMA FirstOfList ==
    ASSUME NEW S, NEW s \in Seq(S), IsInjective(s), s # <<>>
    PROVE  Head(s) \in ToSet(s) /\ Head(s) \in S /\ \A f : ~Before(s, f, Head(s))
<1>1. Len(s) \in Nat /\ DOMAIN s = 1..Len(s) /\ Len(s) > 0 /\ Head(s) = s[1] /\ s[1] \in S
  OBVIOUS
<1>2. 1 \in DOMAIN s
  BY <1>1
<1> QED
  BY <1>1, <1>2 DEF Before, ToSet, IsInjective

LEMMA FirstOfEmpty ==
    ASSUME NEW S, NEW s \in Seq(S), ToSet(s) = {}
    PROVE  s = <<>>
<1>1. s # <<>> => 1 \in DOMAIN s
  OBVIOUS
<1> QED
  BY <1>1 DEF ToSet

LEMMA NextOfList ==
    ASSUME NEW S, NEW s \in Seq(S), IsInjective(s), NEW f \in ToSet(s), NEW i,
           i = SelectInSeq(s, LAMBDA g : g = f)
    PROVE  /\ i \in 1..Len(s) /\ s[i] = f
           /\ i = Len(s) => \A g \in ToSet(s) : g = f \/ Before(s, g, f)
           /\ i # Len(s) => /\ s[i + 1] \in ToSet(s)
                            /\ \A g : Before(s, g, s[i + 1]) <=> g = f \/ Before(s, g, f)
<1> DEFINE I == {j \in 1..Len(s) : s[j] = f}
<1>1. Len(s) \in Nat /\ DOMAIN s = 1..Len(s)
  BY Domain
<1>2. I \subseteq Nat /\ I # {}
  BY <1>1 DEF ToSet
<1>3. i = Min(I)
  BY <1>2 DEF SelectInSeq
<1>4. i \in 1..Len(s) /\ s[i] = f
  <2> HIDE DEF I
  <2>1. i \in I
    BY <1>2, <1>3, MinIn
  <2> QED
    BY <2>1 DEF I
<1>5. ASSUME NEW g PROVE Before(s, g, f) <=> \E j \in 1..Len(s) : j < i /\ s[j] = g
  BY <1>1, <1>4 DEF Before, IsInjective
<1>6. ASSUME i = Len(s), NEW g \in ToSet(s), g # f PROVE Before(s, g, f)
  <2>1. PICK j \in 1..Len(s) : s[j] = g
    BY <1>1 DEF ToSet
  <2>2. j < i
    BY <1>1, <1>4, <1>6, <2>1
  <2> QED
    BY <1>5, <2>1, <2>2
<1>7. ASSUME i # Len(s)
      PROVE  /\ s[i + 1] \in ToSet(s)
             /\ \A g : Before(s, g, s[i + 1]) <=> g = f \/ Before(s, g, f)
  <2>1. i + 1 \in 1..Len(s)
    BY <1>1, <1>4, <1>7
  <2>2. ASSUME NEW g
        PROVE  Before(s, g, s[i + 1]) <=> \E j \in 1..Len(s) : j < i + 1 /\ s[j] = g
    BY <1>1, <2>1 DEF Before, IsInjective
  <2>3. ASSUME NEW g
        PROVE  (\E j \in 1..Len(s) : j < i + 1 /\ s[j] = g) <=> g = f \/ Before(s, g, f)
    <3>1. \A j \in 1..Len(s) : j < i + 1 <=> j = i \/ j < i
      BY <1>1, <1>4
    <3> QED
      BY <1>4, <1>5, <3>1
  <2> QED
    BY <1>1, <2>1, <2>2, <2>3 DEF ToSet
<1> QED
  BY <1>4, <1>6, <1>7

-----------------------------------------------------------------------------
(* The inductive invariant, over the record d of the module's data. *)

Listed(d) == ToSet(d.listeners)

\* The watches that filter f has
Ids(d, f) == ToSet(d.filter[f].callbacks) \union ToSet(d.filter[f].processed)

DataType ==
    [listeners : Seq(Filter), filter : Seq(FilterData), lastId : {0} \union Watch,
     created : 0..MaxFilters, rules : [Key -> Int], installed : Int,
     silent : SUBSET Watch]

\* No watch is twice in a filter; one that is not being walked has called none;
\* it has a name watch or none, and only the filter for NameKey has such.
FilterWell(d, f) ==
    /\ IsInjective(d.filter[f].callbacks) /\ IsInjective(d.filter[f].processed)
    /\ ToSet(d.filter[f].callbacks) \intersect ToSet(d.filter[f].processed) = {}
    /\ Ids(d, f) \subseteq 1..d.lastId
    /\ ~d.filter[f].lock => d.filter[f].processed = <<>>
    /\ d.filter[f].nameWatch \in {0} \union d.silent
    /\ d.filter[f].key = NameKey => d.filter[f].owner = Unknown
    /\ Ids(d, f) \intersect d.silent # {} => d.filter[f].key = NameKey

\* No filter is listed twice, no watch is in two filters, and one filter at
\* most is for NameKey.
Well(d) ==
    /\ d \in DataType
    /\ Len(d.filter) = d.created
    /\ d.listeners \in Seq(1..d.created) /\ IsInjective(d.listeners)
    /\ d.silent \subseteq 1..d.lastId
    /\ \A f \in Listed(d) : FilterWell(d, f)
    /\ \A f, g \in Listed(d) : f # g => Ids(d, f) \intersect Ids(d, g) = {}
    /\ \A f, g \in Listed(d) :
          d.filter[f].key = NameKey /\ d.filter[g].key = NameKey => f = g

\* What the bus has too many rules for a key, and the connection installations
\* of message_filter
WithKey(d, k) == {f \in Listed(d) : d.filter[f].key = k}
Surplus(d, k) == d.rules[k] - Cardinality(WithKey(d, k))
Excess(d) == d.installed - (IF d.listeners = <<>> THEN 0 ELSE 1)

Counted(d) == Excess(d) >= 0 /\ \A k \in Key : Surplus(d, k) >= 0
Exact(d) == Excess(d) = 0 /\ \A k \in Key : Surplus(d, k) = 0

\* The watches h that callers have are with a filter, and no filter has others.
Held(d, h) ==
    /\ h \subseteq 1..d.lastId
    /\ h \intersect d.silent = {}
    /\ \A id \in h : \E f \in Listed(d) : id \in Ids(d, f)
    /\ \A f \in Listed(d) : Ids(d, f) \subseteq h \union d.silent

\* Where message_filter stands is p, as in dispatch, and r is the removal.
Handling(p) == p.phase \in {"handle", "call"}

\* The filter at which the walk stands is listed; the one that is handled is
\* locked, and no other.
Walk(d, h, p, r) ==
    /\ p.phase = "filter" => p.at \in {0} \union Listed(d)
    /\ Handling(p) => p.at \in Listed(d)
    /\ \A f \in Listed(d) : d.filter[f].lock <=> Handling(p) /\ f = p.at
    /\ p.phase = "call" =>
          /\ p.call \in 1..d.lastId /\ p.call \notin d.silent
          /\ p.call \in h => p.call \in Ids(d, p.at)
    /\ r # NoRemoval => p.phase \in {"idle", "call"}
    /\ r # NoRemoval /\ r.returns => p.phase = "call" /\ p.call \notin h
    /\ p.phase \in {"filter", "handle", "call"} => p.message # NoMessage

\* The walk is past f.
Passed(d, p, f) == p.at = 0 \/ Before(d.listeners, f, p.at)

EmptyIn(d, r) == Emptied(d.listeners, d.filter, r)

\* Is filter f for the kind of message that is dispatched?
OfKind(d, p, f) == p.message.kind = "owner" <=> d.filter[f].key = NameKey

\* What a filter without watches means when the rules are observed: the handler
\* stands at it, or is through with it and will delete it.
Ruled(d, p, r) ==
    /\ p.phase # "removeAll" /\ p.passes <= 1
    /\ r # NoRemoval => r.ok /\ r.filter \in Listed(d)
    /\ p.phase = "idle" => p.doomed = <<>>
    /\ EmptyIn(d, r) \subseteq ToSet(p.doomed) \union (IF Handling(p) THEN {p.at} ELSE {})
    /\ ToSet(p.doomed) \subseteq EmptyIn(d, r)
    /\ \A f, g \in EmptyIn(d, r) : f = g
    /\ Len(p.doomed) <= 1
    /\ \A f \in ToSet(p.doomed) : Passed(d, p, f) /\ OfKind(d, p, f)
    /\ Handling(p) => OfKind(d, p, p.at)

\* As Matching
MatchingIn(d, m, f) ==
    CASE m.kind = "owner"  -> d.filter[f].key = NameKey
      [] m.kind = "signal" ->
            /\ d.filter[f].key \in MatchedBy[m.signal]
            /\ d.filter[f].owner \in {Unknown, m.sender}

\* Of the watches u that the signal is for, how often c each was called: a
\* filter that the walk is still to come to has called none, the one it is at
\* those it has put aside, and those behind it all.
HeardAt(d, p, u, c, f) ==
    /\ \A id \in Ids(d, f) \intersect u : MatchingIn(d, p.message, f)
    /\ Passed(d, p, f) => \A id \in Ids(d, f) \intersect u : c[id] = 1
    /\ ~Passed(d, p, f) /\ ~(Handling(p) /\ f = p.at) => \A id \in Ids(d, f) : c[id] = 0
    /\ Handling(p) /\ f = p.at =>
          /\ \A id \in ToSet(d.filter[f].processed) \intersect u : c[id] = 1
          /\ \A id \in ToSet(d.filter[f].callbacks) :
                c[id] = IF p.phase = "call" /\ id = p.call THEN 1 ELSE 0

Heard(d, p, u, c) ==
    /\ \A id \in Watch : c[id] <= 1 /\ (id > d.lastId => c[id] = 0)
    /\ u \subseteq 1..d.lastId /\ u \intersect d.silent = {}
    /\ p.phase # "idle" => \A f \in Listed(d) : HeardAt(d, p, u, c, f)

ControlOK ==
    /\ observed \in Observances
    /\ dispatch \in Dispatching
    /\ removal \in Removal \union {NoRemoval}
    /\ due \subseteq 1..lastId
    /\ heard \in [Watch -> Nat]
    /\ fault \in Fault

RulesOK ==
    observed = Rule =>
        /\ fault = "none" /\ Exact(Data)
        /\ Ruled(Data, dispatch, removal)
        /\ Heard(Data, dispatch, due, heard)

Invariant ==
    /\ ControlOK /\ Well(Data) /\ Counted(Data) /\ Held(Data, held)
    /\ Walk(Data, held, dispatch, removal)
    /\ RulesOK

-----------------------------------------------------------------------------
(* Two kinds of change to the data: d loses to e watches of X and filters   *)
(* that have none but these; d gains new watches and filters.               *)

Shrinks(d, e, X) ==
    /\ e.lastId = d.lastId /\ e.created = d.created /\ e.silent = d.silent
    /\ Listed(e) \subseteq Listed(d)
    /\ \A f, g : Before(e.listeners, f, g) => Before(d.listeners, f, g)
    /\ \A f \in Listed(e) :
          /\ e.filter[f].key = d.filter[f].key
          /\ e.filter[f].owner = d.filter[f].owner
          /\ e.filter[f].lock = d.filter[f].lock
          /\ ToSet(e.filter[f].callbacks) \subseteq ToSet(d.filter[f].callbacks)
          /\ ToSet(e.filter[f].processed) \subseteq ToSet(d.filter[f].processed)
          /\ Ids(d, f) \ Ids(e, f) \subseteq X
    /\ \A f \in Listed(d) \ Listed(e) : ~d.filter[f].lock /\ Ids(d, f) \subseteq X

Grows(d, e) ==
    /\ e.lastId >= d.lastId /\ e.created >= d.created
    /\ d.silent \subseteq e.silent /\ e.silent \intersect (1..d.lastId) \subseteq d.silent
    /\ Listed(d) \subseteq Listed(e)
    /\ \A f, g : Before(d.listeners, f, g) => Before(e.listeners, f, g)
    /\ \A f \in Listed(d), g \in Listed(e) \ Listed(d) : Before(e.listeners, f, g)
    /\ \A f \in Listed(d) :
          /\ e.filter[f].key = d.filter[f].key
          /\ e.filter[f].owner = d.filter[f].owner
          /\ e.filter[f].lock = d.filter[f].lock
          /\ ToSet(d.filter[f].callbacks) \subseteq ToSet(e.filter[f].callbacks)
          /\ ToSet(d.filter[f].processed) \subseteq ToSet(e.filter[f].processed)
          /\ d.filter[f].lock =>
                ToSet(e.filter[f].callbacks) \subseteq ToSet(d.filter[f].callbacks)
          /\ Ids(e, f) \intersect (1..d.lastId) \subseteq Ids(d, f)
    /\ \A f \in Listed(e) \ Listed(d) :
          ~e.filter[f].lock /\ Ids(e, f) \intersect (1..d.lastId) = {}

LEMMA ShrinksTransitive ==
    ASSUME NEW a, NEW b, NEW c, NEW X, NEW Y, Shrinks(a, b, X), Shrinks(b, c, Y)
    PROVE  Shrinks(a, c, X \union Y)
<1>1. /\ c.lastId = a.lastId /\ c.created = a.created /\ c.silent = a.silent
      /\ Listed(c) \subseteq Listed(a)
      /\ \A f, g : Before(c.listeners, f, g) => Before(a.listeners, f, g)
  BY DEF Shrinks
<1>2. ASSUME NEW f \in Listed(c)
      PROVE  /\ c.filter[f].key = a.filter[f].key
             /\ c.filter[f].owner = a.filter[f].owner
             /\ c.filter[f].lock = a.filter[f].lock
             /\ ToSet(c.filter[f].callbacks) \subseteq ToSet(a.filter[f].callbacks)
             /\ ToSet(c.filter[f].processed) \subseteq ToSet(a.filter[f].processed)
             /\ Ids(a, f) \ Ids(c, f) \subseteq X \union Y
  BY <1>2 DEF Shrinks
<1>3. ASSUME NEW f \in Listed(a) \ Listed(c)
      PROVE  ~a.filter[f].lock /\ Ids(a, f) \subseteq X \union Y
  BY <1>3 DEF Shrinks
<1> QED
  BY <1>1, <1>2, <1>3 DEF Shrinks

LEMMA GrowsTransitive ==
    ASSUME NEW a, NEW b, NEW c, Grows(a, b), Grows(b, c),
           a.lastId \in Nat, b.lastId \in Nat, c.lastId \in Nat,
           a.created \in Nat, b.created \in Nat, c.created \in Nat
    PROVE  Grows(a, c)
<1>0. \A id : id \in 1..a.lastId => id \in 1..b.lastId
  BY DEF Grows
<1>1. /\ c.lastId >= a.lastId /\ c.created >= a.created
      /\ a.silent \subseteq c.silent
      /\ Listed(a) \subseteq Listed(c)
      /\ \A f, g : Before(a.listeners, f, g) => Before(c.listeners, f, g)
  BY DEF Grows
<1>2. c.silent \intersect (1..a.lastId) \subseteq a.silent
  BY <1>0 DEF Grows
<1>3. ASSUME NEW f \in Listed(a), NEW g \in Listed(c) \ Listed(a)
      PROVE  Before(c.listeners, f, g)
  BY <1>3 DEF Grows
<1>4. ASSUME NEW f \in Listed(a)
      PROVE  /\ c.filter[f].key = a.filter[f].key
             /\ c.filter[f].owner = a.filter[f].owner
             /\ c.filter[f].lock = a.filter[f].lock
             /\ ToSet(a.filter[f].callbacks) \subseteq ToSet(c.filter[f].callbacks)
             /\ ToSet(a.filter[f].processed) \subseteq ToSet(c.filter[f].processed)
             /\ a.filter[f].lock =>
                   ToSet(c.filter[f].callbacks) \subseteq ToSet(a.filter[f].callbacks)
  BY <1>4 DEF Grows
<1>5. ASSUME NEW f \in Listed(a)
      PROVE  Ids(c, f) \intersect (1..a.lastId) \subseteq Ids(a, f)
  BY <1>0, <1>5 DEF Grows
<1>6. ASSUME NEW f \in Listed(c) \ Listed(a)
      PROVE  ~c.filter[f].lock /\ Ids(c, f) \intersect (1..a.lastId) = {}
  <2>1. CASE f \in Listed(b)
    BY <1>0, <1>6, <2>1 DEF Grows
  <2>2. CASE f \notin Listed(b)
    BY <1>0, <1>6, <2>2 DEF Grows
  <2> QED
    BY <2>1, <2>2
<1> QED
  BY <1>1, <1>2, <1>3, <1>4, <1>5, <1>6 DEF Grows

-----------------------------------------------------------------------------
(* The elementary changes. *)

LEMMA DataFields ==
    ASSUME NEW d \in DataType
    PROVE  /\ d.listeners \in Seq(Filter) /\ d.filter \in Seq(FilterData)
           /\ d.lastId \in Nat /\ d.lastId \in {0} \union Watch
           /\ d.created \in Nat /\ d.created \in 0..MaxFilters
           /\ d.rules \in [Key -> Int] /\ d.installed \in Int
           /\ d.silent \subseteq Watch
BY WatchAssumption DEF DataType, Watch

LEMMA ListedFilter ==
    ASSUME NEW d, Well(d), NEW f \in Listed(d)
    PROVE  /\ f \in 1..d.created /\ f \in 1..Len(d.filter) /\ f \in Filter
           /\ d.filter[f] \in FilterData
           /\ d.filter[f].callbacks \in Seq(Watch) /\ d.filter[f].processed \in Seq(Watch)
           /\ d.filter[f].key \in Key /\ d.filter[f].lock \in BOOLEAN
<1>1. d \in DataType /\ d.listeners \in Seq(1..d.created) /\ Len(d.filter) = d.created
  BY DEF Well
<1>2. f \in 1..d.created
  BY <1>1 DEF Listed, ToSet
<1>3. d.filter \in Seq(FilterData) /\ d.created \in 0..MaxFilters
  BY <1>1, DataFields
<1>4. f \in Filter
  BY <1>2, <1>3, WatchAssumption DEF Filter
<1>5. d.filter[f] \in FilterData
  BY <1>1, <1>2, <1>3
<1> QED
  BY <1>1, <1>2, <1>4, <1>5 DEF FilterData

\* One filter becomes x, and the rest of the data fits.
LEMMA Edited ==
    ASSUME NEW d, Well(d), NEW e \in DataType, NEW f \in Listed(d), NEW x \in FilterData,
           e.filter = [d.filter EXCEPT ![f] = x],
           e.listeners = d.listeners, e.created = d.created,
           e.lastId >= d.lastId, d.silent \subseteq e.silent, e.silent \subseteq 1..e.lastId,
           FilterWell(e, f), x.key = d.filter[f].key,
           \A g \in Listed(d) \ {f} : Ids(e, f) \intersect Ids(d, g) = {},
           \A g \in Listed(d) \ {f} :
              Ids(d, g) \intersect e.silent # {} => d.filter[g].key = NameKey
    PROVE  /\ Well(e) /\ Listed(e) = Listed(d) /\ e.filter[f] = x
           /\ \A g \in Listed(d) \ {f} :
                 e.filter[g] = d.filter[g] /\ Ids(e, g) = Ids(d, g)
<1>1. /\ d.filter \in Seq(FilterData) /\ d.lastId \in Nat /\ e.lastId \in Nat
      /\ d.created \in Nat /\ Len(d.filter) = d.created
  BY DataFields DEF Well
<1>2. \A g \in Listed(d) : g \in 1..Len(d.filter)
  BY ListedFilter
<1>3. /\ Len(e.filter) = Len(d.filter) /\ e.filter[f] = x
      /\ \A g \in 1..Len(d.filter) : g # f => e.filter[g] = d.filter[g]
  BY <1>1, <1>2, ExceptSeq
<1>4. Listed(e) = Listed(d)
  BY DEF Listed
<1>5. ASSUME NEW g \in Listed(d) \ {f}
      PROVE  e.filter[g] = d.filter[g] /\ Ids(e, g) = Ids(d, g)
  BY <1>2, <1>3 DEF Ids
<1>6. ASSUME NEW g \in Listed(d) \ {f} PROVE FilterWell(e, g)
  <2>1. FilterWell(d, g)
    BY DEF Well
  <2>2. \A id \in 1..d.lastId : id \in 1..e.lastId
    BY <1>1
  <2>3. Ids(d, g) \subseteq 1..e.lastId
    BY <2>1, <2>2 DEF FilterWell
  <2> QED
    BY <1>5, <2>1, <2>3 DEF FilterWell
<1>7. \A g \in Listed(e) : FilterWell(e, g)
  BY <1>4, <1>6
<1>8. \A g, h \in Listed(e) : g # h => Ids(e, g) \intersect Ids(e, h) = {}
  <2> SUFFICES ASSUME NEW g \in Listed(e), NEW h \in Listed(e), g # h
               PROVE  Ids(e, g) \intersect Ids(e, h) = {}
    OBVIOUS
  <2>1. CASE g = f
    BY <1>4, <1>5, <2>1
  <2>2. CASE h = f
    BY <1>4, <1>5, <2>2
  <2>3. CASE g # f /\ h # f
    BY <1>4, <1>5, <2>3 DEF Well
  <2> QED
    BY <2>1, <2>2, <2>3
<1>9. \A g \in Listed(e) : e.filter[g].key = d.filter[g].key
  BY <1>3, <1>4, <1>5
<1>10. \A g, h \in Listed(e) : e.filter[g].key = NameKey /\ e.filter[h].key = NameKey => g = h
  BY <1>4, <1>9 DEF Well
<1>11. e.listeners \in Seq(1..e.created) /\ IsInjective(e.listeners) /\ Len(e.filter) = e.created
  BY <1>1, <1>3 DEF Well
<1> QED
  BY <1>3, <1>4, <1>5, <1>7, <1>8, <1>10, <1>11 DEF Well

LEMMA WithoutCallbackFits ==
    ASSUME NEW d, Well(d), NEW f \in Listed(d), NEW id, NEW e, e = WithoutCallback(d, f, id)
    PROVE  /\ Well(e) /\ Shrinks(d, e, {id}) /\ Listed(e) = Listed(d)
           /\ e.listeners = d.listeners /\ e.rules = d.rules /\ e.installed = d.installed
           /\ e.filter[f].nameWatch = d.filter[f].nameWatch
           /\ id \notin Ids(e, f) /\ Ids(e, f) = Ids(d, f) \ {id}
           /\ \A g \in Listed(d) \ {f} :
                 e.filter[g] = d.filter[g] /\ Ids(e, g) = Ids(d, g)
<1> DEFINE a == RemoveFirst(d.filter[f].callbacks, id)
           b == RemoveFirst(d.filter[f].processed, id)
           x == [d.filter[f] EXCEPT !.callbacks = a, !.processed = b]
<1>1. /\ d \in DataType /\ d.filter \in Seq(FilterData) /\ f \in 1..Len(d.filter)
      /\ d.filter[f] \in FilterData /\ FilterWell(d, f) /\ d.lastId \in Nat
  BY DataFields, ListedFilter DEF Well
<1>2. /\ a \in Seq(Watch) /\ IsInjective(a) /\ ToSet(a) = ToSet(d.filter[f].callbacks) \ {id}
  BY <1>1, ListedFilter, ListRemove DEF FilterWell
<1>3. /\ b \in Seq(Watch) /\ IsInjective(b) /\ ToSet(b) = ToSet(d.filter[f].processed) \ {id}
  BY <1>1, ListedFilter, ListRemove DEF FilterWell
<1>4. d.filter[f].processed = <<>> => b = <<>>
  BY DEF RemoveFirst
<1> HIDE DEF a, b
<1>5. /\ x \in FilterData /\ x.callbacks = a /\ x.processed = b
      /\ x.key = d.filter[f].key /\ x.lock = d.filter[f].lock
      /\ x.owner = d.filter[f].owner /\ x.nameWatch = d.filter[f].nameWatch
  BY <1>1, <1>2, <1>3 DEF FilterData
<1>6. e = [d EXCEPT !.filter = [d.filter EXCEPT ![f] = x]]
  BY <1>1 DEF WithoutCallback, a, b, DataType, FilterData
<1> HIDE DEF x
<1>7. [d.filter EXCEPT ![f] = x] \in Seq(FilterData)
  BY <1>1, <1>5, ExceptSeq
<1>8. /\ e \in DataType /\ e.filter = [d.filter EXCEPT ![f] = x]
      /\ e.listeners = d.listeners /\ e.created = d.created /\ e.lastId = d.lastId
      /\ e.silent = d.silent /\ e.rules = d.rules /\ e.installed = d.installed
  BY <1>1, <1>6, <1>7 DEF DataType
<1>9. e.filter[f] = x
  BY <1>1, <1>5, <1>8, ExceptSeq
<1>10. Ids(e, f) = Ids(d, f) \ {id}
  BY <1>2, <1>3, <1>5, <1>9 DEF Ids
<1>11. FilterWell(e, f)
  BY <1>1, <1>2, <1>3, <1>4, <1>5, <1>8, <1>9, <1>10 DEF FilterWell
<1>12. \A g \in Listed(d) \ {f} : Ids(e, f) \intersect Ids(d, g) = {}
  BY <1>10 DEF Well
<1>13. d.silent \subseteq 1..d.lastId
       /\ \A g \in Listed(d) : Ids(d, g) \intersect d.silent # {} => d.filter[g].key = NameKey
  BY DEF Well, FilterWell
<1>14. /\ Well(e) /\ Listed(e) = Listed(d)
       /\ \A g \in Listed(d) \ {f} : e.filter[g] = d.filter[g] /\ Ids(e, g) = Ids(d, g)
  BY <1>1, <1>5, <1>8, <1>11, <1>12, <1>13, Edited
<1>15. Shrinks(d, e, {id})
  BY <1>2, <1>3, <1>5, <1>8, <1>9, <1>10, <1>14 DEF Shrinks
<1> QED
  BY <1>5, <1>8, <1>9, <1>10, <1>14, <1>15

LEMMA AddCallbackFits ==
    ASSUME NEW d, Well(d), NEW f \in Listed(d), d.lastId + 1 \in Watch,
           NEW e, e = AddCallback(d, f)
    PROVE  /\ Well(e) /\ Grows(d, e) /\ Listed(e) = Listed(d)
           /\ e.listeners = d.listeners /\ e.rules = d.rules /\ e.installed = d.installed
           /\ e.created = d.created /\ e.silent = d.silent /\ e.lastId = d.lastId + 1
           /\ e.filter[f].nameWatch = d.filter[f].nameWatch
           /\ Ids(e, f) = Ids(d, f) \union {e.lastId}
           /\ \A g \in Listed(d) \ {f} :
                 e.filter[g] = d.filter[g] /\ Ids(e, g) = Ids(d, g)
<1> DEFINE id == d.lastId + 1
           a == IF d.filter[f].lock THEN d.filter[f].callbacks
                ELSE Append(d.filter[f].callbacks, id)
           b == IF d.filter[f].lock THEN Append(d.filter[f].processed, id)
                ELSE d.filter[f].processed
           x == [d.filter[f] EXCEPT !.callbacks = a, !.processed = b]
<1>1. /\ d \in DataType /\ d.filter \in Seq(FilterData) /\ f \in 1..Len(d.filter)
      /\ d.filter[f] \in FilterData /\ FilterWell(d, f) /\ d.lastId \in Nat
      /\ d.filter[f].lock \in BOOLEAN /\ d.silent \subseteq 1..d.lastId
  BY DataFields, ListedFilter DEF Well
<1>2. \A g \in Listed(d) : Ids(d, g) \subseteq 1..d.lastId
  BY DEF Well, FilterWell
<1>3. id \notin 1..d.lastId
  BY <1>1
<1>4. id \notin ToSet(d.filter[f].callbacks) /\ id \notin ToSet(d.filter[f].processed)
  BY <1>2, <1>3 DEF Ids
<1>5. /\ Append(d.filter[f].callbacks, id) \in Seq(Watch)
      /\ IsInjective(Append(d.filter[f].callbacks, id))
      /\ ToSet(Append(d.filter[f].callbacks, id)) = ToSet(d.filter[f].callbacks) \union {id}
  BY <1>1, <1>4, ListedFilter, ListAppend DEF FilterWell
<1>6. /\ Append(d.filter[f].processed, id) \in Seq(Watch)
      /\ IsInjective(Append(d.filter[f].processed, id))
      /\ ToSet(Append(d.filter[f].processed, id)) = ToSet(d.filter[f].processed) \union {id}
  BY <1>1, <1>4, ListedFilter, ListAppend DEF FilterWell
<1>7. /\ a \in Seq(Watch) /\ IsInjective(a) /\ b \in Seq(Watch) /\ IsInjective(b)
  BY <1>1, <1>5, <1>6, ListedFilter DEF FilterWell
<1>8. /\ d.filter[f].lock => /\ ToSet(a) = ToSet(d.filter[f].callbacks)
                             /\ ToSet(b) = ToSet(d.filter[f].processed) \union {id}
      /\ ~d.filter[f].lock => /\ ToSet(a) = ToSet(d.filter[f].callbacks) \union {id}
                              /\ ToSet(b) = ToSet(d.filter[f].processed)
                              /\ b = <<>>
  BY <1>1, <1>5, <1>6 DEF FilterWell
<1>9. /\ x \in FilterData /\ x.callbacks = a /\ x.processed = b
      /\ x.key = d.filter[f].key /\ x.lock = d.filter[f].lock
      /\ x.owner = d.filter[f].owner /\ x.nameWatch = d.filter[f].nameWatch
  <2> HIDE DEF a, b
  <2> QED
    BY <1>1, <1>7 DEF FilterData
<1>10. e = [d EXCEPT !.lastId = id, !.filter = [d.filter EXCEPT ![f] = x]]
  BY <1>1 DEF AddCallback, DataType, FilterData
<1> HIDE DEF a, b, x
<1>11. [d.filter EXCEPT ![f] = x] \in Seq(FilterData)
  BY <1>1, <1>9, ExceptSeq
<1>12. /\ e \in DataType /\ e.filter = [d.filter EXCEPT ![f] = x]
       /\ e.listeners = d.listeners /\ e.created = d.created /\ e.lastId = id
       /\ e.silent = d.silent /\ e.rules = d.rules /\ e.installed = d.installed
  BY <1>1, <1>10, <1>11 DEF DataType
<1>13. e.filter[f] = x
  BY <1>1, <1>9, <1>12, ExceptSeq
<1>14. Ids(e, f) = Ids(d, f) \union {id}
  BY <1>8, <1>9, <1>13 DEF Ids
<1>15. \A i \in 1..d.lastId : i \in 1..e.lastId
  BY <1>1, <1>12
<1>16. id \in 1..e.lastId /\ e.lastId >= d.lastId /\ id \notin d.silent /\ e.silent \subseteq 1..e.lastId
  BY <1>1, <1>3, <1>12, <1>15
<1>17. Ids(e, f) \subseteq 1..e.lastId /\ Ids(e, f) \intersect e.silent = Ids(d, f) \intersect d.silent
  BY <1>2, <1>12, <1>14, <1>15, <1>16
<1>18. ToSet(a) \intersect ToSet(b) = {}
  BY <1>1, <1>4, <1>8 DEF FilterWell
<1>19. FilterWell(e, f)
  BY <1>1, <1>7, <1>8, <1>9, <1>12, <1>13, <1>17, <1>18 DEF FilterWell
<1>20. \A g \in Listed(d) \ {f} : Ids(e, f) \intersect Ids(d, g) = {}
  BY <1>2, <1>3, <1>14 DEF Well
<1>21. /\ Well(e) /\ Listed(e) = Listed(d)
       /\ \A g \in Listed(d) \ {f} : e.filter[g] = d.filter[g] /\ Ids(e, g) = Ids(d, g)
  <2>1. \A g \in Listed(d) : Ids(d, g) \intersect d.silent # {} => d.filter[g].key = NameKey
    BY DEF Well, FilterWell
  <2> QED
    BY <1>1, <1>9, <1>12, <1>16, <1>19, <1>20, <2>1, Edited
<1>22. ASSUME NEW g \in Listed(d)
       PROVE  /\ e.filter[g].key = d.filter[g].key
              /\ e.filter[g].owner = d.filter[g].owner
              /\ e.filter[g].lock = d.filter[g].lock
              /\ ToSet(d.filter[g].callbacks) \subseteq ToSet(e.filter[g].callbacks)
              /\ ToSet(d.filter[g].processed) \subseteq ToSet(e.filter[g].processed)
              /\ d.filter[g].lock =>
                    ToSet(e.filter[g].callbacks) \subseteq ToSet(d.filter[g].callbacks)
              /\ Ids(e, g) \intersect (1..d.lastId) \subseteq Ids(d, g)
  BY <1>3, <1>8, <1>9, <1>13, <1>14, <1>21
<1>23. Grows(d, e)
  <2>1. e.created >= d.created /\ e.silent \intersect (1..d.lastId) \subseteq d.silent
    BY <1>1, <1>12, DataFields
  <2> QED
    BY <1>12, <1>16, <1>21, <1>22, <2>1, Zenon DEF Grows
<1> QED
  BY <1>9, <1>12, <1>13, <1>14, <1>21, <1>23

LEMMA WithKeyFinite ==
    ASSUME NEW d, Well(d), NEW k
    PROVE  IsFiniteSet(WithKey(d, k)) /\ Cardinality(WithKey(d, k)) \in Nat
<1>1. WithKey(d, k) \subseteq 1..d.created
  BY ListedFilter DEF WithKey
<1>2. d.created \in Nat
  BY DataFields DEF Well
<1>3. IsFiniteSet(1..d.created)
  BY <1>2, FS_Interval
<1> QED
  BY <1>1, <1>3, FS_Subset, FS_CardinalityType

LEMMA NewFilterType ==
    ASSUME NEW k \in Key
    PROVE  /\ NewFilter(k) \in FilterData /\ NewFilter(k).key = k /\ ~NewFilter(k).lock
           /\ NewFilter(k).callbacks = <<>> /\ NewFilter(k).processed = <<>>
           /\ NewFilter(k).owner = Unknown /\ NewFilter(k).nameWatch = 0
BY DEF NewFilter, FilterData

LEMMA UnlistedFits ==
    ASSUME NEW d, Well(d), NEW f \in Listed(d), ~d.filter[f].lock,
           NEW e, e = Unlisted(d, f)
    PROVE  /\ Well(e) /\ Shrinks(d, e, Ids(d, f)) /\ Listed(e) = Listed(d) \ {f}
           /\ \A g \in Listed(e) : e.filter[g] = d.filter[g] /\ Ids(e, g) = Ids(d, g)
           /\ Excess(e) = Excess(d)
           /\ \A k \in Key : Surplus(e, k) = Surplus(d, k)
                                + (IF k = d.filter[f].key THEN 1 ELSE 0)
<1> DEFINE l == RemoveFirst(d.listeners, f)
           x == NewFilter(d.filter[f].key)
<1>1. /\ d \in DataType /\ d.filter \in Seq(FilterData) /\ f \in 1..Len(d.filter)
      /\ d.filter[f].key \in Key /\ d.rules \in [Key -> Int] /\ d.installed \in Int
      /\ d.listeners \in Seq(1..d.created) /\ IsInjective(d.listeners)
      /\ d.listeners \in Seq(Filter) /\ Len(d.filter) = d.created
  BY DataFields, ListedFilter DEF Well
<1>2. /\ l \in Seq(1..d.created) /\ l \in Seq(Filter) /\ IsInjective(l)
      /\ ToSet(l) = Listed(d) \ {f}
      /\ \A g, h : Before(l, g, h) => Before(d.listeners, g, h)
  BY <1>1, ListRemove DEF Listed
<1>3. x \in FilterData
  BY <1>1, NewFilterType
<1>4. d.listeners # <<>>
  BY DEF Listed, ToSet
<1>5. e = [d EXCEPT !.listeners = l, !.filter = [d.filter EXCEPT ![f] = x],
                    !.installed = IF l = <<>> THEN d.installed - 1 ELSE d.installed]
  BY <1>1 DEF Unlisted, DataType
<1> HIDE DEF l, x
<1>6. [d.filter EXCEPT ![f] = x] \in Seq(FilterData)
  BY <1>1, <1>3, ExceptSeq
<1>7. (IF l = <<>> THEN d.installed - 1 ELSE d.installed) \in Int
  BY <1>1
<1>8. /\ e \in DataType /\ e.filter = [d.filter EXCEPT ![f] = x]
      /\ e.listeners = l /\ e.created = d.created /\ e.lastId = d.lastId
      /\ e.silent = d.silent /\ e.rules = d.rules
      /\ e.installed = IF l = <<>> THEN d.installed - 1 ELSE d.installed
  BY <1>1, <1>2, <1>5, <1>6, <1>7 DEF DataType
<1>9. Listed(e) = Listed(d) \ {f}
  BY <1>2, <1>8 DEF Listed
<1>10. ASSUME NEW g \in Listed(e)
       PROVE  e.filter[g] = d.filter[g] /\ Ids(e, g) = Ids(d, g)
  <2>1. g \in 1..Len(d.filter) /\ g # f
    BY <1>9, ListedFilter
  <2>2. e.filter[g] = d.filter[g]
    BY <1>1, <1>3, <1>8, <2>1, ExceptSeq
  <2> QED
    BY <2>2 DEF Ids
<1>11. Len(e.filter) = e.created
  BY <1>1, <1>3, <1>8, ExceptSeq
<1>12. ASSUME NEW g \in Listed(e) PROVE FilterWell(e, g)
  <2>1. FilterWell(d, g)
    BY <1>9 DEF Well
  <2> QED
    BY <1>8, <1>10, <2>1 DEF FilterWell
<1>13. \A g, h \in Listed(e) : g # h => Ids(e, g) \intersect Ids(e, h) = {}
  BY <1>9, <1>10 DEF Well
<1>14. \A g, h \in Listed(e) :
          e.filter[g].key = NameKey /\ e.filter[h].key = NameKey => g = h
  BY <1>9, <1>10 DEF Well
<1>15. e.silent \subseteq 1..e.lastId
  BY <1>8 DEF Well
<1>16. Well(e)
  BY <1>2, <1>8, <1>11, <1>12, <1>13, <1>14, <1>15 DEF Well
<1>17. Shrinks(d, e, Ids(d, f))
  BY <1>2, <1>8, <1>9, <1>10 DEF Shrinks
<1>18. Excess(e) = Excess(d)
  BY <1>1, <1>4, <1>8 DEF Excess
<1>19. ASSUME NEW k \in Key
       PROVE  Surplus(e, k) = Surplus(d, k) + (IF k = d.filter[f].key THEN 1 ELSE 0)
  <2>1. WithKey(e, k) = WithKey(d, k) \ {f}
    BY <1>9, <1>10 DEF WithKey
  <2>2. IsFiniteSet(WithKey(d, k)) /\ Cardinality(WithKey(d, k)) \in Nat
    BY WithKeyFinite
  <2>3. f \in WithKey(d, k) <=> k = d.filter[f].key
    BY DEF WithKey
  <2>4. Cardinality(WithKey(e, k)) =
           Cardinality(WithKey(d, k)) - (IF k = d.filter[f].key THEN 1 ELSE 0)
    <3>1. CASE f \in WithKey(d, k)
      BY <2>1, <2>2, <2>3, <3>1, FS_RemoveElement
    <3>2. CASE f \notin WithKey(d, k)
      <4>1. WithKey(e, k) = WithKey(d, k)
        BY <2>1, <3>2
      <4> QED
        BY <2>2, <2>3, <3>2, <4>1
    <3> QED
      BY <3>1, <3>2
  <2>5. e.rules[k] = d.rules[k] /\ d.rules[k] \in Int
    BY <1>1, <1>8
  <2> QED
    BY <2>2, <2>4, <2>5 DEF Surplus
<1> QED
  BY <1>9, <1>10, <1>16, <1>17, <1>18, <1>19

LEMMA ShrinksNone ==
    ASSUME NEW d, NEW X
    PROVE  Shrinks(d, d, X)
BY DEF Shrinks

LEMMA GrowsNone ==
    ASSUME NEW d, Well(d)
    PROVE  Grows(d, d)
BY DataFields DEF Grows, Well

LEMMA WithoutRuleFits ==
    ASSUME NEW d, Well(d), NEW f \in Listed(d), NEW e, e = WithoutRule(d, f)
    PROVE  /\ Well(e) /\ Shrinks(d, e, {}) /\ Listed(e) = Listed(d)
           /\ e.listeners = d.listeners /\ e.filter = d.filter
           /\ \A g : Ids(e, g) = Ids(d, g)
           /\ Excess(e) = Excess(d)
           /\ \A k \in Key : Surplus(e, k) = Surplus(d, k)
                                - (IF k = d.filter[f].key THEN 1 ELSE 0)
<1> DEFINE r == [d.rules EXCEPT ![d.filter[f].key] = @ - 1]
<1>1. d \in DataType /\ d.rules \in [Key -> Int] /\ d.filter[f].key \in Key
  BY DataFields, ListedFilter DEF Well
<1>2. /\ r \in [Key -> Int]
      /\ \A k \in Key : r[k] = d.rules[k] - (IF k = d.filter[f].key THEN 1 ELSE 0)
  BY <1>1
<1>3. e = [d EXCEPT !.rules = r]
  BY <1>1 DEF WithoutRule, DataType
<1> HIDE DEF r
<1>4. /\ e \in DataType /\ e.rules = r /\ e.listeners = d.listeners /\ e.filter = d.filter
      /\ e.created = d.created /\ e.lastId = d.lastId /\ e.silent = d.silent
      /\ e.installed = d.installed
  BY <1>1, <1>2, <1>3 DEF DataType
<1>5. Listed(e) = Listed(d) /\ \A g : Ids(e, g) = Ids(d, g)
  BY <1>4 DEF Listed, Ids
<1>6. \A g \in Listed(e) : FilterWell(e, g)
  <2>1. \A g \in Listed(d) : FilterWell(d, g)
    BY DEF Well
  <2> QED
    BY <1>4, <1>5, <2>1 DEF FilterWell
<1>7. Well(e)
  BY <1>4, <1>5, <1>6 DEF Well
<1>8. Shrinks(d, e, {})
  BY <1>4, <1>5 DEF Shrinks
<1>9. Excess(e) = Excess(d)
  BY <1>4 DEF Excess
<1>10. ASSUME NEW k \in Key
       PROVE  Surplus(e, k) = Surplus(d, k) - (IF k = d.filter[f].key THEN 1 ELSE 0)
  <2>1. WithKey(e, k) = WithKey(d, k) /\ Cardinality(WithKey(d, k)) \in Nat
    BY <1>4, <1>5, WithKeyFinite DEF WithKey
  <2>2. d.rules[k] \in Int
    BY <1>1
  <2> QED
    BY <1>2, <1>4, <2>1, <2>2 DEF Surplus
<1> QED
  BY <1>4, <1>5, <1>7, <1>8, <1>9, <1>10

-----------------------------------------------------------------------------
(* The changes that remove. *)

\* No filter is left empty by a change from d to e, but for the one for
\* NameKey if it is being walked.
EmptiesNone(d, e) ==
    \A g \in Listed(e) : Ids(e, g) = {} =>
        Ids(d, g) = {} \/ (e.filter[g].lock /\ e.filter[g].key = NameKey)

LEMMA NoIds ==
    ASSUME NEW d, Well(d), NEW f \in Listed(d), ~Stays(d, f)
    PROVE  Ids(d, f) = {} /\ ~d.filter[f].lock
<1>1. FilterWell(d, f)
  BY DEF Well
<1>2. ToSet(<<>>) = {}
  BY DEF ToSet
<1> QED
  BY <1>1, <1>2 DEF Stays, FilterWell, Ids

LEMMA RemoveNameWatchFits ==
    ASSUME NEW d, Well(d), NEW id \in {0} \union d.silent, NEW ok \in BOOLEAN,
           NEW e, e = RemoveNameWatch(d, id, ok)
    PROVE  /\ Well(e) /\ Shrinks(d, e, d.silent)
           /\ Excess(e) = Excess(d) /\ \A k \in Key : Surplus(e, k) = Surplus(d, k)
           /\ ok => EmptiesNone(d, e)
           /\ \A g \in Listed(d) : Ids(d, g) = {} => g \in Listed(e)
<1>0. ASSUME NEW f \in Listed(d), NEW w, w = WithoutCallback(d, f, id)
      PROVE  /\ Well(w) /\ Shrinks(d, w, {id}) /\ Listed(w) = Listed(d)
             /\ w.listeners = d.listeners /\ w.rules = d.rules /\ w.installed = d.installed
             /\ \A g \in Listed(d) \ {f} :
                   w.filter[g] = d.filter[g] /\ Ids(w, g) = Ids(d, g)
  BY <1>0, WithoutCallbackFits
<1> DEFINE Has(f) == id \in ToSet(d.filter[f].callbacks \o d.filter[f].processed)
           i == SelectInSeq(d.listeners, LAMBDA g : Has(g))
           f == d.listeners[i]
           w == WithoutCallback(d, f, id)
<1>1. CASE id = 0 \/ i = 0
  <2>1. e = d
    BY <1>1 DEF RemoveNameWatch
  <2> QED
    BY <2>1, ShrinksNone DEF EmptiesNone
<1>2. CASE id # 0 /\ i # 0
  <2> DEFINE I == {j \in 1..Len(d.listeners) : Has(d.listeners[j])}
  <2>1. d.listeners \in Seq(1..d.created) /\ Len(d.listeners) \in Nat
        /\ DOMAIN d.listeners = 1..Len(d.listeners)
    BY Domain DEF Well
  <2>2. I \subseteq Nat /\ I # {} /\ i = Min(I)
    BY <1>2, <2>1 DEF SelectInSeq
  <2>3. i \in 1..Len(d.listeners) /\ Has(f)
    <3> HIDE DEF I
    <3>1. Min(I) \in I
      BY <2>2, MinIn
    <3>2. i \in I
      BY <2>2, <3>1
    <3> QED
      BY <3>2 DEF I
  <2>4. f \in Listed(d)
    BY <2>1, <2>3 DEF Listed, ToSet
  <2>5. e = IF Stays(w, f) \/ ~ok THEN w ELSE Unlisted(WithoutRule(w, f), f)
    BY <1>2 DEF RemoveNameWatch
  <2>6. w = WithoutCallback(d, f, id)
    OBVIOUS
  <2> HIDE DEF I, i, f, w
  <2>7. id \in d.silent /\ id \in Ids(d, f)
    <3>1. d.filter[f].callbacks \in Seq(Watch) /\ d.filter[f].processed \in Seq(Watch)
      BY <2>4, ListedFilter
    <3>2. Has(f)
      BY <2>3
    <3> QED
      BY <1>2, <3>1, <3>2, Joined DEF Ids
  <2> HIDE DEF Has
  <2>8. d.filter[f].key = NameKey
    BY <2>4, <2>7 DEF Well, FilterWell
  <2>9. /\ Well(w) /\ Shrinks(d, w, {id}) /\ Listed(w) = Listed(d)
        /\ w.listeners = d.listeners /\ w.rules = d.rules /\ w.installed = d.installed
        /\ \A g \in Listed(d) \ {f} : w.filter[g] = d.filter[g] /\ Ids(w, g) = Ids(d, g)
    BY <1>0, <2>4, <2>6
  <2>10. w.filter[f].key = NameKey /\ w.filter[f].lock = d.filter[f].lock
    BY <2>4, <2>8, <2>9 DEF Shrinks
  <2>11. Excess(w) = Excess(d) /\ \A k \in Key : Surplus(w, k) = Surplus(d, k)
    <3>1. \A k \in Key : WithKey(w, k) = WithKey(d, k)
      BY <2>8, <2>9, <2>10 DEF WithKey
    <3> QED
      BY <2>9, <3>1 DEF Excess, Surplus
  <2>12. CASE Stays(w, f) \/ ~ok
    <3>1. e = w
      BY <2>5, <2>12
    <3>2. ok => Stays(w, f)
      BY <2>12
    <3>3. ASSUME Stays(w, f), Ids(w, f) = {} PROVE w.filter[f].lock
      <4>1. w.filter[f].callbacks \in Seq(Watch)
        BY <2>4, <2>9, ListedFilter
      <4>2. ToSet(w.filter[f].callbacks) = {}
        BY <3>3 DEF Ids
      <4>3. w.filter[f].callbacks = <<>>
        BY <4>1, <4>2, FirstOfEmpty
      <4> QED
        BY <3>3, <4>3 DEF Stays
    <3>4. ok => EmptiesNone(d, w)
      BY <2>9, <2>10, <3>2, <3>3 DEF EmptiesNone
    <3>5. Shrinks(d, w, d.silent)
      BY <2>7, <2>9 DEF Shrinks
    <3> QED
      BY <2>9, <2>11, <3>1, <3>4, <3>5
  <2>13. CASE ~Stays(w, f) /\ ok
    <3> DEFINE r == WithoutRule(w, f)
               u == Unlisted(r, f)
    <3>1. e = u
      BY <2>5, <2>13
    <3>2. Ids(w, f) = {} /\ ~w.filter[f].lock
      BY <2>4, <2>9, <2>13, NoIds
    <3>3. /\ Well(r) /\ Shrinks(w, r, {}) /\ Listed(r) = Listed(w)
          /\ r.filter = w.filter /\ \A g : Ids(r, g) = Ids(w, g)
          /\ Excess(r) = Excess(w)
          /\ \A k \in Key : Surplus(r, k) = Surplus(w, k)
                               - (IF k = w.filter[f].key THEN 1 ELSE 0)
      BY <2>4, <2>9, WithoutRuleFits
    <3> HIDE DEF r
    <3>4. /\ Well(u) /\ Shrinks(r, u, Ids(r, f)) /\ Listed(u) = Listed(r) \ {f}
          /\ \A g \in Listed(u) : u.filter[g] = r.filter[g] /\ Ids(u, g) = Ids(r, g)
          /\ Excess(u) = Excess(r)
          /\ \A k \in Key : Surplus(u, k) = Surplus(r, k)
                               + (IF k = r.filter[f].key THEN 1 ELSE 0)
      BY <2>4, <2>9, <3>2, <3>3, UnlistedFits
    <3> HIDE DEF u
    <3>5. Shrinks(d, u, ({id} \union {}) \union {})
      BY <2>9, <3>2, <3>3, <3>4, ShrinksTransitive
    <3>6. Shrinks(d, u, d.silent)
      BY <2>7, <3>5 DEF Shrinks
    <3>7. \A k \in Key : Surplus(u, k) = Surplus(d, k)
      <4> TAKE k \in Key
      <4>1. Surplus(w, k) \in Int
        BY <2>9, DataFields, WithKeyFinite DEF Well, Surplus
      <4> QED
        BY <2>11, <3>3, <3>4, <4>1
    <3>8. EmptiesNone(d, u)
      BY <2>9, <3>3, <3>4 DEF EmptiesNone
    <3>9. \A g \in Listed(d) : Ids(d, g) = {} => g \in Listed(u)
      BY <2>7, <2>9, <3>3, <3>4
    <3> QED
      BY <2>11, <3>1, <3>3, <3>4, <3>6, <3>7, <3>8, <3>9
  <2> QED
    BY <2>12, <2>13
<1> QED
  BY <1>1, <1>2

LEMMA FreeFits ==
    ASSUME NEW d, Well(d), NEW f \in Listed(d), ~d.filter[f].lock, NEW ok \in BOOLEAN,
           NEW e, e = Free(d, f, ok)
    PROVE  /\ Well(e) /\ Shrinks(d, e, Ids(d, f) \union d.silent) /\ f \notin Listed(e)
           /\ Excess(e) = Excess(d)
           /\ \A k \in Key : Surplus(e, k) = Surplus(d, k)
                                + (IF k = d.filter[f].key THEN 1 ELSE 0)
           /\ ok => EmptiesNone(d, e)
           /\ \A g \in Listed(d) : Ids(d, g) = {} => g = f \/ g \in Listed(e)
<1> DEFINE u == Unlisted(d, f)
           id == d.filter[f].nameWatch
<1>1. e = RemoveNameWatch(u, id, ok)
  BY DEF Free
<1>2. /\ Well(u) /\ Shrinks(d, u, Ids(d, f)) /\ Listed(u) = Listed(d) \ {f}
      /\ \A g \in Listed(u) : u.filter[g] = d.filter[g] /\ Ids(u, g) = Ids(d, g)
      /\ Excess(u) = Excess(d)
      /\ \A k \in Key : Surplus(u, k) = Surplus(d, k)
                           + (IF k = d.filter[f].key THEN 1 ELSE 0)
  BY UnlistedFits
<1>3. id \in {0} \union u.silent /\ u.silent = d.silent
  BY <1>2 DEF Well, FilterWell, Shrinks
<1> HIDE DEF u, id
<1>4. /\ Well(e) /\ Shrinks(u, e, u.silent)
      /\ Excess(e) = Excess(u) /\ \A k \in Key : Surplus(e, k) = Surplus(u, k)
      /\ ok => EmptiesNone(u, e)
      /\ \A g \in Listed(u) : Ids(u, g) = {} => g \in Listed(e)
  BY <1>1, <1>2, <1>3, RemoveNameWatchFits
<1>5. Shrinks(d, e, Ids(d, f) \union d.silent)
  BY <1>2, <1>3, <1>4, ShrinksTransitive
<1>6. Listed(e) \subseteq Listed(u)
  BY <1>4 DEF Shrinks
<1>7. ok => EmptiesNone(d, e)
  BY <1>2, <1>4, <1>6 DEF EmptiesNone
<1>8. \A g \in Listed(d) : Ids(d, g) = {} => g = f \/ g \in Listed(e)
  BY <1>2, <1>4
<1> QED
  BY <1>2, <1>4, <1>5, <1>6, <1>7, <1>8

LEMMA RemovedFits ==
    ASSUME NEW d, Well(d), NEW f \in Listed(d), NEW ok \in BOOLEAN,
           NEW e, e = Removed(d, f, ok)
    PROVE  /\ Well(e) /\ Shrinks(d, e, d.silent)
           /\ Excess(e) = Excess(d) /\ \A k \in Key : Surplus(e, k) = Surplus(d, k)
           /\ ok => EmptiesNone(d, e)
           /\ ok /\ f \in Listed(e) => Stays(d, f) /\ e = d
           /\ \A g \in Listed(d) : Ids(d, g) = {} => g = f \/ g \in Listed(e)
<1>1. CASE Stays(d, f) \/ ~ok
  <2>1. e = d
    BY <1>1 DEF Removed
  <2> QED
    BY <1>1, <2>1, ShrinksNone DEF EmptiesNone
<1>2. CASE ~Stays(d, f) /\ ok
  <2> DEFINE r == WithoutRule(d, f)
  <2>1. e = Free(r, f, ok)
    BY <1>2 DEF Removed
  <2>2. Ids(d, f) = {} /\ ~d.filter[f].lock
    BY <1>2, NoIds
  <2>3. /\ Well(r) /\ Shrinks(d, r, {}) /\ Listed(r) = Listed(d)
        /\ r.filter = d.filter /\ \A g : Ids(r, g) = Ids(d, g)
        /\ Excess(r) = Excess(d)
        /\ \A k \in Key : Surplus(r, k) = Surplus(d, k)
                             - (IF k = d.filter[f].key THEN 1 ELSE 0)
    BY WithoutRuleFits
  <2> HIDE DEF r
  <2>4. /\ Well(e) /\ Shrinks(r, e, Ids(r, f) \union r.silent) /\ f \notin Listed(e)
        /\ Excess(e) = Excess(r)
        /\ \A k \in Key : Surplus(e, k) = Surplus(r, k)
                             + (IF k = r.filter[f].key THEN 1 ELSE 0)
        /\ ok => EmptiesNone(r, e)
        /\ \A g \in Listed(r) : Ids(r, g) = {} => g = f \/ g \in Listed(e)
    BY <2>1, <2>2, <2>3, FreeFits
  <2>5. r.silent = d.silent
    BY <2>3 DEF Shrinks
  <2>6. Shrinks(d, e, {} \union ({} \union d.silent))
    BY <2>2, <2>3, <2>4, <2>5, ShrinksTransitive
  <2>7. \A k \in Key : Surplus(e, k) = Surplus(d, k)
    <3> TAKE k \in Key
    <3>1. Surplus(d, k) \in Int
      BY DataFields, WithKeyFinite DEF Well, Surplus
    <3> QED
      BY <2>3, <2>4, <3>1
  <2>8. EmptiesNone(d, e)
    BY <1>2, <2>3, <2>4 DEF EmptiesNone
  <2>9. {} \union ({} \union d.silent) = d.silent
    OBVIOUS
  <2>10. \A g \in Listed(d) : Ids(d, g) = {} => g = f \/ g \in Listed(e)
    BY <2>3, <2>4
  <2> QED
    BY <2>3, <2>4, <2>6, <2>7, <2>8, <2>9, <2>10
<1> QED
  BY <1>1, <1>2

-----------------------------------------------------------------------------
(* The changes that add. *)

\* The filter that is found, or that there is none
LEMMA FindMatchFinds ==
    ASSUME NEW d, Well(d), NEW k \in Key, NEW i, i = FindMatch(d, k)
    PROVE  /\ i # 0 => d.listeners[i] \in Listed(d) /\ d.filter[d.listeners[i]].key = k
           /\ i = 0 => \A f \in Listed(d) :
                          d.filter[f].key # k \/ d.filter[f].owner # Unknown
<1> DEFINE Fits(f) == d.filter[f].key = k /\ d.filter[f].owner = Unknown
           I == {j \in 1..Len(d.listeners) : Fits(d.listeners[j])}
<1>1. d.listeners \in Seq(1..d.created) /\ Len(d.listeners) \in Nat
      /\ DOMAIN d.listeners = 1..Len(d.listeners)
  BY Domain DEF Well
<1>2. i = IF I # {} THEN Min(I) ELSE 0
  BY DEF FindMatch, SelectInSeq
<1>3. I # {} => Min(I) \in I /\ Min(I) # 0
  <2>1. I \subseteq Nat /\ 0 \notin I
    BY <1>1
  <2> HIDE DEF I
  <2> QED
    BY <2>1, MinIn
<1>4. ASSUME i # 0
      PROVE  d.listeners[i] \in Listed(d) /\ d.filter[d.listeners[i]].key = k
  <2>1. i \in I
    BY <1>2, <1>3, <1>4, Zenon
  <2> QED
    BY <1>1, <2>1 DEF Listed, ToSet
<1>5. ASSUME i = 0, NEW f \in Listed(d)
      PROVE  d.filter[f].key # k \/ d.filter[f].owner # Unknown
  <2>1. I = {}
    BY <1>2, <1>3, <1>5, Zenon
  <2>2. PICK j \in 1..Len(d.listeners) : d.listeners[j] = f
    BY <1>1 DEF Listed, ToSet
  <2> QED
    BY <2>1, <2>2
<1> QED
  BY <1>4, <1>5

\* From d to e there is a new filter f for key k, which comes last.
Lists(d, e, k, f) ==
    /\ e \in DataType /\ f = d.created + 1 /\ e.created = f
    /\ e.filter = Append(d.filter, NewFilter(k)) /\ e.listeners = Append(d.listeners, f)
    /\ e.rules = [d.rules EXCEPT ![k] = @ + 1]
    /\ e.lastId = d.lastId /\ e.silent = d.silent

LEMMA ListingFits ==
    ASSUME NEW d, Well(d), NEW k \in Key, FindMatch(d, k) = 0, d.created + 1 <= MaxFilters,
           NEW e, NEW f, Lists(d, e, k, f)
    PROVE  /\ Well(e) /\ Grows(d, e) /\ Listed(e) = Listed(d) \union {f}
           /\ f \notin Listed(d) /\ e.filter[f] = NewFilter(k) /\ Ids(e, f) = {}
           /\ \A g \in Listed(d) : e.filter[g] = d.filter[g] /\ Ids(e, g) = Ids(d, g)
           /\ e.lastId = d.lastId /\ e.silent = d.silent
           /\ e.listeners # <<>> /\ e.created = d.created + 1
           /\ \A h \in Key : Surplus(e, h) = Surplus(d, h)
<1> DEFINE x == NewFilter(k)
           fs == Append(d.filter, x)
           l == Append(d.listeners, f)
           r == [d.rules EXCEPT ![k] = @ + 1]
<1>0. e \in DataType /\ f = d.created + 1 /\ e.created = f /\ e.lastId = d.lastId /\ e.silent = d.silent
  BY DEF Lists
<1>1. /\ d \in DataType /\ d.filter \in Seq(FilterData) /\ Len(d.filter) = d.created
      /\ d.rules \in [Key -> Int] /\ d.created \in Nat /\ d.lastId \in Nat
      /\ d.listeners \in Seq(1..d.created) /\ IsInjective(d.listeners)
      /\ d.listeners \in Seq(Filter)
  BY DataFields DEF Well
<1>2. x \in FilterData /\ x.key = k /\ ~x.lock /\ x.callbacks = <<>> /\ x.processed = <<>>
      /\ x.owner = Unknown /\ x.nameWatch = 0
  BY NewFilterType
<1>3. f \in 1..f /\ f \in Filter /\ f \in 0..MaxFilters /\ 1..d.created \subseteq 1..f
      /\ f \notin 1..d.created
  BY <1>0, <1>1, WatchAssumption DEF Filter
<1>4. d.listeners \in Seq(1..f)
  BY <1>1, <1>3, SeqMonotonic
<1>5. f \notin Listed(d)
  BY <1>3, ListedFilter
<1>6. /\ l \in Seq(1..f) /\ IsInjective(l) /\ ToSet(l) = Listed(d) \union {f}
      /\ \A g, h : Before(d.listeners, g, h) => Before(l, g, h)
      /\ \A g \in Listed(d) : Before(l, g, f)
  BY <1>0, <1>1, <1>3, <1>4, <1>5, ListAppend DEF Listed
<1>7. l \in Seq(Filter) /\ l # <<>>
  BY <1>0, <1>1, <1>3
<1>8. /\ fs \in Seq(FilterData) /\ Len(fs) = f /\ fs[f] = x
      /\ \A g \in 1..d.created : fs[g] = d.filter[g]
  BY <1>0, <1>1, <1>2
<1>9. /\ r \in [Key -> Int]
      /\ \A h \in Key : r[h] = d.rules[h] + (IF h = k THEN 1 ELSE 0)
  BY <1>1
<1>10. /\ e.filter = fs /\ e.listeners = l /\ e.rules = r
  BY DEF Lists
<1> HIDE DEF fs, l, r, x
<1>11. Listed(e) = Listed(d) \union {f}
  BY <1>6, <1>0, <1>10 DEF Listed
<1>12. ASSUME NEW g \in Listed(d)
       PROVE  e.filter[g] = d.filter[g] /\ Ids(e, g) = Ids(d, g)
  <2>1. g \in 1..d.created
    BY ListedFilter
  <2> QED
    BY <1>8, <1>0, <1>10, <2>1 DEF Ids
<1>13. e.filter[f] = x /\ Ids(e, f) = {}
  BY <1>2, <1>8, <1>0, <1>10 DEF Ids, ToSet
<1>14. ASSUME NEW g \in Listed(e) PROVE FilterWell(e, g)
  <2>1. CASE g \in Listed(d)
    <3>1. FilterWell(d, g)
      BY <2>1 DEF Well
    <3> QED
      BY <1>0, <1>10, <1>12, <2>1, <3>1 DEF FilterWell
  <2>2. CASE g = f
    <3>1. IsInjective(<<>>) /\ ToSet(<<>>) = {}
      BY DEF IsInjective, ToSet
    <3> QED
      BY <1>2, <1>13, <2>2, <3>1 DEF FilterWell
  <2> QED
    BY <1>11, <2>1, <2>2
<1>15. \A g, h \in Listed(e) : g # h => Ids(e, g) \intersect Ids(e, h) = {}
  <2> SUFFICES ASSUME NEW g \in Listed(e), NEW h \in Listed(e), g # h
               PROVE  Ids(e, g) \intersect Ids(e, h) = {}
    OBVIOUS
  <2>1. CASE g = f \/ h = f
    BY <1>13, <2>1
  <2>2. CASE g # f /\ h # f
    BY <1>11, <1>12, <2>2 DEF Well
  <2> QED
    BY <2>1, <2>2
<1>16. k = NameKey => \A g \in Listed(d) : d.filter[g].key # NameKey
  <2> DEFINE i == FindMatch(d, k)
  <2>1. i = 0 => \A g \in Listed(d) : d.filter[g].key # k \/ d.filter[g].owner # Unknown
    BY FindMatchFinds
  <2>2. \A g \in Listed(d) : FilterWell(d, g)
    BY DEF Well
  <2> QED
    BY <2>1, <2>2 DEF FilterWell
<1>17. \A g, h \in Listed(e) :
          e.filter[g].key = NameKey /\ e.filter[h].key = NameKey => g = h
  BY <1>2, <1>11, <1>12, <1>13, <1>16 DEF Well
<1>18. Well(e)
  <2>1. d.silent \subseteq 1..d.lastId
    BY DEF Well
  <2> QED
    BY <1>6, <1>8, <1>0, <1>10, <1>14, <1>15, <1>17, <2>1 DEF Well
<1>19. Grows(d, e)
  <2>1. e.lastId >= d.lastId /\ e.created >= d.created
    BY <1>1, <1>0, <1>10
  <2>2. ASSUME NEW g \in Listed(d), NEW h \in Listed(e) \ Listed(d)
        PROVE  Before(e.listeners, g, h)
    BY <1>6, <1>0, <1>10, <1>11
  <2>3. \A g \in Listed(e) \ Listed(d) :
           ~e.filter[g].lock /\ Ids(e, g) \intersect (1..d.lastId) = {}
    BY <1>2, <1>11, <1>13
  <2> QED
    BY <1>6, <1>0, <1>10, <1>11, <1>12, <2>1, <2>2, <2>3 DEF Grows
<1>20. ASSUME NEW h \in Key PROVE Surplus(e, h) = Surplus(d, h)
  <2>1. IsFiniteSet(WithKey(d, h)) /\ Cardinality(WithKey(d, h)) \in Nat
    BY WithKeyFinite
  <2>2. d.rules[h] \in Int /\ e.rules[h] = d.rules[h] + (IF h = k THEN 1 ELSE 0)
    BY <1>1, <1>9, <1>0, <1>10
  <2>3. CASE h = k
    <3>1. WithKey(e, h) = WithKey(d, h) \union {f} /\ f \notin WithKey(d, h)
      BY <1>2, <1>5, <1>11, <1>12, <1>13, <2>3 DEF WithKey
    <3>2. Cardinality(WithKey(e, h)) = Cardinality(WithKey(d, h)) + 1
      BY <2>1, <3>1, FS_AddElement
    <3> QED
      BY <2>1, <2>2, <2>3, <3>2 DEF Surplus
  <2>4. CASE h # k
    <3>1. WithKey(e, h) = WithKey(d, h)
      BY <1>2, <1>5, <1>11, <1>12, <1>13, <2>4 DEF WithKey
    <3> QED
      BY <2>1, <2>2, <2>4, <3>1 DEF Surplus
  <2> QED
    BY <2>3, <2>4
<1> QED
  BY <1>0, <1>5, <1>7, <1>10, <1>11, <1>12, <1>13, <1>18, <1>19, <1>20 DEF x

LEMMA InstallFits ==
    ASSUME NEW d, Well(d), NEW n \in Int, NEW e, e = [d EXCEPT !.installed = n]
    PROVE  /\ Well(e) /\ Grows(d, e) /\ Listed(e) = Listed(d) /\ e.filter = d.filter
           /\ e.listeners = d.listeners /\ e.lastId = d.lastId /\ e.created = d.created
           /\ e.silent = d.silent /\ e.installed = n
           /\ \A f : Ids(e, f) = Ids(d, f)
           /\ \A h : Surplus(e, h) = Surplus(d, h)
<1>1. d \in DataType
  BY DEF Well
<1>2. /\ e \in DataType /\ e.filter = d.filter /\ e.rules = d.rules
      /\ e.listeners = d.listeners /\ e.lastId = d.lastId /\ e.created = d.created
      /\ e.silent = d.silent /\ e.installed = n
  BY <1>1 DEF DataType
<1>3. Listed(e) = Listed(d) /\ \A f : Ids(e, f) = Ids(d, f)
  BY <1>2 DEF Listed, Ids
<1>4. \A f \in Listed(d) : FilterWell(d, f) => FilterWell(e, f)
  BY <1>2, <1>3 DEF FilterWell
<1>5. Well(e)
  BY <1>2, <1>3, <1>4 DEF Well
<1>6. \A h : Surplus(e, h) = Surplus(d, h)
  BY <1>2, <1>3 DEF Surplus, WithKey
<1>7. d.lastId >= d.lastId /\ d.created >= d.created
  BY <1>1, DataFields
<1>8. Grows(d, e)
  BY <1>2, <1>3, <1>7 DEF Grows
<1> QED
  BY <1>2, <1>3, <1>5, <1>6, <1>8

\* Get leads from d to e and returns f.
Gets(d, k, ok, e, f) == e = Get(d, k, ok).d /\ f = Get(d, k, ok).f

LEMMA GetFits ==
    ASSUME NEW d, Well(d), NEW k \in Key, NEW ok \in BOOLEAN, d.created + 1 <= MaxFilters,
           NEW e, NEW f, Gets(d, k, ok, e, f)
    PROVE  /\ Well(e) /\ Grows(d, e)
           /\ e.lastId = d.lastId /\ e.silent = d.silent
           /\ e.created <= d.created + 1
           /\ ok => f # 0
           /\ f # 0 => f \in Listed(e) /\ e.filter[f].key = k
           /\ \A g \in Listed(d) : e.filter[g] = d.filter[g] /\ Ids(e, g) = Ids(d, g)
           /\ \A g \in Listed(e) \ Listed(d) : g = f /\ Ids(e, g) = {}
           /\ \A h \in Key : Surplus(e, h) = Surplus(d, h)
           /\ Excess(e) >= Excess(d) /\ (ok => Excess(e) = Excess(d))
<1> DEFINE n == IF d.listeners = <<>> THEN d.installed + 1 ELSE d.installed
           c == [d EXCEPT !.installed = n]
           i == FindMatch(d, k)
           r == Get(d, k, ok)
<1>1. /\ d \in DataType /\ d.installed \in Int /\ d.created \in Nat /\ n \in Int
      /\ 0 \notin Listed(d)
  BY DataFields, ListedFilter DEF Well
<1>2. c = IF d.listeners = <<>> THEN [d EXCEPT !.installed = @ + 1] ELSE d
  BY <1>1 DEF DataType
<1>3. /\ Well(c) /\ Grows(d, c) /\ Listed(c) = Listed(d) /\ c.filter = d.filter
      /\ c.listeners = d.listeners /\ c.lastId = d.lastId /\ c.created = d.created
      /\ c.silent = d.silent /\ c.installed = n
      /\ \A g : Ids(c, g) = Ids(d, g)
      /\ \A h : Surplus(c, h) = Surplus(d, h)
  BY <1>1, InstallFits
<1>4. r = IF i # 0 THEN [d |-> c, f |-> c.listeners[i]]
          ELSE IF ~ok THEN [d |-> c, f |-> 0]
          ELSE [d |-> [c EXCEPT !.created = @ + 1,
                                !.filter = Append(@, NewFilter(k)),
                                !.listeners = Append(@, d.created + 1),
                                !.rules[k] = @ + 1],
                f |-> d.created + 1]
  BY <1>2 DEF Get
<1>8. e = r.d /\ f = r.f
  BY DEF Gets
<1> HIDE DEF r
<1>5. CASE i # 0
  <2>1. e = c /\ f = d.listeners[i]
    BY <1>3, <1>4, <1>5, <1>8
  <2>2. f \in Listed(d) /\ d.filter[f].key = k
    BY <1>5, <2>1, FindMatchFinds
  <2>3. Excess(c) = Excess(d)
    BY <1>3, <2>2 DEF Excess, Listed, ToSet
  <2>4. Excess(d) \in Int
    BY <1>1 DEF Excess
  <2> QED
    BY <1>1, <1>3, <2>1, <2>2, <2>3, <2>4
<1>6. CASE i = 0 /\ ~ok
  <2>1. e = c /\ f = 0
    BY <1>4, <1>6, <1>8
  <2>2. Excess(c) >= Excess(d)
    BY <1>1, <1>3 DEF Excess
  <2> QED
    BY <1>1, <1>3, <1>6, <2>1, <2>2
<1>7. CASE i = 0 /\ ok
  <2>1. /\ f = d.created + 1
        /\ e = [c EXCEPT !.created = @ + 1, !.filter = Append(@, NewFilter(k)),
                         !.listeners = Append(@, d.created + 1), !.rules[k] = @ + 1]
    BY <1>4, <1>7, <1>8
  <2>2. FindMatch(d, k) = 0 /\ d.listeners \in Seq(Filter) /\ f \in Filter /\ f \in 0..MaxFilters
    <3>1. FindMatch(d, k) = 0
      BY <1>7
    <3>2. d.listeners \in Seq(Filter)
      BY <1>1, DataFields
    <3> QED
      BY <1>1, <2>1, <3>1, <3>2, WatchAssumption DEF Filter
  <2>3. c = [d EXCEPT !.installed = n]
    OBVIOUS
  <2> HIDE DEF n, c, i
  <2>6. /\ c \in DataType /\ c.filter = d.filter /\ c.rules = d.rules
        /\ c.listeners = d.listeners /\ c.lastId = d.lastId /\ c.created = d.created
        /\ c.silent = d.silent /\ c.installed = n
    BY <1>1, <2>3 DEF DataType
  <2>7. /\ Append(d.filter, NewFilter(k)) \in Seq(FilterData)
        /\ Append(d.listeners, f) \in Seq(Filter)
        /\ [d.rules EXCEPT ![k] = @ + 1] \in [Key -> Int]
    <3>1. d.filter \in Seq(FilterData) /\ d.rules \in [Key -> Int]
      BY <1>1, DataFields
    <3> QED
      BY <2>2, <3>1, NewFilterType
  <2> DEFINE fs == Append(d.filter, NewFilter(k))
             l == Append(d.listeners, f)
             rs == [d.rules EXCEPT ![k] = @ + 1]
  <2>8. e = [c EXCEPT !.created = f, !.filter = fs, !.listeners = l, !.rules = rs]
    BY <2>1, <2>6 DEF DataType
  <2>9. fs \in Seq(FilterData) /\ l \in Seq(Filter) /\ rs \in [Key -> Int]
    BY <2>7
  <2> HIDE DEF fs, l, rs
  <2>10. /\ e \in DataType /\ e.created = f /\ e.installed = n /\ e.filter = fs
         /\ e.listeners = l /\ e.rules = rs /\ e.lastId = d.lastId /\ e.silent = d.silent
    BY <2>2, <2>6, <2>8, <2>9 DEF DataType
  <2>11. /\ Well(e) /\ Grows(d, e) /\ Listed(e) = Listed(d) \union {f}
         /\ f \notin Listed(d) /\ e.filter[f] = NewFilter(k) /\ Ids(e, f) = {}
         /\ \A g \in Listed(d) : e.filter[g] = d.filter[g] /\ Ids(e, g) = Ids(d, g)
         /\ e.installed = n /\ e.lastId = d.lastId /\ e.silent = d.silent
         /\ e.listeners # <<>> /\ e.created = d.created + 1
         /\ \A h \in Key : Surplus(e, h) = Surplus(d, h)
    <3>1. Lists(d, e, k, f)
      BY <2>1, <2>10 DEF Lists, fs, l, rs
    <3> QED
      BY <2>2, <2>10, <3>1, ListingFits
  <2>4. Excess(e) = Excess(d) /\ Excess(d) \in Int
    BY <1>1, <2>11 DEF Excess, n
  <2>5. e.filter[f].key = k /\ f # 0
    <3>1. e.filter[f].key = k
      BY <2>11, NewFilterType
    <3>2. f = d.created + 1
      BY <2>1
    <3> QED
      BY <1>1, <3>1, <3>2
  <2>12. \A g \in Listed(e) \ Listed(d) : g = f /\ Ids(e, g) = {}
    BY <2>11
  <2>13. e.created <= d.created + 1 /\ f \in Listed(e) /\ Excess(e) >= Excess(d)
    BY <1>1, <2>4, <2>11
  <2> QED
    BY <1>7, <2>4, <2>5, <2>11, <2>12, <2>13
<1> QED
  BY <1>5, <1>6, <1>7


\* From d to e filter f gets name watch id, which is with filter g.
Names(d, e, f, id) ==
    e = [d EXCEPT !.filter[f].nameWatch = id, !.silent = @ \union {id}]

LEMMA NamedFits ==
    ASSUME NEW d, Well(d), NEW f \in Listed(d), NEW g \in Listed(d), f # g,
           NEW id, id \in Ids(d, g), id = d.lastId, d.filter[g].key = NameKey,
           NEW e, Names(d, e, f, id)
    PROVE  /\ Well(e) /\ Listed(e) = Listed(d) /\ e.listeners = d.listeners
           /\ e.rules = d.rules /\ e.installed = d.installed /\ e.created = d.created
           /\ e.lastId = d.lastId /\ e.silent = d.silent \union {id}
           /\ \A h \in Listed(d) :
                 /\ Ids(e, h) = Ids(d, h) /\ e.filter[h].key = d.filter[h].key
                 /\ e.filter[h].owner = d.filter[h].owner
                 /\ e.filter[h].lock = d.filter[h].lock
                 /\ e.filter[h].callbacks = d.filter[h].callbacks
                 /\ e.filter[h].processed = d.filter[h].processed
<1> DEFINE x == [d.filter[f] EXCEPT !.nameWatch = id]
           fs == [d.filter EXCEPT ![f] = x]
           s == d.silent \union {id}
<1>1. /\ d \in DataType /\ d.filter \in Seq(FilterData) /\ f \in 1..Len(d.filter)
      /\ d.filter[f] \in FilterData /\ FilterWell(d, f) /\ d.lastId \in Nat
      /\ d.silent \subseteq 1..d.lastId /\ d.silent \subseteq Watch
  BY DataFields, ListedFilter DEF Well
<1>2. \A h \in Listed(d) : Ids(d, h) \subseteq 1..d.lastId
  BY DEF Well, FilterWell
<1>3. id \in Watch /\ id \in 1..d.lastId
  <2>1. id \in 1..d.lastId
    BY <1>2
  <2>2. d.lastId \in {0} \union Watch
    BY <1>1, DataFields
  <2> QED
    BY <1>1, <2>1, <2>2
<1>4. /\ x \in FilterData /\ x.callbacks = d.filter[f].callbacks
      /\ x.processed = d.filter[f].processed
      /\ x.key = d.filter[f].key /\ x.lock = d.filter[f].lock
      /\ x.owner = d.filter[f].owner /\ x.nameWatch = id
  BY <1>1, <1>3 DEF FilterData
<1>5. e = [d EXCEPT !.filter = fs, !.silent = s]
  BY <1>1 DEF Names, DataType, FilterData
<1> HIDE DEF x
<1>6. fs \in Seq(FilterData) /\ s \subseteq Watch /\ s \subseteq 1..d.lastId
  BY <1>1, <1>3, <1>4, ExceptSeq
<1> HIDE DEF fs, s
<1>7. /\ e \in DataType /\ e.filter = fs /\ e.silent = s
      /\ e.listeners = d.listeners /\ e.created = d.created /\ e.lastId = d.lastId
      /\ e.rules = d.rules /\ e.installed = d.installed
  BY <1>1, <1>5, <1>6 DEF DataType
<1>8. e.filter = [d.filter EXCEPT ![f] = x]
  BY <1>7 DEF fs
<1>9. e.filter[f] = x
  BY <1>1, <1>4, <1>8, ExceptSeq
<1>10. Ids(e, f) = Ids(d, f)
  BY <1>4, <1>9 DEF Ids
<1>11. id \notin Ids(d, f)
  BY DEF Well
<1>12. Ids(d, f) \intersect s = Ids(d, f) \intersect d.silent /\ id \in s
  BY <1>11 DEF s
<1>13. FilterWell(e, f)
  BY <1>1, <1>4, <1>7, <1>9, <1>10, <1>12 DEF FilterWell
<1>14. \A h \in Listed(d) \ {f} : Ids(e, f) \intersect Ids(d, h) = {}
  BY <1>10 DEF Well
<1>15. ASSUME NEW h \in Listed(d), Ids(d, h) \intersect s # {}
       PROVE  d.filter[h].key = NameKey
  <2>1. CASE id \in Ids(d, h)
    BY <2>1 DEF Well
  <2>2. CASE id \notin Ids(d, h)
    <3>1. Ids(d, h) \intersect d.silent # {}
      BY <1>15, <2>2 DEF s
    <3> QED
      BY <3>1 DEF Well, FilterWell
  <2> QED
    BY <2>1, <2>2
<1>16. d.silent \subseteq s /\ s = d.silent \union {id}
  BY DEF s
<1>17. /\ Well(e) /\ Listed(e) = Listed(d)
       /\ \A h \in Listed(d) \ {f} : e.filter[h] = d.filter[h] /\ Ids(e, h) = Ids(d, h)
  <2>1. e.lastId >= d.lastId /\ d.silent \subseteq e.silent /\ e.silent \subseteq 1..e.lastId
    BY <1>1, <1>6, <1>7, <1>16
  <2>2. \A h \in Listed(d) \ {f} : Ids(d, h) \intersect e.silent # {} => d.filter[h].key = NameKey
    BY <1>7, <1>15
  <2>3. e \in DataType /\ e.listeners = d.listeners /\ e.created = d.created
        /\ x.key = d.filter[f].key /\ x \in FilterData
    BY <1>4, <1>7
  <2> QED
    BY <1>8, <1>13, <1>14, <2>1, <2>2, <2>3, Edited
<1> QED
  BY <1>4, <1>7, <1>9, <1>10, <1>16, <1>17

LEMMA AddNameWatchFits ==
    ASSUME NEW d, Well(d), NEW f \in Listed(d), NEW ok \in BOOLEAN,
           d.lastId + 1 \in Watch, d.created + 1 <= MaxFilters,
           NEW e, e = AddNameWatch(d, f, ok)
    PROVE  /\ Well(e) /\ Grows(d, e)
           /\ e.lastId <= d.lastId + 1 /\ e.created <= d.created + 1
           /\ \A id \in 1..e.lastId : id > d.lastId => id \in e.silent
           /\ \A h \in Key : Surplus(e, h) = Surplus(d, h)
           /\ Excess(e) >= Excess(d) /\ (ok => Excess(e) = Excess(d))
           /\ \A g \in Listed(e) \ Listed(d) : e.lastId \in Ids(e, g)
<1> DEFINE r == Get(d, NameKey, ok)
           a == r.d
           g == r.f
           b == AddCallback(a, g)
<1>1. /\ d \in DataType /\ d.lastId \in Nat /\ d.created \in Nat /\ d.installed \in Int
      /\ NameKey \in Key /\ NameKey \notin Named
  BY DataFields, WatchAssumption DEF Well
<1>2. Excess(d) \in Int
  BY <1>1 DEF Excess
<1>3. CASE d.filter[f].key \notin Named \/ d.filter[f].nameWatch # 0
  <2>1. e = d
    BY <1>3 DEF AddNameWatch
  <2> QED
    BY <1>1, <1>2, <2>1, GrowsNone
<1>4. CASE ~(d.filter[f].key \notin Named \/ d.filter[f].nameWatch # 0)
  <2>1. e = IF g = 0 THEN a
            ELSE [b EXCEPT !.filter[f].nameWatch = b.lastId, !.silent = @ \union {b.lastId}]
    BY <1>4 DEF AddNameWatch
  <2>2. Gets(d, NameKey, ok, a, g) /\ b = AddCallback(a, g)
    BY DEF Gets
  <2> HIDE DEF r, a, g, b
  <2>3. /\ Well(a) /\ Grows(d, a)
        /\ a.lastId = d.lastId /\ a.silent = d.silent
        /\ a.created <= d.created + 1
        /\ ok => g # 0
        /\ g # 0 => g \in Listed(a) /\ a.filter[g].key = NameKey
        /\ \A h \in Listed(d) : a.filter[h] = d.filter[h] /\ Ids(a, h) = Ids(d, h)
        /\ \A h \in Listed(a) \ Listed(d) : h = g /\ Ids(a, h) = {}
        /\ \A h \in Key : Surplus(a, h) = Surplus(d, h)
        /\ Excess(a) >= Excess(d) /\ (ok => Excess(a) = Excess(d))
    BY <1>1, <2>2, GetFits
  <2>4. CASE g = 0
    <3>1. e = a
      BY <2>1, <2>4
    <3>2. a.lastId <= d.lastId + 1
      BY <1>1, <2>3
    <3>3. \A id \in 1..a.lastId : ~(id > d.lastId)
      BY <1>1, <2>3
    <3>4. 0 \notin Listed(a)
      BY <2>3, ListedFilter
    <3>5. Listed(a) \ Listed(d) = {}
      BY <2>3, <2>4, <3>4
    <3> QED
      BY <2>3, <3>1, <3>2, <3>3, <3>5
  <2>5. CASE g # 0
    <3>1. g \in Listed(a) /\ a.filter[g].key = NameKey /\ a.lastId + 1 \in Watch
      BY <2>3, <2>5
    <3>2. /\ Well(b) /\ Grows(a, b) /\ Listed(b) = Listed(a)
          /\ b.listeners = a.listeners /\ b.rules = a.rules /\ b.installed = a.installed
          /\ b.created = a.created /\ b.silent = a.silent /\ b.lastId = a.lastId + 1
          /\ Ids(b, g) = Ids(a, g) \union {b.lastId}
          /\ \A h \in Listed(a) \ {g} : b.filter[h] = a.filter[h] /\ Ids(b, h) = Ids(a, h)
      BY <2>2, <2>3, <3>1, AddCallbackFits
    <3>3. b.filter[g].key = NameKey
      BY <3>1, <3>2 DEF Grows
    <3>4. f \in Listed(b) /\ f # g /\ g \in Listed(b)
      <4>1. f \in Listed(a) /\ a.filter[f] = d.filter[f]
        BY <2>3 DEF Grows
      <4> QED
        BY <1>1, <1>4, <3>1, <3>2, <4>1
    <3>5. e = [b EXCEPT !.filter[f].nameWatch = b.lastId, !.silent = @ \union {b.lastId}]
      BY <2>1, <2>5
    <3> DEFINE id == b.lastId
    <3>6. id \in Ids(b, g) /\ id = b.lastId
      BY <3>2
    <3>7. Names(b, e, f, id)
      BY <3>5 DEF Names
    <3>8. id = d.lastId + 1
      BY <2>3, <3>2
    <3> HIDE DEF id
    <3>9. /\ Well(e) /\ Listed(e) = Listed(b) /\ e.listeners = b.listeners
          /\ e.rules = b.rules /\ e.installed = b.installed /\ e.created = b.created
          /\ e.lastId = b.lastId /\ e.silent = b.silent \union {id}
          /\ \A h \in Listed(b) :
                /\ Ids(e, h) = Ids(b, h) /\ e.filter[h].key = b.filter[h].key
                /\ e.filter[h].owner = b.filter[h].owner
                /\ e.filter[h].lock = b.filter[h].lock
                /\ e.filter[h].callbacks = b.filter[h].callbacks
                /\ e.filter[h].processed = b.filter[h].processed
      BY <3>2, <3>3, <3>4, <3>6, <3>7, NamedFits
    <3>10. Grows(d, b)
      <4>1. a.lastId \in Nat /\ b.lastId \in Nat /\ a.created \in Nat /\ b.created \in Nat
        BY <1>1, <2>3, <3>2, DataFields DEF Well
      <4> QED
        BY <1>1, <2>3, <3>2, <4>1, GrowsTransitive
    <3>11. Grows(d, e)
      <4>1. e.silent \intersect (1..d.lastId) \subseteq d.silent /\ d.silent \subseteq e.silent
        BY <1>1, <2>3, <3>2, <3>8, <3>9
      <4>2. e.lastId >= d.lastId /\ e.created >= d.created /\ Listed(d) \subseteq Listed(e)
            /\ (\A h, i : Before(d.listeners, h, i) => Before(e.listeners, h, i))
            /\ (\A h \in Listed(d), i \in Listed(e) \ Listed(d) : Before(e.listeners, h, i))
        BY <3>9, <3>10 DEF Grows
      <4>3. ASSUME NEW h \in Listed(d)
            PROVE  /\ e.filter[h].key = d.filter[h].key
                   /\ e.filter[h].owner = d.filter[h].owner
                   /\ e.filter[h].lock = d.filter[h].lock
                   /\ ToSet(d.filter[h].callbacks) \subseteq ToSet(e.filter[h].callbacks)
                   /\ ToSet(d.filter[h].processed) \subseteq ToSet(e.filter[h].processed)
                   /\ d.filter[h].lock =>
                        ToSet(e.filter[h].callbacks) \subseteq ToSet(d.filter[h].callbacks)
                   /\ Ids(e, h) \intersect (1..d.lastId) \subseteq Ids(d, h)
        BY <3>9, <3>10 DEF Grows
      <4>4. ASSUME NEW h \in Listed(e) \ Listed(d)
            PROVE  ~e.filter[h].lock /\ Ids(e, h) \intersect (1..d.lastId) = {}
        BY <3>9, <3>10 DEF Grows
      <4> QED
        BY <4>1, <4>2, <4>3, <4>4, Zenon DEF Grows
    <3>12. \A h \in Key : Surplus(e, h) = Surplus(d, h)
      <4>1. \A h \in Listed(a) : b.filter[h].key = a.filter[h].key
        BY <3>2 DEF Grows
      <4>2. \A h : WithKey(e, h) = WithKey(a, h)
        BY <3>2, <3>9, <4>1 DEF WithKey
      <4> QED
        BY <2>3, <3>2, <3>9, <4>2 DEF Surplus
    <3>13. Excess(e) = Excess(a)
      BY <3>2, <3>9 DEF Excess
    <3>14. e.lastId <= d.lastId + 1 /\ e.created <= d.created + 1
      BY <1>1, <2>3, <3>2, <3>9
    <3>15. \A i \in 1..e.lastId : i > d.lastId => i \in e.silent
      BY <1>1, <2>3, <3>2, <3>8, <3>9
    <3>16. \A h \in Listed(e) \ Listed(d) : e.lastId \in Ids(e, h)
      BY <2>3, <3>2, <3>9
    <3> QED
      BY <2>3, <3>9, <3>11, <3>12, <3>13, <3>14, <3>15, <3>16
  <2> QED
    BY <2>4, <2>5
<1> QED
  BY <1>3, <1>4

\* A watch with a new filter or with one there is, and its name watch
LEMMA AddWatchFits ==
    ASSUME NEW d, Well(d), NEW k \in Key, NEW ok \in BOOLEAN, NEW okName \in BOOLEAN,
           d.lastId + 2 <= MaxWatches, d.created + 2 <= MaxFilters,
           NEW a, NEW f, Gets(d, k, ok, a, f), f # 0,
           NEW b, b = AddCallback(a, f), NEW e, e = AddNameWatch(b, f, okName)
    PROVE  /\ Well(e) /\ Grows(d, e)
           /\ b.lastId = d.lastId + 1 /\ b.lastId \in 1..e.lastId /\ b.lastId \notin e.silent
           /\ \E g \in Listed(e) : b.lastId \in Ids(e, g)
           /\ \A id \in 1..e.lastId : id > d.lastId => id = b.lastId \/ id \in e.silent
           /\ \A h \in Key : Surplus(e, h) = Surplus(d, h)
           /\ Excess(e) >= Excess(d) /\ (ok /\ okName => Excess(e) = Excess(d))
           /\ \A g \in Listed(e) \ Listed(d) : Ids(e, g) # {}
<1>1. d.lastId \in Nat /\ d.created \in Nat /\ d.installed \in Int
  BY DataFields DEF Well
<1>2. Excess(d) \in Int
  BY <1>1 DEF Excess
<1>3. /\ Well(a) /\ Grows(d, a)
      /\ a.lastId = d.lastId /\ a.silent = d.silent
      /\ a.created <= d.created + 1
      /\ f \in Listed(a) /\ a.filter[f].key = k
      /\ \A g \in Listed(d) : a.filter[g] = d.filter[g] /\ Ids(a, g) = Ids(d, g)
      /\ \A g \in Listed(a) \ Listed(d) : g = f /\ Ids(a, g) = {}
      /\ \A h \in Key : Surplus(a, h) = Surplus(d, h)
      /\ Excess(a) >= Excess(d) /\ (ok => Excess(a) = Excess(d))
  <2>1. d.created + 1 <= MaxFilters
    BY <1>1, WatchAssumption
  <2> QED
    BY <2>1, GetFits
<1>4. a.lastId + 1 \in Watch /\ a.lastId + 2 \in Watch
  BY <1>1, <1>3, WatchAssumption DEF Watch
<1>5. /\ Well(b) /\ Grows(a, b) /\ Listed(b) = Listed(a)
      /\ b.listeners = a.listeners /\ b.rules = a.rules /\ b.installed = a.installed
      /\ b.created = a.created /\ b.silent = a.silent /\ b.lastId = a.lastId + 1
      /\ Ids(b, f) = Ids(a, f) \union {b.lastId}
      /\ \A g \in Listed(a) \ {f} : b.filter[g] = a.filter[g] /\ Ids(b, g) = Ids(a, g)
  BY <1>3, <1>4, AddCallbackFits
<1>6. a.created \in Nat /\ b.created \in Nat /\ a.lastId \in Nat /\ b.lastId \in Nat
      /\ a.installed \in Int /\ b.installed \in Int
  BY <1>3, <1>5, DataFields DEF Well
<1>7. /\ Well(e) /\ Grows(b, e)
      /\ e.lastId <= b.lastId + 1 /\ e.created <= b.created + 1
      /\ \A id \in 1..e.lastId : id > b.lastId => id \in e.silent
      /\ \A h \in Key : Surplus(e, h) = Surplus(b, h)
      /\ Excess(e) >= Excess(b) /\ (okName => Excess(e) = Excess(b))
      /\ \A g \in Listed(e) \ Listed(b) : e.lastId \in Ids(e, g)
  <2>1. b.lastId + 1 \in Watch /\ b.created + 1 <= MaxFilters
    BY <1>1, <1>3, <1>4, <1>5, <1>6, WatchAssumption
  <2>2. f \in Listed(b)
    BY <1>3, <1>5
  <2> QED
    BY <1>5, <2>1, <2>2, AddNameWatchFits
<1>8. e.lastId \in Nat /\ e.created \in Nat /\ e.installed \in Int
  BY <1>7, DataFields DEF Well
<1>9. Grows(d, e)
  <2>1. Grows(d, b)
    BY <1>1, <1>3, <1>5, <1>6, GrowsTransitive
  <2> QED
    BY <1>1, <1>6, <1>7, <1>8, <2>1, GrowsTransitive
<1>10. b.lastId = d.lastId + 1 /\ b.lastId \in 1..e.lastId /\ b.lastId \in 1..b.lastId
  <2>1. e.lastId >= b.lastId
    BY <1>7 DEF Grows
  <2> QED
    BY <1>1, <1>3, <1>5, <1>8, <2>1
<1>11. b.lastId \notin e.silent
  <2>1. b.lastId \notin b.silent
    <3>1. d.silent \subseteq 1..d.lastId
      BY DEF Well
    <3> QED
      BY <1>1, <1>3, <1>5, <3>1
  <2> QED
    BY <1>7, <1>10, <2>1 DEF Grows
<1>12. f \in Listed(e) /\ b.lastId \in Ids(e, f)
  BY <1>3, <1>5, <1>7 DEF Grows, Ids
<1>13. \A id \in 1..e.lastId : id > d.lastId => id = b.lastId \/ id \in e.silent
  BY <1>1, <1>7, <1>8, <1>10
<1>14. \A h \in Key : Surplus(e, h) = Surplus(d, h)
  <2>1. \A h : WithKey(b, h) = WithKey(a, h)
    BY <1>5 DEF WithKey, Grows
  <2>2. \A h : Surplus(b, h) = Surplus(a, h)
    BY <1>5, <2>1 DEF Surplus
  <2> QED
    BY <1>3, <1>7, <2>2
<1>15. Excess(b) = Excess(a)
  BY <1>5 DEF Excess
<1>16. Excess(e) >= Excess(d) /\ (ok /\ okName => Excess(e) = Excess(d))
  <2>1. Excess(a) \in Int /\ Excess(e) \in Int
    BY <1>6, <1>8 DEF Excess
  <2> QED
    BY <1>2, <1>3, <1>7, <1>15, <2>1
<1>17. ASSUME NEW g \in Listed(e) \ Listed(d) PROVE Ids(e, g) # {}
  <2>1. CASE g \in Listed(b)
    BY <1>3, <1>5, <1>12, <2>1
  <2>2. CASE g \notin Listed(b)
    BY <1>7, <2>2
  <2> QED
    BY <2>1, <2>2
<1> QED
  BY <1>7, <1>9, <1>10, <1>11, <1>12, <1>13, <1>14, <1>16, <1>17

-----------------------------------------------------------------------------
(* What the changes leave of the invariant. *)

\* A filter lacks watches if it has no ids.
LEMMA EmptyMeans ==
    ASSUME NEW d, Well(d), NEW r
    PROVE  EmptyIn(d, r) = {f \in Listed(d) : Ids(d, f) = {}
                                           /\ (f = r.filter => d.filter[f].lock)}
<1>1. ASSUME NEW f \in Listed(d)
      PROVE  Ids(d, f) = {} <=> d.filter[f].callbacks = <<>> /\ d.filter[f].processed = <<>>
  <2>1. d.filter[f].callbacks \in Seq(Watch) /\ d.filter[f].processed \in Seq(Watch)
    BY ListedFilter
  <2>2. ToSet(<<>>) = {}
    BY DEF ToSet
  <2> QED
    BY <2>1, <2>2, FirstOfEmpty DEF Ids
<1> QED
  BY <1>1 DEF EmptyIn, Emptied, Listed

LEMMA EmptyUnlessRemoved ==
    ASSUME NEW d, Well(d)
    PROVE  EmptyIn(d, NoRemoval) = {f \in Listed(d) : Ids(d, f) = {}}
<1>1. \A f \in Listed(d) : f # NoRemoval.filter
  BY ListedFilter DEF NoRemoval, Filter
<1> QED
  BY <1>1, EmptyMeans

\* d and e differ in owners and locks, and in the order of callbacks.
Alike(d, e) ==
    /\ e \in DataType /\ e.listeners = d.listeners /\ e.lastId = d.lastId
    /\ e.created = d.created /\ e.rules = d.rules /\ e.installed = d.installed
    /\ e.silent = d.silent /\ Len(e.filter) = Len(d.filter)
    /\ \A f \in Listed(d) : /\ e.filter[f].key = d.filter[f].key
                            /\ Ids(e, f) = Ids(d, f) /\ FilterWell(e, f)

LEMMA AlikeFits ==
    ASSUME NEW d, Well(d), NEW e, Alike(d, e)
    PROVE  /\ Well(e) /\ Listed(e) = Listed(d)
           /\ Counted(d) => Counted(e)
           /\ Exact(d) => Exact(e)
           /\ \A h : Held(d, h) => Held(e, h)
<1>1. Listed(e) = Listed(d)
  BY DEF Alike, Listed
<1>2. Well(e)
  <2>1. \A f \in Listed(e) : FilterWell(e, f)
    BY <1>1 DEF Alike
  <2>2. \A f, g \in Listed(e) : f # g => Ids(e, f) \intersect Ids(e, g) = {}
    BY <1>1 DEF Alike, Well
  <2>3. \A f, g \in Listed(e) : e.filter[f].key = NameKey /\ e.filter[g].key = NameKey => f = g
    BY <1>1 DEF Alike, Well
  <2> QED
    BY <2>1, <2>2, <2>3 DEF Alike, Well
<1>3. Excess(e) = Excess(d)
  BY DEF Alike, Excess
<1>4. \A k : Surplus(e, k) = Surplus(d, k)
  <2>1. \A k : WithKey(e, k) = WithKey(d, k)
    BY <1>1 DEF Alike, WithKey
  <2> QED
    BY <2>1 DEF Alike, Surplus
<1>5. ASSUME NEW h, Held(d, h) PROVE Held(e, h)
  BY <1>1, <1>5 DEF Alike, Held
<1> QED
  BY <1>1, <1>2, <1>3, <1>4, <1>5 DEF Counted, Exact

\* The walk's place among the filters
LEMMA PlaceShrinks ==
    ASSUME NEW d, Well(d), NEW e, Well(e), NEW X, Shrinks(d, e, X), NEW p, NEW q,
           q.at = p.at, p.at \in {0} \union Listed(e), NEW f \in Listed(e)
    PROVE  Passed(e, q, f) <=> Passed(d, p, f)
<1>1. CASE p.at = 0
  BY <1>1 DEF Passed
<1>2. CASE p.at # 0
  <2>1. p.at \in Listed(e) /\ Listed(e) \subseteq Listed(d)
    BY <1>2 DEF Shrinks
  <2>2. f = p.at \/ Before(e.listeners, f, p.at) \/ Before(e.listeners, p.at, f)
    BY <2>1, Ordered DEF Well, Listed
  <2>3. \A g, h : Before(d.listeners, g, h) => g # h /\ ~Before(d.listeners, h, g)
    BY Ordered DEF Well
  <2>4. \A g, h : Before(e.listeners, g, h) => Before(d.listeners, g, h)
    BY DEF Shrinks
  <2> QED
    BY <1>2, <2>2, <2>3, <2>4 DEF Passed
<1> QED
  BY <1>1, <1>2

LEMMA PlaceGrows ==
    ASSUME NEW d, Well(d), NEW e, Well(e), Grows(d, e), NEW p,
           p.at \in Listed(d), NEW f \in Listed(e)
    PROVE  /\ f \in Listed(d) => (Passed(e, p, f) <=> Passed(d, p, f))
           /\ f \notin Listed(d) => ~Passed(e, p, f)
<1>1. p.at # 0
  BY ListedFilter
<1>2. \A g, h : Before(d.listeners, g, h) => Before(e.listeners, g, h)
  BY DEF Grows
<1>3. \A g, h : Before(e.listeners, g, h) => g # h /\ ~Before(e.listeners, h, g)
  BY Ordered DEF Well
<1>4. CASE f \in Listed(d)
  <2>1. f = p.at \/ Before(d.listeners, f, p.at) \/ Before(d.listeners, p.at, f)
    BY <1>4, Ordered DEF Well, Listed
  <2> QED
    BY <1>1, <1>2, <1>3, <1>4, <2>1 DEF Passed
<1>5. CASE f \notin Listed(d)
  <2>1. Before(e.listeners, p.at, f)
    BY <1>5 DEF Grows
  <2> QED
    BY <1>1, <1>3, <1>5, <2>1 DEF Passed
<1> QED
  BY <1>4, <1>5

LEMMA ShrinksHeld ==
    ASSUME NEW d, Well(d), NEW e, Well(e), NEW Y, Shrinks(d, e, Y \union d.silent),
           NEW h, Held(d, h), \A f \in Listed(e) : Ids(e, f) \intersect Y = {}
    PROVE  Held(e, h \ Y)
<1>1. e.lastId = d.lastId /\ e.silent = d.silent /\ Listed(e) \subseteq Listed(d)
  BY DEF Shrinks
<1>2. ASSUME NEW id \in h \ Y PROVE \E f \in Listed(e) : id \in Ids(e, f)
  <2>1. PICK f \in Listed(d) : id \in Ids(d, f)
    BY DEF Held
  <2>2. id \notin Y \union d.silent
    BY DEF Held
  <2> QED
    BY <2>1, <2>2 DEF Shrinks
<1>3. ASSUME NEW f \in Listed(e) PROVE Ids(e, f) \subseteq (h \ Y) \union e.silent
  <2>1. Ids(e, f) \subseteq Ids(d, f)
    BY DEF Shrinks, Ids
  <2>2. Ids(d, f) \subseteq h \union d.silent
    BY <1>1 DEF Held
  <2> QED
    BY <1>1, <2>1, <2>2
<1> QED
  BY <1>1, <1>2, <1>3 DEF Held

\* The function of a watch goes on or returns, and the walk stays.
Stands(p, q) ==
    /\ q.at = p.at /\ q.message = p.message
    /\ q.doomed = p.doomed /\ q.passes = p.passes
    /\ \/ q.phase = p.phase /\ q.call = p.call
       \/ p.phase = "call" /\ q.phase = "handle"

LEMMA ShrinksWalk ==
    ASSUME NEW d, Well(d), NEW e, Well(e), NEW Y, Shrinks(d, e, Y \union d.silent),
           NEW h, NEW p, NEW r, Walk(d, h, p, r), p.phase \in {"idle", "call", "removeAll"},
           NEW q, Stands(p, q), NEW s,
           s # NoRemoval => /\ q.phase \in {"idle", "call"}
                            /\ s.returns => q.phase = "call" /\ q.call \notin h \ Y
    PROVE  Walk(e, h \ Y, q, s) /\ (p.at \in Listed(d) /\ Handling(p) => p.at \in Listed(e))
<1>1. /\ e.lastId = d.lastId /\ e.silent = d.silent /\ Listed(e) \subseteq Listed(d)
      /\ \A f \in Listed(e) : e.filter[f].lock = d.filter[f].lock
  BY DEF Shrinks
<1>2. Handling(q) <=> Handling(p)
  BY DEF Stands, Handling
<1>3. q.at = p.at /\ q.message = p.message /\ (q.phase = "call" => p.phase = "call" /\ q.call = p.call)
  BY DEF Stands
<1>4. Handling(p) => p.at \in Listed(d) /\ p.at \in Listed(e)
  BY DEF Walk, Shrinks
<1>5. q.phase # "filter"
  BY DEF Stands
<1>6. \A f \in Listed(e) : e.filter[f].lock <=> Handling(q) /\ f = q.at
  BY <1>1, <1>2, <1>3 DEF Walk
<1>7. ASSUME q.phase = "call"
      PROVE  /\ q.call \in 1..e.lastId /\ q.call \notin e.silent
             /\ q.call \in h \ Y => q.call \in Ids(e, q.at)
  <2>1. /\ p.call \in 1..d.lastId /\ p.call \notin d.silent
        /\ p.call \in h => p.call \in Ids(d, p.at)
    BY <1>3, <1>7 DEF Walk
  <2>2. p.at \in Listed(e)
    BY <1>3, <1>4, <1>7 DEF Handling
  <2>3. Ids(d, p.at) \ Ids(e, p.at) \subseteq Y \union d.silent
    BY <2>2 DEF Shrinks
  <2> QED
    BY <1>1, <1>3, <1>7, <2>1, <2>3
<1>8. q.phase \in {"handle", "call"} => q.message # NoMessage
  BY <1>2, <1>3 DEF Walk, Handling
<1>9. Walk(e, h \ Y, q, s)
  BY <1>2, <1>3, <1>4, <1>5, <1>6, <1>7, <1>8 DEF Walk
<1> QED
  BY <1>4, <1>9

LEMMA RuledStays ==
    ASSUME NEW d, NEW e, NEW p, NEW q, NEW r, NEW s, Ruled(d, p, r), Stands(p, q),
           s # NoRemoval => s.ok /\ s.filter \in Listed(e),
           EmptyIn(e, s) \subseteq EmptyIn(d, r) \union (IF Handling(p) THEN {p.at} ELSE {}),
           EmptyIn(d, r) \subseteq EmptyIn(e, s),
           \A f, g \in EmptyIn(e, s) : f = g,
           Handling(p) => p.at \in Listed(d) /\ p.at \in Listed(e),
           \A f \in Listed(e) : f \in Listed(d) =>
              e.filter[f].key = d.filter[f].key /\ (Passed(e, q, f) <=> Passed(d, p, f))
    PROVE  Ruled(e, q, s)
<1>1. /\ Handling(q) <=> Handling(p)
      /\ q.phase = "idle" => p.phase = "idle"
      /\ q.phase # "removeAll"
      /\ q.at = p.at /\ q.message = p.message /\ q.doomed = p.doomed /\ q.passes = p.passes
  BY DEF Stands, Handling, Ruled
<1>2. EmptyIn(e, s) \subseteq ToSet(q.doomed) \union (IF Handling(q) THEN {q.at} ELSE {})
  <2>1. EmptyIn(d, r) \subseteq ToSet(p.doomed) \union (IF Handling(p) THEN {p.at} ELSE {})
    BY DEF Ruled
  <2> QED
    BY <1>1, <2>1
<1>3. ToSet(q.doomed) \subseteq EmptyIn(e, s)
  BY <1>1 DEF Ruled
<1>4. ASSUME NEW f \in ToSet(q.doomed) PROVE Passed(e, q, f) /\ OfKind(e, q, f)
  <2>1. f \in EmptyIn(d, r) /\ f \in EmptyIn(e, s)
    BY <1>1, <1>3 DEF Ruled
  <2>2. f \in Listed(d) /\ f \in Listed(e)
    BY <2>1 DEF EmptyIn, Emptied, Listed
  <2>3. Passed(d, p, f) /\ OfKind(d, p, f)
    BY <1>1 DEF Ruled
  <2> QED
    BY <1>1, <2>2, <2>3 DEF OfKind
<1>5. Handling(q) => OfKind(e, q, q.at)
  BY <1>1 DEF Ruled, OfKind
<1> QED
  BY <1>1, <1>2, <1>3, <1>4, <1>5 DEF Ruled

LEMMA ShrinksHeard ==
    ASSUME NEW d, Well(d), NEW e, Well(e), NEW X, Shrinks(d, e, X),
           NEW p, NEW q, NEW u, NEW c, Heard(d, p, u, c), Stands(p, q),
           p.phase # "idle" => p.at \in Listed(e) /\ Handling(p),
           p.phase # q.phase => p.call \notin Ids(e, p.at)
    PROVE  Heard(e, q, u, c)
<1>1. /\ e.lastId = d.lastId /\ e.silent = d.silent /\ Listed(e) \subseteq Listed(d)
      /\ \A f \in Listed(e) :
            /\ e.filter[f].key = d.filter[f].key /\ e.filter[f].owner = d.filter[f].owner
            /\ ToSet(e.filter[f].callbacks) \subseteq ToSet(d.filter[f].callbacks)
            /\ ToSet(e.filter[f].processed) \subseteq ToSet(d.filter[f].processed)
            /\ Ids(e, f) \subseteq Ids(d, f)
  BY DEF Shrinks, Ids
<1>2. /\ Handling(q) <=> Handling(p)
      /\ q.phase # "idle" => p.phase # "idle"
      /\ q.at = p.at /\ q.message = p.message
      /\ q.phase = "call" => p.phase = "call" /\ q.call = p.call
  BY DEF Stands, Handling
<1>3. ASSUME q.phase # "idle", NEW f \in Listed(e) PROVE HeardAt(e, q, u, c, f)
  <2>1. HeardAt(d, p, u, c, f) /\ f \in Listed(d)
    BY <1>1, <1>2, <1>3 DEF Heard
  <2>2. Passed(e, q, f) <=> Passed(d, p, f)
    BY <1>2, <1>3, PlaceShrinks
  <2>3. MatchingIn(e, q.message, f) <=> MatchingIn(d, p.message, f)
    BY <1>1, <1>2 DEF MatchingIn
  <2>4. \A id \in Ids(e, f) \intersect u : MatchingIn(e, q.message, f)
    BY <1>1, <2>1, <2>3 DEF HeardAt
  <2>5. Passed(e, q, f) => \A id \in Ids(e, f) \intersect u : c[id] = 1
    BY <1>1, <2>1, <2>2 DEF HeardAt
  <2>6. ~Passed(e, q, f) /\ ~(Handling(q) /\ f = q.at) => \A id \in Ids(e, f) : c[id] = 0
    BY <1>1, <1>2, <2>1, <2>2 DEF HeardAt
  <2>7. ASSUME Handling(q), f = q.at
        PROVE  /\ \A id \in ToSet(e.filter[f].processed) \intersect u : c[id] = 1
               /\ \A id \in ToSet(e.filter[f].callbacks) :
                     c[id] = IF q.phase = "call" /\ id = q.call THEN 1 ELSE 0
    <3>1. /\ \A id \in ToSet(d.filter[f].processed) \intersect u : c[id] = 1
          /\ \A id \in ToSet(d.filter[f].callbacks) :
                c[id] = IF p.phase = "call" /\ id = p.call THEN 1 ELSE 0
      BY <1>2, <2>1, <2>7 DEF HeardAt
    <3>2. ASSUME NEW id \in ToSet(e.filter[f].callbacks)
          PROVE  c[id] = IF q.phase = "call" /\ id = q.call THEN 1 ELSE 0
      <4>1. id \in ToSet(d.filter[f].callbacks) /\ id \in Ids(e, f)
        BY <1>1 DEF Ids
      <4>2. p.phase # q.phase => id # p.call
        BY <1>2, <2>7, <4>1
      <4>3. (q.phase = "call" /\ id = q.call) <=> (p.phase = "call" /\ id = p.call)
        BY <1>2, <4>2
      <4> QED
        BY <3>1, <4>1, <4>3
    <3> QED
      BY <1>1, <3>1, <3>2
  <2> QED
    BY <2>4, <2>5, <2>6, <2>7 DEF HeardAt
<1> QED
  BY <1>1, <1>3 DEF Heard

LEMMA GrowsHeld ==
    ASSUME NEW d, Well(d), NEW e, Well(e), Grows(d, e), NEW h, Held(d, h),
           NEW i \in 1..e.lastId, i > d.lastId, i \notin e.silent,
           \E g \in Listed(e) : i \in Ids(e, g),
           \A id \in 1..e.lastId : id > d.lastId => id = i \/ id \in e.silent
    PROVE  Held(e, h \union {i})
<1>1. d.lastId \in Nat /\ e.lastId \in Nat /\ e.lastId >= d.lastId
  BY DataFields DEF Well, Grows
<1>2. h \subseteq 1..d.lastId /\ h \subseteq 1..e.lastId
  BY <1>1 DEF Held
<1>3. (h \union {i}) \intersect e.silent = {}
  BY <1>2 DEF Held, Grows
<1>4. ASSUME NEW id \in h PROVE \E f \in Listed(e) : id \in Ids(e, f)
  <2>1. PICK f \in Listed(d) : id \in Ids(d, f)
    BY DEF Held
  <2>2. Ids(d, f) \subseteq Ids(e, f) /\ f \in Listed(e)
    BY DEF Grows, Ids
  <2> QED
    BY <2>1, <2>2
<1>5. ASSUME NEW f \in Listed(e), NEW id \in Ids(e, f)
      PROVE  id \in (h \union {i}) \union e.silent
  <2>1. id \in 1..e.lastId
    BY DEF Well, FilterWell
  <2>2. CASE id > d.lastId
    BY <2>1, <2>2
  <2>3. CASE ~(id > d.lastId)
    <3>1. id \in 1..d.lastId
      BY <1>1, <2>1, <2>3
    <3>2. f \in Listed(d) /\ id \in Ids(d, f)
      BY <3>1 DEF Grows
    <3>3. id \in h \union d.silent
      BY <3>2 DEF Held
    <3> QED
      BY <3>3 DEF Grows
  <2> QED
    BY <2>2, <2>3
<1> QED
  BY <1>2, <1>3, <1>4, <1>5 DEF Held

LEMMA GrowsWalk ==
    ASSUME NEW d, Well(d), NEW e, Well(e), Grows(d, e), NEW h, NEW p, NEW r,
           Walk(d, h, p, r), p.phase \in {"idle", "call"}, NEW i, i \notin 1..d.lastId
    PROVE  Walk(e, h, p, r) /\ Walk(e, h \union {i}, p, r)
<1>1. d.lastId \in Nat /\ e.lastId \in Nat /\ e.lastId >= d.lastId
  BY DataFields DEF Well, Grows
<1>2. Handling(p) => p.at \in Listed(e)
  BY DEF Walk, Grows
<1>3. \A f \in Listed(e) : e.filter[f].lock <=> Handling(p) /\ f = p.at
  <2>1. ASSUME NEW f \in Listed(d) PROVE e.filter[f].lock <=> Handling(p) /\ f = p.at
    BY DEF Walk, Grows
  <2>2. ASSUME NEW f \in Listed(e) \ Listed(d)
        PROVE e.filter[f].lock <=> Handling(p) /\ f = p.at
    BY DEF Walk, Grows
  <2> QED
    BY <2>1, <2>2
<1>4. ASSUME p.phase = "call"
      PROVE  /\ p.call \in 1..e.lastId /\ p.call \notin e.silent /\ p.call # i
             /\ p.call \in h => p.call \in Ids(e, p.at)
  <2>1. /\ p.call \in 1..d.lastId /\ p.call \notin d.silent
        /\ p.call \in h => p.call \in Ids(d, p.at)
    BY <1>4 DEF Walk
  <2>2. p.at \in Listed(d)
    BY <1>4 DEF Walk, Handling
  <2>3. Ids(d, p.at) \subseteq Ids(e, p.at)
    BY <2>2 DEF Grows, Ids
  <2> QED
    BY <1>1, <2>1, <2>3 DEF Grows
<1> QED
  BY <1>2, <1>3, <1>4 DEF Walk

LEMMA GrowsHeard ==
    ASSUME NEW d, Well(d), NEW e, Well(e), Grows(d, e), NEW h, NEW p, NEW r,
           Walk(d, h, p, r), NEW u, NEW c, Heard(d, p, u, c), p.phase \in {"idle", "call"}
    PROVE  Heard(e, p, u, c)
<1>1. d.lastId \in Nat /\ e.lastId \in Nat /\ e.lastId >= d.lastId /\ e.lastId \in {0} \union Watch
  BY DataFields DEF Well, Grows
<1>2. \A id \in Watch : c[id] <= 1 /\ (id > d.lastId => c[id] = 0)
  BY DEF Heard
<1>3. \A id \in Watch : c[id] <= 1 /\ (id > e.lastId => c[id] = 0)
  BY <1>1, <1>2, WatchAssumption DEF Watch
<1>4. u \subseteq 1..d.lastId /\ u \subseteq 1..e.lastId /\ u \intersect e.silent = {}
  <2>1. u \subseteq 1..d.lastId /\ u \intersect d.silent = {}
    BY DEF Heard
  <2>2. e.silent \intersect (1..d.lastId) \subseteq d.silent
    BY DEF Grows
  <2>3. \A id \in 1..d.lastId : id \in 1..e.lastId
    BY <1>1
  <2> QED
    BY <2>1, <2>2, <2>3
<1>5. ASSUME p.phase # "idle", NEW f \in Listed(e) PROVE HeardAt(e, p, u, c, f)
  <2>1. p.phase = "call" /\ p.at \in Listed(d) /\ Handling(p)
    BY <1>5 DEF Walk, Handling
  <2>2. Ids(e, f) \subseteq 1..e.lastId
    BY DEF Well, FilterWell
  <2>3. \A id \in 1..e.lastId : id \in Watch /\ (id \notin 1..d.lastId => c[id] = 0)
    BY <1>1, <1>2, WatchAssumption DEF Watch
  <2>4. CASE f \notin Listed(d)
    <3>1. Ids(e, f) \intersect (1..d.lastId) = {}
      BY <2>4 DEF Grows
    <3>2. \A id \in Ids(e, f) : c[id] = 0 /\ id \notin u
      BY <1>4, <2>2, <2>3, <3>1
    <3>3. ~Passed(e, p, f) /\ f # p.at
      BY <2>1, <2>4, PlaceGrows
    <3> QED
      BY <3>2, <3>3 DEF HeardAt
  <2>5. CASE f \in Listed(d)
    <3>1. HeardAt(d, p, u, c, f)
      BY <1>5, <2>5 DEF Heard
    <3>2. Passed(e, p, f) <=> Passed(d, p, f)
      BY <2>1, <2>5, PlaceGrows
    <3>3. e.filter[f].key = d.filter[f].key /\ e.filter[f].owner = d.filter[f].owner
          /\ Ids(e, f) \intersect (1..d.lastId) \subseteq Ids(d, f)
      BY <2>5 DEF Grows
    <3>4. Ids(e, f) \intersect u \subseteq Ids(d, f) \intersect u
          /\ \A id \in Ids(e, f) : id \in Ids(d, f) \/ c[id] = 0
      BY <1>4, <2>2, <2>3, <3>3
    <3>5. \A id \in Ids(e, f) \intersect u : MatchingIn(e, p.message, f)
      BY <3>1, <3>3, <3>4 DEF HeardAt, MatchingIn
    <3>6. Passed(e, p, f) => \A id \in Ids(e, f) \intersect u : c[id] = 1
      BY <3>1, <3>2, <3>4 DEF HeardAt
    <3>7. ~Passed(e, p, f) /\ ~(Handling(p) /\ f = p.at) => \A id \in Ids(e, f) : c[id] = 0
      BY <3>1, <3>2, <3>4 DEF HeardAt
    <3>8. ASSUME f = p.at
          PROVE  /\ \A id \in ToSet(e.filter[f].processed) \intersect u : c[id] = 1
                 /\ \A id \in ToSet(e.filter[f].callbacks) :
                       c[id] = IF p.phase = "call" /\ id = p.call THEN 1 ELSE 0
      <4>1. d.filter[f].lock
        BY <2>1, <2>5, <3>8 DEF Walk
      <4>2. ToSet(e.filter[f].callbacks) \subseteq ToSet(d.filter[f].callbacks)
        BY <2>5, <4>1 DEF Grows
      <4>3. ASSUME NEW id \in ToSet(e.filter[f].processed) \intersect u
            PROVE  id \in ToSet(d.filter[f].processed)
        <5>1. id \in Ids(d, f)
          BY <3>4 DEF Ids
        <5>2. ToSet(d.filter[f].callbacks) \subseteq ToSet(e.filter[f].callbacks)
          BY <2>5 DEF Grows
        <5>3. ToSet(e.filter[f].callbacks) \intersect ToSet(e.filter[f].processed) = {}
          BY DEF Well, FilterWell
        <5> QED
          BY <5>1, <5>2, <5>3 DEF Ids
      <4>4. /\ \A id \in ToSet(d.filter[f].processed) \intersect u : c[id] = 1
            /\ \A id \in ToSet(d.filter[f].callbacks) :
                  c[id] = IF p.phase = "call" /\ id = p.call THEN 1 ELSE 0
        BY <2>1, <3>1, <3>8 DEF HeardAt
      <4> QED
        BY <4>2, <4>3, <4>4
    <3> QED
      BY <3>5, <3>6, <3>7, <3>8 DEF HeardAt
  <2> QED
    BY <2>4, <2>5
<1> QED
  BY <1>3, <1>4, <1>5 DEF Heard

\* Filters that lack watches are few: no change but one that is under way makes more.
LEMMA EmptyShrinks ==
    ASSUME NEW d, Well(d), NEW e, Well(e), NEW X, Shrinks(d, e, X),
           NEW h, NEW p, NEW r, NEW s, Walk(d, h, p, r),
           \A g \in Listed(e) : Ids(e, g) = {} /\ ~e.filter[g].lock /\ g # s.filter
                                   => Ids(d, g) = {} /\ g # r.filter
    PROVE  EmptyIn(e, s) \subseteq EmptyIn(d, r) \union (IF Handling(p) THEN {p.at} ELSE {})
<1> SUFFICES ASSUME NEW g \in EmptyIn(e, s)
             PROVE  g \in EmptyIn(d, r) \/ (Handling(p) /\ g = p.at)
  OBVIOUS
<1>1. g \in Listed(e) /\ Ids(e, g) = {} /\ (g = s.filter => e.filter[g].lock)
  BY EmptyMeans
<1>2. g \in Listed(d) /\ e.filter[g].lock = d.filter[g].lock
  BY <1>1 DEF Shrinks
<1>3. CASE e.filter[g].lock
  BY <1>2, <1>3 DEF Walk
<1>4. CASE ~e.filter[g].lock
  <2>1. Ids(d, g) = {} /\ g # r.filter
    BY <1>1, <1>4
  <2> QED
    BY <1>2, <2>1, EmptyMeans
<1> QED
  BY <1>3, <1>4

LEMMA EmptyGrows ==
    ASSUME NEW d, Well(d), NEW e, Well(e), Grows(d, e), NEW r,
           \A g \in Listed(e) \ Listed(d) : Ids(e, g) # {}
    PROVE  EmptyIn(e, r) \subseteq EmptyIn(d, r)
<1> SUFFICES ASSUME NEW g \in EmptyIn(e, r) PROVE g \in EmptyIn(d, r)
  OBVIOUS
<1>1. g \in Listed(e) /\ Ids(e, g) = {} /\ (g = r.filter => e.filter[g].lock)
  BY EmptyMeans
<1>2. g \in Listed(d)
  BY <1>1
<1>3. Ids(d, g) = {} /\ e.filter[g].lock = d.filter[g].lock
  BY <1>1, <1>2 DEF Grows, Ids
<1> QED
  BY <1>1, <1>2, <1>3, EmptyMeans

-----------------------------------------------------------------------------
(* The steps. *)

LEMMA Fields ==
    /\ Data.listeners = listeners /\ Data.filter = filter /\ Data.lastId = lastId
    /\ Data.created = created /\ Data.rules = rules /\ Data.installed = installed
    /\ Data.silent = silent /\ Listed(Data) = ToSet(listeners)
BY DEF Data, Listed

LEMMA FieldsNext ==
    /\ Data'.listeners = listeners' /\ Data'.filter = filter' /\ Data'.lastId = lastId'
    /\ Data'.created = created' /\ Data'.rules = rules' /\ Data'.installed = installed'
    /\ Data'.silent = silent' /\ Listed(Data') = ToSet(listeners')
BY DEF Data, Listed

LEMMA Becomes ==
    ASSUME NEW c \in DataType, Become(c)
    PROVE  Data' = c
<1>1. c = [listeners |-> c.listeners, filter |-> c.filter, lastId |-> c.lastId,
           created |-> c.created, rules |-> c.rules, installed |-> c.installed,
           silent |-> c.silent]
  BY DEF DataType
<1> QED
  BY <1>1, Zenon DEF Become, Data

LEMMA Unchanged ==
    ASSUME UNCHANGED data
    PROVE  Data' = Data
BY DEF data, Data

\* What callers observe
LEMMA Observing ==
    ASSUME Invariant, observed = Rule, ObservesOneEmptied, Well(Data'),
           dispatch.phase \in {"idle", "call"},
           EmptyIn(Data', removal') \subseteq
              EmptyIn(Data, removal) \union (IF Handling(dispatch) THEN {dispatch.at} ELSE {})
    PROVE  /\ EmptyIn(Data, removal) \subseteq EmptyIn(Data', removal')
           /\ \A f, g \in EmptyIn(Data', removal') : f = g
<1>1. Ruled(Data, dispatch, removal)
  BY DEF Invariant, RulesOK
<1>2. /\ EmptyIn(Data, removal) = Emptied(listeners, filter, removal)
      /\ EmptyIn(Data', removal') = Emptied(listeners', filter', removal')
  BY Fields, FieldsNext DEF EmptyIn
<1>3. CASE dispatch.phase = "idle"
  <2>1. ToSet(<<>>) = {}
    BY DEF ToSet
  <2>2. EmptyIn(Data, removal) = {} /\ ~Handling(dispatch)
    BY <1>1, <1>3, <2>1 DEF Ruled, Handling
  <2> QED
    BY <2>2
<1>4. CASE dispatch.phase = "call"
  <2>1. /\ EmptyIn(Data, removal) \subseteq EmptyIn(Data', removal')
        /\ Cardinality(EmptyIn(Data', removal')) <= 1
    BY <1>2, <1>4 DEF ObservesOneEmptied, Rule
  <2> DEFINE S == EmptyIn(Data', removal')
  <2>2. S \subseteq 1..created' /\ created' \in Nat
    <3>1. S \subseteq Listed(Data')
      BY EmptyMeans
    <3>2. Data'.created \in Nat /\ Data'.created = created'
      BY DataFields, FieldsNext DEF Well
    <3> QED
      BY <3>1, <3>2, ListedFilter
  <2> HIDE DEF S
  <2>3. IsFiniteSet(S)
    <3>1. IsFiniteSet(1..created')
      BY <2>2, FS_Interval
    <3> QED
      BY <2>2, <3>1, FS_Subset
  <2>4. ASSUME NEW f \in S, NEW g \in S PROVE f = g
    <3>1. Cardinality(S) \in Nat /\ Cardinality(S) <= 1
      BY <2>1, <2>3, FS_CardinalityType DEF S
    <3>2. Cardinality(S) = 1 \/ Cardinality(S) = 0
      BY <3>1
    <3>3. CASE Cardinality(S) = 0
      BY <2>3, <3>3, FS_EmptySet
    <3>4. CASE Cardinality(S) = 1
      <4>1. PICK x : S = {x}
        BY <2>3, <3>4, FS_Singleton
      <4> QED
        BY <4>1
    <3> QED
      BY <3>2, <3>3, <3>4
  <2> QED
    BY <2>1, <2>4 DEF S
<1> QED
  BY <1>3, <1>4

LEMMA AddWatchStep ==
    ASSUME Invariant, NEW k \in Key, NEW ok \in BOOLEAN, NEW okName \in BOOLEAN,
           AddWatch(k, ok, okName), UNCHANGED observed
    PROVE  Invariant'
<1> DEFINE a == Get(Data, k, ok).d
           f == Get(Data, k, ok).f
           b == AddCallback(a, f)
           c == AddNameWatch(b, f, okName)
<1>1. /\ Gets(Data, k, ok, a, f) /\ b = AddCallback(a, f) /\ c = AddNameWatch(b, f, okName)
  BY DEF Gets
<1>2. /\ dispatch.phase \in {"idle", "call"} /\ fault = "none"
      /\ lastId + 2 <= MaxWatches /\ created + 2 <= MaxFilters
      /\ observed = Rule => ok /\ okName
      /\ IF f = 0 THEN Become(a) /\ UNCHANGED held
                  ELSE Become(c) /\ held' = held \union {b.lastId}
      /\ UNCHANGED <<dispatch, removal, due, heard, fault>>
      /\ ObservesOneEmptied
  BY DEF AddWatch, CallerRuns, Rule
<1> HIDE DEF a, f, b, c
<1>3. /\ Well(Data) /\ Counted(Data) /\ Held(Data, held)
      /\ Walk(Data, held, dispatch, removal) /\ ControlOK
  BY DEF Invariant
<1>4. lastId \in Nat /\ created \in Nat
  BY <1>3, Fields, DataFields DEF Well
<1>5. CASE f = 0
  <2>1. Data.created + 1 <= MaxFilters
    BY <1>2, <1>4, Fields, WatchAssumption
  <2>2. /\ Well(a) /\ Grows(Data, a)
        /\ a.lastId = Data.lastId /\ a.silent = Data.silent
        /\ ok => f # 0
        /\ \A g \in Listed(Data) : a.filter[g] = Data.filter[g] /\ Ids(a, g) = Ids(Data, g)
        /\ \A g \in Listed(a) \ Listed(Data) : g = f
        /\ \A h \in Key : Surplus(a, h) = Surplus(Data, h)
        /\ Excess(a) >= Excess(Data)
    BY <1>1, <1>3, <2>1, GetFits
  <2>3. Data' = a
    BY <1>2, <1>5, <2>2, Becomes DEF Well
  <2>4. Listed(a) = Listed(Data)
    <3>1. 0 \notin Listed(a)
      BY <2>2, ListedFilter
    <3> QED
      BY <1>5, <2>2, <3>1 DEF Grows
  <2>5. Counted(a)
    <3>1. Excess(a) \in Int /\ Excess(Data) \in Int
      BY <1>3, <2>2, DataFields DEF Well, Excess
    <3> QED
      BY <1>3, <2>2, <3>1 DEF Counted
  <2>6. Held(a, held)
    BY <1>3, <2>2, <2>4 DEF Held
  <2>7. Walk(a, held, dispatch, removal)
    <3>1. 0 \notin 1..Data.lastId
      OBVIOUS
    <3> QED
      BY <1>2, <1>3, <2>2, <3>1, GrowsWalk
  <2>8. lastId' = lastId
    BY <2>2, <2>3, Fields, FieldsNext
  <2>9. observed # Rule
    BY <1>2, <1>5, <2>2
  <2>10. ControlOK'
    BY <1>2, <1>3, <2>8 DEF ControlOK
  <2> QED
    BY <1>2, <1>5, <2>2, <2>3, <2>5, <2>6, <2>7, <2>9, <2>10 DEF Invariant, RulesOK
<1>6. CASE f # 0
  <2> DEFINE i == b.lastId
  <2>1. /\ Well(c) /\ Grows(Data, c)
        /\ i = Data.lastId + 1 /\ i \in 1..c.lastId /\ i \notin c.silent
        /\ \E g \in Listed(c) : i \in Ids(c, g)
        /\ \A id \in 1..c.lastId : id > Data.lastId => id = i \/ id \in c.silent
        /\ \A h \in Key : Surplus(c, h) = Surplus(Data, h)
        /\ Excess(c) >= Excess(Data) /\ (ok /\ okName => Excess(c) = Excess(Data))
        /\ \A g \in Listed(c) \ Listed(Data) : Ids(c, g) # {}
    BY <1>1, <1>2, <1>3, <1>6, Fields, AddWatchFits
  <2>2. Data' = c /\ held' = held \union {i}
    BY <1>2, <1>6, <2>1, Becomes DEF Well
  <2> HIDE DEF i
  <2>3. Counted(c)
    <3>1. Excess(c) \in Int /\ Excess(Data) \in Int
      BY <1>3, <2>1, DataFields DEF Well, Excess
    <3> QED
      BY <1>3, <2>1, <3>1 DEF Counted
  <2>4. i > Data.lastId /\ i \notin 1..Data.lastId
    BY <1>4, <2>1, Fields
  <2>5. Held(c, held \union {i})
    BY <1>3, <2>1, <2>4, GrowsHeld
  <2>6. Walk(c, held \union {i}, dispatch, removal)
    BY <1>2, <1>3, <2>1, <2>4, GrowsWalk
  <2>7. ControlOK'
    <3>1. lastId' \in Nat /\ lastId' >= lastId
      BY <2>1, <2>2, Fields, FieldsNext, DataFields DEF Well, Grows
    <3>2. due \subseteq 1..lastId'
      BY <1>3, <1>4, <3>1 DEF ControlOK
    <3> QED
      BY <1>2, <1>3, <3>2 DEF ControlOK
  <2>8. ASSUME observed = Rule
        PROVE  /\ Exact(c) /\ Ruled(c, dispatch, removal)
               /\ Heard(c, dispatch, due, heard)
    <3>1. /\ Exact(Data) /\ Ruled(Data, dispatch, removal) /\ Heard(Data, dispatch, due, heard)
      BY <2>8 DEF Invariant, RulesOK
    <3>2. Exact(c)
      BY <1>2, <2>1, <2>8, <3>1 DEF Exact
    <3>3. Heard(c, dispatch, due, heard)
      BY <1>2, <1>3, <2>1, <3>1, GrowsHeard
    <3>4. EmptyIn(c, removal) \subseteq EmptyIn(Data, removal)
      BY <1>3, <2>1, EmptyGrows
    <3>5. /\ EmptyIn(Data, removal) \subseteq EmptyIn(c, removal)
          /\ \A g, h \in EmptyIn(c, removal) : g = h
      BY <1>2, <2>1, <2>2, <2>8, <3>4, Observing
    <3>6. removal # NoRemoval => removal.ok /\ removal.filter \in Listed(c)
      BY <2>1, <3>1 DEF Ruled, Grows
    <3>7. Handling(dispatch) => dispatch.at \in Listed(Data) /\ dispatch.at \in Listed(c)
      BY <1>3, <2>1 DEF Walk, Grows
    <3>8. ASSUME NEW g \in Listed(c), g \in Listed(Data)
          PROVE  c.filter[g].key = Data.filter[g].key
      BY <2>1, <3>8 DEF Grows
    <3>9. Stands(dispatch, dispatch)
      BY DEF Stands
    <3>10. CASE Handling(dispatch)
      <4>1. \A g \in Listed(c) : g \in Listed(Data) =>
               (Passed(c, dispatch, g) <=> Passed(Data, dispatch, g))
        BY <1>3, <2>1, <3>7, <3>10, PlaceGrows
      <4>2. Ruled(c, dispatch, removal)
        BY <3>1, <3>4, <3>5, <3>6, <3>7, <3>8, <3>9, <4>1, RuledStays
      <4> QED
        BY <3>2, <3>3, <4>2
    <3>11. CASE ~Handling(dispatch)
      <4>1. dispatch.phase = "idle" /\ dispatch.doomed = <<>>
        BY <1>2, <3>1, <3>11 DEF Ruled, Handling
      <4>2. ToSet(<<>>) = {} /\ Len(<<>>) <= 1
        BY DEF ToSet
      <4>3. Ruled(c, dispatch, removal)
        BY <3>1, <3>4, <3>5, <3>6, <3>11, <4>1, <4>2 DEF Ruled
      <4> QED
        BY <3>2, <3>3, <4>3
    <3> QED
      BY <3>10, <3>11
  <2> QED
    BY <1>2, <2>1, <2>2, <2>3, <2>5, <2>6, <2>7, <2>8 DEF Invariant, RulesOK
<1> QED
  BY <1>5, <1>6

LEMMA RemovingFits ==
    ASSUME NEW d, Well(d), NEW f \in Listed(d), NEW id, NEW ok \in BOOLEAN,
           \A g \in Listed(d) \ {f} : id \notin Ids(d, g),
           NEW w, w = WithoutCallback(d, f, id), NEW e, e = Removed(w, f, ok)
    PROVE  \A x \in {w, e} :
              /\ Well(x) /\ Shrinks(d, x, {id} \union d.silent)
              /\ Counted(d) => Counted(x)
              /\ Exact(d) => Exact(x)
              /\ \A g \in Listed(x) : Ids(x, g) \intersect {id} = {}
              /\ \A g \in Listed(x) :
                    Ids(x, g) = {} /\ ~x.filter[g].lock /\ ok /\ (x = w => g # f)
                       => Ids(d, g) = {}
              /\ x = w => f \in Listed(x)
<1>1. /\ Well(w) /\ Shrinks(d, w, {id}) /\ Listed(w) = Listed(d)
      /\ w.listeners = d.listeners /\ w.rules = d.rules /\ w.installed = d.installed
      /\ id \notin Ids(w, f) /\ Ids(w, f) = Ids(d, f) \ {id}
      /\ \A g \in Listed(d) \ {f} :
            w.filter[g] = d.filter[g] /\ Ids(w, g) = Ids(d, g)
  BY WithoutCallbackFits
<1>2. Excess(w) = Excess(d) /\ \A k : Surplus(w, k) = Surplus(d, k)
  <2>1. \A k : WithKey(w, k) = WithKey(d, k)
    BY <1>1 DEF WithKey, Shrinks
  <2> QED
    BY <1>1, <2>1 DEF Excess, Surplus
<1>3. /\ Well(e) /\ Shrinks(w, e, w.silent)
      /\ Excess(e) = Excess(w) /\ \A k \in Key : Surplus(e, k) = Surplus(w, k)
      /\ ok => EmptiesNone(w, e)
      /\ ok /\ f \in Listed(e) => Stays(w, f) /\ e = w
  BY <1>1, RemovedFits
<1>4. \A g \in Listed(w) : Ids(w, g) \intersect {id} = {}
  BY <1>1
<1>5. Shrinks(d, w, {id} \union d.silent)
  BY <1>1 DEF Shrinks
<1>6. Shrinks(d, e, {id} \union d.silent)
  <2>1. w.silent = d.silent
    BY <1>1 DEF Shrinks
  <2> QED
    BY <1>1, <1>3, <2>1, ShrinksTransitive
<1>7. \A g \in Listed(e) : Ids(e, g) \intersect {id} = {}
  BY <1>3, <1>4 DEF Shrinks, Ids
<1>8. ASSUME NEW g \in Listed(e), Ids(e, g) = {}, ~e.filter[g].lock, ok, e # w
      PROVE  Ids(d, g) = {}
  <2>1. g # f /\ g \in Listed(w)
    BY <1>3, <1>8 DEF Shrinks
  <2>2. Ids(w, g) = {}
    BY <1>3, <1>8 DEF EmptiesNone
  <2> QED
    BY <1>1, <2>1, <2>2
<1>9. ASSUME NEW g \in Listed(w), Ids(w, g) = {}, g # f PROVE Ids(d, g) = {}
  BY <1>1, <1>9
<1>10. Counted(d) => Counted(w) /\ Counted(e)
  BY <1>2, <1>3 DEF Counted
<1>11. Exact(d) => Exact(w) /\ Exact(e)
  BY <1>2, <1>3 DEF Exact
<1>12. CASE e = w
  BY <1>1, <1>4, <1>5, <1>9, <1>10, <1>11, <1>12
<1>13. CASE e # w
  BY <1>1, <1>3, <1>4, <1>5, <1>6, <1>7, <1>8, <1>9, <1>10, <1>11, <1>13
<1> QED
  BY <1>12, <1>13

LEMMA FilterOfIs ==
    ASSUME Well(Data), NEW id
    PROVE  FilterOf(id) = {f \in Listed(Data) : id \in Ids(Data, f)}
<1>1. ASSUME NEW f \in Listed(Data)
      PROVE  ToSet(filter[f].callbacks \o filter[f].processed) = Ids(Data, f)
  <2>1. filter[f].callbacks \in Seq(Watch) /\ filter[f].processed \in Seq(Watch)
    BY Fields, ListedFilter
  <2> QED
    BY <2>1, Fields, Joined DEF Ids
<1> QED
  BY <1>1, Fields DEF FilterOf

LEMMA Removing ==
    ASSUME Invariant, NEW f \in Listed(Data), NEW id, NEW ok \in BOOLEAN,
           NEW returns \in BOOLEAN, \A g \in Listed(Data) \ {f} : id \notin Ids(Data, g),
           RemoveCallback(f, id, ok, returns)
    PROVE  /\ Well(Data') /\ Shrinks(Data, Data', {id} \union Data.silent)
           /\ Counted(Data') /\ (Exact(Data) => Exact(Data'))
           /\ \A g \in Listed(Data') : Ids(Data', g) \intersect {id} = {}
           /\ ok => \A g \in Listed(Data') :
                 Ids(Data', g) = {} /\ ~Data'.filter[g].lock /\ g # removal'.filter
                    => Ids(Data, g) = {} /\ g # removal.filter
           /\ \/ UNCHANGED removal
              \/ /\ removal = NoRemoval /\ f \in Listed(Data')
                 /\ removal' = [filter |-> f, ok |-> ok, returns |-> returns]
<1> DEFINE w == WithoutCallback(Data, f, id)
           e == Removed(w, f, ok)
<1>1. IF id \in WithDestroy /\ removal = NoRemoval
      THEN Become(w) /\ removal' = [filter |-> f, ok |-> ok, returns |-> returns]
      ELSE Become(e) /\ UNCHANGED removal
  BY DEF RemoveCallback
<1>2. w = WithoutCallback(Data, f, id) /\ e = Removed(w, f, ok)
  OBVIOUS
<1> HIDE DEF w, e
<1>3. Well(Data) /\ Counted(Data)
  BY DEF Invariant
<1>4. \A x \in {w, e} :
         /\ Well(x) /\ Shrinks(Data, x, {id} \union Data.silent)
         /\ Counted(x)
         /\ Exact(Data) => Exact(x)
         /\ \A g \in Listed(x) : Ids(x, g) \intersect {id} = {}
         /\ \A g \in Listed(x) :
               Ids(x, g) = {} /\ ~x.filter[g].lock /\ ok /\ (x = w => g # f)
                  => Ids(Data, g) = {}
         /\ x = w => f \in Listed(x)
  BY <1>2, <1>3, RemovingFits
<1>5. CASE id \in WithDestroy /\ removal = NoRemoval
  <2>1. Become(w) /\ removal' = [filter |-> f, ok |-> ok, returns |-> returns]
    BY <1>1, <1>5
  <2>2. Data' = w
    BY <1>4, <2>1, Becomes DEF Well
  <2>3. removal'.filter = f /\ \A g \in Listed(Data') : g # removal.filter
    <3>1. \A g \in Listed(Data') : g # 0
      BY <1>4, <2>2, ListedFilter
    <3> QED
      BY <1>5, <2>1, <3>1 DEF NoRemoval
  <2> QED
    BY <1>4, <1>5, <2>1, <2>2, <2>3
<1>6. CASE ~(id \in WithDestroy /\ removal = NoRemoval)
  <2>1. Become(e) /\ UNCHANGED removal
    BY <1>1, <1>6
  <2>2. Data' = e
    BY <1>4, <2>1, Becomes DEF Well
  <2>3. e = w \/ \A g \in Listed(e) : Ids(e, g) = {} /\ ~e.filter[g].lock /\ ok => Ids(Data, g) = {}
    BY <1>4
  <2>4. CASE e # w
    BY <1>4, <2>1, <2>2, <2>3, <2>4
  <2>5. CASE e = w
    <3>1. ASSUME ok, Ids(e, f) = {} PROVE e.filter[f].lock
      <4>1. f \in Listed(w) /\ Well(w)
        BY <1>4
      <4>3. ok /\ f \in Listed(e) => Stays(w, f)
        BY <1>2, <4>1, RemovedFits
      <4>4. Stays(w, f)
        BY <2>5, <3>1, <4>1, <4>3
      <4>5. w.filter[f].callbacks \in Seq(Watch) /\ ToSet(w.filter[f].callbacks) = {}
        BY <2>5, <3>1, <4>1, ListedFilter DEF Ids
      <4>6. w.filter[f].callbacks = <<>>
        BY <4>5, FirstOfEmpty
      <4> QED
        BY <2>5, <4>4, <4>6 DEF Stays
    <3>2. \A g \in Listed(e) : Ids(e, g) = {} /\ ~e.filter[g].lock /\ ok => Ids(Data, g) = {}
      BY <1>4, <2>5, <3>1
    <3> QED
      BY <1>4, <2>1, <2>2, <3>2
  <2> QED
    BY <2>4, <2>5
<1> QED
  BY <1>5, <1>6

\* A step of callers, or the loop of RemoveAllWatches, that removes the watches Y
LEMMA ShrinkStep ==
    ASSUME Invariant, NEW Y, Well(Data'), Shrinks(Data, Data', Y \union Data.silent),
           Counted(Data'), observed = Rule /\ Exact(Data) => Exact(Data'),
           \A f \in Listed(Data') : Ids(Data', f) \intersect Y = {}, held' = held \ Y,
           dispatch.phase \in {"idle", "call", "removeAll"}, Stands(dispatch, dispatch'),
           removal' # NoRemoval =>
              /\ dispatch'.phase \in {"idle", "call"}
              /\ removal'.returns => dispatch'.phase = "call" /\ dispatch'.call \notin held',
           dispatch.phase # dispatch'.phase => dispatch.call \notin Ids(Data', dispatch.at),
           ControlOK', UNCHANGED <<observed, due, heard>>,
           observed = Rule =>
              /\ fault' = "none"
              /\ removal' # NoRemoval => removal'.ok /\ removal'.filter \in Listed(Data')
              /\ EmptyIn(Data', removal') \subseteq
                    EmptyIn(Data, removal)
                       \union (IF Handling(dispatch) THEN {dispatch.at} ELSE {})
              /\ EmptyIn(Data, removal) \subseteq EmptyIn(Data', removal')
              /\ \A f, g \in EmptyIn(Data', removal') : f = g
    PROVE  Invariant'
<1>1. /\ Well(Data) /\ Held(Data, held) /\ Walk(Data, held, dispatch, removal)
  BY DEF Invariant
<1>2. Held(Data', held')
  BY <1>1, ShrinksHeld
<1>3. /\ Walk(Data', held', dispatch', removal')
      /\ dispatch.at \in Listed(Data) /\ Handling(dispatch) => dispatch.at \in Listed(Data')
  BY <1>1, ShrinksWalk
<1>4. ASSUME observed = Rule
      PROVE  Ruled(Data', dispatch', removal') /\ Heard(Data', dispatch', due, heard)
  <2>1. Ruled(Data, dispatch, removal) /\ Heard(Data, dispatch, due, heard)
    BY <1>4 DEF Invariant, RulesOK
  <2>2. dispatch.phase \in {"idle", "call"}
    BY <2>1 DEF Ruled
  <2>3. Handling(dispatch) => dispatch.at \in Listed(Data) /\ dispatch.at \in Listed(Data')
    BY <1>1, <1>3 DEF Walk
  <2>4. dispatch.phase # "idle" => dispatch.at \in Listed(Data') /\ Handling(dispatch)
    BY <2>2, <2>3 DEF Handling
  <2>5. Heard(Data', dispatch', due, heard)
    BY <1>1, <2>1, <2>4, ShrinksHeard
  <2>6. Listed(Data') \subseteq Listed(Data)
        /\ \A f \in Listed(Data') : Data'.filter[f].key = Data.filter[f].key
    BY DEF Shrinks
  <2>7. CASE Handling(dispatch)
    <3>1. \A f \in Listed(Data') : Passed(Data', dispatch', f) <=> Passed(Data, dispatch, f)
      BY <1>1, <2>3, <2>7, PlaceShrinks DEF Stands
    <3> QED
      BY <1>4, <2>1, <2>3, <2>5, <2>6, <3>1, RuledStays
  <2>8. CASE ~Handling(dispatch)
    <3>1. dispatch.phase = "idle" /\ dispatch.doomed = <<>>
      BY <2>1, <2>2, <2>8 DEF Ruled, Handling
    <3>2. dispatch'.phase = "idle" /\ dispatch'.doomed = <<>> /\ dispatch'.passes = dispatch.passes
      BY <3>1 DEF Stands
    <3>3. ToSet(<<>>) = {} /\ Len(<<>>) <= 1
      BY DEF ToSet
    <3>4. ~Handling(dispatch') /\ EmptyIn(Data, removal) = {} /\ EmptyIn(Data', removal') = {}
      BY <1>4, <2>1, <2>8, <3>1, <3>2, <3>3 DEF Ruled, Handling
    <3>5. removal' # NoRemoval => removal'.ok /\ removal'.filter \in Listed(Data')
      BY <1>4
    <3>6. Ruled(Data', dispatch', removal')
      BY <2>1, <3>2, <3>3, <3>4, <3>5 DEF Ruled
    <3> QED
      BY <2>5, <3>6
  <2> QED
    BY <2>7, <2>8
<1>5. RulesOK'
  BY <1>4 DEF Invariant, RulesOK
<1> QED
  BY <1>2, <1>3, <1>5 DEF Invariant

LEMMA RemoveWatchStep ==
    ASSUME Invariant, NEW id \in Watch, NEW ok \in BOOLEAN, RemoveWatch(id, ok),
           UNCHANGED observed
    PROVE  Invariant'
<1>1. /\ Well(Data) /\ Held(Data, held) /\ Walk(Data, held, dispatch, removal) /\ ControlOK
  BY DEF Invariant
<1>2. /\ dispatch.phase \in {"idle", "call"} /\ fault = "none" /\ id \in held
      /\ observed = Rule => ok
      /\ held' = held \ {id}
      /\ observed = Rule /\ removal # NoRemoval => removal.filter \in ToSet(listeners')
      /\ ObservesOneEmptied
      /\ UNCHANGED <<dispatch, due, heard, fault>>
  BY DEF RemoveWatch, CallerRuns, Rule
<1>3. PICK f \in FilterOf(id) : RemoveCallback(f, id, ok, FALSE)
  BY DEF RemoveWatch
<1>4. f \in Listed(Data) /\ id \in Ids(Data, f)
  BY <1>1, FilterOfIs
<1>5. \A g \in Listed(Data) \ {f} : id \notin Ids(Data, g)
  BY <1>1, <1>4 DEF Well
<1>6. /\ Well(Data') /\ Shrinks(Data, Data', {id} \union Data.silent)
      /\ Counted(Data') /\ (Exact(Data) => Exact(Data'))
      /\ \A g \in Listed(Data') : Ids(Data', g) \intersect {id} = {}
      /\ ok => \A g \in Listed(Data') :
            Ids(Data', g) = {} /\ ~Data'.filter[g].lock /\ g # removal'.filter
               => Ids(Data, g) = {} /\ g # removal.filter
      /\ \/ UNCHANGED removal
         \/ /\ removal = NoRemoval /\ f \in Listed(Data')
            /\ removal' = [filter |-> f, ok |-> ok, returns |-> FALSE]
  BY <1>3, <1>4, <1>5, Removing
<1>7. Stands(dispatch, dispatch')
  BY <1>2 DEF Stands
<1>8. removal' # NoRemoval =>
         /\ dispatch'.phase \in {"idle", "call"}
         /\ removal'.returns => dispatch'.phase = "call" /\ dispatch'.call \notin held'
  BY <1>1, <1>2, <1>6 DEF Walk
<1>9. ControlOK'
  <2>1. lastId' = lastId
    BY <1>6, Fields, FieldsNext DEF Shrinks
  <2>2. removal' \in Removal \union {NoRemoval}
    <3>1. f \in Filter
      BY <1>1, <1>4, ListedFilter
    <3>2. [filter |-> f, ok |-> ok, returns |-> FALSE] \in Removal
      BY <3>1 DEF Removal
    <3> QED
      BY <1>1, <1>6, <3>2 DEF ControlOK
  <2> QED
    BY <1>1, <1>2, <2>1, <2>2 DEF ControlOK
<1>10. ASSUME observed = Rule
       PROVE  /\ fault' = "none"
              /\ removal' # NoRemoval => removal'.ok /\ removal'.filter \in Listed(Data')
              /\ EmptyIn(Data', removal') \subseteq
                    EmptyIn(Data, removal)
                       \union (IF Handling(dispatch) THEN {dispatch.at} ELSE {})
              /\ EmptyIn(Data, removal) \subseteq EmptyIn(Data', removal')
              /\ \A g, h \in EmptyIn(Data', removal') : g = h
  <2>1. EmptyIn(Data', removal') \subseteq
           EmptyIn(Data, removal) \union (IF Handling(dispatch) THEN {dispatch.at} ELSE {})
    <3>1. \A g \in Listed(Data') :
             Ids(Data', g) = {} /\ ~Data'.filter[g].lock /\ g # removal'.filter
                => Ids(Data, g) = {} /\ g # removal.filter
      BY <1>2, <1>6, <1>10
    <3>2. Well(Data') /\ Shrinks(Data, Data', {id} \union Data.silent)
      BY <1>6
    <3> QED
      BY <1>1, <3>1, <3>2, EmptyShrinks
  <2>2. removal' # NoRemoval => removal'.ok /\ removal'.filter \in Listed(Data')
    <3>1. removal # NoRemoval => removal.ok
      BY <1>10 DEF Invariant, RulesOK, Ruled
    <3>2. CASE UNCHANGED removal
      BY <1>2, <1>10, <3>1, <3>2, FieldsNext
    <3>3. CASE ~UNCHANGED removal
      <4>1. f \in Listed(Data') /\ removal' = [filter |-> f, ok |-> ok, returns |-> FALSE]
        BY <1>6, <3>3
      <4> QED
        BY <1>2, <1>10, <4>1
    <3> QED
      BY <3>2, <3>3
  <2> QED
    BY <1>2, <1>6, <1>10, <2>1, <2>2, Observing
<1> QED
  BY <1>2, <1>6, <1>7, <1>8, <1>9, <1>10, ShrinkStep

LEMMA ReturnFalseStep ==
    ASSUME Invariant, ReturnFalse, UNCHANGED observed
    PROVE  Invariant'
<1> DEFINE f == dispatch.at
           id == dispatch.call
<1>1. /\ Well(Data) /\ Held(Data, held) /\ Walk(Data, held, dispatch, removal) /\ ControlOK
  BY DEF Invariant
<1>2. /\ dispatch.phase = "call" /\ removal = NoRemoval /\ fault = "none"
      /\ observed = Rule => id \in held
      /\ RemoveCallback(f, id, TRUE, TRUE)
      /\ held' = held \ {id}
      /\ dispatch' = IF removal' # NoRemoval THEN dispatch
                     ELSE [dispatch EXCEPT !.phase = "handle", !.call = 0]
      /\ fault' = IF id \in held THEN "none" ELSE "freedCallback"
      /\ ObservesOneEmptied
      /\ UNCHANGED <<due, heard>>
  BY DEF ReturnFalse, Rule
<1>3. f \in Listed(Data) /\ Handling(dispatch)
      /\ id \notin Data.silent /\ (id \in held => id \in Ids(Data, f))
  BY <1>1, <1>2 DEF Walk, Handling
<1> HIDE DEF f, id
<1>4. \A g \in Listed(Data) \ {f} : id \notin Ids(Data, g)
  <2>1. CASE id \in held
    BY <1>1, <1>3, <2>1 DEF Well
  <2>2. CASE id \notin held
    BY <1>1, <1>3, <2>2 DEF Held
  <2> QED
    BY <2>1, <2>2
<1>5. /\ Well(Data') /\ Shrinks(Data, Data', {id} \union Data.silent)
      /\ Counted(Data') /\ (Exact(Data) => Exact(Data'))
      /\ \A g \in Listed(Data') : Ids(Data', g) \intersect {id} = {}
      /\ \A g \in Listed(Data') :
            Ids(Data', g) = {} /\ ~Data'.filter[g].lock /\ g # removal'.filter
               => Ids(Data, g) = {} /\ g # removal.filter
      /\ \/ UNCHANGED removal
         \/ /\ removal = NoRemoval /\ f \in Listed(Data')
            /\ removal' = [filter |-> f, ok |-> TRUE, returns |-> TRUE]
  BY <1>2, <1>3, <1>4, Removing
<1>6. dispatch \in Dispatching
  BY <1>1 DEF ControlOK
<1>7. Stands(dispatch, dispatch')
  BY <1>2, <1>6 DEF Stands, Dispatching
<1>8. removal' # NoRemoval =>
         /\ dispatch'.phase \in {"idle", "call"}
         /\ removal'.returns => dispatch'.phase = "call" /\ dispatch'.call \notin held'
  BY <1>2 DEF id
<1>9. dispatch.phase # dispatch'.phase => dispatch.call \notin Ids(Data', dispatch.at)
  <2>1. f \in Listed(Data')
    BY <1>1, <1>3, <1>5 DEF Shrinks, Walk, f
  <2> QED
    BY <1>5, <2>1 DEF f, id
<1>10. ControlOK'
  <2>1. lastId' = lastId
    BY <1>5, Fields, FieldsNext DEF Shrinks
  <2>2. removal' \in Removal \union {NoRemoval}
    <3>1. f \in Filter
      BY <1>1, <1>3, ListedFilter
    <3>2. [filter |-> f, ok |-> TRUE, returns |-> TRUE] \in Removal
      BY <3>1 DEF Removal
    <3> QED
      BY <1>1, <1>5, <3>2 DEF ControlOK
  <2>3. dispatch' \in Dispatching
    BY <1>2, <1>6 DEF Dispatching
  <2>4. fault' \in Fault
    BY <1>2 DEF Fault
  <2> QED
    BY <1>1, <1>2, <2>1, <2>2, <2>3, <2>4 DEF ControlOK
<1>11. ASSUME observed = Rule
       PROVE  /\ fault' = "none"
              /\ removal' # NoRemoval => removal'.ok /\ removal'.filter \in Listed(Data')
              /\ EmptyIn(Data', removal') \subseteq
                    EmptyIn(Data, removal)
                       \union (IF Handling(dispatch) THEN {dispatch.at} ELSE {})
              /\ EmptyIn(Data, removal) \subseteq EmptyIn(Data', removal')
              /\ \A g, h \in EmptyIn(Data', removal') : g = h
  <2>1. EmptyIn(Data', removal') \subseteq
           EmptyIn(Data, removal) \union (IF Handling(dispatch) THEN {dispatch.at} ELSE {})
    <3>1. \A g \in Listed(Data') :
             Ids(Data', g) = {} /\ ~Data'.filter[g].lock /\ g # removal'.filter
                => Ids(Data, g) = {} /\ g # removal.filter
      BY <1>5
    <3>2. Well(Data') /\ Shrinks(Data, Data', {id} \union Data.silent)
      BY <1>5
    <3> QED
      BY <1>1, <3>1, <3>2, EmptyShrinks
  <2>2. removal' # NoRemoval => removal'.ok /\ removal'.filter \in Listed(Data')
    BY <1>2, <1>5
  <2> QED
    BY <1>2, <1>5, <1>11, <2>1, <2>2, Observing
<1> QED
  BY <1>2, <1>5, <1>7, <1>8, <1>9, <1>10, <1>11, ShrinkStep

LEMMA FinishRemovalStep ==
    ASSUME Invariant, FinishRemoval, UNCHANGED observed
    PROVE  Invariant'
<1> DEFINE f == removal.filter
           d == Data
           e == Data'
<1>1. /\ Well(Data) /\ Counted(Data) /\ Held(Data, held)
      /\ Walk(Data, held, dispatch, removal) /\ ControlOK
  BY DEF Invariant
<1>2. /\ removal # NoRemoval /\ removal' = NoRemoval /\ fault = "none"
      /\ dispatch' = IF removal.returns
                     THEN [dispatch EXCEPT !.phase = "handle", !.call = 0]
                     ELSE dispatch
      /\ UNCHANGED <<held, due, heard>>
      /\ IF f \in Listed(Data)
         THEN Become(Removed(Data, f, removal.ok)) /\ UNCHANGED fault
         ELSE fault' = "freedFilter" /\ UNCHANGED data
  BY Fields, Zenon DEF FinishRemoval
<1>3. /\ dispatch.phase \in {"idle", "call"}
      /\ removal.returns => dispatch.phase = "call" /\ dispatch.call \notin held
                            /\ dispatch.call \notin Data.silent
                            /\ dispatch.at \in Listed(Data)
  BY <1>1, <1>2 DEF Walk, Handling
<1>4. /\ dispatch \in Dispatching /\ removal.ok \in BOOLEAN
  BY <1>1, <1>2 DEF ControlOK, Removal
<1>5. f \in Listed(d) =>
         /\ e = Removed(d, f, removal.ok)
         /\ Well(e) /\ Shrinks(d, e, d.silent)
         /\ Excess(e) = Excess(d) /\ \A k \in Key : Surplus(e, k) = Surplus(d, k)
         /\ removal.ok => EmptiesNone(d, e)
         /\ removal.ok /\ f \in Listed(e) => Stays(d, f) /\ e = d
         /\ \A g \in Listed(d) : Ids(d, g) = {} => g = f \/ g \in Listed(e)
  <2> DEFINE c == Removed(Data, f, removal.ok)
  <2>1. f \in Listed(d) =>
         /\ Well(c) /\ Shrinks(d, c, d.silent)
         /\ Excess(c) = Excess(d) /\ \A k \in Key : Surplus(c, k) = Surplus(d, k)
         /\ removal.ok => EmptiesNone(d, c)
         /\ removal.ok /\ f \in Listed(c) => Stays(d, f) /\ c = d
         /\ \A g \in Listed(d) : Ids(d, g) = {} => g = f \/ g \in Listed(c)
    BY <1>1, <1>4, RemovedFits
  <2> HIDE DEF c
  <2>2. f \in Listed(d) => e = c
    BY <1>2, <2>1, Becomes DEF Well, c
  <2> QED
    BY <2>1, <2>2 DEF c
<1>6. f \notin Listed(d) => e = d
  BY <1>2, Unchanged
<1>7. /\ Well(e) /\ Shrinks(d, e, {} \union d.silent) /\ Counted(e) /\ (Exact(d) => Exact(e))
  <2>1. {} \union d.silent = d.silent
    OBVIOUS
  <2> QED
    BY <1>1, <1>5, <1>6, <2>1, ShrinksNone DEF Counted, Exact
<1>8. (\A g \in Listed(e) : Ids(e, g) \intersect {} = {}) /\ held' = held \ {}
  BY <1>2
<1>9. Stands(dispatch, dispatch')
  BY <1>2, <1>3, <1>4 DEF Stands, Dispatching
<1>10. dispatch.phase # dispatch'.phase => dispatch.call \notin Ids(e, dispatch.at)
  <2>1. CASE removal.returns
    <3>1. dispatch.at \in Listed(e)
      BY <1>1, <1>3, <1>7, <2>1 DEF Walk, Handling, Shrinks
    <3>2. Ids(e, dispatch.at) \subseteq Ids(d, dispatch.at)
      BY <1>7, <3>1 DEF Shrinks, Ids
    <3>3. Ids(d, dispatch.at) \subseteq held \union d.silent
      BY <1>1, <1>3, <2>1 DEF Held
    <3> QED
      BY <1>3, <2>1, <3>2, <3>3
  <2>2. CASE ~removal.returns
    BY <1>2, <2>2
  <2> QED
    BY <2>1, <2>2
<1>11. ControlOK'
  <2>1. lastId' = lastId
    BY <1>7, Fields, FieldsNext DEF Shrinks
  <2>2. dispatch' \in Dispatching
    BY <1>2, <1>4 DEF Dispatching
  <2>3. fault' \in Fault
    BY <1>2, <1>1 DEF Fault, ControlOK
  <2> QED
    BY <1>1, <1>2, <2>1, <2>2, <2>3 DEF ControlOK
<1>12. ASSUME observed = Rule
       PROVE  /\ fault' = "none"
              /\ EmptyIn(e, NoRemoval) \subseteq
                    EmptyIn(d, removal)
                       \union (IF Handling(dispatch) THEN {dispatch.at} ELSE {})
              /\ EmptyIn(d, removal) \subseteq EmptyIn(e, NoRemoval)
              /\ \A g, h \in EmptyIn(e, NoRemoval) : g = h
  <2>1. Ruled(d, dispatch, removal)
    BY <1>12 DEF Invariant, RulesOK
  <2>2. removal.ok /\ f \in Listed(d)
    BY <1>2, <2>1 DEF Ruled
  <2>3. EmptyIn(e, NoRemoval) = {g \in Listed(e) : Ids(e, g) = {}}
    BY <1>7, EmptyUnlessRemoved
  <2>4. EmptyIn(d, removal) = {g \in Listed(d) : Ids(d, g) = {} /\ (g = f => d.filter[g].lock)}
    BY <1>1, EmptyMeans
  <2> HIDE DEF d, e, f
  <2>5. ASSUME f \in Listed(e), Ids(e, f) = {} PROVE e.filter[f].lock /\ e = d
    <3>1. Stays(d, f) /\ e = d
      BY <1>5, <2>2, <2>5
    <3>2. e.filter[f].callbacks \in Seq(Watch) /\ ToSet(e.filter[f].callbacks) = {}
      BY <1>7, <2>5, ListedFilter DEF Ids
    <3>3. e.filter[f].callbacks = <<>>
      BY <3>2, FirstOfEmpty
    <3> QED
      BY <3>1, <3>3 DEF Stays
  <2>6. ASSUME NEW g \in EmptyIn(e, NoRemoval)
        PROVE  \/ g \in EmptyIn(d, removal)
               \/ Handling(dispatch) /\ g = dispatch.at /\ d.filter[g].key = NameKey
    <3>1. g \in Listed(e) /\ g \in Listed(d) /\ Ids(e, g) = {}
          /\ e.filter[g].lock = d.filter[g].lock /\ e.filter[g].key = d.filter[g].key
      BY <1>7, <2>3 DEF Shrinks
    <3>2. Ids(d, g) = {} \/ (e.filter[g].lock /\ e.filter[g].key = NameKey)
      BY <1>5, <2>2, <3>1 DEF EmptiesNone
    <3>3. CASE e.filter[g].lock /\ e.filter[g].key = NameKey
      BY <1>1, <3>1, <3>3 DEF Walk, d
    <3>4. CASE Ids(d, g) = {}
      BY <2>4, <2>5, <3>1, <3>4
    <3> QED
      BY <3>2, <3>3, <3>4
  <2>7. ASSUME NEW g \in EmptyIn(d, removal) PROVE g \in EmptyIn(e, NoRemoval)
    <3>1. g \in Listed(d) /\ Ids(d, g) = {} /\ (g = f => d.filter[g].lock)
      BY <2>4
    <3>2. g \in Listed(e)
      BY <1>5, <1>7, <2>2, <3>1 DEF Shrinks
    <3>3. Ids(e, g) = {}
      BY <1>7, <3>1, <3>2 DEF Shrinks, Ids
    <3> QED
      BY <2>3, <3>2, <3>3
  <2>8. ASSUME Handling(dispatch), d.filter[dispatch.at].key = NameKey,
               NEW g \in EmptyIn(d, removal)
        PROVE  g = dispatch.at
    <3>1. g \in ToSet(dispatch.doomed) \union {dispatch.at}
      BY <2>1, <2>8 DEF Ruled
    <3>2. CASE g \in ToSet(dispatch.doomed)
      <4>1. OfKind(d, dispatch, g) /\ OfKind(d, dispatch, dispatch.at)
        BY <2>1, <2>8, <3>2 DEF Ruled
      <4>2. d.filter[g].key = NameKey /\ g \in Listed(d)
        BY <2>4, <2>8, <4>1 DEF OfKind
      <4>3. dispatch.at \in Listed(d)
        BY <1>1, <2>8 DEF Walk, d
      <4> QED
        BY <1>1, <2>8, <4>2, <4>3 DEF Well, d
    <3> QED
      BY <3>1, <3>2
  <2>9. \A g, h \in EmptyIn(e, NoRemoval) : g = h
    <3>1. \A g, h \in EmptyIn(d, removal) : g = h
      BY <2>1 DEF Ruled
    <3> QED
      BY <2>6, <2>8, <3>1
  <2>10. fault' = "none"
    BY <1>2, <2>2 DEF d
  <2> QED
    BY <2>6, <2>7, <2>9, <2>10
<1>13. UNCHANGED <<observed, due, heard>>
  BY <1>2
<1> QED
  BY <1>2, <1>3, <1>7, <1>8, <1>9, <1>10, <1>11, <1>12, <1>13, ShrinkStep

LEMMA RemoveFirstFilterStep ==
    ASSUME Invariant, RemoveFirstFilter, UNCHANGED observed
    PROVE  Invariant'
<1> DEFINE f == Head(listeners)
           c == Free(Data, f, TRUE)
           Y == Ids(Data, f)
<1>1. /\ Well(Data) /\ Counted(Data) /\ Held(Data, held)
      /\ Walk(Data, held, dispatch, removal) /\ ControlOK
  BY DEF Invariant
<1>2. /\ dispatch.phase = "removeAll" /\ listeners # <<>>
      /\ UNCHANGED <<held, dispatch, removal, due, heard>>
      /\ IF filter[f].callbacks # <<>>
         THEN fault' = "freedCallback" /\ UNCHANGED data
         ELSE Become(c) /\ UNCHANGED fault
  BY DEF RemoveFirstFilter
<1>3. f \in Listed(Data)
  BY <1>1, <1>2, Fields, FirstOfList DEF Well, Listed
<1> HIDE DEF f
<1>4. observed # Rule
  BY <1>2 DEF Invariant, RulesOK, Ruled
<1>5. CASE filter[f].callbacks # <<>>
  <2>1. Data' = Data /\ lastId' = lastId
    BY <1>2, <1>5, Unchanged DEF data
  <2>2. ControlOK'
    BY <1>1, <1>2, <1>5, <2>1 DEF ControlOK, Fault
  <2> QED
    BY <1>1, <1>2, <1>4, <2>1, <2>2 DEF Invariant, RulesOK
<1>6. CASE filter[f].callbacks = <<>>
  <2>1. Become(c) /\ UNCHANGED fault
    BY <1>2, <1>6
  <2>2. ~Data.filter[f].lock
    BY <1>1, <1>2, <1>3 DEF Walk, Handling
  <2>3. held' = held \ Y
    <3>1. Y = {}
      <4>1. Data.filter[f].processed = <<>> /\ Data.filter[f].callbacks = <<>>
        <5>1. FilterWell(Data, f)
          BY <1>1, <1>3 DEF Well
        <5> QED
          BY <1>6, <2>2, <5>1, Fields DEF FilterWell
      <4> QED
        BY <4>1 DEF Ids, ToSet
    <3> QED
      BY <1>2, <3>1
  <2>4. /\ Well(c) /\ Shrinks(Data, c, Y \union Data.silent) /\ f \notin Listed(c)
        /\ Excess(c) = Excess(Data)
        /\ \A k \in Key : Surplus(c, k) = Surplus(Data, k)
                             + (IF k = Data.filter[f].key THEN 1 ELSE 0)
    BY <1>1, <1>3, <2>2, FreeFits
  <2> HIDE DEF c, Y
  <2>5. Data' = c
    BY <2>1, <2>4, Becomes DEF Well
  <2>6. Counted(c)
    <3>1. \A k \in Key : Surplus(Data, k) \in Int
      BY <1>1, WithKeyFinite, DataFields DEF Well, Surplus
    <3> QED
      BY <1>1, <2>4, <3>1 DEF Counted
  <2>7. ASSUME NEW g \in Listed(c) PROVE Ids(c, g) \intersect Y = {}
    <3>1. g \in Listed(Data) /\ g # f /\ Ids(c, g) \subseteq Ids(Data, g)
      BY <2>4 DEF Shrinks, Ids
    <3> QED
      BY <1>1, <1>3, <3>1 DEF Well, Y
  <2>8. removal = NoRemoval
    BY <1>1, <1>2 DEF Walk
  <2>9. Stands(dispatch, dispatch')
    BY <1>2 DEF Stands
  <2>10. ControlOK'
    <3>1. lastId' = lastId
      BY <2>4, <2>5, Fields, FieldsNext DEF Shrinks
    <3> QED
      BY <1>1, <1>2, <2>1, <3>1 DEF ControlOK
  <2> QED
    BY <1>2, <2>1, <2>3, <2>4, <2>5, <2>6, <2>7, <2>8, <1>4, <2>9, <2>10, ShrinkStep
<1> QED
  BY <1>5, <1>6

\* Nothing is being handled.
LEMMA UnhandledWalk ==
    ASSUME NEW d, NEW h, NEW p, ~Handling(p), \A f \in Listed(d) : ~d.filter[f].lock,
           p.phase = "filter" => p.at \in {0} \union Listed(d) /\ p.message # NoMessage
    PROVE  Walk(d, h, p, NoRemoval)
BY DEF Walk, Handling

LEMMA RemoveAllWatchesStep ==
    ASSUME Invariant, RemoveAllWatches, UNCHANGED observed
    PROVE  Invariant'
<1>1. /\ Well(Data) /\ Counted(Data) /\ Held(Data, held)
      /\ Walk(Data, held, dispatch, removal) /\ ControlOK
  BY DEF Invariant
<1>2. /\ dispatch.phase \in {"idle", "call"} /\ observed # Rule
      /\ UNCHANGED <<data, held, removal, due, heard>>
      /\ IF dispatch.phase = "call" \/ removal # NoRemoval
         THEN fault' = "freedFilter" /\ UNCHANGED dispatch
         ELSE dispatch' = [Idle EXCEPT !.phase = "removeAll"] /\ UNCHANGED fault
  BY DEF RemoveAllWatches, CallerRuns, Rule
<1>3. Data' = Data /\ lastId' = lastId
  BY <1>2, Unchanged DEF data
<1>4. dispatch' \in Dispatching
  <2>1. [Idle EXCEPT !.phase = "removeAll"] \in Dispatching
    <3> DEFINE q == [Idle EXCEPT !.phase = "removeAll"]
    <3>1. q = [phase |-> "removeAll", message |-> NoMessage, at |-> 0, call |-> 0,
               doomed |-> <<>>, passes |-> 0]
      BY DEF Idle
    <3> HIDE DEF q
    <3>2. q \in Dispatching
      BY <3>1 DEF Dispatching
    <3> QED
      BY <3>2 DEF q
  <2> QED
    BY <1>1, <1>2, <2>1 DEF ControlOK
<1>5. Walk(Data, held, dispatch', removal)
  <2>1. CASE dispatch.phase = "call" \/ removal # NoRemoval
    BY <1>1, <1>2, <2>1
  <2>2. CASE ~(dispatch.phase = "call" \/ removal # NoRemoval)
    <3>1. dispatch'.phase = "removeAll" /\ removal = NoRemoval /\ ~Handling(dispatch)
      BY <1>2, <2>2 DEF Idle, Handling
    <3>2. \A f \in Listed(Data) : ~Data.filter[f].lock
      BY <1>1, <3>1 DEF Walk
    <3>3. ~Handling(dispatch') /\ dispatch'.phase # "filter"
      BY <3>1 DEF Handling
    <3> QED
      BY <3>1, <3>2, <3>3, UnhandledWalk
  <2> QED
    BY <2>1, <2>2
<1>6. ControlOK'
  BY <1>1, <1>2, <1>3, <1>4 DEF ControlOK, Fault
<1> QED
  BY <1>1, <1>2, <1>3, <1>5, <1>6 DEF Invariant, RulesOK

LEMMA AllRemovedStep ==
    ASSUME Invariant, AllRemoved, UNCHANGED observed
    PROVE  Invariant'
<1>1. /\ Well(Data) /\ Counted(Data) /\ Held(Data, held)
      /\ Walk(Data, held, dispatch, removal) /\ ControlOK
  BY DEF Invariant
<1>2. /\ dispatch.phase = "removeAll" /\ dispatch' = Idle
      /\ UNCHANGED <<data, held, removal, due, heard, fault>>
  BY DEF AllRemoved
<1>3. Data' = Data /\ lastId' = lastId
  BY <1>2, Unchanged DEF data
<1>4. dispatch' \in Dispatching
  BY <1>2 DEF Dispatching, Idle
<1>5. Walk(Data, held, dispatch', removal)
  <2>1. removal = NoRemoval /\ ~Handling(dispatch)
    BY <1>1, <1>2 DEF Walk, Handling
  <2>2. \A f \in Listed(Data) : ~Data.filter[f].lock
    BY <1>1, <2>1 DEF Walk
  <2>3. ~Handling(dispatch') /\ dispatch'.phase # "filter"
    BY <1>2 DEF Handling, Idle
  <2> QED
    BY <2>1, <2>2, <2>3, UnhandledWalk
<1>6. ControlOK'
  BY <1>1, <1>2, <1>3, <1>4 DEF ControlOK
<1>7. observed # Rule
  BY <1>2 DEF Invariant, RulesOK, Ruled
<1> QED
  BY <1>1, <1>2, <1>3, <1>5, <1>6, <1>7 DEF Invariant, RulesOK

LEMMA MatchingIs ==
    ASSUME NEW m, NEW f
    PROVE  Matching(m, f) <=> MatchingIn(Data, m, f)
BY Fields DEF Matching, MatchingIn

LEMMA DeliverStep ==
    ASSUME Invariant, NEW m \in SignalFrom \union OwnerChanged, Deliver(m), UNCHANGED observed
    PROVE  Invariant'
<1>1. /\ Well(Data) /\ Counted(Data) /\ Held(Data, held)
      /\ Walk(Data, held, dispatch, removal) /\ ControlOK
  BY DEF Invariant
<1>2. /\ fault = "none" /\ dispatch.phase = "idle" /\ removal = NoRemoval
      /\ listeners # <<>>
      /\ dispatch' = [Idle EXCEPT !.phase = "filter", !.message = m,
                                  !.at = Head(listeners), !.passes = installed]
      /\ due' = {id \in held : \E f \in FilterOf(id) : Matching(m, f)}
      /\ heard' = [i \in Watch |-> 0]
      /\ UNCHANGED <<data, held, removal, fault>>
  BY DEF Deliver
<1>3. Data' = Data /\ lastId' = lastId
  BY <1>2, Unchanged DEF data
<1>4. /\ Head(listeners) \in Listed(Data) /\ Head(listeners) \in Filter
      /\ \A f : ~Before(Data.listeners, f, Head(listeners))
  BY <1>1, <1>2, Fields, FirstOfList, ListedFilter DEF Well, Listed
<1>5. installed \in Nat /\ installed >= 1 /\ (Exact(Data) => installed = 1)
  <2>1. Data.installed \in Int /\ Data.installed = installed /\ Data.listeners # <<>>
    BY <1>1, <1>2, Fields, DataFields DEF Well
  <2> QED
    BY <1>1, <2>1 DEF Counted, Exact, Excess
<1>6. /\ dispatch' \in Dispatching /\ dispatch'.phase = "filter" /\ dispatch'.message = m
      /\ dispatch'.at = Head(listeners) /\ dispatch'.passes = installed
      /\ dispatch'.doomed = <<>>
  <2>1. dispatch' = [phase |-> "filter", message |-> m, at |-> Head(listeners), call |-> 0,
                     doomed |-> <<>>, passes |-> installed]
    BY <1>2 DEF Idle
  <2>2. m \in SignalFrom \union OwnerChanged \union {NoMessage}
    OBVIOUS
  <2> QED
    BY <1>4, <1>5, <2>1, <2>2 DEF Dispatching
<1>7. m # NoMessage
  BY DEF SignalFrom, OwnerChanged, NoMessage
<1>8. due' \subseteq held /\ due' \subseteq 1..Data.lastId /\ due' \intersect Data.silent = {}
  BY <1>1, <1>2 DEF Held
<1>9. heard' \in [Watch -> Nat] /\ \A id \in Watch : heard'[id] = 0
  BY <1>2
<1>10. ControlOK'
  BY <1>1, <1>2, <1>3, <1>6, <1>8, <1>9, Fields DEF ControlOK
<1>11. Walk(Data, held, dispatch', NoRemoval)
  <2>1. ~Handling(dispatch) /\ ~Handling(dispatch')
    BY <1>2, <1>6 DEF Handling
  <2>2. \A f \in Listed(Data) : ~Data.filter[f].lock
    BY <1>1, <2>1 DEF Walk
  <2> QED
    BY <1>4, <1>6, <1>7, <2>1, <2>2, UnhandledWalk
<1>12. ASSUME observed = Rule
       PROVE  Ruled(Data, dispatch', NoRemoval) /\ Heard(Data, dispatch', due', heard')
  <2>1. Ruled(Data, dispatch, NoRemoval) /\ Exact(Data)
    BY <1>2, <1>12 DEF Invariant, RulesOK
  <2>2. ToSet(<<>>) = {} /\ Len(<<>>) <= 1
    BY DEF ToSet
  <2>3. EmptyIn(Data, NoRemoval) = {}
    BY <1>2, <2>1, <2>2 DEF Ruled, Handling
  <2>4. Ruled(Data, dispatch', NoRemoval)
    BY <1>5, <1>6, <2>1, <2>2, <2>3 DEF Ruled, Handling
  <2>5. ASSUME NEW f \in Listed(Data) PROVE HeardAt(Data, dispatch', due', heard', f)
    <3>1. ASSUME NEW id \in Ids(Data, f) \intersect due' PROVE MatchingIn(Data, m, f)
      <4>1. PICK g \in FilterOf(id) : Matching(m, g)
        BY <1>2
      <4>2. g \in Listed(Data) /\ id \in Ids(Data, g)
        BY <1>1, FilterOfIs
      <4>3. g = f
        BY <1>1, <3>1, <4>2 DEF Well
      <4> QED
        BY <4>1, <4>3, MatchingIs
    <3>2. ~Passed(Data, dispatch', f)
      <4>1. Head(listeners) # 0
        BY <1>4 DEF Filter
      <4> QED
        BY <1>4, <1>6, <4>1 DEF Passed
    <3>3. \A id \in Ids(Data, f) : heard'[id] = 0
      BY <1>1, <1>9, ListedFilter, Domain DEF Ids
    <3>4. ~Handling(dispatch')
      BY <1>6 DEF Handling
    <3> QED
      BY <1>6, <3>1, <3>2, <3>3, <3>4 DEF HeardAt
  <2>6. Heard(Data, dispatch', due', heard')
    BY <1>8, <1>9, <2>5 DEF Heard
  <2> QED
    BY <2>4, <2>6
<1> QED
  BY <1>1, <1>2, <1>3, <1>10, <1>11, <1>12 DEF Invariant, RulesOK

\* The walk behind filter f
LEMMA AfterFits ==
    ASSUME Well(Data'), dispatch \in Dispatching, NEW f \in Listed(Data'),
           NEW doomed \in Seq(Filter), dispatch' = After(f, doomed)
    PROVE  /\ dispatch' \in Dispatching /\ dispatch'.phase = "filter"
           /\ dispatch'.message = dispatch.message /\ dispatch'.passes = dispatch.passes
           /\ dispatch'.doomed = doomed /\ dispatch'.at \in {0} \union Listed(Data')
           /\ \A g \in Listed(Data') :
                 Passed(Data', dispatch', g) <=> g = f \/ Before(Data'.listeners, g, f)
<1> DEFINE i == SelectInSeq(listeners', LAMBDA g : g = f)
           at == IF i = Len(listeners') THEN 0 ELSE listeners'[i + 1]
<1>1. dispatch' = [dispatch EXCEPT !.phase = "filter", !.call = 0, !.doomed = doomed,
                                   !.at = at]
  BY DEF After
<1>2. /\ listeners' \in Seq(1..created') /\ IsInjective(listeners') /\ f \in ToSet(listeners')
      /\ Data'.listeners = listeners' /\ Listed(Data') = ToSet(listeners')
  BY FieldsNext DEF Well
<1>3. i = SelectInSeq(listeners', LAMBDA g : g = f)
  OBVIOUS
<1> HIDE DEF i
<1>4. /\ i = Len(listeners') => \A g \in ToSet(listeners') : g = f \/ Before(listeners', g, f)
      /\ i # Len(listeners') =>
            /\ listeners'[i + 1] \in ToSet(listeners')
            /\ \A g : Before(listeners', g, listeners'[i + 1]) <=> g = f \/ Before(listeners', g, f)
  BY <1>2, <1>3, NextOfList
<1>5. \A g \in Listed(Data') : g \in Filter /\ g # 0
  BY ListedFilter DEF Filter
<1>6. /\ at \in {0} \union Filter /\ at \in {0} \union Listed(Data')
      /\ \A g \in Listed(Data') : (at = 0 \/ Before(listeners', g, at))
                                     <=> g = f \/ Before(listeners', g, f)
  BY <1>2, <1>4, <1>5
<1> HIDE DEF at
<1>7. dispatch' = [phase |-> "filter", message |-> dispatch.message, at |-> at, call |-> 0,
                   doomed |-> doomed, passes |-> dispatch.passes]
  BY <1>1 DEF Dispatching
<1>8. dispatch.message \in SignalFrom \union OwnerChanged \union {NoMessage}
      /\ dispatch.passes \in Nat
  BY DEF Dispatching
<1>9. dispatch' \in Dispatching
  BY <1>6, <1>7, <1>8 DEF Dispatching
<1> QED
  BY <1>2, <1>6, <1>7, <1>9 DEF Passed

LEMMA SkipStep ==
    ASSUME Invariant, Skip, UNCHANGED observed
    PROVE  Invariant'
<1> DEFINE f == dispatch.at
<1>1. /\ Well(Data) /\ Counted(Data) /\ Held(Data, held)
      /\ Walk(Data, held, dispatch, removal) /\ ControlOK
  BY DEF Invariant
<1>2. /\ dispatch.phase = "filter" /\ f # 0 /\ ~Matching(dispatch.message, f)
      /\ UNCHANGED <<data, held, removal, due, heard, fault>>
      /\ dispatch' = After(f, dispatch.doomed)
  BY DEF Skip
<1>3. Data' = Data /\ lastId' = lastId
  BY <1>2, Unchanged DEF data
<1>4. f \in Listed(Data') /\ dispatch.doomed \in Seq(Filter) /\ dispatch \in Dispatching
  BY <1>1, <1>2, <1>3 DEF Walk, ControlOK, Dispatching
<1>5. /\ dispatch' \in Dispatching /\ dispatch'.phase = "filter"
      /\ dispatch'.message = dispatch.message /\ dispatch'.passes = dispatch.passes
      /\ dispatch'.doomed = dispatch.doomed /\ dispatch'.at \in {0} \union Listed(Data)
      /\ \A g \in Listed(Data) :
            Passed(Data, dispatch', g) <=> g = f \/ Before(Data.listeners, g, f)
  <2>1. Well(Data')
    BY <1>1, <1>3
  <2> HIDE DEF f
  <2> QED
    BY <1>2, <1>3, <1>4, <2>1, AfterFits
<1>6. ControlOK'
  BY <1>1, <1>2, <1>3, <1>5 DEF ControlOK
<1>7. ~Handling(dispatch) /\ ~Handling(dispatch') /\ removal = NoRemoval
      /\ dispatch.message # NoMessage
  BY <1>1, <1>2, <1>5 DEF Handling, Walk
<1>8. Walk(Data, held, dispatch', NoRemoval)
  <2>1. \A g \in Listed(Data) : ~Data.filter[g].lock
    BY <1>1, <1>7 DEF Walk
  <2> QED
    BY <1>5, <1>7, <2>1, UnhandledWalk
<1>9. ASSUME NEW g \in Listed(Data)
      PROVE  Passed(Data, dispatch', g) <=> g = f \/ Passed(Data, dispatch, g)
  BY <1>2, <1>5 DEF Passed
<1>10. ASSUME observed = Rule
       PROVE  Ruled(Data, dispatch', removal) /\ Heard(Data, dispatch', due, heard)
  <2>1. Ruled(Data, dispatch, removal) /\ Heard(Data, dispatch, due, heard)
    BY <1>10 DEF Invariant, RulesOK
  <2>2. \A g \in ToSet(dispatch.doomed) : g \in Listed(Data)
    BY <2>1 DEF Ruled, EmptyIn, Emptied, Listed
  <2>3. \A g \in ToSet(dispatch.doomed) : Passed(Data, dispatch', g) /\ OfKind(Data, dispatch', g)
    BY <1>5, <1>9, <2>1, <2>2 DEF Ruled, OfKind
  <2>4. Ruled(Data, dispatch', removal)
    BY <1>5, <1>7, <2>1, <2>3 DEF Ruled
  <2>5. ASSUME NEW g \in Listed(Data) PROVE HeardAt(Data, dispatch', due, heard, g)
    <3>1. HeardAt(Data, dispatch, due, heard, g)
      BY <1>2, <2>1 DEF Heard
    <3>2. g = f => Ids(Data, g) \intersect due = {}
      BY <1>2, <3>1, MatchingIs DEF HeardAt
    <3>3. Passed(Data, dispatch', g) => \A id \in Ids(Data, g) \intersect due : heard[id] = 1
      BY <1>9, <3>1, <3>2 DEF HeardAt
    <3>4. ~Passed(Data, dispatch', g) => \A id \in Ids(Data, g) : heard[id] = 0
      BY <1>7, <1>9, <3>1 DEF HeardAt
    <3> QED
      BY <1>5, <1>7, <3>1, <3>3, <3>4 DEF HeardAt
  <2>6. Heard(Data, dispatch', due, heard)
    BY <2>1, <2>5 DEF Heard
  <2> QED
    BY <2>4, <2>6
<1> QED
  BY <1>1, <1>2, <1>3, <1>6, <1>7, <1>8, <1>10 DEF Invariant, RulesOK

\* The walk is over.
LEMMA ReturnsFits ==
    ASSUME Well(Data'), dispatch \in Dispatching, dispatch.message # NoMessage, Returns
    PROVE  /\ dispatch' \in Dispatching /\ dispatch'.phase \in {"filter", "idle"}
           /\ dispatch'.phase = "filter" => dispatch'.at \in {0} \union Listed(Data')
                                            /\ dispatch'.message # NoMessage
           /\ dispatch.passes <= 1 => dispatch' = Idle
<1>1. dispatch.passes \in Nat
      /\ dispatch.message \in SignalFrom \union OwnerChanged \union {NoMessage}
  BY DEF Dispatching
<1>2. CASE dispatch.passes > 1 /\ listeners' # <<>>
  <2>1. dispatch' = [phase |-> "filter", message |-> dispatch.message, at |-> Head(listeners'),
                     call |-> 0, doomed |-> <<>>, passes |-> dispatch.passes - 1]
    BY <1>2 DEF Returns, Idle
  <2>2. Head(listeners') \in Listed(Data')
    BY <1>2, FieldsNext, FirstOfList DEF Well
  <2>3. Head(listeners') \in Filter
    BY <2>2, ListedFilter
  <2>4. dispatch.passes - 1 \in Nat /\ ~(dispatch.passes <= 1)
    BY <1>1, <1>2
  <2>5. dispatch' \in Dispatching
    BY <1>1, <2>1, <2>3, <2>4 DEF Dispatching
  <2> QED
    BY <2>1, <2>2, <2>4, <2>5
<1>3. CASE ~(dispatch.passes > 1 /\ listeners' # <<>>)
  <2>1. dispatch' = Idle
    BY <1>3 DEF Returns
  <2>2. Idle \in Dispatching /\ Idle.phase = "idle"
    BY DEF Idle, Dispatching
  <2> QED
    BY <2>1, <2>2
<1> QED
  BY <1>2, <1>3

\* Nothing is dispatched, and no filter is empty.
LEMMA IdleRules ==
    ASSUME NEW d, EmptyIn(d, NoRemoval) = {}
    PROVE  Ruled(d, Idle, NoRemoval)
<1>1. ToSet(<<>>) = {} /\ Len(<<>>) <= 1
  BY DEF ToSet
<1> QED
  BY <1>1 DEF Ruled, Idle, Handling

LEMMA DeleteNoneStep ==
    ASSUME Invariant, DeleteNone, UNCHANGED observed
    PROVE  Invariant'
<1>1. /\ Well(Data) /\ Counted(Data) /\ Held(Data, held)
      /\ Walk(Data, held, dispatch, removal) /\ ControlOK
  BY DEF Invariant
<1>2. /\ dispatch.phase = "filter" /\ dispatch.doomed = <<>> /\ Returns
      /\ UNCHANGED <<data, held, removal, due, heard, fault>>
  BY DEF DeleteNone, Walked
<1>3. Data' = Data /\ lastId' = lastId
  BY <1>2, Unchanged DEF data
<1>4. ~Handling(dispatch) /\ removal = NoRemoval /\ dispatch.message # NoMessage
      /\ dispatch \in Dispatching
  BY <1>1, <1>2 DEF Handling, Walk, ControlOK
<1>5. /\ dispatch' \in Dispatching /\ dispatch'.phase \in {"filter", "idle"}
      /\ dispatch'.phase = "filter" => dispatch'.at \in {0} \union Listed(Data)
                                       /\ dispatch'.message # NoMessage
      /\ dispatch.passes <= 1 => dispatch' = Idle
  BY <1>1, <1>2, <1>3, <1>4, ReturnsFits
<1>6. ControlOK'
  BY <1>1, <1>2, <1>3, <1>5 DEF ControlOK
<1>7. Walk(Data, held, dispatch', NoRemoval)
  <2>1. \A g \in Listed(Data) : ~Data.filter[g].lock
    BY <1>1, <1>4 DEF Walk
  <2>2. ~Handling(dispatch')
    BY <1>5 DEF Handling
  <2> QED
    BY <1>5, <2>1, <2>2, UnhandledWalk
<1>8. ASSUME observed = Rule
      PROVE  Ruled(Data, dispatch', NoRemoval) /\ Heard(Data, dispatch', due, heard)
  <2>1. Ruled(Data, dispatch, NoRemoval) /\ Heard(Data, dispatch, due, heard)
    BY <1>4, <1>8 DEF Invariant, RulesOK
  <2>2. ToSet(<<>>) = {}
    BY DEF ToSet
  <2>3. dispatch' = Idle /\ EmptyIn(Data, NoRemoval) = {}
    BY <1>2, <1>4, <1>5, <2>1, <2>2 DEF Ruled
  <2>4. Idle.phase = "idle"
    BY DEF Idle
  <2> QED
    BY <2>1, <2>3, <2>4, IdleRules DEF Heard
<1> QED
  BY <1>1, <1>2, <1>3, <1>4, <1>6, <1>7, <1>8 DEF Invariant, RulesOK

\* A filter that is left without callbacks is deleted.
LEMMA DeletedFits ==
    ASSUME NEW d, Well(d), NEW f \in Listed(d), ~Stays(d, f), NEW ok \in BOOLEAN,
           NEW e, e = Free(IF ok THEN WithoutRule(d, f) ELSE d, f, ok)
    PROVE  /\ Well(e) /\ Shrinks(d, e, {} \union d.silent) /\ f \notin Listed(e)
           /\ Counted(d) => Counted(e)
           /\ ok => (Exact(d) => Exact(e)) /\ EmptiesNone(d, e)
<1>1. {} \union d.silent = d.silent
  OBVIOUS
<1>2. CASE ok
  <2>1. e = Removed(d, f, ok)
    BY <1>2 DEF Removed
  <2>2. /\ Well(e) /\ Shrinks(d, e, d.silent)
        /\ Excess(e) = Excess(d) /\ \A k \in Key : Surplus(e, k) = Surplus(d, k)
        /\ ok => EmptiesNone(d, e)
        /\ ok /\ f \in Listed(e) => Stays(d, f) /\ e = d
    BY <2>1, RemovedFits
  <2>3. Counted(d) => Counted(e)
    BY <2>2 DEF Counted
  <2>4. Exact(d) => Exact(e)
    BY <2>2 DEF Exact
  <2> QED
    BY <1>1, <1>2, <2>2, <2>3, <2>4
<1>3. CASE ~ok
  <2>1. e = Free(d, f, ok)
    BY <1>3
  <2>2. Ids(d, f) = {} /\ ~d.filter[f].lock
    BY NoIds
  <2>3. /\ Well(e) /\ Shrinks(d, e, Ids(d, f) \union d.silent) /\ f \notin Listed(e)
        /\ Excess(e) = Excess(d)
        /\ \A k \in Key : Surplus(e, k) = Surplus(d, k)
                             + (IF k = d.filter[f].key THEN 1 ELSE 0)
    BY <2>1, <2>2, FreeFits
  <2>4. ASSUME Counted(d) PROVE Counted(e)
    <3>1. \A k \in Key : Surplus(d, k) \in Int
      BY DataFields, WithKeyFinite DEF Well, Surplus
    <3> QED
      BY <2>3, <2>4, <3>1 DEF Counted
  <2> QED
    BY <1>3, <2>2, <2>3, <2>4
<1> QED
  BY <1>2, <1>3

LEMMA DeleteOneStep ==
    ASSUME Invariant, NEW ok \in BOOLEAN, DeleteOne(ok), UNCHANGED observed
    PROVE  Invariant'
<1> DEFINE f == dispatch.doomed[1]
           x == Free(IF ok THEN WithoutRule(Data, f) ELSE Data, f, ok)
<1>1. /\ Well(Data) /\ Counted(Data) /\ Held(Data, held)
      /\ Walk(Data, held, dispatch, removal) /\ ControlOK
  BY DEF Invariant
<1>2. /\ dispatch.phase = "filter" /\ Len(dispatch.doomed) = 1
      /\ observed = Rule => ok
      /\ IF f \notin ToSet(listeners)
         THEN fault' = "freedListener" /\ UNCHANGED <<data, dispatch>>
         ELSE /\ Become(IF filter[f].callbacks # <<>> THEN Data ELSE x)
              /\ Returns
              /\ UNCHANGED fault
      /\ UNCHANGED <<held, removal, due, heard>>
  BY DEF DeleteOne, Walked, Rule
<1>3. /\ ~Handling(dispatch) /\ removal = NoRemoval /\ dispatch.message # NoMessage
      /\ dispatch \in Dispatching
      /\ \A g \in Listed(Data) : ~Data.filter[g].lock
  BY <1>1, <1>2 DEF Handling, Walk, ControlOK
<1>4. x = Free(IF ok THEN WithoutRule(Data, f) ELSE Data, f, ok)
  OBVIOUS
<1>5. ToSet(dispatch.doomed) = {f}
  <2>1. dispatch.doomed \in Seq(Filter)
    BY <1>3 DEF Dispatching
  <2> QED
    BY <1>2, <2>1 DEF ToSet
<1> HIDE DEF f, x
<1>6. ASSUME observed = Rule
      PROVE  /\ f \in Listed(Data) /\ Ids(Data, f) = {} /\ EmptyIn(Data, NoRemoval) \subseteq {f}
             /\ dispatch.passes <= 1 /\ Heard(Data, dispatch, due, heard) /\ Exact(Data)
  <2>1. Ruled(Data, dispatch, NoRemoval)
    BY <1>3, <1>6 DEF Invariant, RulesOK
  <2>2. f \in EmptyIn(Data, NoRemoval) /\ EmptyIn(Data, NoRemoval) \subseteq {f}
    BY <1>3, <1>5, <2>1 DEF Ruled
  <2> QED
    BY <1>1, <1>6, <2>1, <2>2, EmptyUnlessRemoved DEF Ruled, Invariant, RulesOK
<1>7. CASE f \notin Listed(Data)
  <2>1. fault' = "freedListener" /\ UNCHANGED <<data, dispatch>> /\ observed # Rule
    BY <1>2, <1>6, <1>7, Fields
  <2>2. Data' = Data /\ lastId' = lastId
    BY <2>1, Unchanged DEF data
  <2>3. ControlOK'
    BY <1>1, <1>2, <2>1, <2>2 DEF ControlOK, Fault
  <2> QED
    BY <1>1, <1>2, <2>1, <2>2, <2>3 DEF Invariant, RulesOK
<1>8. CASE f \in Listed(Data)
  <2>1. /\ Become(IF filter[f].callbacks # <<>> THEN Data ELSE x)
        /\ Returns /\ UNCHANGED <<fault, held, removal, due, heard>>
    BY <1>2, <1>8, Fields
  <2>2. /\ Well(Data') /\ Shrinks(Data, Data', {} \union Data.silent) /\ Counted(Data')
        /\ observed = Rule => Exact(Data') /\ f \notin Listed(Data') /\ EmptiesNone(Data, Data')
    <3>1. CASE filter[f].callbacks # <<>>
      <4>1. Become(Data) /\ Data \in DataType
        BY <1>1, <2>1, <3>1 DEF Well
      <4>2. Data' = Data
        BY <4>1, Becomes
      <4>3. ASSUME observed = Rule PROVE FALSE
        <5>1. Data.filter[f].callbacks \in Seq(Watch) /\ ToSet(Data.filter[f].callbacks) = {}
          BY <1>1, <1>6, <1>8, <4>3, ListedFilter DEF Ids
        <5> QED
          BY <3>1, <5>1, Fields, FirstOfEmpty
      <4> QED
        BY <1>1, <4>2, <4>3, ShrinksNone
    <3>2. CASE filter[f].callbacks = <<>>
      <4>1. ~Stays(Data, f)
        BY <1>3, <1>8, <3>2, Fields DEF Stays
      <4>2. /\ Well(x) /\ Shrinks(Data, x, {} \union Data.silent) /\ f \notin Listed(x)
            /\ Counted(Data) => Counted(x)
            /\ ok => (Exact(Data) => Exact(x)) /\ EmptiesNone(Data, x)
        BY <1>1, <1>4, <1>8, <4>1, DeletedFits
      <4>3. Become(x) /\ x \in DataType
        BY <2>1, <3>2, <4>2 DEF Well
      <4>4. Data' = x
        BY <4>3, Becomes
      <4> QED
        BY <1>1, <1>2, <1>6, <4>2, <4>4
    <3> QED
      BY <3>1, <3>2
  <2>3. /\ dispatch' \in Dispatching /\ dispatch'.phase \in {"filter", "idle"}
        /\ dispatch'.phase = "filter" => dispatch'.at \in {0} \union Listed(Data')
                                         /\ dispatch'.message # NoMessage
        /\ dispatch.passes <= 1 => dispatch' = Idle
    BY <1>3, <2>1, <2>2, ReturnsFits
  <2>4. lastId' = lastId /\ Data'.lastId = Data.lastId /\ Data'.silent = Data.silent
    BY <2>2, Fields, FieldsNext DEF Shrinks
  <2>5. ControlOK'
    BY <1>1, <1>2, <2>1, <2>3, <2>4 DEF ControlOK
  <2>6. \A g \in Listed(Data') : ~Data'.filter[g].lock
    BY <1>3, <2>2 DEF Shrinks
  <2>7. Walk(Data', held', dispatch', removal')
    <3>1. ~Handling(dispatch') /\ removal' = NoRemoval
      BY <1>3, <2>1, <2>3 DEF Handling
    <3> QED
      BY <2>3, <2>6, <3>1, UnhandledWalk
  <2>8. Held(Data', held')
    <3>1. held \ {} = held /\ held' = held
      BY <2>1
    <3>2. \A g \in Listed(Data') : Ids(Data', g) \intersect {} = {}
      OBVIOUS
    <3>3. Held(Data', held \ {})
      BY <1>1, <2>2, <3>2, ShrinksHeld
    <3> QED
      BY <3>1, <3>3
  <2>9. ASSUME observed = Rule
        PROVE  Ruled(Data', dispatch', removal') /\ Heard(Data', dispatch', due, heard)
    <3>1. dispatch' = Idle /\ removal' = NoRemoval
      BY <1>3, <1>6, <2>1, <2>3, <2>9
    <3>2. EmptyIn(Data', NoRemoval) = {}
      <4> SUFFICES ASSUME NEW g \in EmptyIn(Data', NoRemoval) PROVE FALSE
        OBVIOUS
      <4>1. g \in Listed(Data') /\ Ids(Data', g) = {}
        BY <2>2, EmptyUnlessRemoved
      <4>2. Ids(Data, g) = {} /\ g \in Listed(Data)
        BY <2>2, <2>6, <2>9, <4>1 DEF EmptiesNone, Shrinks
      <4>3. g = f
        BY <1>1, <1>6, <2>9, <4>2, EmptyUnlessRemoved
      <4> QED
        BY <2>2, <2>9, <4>1, <4>3
    <3>3. Idle.phase = "idle"
      BY DEF Idle
    <3>4. Heard(Data', Idle, due, heard)
      BY <1>6, <2>4, <2>9, <3>3 DEF Heard
    <3> QED
      BY <3>1, <3>2, <3>4, IdleRules
  <2>10. observed = Rule => fault' = "none" /\ Exact(Data')
    BY <2>1, <2>2 DEF Invariant, RulesOK
  <2> QED
    BY <2>1, <2>2, <2>5, <2>7, <2>8, <2>9, <2>10 DEF Invariant, RulesOK
<1> QED
  BY <1>7, <1>8

LEMMA DeleteMoreStep ==
    ASSUME Invariant, DeleteMore, UNCHANGED observed
    PROVE  Invariant'
<1>1. /\ Well(Data) /\ Counted(Data) /\ Held(Data, held)
      /\ Walk(Data, held, dispatch, removal) /\ ControlOK
  BY DEF Invariant
<1>2. /\ Len(dispatch.doomed) > 1 /\ fault' \in Fault
      /\ UNCHANGED <<data, held, dispatch, removal, due, heard>>
  BY DEF DeleteMore, Walked, Fault
<1>3. Data' = Data /\ lastId' = lastId
  BY <1>2, Unchanged DEF data
<1>4. ControlOK'
  BY <1>1, <1>2, <1>3 DEF ControlOK
<1>5. observed # Rule
  <2>1. dispatch.doomed \in Seq(Filter)
    BY <1>1 DEF ControlOK, Dispatching
  <2>2. ~(Len(dispatch.doomed) <= 1)
    BY <1>2, <2>1
  <2> QED
    BY <2>2 DEF Invariant, RulesOK, Ruled
<1> QED
  BY <1>1, <1>2, <1>3, <1>4, <1>5 DEF Invariant, RulesOK

-----------------------------------------------------------------------------
(* The handler of a filter changes the filters only, and keeps their watches. *)

LEMMA FiltersChange ==
    ASSUME Well(Data), filter' \in Seq(FilterData), Len(filter') = Len(filter),
           UNCHANGED <<listeners, lastId, created, rules, installed, silent>>,
           \A f \in Listed(Data) :
              /\ Data'.filter[f].key = Data.filter[f].key
              /\ Ids(Data', f) = Ids(Data, f) /\ FilterWell(Data', f)
    PROVE  Alike(Data, Data')
<1>1. /\ Data \in DataType
      /\ Data'.listeners = Data.listeners /\ Data'.lastId = Data.lastId
      /\ Data'.created = Data.created /\ Data'.rules = Data.rules
      /\ Data'.installed = Data.installed /\ Data'.silent = Data.silent
      /\ Data'.filter = filter' /\ Data.filter = filter
  BY Fields, FieldsNext DEF Well
<1>2. Data' \in DataType
  <2>1. Data' = [listeners |-> listeners, filter |-> filter', lastId |-> lastId,
                 created |-> created, rules |-> rules, installed |-> installed,
                 silent |-> silent]
    BY DEF Data
  <2> QED
    BY <1>1, <2>1, Fields DEF DataType
<1> QED
  BY <1>1, <1>2 DEF Alike

\* Filter f becomes x.
LEMMA FilterChanges ==
    ASSUME Well(Data), NEW f \in Listed(Data), NEW x \in FilterData,
           filter' = [filter EXCEPT ![f] = x],
           UNCHANGED <<listeners, lastId, created, rules, installed, silent>>,
           IsInjective(x.callbacks), IsInjective(x.processed),
           ToSet(x.callbacks) \intersect ToSet(x.processed) = {},
           ToSet(x.callbacks) \union ToSet(x.processed) = Ids(Data, f),
           ~x.lock => x.processed = <<>>, x.key = Data.filter[f].key,
           x.owner = Data.filter[f].owner, x.nameWatch = Data.filter[f].nameWatch
    PROVE  /\ Alike(Data, Data') /\ Data'.filter[f] = x
           /\ \A g \in Listed(Data) \ {f} : Data'.filter[g] = Data.filter[g]
<1>1. /\ filter \in Seq(FilterData) /\ Data.filter = filter /\ Data'.filter = filter'
      /\ \A g \in Listed(Data) : g \in 1..Len(filter)
  BY Fields, FieldsNext, ListedFilter, DataFields DEF Well
<1>2. /\ filter' \in Seq(FilterData) /\ Len(filter') = Len(filter) /\ filter'[f] = x
      /\ \A g \in 1..Len(filter) : g # f => filter'[g] = filter[g]
  BY <1>1, ExceptSeq
<1>3. \A g \in Listed(Data) \ {f} : Data'.filter[g] = Data.filter[g]
  BY <1>1, <1>2
<1>4. Data'.lastId = Data.lastId /\ Data'.silent = Data.silent
  BY Fields, FieldsNext
<1>5. ASSUME NEW g \in Listed(Data)
      PROVE  /\ Data'.filter[g].key = Data.filter[g].key
             /\ Ids(Data', g) = Ids(Data, g) /\ FilterWell(Data', g)
  <2>1. FilterWell(Data, g)
    BY DEF Well
  <2>2. CASE g # f
    <3>1. Data'.filter[g] = Data.filter[g]
      BY <1>3, <2>2
    <3>2. Ids(Data', g) = Ids(Data, g)
      BY <3>1 DEF Ids
    <3> QED
      BY <1>4, <2>1, <3>1, <3>2 DEF FilterWell
  <2>3. CASE g = f
    <3>1. Data'.filter[f] = x
      BY <1>1, <1>2
    <3>2. Ids(Data', f) = Ids(Data, f)
      BY <3>1 DEF Ids
    <3>3. FilterWell(Data, f)
      BY <2>1, <2>3
    <3>4. FilterWell(Data', f)
      BY <1>4, <3>1, <3>2, <3>3 DEF FilterWell
    <3> QED
      BY <2>3, <3>1, <3>2, <3>4
  <2> QED
    BY <2>2, <2>3
<1> QED
  BY <1>1, <1>2, <1>3, <1>5, FiltersChange

LEMMA HandlerStep ==
    ASSUME Invariant, Alike(Data, Data'), ControlOK',
           Walk(Data', held, dispatch', removal), UNCHANGED <<observed, held, removal>>,
           observed = Rule => /\ fault' = "none"
                              /\ Ruled(Data', dispatch', removal)
                              /\ Heard(Data', dispatch', due', heard')
    PROVE  Invariant'
<1>1. /\ Well(Data) /\ Counted(Data) /\ Held(Data, held)
  BY DEF Invariant
<1>2. Well(Data') /\ Counted(Data') /\ Held(Data', held) /\ (Exact(Data) => Exact(Data'))
  BY <1>1, AlikeFits
<1>3. observed = Rule => Exact(Data')
  BY <1>2 DEF Invariant, RulesOK
<1> QED
  BY <1>2, <1>3 DEF Invariant, RulesOK

\* The same filters are empty.
LEMMA EmptyAlike ==
    ASSUME NEW d, Well(d), NEW e, Alike(d, e)
    PROVE  EmptyIn(e, NoRemoval) = EmptyIn(d, NoRemoval)
<1>1. Well(e) /\ Listed(e) = Listed(d) /\ \A f \in Listed(d) : Ids(e, f) = Ids(d, f)
  BY AlikeFits DEF Alike
<1>2. EmptyIn(e, NoRemoval) = {f \in Listed(e) : Ids(e, f) = {}}
  BY <1>1, EmptyUnlessRemoved
<1>3. EmptyIn(d, NoRemoval) = {f \in Listed(d) : Ids(d, f) = {}}
  BY EmptyUnlessRemoved
<1> QED
  BY <1>1, <1>2, <1>3

LEMMA EnterStep ==
    ASSUME Invariant, Enter, UNCHANGED observed
    PROVE  Invariant'
<1> DEFINE m == dispatch.message
           f == dispatch.at
           Cached(g) == IF m.kind = "owner" /\ filter[g].key \in Named
                           /\ g \in ToSet(listeners)
                        THEN [filter[g] EXCEPT !.owner = m.owner]
                        ELSE filter[g]
<1>1. /\ Well(Data) /\ Counted(Data) /\ Held(Data, held)
      /\ Walk(Data, held, dispatch, removal) /\ ControlOK
  BY DEF Invariant
<1>2. /\ fault = "none" /\ dispatch.phase = "filter" /\ f # 0 /\ Matching(m, f)
      /\ filter' = [[g \in DOMAIN filter |-> Cached(g)] EXCEPT ![f].lock = TRUE]
      /\ dispatch' = [dispatch EXCEPT !.phase = "handle"]
      /\ UNCHANGED <<listeners, lastId, created, rules, installed, silent,
                     held, removal, due, heard, fault>>
  BY DEF Enter
<1>3. /\ f \in Listed(Data) /\ removal = NoRemoval /\ ~Handling(dispatch) /\ m # NoMessage
      /\ \A g \in Listed(Data) : ~Data.filter[g].lock
  BY <1>1, <1>2 DEF Walk, Handling
<1>4. /\ filter \in Seq(FilterData) /\ DOMAIN filter = 1..Len(filter) /\ Len(filter) \in Nat
      /\ Data.filter = filter /\ Data'.filter = filter'
      /\ \A g \in Listed(Data) : g \in DOMAIN filter
  BY <1>1, Fields, FieldsNext, ListedFilter, DataFields, Domain DEF Well
<1>5. m \in SignalFrom \union OwnerChanged /\ dispatch \in Dispatching
  BY <1>1, <1>3 DEF ControlOK, Dispatching
<1>6. m.kind \in {"signal", "owner"} /\ (m.kind = "owner" => m.owner \in Sender \union {Nobody})
  BY <1>5 DEF SignalFrom, OwnerChanged
<1>7. ASSUME NEW g \in DOMAIN filter
      PROVE  /\ Cached(g) \in FilterData
             /\ Cached(g).key = filter[g].key /\ Cached(g).callbacks = filter[g].callbacks
             /\ Cached(g).processed = filter[g].processed /\ Cached(g).lock = filter[g].lock
             /\ Cached(g).nameWatch = filter[g].nameWatch
             /\ \/ Cached(g).owner = filter[g].owner
                \/ m.kind = "owner" /\ filter[g].key \in Named
  <2>1. filter[g] \in FilterData
    BY <1>4
  <2>2. CASE m.kind = "owner" /\ filter[g].key \in Named /\ g \in ToSet(listeners)
    <3>1. Cached(g) = [filter[g] EXCEPT !.owner = m.owner]
      BY <2>2
    <3> QED
      BY <1>6, <2>1, <2>2, <3>1 DEF FilterData
  <2>3. CASE ~(m.kind = "owner" /\ filter[g].key \in Named /\ g \in ToSet(listeners))
    <3>1. Cached(g) = filter[g]
      BY <2>3
    <3> QED
      BY <2>1, <3>1
  <2> QED
    BY <2>2, <2>3
<1> HIDE DEF Cached
<1>8. ASSUME NEW g \in DOMAIN filter
      PROVE  filter'[g] = IF g = f THEN [Cached(g) EXCEPT !.lock = TRUE] ELSE Cached(g)
  BY <1>2, <1>3, <1>4
<1>9. ASSUME NEW g \in DOMAIN filter
      PROVE  /\ filter'[g] \in FilterData
             /\ filter'[g].key = filter[g].key /\ filter'[g].callbacks = filter[g].callbacks
             /\ filter'[g].processed = filter[g].processed
             /\ filter'[g].nameWatch = filter[g].nameWatch
             /\ filter'[g].lock = IF g = f THEN TRUE ELSE filter[g].lock
             /\ \/ filter'[g].owner = filter[g].owner
                \/ m.kind = "owner" /\ filter[g].key \in Named
  BY <1>7, <1>8 DEF FilterData
<1>10. filter' \in Seq(FilterData) /\ Len(filter') = Len(filter)
  <2>1. filter' = [g \in 1..Len(filter) |-> filter'[g]]
    BY <1>2, <1>4
  <2>2. \A g \in 1..Len(filter) : filter'[g] \in FilterData
    BY <1>4, <1>9
  <2>3. filter' \in [1..Len(filter) -> FilterData]
    BY <2>1, <2>2
  <2>4. filter' \in Seq(FilterData)
    BY <1>4, <2>3, SeqDef
  <2>5. DOMAIN filter' = 1..Len(filter)
    BY <2>1
  <2> QED
    BY <1>4, <2>4, <2>5, LenProperties
<1>11. ASSUME NEW g \in Listed(Data)
       PROVE  /\ Data'.filter[g].key = Data.filter[g].key
              /\ Ids(Data', g) = Ids(Data, g) /\ FilterWell(Data', g)
  <2>1. FilterWell(Data, g) /\ g \in DOMAIN filter
    BY <1>1, <1>4 DEF Well
  <2>2. Ids(Data', g) = Ids(Data, g)
    BY <1>4, <1>9, <2>1 DEF Ids
  <2>3. Data'.lastId = Data.lastId /\ Data'.silent = Data.silent
    BY <1>2, Fields, FieldsNext
  <2>4. Data'.filter[g].key = NameKey => Data'.filter[g].owner = Unknown
    <3>1. Data'.filter[g].key = Data.filter[g].key
          /\ (Data.filter[g].key = NameKey => Data.filter[g].owner = Unknown)
      BY <1>4, <1>9, <2>1 DEF FilterWell
    <3>2. NameKey \notin Named
      BY WatchAssumption
    <3>3. Data'.filter[g].owner = Data.filter[g].owner \/ Data.filter[g].key \in Named
      BY <1>4, <1>9, <2>1
    <3> QED
      BY <3>1, <3>2, <3>3
  <2>5. ~Data'.filter[g].lock => Data'.filter[g].processed = <<>>
    BY <1>4, <1>9, <2>1 DEF FilterWell
  <2> QED
    BY <1>4, <1>9, <2>1, <2>2, <2>3, <2>4, <2>5 DEF FilterWell
<1>12. Alike(Data, Data')
  BY <1>1, <1>2, <1>10, <1>11, FiltersChange
<1>13. Well(Data') /\ Listed(Data') = Listed(Data)
  BY <1>1, <1>12, AlikeFits
<1>14. /\ dispatch' \in Dispatching /\ dispatch'.phase = "handle" /\ dispatch'.at = f
       /\ dispatch'.message = m /\ dispatch'.doomed = dispatch.doomed
       /\ dispatch'.passes = dispatch.passes
  BY <1>2, <1>5 DEF Dispatching
<1> HIDE DEF m, f
<1>15. ControlOK'
  BY <1>1, <1>2, <1>14 DEF ControlOK
<1>16. Walk(Data', held, dispatch', removal)
  <2>1. Handling(dispatch')
    BY <1>14 DEF Handling
  <2>2. \A g \in Listed(Data') : Data'.filter[g].lock <=> g = f
    BY <1>3, <1>4, <1>9, <1>13
  <2> QED
    BY <1>3, <1>13, <1>14, <2>1, <2>2 DEF Walk
<1>17. ASSUME observed = Rule
       PROVE  Ruled(Data', dispatch', NoRemoval) /\ Heard(Data', dispatch', due, heard)
  <2>1. Ruled(Data, dispatch, NoRemoval) /\ Heard(Data, dispatch, due, heard)
    BY <1>3, <1>17 DEF Invariant, RulesOK
  <2>2. Handling(dispatch') /\ Data'.lastId = Data.lastId /\ Data'.silent = Data.silent
    BY <1>12, <1>14 DEF Handling, Alike
  <2>3. \A g : Passed(Data', dispatch', g) <=> Passed(Data, dispatch, g)
    BY <1>12, <1>14 DEF Passed, Alike, f
  <2>4. \A g \in Listed(Data) : OfKind(Data', dispatch', g) <=> OfKind(Data, dispatch, g)
    BY <1>11, <1>14 DEF OfKind, m
  <2>5. OfKind(Data', dispatch', f)
    <3>1. MatchingIn(Data, m, f)
      BY <1>2, MatchingIs DEF m, f
    <3>2. m.kind = "signal" => m.signal \in Signal
      BY <1>5 DEF SignalFrom, OwnerChanged
    <3>3. m.kind = "owner" <=> Data.filter[f].key = NameKey
      BY <1>6, <3>1, <3>2, WatchAssumption DEF MatchingIn
    <3> QED
      BY <1>3, <1>11, <1>14, <3>3 DEF OfKind
  <2>6. EmptyIn(Data', NoRemoval) = EmptyIn(Data, NoRemoval)
    BY <1>1, <1>12, EmptyAlike
  <2>7. \A g \in ToSet(dispatch'.doomed) :
           Passed(Data', dispatch', g) /\ OfKind(Data', dispatch', g)
    <3>1. \A g \in ToSet(dispatch.doomed) : g \in Listed(Data)
      BY <2>1 DEF Ruled, EmptyIn, Emptied, Listed
    <3> QED
      BY <1>14, <2>1, <2>3, <2>4, <3>1 DEF Ruled
  <2>8. Ruled(Data', dispatch', NoRemoval)
    BY <1>3, <1>14, <2>1, <2>2, <2>5, <2>6, <2>7 DEF Ruled
  <2>9. ASSUME NEW g \in Listed(Data') PROVE HeardAt(Data', dispatch', due, heard, g)
    <3>1. HeardAt(Data, dispatch, due, heard, g) /\ g \in Listed(Data) /\ g \in DOMAIN filter
      BY <1>2, <1>4, <1>13, <2>1 DEF Heard
    <3>2. Ids(Data', g) = Ids(Data, g)
      BY <1>11, <3>1
    <3>3. MatchingIn(Data, m, g) => MatchingIn(Data', m, g)
      BY <1>4, <1>6, <1>9, <3>1 DEF MatchingIn
    <3>4. \A id \in Ids(Data', g) \intersect due : MatchingIn(Data', dispatch'.message, g)
      BY <1>14, <3>1, <3>2, <3>3 DEF HeardAt, m
    <3>5. Passed(Data', dispatch', g) => \A id \in Ids(Data', g) \intersect due : heard[id] = 1
      BY <2>3, <3>1, <3>2 DEF HeardAt
    <3>6. ~Passed(Data', dispatch', g) => \A id \in Ids(Data', g) : heard[id] = 0
      BY <1>3, <2>3, <3>1, <3>2 DEF HeardAt
    <3>7. g = f => ~Passed(Data', dispatch', g)
      <4>1. ~Before(Data'.listeners, f, f)
        BY <1>13, Ordered DEF Well
      <4> QED
        BY <1>2, <1>14, <4>1 DEF Passed
    <3>8. g = f => Data'.filter[g].processed = <<>>
      BY <1>1, <1>3, <1>4, <1>9, <3>1 DEF Well, FilterWell
    <3>9. ToSet(<<>>) = {} /\ dispatch'.phase # "call"
      BY <1>14 DEF ToSet
    <3>10. g = f => \A id \in ToSet(Data'.filter[g].callbacks) : heard[id] = 0
      BY <3>6, <3>7 DEF Ids
    <3> QED
      BY <1>14, <3>4, <3>5, <3>6, <3>8, <3>9, <3>10 DEF HeardAt
  <2>10. Heard(Data', dispatch', due, heard)
    BY <2>1, <2>2, <2>9 DEF Heard
  <2> QED
    BY <2>8, <2>10
<1> QED
  BY <1>2, <1>3, <1>12, <1>15, <1>16, <1>17, HandlerStep

\* The watch that was called is put aside, if it is still there.
LEMMA MovedFits ==
    ASSUME Well(Data), NEW f \in Listed(Data), Data.filter[f].lock, NEW id,
           filter' = Moved(f, id),
           UNCHANGED <<listeners, lastId, created, rules, installed, silent>>
    PROVE  /\ Alike(Data, Data')
           /\ \A g \in Listed(Data) : /\ Data'.filter[g].lock = Data.filter[g].lock
                                      /\ Data'.filter[g].owner = Data.filter[g].owner
           /\ \A g \in Listed(Data) \ {f} : Data'.filter[g] = Data.filter[g]
           /\ ToSet(Data'.filter[f].callbacks) = ToSet(Data.filter[f].callbacks) \ {id}
           /\ ToSet(Data'.filter[f].processed) \subseteq
                 ToSet(Data.filter[f].processed)
                    \union (ToSet(Data.filter[f].callbacks) \intersect {id})
<1> DEFINE a == RemoveFirst(filter[f].callbacks, id)
           b == Append(filter[f].processed, id)
           x == [filter[f] EXCEPT !.callbacks = a, !.processed = b]
<1>1. /\ Data.filter = filter /\ FilterWell(Data, f) /\ filter[f] \in FilterData
      /\ filter[f].callbacks \in Seq(Watch) /\ filter[f].processed \in Seq(Watch)
      /\ filter \in Seq(FilterData) /\ f \in 1..Len(filter)
  BY Fields, ListedFilter, DataFields DEF Well
<1>2. CASE id \in ToSet(filter[f].callbacks)
  <2>1. id \in Watch /\ id \notin ToSet(filter[f].processed)
    BY <1>1, <1>2, Domain DEF FilterWell
  <2>2. a \in Seq(Watch) /\ IsInjective(a) /\ ToSet(a) = ToSet(filter[f].callbacks) \ {id}
    BY <1>1, ListRemove DEF FilterWell
  <2>3. b \in Seq(Watch) /\ IsInjective(b) /\ ToSet(b) = ToSet(filter[f].processed) \union {id}
    BY <1>1, <2>1, ListAppend DEF FilterWell
  <2>4. filter' = [filter EXCEPT ![f].callbacks = a, ![f].processed = b]
    BY <1>2 DEF Moved
  <2> HIDE DEF a, b
  <2>5. /\ x \in FilterData /\ x.callbacks = a /\ x.processed = b
        /\ x.key = filter[f].key /\ x.lock = filter[f].lock
        /\ x.owner = filter[f].owner /\ x.nameWatch = filter[f].nameWatch
    BY <1>1, <2>2, <2>3 DEF FilterData
  <2>6. filter' = [filter EXCEPT ![f] = x]
    BY <1>1, <2>4 DEF FilterData
  <2> HIDE DEF x
  <2>7. ToSet(x.callbacks) \intersect ToSet(x.processed) = {}
    BY <1>1, <2>2, <2>3, <2>5 DEF FilterWell
  <2>8. ToSet(x.callbacks) \union ToSet(x.processed) = Ids(Data, f)
    BY <1>1, <1>2, <2>2, <2>3, <2>5 DEF Ids
  <2>9. /\ x.lock /\ x.key = Data.filter[f].key /\ x.owner = Data.filter[f].owner
        /\ x.nameWatch = Data.filter[f].nameWatch
        /\ IsInjective(x.callbacks) /\ IsInjective(x.processed)
    BY <1>1, <2>2, <2>3, <2>5
  <2>10. /\ Alike(Data, Data') /\ Data'.filter[f] = x
         /\ \A g \in Listed(Data) \ {f} : Data'.filter[g] = Data.filter[g]
    BY <2>5, <2>6, <2>7, <2>8, <2>9, FilterChanges
  <2> QED
    BY <1>1, <1>2, <2>2, <2>3, <2>5, <2>10
<1>3. CASE id \notin ToSet(filter[f].callbacks)
  <2>1. filter' = filter
    BY <1>3 DEF Moved
  <2>2. Data' = Data
    BY <2>1 DEF Data
  <2>3. Alike(Data, Data)
    BY DEF Alike, Well
  <2> QED
    BY <1>1, <1>3, <2>2, <2>3
<1> QED
  BY <1>2, <1>3

\* What the handler does at filter f: the watches that it has not called yet,
\* and no others, are among the callbacks.
LEMMA HandledStep ==
    ASSUME Invariant, NEW f, f = dispatch.at, Handling(dispatch), Handling(dispatch'),
           Alike(Data, Data'), ControlOK',
           dispatch'.at = f, dispatch'.message = dispatch.message,
           dispatch'.doomed = dispatch.doomed, dispatch'.passes = dispatch.passes,
           dispatch'.phase = "call" =>
              /\ dispatch'.call \in 1..lastId /\ dispatch'.call \notin silent
              /\ dispatch'.call \in held => dispatch'.call \in Ids(Data, f),
           removal = NoRemoval,
           UNCHANGED <<observed, held, removal, due, fault>>,
           \A g \in Listed(Data) : /\ Data'.filter[g].lock = Data.filter[g].lock
                                   /\ Data'.filter[g].owner = Data.filter[g].owner,
           observed = Rule =>
              /\ \A id \in Watch : heard'[id] <= 1 /\ (id > lastId => heard'[id] = 0)
              /\ \A g \in Listed(Data) \ {f} : \A id \in Ids(Data, g) : heard'[id] = heard[id]
              /\ \A id \in ToSet(Data'.filter[f].processed) \intersect due : heard'[id] = 1
              /\ \A id \in ToSet(Data'.filter[f].callbacks) :
                    heard'[id] = IF dispatch'.phase = "call" /\ id = dispatch'.call
                                 THEN 1 ELSE 0
    PROVE  Invariant'
<1>1. /\ Well(Data) /\ Walk(Data, held, dispatch, removal)
  BY DEF Invariant
<1>2. /\ Well(Data') /\ Listed(Data') = Listed(Data)
      /\ Data'.lastId = Data.lastId /\ Data'.silent = Data.silent
      /\ Data'.listeners = Data.listeners
      /\ \A g \in Listed(Data) : Data'.filter[g].key = Data.filter[g].key
                                 /\ Ids(Data', g) = Ids(Data, g)
  BY <1>1, AlikeFits DEF Alike
<1>3. f \in Listed(Data) /\ dispatch'.phase \in {"handle", "call"}
      /\ dispatch.phase \in {"handle", "call"} /\ dispatch.message # NoMessage
  BY <1>1 DEF Walk, Handling
<1>4. Walk(Data', held, dispatch', removal)
  <2>1. \A g \in Listed(Data') : Data'.filter[g].lock <=> g = f
    BY <1>1, <1>2 DEF Walk
  <2>2. lastId = Data.lastId /\ silent = Data.silent
    BY Fields
  <2> QED
    BY <1>2, <1>3, <2>1, <2>2 DEF Walk
<1>5. ASSUME observed = Rule
      PROVE  /\ fault' = "none"
             /\ Ruled(Data', dispatch', removal) /\ Heard(Data', dispatch', due', heard')
  <2>1. Ruled(Data, dispatch, NoRemoval) /\ Heard(Data, dispatch, due, heard)
        /\ fault = "none"
    BY <1>5 DEF Invariant, RulesOK
  <2>2. EmptyIn(Data', NoRemoval) = EmptyIn(Data, NoRemoval)
    BY <1>1, EmptyAlike
  <2>3. \A g : Passed(Data', dispatch', g) <=> Passed(Data, dispatch, g)
    BY <1>2 DEF Passed
  <2>4. \A g \in Listed(Data) : OfKind(Data', dispatch', g) <=> OfKind(Data, dispatch, g)
    BY <1>2 DEF OfKind
  <2>5. \A g \in ToSet(dispatch'.doomed) :
           Passed(Data', dispatch', g) /\ OfKind(Data', dispatch', g)
    <3>1. \A g \in ToSet(dispatch.doomed) : g \in Listed(Data)
      BY <2>1 DEF Ruled, EmptyIn, Emptied, Listed
    <3> QED
      BY <2>1, <2>3, <2>4, <3>1 DEF Ruled
  <2>6. Ruled(Data', dispatch', NoRemoval)
    BY <1>3, <2>1, <2>2, <2>4, <2>5 DEF Ruled
  <2>7. ASSUME NEW g \in Listed(Data') PROVE HeardAt(Data', dispatch', due, heard', g)
    <3>1. HeardAt(Data, dispatch, due, heard, g) /\ Ids(Data', g) = Ids(Data, g)
      BY <1>2, <1>3, <2>1 DEF Heard
    <3>2. MatchingIn(Data', dispatch'.message, g) <=> MatchingIn(Data, dispatch.message, g)
      BY <1>2 DEF MatchingIn
    <3>3. \A id \in Ids(Data', g) \intersect due : MatchingIn(Data', dispatch'.message, g)
      BY <3>1, <3>2 DEF HeardAt
    <3>4. CASE g = f
      <4>1. ~Passed(Data', dispatch', g)
        <5>1. f # 0
          BY <1>1, <1>3, ListedFilter DEF Filter
        <5>2. ~Before(Data'.listeners, f, f)
          BY <1>2, Ordered DEF Well
        <5> QED
          BY <3>4, <5>1, <5>2 DEF Passed
      <4> QED
        BY <1>5, <3>3, <3>4, <4>1 DEF HeardAt
    <3>5. CASE g # f
      <4>1. \A id \in Ids(Data, g) : heard'[id] = heard[id]
        BY <1>2, <1>5, <3>5
      <4>2. Passed(Data', dispatch', g) => \A id \in Ids(Data', g) \intersect due : heard'[id] = 1
        BY <2>3, <3>1, <4>1 DEF HeardAt
      <4>3. ~Passed(Data', dispatch', g) => \A id \in Ids(Data', g) : heard'[id] = 0
        BY <2>3, <3>1, <3>5, <4>1 DEF HeardAt
      <4> QED
        BY <3>3, <3>5, <4>2, <4>3 DEF HeardAt
    <3> QED
      BY <3>4, <3>5
  <2>8. Heard(Data', dispatch', due, heard')
    <3>1. \A id \in Watch : heard'[id] <= 1 /\ (id > Data'.lastId => heard'[id] = 0)
      BY <1>2, <1>5, Fields
    <3> QED
      BY <1>2, <2>1, <2>7, <3>1 DEF Heard
  <2> QED
    BY <2>1, <2>6, <2>8
<1> QED
  BY <1>4, <1>5, HandlerStep

\* What is known of the filter that is handled
LEMMA AtHandled ==
    ASSUME Invariant, NEW f, f = dispatch.at, Handling(dispatch), observed = Rule
    PROVE  /\ \A id \in Watch : heard[id] <= 1 /\ (id > lastId => heard[id] = 0)
           /\ \A id \in ToSet(Data.filter[f].processed) \intersect due : heard[id] = 1
           /\ \A id \in ToSet(Data.filter[f].callbacks) :
                 heard[id] = IF dispatch.phase = "call" /\ id = dispatch.call THEN 1 ELSE 0
           /\ due \intersect silent = {}
<1>1. f \in Listed(Data) /\ dispatch.phase # "idle"
  BY DEF Invariant, Walk, Handling
<1>2. Heard(Data, dispatch, due, heard)
  BY DEF Invariant, RulesOK
<1>3. HeardAt(Data, dispatch, due, heard, f)
  BY <1>1, <1>2 DEF Heard
<1> QED
  BY <1>2, <1>3, Fields DEF Heard, HeardAt

LEMMA CallStep ==
    ASSUME Invariant, Call, UNCHANGED observed
    PROVE  Invariant'
<1> DEFINE f == dispatch.at
           id == Head(filter[f].callbacks)
<1>1. /\ Well(Data) /\ Held(Data, held) /\ Walk(Data, held, dispatch, removal) /\ ControlOK
  BY DEF Invariant
<1>2. /\ fault = "none" /\ dispatch.phase = "handle" /\ filter[f].callbacks # <<>>
      /\ IF id \in silent
         THEN filter' = Moved(f, id) /\ UNCHANGED <<dispatch, due, heard>>
         ELSE /\ dispatch' = [dispatch EXCEPT !.phase = "call", !.call = id]
              /\ heard' = [heard EXCEPT ![id] = @ + 1]
              /\ UNCHANGED filter
      /\ UNCHANGED <<listeners, lastId, created, rules, installed, silent,
                     held, removal, due, fault>>
  BY DEF Call
<1>3. /\ Handling(dispatch) /\ f \in Listed(Data) /\ removal = NoRemoval
      /\ Data.filter[f].lock
  BY <1>1, <1>2 DEF Walk, Handling
<1>4. /\ Data.filter = filter /\ filter[f].callbacks \in Seq(Watch) /\ FilterWell(Data, f)
      /\ Data.lastId = lastId /\ Data.silent = silent
  BY <1>1, <1>3, Fields, ListedFilter DEF Well
<1>5. id \in ToSet(filter[f].callbacks) /\ id \in Watch /\ id \in Ids(Data, f)
      /\ id \in 1..lastId
  <2>1. id \in ToSet(filter[f].callbacks) /\ id \in Watch
    BY <1>2, <1>4, FirstOfList DEF FilterWell
  <2> QED
    BY <1>4, <2>1 DEF FilterWell, Ids
<1>6. f = dispatch.at
  OBVIOUS
<1>7. ASSUME observed = Rule
      PROVE  /\ \A i \in Watch : heard[i] <= 1 /\ (i > lastId => heard[i] = 0)
             /\ \A i \in ToSet(Data.filter[f].processed) \intersect due : heard[i] = 1
             /\ \A i \in ToSet(Data.filter[f].callbacks) : heard[i] = 0
             /\ due \intersect silent = {}
  BY <1>2, <1>3, <1>7, AtHandled
<1> HIDE DEF f, id
<1>8. CASE id \in silent
  <2>1. filter' = Moved(f, id) /\ UNCHANGED <<dispatch, due, heard>>
    BY <1>2, <1>8
  <2>2. /\ Alike(Data, Data')
        /\ \A g \in Listed(Data) : /\ Data'.filter[g].lock = Data.filter[g].lock
                                   /\ Data'.filter[g].owner = Data.filter[g].owner
        /\ ToSet(Data'.filter[f].callbacks) = ToSet(Data.filter[f].callbacks) \ {id}
        /\ ToSet(Data'.filter[f].processed) \subseteq
              ToSet(Data.filter[f].processed)
                 \union (ToSet(Data.filter[f].callbacks) \intersect {id})
    BY <1>1, <1>2, <1>3, <2>1, MovedFits
  <2>3. ControlOK'
    BY <1>1, <1>2, <2>1 DEF ControlOK
  <2>4. ASSUME observed = Rule
        PROVE  /\ \A i \in Watch : heard'[i] <= 1 /\ (i > lastId => heard'[i] = 0)
               /\ \A i \in ToSet(Data'.filter[f].processed) \intersect due : heard'[i] = 1
               /\ \A i \in ToSet(Data'.filter[f].callbacks) :
                     heard'[i] = IF dispatch'.phase = "call" /\ i = dispatch'.call
                                 THEN 1 ELSE 0
    BY <1>2, <1>7, <1>8, <2>1, <2>2, <2>4
  <2>5. /\ dispatch'.at = f /\ dispatch'.message = dispatch.message
        /\ dispatch'.doomed = dispatch.doomed /\ dispatch'.passes = dispatch.passes
        /\ Handling(dispatch') /\ dispatch'.phase # "call" /\ heard' = heard
    BY <1>2, <1>3, <1>6, <2>1
  <2>6. UNCHANGED <<observed, held, removal, due, fault>>
    BY <1>2
  <2> QED
    BY <1>3, <1>6, <2>2, <2>3, <2>4, <2>5, <2>6, HandledStep
<1>9. CASE id \notin silent
  <2>1. /\ dispatch' = [dispatch EXCEPT !.phase = "call", !.call = id]
        /\ heard' = [heard EXCEPT ![id] = @ + 1]
        /\ UNCHANGED filter
    BY <1>2, <1>9
  <2>2. Data' = Data /\ Alike(Data, Data)
    BY <1>1, <1>2, <2>1 DEF Data, Alike, Well
  <2>3. /\ dispatch' \in Dispatching /\ dispatch'.phase = "call" /\ dispatch'.call = id
        /\ dispatch'.at = f /\ dispatch'.message = dispatch.message
        /\ dispatch'.doomed = dispatch.doomed /\ dispatch'.passes = dispatch.passes
        /\ Handling(dispatch')
    BY <1>1, <1>5, <1>6, <2>1 DEF ControlOK, Dispatching, Handling
  <2>4. /\ heard' \in [Watch -> Nat] /\ heard'[id] = heard[id] + 1
        /\ \A i \in Watch : i # id => heard'[i] = heard[i]
    BY <1>1, <1>5, <2>1 DEF ControlOK
  <2>5. ControlOK'
    BY <1>1, <1>2, <2>3, <2>4 DEF ControlOK
  <2>6. ASSUME observed = Rule
        PROVE  /\ \A i \in Watch : heard'[i] <= 1 /\ (i > lastId => heard'[i] = 0)
               /\ \A g \in Listed(Data) \ {f} : \A i \in Ids(Data, g) : heard'[i] = heard[i]
               /\ \A i \in ToSet(Data.filter[f].processed) \intersect due : heard'[i] = 1
               /\ \A i \in ToSet(Data.filter[f].callbacks) :
                     heard'[i] = IF dispatch'.phase = "call" /\ i = dispatch'.call
                                 THEN 1 ELSE 0
    <3>1. heard[id] = 0
      BY <1>4, <1>5, <1>7, <2>6
    <3>2. \A i \in Watch : heard'[i] <= 1 /\ (i > lastId => heard'[i] = 0)
      <4>1. lastId \in Nat /\ ~(id > lastId)
        BY <1>1, <1>4, <1>5, DataFields DEF Well
      <4> QED
        BY <1>7, <2>4, <2>6, <3>1, <4>1
    <3>3. \A g \in Listed(Data) : \A i \in Ids(Data, g) : i \in Watch
      BY <1>1, ListedFilter, Domain DEF Ids
    <3>4. \A g \in Listed(Data) \ {f} : id \notin Ids(Data, g)
      BY <1>1, <1>3, <1>5 DEF Well
    <3>5. id \notin ToSet(Data.filter[f].processed)
      BY <1>4, <1>5 DEF FilterWell
    <3>6. \A i \in ToSet(Data.filter[f].processed) \union ToSet(Data.filter[f].callbacks) :
             i \in Watch
      BY <1>3, <3>3 DEF Ids
    <3>7. \A i \in ToSet(Data.filter[f].processed) \intersect due : heard'[i] = 1
      BY <1>7, <2>4, <2>6, <3>5, <3>6
    <3>8. \A i \in ToSet(Data.filter[f].callbacks) : heard'[i] = IF i = id THEN 1 ELSE 0
      BY <1>7, <2>4, <2>6, <3>1, <3>6
    <3> QED
      BY <2>3, <2>4, <3>2, <3>3, <3>4, <3>7, <3>8
  <2>7. id \in 1..lastId /\ id \notin silent /\ id \in Ids(Data, f)
    BY <1>5, <1>9
  <2>8. UNCHANGED <<observed, held, removal, due, fault>>
    BY <1>2
  <2> QED
    BY <1>3, <1>6, <2>2, <2>3, <2>5, <2>6, <2>7, <2>8, HandledStep
<1> QED
  BY <1>8, <1>9

LEMMA ReturnTrueStep ==
    ASSUME Invariant, ReturnTrue, UNCHANGED observed
    PROVE  Invariant'
<1> DEFINE f == dispatch.at
           id == dispatch.call
<1>1. /\ Well(Data) /\ Held(Data, held) /\ Walk(Data, held, dispatch, removal) /\ ControlOK
  BY DEF Invariant
<1>2. /\ fault = "none" /\ dispatch.phase = "call" /\ removal = NoRemoval
      /\ filter' = Moved(f, id)
      /\ dispatch' = [dispatch EXCEPT !.phase = "handle", !.call = 0]
      /\ UNCHANGED <<listeners, lastId, created, rules, installed, silent, held,
                     removal, due, heard, fault>>
  BY DEF ReturnTrue
<1>3. Handling(dispatch) /\ f \in Listed(Data) /\ Data.filter[f].lock
  BY <1>1, <1>2 DEF Walk, Handling
<1>4. f = dispatch.at
  OBVIOUS
<1>5. ASSUME observed = Rule
      PROVE  /\ \A i \in Watch : heard[i] <= 1 /\ (i > lastId => heard[i] = 0)
             /\ \A i \in ToSet(Data.filter[f].processed) \intersect due : heard[i] = 1
             /\ \A i \in ToSet(Data.filter[f].callbacks) : heard[i] = IF i = id THEN 1 ELSE 0
  BY <1>2, <1>3, <1>5, AtHandled
<1>6. /\ dispatch' \in Dispatching /\ dispatch'.phase = "handle"
      /\ dispatch'.at = f /\ dispatch'.message = dispatch.message
      /\ dispatch'.doomed = dispatch.doomed /\ dispatch'.passes = dispatch.passes
      /\ Handling(dispatch')
  BY <1>1, <1>2 DEF ControlOK, Dispatching, Handling
<1> HIDE DEF f, id
<1>7. /\ Alike(Data, Data')
      /\ \A g \in Listed(Data) : /\ Data'.filter[g].lock = Data.filter[g].lock
                                 /\ Data'.filter[g].owner = Data.filter[g].owner
      /\ ToSet(Data'.filter[f].callbacks) = ToSet(Data.filter[f].callbacks) \ {id}
      /\ ToSet(Data'.filter[f].processed) \subseteq
            ToSet(Data.filter[f].processed)
               \union (ToSet(Data.filter[f].callbacks) \intersect {id})
  BY <1>1, <1>2, <1>3, MovedFits
<1>8. ControlOK'
  BY <1>1, <1>2, <1>6 DEF ControlOK
<1>9. ASSUME observed = Rule
      PROVE  /\ \A i \in Watch : heard'[i] <= 1 /\ (i > lastId => heard'[i] = 0)
             /\ \A i \in ToSet(Data'.filter[f].processed) \intersect due : heard'[i] = 1
             /\ \A i \in ToSet(Data'.filter[f].callbacks) : heard'[i] = 0
  BY <1>2, <1>5, <1>7, <1>9
<1>10. heard' = heard /\ UNCHANGED <<observed, held, removal, due, fault>>
  BY <1>2
<1> QED
  BY <1>2, <1>3, <1>4, <1>6, <1>7, <1>8, <1>9, <1>10, HandledStep

LEMMA LeaveStep ==
    ASSUME Invariant, Leave, UNCHANGED observed
    PROVE  Invariant'
<1> DEFINE f == dispatch.at
           doomed == IF filter[f].processed = <<>> THEN <<f>> \o dispatch.doomed
                     ELSE dispatch.doomed
           x == [filter[f] EXCEPT !.callbacks = filter[f].processed, !.processed = <<>>,
                                  !.lock = FALSE]
<1>1. /\ Well(Data) /\ Held(Data, held) /\ Walk(Data, held, dispatch, removal) /\ ControlOK
  BY DEF Invariant
<1>2. /\ dispatch.phase = "handle" /\ filter[f].callbacks = <<>>
      /\ filter' = [filter EXCEPT ![f].callbacks = filter[f].processed,
                                  ![f].processed = <<>>,
                                  ![f].lock = FALSE]
      /\ UNCHANGED <<listeners, lastId, created, rules, installed, silent,
                     held, removal, due, heard>>
      /\ f \in ToSet(listeners) => dispatch' = After(f, doomed) /\ fault' = "none"
  BY DEF Leave
<1>3. /\ Handling(dispatch) /\ f \in Listed(Data) /\ removal = NoRemoval
      /\ dispatch.message # NoMessage /\ f \in Filter /\ f # 0
      /\ \A g \in Listed(Data) \ {f} : ~Data.filter[g].lock
  BY <1>1, <1>2, ListedFilter DEF Walk, Handling, Filter
<1>4. /\ Data.filter = filter /\ FilterWell(Data, f) /\ filter[f] \in FilterData
      /\ filter[f].processed \in Seq(Watch) /\ Listed(Data) = ToSet(listeners)
      /\ filter \in Seq(FilterData) /\ f \in 1..Len(filter)
      /\ Ids(Data, f) = ToSet(filter[f].processed)
  <2>1. ToSet(<<>>) = {}
    BY DEF ToSet
  <2> QED
    BY <1>1, <1>2, <1>3, <2>1, Fields, ListedFilter, DataFields DEF Well, Ids
<1>5. x \in FilterData /\ filter' = [filter EXCEPT ![f] = x]
      /\ x.callbacks = filter[f].processed /\ x.processed = <<>> /\ ~x.lock
      /\ x.key = filter[f].key /\ x.owner = filter[f].owner
      /\ x.nameWatch = filter[f].nameWatch
  BY <1>2, <1>4 DEF FilterData
<1>6. /\ Alike(Data, Data') /\ Data'.filter[f] = x
      /\ \A g \in Listed(Data) \ {f} : Data'.filter[g] = Data.filter[g]
  <2>1. ToSet(<<>>) = {} /\ IsInjective(<<>>)
    BY DEF ToSet, IsInjective
  <2>2. /\ ToSet(x.callbacks) \intersect ToSet(x.processed) = {}
        /\ ToSet(x.callbacks) \union ToSet(x.processed) = Ids(Data, f)
        /\ IsInjective(x.callbacks) /\ IsInjective(x.processed)
    BY <1>4, <1>5, <2>1 DEF FilterWell
  <2> HIDE DEF x, f
  <2> QED
    BY <1>1, <1>2, <1>3, <1>4, <1>5, <2>2, FilterChanges
<1>7. /\ Well(Data') /\ Listed(Data') = Listed(Data) /\ Data'.listeners = Data.listeners
      /\ Data'.lastId = Data.lastId /\ Data'.silent = Data.silent
      /\ \A g \in Listed(Data) :
            /\ Data'.filter[g].key = Data.filter[g].key
            /\ Data'.filter[g].owner = Data.filter[g].owner
            /\ ~Data'.filter[g].lock /\ Ids(Data', g) = Ids(Data, g)
  BY <1>1, <1>3, <1>4, <1>5, <1>6, AlikeFits DEF Alike
<1>8. dispatch.doomed \in Seq(Filter) /\ doomed \in Seq(Filter) /\ dispatch \in Dispatching
  <2>1. dispatch.doomed \in Seq(Filter) /\ dispatch \in Dispatching
    BY <1>1 DEF ControlOK, Dispatching
  <2>2. <<f>> \in Seq(Filter)
    BY <1>3
  <2> QED
    BY <2>1, <2>2, ConcatProperties
<1> HIDE DEF x, f, doomed
<1>9. /\ dispatch' \in Dispatching /\ dispatch'.phase = "filter"
      /\ dispatch'.message = dispatch.message /\ dispatch'.passes = dispatch.passes
      /\ dispatch'.doomed = doomed /\ dispatch'.at \in {0} \union Listed(Data')
      /\ \A g \in Listed(Data') :
            Passed(Data', dispatch', g) <=> g = f \/ Before(Data'.listeners, g, f)
  BY <1>2, <1>3, <1>4, <1>7, <1>8, AfterFits
<1>10. ControlOK'
  <2>1. fault' = "none"
    BY <1>2, <1>3, <1>4
  <2> QED
    BY <1>1, <1>2, <1>9, <2>1 DEF ControlOK, Fault
<1>11. ~Handling(dispatch')
  BY <1>9 DEF Handling
<1>12. Walk(Data', held, dispatch', removal)
  BY <1>3, <1>7, <1>9, <1>11, UnhandledWalk
<1>13. ASSUME NEW g \in Listed(Data)
       PROVE  Passed(Data', dispatch', g) <=> g = f \/ Passed(Data, dispatch, g)
  BY <1>3, <1>7, <1>9 DEF Passed, f
<1>14. ASSUME observed = Rule
       PROVE  /\ fault' = "none"
              /\ Ruled(Data', dispatch', removal) /\ Heard(Data', dispatch', due', heard')
  <2>1. Ruled(Data, dispatch, NoRemoval) /\ Heard(Data, dispatch, due, heard)
    BY <1>3, <1>14 DEF Invariant, RulesOK
  <2>2. EmptyIn(Data', NoRemoval) = EmptyIn(Data, NoRemoval)
    BY <1>1, <1>6, EmptyAlike
  <2>3. \A g \in Listed(Data) : OfKind(Data', dispatch', g) <=> OfKind(Data, dispatch, g)
    BY <1>7, <1>9 DEF OfKind
  <2>4. EmptyIn(Data, NoRemoval) = {g \in Listed(Data) : Ids(Data, g) = {}}
    BY <1>1, EmptyUnlessRemoved
  <2>5. /\ EmptyIn(Data, NoRemoval) \subseteq ToSet(dispatch.doomed) \union {f}
        /\ ToSet(dispatch.doomed) \subseteq EmptyIn(Data, NoRemoval)
        /\ \A g, h \in EmptyIn(Data, NoRemoval) : g = h
        /\ Len(dispatch.doomed) <= 1
        /\ \A g \in ToSet(dispatch.doomed) : Passed(Data, dispatch, g) /\ OfKind(Data, dispatch, g)
        /\ OfKind(Data, dispatch, f)
    BY <1>3, <2>1 DEF Ruled, f
  <2>6. /\ EmptyIn(Data, NoRemoval) = ToSet(doomed) /\ Len(doomed) <= 1
        /\ ToSet(doomed) \subseteq ToSet(dispatch.doomed) \union {f}
    <3>1. CASE filter[f].processed = <<>>
      <4>1. f \in EmptyIn(Data, NoRemoval)
        BY <1>3, <1>4, <2>4, <3>1 DEF ToSet
      <4>2. ~Passed(Data, dispatch, f)
        BY <1>1, <1>3, Ordered DEF Well, Passed, f
      <4>3. ToSet(dispatch.doomed) = {}
        BY <2>5, <4>1, <4>2
      <4>4. dispatch.doomed = <<>>
        BY <1>8, <4>3, FirstOfEmpty
      <4>5. doomed = <<f>>
        BY <3>1, <4>4 DEF doomed
      <4>6. ToSet(<<f>>) = {f} /\ Len(<<f>>) = 1
        BY DEF ToSet
      <4> QED
        BY <2>5, <4>1, <4>5, <4>6
    <3>2. CASE filter[f].processed # <<>>
      <4>1. Ids(Data, f) # {}
        BY <1>4, <3>2, FirstOfEmpty
      <4>2. f \notin EmptyIn(Data, NoRemoval)
        BY <2>4, <4>1
      <4>3. doomed = dispatch.doomed
        BY <3>2 DEF doomed
      <4> QED
        BY <2>5, <4>2, <4>3
    <3> QED
      BY <3>1, <3>2
  <2>7. \A g \in ToSet(doomed) : Passed(Data', dispatch', g) /\ OfKind(Data', dispatch', g)
    <3>1. \A g \in ToSet(doomed) : g \in Listed(Data)
      BY <2>4, <2>6
    <3> QED
      BY <1>13, <2>3, <2>5, <2>6, <3>1
  <2>8. Ruled(Data', dispatch', NoRemoval)
    BY <1>9, <1>11, <2>1, <2>2, <2>5, <2>6, <2>7 DEF Ruled
  <2>9. ASSUME NEW g \in Listed(Data') PROVE HeardAt(Data', dispatch', due, heard, g)
    <3>1. HeardAt(Data, dispatch, due, heard, g) /\ g \in Listed(Data)
          /\ Ids(Data', g) = Ids(Data, g)
      BY <1>2, <1>7, <2>1 DEF Heard
    <3>2. MatchingIn(Data', dispatch'.message, g) <=> MatchingIn(Data, dispatch.message, g)
      BY <1>7, <1>9, <3>1 DEF MatchingIn
    <3>3. g = f => \A id \in Ids(Data, g) \intersect due : heard[id] = 1
      BY <1>3, <1>4, <3>1 DEF HeardAt, f
    <3>4. Passed(Data', dispatch', g) => \A id \in Ids(Data', g) \intersect due : heard[id] = 1
      BY <1>13, <3>1, <3>3 DEF HeardAt
    <3>5. ~Passed(Data', dispatch', g) => \A id \in Ids(Data', g) : heard[id] = 0
      BY <1>13, <3>1 DEF HeardAt, f
    <3>6. \A id \in Ids(Data', g) \intersect due : MatchingIn(Data', dispatch'.message, g)
      BY <3>1, <3>2 DEF HeardAt
    <3> QED
      BY <1>11, <3>4, <3>5, <3>6 DEF HeardAt
  <2>10. Heard(Data', dispatch', due, heard)
    BY <1>7, <2>1, <2>9 DEF Heard
  <2> QED
    BY <1>2, <1>3, <1>4, <2>8, <2>10
<1>15. UNCHANGED <<observed, held, removal>>
  BY <1>2
<1> QED
  BY <1>6, <1>10, <1>12, <1>14, <1>15, HandlerStep

-----------------------------------------------------------------------------
(* The invariant, and what it says. *)

LEMMA InitInvariant == Init => Invariant
<1> SUFFICES ASSUME Init PROVE Invariant
  OBVIOUS
<1>1. /\ observed \in Observances /\ lastId = 0 /\ created = 0 /\ installed = 0
      /\ listeners = <<>> /\ filter = <<>> /\ rules = [k \in Key |-> 0] /\ silent = {}
      /\ held = {} /\ dispatch = Idle /\ removal = NoRemoval /\ due = {}
      /\ heard = [i \in Watch |-> 0] /\ fault = "none"
  BY DEF Init
<1>2. Listed(Data) = {} /\ Data.listeners = <<>>
  BY <1>1, Fields DEF ToSet
<1>3. Data \in DataType
  <2>1. Data = [listeners |-> <<>>, filter |-> <<>>, lastId |-> 0, created |-> 0,
                rules |-> [k \in Key |-> 0], installed |-> 0, silent |-> {}]
    BY <1>1 DEF Data
  <2>2. 0 \in 0..MaxFilters /\ [k \in Key |-> 0] \in [Key -> Int]
    BY WatchAssumption
  <2> QED
    BY <2>1, <2>2 DEF DataType
<1>4. Well(Data)
  <2>1. <<>> \in Seq(1..0) /\ IsInjective(<<>>) /\ Len(<<>>) = 0
    BY DEF IsInjective
  <2> QED
    BY <1>1, <1>2, <1>3, <2>1, Fields DEF Well
<1>5. Exact(Data)
  <2>1. \A k : WithKey(Data, k) = {}
    BY <1>2 DEF WithKey
  <2>2. Cardinality({}) = 0
    BY FS_EmptySet
  <2>3. ASSUME NEW k \in Key PROVE Surplus(Data, k) = 0
    <3>1. Cardinality(WithKey(Data, k)) = 0
      BY <2>1, <2>2
    <3>2. Data.rules[k] = 0
      BY <1>1, Fields
    <3> QED
      BY <3>1, <3>2 DEF Surplus
  <2>4. Excess(Data) = 0
    BY <1>1, Fields DEF Excess
  <2> QED
    BY <2>3, <2>4 DEF Exact
<1>6. Counted(Data)
  BY <1>5 DEF Exact, Counted
<1>7. Held(Data, held)
  BY <1>1, <1>2, Fields DEF Held
<1>8. Idle \in Dispatching /\ Idle.phase = "idle" /\ ~Handling(Idle)
  BY DEF Idle, Dispatching, Handling
<1>9. Walk(Data, held, dispatch, removal)
  BY <1>1, <1>2, <1>8, UnhandledWalk
<1>10. ControlOK
  BY <1>1, <1>8 DEF ControlOK, Fault
<1>11. Ruled(Data, dispatch, removal)
  <2>1. EmptyIn(Data, NoRemoval) = {}
    BY <1>2, <1>4, EmptyUnlessRemoved
  <2> QED
    BY <1>1, <2>1, IdleRules
<1>12. Heard(Data, dispatch, due, heard)
  BY <1>1, <1>8, Fields DEF Heard
<1> QED
  BY <1>1, <1>4, <1>5, <1>6, <1>7, <1>9, <1>10, <1>11, <1>12 DEF Invariant, RulesOK

LEMMA NextInvariant == Invariant /\ [Next]_vars => Invariant'
<1> SUFFICES ASSUME Invariant, [Next]_vars PROVE Invariant'
  OBVIOUS
<1>1. ASSUME UNCHANGED observed, NEW k \in Key, NEW ok \in BOOLEAN, NEW okName \in BOOLEAN,
             AddWatch(k, ok, okName)
      PROVE  Invariant'
  BY <1>1, AddWatchStep
<1>2. ASSUME UNCHANGED observed, NEW id \in Watch, NEW ok \in BOOLEAN, RemoveWatch(id, ok)
      PROVE  Invariant'
  BY <1>2, RemoveWatchStep
<1>3. ASSUME UNCHANGED observed, FinishRemoval PROVE Invariant'
  BY <1>3, FinishRemovalStep
<1>4. ASSUME UNCHANGED observed, RemoveAllWatches PROVE Invariant'
  BY <1>4, RemoveAllWatchesStep
<1>5. ASSUME UNCHANGED observed, RemoveFirstFilter PROVE Invariant'
  BY <1>5, RemoveFirstFilterStep
<1>6. ASSUME UNCHANGED observed, AllRemoved PROVE Invariant'
  BY <1>6, AllRemovedStep
<1>7. ASSUME UNCHANGED observed, NEW m \in SignalFrom \union OwnerChanged, Deliver(m)
      PROVE  Invariant'
  BY <1>7, DeliverStep
<1>8. ASSUME UNCHANGED observed, Skip PROVE Invariant'
  BY <1>8, SkipStep
<1>9. ASSUME UNCHANGED observed, Enter PROVE Invariant'
  BY <1>9, EnterStep
<1>10. ASSUME UNCHANGED observed, Call PROVE Invariant'
  BY <1>10, CallStep
<1>11. ASSUME UNCHANGED observed, ReturnTrue PROVE Invariant'
  BY <1>11, ReturnTrueStep
<1>12. ASSUME UNCHANGED observed, ReturnFalse PROVE Invariant'
  BY <1>12, ReturnFalseStep
<1>13. ASSUME UNCHANGED observed, Leave PROVE Invariant'
  BY <1>13, LeaveStep
<1>14. ASSUME UNCHANGED observed, DeleteNone PROVE Invariant'
  BY <1>14, DeleteNoneStep
<1>15. ASSUME UNCHANGED observed, NEW ok \in BOOLEAN, DeleteOne(ok) PROVE Invariant'
  BY <1>15, DeleteOneStep
<1>16. ASSUME UNCHANGED observed, DeleteMore PROVE Invariant'
  BY <1>16, DeleteMoreStep
<1>17. CASE UNCHANGED vars
  <2>1. Data' = Data /\ lastId' = lastId
    BY <1>17, Unchanged DEF vars, data
  <2>2. UNCHANGED <<observed, held, dispatch, removal, due, heard, fault>>
    BY <1>17 DEF vars
  <2>3. ControlOK'
    BY <2>1, <2>2 DEF Invariant, ControlOK
  <2>4. RulesOK'
    BY <2>1, <2>2 DEF Invariant, RulesOK
  <2> QED
    BY <2>1, <2>2, <2>3, <2>4 DEF Invariant
<1> QED
  BY <1>1, <1>2, <1>3, <1>4, <1>5, <1>6, <1>7, <1>8, <1>9, <1>10, <1>11, <1>12, <1>13,
     <1>14, <1>15, <1>16, <1>17 DEF Next, Step

LEMMA InvariantTypeOK == Invariant => TypeOK
<1> SUFFICES ASSUME Invariant PROVE TypeOK
  OBVIOUS
<1>1. /\ ControlOK /\ Well(Data) /\ Counted(Data) /\ Held(Data, held)
  BY DEF Invariant
<1>2. /\ listeners \in Seq(1..created) /\ filter \in Seq(FilterData) /\ Len(filter) = created
      /\ lastId \in {0} \union Watch /\ created \in 0..MaxFilters /\ created \in Nat
      /\ rules \in [Key -> Int] /\ installed \in Int
      /\ silent \subseteq 1..lastId /\ held \subseteq 1..lastId
  BY <1>1, Fields, DataFields DEF Well, Held
<1>3. filter \in [1..created -> FilterData]
  BY <1>2, Domain
<1>4. rules \in [Key -> Nat]
  <2>1. ASSUME NEW k \in Key PROVE rules[k] \in Nat
    <3>1. Cardinality(WithKey(Data, k)) \in Nat
      BY <1>1, WithKeyFinite
    <3>2. Surplus(Data, k) >= 0
      BY <1>1 DEF Counted
    <3> QED
      BY <1>2, <3>1, <3>2, Fields DEF Surplus
  <2> QED
    BY <1>2, <2>1
<1>5. installed \in Nat
  BY <1>1, <1>2, Fields DEF Counted, Excess
<1> QED
  BY <1>1, <1>2, <1>3, <1>4, <1>5 DEF TypeOK, ControlOK

LEMMA InvariantWatches == Invariant => WatchesAreHeld
<1> SUFFICES ASSUME Invariant PROVE WatchesAreHeld
  OBVIOUS
<1>1. Well(Data) /\ Held(Data, held)
  BY DEF Invariant
<1>2. ASSUME NEW id \in held PROVE Cardinality(FilterOf(id)) = 1
  <2>1. PICK f \in Listed(Data) : id \in Ids(Data, f)
    BY <1>1 DEF Held
  <2>2. FilterOf(id) = {g \in Listed(Data) : id \in Ids(Data, g)}
    BY <1>1, FilterOfIs
  <2>3. FilterOf(id) = {f}
    BY <1>1, <2>1, <2>2 DEF Well
  <2> QED
    BY <2>3, FS_Singleton
<1>3. ASSUME NEW f \in ToSet(listeners)
      PROVE  ToSet(filter[f].callbacks \o filter[f].processed) \subseteq held \union silent
  <2>1. f \in Listed(Data) /\ Data.filter = filter /\ Data.silent = silent
    BY Fields
  <2>2. filter[f].callbacks \in Seq(Watch) /\ filter[f].processed \in Seq(Watch)
    BY <1>1, <2>1, ListedFilter
  <2>3. ToSet(filter[f].callbacks \o filter[f].processed) = Ids(Data, f)
    BY <2>1, <2>2, Joined DEF Ids
  <2> QED
    BY <1>1, <2>1, <2>3 DEF Held
<1> QED
  BY <1>2, <1>3 DEF WatchesAreHeld

LEMMA InvariantBus == Invariant => BusMatchesFilters
<1> SUFFICES ASSUME Invariant, observed = Rule PROVE BusMatchesFilters
  BY DEF BusMatchesFilters
<1>1. Well(Data) /\ Exact(Data)
  BY DEF Invariant, RulesOK
<1>2. rules \in [Key -> Int] /\ installed \in Int
  BY <1>1, Fields, DataFields DEF Well
<1>3. ASSUME NEW k \in Key
      PROVE  rules[k] = Cardinality({f \in ToSet(listeners) : filter[f].key = k})
  <2>1. WithKey(Data, k) = {f \in ToSet(listeners) : filter[f].key = k}
    BY Fields DEF WithKey
  <2>2. Cardinality(WithKey(Data, k)) \in Nat /\ rules[k] \in Int
    BY <1>1, <1>2, WithKeyFinite
  <2>3. rules[k] - Cardinality(WithKey(Data, k)) = 0
    BY <1>1, Fields DEF Exact, Surplus
  <2>4. rules[k] = Cardinality(WithKey(Data, k))
    BY <2>2, <2>3
  <2> QED
    BY <2>1, <2>4
<1>4. installed = IF listeners = <<>> THEN 0 ELSE 1
  BY <1>1, <1>2, Fields DEF Exact, Excess
<1> QED
  BY <1>3, <1>4 DEF BusMatchesFilters

LEMMA InvariantDelivered == Invariant => DeliveredOnce
<1> SUFFICES ASSUME Invariant, observed = Rule PROVE DeliveredOnce
  BY DEF DeliveredOnce
<1>1. Heard(Data, dispatch, due, heard) /\ Held(Data, held)
  BY DEF Invariant, RulesOK
<1>2. ASSUME dispatch.phase = "filter", dispatch.at = 0, NEW id \in due \intersect held
      PROVE  heard[id] = 1
  <2>1. PICK f \in Listed(Data) : id \in Ids(Data, f)
    BY <1>1 DEF Held
  <2>2. HeardAt(Data, dispatch, due, heard, f) /\ Passed(Data, dispatch, f)
    BY <1>1, <1>2 DEF Heard, Passed
  <2> QED
    BY <2>1, <2>2 DEF HeardAt
<1> QED
  BY <1>1, <1>2 DEF Heard, DeliveredOnce

-----------------------------------------------------------------------------
(* The results. *)

LEMMA SpecInvariant == Spec => []Invariant
BY InitInvariant, NextInvariant, PTL DEF Spec

\* The lists, counts and places of watch.c keep their types; in particular the
\* connection's match rules and installations of message_filter are never
\* undone more often than they were made.
THEOREM TypeCorrect == Spec => []TypeOK
BY SpecInvariant, InvariantTypeOK, PTL

\* Whatever callers, the bus and the functions of watches do, as long as nobody
\* calls g_dbus_remove_all_watches, and up to the first fault: a watch is with
\* one listed filter, among callbacks or processed, from g_dbus_add_*_watch
\* until it is removed, and filters have no others.
THEOREM HeldCorrect == Spec => []WatchesAreHeld
BY SpecInvariant, InvariantWatches, PTL

\* Where the rules are observed, add_match and remove_match, and the
\* installation of message_filter, are in step with listeners.
THEOREM BusCorrect == Spec => []BusMatchesFilters
BY SpecInvariant, InvariantBus, PTL

\* Where the rules are observed, message_filter calls each watch that the
\* signal is for once, although functions add and remove watches during the
\* walk.
THEOREM DeliveryCorrect == Spec => []DeliveredOnce
BY SpecInvariant, InvariantDelivered, PTL

\* Where the rules are observed, nothing that was freed is used and the loop
\* over delete_listener ends.
THEOREM FaultCorrect == Spec => []NoFault
<1>1. Invariant => NoFault
  BY DEF Invariant, RulesOK, NoFault
<1> QED
  BY <1>1, SpecInvariant, PTL
=============================================================================
