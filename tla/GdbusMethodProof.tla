-------------------------- MODULE GdbusMethodProof --------------------------
(***************************************************************************)
(* For any methods and any number of calls and registrations.  Whatever    *)
(* rules the service observes, no call is answered twice, and a function   *)
(* runs only if the first verdict on its own call granted it.  If it       *)
(* observes the rules, functions run once and on data that is there.  At   *)
(* the end the types, with the bounds on the numbers of requests.          *)
(***************************************************************************)
EXTENDS GdbusMethod, SequenceTheorems, FiniteSetTheorems, TLAPS

-----------------------------------------------------------------------------
(* Lists of calls that wait. *)

\* No call is twice in the list.
Once(l) == \A i, j \in 1..Len(l) : l[i].call = l[j].call => i = j

LEMMA ListPut ==
    ASSUME NEW R, NEW l \in Seq(R), NEW r \in R, Once(l), r.call \notin CallsOf(l)
    PROVE  /\ <<r>> \o l \in Seq(R)
           /\ Once(<<r>> \o l)
           /\ CallsOf(<<r>> \o l) = CallsOf(l) \union {r.call}
           /\ ToSet(<<r>> \o l) \subseteq ToSet(l) \union {r}
<1> DEFINE u == <<r>> \o l
<1>1. /\ u \in Seq(R) /\ Len(u) = Len(l) + 1 /\ u[1] = r
      /\ \A i \in 1..Len(l) : u[i + 1] = l[i]
  OBVIOUS
<1>2. /\ Len(l) \in Nat
      /\ CallsOf(l) = {l[i].call : i \in 1..Len(l)}
      /\ CallsOf(u) = {u[i].call : i \in 1..Len(u)}
  BY <1>1 DEF CallsOf
<1> HIDE DEF u
<1>3. \A i \in 1..Len(u) : i = 1 \/ (i - 1 \in 1..Len(l) /\ u[i] = l[i - 1])
  <2> TAKE i \in 1..Len(u)
  <2>1. CASE i # 1
    <3>1. i - 1 \in 1..Len(l) /\ i = (i - 1) + 1
      BY <1>1, <1>2, <2>1
    <3> QED
      BY <1>1, <3>1
  <2> QED
    BY <2>1
<1>4. CallsOf(u) = CallsOf(l) \union {r.call}
  <2>1. CallsOf(u) \subseteq CallsOf(l) \union {r.call}
    BY <1>1, <1>2, <1>3
  <2>2. ASSUME NEW i \in 1..Len(l)
        PROVE  l[i].call \in CallsOf(u)
    BY <1>1, <1>2
  <2>3. r.call \in CallsOf(u)
    BY <1>1, <1>2
  <2> QED
    BY <1>2, <2>1, <2>2, <2>3
<1>5. Once(u)
  <2> SUFFICES ASSUME NEW i \in 1..Len(u), NEW j \in 1..Len(u),
                      u[i].call = u[j].call
               PROVE  i = j
    BY DEF Once
  <2>1. CASE i = 1 /\ j # 1
    BY <1>1, <1>2, <1>3, <2>1
  <2>2. CASE i # 1 /\ j = 1
    BY <1>1, <1>2, <1>3, <2>2
  <2>3. CASE i # 1 /\ j # 1
    <3>1. l[i - 1].call = l[j - 1].call /\ i - 1 \in 1..Len(l) /\ j - 1 \in 1..Len(l)
      BY <1>3, <2>3
    <3>2. i - 1 = j - 1
      BY <3>1 DEF Once
    <3> QED
      BY <3>2
  <2> QED
    BY <2>1, <2>2, <2>3
<1>6. ToSet(u) \subseteq ToSet(l) \union {r}
  <2>1. DOMAIN u = 1..Len(u) /\ DOMAIN l = 1..Len(l)
    BY <1>1, LenProperties
  <2> QED
    BY <1>1, <1>3, <2>1 DEF ToSet
<1> QED
  BY <1>1, <1>4, <1>5, <1>6 DEF u

LEMMA ListRemove ==
    ASSUME NEW R, NEW l \in Seq(R), NEW k \in 1..Len(l), Once(l)
    PROVE  /\ RemoveAt(l, k) \in Seq(R)
           /\ Once(RemoveAt(l, k))
           /\ CallsOf(RemoveAt(l, k)) = CallsOf(l) \ {l[k].call}
           /\ ToSet(RemoveAt(l, k)) \subseteq ToSet(l)
<1> DEFINE u == RemoveAt(l, k)
<1>1. /\ Len(l) \in Nat /\ \A i \in 1..Len(l) : l[i] \in R
  OBVIOUS
<1>2. /\ SubSeq(l, 1, k - 1) \in Seq(R)
      /\ Len(SubSeq(l, 1, k - 1)) = k - 1
      /\ \A i \in 1..(k - 1) : SubSeq(l, 1, k - 1)[i] = l[i]
  BY <1>1
<1>3. /\ SubSeq(l, k + 1, Len(l)) \in Seq(R)
      /\ Len(SubSeq(l, k + 1, Len(l))) = Len(l) - k
      /\ \A i \in 1..(Len(l) - k) : SubSeq(l, k + 1, Len(l))[i] = l[k + i]
  BY <1>1
<1>4. /\ u \in Seq(R) /\ Len(u) = Len(l) - 1
      /\ \A i \in 1..Len(u) : u[i] = IF i < k THEN l[i] ELSE l[i + 1]
  <2> DEFINE a == SubSeq(l, 1, k - 1)
             b == SubSeq(l, k + 1, Len(l))
  <2>1. u = a \o b
    BY DEF RemoveAt
  <2>2. a \in Seq(R) /\ Len(a) = k - 1 /\ \A i \in 1..(k - 1) : a[i] = l[i]
    BY <1>2
  <2>3. b \in Seq(R) /\ Len(b) = Len(l) - k
        /\ \A i \in 1..(Len(l) - k) : b[i] = l[k + i]
    BY <1>3
  <2> HIDE DEF a, b, u
  <2>4. /\ u \in Seq(R) /\ Len(u) = Len(a) + Len(b)
        /\ \A i \in 1..(Len(a) + Len(b)) :
              u[i] = IF i <= Len(a) THEN a[i] ELSE b[i - Len(a)]
    BY <2>1, <2>2, <2>3, ConcatProperties
  <2>5. ASSUME NEW i \in 1..Len(u)
        PROVE  u[i] = IF i < k THEN l[i] ELSE l[i + 1]
    <3>1. CASE i < k
      BY <1>1, <2>2, <2>3, <2>4, <3>1
    <3>2. CASE i >= k
      <4>1. i - (k - 1) \in 1..(Len(l) - k) /\ k + (i - (k - 1)) = i + 1
        BY <1>1, <2>2, <2>3, <2>4, <3>2
      <4>2. u[i] = b[i - (k - 1)]
        BY <1>1, <2>2, <2>3, <2>4, <3>2
      <4> QED
        BY <1>1, <2>3, <3>2, <4>1, <4>2
    <3> QED
      BY <1>1, <2>4, <3>1, <3>2
  <2> QED
    BY <1>1, <2>2, <2>3, <2>4, <2>5
<1>5. /\ CallsOf(l) = {l[i].call : i \in 1..Len(l)}
      /\ CallsOf(u) = {u[i].call : i \in 1..Len(u)}
  BY <1>1, <1>4, LenProperties DEF CallsOf
<1> HIDE DEF u
<1>6. ASSUME NEW i \in 1..Len(u)
      PROVE  \E j \in 1..Len(l) : j # k /\ u[i] = l[j] /\ j = (IF i < k THEN i ELSE i + 1)
  BY <1>1, <1>4
<1>7. ASSUME NEW j \in 1..Len(l), j # k
      PROVE  \E i \in 1..Len(u) : u[i] = l[j]
  <2>1. CASE j < k
    BY <1>1, <1>4, <2>1
  <2>2. CASE j > k
    <3>1. j - 1 \in 1..Len(u) /\ u[j - 1] = l[j]
      BY <1>1, <1>4, <2>2
    <3> QED
      BY <3>1
  <2> QED
    BY <1>7, <2>1, <2>2
<1>8. CallsOf(u) = CallsOf(l) \ {l[k].call}
  <2>1. CallsOf(u) \subseteq CallsOf(l) \ {l[k].call}
    BY <1>5, <1>6 DEF Once
  <2>2. ASSUME NEW c \in CallsOf(l), c # l[k].call
        PROVE  c \in CallsOf(u)
    BY <1>5, <1>7, <2>2
  <2> QED
    BY <1>5, <2>1, <2>2
<1>9. Once(u)
  <2> SUFFICES ASSUME NEW i \in 1..Len(u), NEW j \in 1..Len(u),
                      u[i].call = u[j].call
               PROVE  i = j
    BY DEF Once
  <2>1. PICK a \in 1..Len(l) : u[i] = l[a] /\ a = (IF i < k THEN i ELSE i + 1)
    BY <1>6
  <2>2. PICK b \in 1..Len(l) : u[j] = l[b] /\ b = (IF j < k THEN j ELSE j + 1)
    BY <1>6
  <2>3. a = b
    BY <2>1, <2>2 DEF Once
  <2> QED
    BY <1>4, <2>1, <2>2, <2>3
<1>10. ToSet(u) \subseteq ToSet(l)
  <2>1. DOMAIN u = 1..Len(u) /\ DOMAIN l = 1..Len(l)
    BY <1>4, LenProperties
  <2> QED
    BY <1>6, <2>1 DEF ToSet
<1> QED
  BY <1>4, <1>8, <1>9, <1>10 DEF u

LEMMA QueueNext ==
    ASSUME NEW S, NEW q \in Seq(S), IsInjective(q), q # <<>>
    PROVE  /\ Tail(q) \in Seq(S) /\ IsInjective(Tail(q)) /\ Head(q) \in ToSet(q)
           /\ ToSet(Tail(q)) = ToSet(q) \ {Head(q)}
<1>1. /\ Tail(q) \in Seq(S) /\ Len(Tail(q)) = Len(q) - 1 /\ Len(q) \in Nat /\ Len(q) > 0
      /\ \A i \in 1..Len(Tail(q)) : Tail(q)[i] = q[i + 1]
      /\ Head(q) = q[1] /\ DOMAIN q = 1..Len(q) /\ DOMAIN Tail(q) = 1..Len(Tail(q))
  OBVIOUS
<1>2. IsInjective(Tail(q))
  BY <1>1 DEF IsInjective
<1>3. Head(q) \in ToSet(q)
  BY <1>1 DEF ToSet
<1>4. ASSUME NEW x \in ToSet(Tail(q))
      PROVE  x \in ToSet(q) /\ x # Head(q)
  <2>1. PICK i \in 1..Len(Tail(q)) : x = Tail(q)[i]
    BY <1>1 DEF ToSet
  <2>2. i + 1 \in 1..Len(q) /\ i + 1 # 1 /\ x = q[i + 1]
    BY <1>1, <2>1
  <2> QED
    BY <1>1, <2>2 DEF ToSet, IsInjective
<1>5. ASSUME NEW x \in ToSet(q), x # Head(q)
      PROVE  x \in ToSet(Tail(q))
  <2>1. PICK i \in 1..Len(q) : x = q[i]
    BY <1>1 DEF ToSet
  <2>2. i - 1 \in 1..Len(Tail(q)) /\ x = Tail(q)[i - 1]
    BY <1>1, <1>5, <2>1
  <2> QED
    BY <1>1, <2>2 DEF ToSet
<1> QED
  BY <1>1, <1>2, <1>3, <1>4, <1>5

LEMMA QueueLast ==
    ASSUME NEW S, NEW q \in Seq(S), IsInjective(q), NEW x \in S, x \notin ToSet(q)
    PROVE  /\ Append(q, x) \in Seq(S) /\ IsInjective(Append(q, x))
           /\ ToSet(Append(q, x)) = ToSet(q) \union {x}
<1> DEFINE u == Append(q, x)
<1>1. /\ u \in Seq(S) /\ Len(u) = Len(q) + 1 /\ Len(q) \in Nat
      /\ \A i \in 1..Len(q) : u[i] = q[i]
      /\ u[Len(u)] = x /\ DOMAIN q = 1..Len(q) /\ DOMAIN u = 1..Len(u)
  OBVIOUS
<1> HIDE DEF u
<1>2. ASSUME NEW i \in 1..Len(u)
      PROVE  i = Len(u) \/ (i \in 1..Len(q) /\ u[i] = q[i] /\ u[i] # x)
  BY <1>1 DEF ToSet
<1>3. IsInjective(u)
  BY <1>1, <1>2 DEF IsInjective
<1>4. ToSet(u) \subseteq ToSet(q) \union {x}
  BY <1>1, <1>2 DEF ToSet
<1>5. ToSet(q) \subseteq ToSet(u) /\ x \in ToSet(u)
  <2>1. \A i \in 1..Len(q) : i \in 1..Len(u) /\ u[i] = q[i]
    BY <1>1
  <2>2. Len(u) \in 1..Len(u)
    BY <1>1
  <2> QED
    BY <1>1, <2>1, <2>2 DEF ToSet
<1> QED
  BY <1>1, <1>3, <1>4, <1>5 DEF u

-----------------------------------------------------------------------------
(* Where calls wait. *)

\* A call waits in one place at most: to be dispatched (i), for a verdict (s),
\* for a property's set function (p) or in an asynchronous method (w).  What has
\* an answer has come, has one, and waits nowhere.
Fine(i, s, p, w, n, a) ==
    /\ n \in 0..MaxCalls
    /\ i \intersect s = {} /\ i \intersect p = {} /\ i \intersect w = {}
    /\ s \intersect p = {} /\ s \intersect w = {} /\ p \intersect w = {}
    /\ i \union s \union p \union w \subseteq 1..n
    /\ a \in [Call -> Nat]
    /\ \A c \in Call : a[c] = 0 \/ (a[c] = 1 /\ c <= n
                                    /\ c \notin i \union s \union p \union w)

LEMMA Taken ==
    ASSUME NEW i, NEW s, NEW p, NEW w, NEW n, NEW a, Fine(i, s, p, w, n, a),
           NEW c, c \in i \/ c \in s \/ c \in p \/ c \in w
    PROVE  /\ c \in 1..n /\ c \in Call /\ a[c] = 0
           /\ Fine(i \ {c}, s \ {c}, p \ {c}, w \ {c}, n, a)
BY MethodAssumption DEF Fine, Call

\* A call that waits nowhere and has no answer
Idle(c, i, s, p, w, n, a) ==
    c \in 1..n /\ a[c] = 0 /\ c \notin i /\ c \notin s /\ c \notin p /\ c \notin w

LEMMA Answers ==
    ASSUME NEW i, NEW s, NEW p, NEW w, NEW n, NEW a, Fine(i, s, p, w, n, a),
           NEW c, Idle(c, i, s, p, w, n, a)
    PROVE  Fine(i, s, p, w, n, Answered(a, c))
<1>1. c \in Call /\ Answered(a, c)[c] = 1 /\ Answered(a, c) \in [Call -> Nat]
      /\ \A d \in Call : d # c => Answered(a, c)[d] = a[d]
  BY MethodAssumption DEF Fine, Answered, Call, Idle
<1> QED
  BY <1>1 DEF Fine, Idle

LEMMA Puts ==
    ASSUME NEW i, NEW s, NEW p, NEW w, NEW n, NEW a, Fine(i, s, p, w, n, a),
           NEW c, Idle(c, i, s, p, w, n, a), NEW x
    PROVE  /\ x = s \union {c} => Fine(i, x, p, w, n, a)
           /\ x = p \union {c} => Fine(i, s, x, w, n, a)
           /\ x = w \union {c} => Fine(i, s, p, x, n, a)
BY DEF Fine, Idle

Request == [pending : Nat, call : Call, user : Nat]
SetRequest == [id : Nat, call : Call]

AnswerInv ==
    /\ registration \in Nat /\ registrations \in Nat
    /\ nextPending \in Nat /\ nextProperty \in Nat
    /\ method \in Seq(Method)
    /\ inbox \in Seq(Call) /\ IsInjective(inbox)
    /\ security \in Seq(Request) /\ Once(security)
    /\ setting \in Seq(SetRequest) /\ Once(setting)
    /\ Fine(ToSet(inbox), CallsOf(security), CallsOf(setting), working,
            Len(method), answers)

\* process_message finds the call nowhere else, and answers it or lets it wait
\* in one place; if it returns NEED_MEMORY it has done neither.
LEMMA Processed ==
    ASSUME NEW i, NEW s, NEW c, NEW done \in BOOLEAN, ProcessMessage(c, done),
           nextProperty \in Nat, setting \in Seq(SetRequest), Once(setting),
           Fine(i, s, CallsOf(setting), working, Len(method), answers),
           c \in Call,
           Idle(c, i, s, CallsOf(setting), working, Len(method), answers)
    PROVE  /\ nextProperty' \in Nat /\ setting' \in Seq(SetRequest) /\ Once(setting')
           /\ Fine(i, s, CallsOf(setting'), working', Len(method), answers')
<1>1. CASE /\ answers' = Answered(answers, c)
           /\ UNCHANGED <<nextProperty, setting, working>>
  BY <1>1, Answers
<1>2. CASE /\ setting' = <<[id |-> nextProperty, call |-> c]>> \o setting
           /\ nextProperty' = nextProperty + 1
           /\ UNCHANGED <<working, answers>>
  <2> DEFINE r == [id |-> nextProperty, call |-> c]
  <2>1. r \in SetRequest /\ r.call = c
    BY DEF SetRequest
  <2>2. /\ <<r>> \o setting \in Seq(SetRequest) /\ Once(<<r>> \o setting)
        /\ CallsOf(<<r>> \o setting) = CallsOf(setting) \union {c}
    BY <2>1, ListPut DEF Idle
  <2>3. setting' = <<r>> \o setting
    BY <1>2
  <2> HIDE DEF r
  <2>4. /\ setting' \in Seq(SetRequest) /\ Once(setting')
        /\ CallsOf(setting') = CallsOf(setting) \union {c}
    BY <2>2, <2>3
  <2>5. Fine(i, s, CallsOf(setting'), working', Len(method), answers')
    BY <1>2, <2>4, Puts
  <2> QED
    BY <1>2, <2>4, <2>5
<1>3. CASE /\ working' = working \union {c}
           /\ UNCHANGED <<nextProperty, setting, answers>>
  BY <1>3, Puts
<1>4. CASE UNCHANGED <<nextProperty, setting, working, answers>>
  BY <1>4
<1> QED
  BY <1>1, <1>2, <1>3, <1>4 DEF ProcessMessage, PropertiesSet

-----------------------------------------------------------------------------
(* Steps. *)

LEMMA Arrival == AnswerInv /\ (\E m \in Method : CallArrives(m)) => AnswerInv'
<1> SUFFICES ASSUME AnswerInv, NEW m \in Method, CallArrives(m) PROVE AnswerInv'
  OBVIOUS
<1> DEFINE n == Len(method) + 1
<1>1. /\ method' \in Seq(Method) /\ Len(method') = n /\ n <= MaxCalls /\ n \in Nat
      /\ inbox' = Append(inbox, n)
  <2>1. method \in Seq(Method) /\ method' = Append(method, m) /\ Len(method) < MaxCalls
        /\ inbox' = Append(inbox, Len(method'))
    BY DEF CallArrives, AnswerInv
  <2>2. /\ method' \in Seq(Method) /\ Len(method') = Len(method) + 1
        /\ Len(method) \in Nat
    BY <2>1, AppendProperties, LenProperties
  <2> QED
    BY <2>1, <2>2, MethodAssumption
<1>2. n \in Call /\ n \notin ToSet(inbox)
  BY <1>1 DEF Call, AnswerInv, Fine
<1>3. /\ inbox' \in Seq(Call) /\ IsInjective(inbox')
      /\ ToSet(inbox') = ToSet(inbox) \union {n}
  BY <1>1, <1>2, QueueLast DEF AnswerInv
<1>4. UNCHANGED <<registration, registrations, nextPending, nextProperty, security,
                  setting, working, answers>>
  BY DEF CallArrives, host, lists, history
<1>5. Fine(ToSet(inbox'), CallsOf(security), CallsOf(setting), working, n, answers)
  <2>1. Fine(ToSet(inbox), CallsOf(security), CallsOf(setting), working,
             Len(method), answers)
    BY DEF AnswerInv
  <2>2. Len(method) \in Nat /\ MaxCalls \in Nat
    BY MethodAssumption, LenProperties DEF AnswerInv
  <2> DEFINE l == Len(method)
  <2>3. l \in Nat /\ n = l + 1 /\ n \in 0..MaxCalls /\ 1..l \subseteq 1..n /\ n \notin 1..l
    BY <1>1, <2>2
  <2>4. answers[n] = 0
    BY <1>2, <2>1, <2>3 DEF Fine
  <2>5. \A d \in Call : d <= l => d <= n /\ d # n
    BY <2>3 DEF Call
  <2> HIDE DEF n, l
  <2> QED
    BY <1>2, <1>3, <2>1, <2>3, <2>4, <2>5 DEF Fine, l
<1> QED
  BY <1>1, <1>3, <1>4, <1>5 DEF AnswerInv, Once

\* A verdict takes the request off the list, and what becomes of the call
\* begins with a call that waits nowhere.
LEMMA Verdict ==
    ASSUME AnswerInv, NEW k \in 1..Len(security),
           security' = RemoveAt(security, k)
    PROVE  LET c == security[k].call
           IN  /\ security' \in Seq(Request) /\ Once(security)'
               /\ c \in Call
               /\ Idle(c, ToSet(inbox), CallsOf(security'), CallsOf(setting), working,
                       Len(method), answers)
               /\ Fine(ToSet(inbox), CallsOf(security'), CallsOf(setting), working,
                       Len(method), answers)
<1> DEFINE c == security[k].call
<1>1. /\ security' \in Seq(Request) /\ Once(security')
      /\ CallsOf(security') = CallsOf(security) \ {c}
  BY ListRemove DEF AnswerInv
<1>2. c \in CallsOf(security)
  BY LenProperties DEF AnswerInv, CallsOf
<1>3. Fine(ToSet(inbox), CallsOf(security), CallsOf(setting), working,
           Len(method), answers)
  BY DEF AnswerInv
<1> HIDE DEF c
<1>4. /\ c \in 1..Len(method) /\ c \in Call /\ answers[c] = 0
      /\ Fine(ToSet(inbox) \ {c}, CallsOf(security) \ {c}, CallsOf(setting) \ {c},
              working \ {c}, Len(method), answers)
  BY <1>2, <1>3, Taken
<1>5. /\ ToSet(inbox) \ {c} = ToSet(inbox)
      /\ CallsOf(setting) \ {c} = CallsOf(setting)
      /\ working \ {c} = working
  BY <1>2, <1>3 DEF Fine
<1>6. c \notin ToSet(inbox) /\ c \notin CallsOf(setting) /\ c \notin working
  BY <1>2, <1>3 DEF Fine
<1> QED
  BY <1>1, <1>4, <1>5, <1>6 DEF Once, Idle, c

LEMMA Granted ==
    ASSUME AnswerInv, NEW n, PendingSuccess(n),
           UNCHANGED <<registration, registrations, nextPending, method, inbox>>
    PROVE  AnswerInv'
<1>1. PICK k \in 1..Len(security), done \in BOOLEAN :
          /\ security' = RemoveAt(security, k)
          /\ ProcessMessage(security[k].call, done)
  BY DEF PendingSuccess
<1> DEFINE c == security[k].call
<1>2. /\ nextProperty' \in Nat /\ setting' \in Seq(SetRequest) /\ Once(setting')
      /\ Fine(ToSet(inbox), CallsOf(security'), CallsOf(setting'), working',
              Len(method), answers')
  BY <1>1, Verdict, Processed DEF AnswerInv
<1>3. security' \in Seq(Request) /\ Once(security)'
  BY <1>1, Verdict
<1> QED
  BY <1>2, <1>3 DEF AnswerInv, Once

LEMMA Denied ==
    ASSUME AnswerInv, NEW n, PendingError(n),
           UNCHANGED <<registration, registrations, nextPending, method, inbox>>
    PROVE  AnswerInv'
<1>1. PICK k \in 1..Len(security) :
          /\ security' = RemoveAt(security, k)
          /\ answers' = Answered(answers, security[k].call)
          /\ UNCHANGED <<nextProperty, setting, working>>
  BY DEF PendingError
<1>2. Fine(ToSet(inbox), CallsOf(security'), CallsOf(setting), working,
           Len(method), answers')
  BY <1>1, Verdict, Answers
<1>3. security' \in Seq(Request) /\ Once(security)'
  BY <1>1, Verdict
<1> QED
  BY <1>1, <1>2, <1>3 DEF AnswerInv, Once

LEMMA LateAnswers ==
    ASSUME AnswerInv, NEW n, PropertyAnswered(n) \/ MethodReplies(n)
    PROVE  AnswerInv'
<1>0. UNCHANGED <<registration, registrations, nextPending, nextProperty, method,
                  inbox, security>>
  BY DEF PropertyAnswered, MethodReplies, host
<1>1. Fine(ToSet(inbox), CallsOf(security), CallsOf(setting), working,
           Len(method), answers)
  BY DEF AnswerInv
<1>2. CASE PropertyAnswered(n)
  <2>1. PICK k \in 1..Len(setting) :
            /\ setting' = RemoveAt(setting, k)
            /\ answers' = Answered(answers, setting[k].call)
            /\ UNCHANGED working
    BY <1>2 DEF PropertyAnswered
  <2> DEFINE c == setting[k].call
  <2>2. /\ setting' \in Seq(SetRequest) /\ Once(setting')
        /\ CallsOf(setting') = CallsOf(setting) \ {c}
    BY <2>1, ListRemove DEF AnswerInv
  <2>3. c \in CallsOf(setting)
    BY LenProperties DEF AnswerInv, CallsOf
  <2>4. answers' = Answered(answers, c)
    BY <2>1
  <2> HIDE DEF c
  <2>5. /\ c \in 1..Len(method) /\ c \in Call /\ answers[c] = 0
        /\ Fine(ToSet(inbox) \ {c}, CallsOf(security) \ {c}, CallsOf(setting) \ {c},
                working \ {c}, Len(method), answers)
    BY <1>1, <2>3, Taken
  <2>6. /\ ToSet(inbox) \ {c} = ToSet(inbox)
        /\ CallsOf(security) \ {c} = CallsOf(security)
        /\ working \ {c} = working
    BY <1>1, <2>3 DEF Fine
  <2>7. Idle(c, ToSet(inbox), CallsOf(security), CallsOf(setting'), working,
             Len(method), answers)
    BY <2>2, <2>5, <2>6 DEF Idle
  <2>8. Fine(ToSet(inbox), CallsOf(security), CallsOf(setting'), working,
             Len(method), answers')
    BY <2>2, <2>4, <2>5, <2>6, <2>7, Answers
  <2> QED
    BY <1>0, <2>1, <2>2, <2>8 DEF AnswerInv, Once
<1>3. CASE MethodReplies(n)
  <2>1. /\ n \in working /\ working' = working \ {n}
        /\ answers' = Answered(answers, n) /\ UNCHANGED setting
    BY <1>3 DEF MethodReplies
  <2>2. /\ n \in 1..Len(method) /\ n \in Call /\ answers[n] = 0
        /\ Fine(ToSet(inbox) \ {n}, CallsOf(security) \ {n}, CallsOf(setting) \ {n},
                working \ {n}, Len(method), answers)
    BY <1>1, <2>1, Taken
  <2>3. /\ ToSet(inbox) \ {n} = ToSet(inbox)
        /\ CallsOf(security) \ {n} = CallsOf(security)
        /\ CallsOf(setting) \ {n} = CallsOf(setting)
    BY <1>1, <2>1 DEF Fine
  <2>4. Fine(ToSet(inbox), CallsOf(security), CallsOf(setting), working',
             Len(method), answers')
    <3>1. Idle(n, ToSet(inbox), CallsOf(security), CallsOf(setting), working',
               Len(method), answers)
      BY <2>1, <2>2, <2>3 DEF Idle
    <3> QED
      BY <2>1, <2>2, <2>3, <3>1, Answers
  <2> QED
    BY <1>0, <2>1, <2>4 DEF AnswerInv, Once
<1> QED
  BY <1>2, <1>3

LEMMA Dispatch == AnswerInv /\ GenericMessage => AnswerInv'
<1> SUFFICES ASSUME AnswerInv, GenericMessage PROVE AnswerInv'
  OBVIOUS
<1> DEFINE c == Head(inbox)
<1>0. /\ inbox # <<>> /\ UNCHANGED <<registration, registrations, method>>
  BY DEF GenericMessage, host
<1>1. /\ Tail(inbox) \in Seq(Call) /\ IsInjective(Tail(inbox))
      /\ ToSet(Tail(inbox)) = ToSet(inbox) \ {c} /\ c \in ToSet(inbox)
  BY <1>0, QueueNext DEF AnswerInv
<1>2. Fine(ToSet(inbox), CallsOf(security), CallsOf(setting), working,
           Len(method), answers)
  BY DEF AnswerInv
<1> HIDE DEF c
<1>3. /\ ToSet(inbox) \ {c} = ToSet(Tail(inbox))
      /\ CallsOf(security) \ {c} = CallsOf(security)
      /\ CallsOf(setting) \ {c} = CallsOf(setting)
      /\ working \ {c} = working
  BY <1>1, <1>2 DEF Fine
<1>4. /\ c \in Call
      /\ Fine(ToSet(Tail(inbox)), CallsOf(security), CallsOf(setting), working,
              Len(method), answers)
      /\ Idle(c, ToSet(Tail(inbox)), CallsOf(security), CallsOf(setting), working,
              Len(method), answers)
  <2>1. /\ c \in 1..Len(method) /\ c \in Call /\ answers[c] = 0
        /\ Fine(ToSet(inbox) \ {c}, CallsOf(security) \ {c}, CallsOf(setting) \ {c},
                working \ {c}, Len(method), answers)
    BY <1>1, <1>2, Taken
  <2> QED
    BY <1>1, <1>3, <2>1 DEF Idle
<1>5. CASE NotYetHandled(c) /\ inbox' = Tail(inbox)
  <2>1. answers' = Answered(answers, c)
        /\ UNCHANGED <<nextPending, nextProperty, security, setting, working>>
    BY <1>5 DEF NotYetHandled, lists
  <2>2. Fine(ToSet(inbox'), CallsOf(security), CallsOf(setting), working,
             Len(method), answers')
    BY <1>4, <1>5, <2>1, Answers
  <2> QED
    BY <1>0, <1>1, <1>5, <2>1, <2>2 DEF AnswerInv, Once
<1>6. CASE CheckPrivilege(c) /\ inbox' = Tail(inbox)
  <2>1. nextPending' \in Nat /\ UNCHANGED <<nextProperty, setting, working>>
    BY <1>6 DEF CheckPrivilege, AnswerInv
  <2>2. CASE answers' = Answered(answers, c) /\ UNCHANGED security
    <3>1. Fine(ToSet(inbox'), CallsOf(security), CallsOf(setting), working,
               Len(method), answers')
      BY <1>4, <1>6, <2>2, Answers
    <3> QED
      BY <1>0, <1>1, <1>6, <2>1, <2>2, <3>1 DEF AnswerInv, Once
  <2>3. CASE /\ security' = <<[pending |-> nextPending, call |-> c,
                               user |-> registration]>> \o security
             /\ UNCHANGED answers
    <3> DEFINE r == [pending |-> nextPending, call |-> c, user |-> registration]
    <3>1. r \in Request /\ r.call = c
      BY <1>4 DEF Request, AnswerInv
    <3>2. security' = <<r>> \o security
      BY <2>3
    <3> HIDE DEF r
    <3>3. /\ security' \in Seq(Request) /\ Once(security')
          /\ CallsOf(security') = CallsOf(security) \union {c}
      BY <1>4, <3>1, <3>2, ListPut DEF AnswerInv, Idle
    <3>4. Fine(ToSet(inbox'), CallsOf(security'), CallsOf(setting), working,
               Len(method), answers)
      BY <1>4, <1>6, <3>3, Puts
    <3> QED
      BY <1>0, <1>1, <1>6, <2>1, <2>3, <3>3, <3>4 DEF AnswerInv, Once
  <2> QED
    BY <1>6, <2>2, <2>3 DEF CheckPrivilege
<1>7. ASSUME NEW done \in BOOLEAN, ProcessMessage(c, done),
             inbox' = (IF done THEN Tail(inbox) ELSE inbox),
             UNCHANGED <<nextPending, security>>
      PROVE  AnswerInv'
  <2>1. CASE done
    <3>1. /\ nextProperty' \in Nat /\ setting' \in Seq(SetRequest) /\ Once(setting')
          /\ Fine(ToSet(Tail(inbox)), CallsOf(security), CallsOf(setting'), working',
                  Len(method), answers')
      BY <1>4, <1>7, Processed DEF AnswerInv
    <3> QED
      BY <1>0, <1>1, <1>7, <2>1, <3>1 DEF AnswerInv, Once
  <2>2. CASE ~done
    <3>1. UNCHANGED <<nextProperty, setting, working, answers>>
      BY <1>7, <2>2 DEF ProcessMessage
    <3> QED
      BY <1>0, <1>7, <2>2, <3>1 DEF AnswerInv, Once
  <2> QED
    BY <1>7, <2>1, <2>2
<1> QED
  BY <1>5, <1>6, <1>7 DEF GenericMessage, c

LEMMA AnswerSteps == AnswerInv /\ [Next]_vars => AnswerInv'
<1> SUFFICES ASSUME AnswerInv, [Next]_vars PROVE AnswerInv'
  OBVIOUS
<1>1. CASE RegisterInterface \/ UnregisterInterface
  <2>1. /\ registration' \in Nat /\ registrations' \in Nat
        /\ UNCHANGED <<nextPending, nextProperty, method, inbox, security, setting,
                       working, answers>>
    BY <1>1 DEF RegisterInterface, UnregisterInterface, lists, history, AnswerInv
  <2> QED
    BY <2>1 DEF AnswerInv, Once
<1>2. CASE RegisterSecurity \/ UnregisterSecurity \/ UNCHANGED vars
  <2>1. UNCHANGED <<registration, registrations, nextPending, nextProperty, method,
                    inbox, security, setting, working, answers>>
    BY <1>2 DEF RegisterSecurity, UnregisterSecurity, lists, history, host, vars
  <2> QED
    BY <2>1 DEF AnswerInv, Once
<1>3. ASSUME NEW n \in Call, SecurityAnswers(n) \/ PolkitAnswers(n)
      PROVE  AnswerInv'
  <2>1. UNCHANGED <<registration, registrations, nextPending, method, inbox>>
    BY <1>3 DEF SecurityAnswers, PolkitAnswers, host
  <2>2. PendingSuccess(n) \/ PendingError(n)
    BY <1>3 DEF SecurityAnswers, PolkitAnswers
  <2> QED
    BY <2>1, <2>2, Granted, Denied
<1> QED
  BY <1>1, <1>2, <1>3, Arrival, Dispatch, LateAnswers DEF Next

LEMMA AnswerInit == Init => AnswerInv
<1> SUFFICES ASSUME Init PROVE AnswerInv
  OBVIOUS
<1>1. /\ ToSet(<<>>) = {} /\ CallsOf(<<>>) = {} /\ Once(<<>>) /\ IsInjective(<<>>)
      /\ Len(<<>>) = 0
  BY DEF ToSet, CallsOf, Once, IsInjective
<1>2. Fine({}, {}, {}, {}, 0, [c \in Call |-> 0])
  BY MethodAssumption DEF Fine
<1>3. Fine(ToSet(inbox), CallsOf(security), CallsOf(setting), working,
           Len(method), answers)
  BY <1>1, <1>2 DEF Init
<1> QED
  BY <1>1, <1>3, EmptySeq DEF Init, AnswerInv

\* However often, late or contradictory the verdicts on a call, or the answers
\* to its Set, are given: it is answered once at most.
THEOREM OnceCorrect == Spec => []AnsweredOnce
<1>1. AnswerInv => AnsweredOnce
  <2>1. ASSUME NEW i, NEW s, NEW p, NEW w, NEW n, NEW a, Fine(i, s, p, w, n, a)
        PROVE  \A c \in Call : a[c] <= 1
    BY <2>1 DEF Fine
  <2> QED
    BY <2>1 DEF AnswerInv, AnsweredOnce
<1> QED
  BY <1>1, AnswerInit, AnswerSteps, PTL DEF Spec

-----------------------------------------------------------------------------
(* Verdicts. *)

\* A request that waits is its own call's, which has no verdict yet; a call that
\* was not dispatched was not asked about.
VerdictInv ==
    /\ AnswerInv
    /\ asked \in Seq(Call) /\ nextPending = Len(asked) + 1
    /\ verdict \in [Call -> {"none", "open", "granted", "denied"}]
    /\ ran \in [Call -> Nat]
    /\ \A r \in ToSet(security) :
          /\ r.pending \in 1..Len(asked)
          /\ asked[r.pending] = r.call
          /\ verdict[r.call] = "open"
    /\ \A c \in Call :
          c \in ToSet(inbox) \/ c \notin 1..Len(method) => verdict[c] = "none"

\* A verdict on request n is one on the call whose entry it takes.
LEMMA VerdictOn ==
    ASSUME VerdictInv, NEW n, NEW v \in {"granted", "denied"},
           NEW k \in 1..Len(security), Entry(k, n),
           security' = RemoveAt(security, k), verdict' = Noted(n, v),
           UNCHANGED <<asked, nextPending, method, inbox>>,
           AnswerInv', ran' \in [Call -> Nat]
    PROVE  VerdictInv' /\ verdict'[security[k].call] = v
<1> DEFINE c == security[k].call
<1>1. /\ c \in Call /\ c \notin ToSet(inbox) /\ c \in 1..Len(method)
  BY Verdict DEF VerdictInv, Idle
<1>2. security[k] \in ToSet(security) /\ security[k].pending = n
  BY LenProperties DEF Entry, ToSet, VerdictInv, AnswerInv
<1>3. n \in 1..Len(asked) /\ asked[n] = c /\ verdict[c] = "open"
  BY <1>2 DEF VerdictInv
<1>4. ToSet(security') \subseteq ToSet(security)
      /\ CallsOf(security') = CallsOf(security) \ {c}
  BY ListRemove DEF VerdictInv, AnswerInv
<1>5. \A r \in ToSet(security') : r.call \in CallsOf(security')
  BY DEF ToSet, CallsOf
<1> HIDE DEF c
<1>6. verdict' = [verdict EXCEPT ![c] = v]
  BY <1>3, LenProperties DEF Noted, VerdictInv
<1>7. /\ verdict' \in [Call -> {"none", "open", "granted", "denied"}]
      /\ verdict'[c] = v
      /\ \A d \in Call : d # c => verdict'[d] = verdict[d]
  BY <1>1, <1>6 DEF VerdictInv
<1>8. ASSUME NEW r \in ToSet(security')
      PROVE  /\ r.pending \in 1..Len(asked)
             /\ asked[r.pending] = r.call
             /\ verdict'[r.call] = "open"
  <2>1. /\ r \in ToSet(security) /\ r.call # c
        /\ r.pending \in 1..Len(asked) /\ asked[r.pending] = r.call
        /\ verdict[r.call] = "open"
    BY <1>4, <1>5 DEF VerdictInv
  <2>2. r.call \in Call
    BY <2>1 DEF VerdictInv
  <2> QED
    BY <1>7, <2>1, <2>2
<1>9. \A d \in Call : d \in ToSet(inbox') \/ d \notin 1..Len(method')
                        => verdict'[d] = "none"
  BY <1>1, <1>7 DEF VerdictInv
<1>10. asked' \in Seq(Call) /\ nextPending' = Len(asked') + 1
  BY DEF VerdictInv
<1> QED
  BY <1>7, <1>8, <1>9, <1>10 DEF VerdictInv, c

LEMMA Ran ==
    ASSUME NEW c \in Call, NEW done, ProcessMessage(c, done), ran \in [Call -> Nat]
    PROVE  /\ ran' \in [Call -> Nat] /\ ran'[c] <= ran[c] + 1
           /\ \A d \in Call : d # c => ran'[d] = ran[d]
<1>1. PICK m : ran' = [ran EXCEPT ![c] = Min({@ + 1, m})] /\ m = MaxRuns
  BY DEF ProcessMessage
<1>2. ASSUME NEW a \in Nat, NEW b \in Nat
      PROVE  Min({a, b}) \in Nat /\ Min({a, b}) <= a
  BY <1>2 DEF Min
<1>3. Min({ran[c] + 1, MaxRuns}) \in Nat /\ Min({ran[c] + 1, MaxRuns}) <= ran[c] + 1
  BY <1>2, MethodAssumption
<1> QED
  BY <1>1, <1>3

LEMMA VerdictSteps ==
    VerdictInv /\ [Next]_vars =>
        /\ VerdictInv'
        /\ \A c \in Call : ran'[c] # ran[c] => verdict'[c] \in {"none", "granted"}
<1> SUFFICES ASSUME VerdictInv, [Next]_vars
             PROVE  /\ VerdictInv'
                    /\ \A c \in Call : ran'[c] # ran[c]
                                         => verdict'[c] \in {"none", "granted"}
  OBVIOUS
<1>1. AnswerInv'
  BY AnswerSteps DEF VerdictInv
<1>2. ASSUME UNCHANGED <<security, asked, nextPending, verdict, ran, method, inbox>>
      PROVE  VerdictInv'
  BY <1>1, <1>2 DEF VerdictInv
<1>3. CASE \/ RegisterInterface \/ UnregisterInterface \/ RegisterSecurity
           \/ UnregisterSecurity \/ UNCHANGED vars
           \/ \E n \in Call : PropertyAnswered(n) \/ MethodReplies(n)
  <2>1. UNCHANGED <<security, asked, nextPending, verdict, ran, method, inbox>>
    BY <1>3 DEF RegisterInterface, UnregisterInterface, RegisterSecurity,
          UnregisterSecurity, PropertyAnswered, MethodReplies, lists, history, vars
  <2> QED
    BY <1>2, <2>1
<1>4. CASE \E m \in Method : CallArrives(m)
  <2> PICK m \in Method : CallArrives(m)
    BY <1>4
  <2>1. UNCHANGED <<security, asked, nextPending, verdict, ran>>
    BY DEF CallArrives, lists, history
  <2>2. /\ method' = Append(method, m) /\ inbox' = Append(inbox, Len(method'))
        /\ method \in Seq(Method) /\ inbox \in Seq(Call) /\ inbox' \in Seq(Call)
    BY <1>1 DEF CallArrives, VerdictInv, AnswerInv
  <2>3. Len(method') = Len(method) + 1 /\ Len(method) \in Nat
    BY <2>2, AppendProperties, LenProperties
  <2>4. ToSet(inbox') \subseteq ToSet(inbox) \union {Len(method')}
    <3>1. /\ DOMAIN inbox = 1..Len(inbox) /\ DOMAIN inbox' = 1..(Len(inbox) + 1)
          /\ \A i \in 1..Len(inbox) : inbox'[i] = inbox[i]
          /\ inbox'[Len(inbox) + 1] = Len(method') /\ Len(inbox) \in Nat
      BY <2>2
    <3> QED
      BY <3>1 DEF ToSet
  <2>5. \A c \in Call : c \in ToSet(inbox') \/ c \notin 1..Len(method')
                          => verdict[c] = "none"
    BY <2>3, <2>4 DEF VerdictInv
  <2> QED
    BY <1>1, <2>1, <2>5 DEF VerdictInv
<1>5. ASSUME NEW n \in Call, SecurityAnswers(n) \/ PolkitAnswers(n)
      PROVE  /\ VerdictInv'
             /\ \A c \in Call : ran'[c] # ran[c] => verdict'[c] = "granted"
  <2>1. UNCHANGED <<asked, nextPending, method, inbox>>
    BY <1>5 DEF SecurityAnswers, PolkitAnswers
  <2>2. CASE PendingSuccess(n)
    <3>1. PICK k \in 1..Len(security), done \in BOOLEAN :
              /\ Entry(k, n) /\ security' = RemoveAt(security, k)
              /\ verdict' = Noted(n, "granted")
              /\ ProcessMessage(security[k].call, done)
      BY <2>2 DEF PendingSuccess
    <3> DEFINE c == security[k].call
    <3>2. c \in Call
      BY <3>1, Verdict DEF VerdictInv
    <3>3. ran' \in [Call -> Nat] /\ \A d \in Call : d # c => ran'[d] = ran[d]
      BY <3>1, <3>2, Ran DEF VerdictInv
    <3>4. VerdictInv' /\ verdict'[c] = "granted"
      BY <1>1, <2>1, <3>1, <3>3, VerdictOn
    <3> QED
      BY <3>3, <3>4
  <2>3. CASE PendingError(n)
    <3>1. PICK k \in 1..Len(security) :
              /\ Entry(k, n) /\ security' = RemoveAt(security, k)
              /\ verdict' = Noted(n, "denied") /\ UNCHANGED ran
      BY <2>3 DEF PendingError
    <3>2. ran' \in [Call -> Nat]
      BY <3>1 DEF VerdictInv
    <3> QED
      BY <1>1, <2>1, <3>1, <3>2, VerdictOn
  <2> QED
    BY <1>5, <2>2, <2>3 DEF SecurityAnswers, PolkitAnswers
<1>6. CASE GenericMessage
  <2> DEFINE c == Head(inbox)
  <2>1. /\ ToSet(Tail(inbox)) = ToSet(inbox) \ {c} /\ c \in ToSet(inbox)
        /\ UNCHANGED method
    BY <1>6, QueueNext DEF GenericMessage, VerdictInv, AnswerInv
  <2>2. /\ c \in Call /\ c \notin CallsOf(security) /\ c \in 1..Len(method)
        /\ verdict[c] = "none"
    <3>1. Fine(ToSet(inbox), CallsOf(security), CallsOf(setting), working,
               Len(method), answers)
      BY DEF VerdictInv, AnswerInv
    <3>2. c \in Call /\ c \in 1..Len(method) /\ c \notin CallsOf(security)
      BY <2>1, <3>1, MethodAssumption DEF Fine, Call
    <3> QED
      BY <2>1, <3>2 DEF VerdictInv
  <2>3. ToSet(inbox') \subseteq ToSet(inbox)
    BY <1>6, <2>1 DEF GenericMessage
  <2> HIDE DEF c
  <2>4. CASE NotYetHandled(c)
    <3>1. UNCHANGED <<security, asked, nextPending, verdict, ran>>
      BY <2>4 DEF NotYetHandled, lists
    <3> QED
      BY <1>1, <2>1, <2>3, <3>1 DEF VerdictInv
  <2>5. CASE CheckPrivilege(c) /\ inbox' = Tail(inbox)
    <3>1. /\ nextPending' = nextPending + 1 /\ asked' = Append(asked, c)
          /\ UNCHANGED ran
      BY <2>5 DEF CheckPrivilege
    <3>2. /\ asked' \in Seq(Call) /\ Len(asked') = Len(asked) + 1 /\ Len(asked) \in Nat
          /\ \A i \in 1..Len(asked) : asked'[i] = asked[i]
          /\ asked'[Len(asked) + 1] = c
      BY <2>2, <3>1, AppendProperties, LenProperties DEF VerdictInv
    <3>3. PICK v \in {"open", "denied"} :
              /\ verdict' = [verdict EXCEPT ![c] = v]
              /\ \/ v = "open" /\ security' = <<[pending |-> nextPending, call |-> c,
                                        user |-> registration]>> \o security
                 \/ UNCHANGED security
      BY <2>5 DEF CheckPrivilege
    <3>4. /\ verdict' \in [Call -> {"none", "open", "granted", "denied"}]
          /\ verdict'[c] = v /\ \A d \in Call : d # c => verdict'[d] = verdict[d]
      BY <2>2, <3>3 DEF VerdictInv
    <3> DEFINE q == [pending |-> nextPending, call |-> c, user |-> registration]
    <3>5. ASSUME NEW r \in ToSet(security)
          PROVE  /\ r.pending \in 1..Len(asked') /\ asked'[r.pending] = r.call
                 /\ verdict'[r.call] = "open"
      <4>1. /\ r.pending \in 1..Len(asked) /\ asked[r.pending] = r.call
            /\ verdict[r.call] = "open" /\ r.call \in CallsOf(security)
        BY DEF VerdictInv, ToSet, CallsOf
      <4>2. r.call \in Call /\ r.call # c
        BY <2>2, <4>1 DEF VerdictInv
      <4> QED
        BY <3>2, <3>4, <4>1, <4>2
    <3>6. /\ q.pending \in 1..Len(asked') /\ asked'[q.pending] = q.call /\ q.call = c
      BY <3>2 DEF VerdictInv
    <3>7. \/ ToSet(security') \subseteq ToSet(security) \union {q} /\ v = "open"
          \/ ToSet(security') = ToSet(security)
      <4>1. CASE v = "open" /\ security' = <<q>> \o security
        <5>1. q \in Request /\ q.call = c
          BY <2>2 DEF Request, VerdictInv, AnswerInv
        <5> HIDE DEF q
        <5>2. ToSet(<<q>> \o security) \subseteq ToSet(security) \union {q}
          BY <2>2, <5>1, ListPut DEF VerdictInv, AnswerInv
        <5> QED
          BY <4>1, <5>2
      <4> QED
        BY <3>3, <4>1
    <3> HIDE DEF q
    <3>8. \A r \in ToSet(security') :
              /\ r.pending \in 1..Len(asked') /\ asked'[r.pending] = r.call
              /\ verdict'[r.call] = "open"
      BY <3>4, <3>5, <3>6, <3>7
    <3>9. \A d \in Call : d \in ToSet(inbox') \/ d \notin 1..Len(method')
                            => verdict'[d] = "none"
      BY <2>1, <2>2, <2>5, <3>4 DEF VerdictInv
    <3>10. nextPending' = Len(asked') + 1
      BY <3>1, <3>2 DEF VerdictInv
    <3> QED
      BY <1>1, <3>1, <3>2, <3>4, <3>8, <3>9, <3>10 DEF VerdictInv
  <2>6. ASSUME NEW done, ProcessMessage(c, done),
               UNCHANGED <<nextPending, security, asked, verdict>>
        PROVE  /\ VerdictInv'
               /\ \A d \in Call : ran'[d] # ran[d] => verdict'[d] = "none"
    <3>1. ran' \in [Call -> Nat] /\ \A d \in Call : d # c => ran'[d] = ran[d]
      BY <2>2, <2>6, Ran DEF VerdictInv
    <3> QED
      BY <1>1, <2>1, <2>2, <2>3, <2>6, <3>1 DEF VerdictInv
  <2> QED
    BY <1>6, <2>4, <2>5, <2>6 DEF GenericMessage, c
<1> QED
  BY <1>3, <1>4, <1>5, <1>6 DEF Next

LEMMA VerdictInit == Init => VerdictInv
<1> SUFFICES ASSUME Init PROVE VerdictInv
  OBVIOUS
<1>1. AnswerInv
  BY AnswerInit
<1>2. ToSet(<<>>) = {} /\ Len(<<>>) = 0
  BY DEF ToSet
<1> QED
  BY <1>1, <1>2, EmptySeq DEF Init, VerdictInv

\* The first verdict on the call itself counts, whatever verdicts come on others:
\* a function runs only if it was granted, or if no check was asked for.
THEOREM GrantCorrect == Spec => RunsIfGranted
<1> QED
  BY VerdictInit, VerdictSteps, PTL DEF Spec, RunsIfGranted

-----------------------------------------------------------------------------
(* User data. *)

\* A request holds the data of the interface as it is, if the service lets no
\* interface go while it waits; and a call that can still run has not run.
LiveInv ==
    /\ VerdictInv
    /\ observed = Rule =>
          /\ fault = "none"
          /\ \A r \in ToSet(security) : r.user = registration /\ registration # 0
          /\ \A c \in Call :
                /\ ran[c] <= 1
                /\ c \in ToSet(inbox) \/ c \in CallsOf(security)
                                      \/ c \notin 1..Len(method) => ran[c] = 0

LEMMA LiveSteps == LiveInv /\ [Next]_vars => LiveInv'
<1> SUFFICES ASSUME LiveInv, [Next]_vars, observed' = Rule PROVE LiveInv'
  BY VerdictSteps DEF LiveInv
<1>1. VerdictInv'
  BY VerdictSteps DEF LiveInv
<1>2. observed = Rule
  BY DEF Next, CallArrives, RegisterInterface, UnregisterInterface, RegisterSecurity,
         UnregisterSecurity, GenericMessage, SecurityAnswers, PolkitAnswers,
         PropertyAnswered, MethodReplies, vars
<1>3. ASSUME UNCHANGED <<fault, security, registration, ran, inbox, method>>
      PROVE  LiveInv'
  BY <1>1, <1>2, <1>3 DEF LiveInv, CallsOf
<1>4. CASE \/ RegisterSecurity \/ UnregisterSecurity \/ UNCHANGED vars
           \/ \E n \in Call : PropertyAnswered(n) \/ MethodReplies(n)
  <2>1. UNCHANGED <<fault, security, registration, ran, inbox, method>>
    BY <1>4 DEF RegisterSecurity, UnregisterSecurity, PropertyAnswered, MethodReplies,
          host, lists, history, vars
  <2> QED
    BY <1>3, <2>1
<1>5. CASE RegisterInterface \/ UnregisterInterface
  <2>1. UNCHANGED <<fault, security, ran, inbox, method>>
    BY <1>5 DEF RegisterInterface, UnregisterInterface, lists, history
  <2>2. ToSet(security) = {}
    <3>1. CASE RegisterInterface
      BY <1>2, <3>1 DEF RegisterInterface, LiveInv
    <3>2. CASE UnregisterInterface
      <4>1. \A c \in Call : verdict[c] # "open"
        BY <1>2, <3>2 DEF UnregisterInterface, Rule
      <4>2. \A r \in ToSet(security) : r.call \in Call
        <5>1. \A i \in DOMAIN security : security[i].call \in Call
          <6>1. security \in Seq(Request)
            BY DEF LiveInv, VerdictInv, AnswerInv
          <6>2. ASSUME NEW i \in DOMAIN security
                PROVE  security[i] \in Request
            BY <6>1, LenProperties, ElementOfSeq
          <6> QED
            BY <6>2 DEF Request
        <5> QED
          BY <5>1 DEF ToSet
      <4> QED
        BY <4>1, <4>2 DEF LiveInv, VerdictInv
    <3> QED
      BY <1>5, <3>1, <3>2
  <2> QED
    BY <1>1, <1>2, <2>1, <2>2 DEF LiveInv, CallsOf
<1>6. CASE \E m \in Method : CallArrives(m)
  <2> PICK m \in Method : CallArrives(m)
    BY <1>6
  <2>1. UNCHANGED <<fault, security, registration, ran>>
    BY DEF CallArrives, host, lists, history
  <2>2. \A c \in Call : c \in ToSet(inbox') \/ c \notin 1..Len(method')
                          => c \notin 1..Len(method) \/ c \in ToSet(inbox)
    <3>1. /\ method \in Seq(Method) /\ inbox \in Seq(Call)
          /\ method' = Append(method, m) /\ inbox' = Append(inbox, Len(method'))
      BY DEF CallArrives, LiveInv, VerdictInv, AnswerInv
    <3>2. Len(method') = Len(method) + 1 /\ Len(method) \in Nat
      BY <3>1, AppendProperties, LenProperties
    <3>3. ToSet(inbox') \subseteq ToSet(inbox) \union {Len(method')}
      <4>1. inbox' \in Seq(Call)
        BY <1>1 DEF VerdictInv, AnswerInv
      <4>2. /\ DOMAIN inbox = 1..Len(inbox) /\ DOMAIN inbox' = 1..(Len(inbox) + 1)
            /\ \A i \in 1..Len(inbox) : inbox'[i] = inbox[i]
            /\ inbox'[Len(inbox) + 1] = Len(method') /\ Len(inbox) \in Nat
        BY <3>1, <4>1
      <4> QED
        BY <4>2 DEF ToSet
    <3> QED
      BY <3>2, <3>3
  <2> QED
    BY <1>1, <1>2, <2>1, <2>2 DEF LiveInv, CallsOf
<1>7. ASSUME NEW n \in Call, SecurityAnswers(n) \/ PolkitAnswers(n)
      PROVE  LiveInv'
  <2>1. UNCHANGED <<registration, method, inbox>>
    BY <1>7 DEF SecurityAnswers, PolkitAnswers, host
  <2>2. PICK k \in 1..Len(security), done \in BOOLEAN :
            /\ security' = RemoveAt(security, k)
            /\ \/ /\ ProcessMessage(security[k].call, done)
                  /\ fault' = IF security[k].user = registration THEN fault
                              ELSE "freedUserData"
               \/ UNCHANGED <<ran, fault>>
    BY <1>7 DEF SecurityAnswers, PolkitAnswers, PendingSuccess, PendingError
  <2> DEFINE c == security[k].call
  <2>3. /\ c \in Call /\ c \notin ToSet(inbox) /\ c \in 1..Len(method)
    BY <2>2, Verdict DEF LiveInv, VerdictInv, Idle
  <2>4. /\ ToSet(security') \subseteq ToSet(security)
        /\ CallsOf(security') = CallsOf(security) \ {c}
    BY <2>2, ListRemove DEF LiveInv, VerdictInv, AnswerInv
  <2>5. security[k] \in ToSet(security) /\ c \in CallsOf(security)
    BY LenProperties DEF ToSet, CallsOf, LiveInv, VerdictInv, AnswerInv
  <2>6. fault' = "none"
    BY <1>2, <2>2, <2>5 DEF LiveInv
  <2>7. ran' \in [Call -> Nat] /\ ran'[c] <= 1
        /\ \A d \in Call : d # c => ran'[d] = ran[d]
    <3>1. ran[c] = 0 /\ ran \in [Call -> Nat]
      BY <1>2, <2>3, <2>5 DEF LiveInv, VerdictInv
    <3>2. CASE ProcessMessage(c, done)
      BY <2>3, <3>1, <3>2, Ran
    <3>3. CASE UNCHANGED ran
      BY <2>3, <3>1, <3>3
    <3> QED
      BY <2>2, <3>2, <3>3
  <2> HIDE DEF c
  <2> QED
    BY <1>1, <1>2, <2>1, <2>3, <2>4, <2>6, <2>7 DEF LiveInv
<1>8. CASE GenericMessage
  <2> DEFINE c == Head(inbox)
  <2>1. /\ ToSet(Tail(inbox)) = ToSet(inbox) \ {c} /\ c \in ToSet(inbox)
        /\ UNCHANGED <<method, registration, fault>>
    BY <1>8, QueueNext DEF GenericMessage, LiveInv, VerdictInv, AnswerInv, host
  <2>2. c \in Call /\ c \notin CallsOf(security) /\ c \in 1..Len(method) /\ ran[c] = 0
    <3>1. Fine(ToSet(inbox), CallsOf(security), CallsOf(setting), working,
               Len(method), answers)
      BY DEF LiveInv, VerdictInv, AnswerInv
    <3>2. c \in Call /\ c \in 1..Len(method) /\ c \notin CallsOf(security)
      BY <2>1, <3>1, MethodAssumption DEF Fine, Call
    <3> QED
      BY <1>2, <2>1, <3>2 DEF LiveInv
  <2>3. ToSet(inbox') \subseteq ToSet(inbox)
    BY <1>8, <2>1 DEF GenericMessage
  <2> HIDE DEF c
  <2>4. CASE NotYetHandled(c)
    <3>1. UNCHANGED <<security, ran>>
      BY <2>4 DEF NotYetHandled, lists
    <3> QED
      BY <1>1, <1>2, <2>1, <2>3, <3>1 DEF LiveInv, CallsOf
  <2>5. CASE CheckPrivilege(c) /\ registration # 0
    <3> DEFINE q == [pending |-> nextPending, call |-> c, user |-> registration]
    <3>1. UNCHANGED ran /\ (UNCHANGED security \/ security' = <<q>> \o security)
      BY <2>5 DEF CheckPrivilege
    <3>2. q \in Request /\ q.call = c /\ q.user = registration
      BY <2>2 DEF Request, LiveInv, VerdictInv, AnswerInv
    <3> HIDE DEF q
    <3>3. /\ ToSet(security') \subseteq ToSet(security) \union {q}
          /\ CallsOf(security') \subseteq CallsOf(security) \union {c}
      <4>1. CASE security' = <<q>> \o security
        BY <2>2, <3>2, <4>1, ListPut DEF LiveInv, VerdictInv, AnswerInv
      <4>2. CASE UNCHANGED security
        BY <4>2 DEF CallsOf
      <4> QED
        BY <3>1, <4>1, <4>2
    <3> QED
      BY <1>1, <1>2, <2>1, <2>2, <2>3, <2>5, <3>1, <3>2, <3>3 DEF LiveInv
  <2>6. ASSUME NEW done \in BOOLEAN, ProcessMessage(c, done),
               inbox' = (IF done THEN Tail(inbox) ELSE inbox), UNCHANGED security
        PROVE  LiveInv'
    <3>1. done
      BY <1>2, <2>6 DEF ProcessMessage, Rule
    <3>2. c \notin ToSet(inbox') /\ CallsOf(security') = CallsOf(security)
      BY <2>1, <2>6, <3>1 DEF CallsOf
    <3>3. ran' \in [Call -> Nat] /\ ran'[c] <= 1
          /\ \A d \in Call : d # c => ran'[d] = ran[d]
      BY <2>2, <2>6, Ran DEF LiveInv, VerdictInv
    <3> QED
      BY <1>1, <1>2, <2>1, <2>2, <2>3, <2>6, <3>2, <3>3 DEF LiveInv
  <2> QED
    BY <1>8, <2>4, <2>5, <2>6 DEF GenericMessage, c
<1> QED
  BY <1>4, <1>5, <1>6, <1>7, <1>8 DEF Next

\* With a service that observes the rules, functions run with the data of the
\* interface as it is, and once at most.
THEOREM LiveCorrect == Spec => []RunsOnLiveData
<1>1. Init => LiveInv
  <2> SUFFICES ASSUME Init PROVE LiveInv
    OBVIOUS
  <2>1. VerdictInv
    BY VerdictInit
  <2>2. ToSet(<<>>) = {} /\ CallsOf(<<>>) = {}
    BY DEF ToSet, CallsOf
  <2> QED
    BY <2>1, <2>2 DEF Init, LiveInv
<1>2. LiveInv => RunsOnLiveData
  BY DEF LiveInv, RunsOnLiveData
<1> QED
  BY <1>1, <1>2, LiveSteps, PTL DEF Spec
-----------------------------------------------------------------------------
(* The types. *)

\* What was dispatched, and what needs no verdict any more either
Passed == 1..Len(method) \ ToSet(inbox)
Done == Passed \ CallsOf(security)

\* What TypeOK says of numbers needs what they are given for: each request is made
\* for another call that was dispatched, each Set for another call that is done with,
\* and there are no more of these than calls.
TypeInv ==
    /\ VerdictInv
    /\ observed \in Observances
    /\ registrations \in 0..MaxRegistrations /\ registration \in {0, registrations}
    /\ table \in BOOLEAN /\ tables \in 0..MaxTables
    /\ \A r \in ToSet(security) : r.user \in 1..MaxRegistrations
    /\ polkit \subseteq 1..Len(asked)
    /\ \A r \in ToSet(setting) : r.id \in 1..(nextProperty - 1)
    /\ nextProperty > 0
    /\ \A i \in 1..Len(asked) : asked[i] \in 1..Len(method)
    /\ ran \in [Call -> 0..MaxRuns]
    /\ fault \in {"none", "freedUserData"}
    /\ Len(asked) <= Cardinality(Passed)
    /\ nextProperty - 1 <= Cardinality(Done)

\* Sets of calls, and how they grow
LEMMA CountCalls ==
    ASSUME NEW B \in SUBSET Call
    PROVE  /\ IsFiniteSet(B) /\ Cardinality(B) \in Nat /\ Cardinality(B) <= MaxCalls
           /\ \A A \in SUBSET B : Cardinality(A) \in Nat /\ Cardinality(A) <= Cardinality(B)
           /\ \A A \in SUBSET B : \A c \in B \ A : Cardinality(A) + 1 <= Cardinality(B)
<1>1. /\ IsFiniteSet(Call) /\ Cardinality(Call) = MaxCalls
  <2>1. MaxCalls \in Nat /\ 1 \in Int /\ MaxCalls \in Int
    BY MethodAssumption
  <2>2. IsFiniteSet(1..MaxCalls)
        /\ Cardinality(1..MaxCalls) = IF 1 > MaxCalls THEN 0 ELSE MaxCalls - 1 + 1
    BY <2>1, FS_Interval
  <2> QED
    BY <2>1, <2>2 DEF Call
<1>2. IsFiniteSet(B) /\ Cardinality(B) \in Nat /\ Cardinality(B) <= MaxCalls
  BY <1>1, FS_Subset, FS_CardinalityType
<1>3. ASSUME NEW A \in SUBSET B
      PROVE  IsFiniteSet(A) /\ Cardinality(A) \in Nat /\ Cardinality(A) <= Cardinality(B)
  BY <1>2, FS_Subset, FS_CardinalityType
<1>4. ASSUME NEW A \in SUBSET B, NEW c \in B \ A
      PROVE  Cardinality(A) + 1 <= Cardinality(B)
  <2>1. Cardinality(A \union {c}) = Cardinality(A) + 1
    BY <1>3, FS_AddElement
  <2>2. A \union {c} \in SUBSET B
    OBVIOUS
  <2> QED
    BY <1>2, <2>1, <2>2, FS_Subset
<1> QED
  BY <1>2, <1>3, <1>4

\* A list that has no call twice is as long as it has calls.
LEMMA OnceCounts ==
    ASSUME NEW R, NEW l \in Seq(R), Once(l)
    PROVE  Len(l) = Cardinality(CallsOf(l))
<1> DEFINE f == [i \in 1..Len(l) |-> l[i].call]
<1>1. Len(l) \in Nat /\ DOMAIN l = 1..Len(l)
  BY LenProperties
<1>2. f \in Bijection(1..Len(l), CallsOf(l))
  BY <1>1 DEF Bijection, Injection, Surjection, IsInjective, CallsOf, Once
<1>3. ExistsBijection(1..Len(l), CallsOf(l))
  BY <1>2 DEF ExistsBijection
<1> QED
  BY <1>1, <1>3, FS_CountingElements

LEMMA Places ==
    ASSUME AnswerInv
    PROVE  /\ Len(method) \in 0..MaxCalls /\ Passed \subseteq Call /\ Done \subseteq Call
           /\ ToSet(inbox) \subseteq 1..Len(method) /\ working \subseteq 1..Len(method)
<1>1. Fine(ToSet(inbox), CallsOf(security), CallsOf(setting), working, Len(method), answers)
  BY DEF AnswerInv
<1>2. /\ Len(method) \in 0..MaxCalls
      /\ ToSet(inbox) \subseteq 1..Len(method) /\ working \subseteq 1..Len(method)
  BY <1>1 DEF Fine
<1>3. 1..Len(method) \subseteq Call
  BY <1>2, MethodAssumption DEF Call
<1> QED
  BY <1>2, <1>3 DEF Passed, Done

LEMMA TypesHold == TypeInv => TypeOK
<1> SUFFICES ASSUME TypeInv PROVE TypeOK
  OBVIOUS
<1>1. VerdictInv /\ AnswerInv
  BY DEF TypeInv, VerdictInv
<1>2. /\ Len(method) \in 0..MaxCalls /\ Passed \subseteq Call /\ Done \subseteq Call
      /\ ToSet(inbox) \subseteq 1..Len(method) /\ working \subseteq 1..Len(method)
  BY <1>1, Places
<1>3. method \in Seq(Method) /\ DOMAIN method = 1..Len(method) /\ MaxCalls \in Nat
  BY <1>1, LenProperties, MethodAssumption DEF AnswerInv
<1>4. nextPending \in 1..(MaxCalls + 1) /\ nextPending - 1 = Len(asked)
      /\ nextProperty \in 1..(MaxCalls + 1)
  <2>1. /\ nextPending = Len(asked) + 1 /\ Len(asked) \in Nat
        /\ nextProperty \in Nat /\ nextProperty > 0
        /\ Len(asked) <= Cardinality(Passed) /\ nextProperty - 1 <= Cardinality(Done)
    BY <1>1, LenProperties DEF TypeInv, VerdictInv, AnswerInv
  <2>2. /\ Cardinality(Passed) \in Nat /\ Cardinality(Passed) <= MaxCalls
        /\ Cardinality(Done) \in Nat /\ Cardinality(Done) <= MaxCalls
    BY <1>2, CountCalls
  <2> QED
    BY <1>3, <2>1, <2>2
<1>5. inbox \in Seq(DOMAIN method) /\ IsInjective(inbox)
  <2>1. inbox \in Seq(Call) /\ IsInjective(inbox) /\ DOMAIN inbox = 1..Len(inbox)
        /\ Len(inbox) \in Nat
    BY <1>1, LenProperties DEF AnswerInv
  <2>2. \A i \in 1..Len(inbox) : inbox[i] \in DOMAIN method
    BY <1>2, <1>3, <2>1 DEF ToSet
  <2> QED
    BY <2>1, <2>2
<1>6. security \in Seq(SecurityData) /\ Pendings(security) \subseteq 1..(nextPending - 1)
  <2>1. security \in Seq(Request) /\ DOMAIN security = 1..Len(security)
        /\ Len(security) \in Nat
    BY <1>1, LenProperties DEF AnswerInv
  <2>2. ASSUME NEW i \in 1..Len(security)
        PROVE  security[i].pending \in 1..(nextPending - 1) /\ security[i] \in SecurityData
    <3>1. security[i] \in ToSet(security) /\ security[i] \in Request
      BY <2>1 DEF ToSet
    <3>2. security[i].pending \in 1..Len(asked) /\ security[i].user \in 1..MaxRegistrations
      BY <1>1, <3>1 DEF TypeInv, VerdictInv
    <3>3. security[i].pending \in Call
      BY <1>3, <1>4, <3>2 DEF Call
    <3> QED
      BY <1>4, <3>1, <3>2, <3>3 DEF Request, SecurityData
  <2> QED
    BY <2>1, <2>2 DEF Pendings
<1>7. setting \in Seq(PropertyData) /\ Ids(setting) \subseteq 1..(nextProperty - 1)
  <2>1. setting \in Seq(SetRequest) /\ DOMAIN setting = 1..Len(setting)
        /\ Len(setting) \in Nat
    BY <1>1, LenProperties DEF AnswerInv
  <2>2. ASSUME NEW i \in 1..Len(setting)
        PROVE  setting[i].id \in 1..(nextProperty - 1) /\ setting[i] \in PropertyData
    <3>1. setting[i] \in ToSet(setting) /\ setting[i] \in SetRequest
      BY <2>1 DEF ToSet
    <3>2. setting[i].id \in 1..(nextProperty - 1)
      BY <3>1 DEF TypeInv
    <3>3. setting[i].id \in Call
      BY <1>3, <1>4, <3>2 DEF Call
    <3> QED
      BY <3>1, <3>2, <3>3 DEF SetRequest, PropertyData
  <2> QED
    BY <2>1, <2>2 DEF Ids
<1>8. asked \in [1..(nextPending - 1) -> DOMAIN method]
  <2>1. asked \in [1..Len(asked) -> Call]
    BY <1>1 DEF VerdictInv
  <2> QED
    BY <1>3, <1>4, <2>1 DEF TypeInv
<1>9. answers \in [Call -> Nat]
  BY <1>1 DEF AnswerInv, Fine
<1>10. Len(security) = Cardinality(CallsOf(security))
       /\ Len(setting) = Cardinality(CallsOf(setting))
  BY <1>1, OnceCounts DEF AnswerInv
<1>11. polkit \subseteq 1..(nextPending - 1)
  BY <1>4 DEF TypeInv
<1>12. /\ observed \in Observances
       /\ registrations \in 0..MaxRegistrations /\ registration \in {0, registrations}
       /\ table \in BOOLEAN /\ tables \in 0..MaxTables
       /\ ran \in [Call -> 0..MaxRuns] /\ fault \in {"none", "freedUserData"}
       /\ verdict \in [Call -> {"none", "open", "granted", "denied"}]
  BY <1>1 DEF TypeInv, VerdictInv
<1> QED
  BY <1>2, <1>3, <1>4, <1>5, <1>6, <1>7, <1>8, <1>9, <1>10, <1>11, <1>12 DEF TypeOK

\* What process_message does to the types
LEMMA Runs ==
    ASSUME TypeInv, NEW c \in Call, NEW done, ProcessMessage(c, done)
    PROVE  /\ ran' \in [Call -> 0..MaxRuns]
           /\ \/ nextProperty' = nextProperty /\ ToSet(setting') = ToSet(setting)
              \/ /\ nextProperty' = nextProperty + 1 /\ done
                 /\ \A r \in ToSet(setting') : r \in ToSet(setting) \/ r.id = nextProperty
<1>1. ran' \in [Call -> 0..MaxRuns]
  <2>1. PICK m : ran' = [ran EXCEPT ![c] = Min({@ + 1, m})] /\ m = MaxRuns
    BY DEF ProcessMessage
  <2>2. ASSUME NEW a \in Nat, NEW b \in Nat
        PROVE  Min({a, b}) \in Nat /\ Min({a, b}) <= b
    BY <2>2 DEF Min
  <2>3. ran \in [Call -> 0..MaxRuns] /\ MaxRuns \in Nat
    BY MethodAssumption DEF TypeInv
  <2>4. ran[c] + 1 \in Nat
    BY <2>3
  <2>5. Min({ran[c] + 1, MaxRuns}) \in 0..MaxRuns
    BY <2>2, <2>3, <2>4
  <2> QED
    BY <2>1, <2>3, <2>5
<1>2. CASE UNCHANGED <<nextProperty, setting>>
  BY <1>1, <1>2
<1>3. CASE /\ setting' = <<[id |-> nextProperty, call |-> c]>> \o setting
           /\ nextProperty' = nextProperty + 1 /\ method[c].kind = "set"
  <2> DEFINE r == [id |-> nextProperty, call |-> c]
  <2>1. setting \in Seq(SetRequest) /\ r \in SetRequest /\ r.id = nextProperty
    BY DEF TypeInv, VerdictInv, AnswerInv, SetRequest
  <2>2. done
    BY <1>3 DEF ProcessMessage
  <2>3. setting' = <<r>> \o setting
    BY <1>3
  <2> HIDE DEF r
  <2>4. /\ setting' \in Seq(SetRequest) /\ Len(setting') = Len(setting) + 1
        /\ setting'[1] = r /\ \A i \in 1..Len(setting) : setting'[i + 1] = setting[i]
    BY <2>1, <2>3
  <2>5. DOMAIN setting = 1..Len(setting) /\ DOMAIN setting' = 1..Len(setting')
        /\ Len(setting) \in Nat
    BY <2>1, <2>4, LenProperties
  <2>6. ASSUME NEW i \in 1..Len(setting')
        PROVE  setting'[i] = r \/ setting'[i] \in ToSet(setting)
    <3>1. CASE i = 1
      BY <2>4, <3>1
    <3>2. CASE i # 1
      <4>1. i - 1 \in 1..Len(setting) /\ (i - 1) + 1 = i
        BY <2>4, <2>5, <3>2
      <4> QED
        BY <2>4, <2>5, <4>1 DEF ToSet
    <3> QED
      BY <3>1, <3>2
  <2>7. \A x \in ToSet(setting') : x \in ToSet(setting) \/ x.id = nextProperty
    BY <2>1, <2>5, <2>6 DEF ToSet
  <2> QED
    BY <1>1, <1>3, <2>2, <2>7
<1> QED
  BY <1>2, <1>3 DEF ProcessMessage, PropertiesSet

\* The counted sets only grow.  What a number is given for is new in its set.
LEMMA Counts ==
    ASSUME TypeInv, AnswerInv', Passed \subseteq Passed', Done \subseteq Done'
    PROVE  /\ Cardinality(Passed') \in Nat /\ Cardinality(Done') \in Nat
           /\ Len(asked) \in Nat /\ nextProperty \in Nat
           /\ Len(asked) <= Cardinality(Passed') /\ nextProperty - 1 <= Cardinality(Done')
           /\ \A c \in Passed' \ Passed : Len(asked) + 1 <= Cardinality(Passed')
           /\ \A c \in Done' \ Done : nextProperty <= Cardinality(Done')
<1>1. Passed' \subseteq Call /\ Done' \subseteq Call
  <2>1. Fine(ToSet(inbox'), CallsOf(security'), CallsOf(setting'), working',
             Len(method'), answers')
    BY DEF AnswerInv
  <2>2. 1..Len(method') \subseteq Call
    BY <2>1, MethodAssumption DEF Fine, Call
  <2> QED
    BY <2>2 DEF Passed, Done
<1>2. /\ Len(asked) \in Nat /\ nextProperty \in Nat /\ nextProperty > 0
      /\ Len(asked) <= Cardinality(Passed) /\ nextProperty - 1 <= Cardinality(Done)
  BY LenProperties DEF TypeInv, VerdictInv, AnswerInv
<1>3. /\ Cardinality(Passed') \in Nat /\ Cardinality(Passed) \in Nat
      /\ Cardinality(Passed) <= Cardinality(Passed')
      /\ \A c \in Passed' \ Passed : Cardinality(Passed) + 1 <= Cardinality(Passed')
  BY <1>1, CountCalls
<1>4. /\ Cardinality(Done') \in Nat /\ Cardinality(Done) \in Nat
      /\ Cardinality(Done) <= Cardinality(Done')
      /\ \A c \in Done' \ Done : Cardinality(Done) + 1 <= Cardinality(Done')
  BY <1>1, CountCalls
<1> QED
  BY <1>2, <1>3, <1>4

\* A step that leaves most of it alone
LEMMA HostTypes ==
    ASSUME TypeInv, VerdictInv',
           UNCHANGED <<security, polkit, setting, nextProperty, asked, ran, fault,
                       method, inbox>>,
           observed' = observed,
           registrations' \in 0..MaxRegistrations, registration' \in {0, registrations'},
           table' \in BOOLEAN, tables' \in 0..MaxTables
    PROVE  TypeInv'
<1>1. Passed' = Passed /\ Done' = Done
  BY DEF Passed, Done, CallsOf
<1> QED
  BY <1>1 DEF TypeInv

\* A step of a call or of a verdict on it
LEMMA CallTypes ==
    ASSUME TypeInv, VerdictInv', UNCHANGED <<observed, host>>,
           Passed \subseteq Passed', Done \subseteq Done',
           Len(method) <= Len(method'),
           \A r \in ToSet(security') : r \in ToSet(security) \/ r.user \in 1..MaxRegistrations,
           polkit' \subseteq 1..Len(asked'),
           ran' \in [Call -> 0..MaxRuns], fault' \in {"none", "freedUserData"},
           \/ UNCHANGED asked
           \/ \E c \in (Passed' \ Passed) \intersect (1..Len(method')) :
                 asked' = Append(asked, c),
           \A r \in ToSet(setting') : r \in ToSet(setting) \/ r.id = nextProperty,
           \/ nextProperty' = nextProperty /\ ToSet(setting') \subseteq ToSet(setting)
           \/ nextProperty' = nextProperty + 1 /\ Done' \ Done # {}
    PROVE  TypeInv'
<1>1. /\ Cardinality(Passed') \in Nat /\ Cardinality(Done') \in Nat
      /\ Len(asked) \in Nat /\ nextProperty \in Nat
      /\ Len(asked) <= Cardinality(Passed') /\ nextProperty - 1 <= Cardinality(Done')
      /\ \A c \in Passed' \ Passed : Len(asked) + 1 <= Cardinality(Passed')
      /\ \A c \in Done' \ Done : nextProperty <= Cardinality(Done')
  BY Counts DEF VerdictInv
<1>2. /\ observed' \in Observances
      /\ registrations' \in 0..MaxRegistrations /\ registration' \in {0, registrations'}
      /\ table' \in BOOLEAN /\ tables' \in 0..MaxTables
      /\ \A r \in ToSet(security') : r.user \in 1..MaxRegistrations
  BY DEF TypeInv, host
<1>3. /\ \A r \in ToSet(setting') : r.id \in 1..(nextProperty' - 1)
      /\ nextProperty' > 0
      /\ nextProperty' - 1 <= Cardinality(Done')
  <2>1. nextProperty > 0 /\ \A r \in ToSet(setting) : r.id \in 1..(nextProperty - 1)
    BY DEF TypeInv
  <2>2. CASE nextProperty' = nextProperty /\ ToSet(setting') \subseteq ToSet(setting)
    BY <1>1, <2>1, <2>2
  <2>3. CASE nextProperty' = nextProperty + 1 /\ Done' \ Done # {}
    <3>1. nextProperty' - 1 <= Cardinality(Done') /\ nextProperty' > 0
      BY <1>1, <2>3
    <3>2. ASSUME NEW r \in ToSet(setting')
          PROVE  r.id \in 1..(nextProperty' - 1)
      <4>1. r.id = nextProperty \/ r.id \in 1..(nextProperty - 1)
        BY <2>1
      <4> QED
        BY <1>1, <2>1, <2>3, <4>1
    <3> QED
      BY <3>1, <3>2
  <2> QED
    BY <2>2, <2>3
<1>4. /\ \A i \in 1..Len(asked') : asked'[i] \in 1..Len(method')
      /\ Len(asked') <= Cardinality(Passed')
  <2>1. /\ \A i \in 1..Len(asked) : asked[i] \in 1..Len(method)
        /\ Len(method) \in Nat /\ Len(method') \in Nat /\ asked \in Seq(Call)
    BY LenProperties DEF TypeInv, VerdictInv, AnswerInv
  <2>2. \A i \in 1..Len(asked) : asked[i] \in 1..Len(method')
    BY <2>1
  <2>3. CASE UNCHANGED asked
    BY <1>1, <2>2, <2>3
  <2>4. ASSUME NEW c \in (Passed' \ Passed) \intersect (1..Len(method')),
               asked' = Append(asked, c)
        PROVE  /\ \A i \in 1..Len(asked') : asked'[i] \in 1..Len(method')
               /\ Len(asked') <= Cardinality(Passed')
    <3>1. /\ Len(asked') = Len(asked) + 1 /\ asked'[Len(asked) + 1] = c
          /\ \A i \in 1..Len(asked) : asked'[i] = asked[i]
      BY <2>1, <2>4
    <3>2. Len(asked) + 1 <= Cardinality(Passed')
      BY <1>1
    <3>3. ASSUME NEW i \in 1..Len(asked')
          PROVE  asked'[i] \in 1..Len(method')
      <4>1. i \in 1..Len(asked) \/ i = Len(asked) + 1
        BY <1>1, <3>1
      <4> QED
        BY <2>2, <3>1, <4>1
    <3> QED
      BY <3>1, <3>2, <3>3
  <2> QED
    BY <2>3, <2>4
<1> QED
  BY <1>2, <1>3, <1>4 DEF TypeInv

\* A verdict takes an entry off the list; the call is then done with.
LEMMA VerdictTypes ==
    ASSUME TypeInv, VerdictInv', NEW n,
           UNCHANGED <<observed, host, method, inbox, asked>>,
           polkit' \subseteq polkit,
           PendingSuccess(n) \/ PendingError(n)
    PROVE  TypeInv'
<1>1. AnswerInv /\ VerdictInv
  BY DEF TypeInv, VerdictInv
<1>2. PICK k \in 1..Len(security) : security' = RemoveAt(security, k)
        /\ \/ /\ fault' \in {fault, "freedUserData"}
              /\ \E done \in BOOLEAN : ProcessMessage(security[k].call, done)
           \/ UNCHANGED <<nextProperty, setting, ran, fault>>
  BY DEF PendingSuccess, PendingError
<1> DEFINE c == security[k].call
<1>3. /\ ToSet(security') \subseteq ToSet(security)
      /\ CallsOf(security') = CallsOf(security) \ {c}
  BY <1>1, <1>2, ListRemove DEF AnswerInv
<1>4. c \in CallsOf(security) /\ c \in Call /\ c \notin ToSet(inbox) /\ c \in 1..Len(method)
  <2>1. c \in CallsOf(security)
    BY <1>1, LenProperties DEF AnswerInv, CallsOf
  <2>2. c \in Call /\ Idle(c, ToSet(inbox), CallsOf(security'), CallsOf(setting), working,
                       Len(method), answers)
    BY <1>1, <1>2, Verdict
  <2> QED
    BY <2>1, <2>2 DEF Idle
<1>5. PICK d : d = c
  OBVIOUS
<1> HIDE DEF c
<1>6. /\ Passed' = Passed /\ Done \subseteq Done' /\ d \in Done' \ Done
  BY <1>3, <1>4, <1>5 DEF Passed, Done
<1>7. polkit' \subseteq 1..Len(asked') /\ ran \in [Call -> 0..MaxRuns]
      /\ fault \in {"none", "freedUserData"}
  BY DEF TypeInv
<1>8. CASE UNCHANGED <<nextProperty, setting, ran, fault>>
  BY <1>3, <1>6, <1>7, <1>8, CallTypes
<1>9. ASSUME fault' \in {fault, "freedUserData"},
             NEW done \in BOOLEAN, ProcessMessage(c, done)
      PROVE  TypeInv'
  <2>1. /\ ran' \in [Call -> 0..MaxRuns]
        /\ \/ nextProperty' = nextProperty /\ ToSet(setting') = ToSet(setting)
           \/ /\ nextProperty' = nextProperty + 1 /\ done
              /\ \A r \in ToSet(setting') : r \in ToSet(setting) \/ r.id = nextProperty
    BY <1>4, <1>9, Runs
  <2>2. fault' \in {"none", "freedUserData"}
    BY <1>7, <1>9
  <2> QED
    BY <1>3, <1>6, <1>7, <2>1, <2>2, CallTypes
<1> QED
  BY <1>2, <1>8, <1>9 DEF c

LEMMA ArrivalTypes ==
    ASSUME TypeInv, VerdictInv', NEW m \in Method, CallArrives(m)
    PROVE  TypeInv'
<1>1. AnswerInv
  BY DEF TypeInv, VerdictInv
<1>2. /\ method \in Seq(Method) /\ inbox \in Seq(Call)
      /\ method' = Append(method, m) /\ inbox' = Append(inbox, Len(method'))
  BY <1>1 DEF CallArrives, AnswerInv
<1>3. Len(method') = Len(method) + 1 /\ Len(method) \in Nat
  BY <1>2, AppendProperties, LenProperties
<1>4. ToSet(inbox') \subseteq ToSet(inbox) \union {Len(method')}
  <2>1. /\ DOMAIN inbox = 1..Len(inbox) /\ DOMAIN inbox' = 1..(Len(inbox) + 1)
        /\ \A i \in 1..Len(inbox) : inbox'[i] = inbox[i]
        /\ inbox'[Len(inbox) + 1] = Len(method') /\ Len(inbox) \in Nat
    BY <1>2
  <2> QED
    BY <2>1 DEF ToSet
<1>5. UNCHANGED <<observed, host, security, polkit, setting, nextProperty, asked, ran, fault>>
  BY DEF CallArrives, lists, history
<1>6. Passed \subseteq Passed'
  BY <1>3, <1>4 DEF Passed
<1>7. Done \subseteq Done'
  BY <1>5, <1>6 DEF Done
<1>8. polkit' \subseteq 1..Len(asked') /\ ran' \in [Call -> 0..MaxRuns]
      /\ fault' \in {"none", "freedUserData"}
  BY <1>5 DEF TypeInv
<1>9. Len(method) <= Len(method')
  BY <1>3
<1> QED
  BY <1>5, <1>6, <1>7, <1>8, <1>9, CallTypes

LEMMA DispatchTypes ==
    ASSUME TypeInv, VerdictInv', GenericMessage
    PROVE  TypeInv'
<1> DEFINE c == Head(inbox)
<1>1. AnswerInv /\ inbox # <<>> /\ UNCHANGED <<observed, host, method, fault>>
  BY DEF TypeInv, VerdictInv, GenericMessage
<1>2. ToSet(Tail(inbox)) = ToSet(inbox) \ {c} /\ c \in ToSet(inbox)
  BY <1>1, QueueNext DEF AnswerInv
<1>3. /\ c \in Call /\ c \notin CallsOf(security) /\ c \in 1..Len(method)
  <2>1. Fine(ToSet(inbox), CallsOf(security), CallsOf(setting), working,
             Len(method), answers)
    BY <1>1 DEF AnswerInv
  <2> QED
    BY <1>2, <2>1, MethodAssumption DEF Fine, Call
<1>4. ran \in [Call -> 0..MaxRuns] /\ fault' \in {"none", "freedUserData"}
      /\ polkit \subseteq 1..Len(asked) /\ Len(method) <= Len(method')
  BY <1>1, LenProperties DEF TypeInv, AnswerInv
<1>5. CASE NotYetHandled(c) /\ inbox' = Tail(inbox)
  <2> HIDE DEF c
  <2>1. UNCHANGED <<security, polkit, setting, nextProperty, asked, ran>>
    BY <1>5 DEF NotYetHandled, lists
  <2>2. Passed \subseteq Passed' /\ Done \subseteq Done'
    BY <1>1, <1>2, <1>5, <2>1 DEF Passed, Done
  <2> QED
    BY <1>1, <1>4, <2>1, <2>2, CallTypes
<1>6. CASE registration # 0 /\ CheckPrivilege(c) /\ inbox' = Tail(inbox)
  <2> HIDE DEF c
  <2>1. asked' = Append(asked, c) /\ UNCHANGED <<nextProperty, setting, ran>>
    BY <1>6 DEF CheckPrivilege
  <2>2. /\ Len(asked') = Len(asked) + 1 /\ Len(asked) \in Nat /\ nextPending = Len(asked) + 1
    BY <1>3, <2>1, AppendProperties, LenProperties DEF TypeInv, VerdictInv
  <2>3. polkit' \subseteq polkit \union {nextPending}
    BY <1>6 DEF CheckPrivilege
  <2>4. polkit' \subseteq 1..Len(asked')
    <3>1. 1..Len(asked) \subseteq 1..Len(asked') /\ nextPending \in 1..Len(asked')
      BY <2>2
    <3> QED
      BY <1>4, <2>3, <3>1
  <2> DEFINE r == [pending |-> nextPending, call |-> c, user |-> registration]
  <2>5. r \in Request /\ r.call = c /\ r.user \in 1..MaxRegistrations
    <3>1. registration \in 1..MaxRegistrations
      BY <1>6, MethodAssumption DEF TypeInv
    <3> QED
      BY <1>1, <1>3, <3>1 DEF Request, AnswerInv
  <2>6. \/ security' = <<r>> \o security
        \/ UNCHANGED security
    BY <1>6 DEF CheckPrivilege
  <2> HIDE DEF r
  <2>7. /\ ToSet(security') \subseteq ToSet(security) \union {r}
        /\ CallsOf(security') \subseteq CallsOf(security) \union {c}
    <3>1. /\ ToSet(<<r>> \o security) \subseteq ToSet(security) \union {r}
          /\ CallsOf(<<r>> \o security) = CallsOf(security) \union {c}
      BY <1>1, <1>3, <2>5, ListPut DEF AnswerInv
    <3>2. CASE security' = <<r>> \o security
      BY <3>1, <3>2
    <3>3. CASE UNCHANGED security
      BY <3>3
    <3> QED
      BY <2>6, <3>2, <3>3
  <2>8. /\ Passed \subseteq Passed' /\ c \in Passed' \ Passed
    BY <1>1, <1>2, <1>3, <1>6 DEF Passed
  <2>9. Done \subseteq Done'
    BY <2>7, <2>8 DEF Done, Passed
  <2>10. \A x \in ToSet(security') : x \in ToSet(security) \/ x.user \in 1..MaxRegistrations
    BY <2>5, <2>7
  <2>11. c \in (Passed' \ Passed) \intersect (1..Len(method'))
    BY <1>1, <1>3, <2>8
  <2>12. ran' \in [Call -> 0..MaxRuns] /\ nextProperty' = nextProperty
         /\ ToSet(setting') \subseteq ToSet(setting)
    BY <1>4, <2>1
  <2> QED
    BY <1>1, <1>4, <2>1, <2>4, <2>8, <2>9, <2>10, <2>11, <2>12, CallTypes
<1>7. ASSUME NEW done \in BOOLEAN, ProcessMessage(c, done),
             inbox' = (IF done THEN Tail(inbox) ELSE inbox),
             UNCHANGED <<security, polkit, asked>>
      PROVE  TypeInv'
  <2> HIDE DEF c
  <2>1. /\ ran' \in [Call -> 0..MaxRuns]
        /\ \/ nextProperty' = nextProperty /\ ToSet(setting') = ToSet(setting)
           \/ /\ nextProperty' = nextProperty + 1 /\ done
              /\ \A r \in ToSet(setting') : r \in ToSet(setting) \/ r.id = nextProperty
    BY <1>3, <1>7, Runs
  <2>2. Passed \subseteq Passed' /\ Done \subseteq Done'
    BY <1>1, <1>2, <1>7 DEF Passed, Done
  <2>3. done => c \in Done' \ Done
    BY <1>1, <1>2, <1>3, <1>7 DEF Passed, Done
  <2>4. polkit' \subseteq 1..Len(asked')
    BY <1>4, <1>7
  <2> QED
    BY <1>1, <1>4, <1>7, <2>1, <2>2, <2>3, <2>4, CallTypes
<1> QED
  BY <1>5, <1>6, <1>7 DEF GenericMessage

LEMMA TypeSteps == TypeInv /\ [Next]_vars => TypeInv'
<1> SUFFICES ASSUME TypeInv, [Next]_vars PROVE TypeInv'
  OBVIOUS
<1>1. VerdictInv'
  BY VerdictSteps DEF TypeInv
<1>2. CASE \/ RegisterInterface \/ UnregisterInterface
           \/ RegisterSecurity \/ UnregisterSecurity \/ UNCHANGED vars
  <2>1. UNCHANGED <<observed, security, polkit, setting, nextProperty, asked, ran, fault,
                    method, inbox>>
    BY <1>2 DEF RegisterInterface, UnregisterInterface, RegisterSecurity,
           UnregisterSecurity, lists, history, vars
  <2>2. /\ registrations' \in 0..MaxRegistrations /\ registration' \in {0, registrations'}
    BY <1>2, MethodAssumption DEF RegisterInterface, UnregisterInterface,
           RegisterSecurity, UnregisterSecurity, host, vars, TypeInv
  <2>3. tables' \in 0..MaxTables
    BY <1>2, MethodAssumption DEF RegisterInterface, UnregisterInterface,
           RegisterSecurity, UnregisterSecurity, host, vars, TypeInv
  <2>4. table' \in BOOLEAN
    BY <1>2 DEF RegisterInterface, UnregisterInterface,
           RegisterSecurity, UnregisterSecurity, host, vars, TypeInv
  <2> QED
    BY <1>1, <2>1, <2>2, <2>3, <2>4, HostTypes
<1>3. ASSUME NEW m \in Method, CallArrives(m)
      PROVE  TypeInv'
  BY <1>1, <1>3, ArrivalTypes
<1>4. CASE GenericMessage
  BY <1>1, <1>4, DispatchTypes
<1>5. ASSUME NEW n \in Call, SecurityAnswers(n) \/ PolkitAnswers(n)
      PROVE  TypeInv'
  <2>1. /\ UNCHANGED <<observed, host, method, inbox, asked>> /\ polkit' \subseteq polkit
        /\ PendingSuccess(n) \/ PendingError(n)
    BY <1>5 DEF SecurityAnswers, PolkitAnswers
  <2> QED
    BY <1>1, <2>1, VerdictTypes
<1>6. ASSUME NEW n \in Call, PropertyAnswered(n) \/ MethodReplies(n)
      PROVE  TypeInv'
  <2>1. UNCHANGED <<observed, host, method, inbox, security, polkit, nextProperty,
                    asked, ran, fault>>
    BY <1>6 DEF PropertyAnswered, MethodReplies
  <2>2. ToSet(setting') \subseteq ToSet(setting)
    <3>1. CASE PropertyAnswered(n)
      <4>1. PICK k \in 1..Len(setting) : setting' = RemoveAt(setting, k)
        BY <3>1 DEF PropertyAnswered
      <4> QED
        BY <4>1, ListRemove DEF TypeInv, VerdictInv, AnswerInv
    <3>2. CASE MethodReplies(n)
      BY <3>2 DEF MethodReplies
    <3> QED
      BY <1>6, <3>1, <3>2
  <2>3. Passed' = Passed /\ Done' = Done
    BY <2>1 DEF Passed, Done, CallsOf
  <2>4. polkit' \subseteq 1..Len(asked') /\ ran' \in [Call -> 0..MaxRuns]
        /\ fault' \in {"none", "freedUserData"} /\ Len(method) <= Len(method')
    BY <2>1, LenProperties DEF TypeInv, VerdictInv, AnswerInv
  <2> QED
    BY <1>1, <2>1, <2>2, <2>3, <2>4, CallTypes
<1> QED
  BY <1>2, <1>3, <1>4, <1>5, <1>6 DEF Next

\* The numbers of requests and of Sets stay within the number of calls, each waiting
\* entry has a number that was given, and a call waits in one place at most
\* (object.c:285-305, object.c:423-489).
THEOREM TypeCorrect == Spec => []TypeOK
<1>1. Init => TypeInv
  <2> SUFFICES ASSUME Init PROVE TypeInv
    OBVIOUS
  <2>1. VerdictInv /\ ToSet(<<>>) = {} /\ CallsOf(<<>>) = {} /\ Len(<<>>) = 0
    BY VerdictInit DEF ToSet, CallsOf
  <2>2. /\ 0 <= Cardinality(Passed) /\ 0 <= Cardinality(Done)
    BY <2>1, Places, CountCalls DEF VerdictInv
  <2>3. /\ ran \in [Call -> 0..MaxRuns] /\ registrations \in 0..MaxRegistrations
        /\ tables \in 0..MaxTables
    BY MethodAssumption DEF Init
  <2>4. /\ observed \in Observances /\ registration \in {0, registrations}
        /\ table \in BOOLEAN /\ fault \in {"none", "freedUserData"}
    BY DEF Init
  <2>5. /\ ToSet(security) = {} /\ ToSet(setting) = {} /\ polkit = {} /\ nextProperty = 1
        /\ Len(asked) = 0
    BY <2>1 DEF Init
  <2> QED
    BY <2>1, <2>2, <2>3, <2>4, <2>5 DEF TypeInv
<1> QED
  BY <1>1, TypesHold, TypeSteps, PTL DEF Spec
=============================================================================
