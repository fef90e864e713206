------------------------ MODULE GdbusProxyCallProof --------------------------
(***************************************************************************)
(* For any number of calls, proxies and messages, and in any order of what *)
(* service, bus, main loop and user do: the functions of a call and of a    *)
(* proxy run once, what a proxy remembers is true once all is dispatched,   *)
(* and with the rules of GdbusProxyCall nothing freed is used.             *)
(***************************************************************************)
EXTENDS GdbusProxyCall, SequenceTheorems, FiniteSetTheorems, TLAPS

-----------------------------------------------------------------------------
(* The inductive invariant. *)

\* What is listed has its client, but for the proxy that removed_func was called
\* for.
ProxiesOK ==
    \A p \in DOMAIN proxies :
        /\ proxies[p].linked => proxies[p].listed
        /\ proxies[p].listed =>
              proxies[p].linked \/ (running.in = "gone" /\ running.of = p)

\* What the handler that has called the user still needs
RunningOK ==
    /\ running.in \in {"removed", "gone"} =>
          /\ running.used /\ running.of \in DOMAIN proxies
          /\ proxies[running.of].linked <=> running.in = "removed"
    /\ running.in = "reply" =>
          /\ ~running.used /\ running.of \in DOMAIN calls
          /\ calls[running.of].state = "running"

IsReply(m) == m.kind = "reply"

\* An answer on its way is the only one for its call, which waits for it.
RepliesOK ==
    /\ \A c \in DOMAIN calls : calls[c].proxy \in DOMAIN proxies
    /\ \A i \in DOMAIN inbox : IsReply(inbox[i]) =>
          inbox[i].call \in DOMAIN calls /\ calls[inbox[i].call].state = "queued"
    /\ \A i, j \in DOMAIN inbox :
          IsReply(inbox[i]) /\ IsReply(inbox[j]) /\ inbox[i].call = inbox[j].call
             => i = j

\* Who observes the rule keeps the proxy that it refreshes.
HoldsOK == "holds" \in observed =>
    \A c \in DOMAIN calls :
       calls[c].kind = "refresh" /\ calls[c].state \in {"open", "queued"}
          => proxies[calls[c].proxy].refs = 1

\* Is there a proxy with its client, and not about to lose it?
Present == \E p \in Linked : running.in # "removed" \/ running.of # p

Ends(m) == m.kind \in {"removed", "exit"}
Added(m) == m.kind = "added"

\* An object is announced when the one before it has ended, and an object that
\* is gone was said to be.
StoryOK ==
    /\ \A i \in DOMAIN inbox : Added(inbox[i]) /\ Present =>
          \E k \in DOMAIN inbox : k < i /\ Ends(inbox[k])
    /\ \A i, j \in DOMAIN inbox : i < j /\ Added(inbox[i]) /\ Added(inbox[j]) =>
          \E k \in DOMAIN inbox : i < k /\ k < j /\ Ends(inbox[k])
    /\ content = Absent =>
          /\ Present => \E k \in DOMAIN inbox : Ends(inbox[k])
          /\ \A i \in DOMAIN inbox : Added(inbox[i]) =>
                \E k \in DOMAIN inbox : i < k /\ Ends(inbox[k])

\* No signal follows place i.
Latest(i) == \A j \in DOMAIN inbox : i < j => IsReply(inbox[j])

\* What message m says of the property: nothing, unless it is one of these.
Says(m) == m.kind \in {"added", "changed"}
Refreshes(m) == IsReply(m) /\ calls[m.call].kind = "refresh" /\ m.answer # Failed

\* The last signal on its way and the refreshed values behind it are true; with
\* no signal on its way, what the proxy remembers is.
WordsOK ==
    /\ \A i \in DOMAIN inbox : Latest(i) =>
          /\ Says(inbox[i]) => inbox[i].value = content
          /\ Refreshes(inbox[i]) => inbox[i].answer = content
    /\ (\A i \in DOMAIN inbox : IsReply(inbox[i])) =>
          \A p \in Linked : running.in # "removed" =>
             proxies[p].value \in {content, Absent}

Invariant ==
    /\ TypeOK /\ CalledOnce /\ NoFault
    /\ ProxiesOK /\ RunningOK /\ RepliesOK /\ HoldsOK /\ StoryOK /\ WordsOK

-----------------------------------------------------------------------------
(* Lists and records. *)

LEMMA Domain ==
    ASSUME NEW S, NEW s \in Seq(S)
    PROVE  /\ Len(s) \in Nat /\ DOMAIN s = 1..Len(s)
           /\ \A i \in 1..Len(s) : s[i] \in S
BY LenProperties

\* A list of which every element is replaced, or kept
LEMMA Mapped ==
    ASSUME NEW S, NEW s \in Seq(S), NEW T, NEW t, t = [i \in DOMAIN s |-> t[i]],
           \A i \in DOMAIN s : t[i] \in T
    PROVE  t \in Seq(T) /\ Len(t) = Len(s) /\ DOMAIN t = DOMAIN s
<1>1. Len(s) \in Nat /\ DOMAIN s = 1..Len(s)
  BY Domain
<1>2. t \in [1..Len(s) -> T]
  BY <1>1
<1>3. t \in Seq(T)
  BY <1>1, <1>2, SeqDef
<1> QED
  BY <1>1, <1>2, <1>3, LenProperties

LEMMA Lengthened ==
    ASSUME NEW S, NEW s \in Seq(S), NEW t \in Seq(S)
    PROVE  /\ s \o t \in Seq(S) /\ Len(s \o t) = Len(s) + Len(t)
           /\ DOMAIN s = 1..Len(s) /\ DOMAIN t = 1..Len(t)
           /\ DOMAIN (s \o t) = 1..(Len(s) + Len(t))
           /\ Len(s) \in Nat /\ Len(t) \in Nat
           /\ \A i \in 1..Len(s) : (s \o t)[i] = s[i]
           /\ \A i \in 1..Len(t) : (s \o t)[Len(s) + i] = t[i]
<1>1. Len(s) \in Nat /\ Len(t) \in Nat /\ DOMAIN s = 1..Len(s) /\ DOMAIN t = 1..Len(t)
  BY LenProperties
<1>2. /\ s \o t \in Seq(S) /\ Len(s \o t) = Len(s) + Len(t)
      /\ \A i \in 1..(Len(s) + Len(t)) :
            (s \o t)[i] = IF i <= Len(s) THEN s[i] ELSE t[i - Len(s)]
  BY ConcatProperties
<1>3. DOMAIN (s \o t) = 1..(Len(s) + Len(t))
  BY <1>2, LenProperties
<1>4. ASSUME NEW i \in 1..Len(t) PROVE (s \o t)[Len(s) + i] = t[i]
  <2>1. Len(s) + i \in 1..(Len(s) + Len(t)) /\ ~(Len(s) + i <= Len(s))
        /\ (Len(s) + i) - Len(s) = i
    BY <1>1
  <2> QED
    BY <1>2, <2>1
<1>5. ASSUME NEW i \in 1..Len(s) PROVE (s \o t)[i] = s[i]
  BY <1>1, <1>2
<1> QED
  BY <1>1, <1>2, <1>3, <1>4, <1>5

LEMMA MessageType ==
    \A m \in Message :
        /\ m.kind \in {"added", "changed", "invalidated", "removed", "exit", "reply"}
        /\ m.kind \in {"added", "changed"} => m.value \in Val
        /\ m.kind = "reply" => m.call \in 1..MaxCalls /\ m.answer \in Val \union {Failed}
BY DEF Message

\* A message that says nothing but its kind, and the others
LEMMA Messages ==
    /\ \A k \in {"added", "changed"}, v \in Val :
          /\ [kind |-> k, value |-> v] \in Message
          /\ [kind |-> k, value |-> v].kind = k /\ [kind |-> k, value |-> v].value = v
    /\ \A k \in {"invalidated", "removed", "exit"} :
          [kind |-> k] \in Message /\ [kind |-> k].kind = k
    /\ \A c \in 1..MaxCalls, a \in Val \union {Failed} :
          /\ [kind |-> "reply", call |-> c, answer |-> a] \in Message
          /\ [kind |-> "reply", call |-> c, answer |-> a].kind = "reply"
          /\ [kind |-> "reply", call |-> c, answer |-> a].call = c
          /\ [kind |-> "reply", call |-> c, answer |-> a].answer = a
BY DEF Message

LEMMA RunningType ==
    ASSUME running \in Callback \union {Idle}
    PROVE  /\ running.in \in {"added", "changed", "removed", "gone", "reply", "mainLoop"}
           /\ running.used \in BOOLEAN
           /\ running.in = "mainLoop" <=> running = Idle
           /\ running.by \in {"added", "changed", "removed", "exit", "reply", "none"}
<1>1. CASE running \in Callback
  <2>1. running.in # "mainLoop" /\ Idle.in = "mainLoop"
    BY <1>1 DEF Callback, Idle
  <2> QED
    BY <1>1, <2>1 DEF Callback
<1>2. CASE running = Idle
  BY <1>2 DEF Idle
<1> QED
  BY <1>1, <1>2

-----------------------------------------------------------------------------
(* What comes from the service and the bus. *)

\* Behind what the connection has, there is a signal at most, of what the
\* service has become, and then the answers to calls that were open.
Extends ==
    LET n == Len(inbox)
    IN  /\ inbox' \in Seq(Message) /\ Len(inbox') >= n
        /\ \A i \in 1..n : inbox'[i] = inbox[i]
        /\ \A i \in (n + 1)..Len(inbox') :
              /\ i # n + 1 => IsReply(inbox'[i])
              /\ Says(inbox'[i]) => inbox'[i].value = content'
              /\ Added(inbox'[i]) => content = Absent
              /\ IsReply(inbox'[i]) =>
                    /\ inbox'[i].call \in DOMAIN calls
                    /\ calls[inbox'[i].call].state = "open"
                    /\ calls'[inbox'[i].call].state = "queued"
                    /\ Refreshes(inbox'[i]) => inbox'[i].answer = content'
        /\ \A i, j \in (n + 1)..Len(inbox') :
              IsReply(inbox'[i]) /\ IsReply(inbox'[j]) /\ inbox'[i].call = inbox'[j].call
                 => i = j
        /\ content' # content =>
              /\ n + 1 \in 1..Len(inbox') /\ ~IsReply(inbox'[n + 1])
              /\ content' = Absent => Ends(inbox'[n + 1])

\* Of the calls, some that were open are answered.
Answers ==
    /\ calls' \in Seq(Call) /\ Len(calls') = Len(calls)
    /\ \A c \in DOMAIN calls :
          \/ calls'[c] = calls[c]
          \/ /\ calls[c].state = "open"
             /\ calls'[c] = [calls[c] EXCEPT !.state = "queued"]

LEMMA CallFields ==
    ASSUME NEW q \in Call, NEW s \in {"open", "queued", "running", "done", "refused"}
    PROVE  LET r == [q EXCEPT !.state = s]
           IN  /\ r \in Call /\ r.kind = q.kind /\ r.proxy = q.proxy /\ r.state = s
               /\ r.ran = q.ran /\ r.destroyed = q.destroyed
BY DEF Call

LEMMA Answered ==
    ASSUME TypeOK, Answers
    PROVE  /\ DOMAIN calls' = DOMAIN calls
           /\ \A c \in DOMAIN calls :
                 /\ calls'[c].kind = calls[c].kind /\ calls'[c].proxy = calls[c].proxy
                 /\ calls'[c].ran = calls[c].ran
                 /\ calls'[c].destroyed = calls[c].destroyed
                 /\ \/ calls'[c].state = calls[c].state
                    \/ calls[c].state = "open" /\ calls'[c].state = "queued"
<1>1. DOMAIN calls' = DOMAIN calls
  BY Domain DEF TypeOK, Answers
<1>2. ASSUME NEW c \in DOMAIN calls
      PROVE  /\ calls'[c].kind = calls[c].kind /\ calls'[c].proxy = calls[c].proxy
             /\ calls'[c].ran = calls[c].ran
             /\ calls'[c].destroyed = calls[c].destroyed
             /\ \/ calls'[c].state = calls[c].state
                \/ calls[c].state = "open" /\ calls'[c].state = "queued"
  <2>1. calls[c] \in Call
    BY Domain DEF TypeOK
  <2>2. CASE calls'[c] = calls[c]
    BY <2>2
  <2>3. CASE calls[c].state = "open" /\ calls'[c] = [calls[c] EXCEPT !.state = "queued"]
    BY <2>1, <2>3, CallFields
  <2> QED
    BY <2>2, <2>3 DEF Answers
<1> QED
  BY <1>1, <1>2

\* So the invariant stays, whatever of that comes.
LEMMA Arrivals ==
    ASSUME Invariant, Extends, Answers, UNCHANGED <<observed, user>>,
           content' \in Val \union {Absent}, events' \in 0..MaxEvents, online' \in BOOLEAN
    PROVE  Invariant'
<1> DEFINE n == Len(inbox)
<1> USE DEF Invariant
<1>1. /\ n \in Nat /\ DOMAIN inbox = 1..n /\ Len(inbox') \in Nat
      /\ DOMAIN inbox' = 1..Len(inbox') /\ Len(inbox') >= n
      /\ \A i \in 1..n : inbox'[i] = inbox[i]
      /\ 1..n \subseteq 1..Len(inbox')
      /\ \A i \in 1..Len(inbox') : i \in 1..n \/ i \in (n + 1)..Len(inbox')
  BY Domain DEF TypeOK, Extends
<1>2. /\ client' = client /\ proxies' = proxies /\ running' = running /\ fault' = fault
      /\ observed' = observed
  BY DEF user
<1>3. /\ DOMAIN calls' = DOMAIN calls
      /\ \A c \in DOMAIN calls :
            /\ calls'[c].kind = calls[c].kind /\ calls'[c].proxy = calls[c].proxy
            /\ calls'[c].ran = calls[c].ran
            /\ calls'[c].destroyed = calls[c].destroyed
            /\ \/ calls'[c].state = calls[c].state
               \/ calls[c].state = "open" /\ calls'[c].state = "queued"
  BY Answered
<1> HIDE DEF n
<1>4. TypeOK'
  BY <1>2 DEF TypeOK, Extends, Answers
<1>5. CalledOnce'
  BY <1>2, <1>3 DEF CalledOnce
<1>6. NoFault' /\ ProxiesOK'
  BY <1>2 DEF NoFault, ProxiesOK
<1>7. RunningOK'
  BY <1>2, <1>3 DEF RunningOK
<1>8. HoldsOK'
  BY <1>2, <1>3 DEF HoldsOK
<1>9. RepliesOK'
  <2>1. \A c \in DOMAIN calls' : calls'[c].proxy \in DOMAIN proxies'
    BY <1>2, <1>3 DEF RepliesOK
  <2>2. ASSUME NEW i \in 1..Len(inbox'), IsReply(inbox'[i])
        PROVE  /\ inbox'[i].call \in DOMAIN calls'
               /\ calls'[inbox'[i].call].state = "queued"
               /\ calls[inbox'[i].call].state = IF i \in 1..n THEN "queued" ELSE "open"
    <3>1. CASE i \in 1..n
      <4>1. /\ inbox'[i] = inbox[i] /\ inbox[i].call \in DOMAIN calls
            /\ calls[inbox[i].call].state = "queued"
        BY <1>1, <2>2, <3>1 DEF RepliesOK
      <4> QED
        BY <1>3, <3>1, <4>1
    <3>2. CASE i \in (n + 1)..Len(inbox') /\ i \notin 1..n
      BY <1>3, <2>2, <3>2 DEF Extends, n
    <3> QED
      BY <1>1, <3>1, <3>2
  <2>3. ASSUME NEW i \in 1..Len(inbox'), NEW j \in 1..Len(inbox'),
               IsReply(inbox'[i]), IsReply(inbox'[j]), inbox'[i].call = inbox'[j].call
        PROVE  i = j
    <3>1. i \in 1..n <=> j \in 1..n
      BY <2>2, <2>3
    <3>2. CASE i \in 1..n
      BY <1>1, <2>3, <3>1, <3>2 DEF RepliesOK
    <3>3. CASE i \notin 1..n
      <4>1. i \in (n + 1)..Len(inbox') /\ j \in (n + 1)..Len(inbox')
        BY <1>1, <3>1, <3>3
      <4> QED
        BY <2>3, <4>1 DEF Extends, n
    <3> QED
      BY <3>2, <3>3
  <2> QED
    BY <1>1, <2>1, <2>2, <2>3 DEF RepliesOK
<1>10. StoryOK'
  <2>1. Present' <=> Present
    BY <1>2 DEF Present, Linked
  <2>2. ASSUME NEW i \in 1..Len(inbox'), Added(inbox'[i]), i \notin 1..n
        PROVE  i = n + 1 /\ content = Absent /\ content' # Absent
    <3>1. i \in (n + 1)..Len(inbox') /\ inbox'[i] \in Message
      BY <1>1, <2>2, Domain DEF Extends
    <3>2. i = n + 1 /\ content = Absent /\ inbox'[i].value = content'
      BY <2>2, <3>1 DEF Extends, n, Added, Says, IsReply
    <3>3. inbox'[i].value \in Val
      BY <2>2, <3>1, MessageType DEF Added
    <3> QED
      BY <3>2, <3>3, ProxyCallAssumption
  <2>3. ASSUME NEW i \in 1..Len(inbox'), Added(inbox'[i]), Present
        PROVE  \E k \in 1..Len(inbox') : k < i /\ Ends(inbox'[k])
    <3>1. CASE i \in 1..n
      <4>1. PICK k \in 1..n : k < i /\ Ends(inbox[k])
        BY <1>1, <2>3, <3>1 DEF StoryOK
      <4> QED
        BY <1>1, <4>1
    <3>2. CASE i \notin 1..n
      <4>1. i = n + 1 /\ content = Absent
        BY <2>2, <2>3, <3>2
      <4>2. PICK k \in 1..n : Ends(inbox[k])
        BY <1>1, <2>3, <4>1 DEF StoryOK
      <4> QED
        BY <1>1, <4>1, <4>2
    <3> QED
      BY <3>1, <3>2
  <2>4. ASSUME NEW i \in 1..Len(inbox'), NEW j \in 1..Len(inbox'), i < j,
               Added(inbox'[i]), Added(inbox'[j])
        PROVE  \E k \in 1..Len(inbox') : i < k /\ k < j /\ Ends(inbox'[k])
    <3>1. CASE j \in 1..n
      <4>1. i \in 1..n
        BY <1>1, <2>4, <3>1
      <4>2. PICK k \in 1..n : i < k /\ k < j /\ Ends(inbox[k])
        BY <1>1, <2>4, <3>1, <4>1 DEF StoryOK
      <4> QED
        BY <1>1, <4>2
    <3>2. CASE j \notin 1..n
      <4>1. j = n + 1 /\ content = Absent
        BY <2>2, <2>4, <3>2
      <4>2. i \in 1..n
        BY <1>1, <2>4, <4>1
      <4>3. PICK k \in 1..n : i < k /\ Ends(inbox[k])
        BY <1>1, <2>4, <4>1, <4>2 DEF StoryOK
      <4> QED
        BY <1>1, <4>1, <4>3
    <3> QED
      BY <3>1, <3>2
  <2>5. ASSUME content' = Absent, content # Absent
        PROVE  n + 1 \in 1..Len(inbox') /\ Ends(inbox'[n + 1])
    BY <2>5 DEF Extends, n
  <2>6. ASSUME content' = Absent, Present
        PROVE  \E k \in 1..Len(inbox') : Ends(inbox'[k])
    <3>1. CASE content = Absent
      <4>1. PICK k \in 1..n : Ends(inbox[k])
        BY <1>1, <2>6, <3>1 DEF StoryOK
      <4> QED
        BY <1>1, <4>1
    <3>2. CASE content # Absent
      BY <2>5, <2>6, <3>2
    <3> QED
      BY <3>1, <3>2
  <2>7. ASSUME content' = Absent, NEW i \in 1..Len(inbox'), Added(inbox'[i])
        PROVE  \E k \in 1..Len(inbox') : i < k /\ Ends(inbox'[k])
    <3>1. i \in 1..n
      BY <2>2, <2>7
    <3>2. CASE content = Absent
      <4>1. PICK k \in 1..n : i < k /\ Ends(inbox[k])
        BY <1>1, <2>7, <3>1, <3>2 DEF StoryOK
      <4> QED
        BY <1>1, <4>1
    <3>3. CASE content # Absent
      BY <1>1, <2>5, <2>7, <3>1, <3>3
    <3> QED
      BY <3>2, <3>3
  <2> QED
    BY <1>1, <2>1, <2>3, <2>4, <2>6, <2>7 DEF StoryOK
<1>11. WordsOK'
  <2>1. \A m : Refreshes(m)' => IsReply(m)
    BY DEF Refreshes
  <2>2. ASSUME NEW i \in 1..Len(inbox'), Latest(i)'
        PROVE  /\ Says(inbox'[i]) => inbox'[i].value = content'
               /\ Refreshes(inbox[i])' => inbox'[i].answer = content'
    <3>1. CASE i \in 1..n
      <4>1. ASSUME NEW j \in (n + 1)..Len(inbox') PROVE IsReply(inbox'[j])
        BY <1>1, <2>2, <3>1, <4>1 DEF Latest
      <4>2. content' = content
        BY <1>1, <4>1 DEF Extends, n
      <4>3. Latest(i)
        BY <1>1, <2>2 DEF Latest
      <4>4. /\ Says(inbox[i]) => inbox[i].value = content
            /\ Refreshes(inbox[i]) => inbox[i].answer = content
        BY <1>1, <3>1, <4>3 DEF WordsOK
      <4>5. Refreshes(inbox[i])' => Refreshes(inbox[i])
        <5> SUFFICES ASSUME Refreshes(inbox[i])' PROVE Refreshes(inbox[i])
          OBVIOUS
        <5>1. inbox'[i] = inbox[i] /\ IsReply(inbox[i])
          BY <1>1, <3>1 DEF Refreshes, IsReply
        <5>2. inbox[i].call \in DOMAIN calls
          BY <1>1, <3>1, <5>1 DEF RepliesOK
        <5> QED
          BY <1>3, <5>1, <5>2 DEF Refreshes
      <4> QED
        BY <1>1, <3>1, <4>2, <4>4, <4>5
    <3>2. CASE i \in (n + 1)..Len(inbox')
      <4>1. Says(inbox'[i]) => inbox'[i].value = content'
        BY <3>2 DEF Extends, n
      <4>2. ASSUME Refreshes(inbox[i])' PROVE inbox'[i].answer = content'
        <5>1. IsReply(inbox'[i])
          BY <4>2 DEF Refreshes
        <5>2. inbox'[i].call \in DOMAIN calls
          BY <3>2, <5>1 DEF Extends, n
        <5>3. Refreshes(inbox'[i])
          BY <1>3, <4>2, <5>1, <5>2 DEF Refreshes
        <5> QED
          BY <3>2, <5>1, <5>3 DEF Extends, n
      <4> QED
        BY <4>1, <4>2
    <3> QED
      BY <1>1, <3>1, <3>2
  <2>3. ASSUME \A i \in 1..Len(inbox') : IsReply(inbox'[i]),
               NEW p \in Linked', running'.in # "removed"
        PROVE  proxies'[p].value \in {content', Absent}
    <3>1. content' = content
      BY <2>3 DEF Extends, n
    <3>2. \A i \in DOMAIN inbox : IsReply(inbox[i])
      BY <1>1, <2>3
    <3>3. p \in Linked
      BY <1>2 DEF Linked
    <3> QED
      BY <1>2, <2>3, <3>1, <3>2, <3>3 DEF WordsOK
  <2> QED
    BY <1>1, <2>2, <2>3 DEF WordsOK, Says
<1> QED
  BY <1>4, <1>5, <1>6, <1>7, <1>8, <1>9, <1>10, <1>11

LEMMA Behind ==
    ASSUME TypeOK, NEW t \in Seq(Message), inbox' = inbox \o t,
           \A i \in 1..Len(t) :
              /\ i # 1 => IsReply(t[i])
              /\ Says(t[i]) => t[i].value = content'
              /\ Added(t[i]) => content = Absent
              /\ IsReply(t[i]) =>
                    /\ t[i].call \in DOMAIN calls
                    /\ calls[t[i].call].state = "open"
                    /\ calls'[t[i].call].state = "queued"
                    /\ Refreshes(t[i]) => t[i].answer = content',
           \A i, j \in 1..Len(t) :
              IsReply(t[i]) /\ IsReply(t[j]) /\ t[i].call = t[j].call => i = j,
           content' # content =>
              /\ Len(t) >= 1 /\ ~IsReply(t[1])
              /\ content' = Absent => Ends(t[1])
    PROVE  Extends
<1> DEFINE n == Len(inbox)
<1>1. /\ inbox' \in Seq(Message) /\ n \in Nat /\ Len(t) \in Nat /\ Len(inbox') = n + Len(t)
      /\ \A i \in 1..n : inbox'[i] = inbox[i]
      /\ \A i \in 1..Len(t) : inbox'[n + i] = t[i]
  BY Lengthened DEF TypeOK
<1> HIDE DEF n
<1>2. ASSUME NEW i \in (n + 1)..Len(inbox')
      PROVE  i - n \in 1..Len(t) /\ inbox'[i] = t[i - n] /\ (i - n = 1 <=> i = n + 1)
  <2>1. i - n \in 1..Len(t) /\ n + (i - n) = i /\ (i - n = 1 <=> i = n + 1)
    BY <1>1
  <2> QED
    BY <1>1, <2>1
<1>3. ASSUME NEW i \in (n + 1)..Len(inbox')
      PROVE  /\ i # n + 1 => IsReply(inbox'[i])
             /\ Says(inbox'[i]) => inbox'[i].value = content'
             /\ Added(inbox'[i]) => content = Absent
             /\ IsReply(inbox'[i]) =>
                   /\ inbox'[i].call \in DOMAIN calls
                   /\ calls[inbox'[i].call].state = "open"
                   /\ calls'[inbox'[i].call].state = "queued"
                   /\ Refreshes(inbox'[i]) => inbox'[i].answer = content'
  <2> DEFINE q == i - n
  <2>1. q \in 1..Len(t) /\ inbox'[i] = t[q] /\ (q = 1 <=> i = n + 1)
    BY <1>2
  <2> HIDE DEF q
  <2>2. /\ q # 1 => IsReply(t[q])
        /\ Says(t[q]) => t[q].value = content'
        /\ Added(t[q]) => content = Absent
        /\ IsReply(t[q]) =>
              /\ t[q].call \in DOMAIN calls
              /\ calls[t[q].call].state = "open"
              /\ calls'[t[q].call].state = "queued"
              /\ Refreshes(t[q]) => t[q].answer = content'
    BY <2>1
  <2> QED
    BY <2>1, <2>2
<1>4. ASSUME NEW i \in (n + 1)..Len(inbox'), NEW j \in (n + 1)..Len(inbox'),
             IsReply(inbox'[i]), IsReply(inbox'[j]), inbox'[i].call = inbox'[j].call
      PROVE  i = j
  <2> DEFINE q == i - n
             r == j - n
  <2>1. /\ q \in 1..Len(t) /\ inbox'[i] = t[q] /\ r \in 1..Len(t) /\ inbox'[j] = t[r]
        /\ q = r => i = j
    BY <1>1, <1>2
  <2> HIDE DEF q, r
  <2>2. q = r
    BY <1>4, <2>1
  <2> QED
    BY <2>1, <2>2
<1>5. ASSUME content' # content
      PROVE  /\ n + 1 \in 1..Len(inbox') /\ ~IsReply(inbox'[n + 1])
             /\ content' = Absent => Ends(inbox'[n + 1])
  <2>1. 1 \in 1..Len(t) /\ n + 1 \in 1..Len(inbox')
    BY <1>1, <1>5
  <2>2. inbox'[n + 1] = t[1]
    BY <1>1, <2>1
  <2> QED
    BY <1>5, <2>1, <2>2
<1> QED
  BY <1>1, <1>3, <1>4, <1>5 DEF Extends, n

LEMMA OneMore ==
    ASSUME TypeOK, NEW m \in Message, Sent(m),
           Says(m) => m.value = content', Added(m) => content = Absent,
           IsReply(m) =>
              /\ m.call \in DOMAIN calls
              /\ calls[m.call].state = "open" /\ calls'[m.call].state = "queued"
              /\ Refreshes(m) => m.answer = content',
           content' # content => ~IsReply(m) /\ (content' = Absent => Ends(m))
    PROVE  Extends
<1>1. /\ <<m>> \in Seq(Message) /\ inbox' = inbox \o <<m>>
      /\ Len(<<m>>) = 1 /\ <<m>>[1] = m
  BY AppendIsConcat DEF Sent, TypeOK
<1> DEFINE t == <<m>>
<1>2. t \in Seq(Message) /\ inbox' = inbox \o t /\ Len(t) = 1 /\ t[1] = m
  BY <1>1
<1> HIDE DEF t
<1>3. \A i \in 1..Len(t) : i = 1
  BY <1>2
<1>4. \A i \in 1..Len(t) :
         /\ i # 1 => IsReply(t[i])
         /\ Says(t[i]) => t[i].value = content'
         /\ Added(t[i]) => content = Absent
         /\ IsReply(t[i]) =>
               /\ t[i].call \in DOMAIN calls
               /\ calls[t[i].call].state = "open"
               /\ calls'[t[i].call].state = "queued"
               /\ Refreshes(t[i]) => t[i].answer = content'
  BY <1>2, <1>3
<1>5. \A i, j \in 1..Len(t) :
         IsReply(t[i]) /\ IsReply(t[j]) /\ t[i].call = t[j].call => i = j
  BY <1>3
<1>6. content' # content =>
         /\ Len(t) >= 1 /\ ~IsReply(t[1])
         /\ content' = Absent => Ends(t[1])
  BY <1>2
<1> QED
  BY <1>2, <1>4, <1>5, <1>6, Behind

\* One call is answered.
LEMMA OneAnswered ==
    ASSUME TypeOK, NEW c \in DOMAIN calls, calls[c].state = "open", Queued(c)
    PROVE  Answers /\ calls'[c].state = "queued" /\ c \in 1..MaxCalls
<1>1. calls \in Seq(Call) /\ DOMAIN calls = 1..Len(calls) /\ calls[c] \in Call
  BY Domain DEF TypeOK
<1>2. calls' = [d \in DOMAIN calls |-> calls'[d]]
      /\ \A d \in DOMAIN calls :
            calls'[d] = IF d = c THEN [calls[c] EXCEPT !.state = "queued"] ELSE calls[d]
  BY DEF Queued
<1>3. [calls[c] EXCEPT !.state = "queued"] \in Call
      /\ [calls[c] EXCEPT !.state = "queued"].state = "queued"
  BY <1>1, CallFields
<1>4. \A d \in DOMAIN calls : calls'[d] \in Call
  BY <1>1, <1>2, <1>3
<1>5. calls' \in Seq(Call) /\ Len(calls') = Len(calls)
  BY <1>1, <1>2, <1>4, Mapped
<1>6. Answers /\ calls'[c].state = "queued"
  BY <1>2, <1>3, <1>5 DEF Answers
<1>7. Len(calls) \in Nat /\ Len(calls) <= MaxCalls
  BY Domain DEF TypeOK
<1>8. c \in 1..MaxCalls
  BY <1>1, <1>7, ProxyCallAssumption
<1> QED
  BY <1>6, <1>8

\* All that are open are.
LEMMA AllAnswered ==
    ASSUME TypeOK, NEW first, FailAll(first),
           \/ first = inbox /\ content' = content
           \/ first = Append(inbox, [kind |-> "exit"]) /\ content' = Absent
    PROVE  Extends /\ Answers
<1> DEFINE Open == {c \in DOMAIN calls : calls[c].state = "open"}
           Failure(c) == [kind |-> "reply", call |-> c, answer |-> Failed]
<1>1. PICK open \in SetToSeqs(Open) :
         inbox' = first \o [i \in DOMAIN open |-> Failure(open[i])]
  BY DEF FailAll
<1>2. calls \in Seq(Call) /\ DOMAIN calls = 1..Len(calls) /\ DOMAIN calls \subseteq 1..MaxCalls
      /\ IsFiniteSet(DOMAIN calls)
  <2>1. calls \in Seq(Call) /\ Len(calls) \in Nat /\ Len(calls) <= MaxCalls
        /\ DOMAIN calls = 1..Len(calls)
    BY Domain DEF TypeOK
  <2> QED
    BY <2>1, FS_Interval, ProxyCallAssumption
<1>3. PICK k \in Nat : k = Cardinality(Open)
  BY <1>2, FS_Subset, FS_CardinalityType
<1>4. /\ open \in [1..k -> Open] /\ \A i, j \in 1..k : i # j => open[i] # open[j]
  BY <1>1, <1>3 DEF SetToSeqs
<1> DEFINE r == [i \in DOMAIN open |-> Failure(open[i])]
<1>5. \A c \in Open : /\ Failure(c) \in Message /\ Failure(c).kind = "reply"
                      /\ Failure(c).call = c /\ Failure(c).answer = Failed
  BY <1>2, Messages
<1>6. r \in Seq(Message) /\ Len(r) = k /\ \A i \in 1..k : r[i] = Failure(open[i])
  <2>1. r \in [1..k -> Message] /\ \A i \in 1..k : r[i] = Failure(open[i])
    BY <1>4, <1>5
  <2>2. r \in Seq(Message)
    BY <1>3, <2>1, SeqDef
  <2> QED
    BY <1>3, <2>1, <2>2, LenProperties
<1>7. /\ \A c \in DOMAIN calls :
            calls'[c] = IF c \in Open THEN [calls[c] EXCEPT !.state = "queued"] ELSE calls[c]
      /\ calls' = [c \in DOMAIN calls |-> calls'[c]]
  BY DEF FailAll
<1>8. Answers /\ \A c \in Open : calls'[c].state = "queued"
  <2>1. \A c \in DOMAIN calls :
           /\ [calls[c] EXCEPT !.state = "queued"] \in Call
           /\ [calls[c] EXCEPT !.state = "queued"].state = "queued"
    BY <1>2, Domain, CallFields
  <2>2. \A c \in DOMAIN calls : calls'[c] \in Call
    BY <1>2, <1>7, <2>1, Domain
  <2>3. calls' \in Seq(Call) /\ Len(calls') = Len(calls)
    BY <1>2, <1>7, <2>2, Mapped
  <2> QED
    BY <1>7, <2>1, <2>3 DEF Answers
<1>9. \A i \in 1..k : /\ r[i] \in Message /\ IsReply(r[i]) /\ ~Says(r[i]) /\ ~Added(r[i])
                      /\ r[i].call = open[i] /\ r[i].call \in DOMAIN calls
                      /\ calls[r[i].call].state = "open"
                      /\ calls'[r[i].call].state = "queued"
                      /\ ~Refreshes(r[i])
  BY <1>4, <1>5, <1>6, <1>8 DEF IsReply, Says, Added, Refreshes
<1>10. inbox' = first \o r
  BY <1>1
<1> HIDE DEF r, Failure
<1>11. CASE first = inbox /\ content' = content
  <2>1. \A i \in 1..Len(r) :
           /\ i # 1 => IsReply(r[i])
           /\ Says(r[i]) => r[i].value = content'
           /\ Added(r[i]) => content = Absent
           /\ IsReply(r[i]) =>
                 /\ r[i].call \in DOMAIN calls
                 /\ calls[r[i].call].state = "open"
                 /\ calls'[r[i].call].state = "queued"
                 /\ Refreshes(r[i]) => r[i].answer = content'
    BY <1>6, <1>9
  <2>2. \A i, j \in 1..Len(r) :
           IsReply(r[i]) /\ IsReply(r[j]) /\ r[i].call = r[j].call => i = j
    BY <1>4, <1>6, <1>9
  <2>3. Extends
    BY <1>6, <1>10, <1>11, <2>1, <2>2, Behind
  <2> QED
    BY <1>8, <2>3
<1>12. CASE first = Append(inbox, [kind |-> "exit"]) /\ content' = Absent
  <2> DEFINE e == [kind |-> "exit"]
             t == <<e>> \o r
  <2>1. e \in Message /\ e.kind = "exit"
    BY Messages
  <2> HIDE DEF e
  <2>2. <<e>> \in Seq(Message) /\ Len(<<e>>) = 1 /\ <<e>>[1] = e
    BY <2>1
  <2>3. inbox' = inbox \o t
    <3>1. first = inbox \o <<e>>
      BY <1>12, <2>1, AppendIsConcat DEF e, TypeOK
    <3>2. (inbox \o <<e>>) \o r = inbox \o t
      BY <1>6, <2>2, ConcatAssociative DEF TypeOK
    <3> QED
      BY <1>10, <3>1, <3>2
  <2>4. t \in Seq(Message) /\ Len(t) = 1 + k /\ t[1] = e
        /\ \A i \in 1..k : t[1 + i] = r[i]
    BY <1>6, <2>2, Lengthened
  <2> HIDE DEF t
  <2>5. ASSUME NEW i \in 1..Len(t), i # 1
        PROVE  i - 1 \in 1..k /\ t[i] = r[i - 1]
    <3>1. i - 1 \in 1..k /\ 1 + (i - 1) = i
      BY <1>3, <2>4, <2>5
    <3> QED
      BY <2>4, <3>1
  <2>6. ~IsReply(t[1]) /\ ~Says(t[1]) /\ ~Added(t[1]) /\ Ends(t[1]) /\ Len(t) >= 1
    BY <1>3, <2>1, <2>4 DEF IsReply, Says, Added, Ends
  <2>7. ASSUME NEW i \in 1..Len(t)
        PROVE  /\ i # 1 => IsReply(t[i])
               /\ Says(t[i]) => t[i].value = content'
               /\ Added(t[i]) => content = Absent
               /\ IsReply(t[i]) =>
                     /\ t[i].call \in DOMAIN calls
                     /\ calls[t[i].call].state = "open"
                     /\ calls'[t[i].call].state = "queued"
                     /\ Refreshes(t[i]) => t[i].answer = content'
    BY <1>9, <2>5, <2>6
  <2>8. ASSUME NEW i \in 1..Len(t), NEW j \in 1..Len(t),
               IsReply(t[i]), IsReply(t[j]), t[i].call = t[j].call
        PROVE  i = j
    <3>1. i # 1 /\ j # 1
      BY <2>6, <2>8
    <3>2. open[i - 1] = open[j - 1]
      BY <1>9, <2>5, <2>8, <3>1
    <3>3. i - 1 = j - 1
      BY <1>4, <2>5, <3>1, <3>2
    <3> QED
      BY <1>3, <2>4, <3>3
  <2> QED
    BY <1>8, <2>3, <2>4, <2>6, <2>7, <2>8, Behind
<1> QED
  BY <1>11, <1>12

LEMMA NothingAnswered ==
    ASSUME TypeOK, calls' = calls
    PROVE  Answers
BY DEF Answers, TypeOK

LEMMA ServiceSteps ==
    ASSUME Invariant, fault = "none", Service \/ Disconnect \/ \E c \in DOMAIN calls : TimesOut(c)
    PROVE  Invariant'
<1>0. /\ TypeOK /\ content \in Val \union {Absent} /\ events \in 0..MaxEvents /\ online \in BOOLEAN
      /\ ProxyCallAssumption
  BY ProxyCallAssumption DEF Invariant, TypeOK
<1>1. CASE \E v \in Val : ServiceAdds(v)
  <2> PICK v \in Val : ServiceAdds(v)
    BY <1>1
  <2> DEFINE m == [kind |-> "added", value |-> v]
  <2>1. m \in Message /\ m.kind = "added" /\ m.value = v
    BY Messages
  <2>2. Sent(m) /\ content = Absent /\ content' = v /\ calls' = calls
        /\ UNCHANGED <<observed, user>> /\ events' \in 0..MaxEvents /\ online' \in BOOLEAN
    BY <1>0 DEF ServiceAdds, Event
  <2> HIDE DEF m
  <2>3. Extends
    BY <1>0, <2>1, <2>2, OneMore DEF Says, Added, IsReply
  <2> QED
    BY <1>0, <2>2, <2>3, NothingAnswered, Arrivals
<1>2. CASE \E v \in Val, told \in BOOLEAN : ServiceChanges(v, told)
  <2> PICK v \in Val, told \in BOOLEAN : ServiceChanges(v, told)
    BY <1>2
  <2> DEFINE m == IF told THEN [kind |-> "changed", value |-> v] ELSE [kind |-> "invalidated"]
  <2>1. m \in Message /\ m.kind \in {"changed", "invalidated"}
        /\ (m.kind = "changed" => m.value = v)
    BY Messages
  <2>2. Sent(m) /\ content' = v /\ calls' = calls
        /\ UNCHANGED <<observed, user>> /\ events' \in 0..MaxEvents /\ online' \in BOOLEAN
    BY <1>0 DEF ServiceChanges, Event
  <2> HIDE DEF m
  <2>3. Extends
    BY <1>0, <2>1, <2>2, OneMore, ProxyCallAssumption DEF Says, Added, IsReply
  <2> QED
    BY <1>0, <2>2, <2>3, NothingAnswered, Arrivals
<1>3. CASE ServiceRemoves
  <2> DEFINE m == [kind |-> "removed"]
  <2>1. m \in Message /\ m.kind = "removed"
    BY Messages
  <2>2. Sent(m) /\ content' = Absent /\ calls' = calls
        /\ UNCHANGED <<observed, user>> /\ events' \in 0..MaxEvents /\ online' \in BOOLEAN
    BY <1>0, <1>3 DEF ServiceRemoves, Event
  <2> HIDE DEF m
  <2>3. Extends
    BY <1>0, <2>1, <2>2, OneMore DEF Says, Added, IsReply, Ends
  <2> QED
    BY <1>0, <2>2, <2>3, NothingAnswered, Arrivals
<1>4. CASE ServiceExits
  <2>1. FailAll(Append(inbox, [kind |-> "exit"])) /\ content' = Absent
        /\ UNCHANGED <<observed, user>> /\ events' \in 0..MaxEvents /\ online' \in BOOLEAN
    BY <1>0, <1>4 DEF ServiceExits, Event
  <2>2. Extends /\ Answers
    BY <1>0, <2>1, AllAnswered
  <2> QED
    BY <2>1, <2>2, Arrivals
<1>5. CASE Disconnect
  <2>1. FailAll(inbox) /\ content' = content /\ events' = events /\ online' = FALSE
        /\ UNCHANGED <<observed, user>>
    BY <1>5 DEF Disconnect
  <2>2. Extends /\ Answers
    BY <1>0, <2>1, AllAnswered
  <2> QED
    BY <1>0, <2>1, <2>2, Arrivals
<1>6. CASE \E c \in DOMAIN calls : TimesOut(c)
  <2> PICK c \in DOMAIN calls : TimesOut(c)
    BY <1>6
  <2> DEFINE m == [kind |-> "reply", call |-> c, answer |-> Failed]
  <2>1. Sent(m) /\ calls[c].state = "open" /\ Queued(c)
        /\ UNCHANGED <<observed, content, events, online, user>>
    BY DEF TimesOut
  <2>2. Answers /\ calls'[c].state = "queued" /\ c \in 1..MaxCalls
    BY <1>0, <2>1, OneAnswered
  <2>3. m \in Message /\ m.kind = "reply" /\ m.call = c /\ m.answer = Failed
    BY <2>2, Messages
  <2> HIDE DEF m
  <2>4. Extends
    BY <1>0, <2>1, <2>2, <2>3, OneMore DEF Says, Added, IsReply, Refreshes
  <2> QED
    BY <1>0, <2>1, <2>2, <2>4, Arrivals
<1>7. CASE \E c \in DOMAIN calls, a \in Val \union {Failed} : ServiceAnswers(c, a)
  <2> PICK c \in DOMAIN calls, a \in Val \union {Failed} : ServiceAnswers(c, a)
    BY <1>7
  <2> DEFINE changes == calls[c].kind = "set" /\ a # Failed /\ calls[c].value # content
             s == [kind |-> "changed", value |-> a]
             m == [kind |-> "reply", call |-> c, answer |-> a]
             x == IF changes THEN <<s>> ELSE <<>>
  <2>1. /\ calls[c].state = "open" /\ Queued(c)
        /\ content = Absent => a = Failed
        /\ calls[c].kind = "refresh" => a \in {Failed, content}
        /\ content' = IF changes THEN a ELSE content
        /\ inbox' = (inbox \o x) \o <<m>>
        /\ UNCHANGED <<observed, events, online, user>>
    BY DEF ServiceAnswers
  <2>2. Answers /\ calls'[c].state = "queued" /\ c \in 1..MaxCalls
    BY <1>0, <2>1, OneAnswered
  <2>3. m \in Message /\ m.kind = "reply" /\ m.call = c /\ m.answer = a
    BY <2>2, Messages
  <2>4. changes => s \in Message /\ s.kind = "changed" /\ s.value = a /\ a \in Val
    BY Messages
  <2>5. content' \in Val \union {Absent}
    BY <1>0, <2>1
  <2> HIDE DEF m, s
  <2>6. IsReply(m) /\ ~Says(m) /\ ~Added(m) /\ (Refreshes(m) => a = content)
    BY <2>1, <2>3 DEF IsReply, Says, Added, Refreshes
  <2>7. CASE changes
    <3> DEFINE t == <<s>> \o <<m>>
    <3>1. t \in Seq(Message) /\ Len(t) = 2 /\ t[1] = s /\ t[2] = m
      BY <2>3, <2>4, <2>7
    <3>2. inbox' = inbox \o t
      <4>1. <<s>> \in Seq(Message) /\ <<m>> \in Seq(Message)
        BY <2>3, <2>4, <2>7
      <4>2. inbox' = (inbox \o <<s>>) \o <<m>>
        BY <2>1, <2>7
      <4> QED
        BY <1>0, <4>1, <4>2, ConcatAssociative DEF TypeOK
    <3> HIDE DEF t
    <3>3. ~IsReply(s) /\ ~Added(s) /\ s.value = content' /\ content' # Absent
      BY <2>1, <2>4, <2>7, ProxyCallAssumption DEF IsReply, Added
    <3>4. ~Refreshes(m)
      BY <2>3, <2>7 DEF Refreshes
    <3>5. \A i \in 1..Len(t) : i = 1 \/ i = 2
      BY <3>1
    <3>6. Extends
      BY <1>0, <2>1, <2>2, <2>3, <2>6, <3>1, <3>2, <3>3, <3>4, <3>5, Behind
    <3> QED
      BY <1>0, <2>1, <2>2, <2>5, <3>6, Arrivals
  <2>8. CASE ~changes
    <3>1. inbox' = Append(inbox, m) /\ content' = content
      <4>1. inbox \o <<>> = inbox
        BY <1>0, ConcatEmptySeq DEF TypeOK
      <4>2. inbox' = inbox \o <<m>>
        BY <2>1, <2>8, <4>1
      <4> QED
        BY <1>0, <2>1, <2>3, <2>8, <4>2, AppendIsConcat DEF TypeOK
    <3>2. Sent(m)
      BY <3>1 DEF Sent
    <3>3. Extends
      BY <1>0, <2>1, <2>2, <2>3, <2>6, <3>1, <3>2, OneMore
    <3> QED
      BY <1>0, <2>1, <2>2, <2>5, <3>3, Arrivals
  <2> QED
    BY <2>7, <2>8
<1> QED
  BY <1>1, <1>2, <1>3, <1>4, <1>5, <1>6, <1>7 DEF Service

-----------------------------------------------------------------------------
(* Proxies and calls that change one field or two. *)

LEMMA CallSet ==
    ASSUME TypeOK, NEW c \in DOMAIN calls, NEW q \in Call, calls' = [calls EXCEPT ![c] = q]
    PROVE  /\ calls' \in Seq(Call) /\ Len(calls') = Len(calls) /\ DOMAIN calls' = DOMAIN calls
           /\ \A d \in DOMAIN calls : calls'[d] = IF d = c THEN q ELSE calls[d]
<1>1. /\ calls' = [d \in DOMAIN calls |-> calls'[d]]
      /\ \A d \in DOMAIN calls : calls'[d] = IF d = c THEN q ELSE calls[d]
  OBVIOUS
<1>2. \A d \in DOMAIN calls : calls'[d] \in Call
  BY <1>1, Domain DEF TypeOK
<1> QED
  BY <1>1, <1>2, Mapped DEF TypeOK

LEMMA ProxySet ==
    ASSUME NEW ps \in Seq(Proxy), NEW p \in DOMAIN ps, NEW q \in Proxy, NEW t,
           t = [ps EXCEPT ![p] = q]
    PROVE  /\ t \in Seq(Proxy) /\ Len(t) = Len(ps) /\ DOMAIN t = DOMAIN ps
           /\ \A d \in DOMAIN ps : t[d] = IF d = p THEN q ELSE ps[d]
<1>1. /\ t = [d \in DOMAIN ps |-> t[d]]
      /\ \A d \in DOMAIN ps : t[d] = IF d = p THEN q ELSE ps[d]
  OBVIOUS
<1>2. \A d \in DOMAIN ps : t[d] \in Proxy
  BY <1>1, Domain
<1> QED
  BY <1>1, <1>2, Mapped

LEMMA ProxyFields ==
    ASSUME NEW q \in Proxy
    PROVE  /\ q.linked \in BOOLEAN /\ q.listed \in BOOLEAN /\ q.refs \in 0..1
           /\ q.value \in Val \union {Absent} /\ q.removals \in Nat
BY DEF Proxy

LEMMA Ended ==
    ASSUME NEW q \in Proxy
    PROVE  LET r == Removed(Unlinked(q))
               s == Delisted(r)
           IN  /\ r \in Proxy /\ ~r.linked /\ r.listed = q.listed /\ r.refs = q.refs
               /\ r.removals = q.removals + 1
               /\ s \in Proxy /\ ~s.linked /\ ~s.listed /\ s.refs = q.refs
               /\ s.removals = q.removals + 1
<1> DEFINE u == Unlinked(q)
           r == Removed(u)
           s == Delisted(r)
<1>1. /\ u \in Proxy /\ ~u.linked /\ u.listed = q.listed /\ u.refs = q.refs
      /\ u.removals = q.removals
  BY DEF Proxy, Unlinked
<1> HIDE DEF u
<1>2. /\ r \in Proxy /\ ~r.linked /\ r.listed = u.listed /\ r.refs = u.refs
      /\ r.removals = u.removals + 1
  BY <1>1 DEF Proxy, Removed
<1> HIDE DEF r
<1>3. /\ s \in Proxy /\ ~s.linked /\ ~s.listed /\ s.refs = r.refs
      /\ s.removals = r.removals
  BY <1>2 DEF Proxy, Delisted
<1> QED
  BY <1>1, <1>2, <1>3 DEF u, r

\* All that was listed has lost its client.
LEMMA AllFreed ==
    ASSUME NEW ps \in Seq(Proxy), NEW t, t = Freed(ps)
    PROVE  /\ t \in Seq(Proxy) /\ Len(t) = Len(ps) /\ DOMAIN t = DOMAIN ps
           /\ \A p \in DOMAIN ps :
                 /\ t[p].refs = ps[p].refs /\ ~t[p].listed
                 /\ ~ps[p].listed => t[p] = ps[p]
                 /\ ps[p].listed => ~t[p].linked /\ t[p].removals = ps[p].removals + 1
<1>1. /\ t = [p \in DOMAIN ps |-> t[p]]
      /\ \A p \in DOMAIN ps :
            t[p] = IF ps[p].listed THEN Delisted(Removed(Unlinked(ps[p]))) ELSE ps[p]
  BY DEF Freed
<1>2. ASSUME NEW p \in DOMAIN ps
      PROVE  /\ t[p] \in Proxy
             /\ t[p].refs = ps[p].refs /\ ~t[p].listed
             /\ ~ps[p].listed => t[p] = ps[p]
             /\ ps[p].listed => ~t[p].linked /\ t[p].removals = ps[p].removals + 1
  <2>1. ps[p] \in Proxy
    BY Domain
  <2> QED
    BY <1>1, <2>1, Ended, ProxyFields
<1>3. t \in Seq(Proxy) /\ Len(t) = Len(ps) /\ DOMAIN t = DOMAIN ps
  BY <1>1, <1>2, Mapped
<1> QED
  BY <1>2, <1>3

\* One proxy has a client at most.
LEMMA OneLinked ==
    ASSUME TypeOK
    PROVE  \A p, q \in Linked : p = q
BY DEF TypeOK, Linked

-----------------------------------------------------------------------------
(* The main loop hands out the first message. *)

LEMMA First ==
    ASSUME TypeOK, inbox # <<>>, inbox' = Tail(inbox)
    PROVE  LET n == Len(inbox)
           IN  /\ n \in Nat /\ n >= 1 /\ DOMAIN inbox = 1..n /\ DOMAIN inbox' = 1..(n - 1)
               /\ inbox' \in Seq(Message) /\ Len(inbox') = n - 1
               /\ Head(inbox) = inbox[1] /\ Head(inbox) \in Message
               /\ 1 \in 1..n
               /\ \A i \in 1..(n - 1) : inbox'[i] = inbox[i + 1] /\ i + 1 \in 1..n
               /\ \A i \in 1..n : i # 1 =>
                     i - 1 \in 1..(n - 1) /\ inbox'[i - 1] = inbox[i]
<1> DEFINE n == Len(inbox)
<1>1. /\ inbox \in Seq(Message) /\ n \in Nat /\ n >= 1 /\ DOMAIN inbox = 1..n
      /\ 1 \in 1..n
  BY Domain, EmptySeq DEF TypeOK
<1>2. /\ inbox' \in Seq(Message) /\ Len(inbox') = n - 1
      /\ \A i \in 1..(n - 1) : inbox'[i] = inbox[i + 1]
      /\ Head(inbox) = inbox[1]
  BY <1>1, HeadTailProperties
<1>3. DOMAIN inbox' = 1..(n - 1) /\ inbox[1] \in Message
  BY <1>1, <1>2, Domain
<1> HIDE DEF n
<1>4. \A i \in 1..(n - 1) : i + 1 \in 1..n
  BY <1>1
<1>5. ASSUME NEW i \in 1..n, i # 1
      PROVE  i - 1 \in 1..(n - 1) /\ inbox'[i - 1] = inbox[i]
  <2>1. i - 1 \in 1..(n - 1) /\ (i - 1) + 1 = i
    BY <1>1, <1>5
  <2> QED
    BY <1>2, <2>1
<1> QED
  BY <1>1, <1>2, <1>3, <1>4, <1>5 DEF n

\* What the messages behind it are good for stays, when the handler of the first
\* does what that message is for.
LEMMA Taken ==
    ASSUME Invariant, inbox # <<>>, inbox' = Tail(inbox), running = Idle,
           observed' = observed, content' = content,
           NEW m, m = Head(inbox),
           DOMAIN calls' = DOMAIN calls,
           \A c \in DOMAIN calls :
              /\ calls'[c].kind = calls[c].kind /\ calls'[c].proxy = calls[c].proxy
              /\ \/ calls'[c].state = calls[c].state
                 \/ IsReply(m) /\ c = m.call /\ calls'[c].state \in {"running", "done"},
           DOMAIN proxies \subseteq DOMAIN proxies',
           \A p \in DOMAIN proxies : proxies'[p].refs = proxies[p].refs,
           Present' => \/ Present /\ ~Ends(m)
                       \/ Added(m),
           \A p \in Linked' : running'.in # "removed" =>
              \/ IsReply(m) /\ p \in Linked /\ proxies'[p].value = proxies[p].value
              \/ Says(m) /\ proxies'[p].value = m.value
              \/ Refreshes(m) /\ proxies'[p].value = m.answer
              \/ proxies'[p].value = Absent
    PROVE  RepliesOK' /\ HoldsOK' /\ StoryOK' /\ WordsOK'
<1> DEFINE n == Len(inbox)
<1> USE DEF Invariant
<1>1. /\ n \in Nat /\ n >= 1 /\ DOMAIN inbox = 1..n /\ DOMAIN inbox' = 1..(n - 1)
      /\ m = inbox[1] /\ 1 \in 1..n
      /\ \A i \in 1..(n - 1) : inbox'[i] = inbox[i + 1] /\ i + 1 \in 1..n
      /\ \A i \in 1..n : i # 1 => i - 1 \in 1..(n - 1) /\ inbox'[i - 1] = inbox[i]
  BY First
<1> HIDE DEF n
<1>2. RepliesOK'
  <2>1. \A c \in DOMAIN calls' : calls'[c].proxy \in DOMAIN proxies'
    BY DEF RepliesOK
  <2>2. ASSUME NEW i \in 1..(n - 1), IsReply(inbox'[i])
        PROVE  inbox'[i].call \in DOMAIN calls' /\ calls'[inbox'[i].call].state = "queued"
    <3> DEFINE x == inbox[i + 1]
               c == x.call
    <3>1. inbox'[i] = x /\ IsReply(x) /\ i + 1 \in DOMAIN inbox
      BY <1>1, <2>2
    <3>2. c \in DOMAIN calls /\ calls[c].state = "queued"
      BY <3>1 DEF RepliesOK
    <3>3. ~(IsReply(m) /\ c = m.call)
      <4>1. i + 1 # 1 /\ 1 \in DOMAIN inbox
        BY <1>1
      <4> QED
        BY <1>1, <3>1, <4>1 DEF RepliesOK
    <3> QED
      BY <3>1, <3>2, <3>3
  <2>3. ASSUME NEW i \in 1..(n - 1), NEW j \in 1..(n - 1),
               IsReply(inbox'[i]), IsReply(inbox'[j]), inbox'[i].call = inbox'[j].call
        PROVE  i = j
    <3>1. i + 1 = j + 1
      BY <1>1, <2>3 DEF RepliesOK
    <3> QED
      BY <3>1
  <2> QED
    BY <1>1, <2>1, <2>2, <2>3 DEF RepliesOK
<1>3. HoldsOK'
  <2> SUFFICES ASSUME "holds" \in observed, NEW c \in DOMAIN calls,
                      calls'[c].kind = "refresh", calls'[c].state \in {"open", "queued"}
               PROVE  proxies'[calls'[c].proxy].refs = 1
    BY DEF HoldsOK
  <2>1. calls[c].kind = "refresh" /\ calls[c].state \in {"open", "queued"}
        /\ calls'[c].proxy = calls[c].proxy
    OBVIOUS
  <2>2. proxies[calls[c].proxy].refs = 1 /\ calls[c].proxy \in DOMAIN proxies
    BY <2>1 DEF HoldsOK, RepliesOK
  <2> QED
    BY <2>1, <2>2
<1>4. StoryOK'
  <2>1. ASSUME NEW i \in 1..(n - 1), Added(inbox'[i]), Present'
        PROVE  \E k \in 1..(n - 1) : k < i /\ Ends(inbox'[k])
    <3>1. i + 1 \in 1..n /\ Added(inbox[i + 1]) /\ 1 < i + 1
      BY <1>1, <2>1
    <3>2. \E k \in 1..n : k < i + 1 /\ k # 1 /\ Ends(inbox[k])
      <4>1. CASE Present /\ ~Ends(m)
        BY <1>1, <3>1, <4>1 DEF StoryOK
      <4>2. CASE Added(m)
        <5>1. PICK k \in 1..n : 1 < k /\ k < i + 1 /\ Ends(inbox[k])
          BY <1>1, <3>1, <4>2 DEF StoryOK
        <5> QED
          BY <5>1
      <4> QED
        BY <2>1, <4>1, <4>2
    <3>3. PICK k \in 1..n : k < i + 1 /\ k # 1 /\ Ends(inbox[k])
      BY <3>2
    <3>4. k - 1 \in 1..(n - 1) /\ inbox'[k - 1] = inbox[k] /\ k - 1 < i
      BY <1>1, <3>3
    <3> QED
      BY <3>3, <3>4
  <2>2. ASSUME NEW i \in 1..(n - 1), NEW j \in 1..(n - 1), i < j,
               Added(inbox'[i]), Added(inbox'[j])
        PROVE  \E k \in 1..(n - 1) : i < k /\ k < j /\ Ends(inbox'[k])
    <3>1. i + 1 \in 1..n /\ j + 1 \in 1..n /\ Added(inbox[i + 1]) /\ Added(inbox[j + 1])
          /\ i + 1 < j + 1
      BY <1>1, <2>2
    <3>2. PICK k \in 1..n : i + 1 < k /\ k < j + 1 /\ Ends(inbox[k])
      BY <1>1, <3>1 DEF StoryOK
    <3>3. k - 1 \in 1..(n - 1) /\ inbox'[k - 1] = inbox[k] /\ i < k - 1 /\ k - 1 < j
      BY <1>1, <3>2
    <3> QED
      BY <3>2, <3>3
  <2>3. ASSUME content = Absent, Present'
        PROVE  \E k \in 1..(n - 1) : Ends(inbox'[k])
    <3>1. \E k \in 1..n : k # 1 /\ Ends(inbox[k])
      <4>1. CASE Present /\ ~Ends(m)
        BY <1>1, <2>3, <4>1 DEF StoryOK
      <4>2. CASE Added(m)
        <5>1. PICK k \in 1..n : 1 < k /\ Ends(inbox[k])
          BY <1>1, <2>3, <4>2 DEF StoryOK
        <5> QED
          BY <5>1
      <4> QED
        BY <2>3, <4>1, <4>2
    <3> QED
      BY <1>1, <3>1
  <2>4. ASSUME content = Absent, NEW i \in 1..(n - 1), Added(inbox'[i])
        PROVE  \E k \in 1..(n - 1) : i < k /\ Ends(inbox'[k])
    <3>1. i + 1 \in 1..n /\ Added(inbox[i + 1])
      BY <1>1, <2>4
    <3>2. PICK k \in 1..n : i + 1 < k /\ Ends(inbox[k])
      BY <1>1, <2>4, <3>1 DEF StoryOK
    <3>3. k - 1 \in 1..(n - 1) /\ inbox'[k - 1] = inbox[k] /\ i < k - 1
      BY <1>1, <3>2
    <3> QED
      BY <3>2, <3>3
  <2> QED
    BY <1>1, <2>1, <2>2, <2>3, <2>4 DEF StoryOK
<1>5. WordsOK'
  <2>1. ASSUME NEW i \in 1..(n - 1), Latest(i)'
        PROVE  /\ Says(inbox'[i]) => inbox'[i].value = content'
               /\ Refreshes(inbox[i])' => inbox'[i].answer = content'
    <3> DEFINE x == inbox[i + 1]
    <3>1. inbox'[i] = x /\ i + 1 \in 1..n
      BY <1>1
    <3>2. Latest(i + 1)
      <4> SUFFICES ASSUME NEW j \in 1..n, i + 1 < j PROVE IsReply(inbox[j])
        BY <1>1 DEF Latest
      <4>1. j - 1 \in 1..(n - 1) /\ inbox'[j - 1] = inbox[j] /\ i < j - 1
        BY <1>1
      <4> QED
        BY <1>1, <2>1, <4>1 DEF Latest
    <3>3. Says(x) => x.value = content
      BY <1>1, <3>1, <3>2 DEF WordsOK
    <3>4. Refreshes(x) => x.answer = content
      BY <1>1, <3>1, <3>2 DEF WordsOK
    <3>5. Refreshes(inbox[i])' => Refreshes(x)
      <4> SUFFICES ASSUME Refreshes(inbox[i])' PROVE Refreshes(x)
        OBVIOUS
      <4>1. IsReply(x)
        BY <3>1 DEF Refreshes, IsReply
      <4>2. x.call \in DOMAIN calls
        BY <1>1, <3>1, <4>1 DEF RepliesOK
      <4> QED
        BY <3>1, <4>1, <4>2 DEF Refreshes
    <3> QED
      BY <3>1, <3>3, <3>4, <3>5
  <2>2. ASSUME \A i \in 1..(n - 1) : IsReply(inbox'[i]), NEW p \in Linked',
               running'.in # "removed"
        PROVE  proxies'[p].value \in {content', Absent}
    <3>1. \A j \in 1..n : j # 1 => IsReply(inbox[j])
      BY <1>1, <2>2
    <3>2. Latest(1)
      BY <1>1, <3>1 DEF Latest
    <3>3. CASE IsReply(m) /\ p \in Linked /\ proxies'[p].value = proxies[p].value
      <4>1. \A j \in DOMAIN inbox : IsReply(inbox[j])
        BY <1>1, <3>1, <3>3
      <4>2. running.in # "removed"
        BY DEF Idle
      <4> QED
        BY <3>3, <4>1, <4>2 DEF WordsOK
    <3>4. CASE Says(m) /\ proxies'[p].value = m.value
      BY <1>1, <3>2, <3>4 DEF WordsOK
    <3>5. CASE Refreshes(m) /\ proxies'[p].value = m.answer
      BY <1>1, <3>2, <3>5 DEF WordsOK
    <3> QED
      BY <2>2, <3>3, <3>4, <3>5
  <2> QED
    BY <1>1, <2>1, <2>2 DEF WordsOK, Says
<1> QED
  BY <1>2, <1>3, <1>4, <1>5

\* The function of a call runs, and has returned.  A refresh is both at once.
Ran(q) == [q EXCEPT !.state = "running", !.ran = @ + 1]
Finished(q) == [q EXCEPT !.state = "done", !.destroyed = @ + 1]

LEMMA CallRuns ==
    ASSUME NEW q \in Call
    PROVE  /\ Ran(q) \in Call /\ Ran(q).kind = q.kind /\ Ran(q).proxy = q.proxy
           /\ Ran(q).state = "running"
           /\ Ran(q).ran = q.ran + 1 /\ Ran(q).destroyed = q.destroyed
<1> DEFINE u == [q EXCEPT !.state = "running"]
<1>1. Ran(q) = [u EXCEPT !.ran = @ + 1]
  BY DEF Call, Ran
<1>2. /\ u \in Call /\ u.kind = q.kind /\ u.proxy = q.proxy /\ u.state = "running"
      /\ u.ran = q.ran /\ u.destroyed = q.destroyed
  BY CallFields
<1> HIDE DEF u
<1>3. /\ Ran(q) \in Call /\ Ran(q).kind = u.kind /\ Ran(q).proxy = u.proxy
      /\ Ran(q).state = u.state /\ Ran(q).ran = u.ran + 1
      /\ Ran(q).destroyed = u.destroyed
  BY <1>1, <1>2 DEF Call
<1> QED
  BY <1>2, <1>3

LEMMA CallEnds ==
    ASSUME NEW q \in Call
    PROVE  /\ Finished(q) \in Call /\ Finished(q).kind = q.kind
           /\ Finished(q).proxy = q.proxy /\ Finished(q).state = "done"
           /\ Finished(q).ran = q.ran /\ Finished(q).destroyed = q.destroyed + 1
<1> DEFINE u == [q EXCEPT !.state = "done"]
           r == Finished(q)
<1>1. r = [u EXCEPT !.destroyed = @ + 1]
  BY DEF Call, Finished
<1>2. /\ u \in Call /\ u.kind = q.kind /\ u.proxy = q.proxy /\ u.state = "done"
      /\ u.ran = q.ran /\ u.destroyed = q.destroyed
  BY CallFields
<1> HIDE DEF u
<1>3. /\ r \in Call /\ r.kind = u.kind /\ r.proxy = u.proxy /\ r.state = u.state
      /\ r.ran = u.ran /\ r.destroyed = u.destroyed + 1
  BY <1>1, <1>2 DEF Call
<1> QED
  BY <1>2, <1>3

\* A handler that calls no user's function, or one for a proxy that there is
LEMMA AddedStep ==
    ASSUME Invariant, fault = "none", running = Idle, inbox # <<>>, inbox' = Tail(inbox),
           UNCHANGED <<observed, content, events, online, client>>,
           NEW m, m = Head(inbox), InterfacesAdded(m)
    PROVE  Invariant'
<1> USE DEF Invariant
<1> DEFINE new == [linked |-> TRUE, listed |-> TRUE, refs |-> 0,
                   value |-> m.value, removals |-> 0]
           k == Len(proxies) + 1
<1>1. /\ m.kind = "added" /\ Len(proxies) < MaxProxies
      /\ proxies' = Append(proxies, new)
      /\ running' = [in |-> "added", of |-> k, by |-> "added", used |-> TRUE]
      /\ calls' = calls /\ fault' = fault
  BY DEF InterfacesAdded, Runs
<1>2. m \in Message /\ m.value \in Val /\ inbox' \in Seq(Message)
      /\ m = inbox[1] /\ 1 \in DOMAIN inbox /\ DOMAIN inbox \subseteq Nat \ {0}
  <2>1. /\ m \in Message /\ inbox' \in Seq(Message) /\ m = inbox[1]
        /\ 1 \in 1..Len(inbox) /\ DOMAIN inbox = 1..Len(inbox) /\ Len(inbox) \in Nat
    BY First
  <2> QED
    BY <1>1, <2>1, MessageType
<1>3. Linked = {}
  <2> SUFFICES ASSUME Linked # {} PROVE FALSE
    OBVIOUS
  <2>1. Present
    BY DEF Present, Idle
  <2>2. PICK j \in DOMAIN inbox : j < 1
    BY <1>1, <1>2, <2>1 DEF StoryOK, Added
  <2> QED
    BY <1>2, <2>2
<1>4. new \in Proxy /\ new.linked /\ new.listed /\ new.refs = 0 /\ new.value = m.value
      /\ new.removals = 0
  BY <1>2 DEF Proxy
<1> HIDE DEF new
<1>5. /\ proxies' \in Seq(Proxy) /\ Len(proxies') = k /\ DOMAIN proxies' = 1..k
      /\ k \in Nat /\ k <= MaxProxies
      /\ DOMAIN proxies = 1..Len(proxies) /\ Len(proxies) \in Nat
      /\ proxies'[k] = new
      /\ \A p \in 1..Len(proxies) : proxies'[p] = proxies[p]
  <2>1. /\ proxies' \in Seq(Proxy) /\ Len(proxies') = k /\ proxies'[k] = new
        /\ \A p \in 1..Len(proxies) : proxies'[p] = proxies[p]
    BY <1>1, <1>4, AppendProperties DEF TypeOK
  <2>2. DOMAIN proxies' = 1..k /\ DOMAIN proxies = 1..Len(proxies) /\ Len(proxies) \in Nat
    BY <2>1, Domain DEF TypeOK
  <2> QED
    BY <1>1, <2>1, <2>2, ProxyCallAssumption
<1>6. \A p \in DOMAIN proxies' : p = k \/ (p \in DOMAIN proxies /\ proxies'[p] = proxies[p])
  BY <1>5
<1>7. \A p \in DOMAIN proxies : ~proxies[p].linked
  BY <1>3 DEF Linked
<1> HIDE DEF k
<1>8. running' \in Callback /\ running'.in = "added" /\ running'.of = k
  BY <1>1, <1>5 DEF Callback
<1>9. TypeOK'
  <2>1. \A p \in DOMAIN proxies' : proxies'[p].linked => p = Len(proxies')
    BY <1>5, <1>6, <1>7
  <2>2. \A p \in DOMAIN proxies' : proxies'[p].linked => proxies'[p].listed
    BY <1>4, <1>5, <1>6, <1>7
  <2> QED
    BY <1>1, <1>2, <1>5, <1>8, <2>1, <2>2 DEF TypeOK
<1>10. CalledOnce'
  BY <1>1, <1>4, <1>5, <1>6 DEF CalledOnce
<1>11. NoFault'
  BY <1>1 DEF NoFault
<1>12. ProxiesOK'
  <2>1. ~(running.in = "gone")
    BY DEF Idle
  <2> QED
    BY <1>4, <1>5, <1>6, <1>7, <2>1 DEF ProxiesOK
<1>13. RunningOK'
  BY <1>8 DEF RunningOK
<1>14. \A p \in Linked' : Says(m) /\ proxies'[p].value = m.value
  BY <1>1, <1>4, <1>5, <1>6, <1>7 DEF Linked, Says
<1>15. RepliesOK' /\ HoldsOK' /\ StoryOK' /\ WordsOK'
  <2>1. DOMAIN proxies \subseteq DOMAIN proxies'
        /\ \A p \in DOMAIN proxies : proxies'[p].refs = proxies[p].refs
    BY <1>5 DEF k
  <2> QED
    BY <1>1, <1>14, <2>1, Taken DEF Added
<1> QED
  BY <1>9, <1>10, <1>11, <1>12, <1>13, <1>15

\* What a proxy remembers is replaced, whatever it was.
LEMMA ValueSet ==
    ASSUME TypeOK, CalledOnce, NEW p \in DOMAIN proxies, NEW v \in Val \union {Absent},
           AddProperty(p, v)
    PROVE  /\ proxies' \in Seq(Proxy) /\ Len(proxies') = Len(proxies)
           /\ DOMAIN proxies' = DOMAIN proxies /\ Linked' = Linked
           /\ proxies'[p].value = v
           /\ \A d \in DOMAIN proxies :
                 /\ d # p => proxies'[d] = proxies[d]
                 /\ proxies'[d].linked = proxies[d].linked
                 /\ proxies'[d].listed = proxies[d].listed
                 /\ proxies'[d].refs = proxies[d].refs
                 /\ proxies'[d].removals = proxies[d].removals
<1> DEFINE q == [proxies[p] EXCEPT !.value = v]
<1>1. proxies \in Seq(Proxy) /\ proxies[p] \in Proxy
  BY Domain DEF TypeOK
<1>2. /\ q \in Proxy /\ q.linked = proxies[p].linked /\ q.listed = proxies[p].listed
      /\ q.refs = proxies[p].refs /\ q.removals = proxies[p].removals /\ q.value = v
  BY <1>1 DEF Proxy
<1>3. proxies' = [proxies EXCEPT ![p] = q]
  BY DEF AddProperty
<1> HIDE DEF q
<1>4. /\ proxies' \in Seq(Proxy) /\ Len(proxies') = Len(proxies)
      /\ DOMAIN proxies' = DOMAIN proxies
      /\ \A d \in DOMAIN proxies : proxies'[d] = IF d = p THEN q ELSE proxies[d]
  BY <1>1, <1>2, <1>3, ProxySet
<1>5. Linked' = Linked
  BY <1>2, <1>4 DEF Linked
<1> QED
  BY <1>2, <1>4, <1>5

\* What the parts about proxies and calls need of such a step.
LEMMA ValueSetKeeps ==
    ASSUME Invariant, running = Idle, NEW p \in DOMAIN proxies, NEW v \in Val \union {Absent},
           AddProperty(p, v), fault' = fault, running' \in Callback,
           running'.in = "changed"
    PROVE  /\ ProxiesOK' /\ RunningOK'
           /\ \A d \in DOMAIN proxies' : proxies'[d].linked => d = Len(proxies')
           /\ fault' = "none" =>
                \A d \in DOMAIN proxies' : proxies'[d].linked => proxies'[d].listed
           /\ \A d \in DOMAIN proxies' :
                proxies'[d].removals = (IF proxies'[d].linked THEN 0 ELSE 1)
<1> USE DEF Invariant
<1>1. /\ DOMAIN proxies' = DOMAIN proxies /\ Len(proxies') = Len(proxies)
      /\ \A d \in DOMAIN proxies :
            /\ proxies'[d].linked = proxies[d].linked
            /\ proxies'[d].listed = proxies[d].listed
            /\ proxies'[d].removals = proxies[d].removals
  BY ValueSet
<1>2. running.in # "gone"
  BY DEF Idle
<1>3. ProxiesOK'
  BY <1>1, <1>2 DEF ProxiesOK
<1>4. RunningOK'
  BY DEF RunningOK
<1>5. \A d \in DOMAIN proxies : proxies[d].linked => d = Len(proxies)
  BY DEF TypeOK
<1>6. \A d \in DOMAIN proxies : proxies[d].removals = (IF proxies[d].linked THEN 0 ELSE 1)
  BY DEF CalledOnce
<1>7. \A d \in DOMAIN proxies : proxies[d].linked => proxies[d].listed
  BY DEF ProxiesOK
<1> QED
  BY <1>1, <1>3, <1>4, <1>5, <1>6, <1>7

LEMMA ChangedStep ==
    ASSUME Invariant, fault = "none", running = Idle, inbox # <<>>, inbox' = Tail(inbox),
           UNCHANGED <<observed, content, events, online, client>>,
           NEW m, m = Head(inbox), NEW p \in DOMAIN proxies, PropertiesChanged(m, p)
    PROVE  Invariant'
<1> USE DEF Invariant
<1> DEFINE v == IF m.kind = "changed" THEN m.value ELSE Absent
<1>1. /\ m.kind \in {"changed", "invalidated"} /\ p \in Linked
      /\ AddProperty(p, v) /\ calls' = calls /\ fault' = fault
      /\ running' = [in |-> "changed", of |-> p, by |-> "changed", used |-> TRUE]
  BY DEF PropertiesChanged, Runs
<1>2. m \in Message /\ inbox' \in Seq(Message) /\ v \in Val \union {Absent}
  <2>1. m \in Message /\ inbox' \in Seq(Message)
    BY First
  <2> QED
    BY <2>1, MessageType
<1>3. v = Absent \/ (Says(m) /\ v = m.value)
  BY <1>1 DEF Says
<1> HIDE DEF v
<1>4. running' \in Callback /\ running'.in = "changed"
  <2>1. p \in Nat
    BY Domain DEF TypeOK
  <2> QED
    BY <1>1, <2>1 DEF Callback
<1>5. /\ proxies' \in Seq(Proxy) /\ Len(proxies') = Len(proxies)
      /\ DOMAIN proxies' = DOMAIN proxies /\ Linked' = Linked
      /\ proxies'[p].value = v
      /\ \A d \in DOMAIN proxies : proxies'[d].refs = proxies[d].refs
  BY <1>1, <1>2, ValueSet
<1>6. /\ ProxiesOK' /\ RunningOK'
      /\ \A d \in DOMAIN proxies' : proxies'[d].linked => d = Len(proxies')
      /\ fault' = "none" =>
           \A d \in DOMAIN proxies' : proxies'[d].linked => proxies'[d].listed
      /\ \A d \in DOMAIN proxies' :
           proxies'[d].removals = (IF proxies'[d].linked THEN 0 ELSE 1)
  BY <1>1, <1>2, <1>4, ValueSetKeeps
<1>7. TypeOK'
  BY <1>1, <1>2, <1>4, <1>5, <1>6 DEF TypeOK
<1>8. CalledOnce'
  BY <1>1, <1>6 DEF CalledOnce
<1>9. NoFault'
  BY <1>1 DEF NoFault
<1>10. RepliesOK' /\ HoldsOK' /\ StoryOK' /\ WordsOK'
  <2>1. \A d \in Linked' : d = p
    BY <1>1, <1>5, OneLinked
  <2>2. Present /\ ~Ends(m)
    BY <1>1 DEF Present, Ends, Idle
  <2> QED
    BY <1>1, <1>3, <1>5, <2>1, <2>2, Taken
<1> QED
  BY <1>6, <1>7, <1>8, <1>9, <1>10

LEMMA FreeStep ==
    ASSUME Invariant, fault = "none", running = Idle, inbox # <<>>, inbox' = Tail(inbox),
           UNCHANGED <<observed, content, events, online, client>>,
           NEW m, m = Head(inbox), NEW p \in DOMAIN proxies, ProxyFree(m, p)
    PROVE  Invariant'
<1> USE DEF Invariant
<1>1. /\ m.kind \in {"removed", "exit"} /\ p \in Linked
      /\ proxies' = proxies /\ calls' = calls /\ fault' = fault
      /\ running' = [in |-> "removed", of |-> p, by |-> m.kind, used |-> TRUE]
  BY DEF ProxyFree, Runs
<1>2. inbox' \in Seq(Message)
  BY First
<1>3. running' \in Callback /\ running'.in = "removed" /\ running'.of = p /\ running'.used
  <2>1. p \in Nat
    BY Domain DEF TypeOK
  <2> QED
    BY <1>1, <2>1 DEF Callback
<1>4. TypeOK'
  BY <1>1, <1>2, <1>3 DEF TypeOK
<1>5. CalledOnce' /\ NoFault'
  BY <1>1 DEF CalledOnce, NoFault
<1>6. ProxiesOK'
  <2>1. running.in # "gone"
    BY DEF Idle
  <2> QED
    BY <1>1, <2>1 DEF ProxiesOK
<1>7. RunningOK'
  BY <1>1, <1>3 DEF RunningOK, Linked
<1>8. RepliesOK' /\ HoldsOK' /\ StoryOK' /\ WordsOK'
  <2>1. Linked' = Linked
    BY <1>1 DEF Linked
  <2>2. ~Present'
    BY <1>1, <1>3, <2>1, OneLinked DEF Present
  <2> QED
    BY <1>1, <1>3, <2>1, <2>2, Taken
<1> QED
  BY <1>4, <1>5, <1>6, <1>7, <1>8

LEMMA IgnoredStep ==
    ASSUME Invariant, fault = "none", running = Idle, inbox # <<>>, inbox' = Tail(inbox),
           UNCHANGED <<observed, content, events, online, client>>,
           NEW m, m = Head(inbox), Ignored(m)
    PROVE  Invariant'
<1> USE DEF Invariant
<1>1. proxies' = proxies /\ calls' = calls /\ fault' = fault /\ running' = running
  BY DEF Ignored
<1>2. inbox' \in Seq(Message) /\ m = inbox[1] /\ 1 \in DOMAIN inbox
      /\ DOMAIN inbox \subseteq Nat \ {0}
  <2>1. /\ inbox' \in Seq(Message) /\ m = inbox[1]
        /\ 1 \in 1..Len(inbox) /\ DOMAIN inbox = 1..Len(inbox) /\ Len(inbox) \in Nat
    BY First
  <2> QED
    BY <2>1
<1>3. Linked = {}
  <2>1. CASE m.kind = "added"
    <3> SUFFICES ASSUME Linked # {} PROVE FALSE
      OBVIOUS
    <3>1. Present
      BY DEF Present, Idle
    <3>2. PICK j \in DOMAIN inbox : j < 1
      BY <1>2, <2>1, <3>1 DEF StoryOK, Added
    <3> QED
      BY <1>2, <3>2
  <2>2. CASE m.kind # "added"
    BY <2>2 DEF Ignored
  <2> QED
    BY <2>1, <2>2
<1>4. TypeOK' /\ CalledOnce' /\ NoFault' /\ ProxiesOK' /\ RunningOK'
  BY <1>1, <1>2 DEF TypeOK, CalledOnce, NoFault, ProxiesOK, RunningOK
<1>5. RepliesOK' /\ HoldsOK' /\ StoryOK' /\ WordsOK'
  <2>1. Linked' = {} /\ ~Present'
    <3>1. Linked' = {}
      BY <1>1, <1>3 DEF Linked
    <3> QED
      BY <3>1 DEF Present
  <2> QED
    BY <1>1, <2>1, Taken
<1> QED
  BY <1>4, <1>5

\* The call of the reply that is first
LEMMA FirstReply ==
    ASSUME Invariant, inbox # <<>>, inbox' = Tail(inbox), NEW m, m = Head(inbox),
           m.kind = "reply"
    PROVE  /\ m \in Message /\ inbox' \in Seq(Message) /\ IsReply(m)
           /\ m.call \in DOMAIN calls /\ m.call \in Nat
           /\ calls[m.call] \in Call /\ calls[m.call].state = "queued"
           /\ calls[m.call].ran = 0 /\ calls[m.call].destroyed = 0
           /\ calls[m.call].proxy \in DOMAIN proxies
<1> USE DEF Invariant
<1>1. m \in Message /\ inbox' \in Seq(Message) /\ m = inbox[1] /\ 1 \in DOMAIN inbox
  BY First
<1>2. m.call \in DOMAIN calls /\ calls[m.call].state = "queued"
  BY <1>1 DEF RepliesOK, IsReply
<1>3. calls[m.call] \in Call /\ m.call \in Nat
  BY <1>2, Domain DEF TypeOK
<1>4. calls[m.call].proxy \in DOMAIN proxies
  BY <1>2 DEF RepliesOK
<1>5. calls[m.call].ran = 0 /\ calls[m.call].destroyed = 0
  BY <1>2 DEF CalledOnce
<1> QED
  BY <1>1, <1>2, <1>3, <1>4, <1>5 DEF IsReply

LEMMA RefreshStep ==
    ASSUME Invariant, fault = "none", running = Idle, inbox # <<>>, inbox' = Tail(inbox),
           UNCHANGED <<observed, content, events, online, client>>,
           NEW m, m = Head(inbox), RefreshPropertyReply(m)
    PROVE  Invariant'
<1> USE DEF Invariant
<1> DEFINE c == m.call
           p == calls[c].proxy
           q == Finished(Ran(calls[c]))
<1>1. m.kind = "reply" /\ calls[c].kind = "refresh"
  BY DEF RefreshPropertyReply
<1>2. /\ m \in Message /\ inbox' \in Seq(Message) /\ IsReply(m)
      /\ c \in DOMAIN calls /\ c \in Nat /\ calls[c] \in Call /\ calls[c].state = "queued"
      /\ calls[c].ran = 0 /\ calls[c].destroyed = 0 /\ p \in DOMAIN proxies
  BY <1>1, FirstReply
<1>3. /\ q \in Call /\ q.kind = calls[c].kind /\ q.proxy = calls[c].proxy
      /\ q.state = "done" /\ q.ran = 1 /\ q.destroyed = 1
  <2> DEFINE r == Ran(calls[c])
  <2>1. /\ r \in Call /\ r.kind = calls[c].kind /\ r.proxy = calls[c].proxy
        /\ r.ran = 1 /\ r.destroyed = 0
    BY <1>2, CallRuns
  <2> HIDE DEF r
  <2>2. /\ Finished(r) \in Call /\ Finished(r).kind = r.kind
        /\ Finished(r).proxy = r.proxy /\ Finished(r).state = "done"
        /\ Finished(r).ran = 1 /\ Finished(r).destroyed = 1
    BY <2>1, CallEnds
  <2> QED
    BY <2>1, <2>2 DEF r
<1>4. calls' = [calls EXCEPT ![c] = q]
  <2>1. calls' = [calls EXCEPT ![c] = [calls[c] EXCEPT !.state = "done", !.ran = @ + 1,
                                                       !.destroyed = @ + 1]]
    BY DEF RefreshPropertyReply
  <2>2. [calls[c] EXCEPT !.state = "done", !.ran = @ + 1, !.destroyed = @ + 1] = q
    BY <1>2 DEF Ran, Finished, Call
  <2> QED
    BY <2>1, <2>2
<1>5. \/ m.answer = Failed /\ proxies' = proxies /\ running' = running /\ fault' = fault
      \/ /\ ~Alive(p) /\ fault' = "freedProxy" /\ proxies' = proxies /\ running' = running
      \/ /\ m.answer # Failed /\ AddProperty(p, m.answer) /\ fault' = fault
         /\ running' = [in |-> "changed", of |-> p, by |-> "reply",
                        used |-> proxies[p].linked]
  BY DEF RefreshPropertyReply, Runs
<1> HIDE DEF q
<1>6. /\ calls' \in Seq(Call) /\ Len(calls') = Len(calls) /\ DOMAIN calls' = DOMAIN calls
      /\ \A d \in DOMAIN calls : calls'[d] = IF d = c THEN q ELSE calls[d]
  BY <1>2, <1>3, <1>4, CallSet
<1>7. \A d \in DOMAIN calls :
         /\ calls'[d].ran = (IF calls'[d].state \in {"running", "done"} THEN 1 ELSE 0)
         /\ calls'[d].destroyed = (IF calls'[d].state = "done" THEN 1 ELSE 0)
  BY <1>3, <1>6 DEF CalledOnce
<1>8. \A d \in DOMAIN calls :
         /\ calls'[d].kind = calls[d].kind /\ calls'[d].proxy = calls[d].proxy
         /\ \/ calls'[d].state = calls[d].state
            \/ IsReply(m) /\ d = m.call /\ calls'[d].state \in {"running", "done"}
  BY <1>2, <1>3, <1>6
<1>9. Present => Present /\ ~Ends(m)
  BY <1>1 DEF Ends
<1>10. CASE proxies' = proxies /\ running' = running /\ fault' \in {fault, "freedProxy"}
            /\ (fault' = fault \/ ~Alive(p))
  <2>1. Linked' = Linked /\ Present' = Present
    BY <1>10 DEF Linked, Present
  <2>2. NoFault'
    <3>1. CASE fault' = fault
      BY <3>1 DEF NoFault
    <3>2. CASE ~Alive(p) /\ fault' = "freedProxy"
      <4>1. "holds" \notin observed
        BY <1>1, <1>2, <3>2 DEF HoldsOK, Alive
      <4> QED
        BY <3>2, <4>1 DEF NoFault
    <3> QED
      BY <1>10, <3>1, <3>2
  <2>3. TypeOK'
    BY <1>2, <1>6, <1>10 DEF TypeOK
  <2>4. CalledOnce'
    BY <1>6, <1>7, <1>10 DEF CalledOnce
  <2>5. ProxiesOK'
    BY <1>10 DEF ProxiesOK
  <2>6. RunningOK'
    BY <1>10 DEF RunningOK, Idle
  <2>7. RepliesOK' /\ HoldsOK' /\ StoryOK' /\ WordsOK'
    BY <1>2, <1>6, <1>8, <1>9, <1>10, <2>1, Taken
  <2> QED
    BY <2>2, <2>3, <2>4, <2>5, <2>6, <2>7
<1>11. CASE /\ m.answer # Failed /\ AddProperty(p, m.answer) /\ fault' = fault
            /\ running' = [in |-> "changed", of |-> p, by |-> "reply",
                           used |-> proxies[p].linked]
  <2>1. m.answer \in Val
    BY <1>1, <1>2, <1>11, MessageType
  <2>2. running' \in Callback /\ running'.in = "changed"
    <3>1. p \in Nat /\ proxies[p].linked \in BOOLEAN
      BY <1>2, Domain, ProxyFields DEF TypeOK
    <3> QED
      BY <1>11, <3>1 DEF Callback
  <2>3. /\ proxies' \in Seq(Proxy) /\ Len(proxies') = Len(proxies)
        /\ DOMAIN proxies' = DOMAIN proxies /\ Linked' = Linked
        /\ proxies'[p].value = m.answer
        /\ \A d \in DOMAIN proxies :
              /\ d # p => proxies'[d] = proxies[d]
              /\ proxies'[d].refs = proxies[d].refs
    BY <1>2, <1>11, <2>1, ValueSet
  <2>4. /\ ProxiesOK' /\ RunningOK'
        /\ \A d \in DOMAIN proxies' : proxies'[d].linked => d = Len(proxies')
        /\ fault' = "none" =>
             \A d \in DOMAIN proxies' : proxies'[d].linked => proxies'[d].listed
        /\ \A d \in DOMAIN proxies' :
             proxies'[d].removals = (IF proxies'[d].linked THEN 0 ELSE 1)
    BY <1>2, <1>11, <2>1, <2>2, ValueSetKeeps
  <2>5. TypeOK'
    BY <1>2, <1>6, <1>11, <2>2, <2>3, <2>4 DEF TypeOK
  <2>6. CalledOnce'
    BY <1>6, <1>7, <2>4 DEF CalledOnce
  <2>7. NoFault'
    BY <1>11 DEF NoFault
  <2>8. Refreshes(m)
    BY <1>1, <1>2, <1>11 DEF Refreshes
  <2>9. \A d \in Linked' :
           \/ IsReply(m) /\ d \in Linked /\ proxies'[d].value = proxies[d].value
           \/ Refreshes(m) /\ proxies'[d].value = m.answer
    BY <1>2, <2>3, <2>8 DEF Linked
  <2>10. Present' => Present
    BY <2>3 DEF Present, Idle
  <2>11. RepliesOK' /\ HoldsOK' /\ StoryOK' /\ WordsOK'
    BY <1>6, <1>8, <1>9, <2>3, <2>9, <2>10, Taken
  <2> QED
    BY <2>4, <2>5, <2>6, <2>7, <2>11
<1> QED
  BY <1>5, <1>10, <1>11

LEMMA ReplyStep ==
    ASSUME Invariant, fault = "none", running = Idle, inbox # <<>>, inbox' = Tail(inbox),
           UNCHANGED <<observed, content, events, online, client>>,
           NEW m, m = Head(inbox), CallReply(m)
    PROVE  Invariant'
<1> USE DEF Invariant
<1> DEFINE c == m.call
           q == Ran(calls[c])
<1>1. /\ m.kind = "reply" /\ proxies' = proxies /\ fault' = fault
      /\ running' = [in |-> "reply", of |-> c, by |-> "reply", used |-> FALSE]
  BY DEF CallReply, Runs
<1>2. /\ m \in Message /\ inbox' \in Seq(Message) /\ IsReply(m)
      /\ c \in DOMAIN calls /\ c \in Nat /\ calls[c] \in Call /\ calls[c].state = "queued"
      /\ calls[c].ran = 0 /\ calls[c].destroyed = 0
  BY <1>1, FirstReply
<1>3. /\ q \in Call /\ q.kind = calls[c].kind /\ q.proxy = calls[c].proxy
      /\ q.state = "running" /\ q.ran = 1 /\ q.destroyed = 0
  BY <1>2, CallRuns
<1>4. calls' = [calls EXCEPT ![c] = q]
  BY DEF CallReply, Ran
<1> HIDE DEF q
<1>5. /\ calls' \in Seq(Call) /\ Len(calls') = Len(calls) /\ DOMAIN calls' = DOMAIN calls
      /\ \A d \in DOMAIN calls : calls'[d] = IF d = c THEN q ELSE calls[d]
  BY <1>2, <1>3, <1>4, CallSet
<1>6. \A d \in DOMAIN calls :
         /\ calls'[d].kind = calls[d].kind /\ calls'[d].proxy = calls[d].proxy
         /\ \/ calls'[d].state = calls[d].state
            \/ IsReply(m) /\ d = m.call /\ calls'[d].state \in {"running", "done"}
  BY <1>2, <1>3, <1>5
<1>7. running' \in Callback /\ running'.in = "reply" /\ running'.of = c /\ ~running'.used
  BY <1>1, <1>2 DEF Callback
<1>8. TypeOK'
  BY <1>1, <1>2, <1>5, <1>7 DEF TypeOK
<1>9. CalledOnce'
  BY <1>1, <1>3, <1>5 DEF CalledOnce
<1>10. NoFault'
  BY <1>1 DEF NoFault
<1>11. ProxiesOK'
  BY <1>1 DEF ProxiesOK, Idle
<1>12. RunningOK'
  BY <1>2, <1>3, <1>5, <1>7 DEF RunningOK
<1>13. RepliesOK' /\ HoldsOK' /\ StoryOK' /\ WordsOK'
  <2>1. Linked' = Linked
    BY <1>1 DEF Linked
  <2>2. Present' => Present /\ ~Ends(m)
    BY <1>1, <2>1 DEF Present, Idle, Ends
  <2> QED
    BY <1>1, <1>2, <1>5, <1>6, <2>1, <2>2, Taken
<1> QED
  BY <1>8, <1>9, <1>10, <1>11, <1>12, <1>13

LEMMA DispatchStep ==
    ASSUME Invariant, fault = "none", Dispatch
    PROVE  Invariant'
<1> DEFINE m == Head(inbox)
<1>1. /\ running = Idle /\ inbox # <<>> /\ inbox' = Tail(inbox)
      /\ UNCHANGED <<observed, content, events, online, client>>
      /\ \/ InterfacesAdded(m)
         \/ \E p \in DOMAIN proxies : PropertiesChanged(m, p) \/ ProxyFree(m, p)
         \/ RefreshPropertyReply(m)
         \/ CallReply(m)
         \/ Ignored(m)
  BY DEF Dispatch
<1> HIDE DEF m
<1>2. m = Head(inbox)
  BY DEF m
<1>3. CASE InterfacesAdded(m)
  BY <1>1, <1>2, <1>3, AddedStep
<1>4. CASE \E p \in DOMAIN proxies : PropertiesChanged(m, p) \/ ProxyFree(m, p)
  BY <1>1, <1>2, <1>4, ChangedStep, FreeStep
<1>5. CASE RefreshPropertyReply(m)
  BY <1>1, <1>2, <1>5, RefreshStep
<1>6. CASE CallReply(m)
  BY <1>1, <1>2, <1>6, ReplyStep
<1>7. CASE Ignored(m)
  BY <1>1, <1>2, <1>7, IgnoredStep
<1> QED
  BY <1>1, <1>3, <1>4, <1>5, <1>6, <1>7

-----------------------------------------------------------------------------
(* What the user does, and its functions' returns: nothing is dispatched.  *)

LEMMA Kept ==
    ASSUME Invariant, inbox' = inbox, content' = content,
           DOMAIN calls \subseteq DOMAIN calls',
           \A c \in DOMAIN calls :
              /\ calls'[c].kind = calls[c].kind
              /\ calls'[c].state = calls[c].state \/ calls[c].state = "running",
           \A c \in DOMAIN calls' : calls'[c].proxy \in DOMAIN proxies',
           Present' => Present,
           \A p \in Linked' : running'.in # "removed" =>
              /\ p \in Linked /\ proxies'[p].value = proxies[p].value
              /\ running.in # "removed"
    PROVE  RepliesOK' /\ StoryOK' /\ WordsOK'
<1> USE DEF Invariant
<1>1. ASSUME NEW i \in DOMAIN inbox, IsReply(inbox[i])
      PROVE  /\ inbox[i].call \in DOMAIN calls /\ inbox[i].call \in DOMAIN calls'
             /\ calls[inbox[i].call].state = "queued"
             /\ calls'[inbox[i].call].state = "queued"
             /\ calls'[inbox[i].call].kind = calls[inbox[i].call].kind
  <2>1. inbox[i].call \in DOMAIN calls /\ calls[inbox[i].call].state = "queued"
    BY <1>1 DEF RepliesOK
  <2> QED
    BY <2>1
<1>2. RepliesOK'
  BY <1>1 DEF RepliesOK
<1>3. StoryOK'
  BY DEF StoryOK
<1>4. WordsOK'
  <2>1. ASSUME NEW i \in DOMAIN inbox, Latest(i)
        PROVE  /\ Says(inbox[i]) => inbox[i].value = content
               /\ Refreshes(inbox[i])' => inbox[i].answer = content
    <3>1. /\ Says(inbox[i]) => inbox[i].value = content
          /\ Refreshes(inbox[i]) => inbox[i].answer = content
      BY <2>1 DEF WordsOK
    <3>2. Refreshes(inbox[i])' => Refreshes(inbox[i])
      BY <1>1 DEF Refreshes, IsReply
    <3> QED
      BY <3>1, <3>2
  <2>2. \A i : Latest(i)' = Latest(i)
    BY DEF Latest
  <2>3. ASSUME \A i \in DOMAIN inbox : IsReply(inbox[i]), NEW p \in Linked',
               running'.in # "removed"
        PROVE  proxies'[p].value \in {content, Absent}
    BY <2>3 DEF WordsOK
  <2> QED
    BY <2>1, <2>2, <2>3 DEF WordsOK
<1> QED
  BY <1>2, <1>3, <1>4

\* One more call, or one that returns FALSE
LEMMA CallStep ==
    ASSUME Invariant, fault = "none", NEW p \in DOMAIN proxies,
           NEW kind \in {"refresh", "set", "method"}, NEW v \in Val \union {Absent},
           kind = "refresh" /\ "holds" \in observed => proxies[p].refs > 0,
           ProxyCall(p, kind, v)
    PROVE  Invariant'
<1> USE DEF Invariant
<1> DEFINE q == [kind |-> kind, proxy |-> p, value |-> v,
                 state |-> IF proxies[p].linked /\ online THEN "open" ELSE "refused",
                 ran |-> 0, destroyed |-> 0]
           k == Len(calls) + 1
<1>1. /\ Len(calls) < MaxCalls /\ calls' = Append(calls, q)
      /\ UNCHANGED <<observed, content, events, online, inbox, client, proxies, running,
                     fault>>
  BY DEF ProxyCall, user
<1>2. /\ p \in 1..MaxProxies /\ Len(calls) \in Nat /\ DOMAIN calls = 1..Len(calls)
      /\ k \in Nat /\ k <= MaxCalls
  <2>1. /\ Len(calls) \in Nat /\ DOMAIN calls = 1..Len(calls)
        /\ Len(proxies) \in Nat /\ DOMAIN proxies = 1..Len(proxies)
        /\ Len(proxies) <= MaxProxies
    BY Domain DEF TypeOK
  <2> QED
    BY <1>1, <2>1, ProxyCallAssumption
<1>3. /\ q \in Call /\ q.kind = kind /\ q.proxy = p /\ q.state \in {"open", "refused"}
      /\ q.ran = 0 /\ q.destroyed = 0
  BY <1>2 DEF Call
<1> HIDE DEF q
<1>4. /\ calls' \in Seq(Call) /\ Len(calls') = k /\ DOMAIN calls' = 1..k /\ calls'[k] = q
      /\ \A c \in 1..Len(calls) : calls'[c] = calls[c]
  <2>1. /\ calls' \in Seq(Call) /\ Len(calls') = k /\ calls'[k] = q
        /\ \A c \in 1..Len(calls) : calls'[c] = calls[c]
    BY <1>1, <1>3, AppendProperties DEF TypeOK
  <2> QED
    BY <2>1, Domain
<1>5. /\ \A c \in DOMAIN calls' : (c = k /\ calls'[c] = q) \/ c \in DOMAIN calls
      /\ \A c \in DOMAIN calls : c \in DOMAIN calls' /\ calls'[c] = calls[c]
  BY <1>2, <1>4
<1>6. TypeOK'
  BY <1>1, <1>2, <1>4 DEF TypeOK
<1> HIDE DEF k
<1>7. CalledOnce'
  BY <1>1, <1>3, <1>5 DEF CalledOnce
<1>8. NoFault' /\ ProxiesOK'
  BY <1>1 DEF NoFault, ProxiesOK
<1>9. RunningOK'
  BY <1>1, <1>5 DEF RunningOK
<1>10. HoldsOK'
  <2>1. "holds" \in observed /\ kind = "refresh" => proxies[p].refs = 1
    <3>1. proxies[p].refs \in 0..1
      BY Domain, ProxyFields DEF TypeOK
    <3> QED
      BY <3>1
  <2> QED
    BY <1>1, <1>3, <1>5, <2>1 DEF HoldsOK
<1>11. RepliesOK' /\ StoryOK' /\ WordsOK'
  <2>1. \A c \in DOMAIN calls' : calls'[c].proxy \in DOMAIN proxies'
    BY <1>1, <1>3, <1>5 DEF RepliesOK
  <2>2. Linked' = Linked /\ Present' = Present
    BY <1>1 DEF Linked, Present
  <2> QED
    BY <1>1, <1>5, <2>1, <2>2, Kept
<1> QED
  BY <1>6, <1>7, <1>8, <1>9, <1>10, <1>11

LEMMA RefsStep ==
    ASSUME Invariant, fault = "none", NEW p \in DOMAIN proxies, ProxyRef(p) \/ ProxyUnref(p)
    PROVE  Invariant'
<1> USE DEF Invariant
<1>1. PICK n \in 0..1 :
         /\ proxies' = [proxies EXCEPT ![p].refs = n]
         /\ "holds" \in observed /\ n = 0 =>
              \A c \in DOMAIN calls : calls[c].proxy = p /\ calls[c].kind = "refresh"
                                        => calls[c].state \in {"done", "refused"}
  <2>1. CASE ProxyRef(p)
    BY <2>1 DEF ProxyRef
  <2>2. CASE ProxyUnref(p)
    BY <2>2 DEF ProxyUnref
  <2> QED
    BY <2>1, <2>2
<1>2. UNCHANGED <<observed, content, events, online, inbox, client, calls, running, fault>>
  BY DEF ProxyRef, ProxyUnref
<1> DEFINE q == [proxies[p] EXCEPT !.refs = n]
<1>3. proxies \in Seq(Proxy) /\ proxies[p] \in Proxy
  BY Domain DEF TypeOK
<1>4. /\ q \in Proxy /\ q.linked = proxies[p].linked /\ q.listed = proxies[p].listed
      /\ q.value = proxies[p].value /\ q.removals = proxies[p].removals /\ q.refs = n
  BY <1>3 DEF Proxy
<1>5. proxies' = [proxies EXCEPT ![p] = q]
  BY <1>1
<1> HIDE DEF q
<1>6. /\ proxies' \in Seq(Proxy) /\ Len(proxies') = Len(proxies)
      /\ DOMAIN proxies' = DOMAIN proxies
      /\ \A d \in DOMAIN proxies : proxies'[d] = IF d = p THEN q ELSE proxies[d]
  BY <1>3, <1>4, <1>5, ProxySet
<1>7. \A d \in DOMAIN proxies :
         /\ proxies'[d].linked = proxies[d].linked /\ proxies'[d].listed = proxies[d].listed
         /\ proxies'[d].value = proxies[d].value
         /\ proxies'[d].removals = proxies[d].removals
         /\ d # p => proxies'[d].refs = proxies[d].refs
         /\ d = p => proxies'[d].refs = n
  BY <1>4, <1>6
<1>8. TypeOK'
  <2>1. \A d \in DOMAIN proxies : proxies'[d].linked => d = Len(proxies')
    BY <1>6, <1>7 DEF TypeOK
  <2>2. \A d \in DOMAIN proxies : proxies'[d].linked => proxies'[d].listed
    BY <1>7 DEF ProxiesOK
  <2> QED
    BY <1>2, <1>6, <2>1, <2>2 DEF TypeOK
<1>9. CalledOnce'
  BY <1>2, <1>6, <1>7 DEF CalledOnce
<1>10. NoFault'
  BY <1>2 DEF NoFault
<1>11. ProxiesOK'
  BY <1>2, <1>6, <1>7 DEF ProxiesOK
<1>12. RunningOK'
  BY <1>2, <1>6, <1>7 DEF RunningOK
<1>13. HoldsOK'
  <2> SUFFICES ASSUME "holds" \in observed, NEW c \in DOMAIN calls,
                      calls[c].kind = "refresh", calls[c].state \in {"open", "queued"}
               PROVE  proxies'[calls[c].proxy].refs = 1
    BY <1>2 DEF HoldsOK
  <2>1. calls[c].proxy \in DOMAIN proxies /\ proxies[calls[c].proxy].refs = 1
    BY DEF RepliesOK, HoldsOK
  <2>2. calls[c].proxy = p => n = 1
    BY <1>1
  <2> QED
    BY <1>7, <2>1, <2>2
<1>14. RepliesOK' /\ StoryOK' /\ WordsOK'
  <2>1. Linked' = Linked
    BY <1>6, <1>7 DEF Linked
  <2>2. Present' = Present
    BY <1>2, <2>1 DEF Present
  <2>3. \A c \in DOMAIN calls' : calls'[c].proxy \in DOMAIN proxies'
    BY <1>2, <1>6 DEF RepliesOK
  <2>4. \A d \in Linked' : d \in Linked /\ proxies'[d].value = proxies[d].value
    BY <1>7, <2>1 DEF Linked
  <2> QED
    BY <1>2, <2>1, <2>2, <2>3, <2>4, Kept
<1> QED
  BY <1>8, <1>9, <1>10, <1>11, <1>12, <1>13, <1>14

\* All proxies are linked and listed, or neither, and then the client may go.
LEMMA Settles ==
    ASSUME Invariant, NEW ps \in Seq(Proxy), Len(ps) = Len(proxies),
           \A p \in DOMAIN proxies :
              /\ ps[p].linked <=> ps[p].listed
              /\ ps[p].linked = proxies[p].linked /\ ps[p].value = proxies[p].value
              /\ ps[p].refs = proxies[p].refs /\ ps[p].removals = proxies[p].removals,
           \/ proxies' = ps
           \/ proxies' = Freed(ps)
    PROVE  /\ proxies' \in Seq(Proxy) /\ Len(proxies') = Len(proxies)
           /\ DOMAIN proxies' = DOMAIN proxies
           /\ \A p \in DOMAIN proxies :
                 /\ proxies'[p].refs = proxies[p].refs
                 /\ proxies'[p].linked => p = Len(proxies') /\ proxies'[p].listed
                 /\ proxies'[p].removals = (IF proxies'[p].linked THEN 0 ELSE 1)
           /\ \A p \in Linked' : p \in Linked /\ proxies'[p].value = proxies[p].value
           /\ ProxiesOK'
<1> USE DEF Invariant
<1>1. DOMAIN ps = DOMAIN proxies
  BY Domain DEF TypeOK
<1>2. \A p \in DOMAIN proxies :
         /\ proxies[p].linked \in BOOLEAN /\ ps[p].linked \in BOOLEAN /\ ps[p].listed \in BOOLEAN
         /\ proxies[p].linked => p = Len(proxies)
         /\ proxies[p].removals = (IF proxies[p].linked THEN 0 ELSE 1)
  <2>1. \A p \in DOMAIN proxies : proxies[p] \in Proxy /\ ps[p] \in Proxy
    BY <1>1, Domain DEF TypeOK
  <2> QED
    BY <2>1, ProxyFields DEF TypeOK, CalledOnce
<1>3. /\ proxies' \in Seq(Proxy) /\ Len(proxies') = Len(proxies)
      /\ DOMAIN proxies' = DOMAIN proxies
      /\ \A p \in DOMAIN proxies :
            /\ proxies'[p].refs = proxies[p].refs
            /\ proxies'[p].linked <=> proxies'[p].listed
            /\ proxies'[p].linked =>
                  proxies[p].linked /\ proxies'[p].value = proxies[p].value
            /\ proxies'[p].removals = (IF proxies'[p].linked THEN 0 ELSE 1)
  <2>1. CASE proxies' = ps
    BY <1>1, <1>2, <2>1
  <2>2. CASE proxies' = Freed(ps)
    <3>1. /\ proxies' \in Seq(Proxy) /\ Len(proxies') = Len(ps) /\ DOMAIN proxies' = DOMAIN ps
          /\ \A p \in DOMAIN ps :
                /\ proxies'[p].refs = ps[p].refs /\ ~proxies'[p].listed
                /\ ~ps[p].listed => proxies'[p] = ps[p]
                /\ ps[p].listed =>
                     ~proxies'[p].linked /\ proxies'[p].removals = ps[p].removals + 1
      BY <2>2, AllFreed
    <3>2. ASSUME NEW p \in DOMAIN proxies
          PROVE  /\ proxies'[p].refs = proxies[p].refs
                 /\ ~proxies'[p].linked /\ ~proxies'[p].listed
                 /\ proxies'[p].removals = 1
      <4>1. CASE ps[p].listed
        <5>1. ps[p].removals = 0
          BY <1>2, <4>1
        <5> QED
          BY <1>1, <3>1, <4>1, <5>1
      <4>2. CASE ~ps[p].listed
        BY <1>1, <1>2, <3>1, <4>2
      <4> QED
        BY <4>1, <4>2
    <3> QED
      BY <1>1, <3>1, <3>2
  <2> QED
    BY <2>1, <2>2
<1>4. \A p \in Linked' : p \in Linked /\ proxies'[p].value = proxies[p].value
  BY <1>3 DEF Linked
<1>5. ProxiesOK'
  BY <1>3 DEF ProxiesOK
<1> QED
  BY <1>2, <1>3, <1>4, <1>5

\* So the client may go, when no handler is in the middle of it, and a handler
\* that is done with it may end.
LEMMA SettledStep ==
    ASSUME Invariant, fault = "none", NEW ps \in Seq(Proxy), Len(ps) = Len(proxies),
           \A p \in DOMAIN proxies :
              /\ ps[p].linked <=> ps[p].listed
              /\ ps[p].linked = proxies[p].linked /\ ps[p].value = proxies[p].value
              /\ ps[p].refs = proxies[p].refs /\ ps[p].removals = proxies[p].removals,
           \/ proxies' = ps
           \/ proxies' = Freed(ps),
           UNCHANGED <<observed, content, events, online, inbox, calls, fault>>,
           client' \in BOOLEAN,
           running' \in {running, Idle}, running.in # "removed",
           running'.in # "gone"
    PROVE  Invariant'
<1> USE DEF Invariant
<1>1. /\ proxies' \in Seq(Proxy) /\ Len(proxies') = Len(proxies)
      /\ DOMAIN proxies' = DOMAIN proxies
      /\ \A p \in DOMAIN proxies :
            /\ proxies'[p].refs = proxies[p].refs
            /\ proxies'[p].linked => p = Len(proxies') /\ proxies'[p].listed
            /\ proxies'[p].removals = (IF proxies'[p].linked THEN 0 ELSE 1)
      /\ \A p \in Linked' : p \in Linked /\ proxies'[p].value = proxies[p].value
      /\ ProxiesOK'
  BY Settles
<1>2. TypeOK'
  BY <1>1 DEF TypeOK
<1>3. CalledOnce'
  BY <1>1 DEF CalledOnce
<1>4. NoFault'
  BY DEF NoFault
<1>5. RunningOK'
  BY DEF RunningOK, Idle
<1>6. HoldsOK'
  BY <1>1 DEF HoldsOK, RepliesOK
<1>7. RepliesOK' /\ StoryOK' /\ WordsOK'
  <2>1. Present' => Present
    BY <1>1 DEF Present
  <2>2. \A c \in DOMAIN calls' : calls'[c].proxy \in DOMAIN proxies'
    BY <1>1 DEF RepliesOK
  <2> QED
    BY <1>1, <2>1, <2>2, Kept
<1> QED
  BY <1>1, <1>2, <1>3, <1>4, <1>5, <1>6, <1>7

LEMMA ClientStep ==
    ASSUME Invariant, fault = "none", ClientUnref
    PROVE  Invariant'
<1> USE DEF Invariant
<1>1. UNCHANGED <<observed, content, events, online, inbox, calls, running>>
      /\ client' = FALSE
  BY DEF ClientUnref
<1>2. running.used \in BOOLEAN
  BY RunningType DEF TypeOK
<1>3. CASE running.used
  <2>1. proxies' = proxies
    BY <1>3 DEF ClientUnref
  <2>2. fault' \in {"none", "freedClient"} /\ NoFault'
    <3>1. CASE running.by \in {"added", "removed"}
      BY <1>1, <1>3, <3>1 DEF ClientUnref, Guarded, NoFault
    <3>2. CASE running.by \notin {"added", "removed"}
      <4>1. "keepsClient" \notin observed /\ fault' = "freedClient"
        BY <1>3, <3>2 DEF ClientUnref, Guarded
      <4> QED
        BY <1>1, <4>1 DEF NoFault
    <3> QED
      BY <3>1, <3>2
  <2>3. TypeOK'
    BY <1>1, <2>1, <2>2 DEF TypeOK
  <2>4. CalledOnce'
    BY <1>1, <2>1 DEF CalledOnce
  <2>5. ProxiesOK'
    BY <1>1, <2>1 DEF ProxiesOK
  <2>6. RunningOK'
    BY <1>1, <2>1 DEF RunningOK
  <2>7. HoldsOK'
    BY <1>1, <2>1 DEF HoldsOK
  <2>8. RepliesOK' /\ StoryOK' /\ WordsOK'
    <3>1. Linked' = Linked /\ Present' = Present
      BY <1>1, <2>1 DEF Linked, Present
    <3>2. \A c \in DOMAIN calls' : calls'[c].proxy \in DOMAIN proxies'
      BY <1>1, <2>1 DEF RepliesOK
    <3> QED
      BY <1>1, <2>1, <3>1, <3>2, Kept
  <2> QED
    BY <2>2, <2>3, <2>4, <2>5, <2>6, <2>7, <2>8
<1>4. CASE ~running.used
  <2>1. proxies' = Freed(proxies) /\ fault' = fault
    BY <1>4 DEF ClientUnref
  <2>2. running.in # "removed" /\ running.in # "gone"
    BY <1>4 DEF RunningOK
  <2>3. \A p \in DOMAIN proxies : proxies[p].linked <=> proxies[p].listed
    <3>1. \A p \in DOMAIN proxies : proxies[p].linked \in BOOLEAN /\ proxies[p].listed \in BOOLEAN
      BY Domain, ProxyFields DEF TypeOK
    <3> QED
      BY <2>2, <3>1 DEF ProxiesOK
  <2>4. proxies \in Seq(Proxy)
    BY DEF TypeOK
  <2> QED
    BY <1>1, <2>1, <2>2, <2>3, <2>4, SettledStep
<1> QED
  BY <1>2, <1>3, <1>4

LEMMA ReturnStep ==
    ASSUME Invariant, fault = "none", Return
    PROVE  Invariant'
<1> USE DEF Invariant
<1>0. UNCHANGED <<observed, content, events, online, inbox, client, fault>>
  BY DEF Return, ReturnToHandler, ReturnFromRemoved, ReturnFromGone, ReturnFromReply,
         Returns
<1>1. /\ proxies \in Seq(Proxy) /\ client \in BOOLEAN /\ Idle.in = "mainLoop"
      /\ \A p \in DOMAIN proxies : /\ proxies[p] \in Proxy
                                   /\ proxies[p].linked \in BOOLEAN
                                   /\ proxies[p].listed \in BOOLEAN
  BY Domain, ProxyFields DEF TypeOK, Idle
<1>2. \A p \in DOMAIN proxies : proxies[p].listed =>
         proxies[p].linked \/ (running.in = "gone" /\ running.of = p)
  BY DEF ProxiesOK
<1>3. \A p \in DOMAIN proxies : proxies[p].linked => proxies[p].listed
  BY DEF ProxiesOK
<1>4. CASE ReturnToHandler
  <2>1. /\ running.in \in {"added", "changed"} /\ calls' = calls /\ running' = Idle
        /\ proxies' = Unguarded(proxies)
    BY <1>4 DEF ReturnToHandler
  <2>2. proxies' = proxies \/ proxies' = Freed(proxies)
    BY <2>1 DEF Unguarded
  <2>3. \A p \in DOMAIN proxies : proxies[p].linked <=> proxies[p].listed
    BY <1>2, <1>3, <2>1
  <2> QED
    BY <1>0, <1>1, <2>1, <2>2, <2>3, SettledStep
<1>5. CASE ReturnFromGone
  <2> DEFINE p == running.of
             q == Delisted(proxies[p])
             ps == [proxies EXCEPT ![p] = q]
  <2>1. /\ running.in = "gone" /\ calls' = calls /\ running' = Idle
        /\ proxies' = Unguarded(ps)
    BY <1>5 DEF ReturnFromGone
  <2>2. p \in DOMAIN proxies /\ ~proxies[p].linked
    BY <2>1 DEF RunningOK
  <2>3. /\ q \in Proxy /\ q.linked = proxies[p].linked /\ ~q.listed
        /\ q.value = proxies[p].value /\ q.refs = proxies[p].refs
        /\ q.removals = proxies[p].removals
    BY <1>1, <2>2 DEF Proxy, Delisted
  <2> HIDE DEF q
  <2>4. /\ ps \in Seq(Proxy) /\ Len(ps) = Len(proxies)
        /\ \A d \in DOMAIN proxies : ps[d] = IF d = p THEN q ELSE proxies[d]
    BY <1>1, <2>2, <2>3, ProxySet
  <2> HIDE DEF ps
  <2>5. proxies' = ps \/ proxies' = Freed(ps)
    BY <2>1 DEF Unguarded
  <2>6. \A d \in DOMAIN proxies :
           /\ ps[d].linked <=> ps[d].listed
           /\ ps[d].linked = proxies[d].linked /\ ps[d].value = proxies[d].value
           /\ ps[d].refs = proxies[d].refs /\ ps[d].removals = proxies[d].removals
    BY <1>2, <1>3, <2>2, <2>3, <2>4
  <2> QED
    BY <1>0, <1>1, <2>1, <2>4, <2>5, <2>6, SettledStep
<1>6. CASE ReturnFromRemoved
  <2> DEFINE p == running.of
             q == Removed(Unlinked(proxies[p]))
  <2>1. /\ running.in = "removed" /\ calls' = calls
        /\ running' = [running EXCEPT !.in = "gone"]
        /\ proxies' = [proxies EXCEPT ![p] = q]
    BY <1>6 DEF ReturnFromRemoved
  <2>2. p \in DOMAIN proxies /\ proxies[p].linked /\ running.used
    BY <2>1 DEF RunningOK
  <2>3. /\ q \in Proxy /\ ~q.linked /\ q.listed = proxies[p].listed
        /\ q.refs = proxies[p].refs /\ q.removals = proxies[p].removals + 1
    BY <1>1, <2>2, Ended
  <2> HIDE DEF q
  <2>4. /\ proxies' \in Seq(Proxy) /\ Len(proxies') = Len(proxies)
        /\ DOMAIN proxies' = DOMAIN proxies
        /\ \A d \in DOMAIN proxies : proxies'[d] = IF d = p THEN q ELSE proxies[d]
    BY <1>1, <2>1, <2>2, <2>3, ProxySet
  <2>5. running \in Callback
    BY <2>1, <1>1 DEF TypeOK
  <2>6. /\ running' \in Callback /\ running'.in = "gone" /\ running'.of = p /\ running'.used
    BY <2>1, <2>2, <2>5 DEF Callback
  <2>7. \A d \in DOMAIN proxies : proxies[d].linked => d = p
    <3>1. \A d \in DOMAIN proxies : proxies[d].linked => d = Len(proxies)
      BY DEF TypeOK
    <3> QED
      BY <2>2, <3>1
  <2>8. Linked' = {} /\ ~Present'
    <3>1. Linked' = {}
      BY <2>3, <2>4, <2>7 DEF Linked
    <3> QED
      BY <3>1 DEF Present
  <2>9. TypeOK'
    <3>1. \A d \in DOMAIN proxies' : ~proxies'[d].linked
      BY <2>8 DEF Linked
    <3> QED
      BY <1>0, <2>1, <2>4, <2>6, <3>1 DEF TypeOK
  <2>10. CalledOnce'
    <3>1. \A d \in DOMAIN proxies : proxies[d].removals = (IF proxies[d].linked THEN 0 ELSE 1)
      BY DEF CalledOnce
    <3>2. \A d \in DOMAIN proxies' :
             proxies'[d].removals = (IF proxies'[d].linked THEN 0 ELSE 1)
      BY <2>2, <2>3, <2>4, <3>1
    <3> QED
      BY <2>1, <3>2 DEF CalledOnce
  <2>11. NoFault'
    BY <1>0 DEF NoFault
  <2>12. ProxiesOK'
    BY <1>2, <2>1, <2>3, <2>4, <2>6 DEF ProxiesOK
  <2>13. RunningOK'
    BY <2>2, <2>3, <2>4, <2>6 DEF RunningOK
  <2>14. HoldsOK'
    <3>1. \A d \in DOMAIN proxies : proxies'[d].refs = proxies[d].refs
      BY <2>3, <2>4
    <3> QED
      BY <1>0, <2>1, <3>1 DEF HoldsOK, RepliesOK
  <2>15. RepliesOK' /\ StoryOK' /\ WordsOK'
    <3>1. \A c \in DOMAIN calls' : calls'[c].proxy \in DOMAIN proxies'
      BY <2>1, <2>4 DEF RepliesOK
    <3> QED
      BY <1>0, <2>1, <2>8, <3>1, Kept
  <2> QED
    BY <2>9, <2>10, <2>11, <2>12, <2>13, <2>14, <2>15
<1>7. CASE ReturnFromReply
  <2> DEFINE c == running.of
             q == Finished(calls[c])
  <2>1. running.in = "reply" /\ running' = Idle /\ proxies' = proxies
    BY <1>7 DEF ReturnFromReply
  <2>2. c \in DOMAIN calls /\ calls[c].state = "running"
    BY <2>1 DEF RunningOK
  <2>3. calls[c] \in Call /\ calls[c].ran = 1 /\ calls[c].destroyed = 0
    BY <2>2, Domain DEF TypeOK, CalledOnce
  <2>4. /\ q \in Call /\ q.kind = calls[c].kind /\ q.proxy = calls[c].proxy
        /\ q.state = "done" /\ q.ran = 1 /\ q.destroyed = 1
    BY <2>3, CallEnds
  <2>5. calls' = [calls EXCEPT ![c] = q]
    BY <1>7 DEF ReturnFromReply, Finished
  <2> HIDE DEF q
  <2>6. /\ calls' \in Seq(Call) /\ Len(calls') = Len(calls) /\ DOMAIN calls' = DOMAIN calls
        /\ \A d \in DOMAIN calls : calls'[d] = IF d = c THEN q ELSE calls[d]
    BY <2>2, <2>4, <2>5, CallSet
  <2>7. TypeOK'
    BY <1>0, <2>1, <2>6 DEF TypeOK
  <2>8. CalledOnce'
    BY <2>1, <2>4, <2>6 DEF CalledOnce
  <2>9. NoFault'
    BY <1>0 DEF NoFault
  <2>10. ProxiesOK'
    BY <1>2, <1>3, <2>1 DEF ProxiesOK
  <2>11. RunningOK'
    BY <1>1, <2>1 DEF RunningOK
  <2>12. HoldsOK'
    BY <1>0, <2>1, <2>4, <2>6 DEF HoldsOK
  <2>13. RepliesOK' /\ StoryOK' /\ WordsOK'
    <3>1. Linked' = Linked
      BY <2>1 DEF Linked
    <3>2. Present' => Present
      BY <2>1, <3>1 DEF Present
    <3>3. \A d \in DOMAIN calls' : calls'[d].proxy \in DOMAIN proxies'
      BY <2>1, <2>4, <2>6 DEF RepliesOK
    <3>4. \A d \in DOMAIN calls :
             /\ calls'[d].kind = calls[d].kind
             /\ calls'[d].state = calls[d].state \/ calls[d].state = "running"
      BY <2>2, <2>4, <2>6
    <3> QED
      BY <1>0, <2>1, <2>6, <3>1, <3>2, <3>3, <3>4, Kept
  <2> QED
    BY <2>7, <2>8, <2>9, <2>10, <2>11, <2>12, <2>13
<1> QED
  BY <1>4, <1>5, <1>6, <1>7 DEF Return

-----------------------------------------------------------------------------
(* The theorems. *)

LEMMA Starts == Init => Invariant
<1> SUFFICES ASSUME Init PROVE Invariant
  OBVIOUS
<1>1. /\ inbox = <<>> /\ proxies = <<>> /\ calls = <<>>
      /\ DOMAIN inbox = {} /\ DOMAIN proxies = {} /\ DOMAIN calls = {}
      /\ inbox \in Seq(Message) /\ proxies \in Seq(Proxy) /\ calls \in Seq(Call)
      /\ Len(proxies) = 0 /\ Len(calls) = 0
  BY EmptySeq DEF Init
<1>2. TypeOK
  BY <1>1, ProxyCallAssumption DEF Init, TypeOK
<1>3. Linked = {}
  BY <1>1 DEF Linked
<1>4. CalledOnce /\ NoFault /\ ProxiesOK /\ HoldsOK /\ RepliesOK
  BY <1>1 DEF Init, CalledOnce, NoFault, ProxiesOK, HoldsOK, RepliesOK
<1>5. RunningOK
  BY DEF Init, RunningOK, Idle
<1>6. StoryOK
  BY <1>1, <1>3 DEF StoryOK, Present
<1>7. WordsOK
  BY <1>1, <1>3 DEF WordsOK
<1> QED
  BY <1>2, <1>4, <1>5, <1>6, <1>7 DEF Invariant

LEMMA Steps == Invariant /\ [Next]_vars => Invariant'
<1> SUFFICES ASSUME Invariant, [Next]_vars PROVE Invariant'
  OBVIOUS
<1>1. CASE Next
  <2>0. fault = "none"
    BY <1>1 DEF Next
  <2>1. CASE Service \/ Disconnect \/ \E c \in DOMAIN calls : TimesOut(c)
    BY <2>0, <2>1, ServiceSteps
  <2>2. CASE Dispatch
    BY <2>0, <2>2, DispatchStep
  <2>3. CASE Return
    BY <2>0, <2>3, ReturnStep
  <2>4. CASE User
    <3>1. CASE ClientUnref
      BY <2>0, <3>1, ClientStep
    <3>2. ASSUME NEW p \in DOMAIN proxies, ProxyRef(p) \/ ProxyUnref(p)
          PROVE  Invariant'
      BY <2>0, <3>2, RefsStep
    <3>3. ASSUME NEW p \in DOMAIN proxies, RefreshProperty(p) PROVE Invariant'
      BY <2>0, <3>3, CallStep DEF RefreshProperty
    <3>4. ASSUME NEW p \in DOMAIN proxies, MethodCall(p) PROVE Invariant'
      BY <2>0, <3>4, CallStep DEF MethodCall
    <3>5. ASSUME NEW p \in DOMAIN proxies, NEW v \in Val, SetProperty(p, v) PROVE Invariant'
      BY <2>0, <3>5, CallStep DEF SetProperty
    <3> QED
      BY <2>4, <3>1, <3>2, <3>3, <3>4, <3>5 DEF User
  <2> QED
    BY <1>1, <2>1, <2>2, <2>3, <2>4 DEF Next
<1>2. CASE UNCHANGED vars
  <2>1. UNCHANGED <<observed, content, events, online, inbox, client, proxies, calls,
                    running, fault>>
    BY <1>2 DEF vars
  <2> QED
    BY <2>1 DEF Invariant, TypeOK, CalledOnce, NoFault, ProxiesOK, RunningOK, RepliesOK,
                HoldsOK, StoryOK, WordsOK, Present, Linked, Latest, Refreshes
<1> QED
  BY <1>1, <1>2

\* All of the above is true from the start and stays so.
THEOREM AlwaysInvariant == Spec => []Invariant
BY Starts, Steps, PTL DEF Spec

\* One object at most has a proxy with a client, on that client's list.
THEOREM TypeCorrect == Spec => []TypeOK
<1>1. Invariant => TypeOK
  BY DEF Invariant
<1> QED
  BY <1>1, AlwaysInvariant, PTL

\* A call's function and its destroy function run once, for a call that was
\* accepted, and removed_func once, when the proxy has lost its client, whatever
\* the functions do that have a turn, and whatever becomes of proxy, client and bus
\* (client.c:430-451, 636-872).
THEOREM OnceCorrect == Spec => []CalledOnce
<1>1. Invariant => CalledOnce
  BY DEF Invariant
<1> QED
  BY <1>1, AlwaysInvariant, PTL

\* With nothing left to dispatch, a proxy remembers what the service has, or
\* nothing: the last signal, and the refreshed values behind it, are true
\* (client.c:216-250, 359-402).
THEOREM KnownCorrect == Spec => []KnownIsTrue
<1>1. Invariant => KnownIsTrue
  BY DEF Invariant, WordsOK, KnownIsTrue, GetProperty
<1> QED
  BY <1>1, AlwaysInvariant, PTL

\* Who holds a proxy that it refreshes has it when the value comes, and who
\* keeps its client in that client's callbacks leaves no handler without it
\* (client.c:254, 577, 1164), as far as the user has a turn in GdbusProxyCall.
THEOREM FaultCorrect == Spec => []NoFault
<1>1. Invariant => NoFault
  BY DEF Invariant
<1> QED
  BY <1>1, AlwaysInvariant, PTL

=============================================================================
