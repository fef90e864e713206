------------------------- MODULE GdbusMainloopProof -------------------------
(***************************************************************************)
(* For any number of signals and calls, and whatever rules the user        *)
(* observes: a message that was read does not wait without a dispatch, and *)
(* the connection is not used when it is freed; with the rules, nobody      *)
(* gives back a reference that he does not have.                           *)
(***************************************************************************)
EXTENDS GdbusMainloop, SequenceTheorems, FiniteSetTheorems, TLAPS

\* Who waits for a dispatch waits for one that is queued or runs; and that goes
\* for libdbus too, which announces DBUS_DISPATCH_DATA_REMAINS only once.
\* Timeouts exist while the connection is up, so that what they queue is
\* announced.
QueueInv ==
    /\ idles \in Nat
    /\ calls \in [Call -> {"unused", "waiting", "queued", "done"}]
    /\ \A c \in armed : c \in Call /\ calls[c] = "waiting"
    /\ armed # {} => up \/ phase # "running"
    /\ inbox # <<>> \/ lastStatus => idles > 0 \/ dispatching # "no" \/ Excused

LEMMA OneOrNone ==
    ASSUME NEW b
    PROVE  One(b) \in {0, 1} /\ (b => One(b) = 1)
BY DEF One

\* What is read ends the timeouts of the calls that it answers; the end of the
\* stream ends all of them.
LEMMA Reading ==
    ASSUME QueueInv, NEW end, ReadAll(end)
    PROVE  /\ calls' \in [Call -> {"unused", "waiting", "queued", "done"}]
           /\ \A c \in armed' : c \in Call /\ calls'[c] = "waiting"
           /\ armed' # {} => up'
<1>1. \A c \in Call : calls'[c] \in {calls[c], "queued"}
  BY DEF ReadAll
<1>2. calls' \in [Call -> {"unused", "waiting", "queued", "done"}]
  <2>1. calls' = [c \in Call |-> calls'[c]]
    BY DEF ReadAll
  <2> QED
    BY <1>1, <2>1 DEF QueueInv
<1>3. ASSUME NEW c \in armed'
      PROVE  c \in Call /\ calls'[c] = "waiting" /\ c \in armed
  BY <1>1, <1>3 DEF ReadAll, QueueInv
<1>4. ASSUME end
      PROVE  armed' = {}
  <2>1. \A c \in armed : c \in Replied(socket) \/ c \in Ended
    BY DEF QueueInv, Ended
  <2>2. \A c \in armed : calls'[c] = "queued"
    BY <1>4, <2>1 DEF ReadAll, QueueInv
  <2> QED
    BY <1>3, <2>2
<1>5. up' = ~end
  BY DEF ReadAll
<1> QED
  BY <1>2, <1>3, <1>4, <1>5

LEMMA QueueSteps == QueueInv /\ [Next]_vars => QueueInv'
<1> SUFFICES ASSUME QueueInv, [Next]_vars PROVE QueueInv'
  OBVIOUS
<1>1. CASE Bus
  BY <1>1 DEF Bus, BusSends, BusCloses, QueueInv, Excused
<1>2. CASE \E w \in {"read", "write"} : WatchFunc(w)
  <2> PICK w \in {"read", "write"} : WatchFunc(w)
    BY <1>2
  <2>1. lastStatus' = (inbox' # <<>>) /\ phase' = phase
    BY DEF WatchFunc
  <2>2. idles' \in Nat /\ (inbox' # <<>> => idles' > 0)
    BY DEF WatchFunc, QueueInv, Announced, Queues, One
  <2>3. CASE w = "read"
    <3>1. ReadAll(eof)
      BY <2>3 DEF WatchFunc, QueueInv
    <3>2. /\ calls' \in [Call -> {"unused", "waiting", "queued", "done"}]
          /\ \A c \in armed' : c \in Call /\ calls'[c] = "waiting"
          /\ armed' # {} => up'
      BY <3>1, Reading
    <3> QED
      BY <2>1, <2>2, <3>1, <3>2 DEF QueueInv
  <2>4. CASE w = "write"
    BY <2>1, <2>2, <2>4 DEF WatchFunc, QueueInv
  <2> QED
    BY <2>3, <2>4
<1>3. CASE \E c \in Call : TimeoutHandlerDispatch(c)
  <2> PICK c \in Call : TimeoutHandlerDispatch(c)
    BY <1>3
  <2>1. up /\ dispatching = "no" /\ phase = "running"
    BY DEF TimeoutHandlerDispatch, MainLoopRuns, QueueInv
  <2>2. idles' \in Nat /\ (idles' > 0 \/ Excused')
    BY <2>1 DEF TimeoutHandlerDispatch, Announced, One, QueueInv, Excused
  <2> QED
    BY <2>1, <2>2 DEF TimeoutHandlerDispatch, QueueInv
<1>4. CASE MessageDispatch
  BY <1>4 DEF MessageDispatch, QueueInv
<1>5. CASE DispatchNext
  <2>1. calls' \in [Call -> {"unused", "waiting", "queued", "done"}]
    BY <1>5 DEF DispatchNext, QueueInv
  <2> QED
    BY <1>5, <2>1 DEF DispatchNext, DisconnectedSignal, QueueInv
<1>6. CASE HandlerReturns
  <2>1. idles' \in Nat
    BY <1>6 DEF HandlerReturns, Announced, One, QueueInv
  <2>2. inbox' # <<>> \/ lastStatus' => dispatching' = "loop"
    BY <1>6 DEF HandlerReturns
  <2> QED
    BY <1>6, <2>1, <2>2 DEF HandlerReturns, QueueInv
<1>7. CASE NothingToDispatch
  BY <1>7 DEF NothingToDispatch, QueueInv
<1>8. CASE Setup
  <2>1. /\ calls' \in [Call -> {"unused", "waiting", "queued", "done"}]
        /\ \A c \in armed' : c \in Call /\ calls'[c] = "waiting"
        /\ armed' # {} => up'
    <3>1. ReadAll(FALSE)
      BY <1>8 DEF Setup
    <3> QED
      BY <3>1, Reading
  <2>2. idles' \in Nat /\ (inbox' # <<>> \/ lastStatus' => idles' > 0)
    <3>1. idles' = idles + One(inbox' # <<>>) /\ (lastStatus' => inbox' # <<>>)
      BY <1>8 DEF Setup, Queues
    <3>2. /\ One(inbox' # <<>>) \in {0, 1}
          /\ inbox' # <<>> => One(inbox' # <<>>) = 1
      BY OneOrNone
    <3> QED
      BY <3>1, <3>2 DEF QueueInv
  <2> QED
    BY <2>1, <2>2 DEF QueueInv
<1>9. CASE SetupFails
  BY <1>9 DEF SetupFails, QueueInv, Excused
<1>10. CASE SetDisconnectFunction \/ UserUnrefs
  BY <1>10 DEF SetDisconnectFunction, UserUnrefs, QueueInv, Excused
<1>11. CASE \E c \in Call, blocked \in BOOLEAN : UserCalls(c, blocked)
  BY <1>11 DEF UserCalls, QueueInv, Excused
<1>12. CASE UserBlocks
  <2>1. /\ calls' \in [Call -> {"unused", "waiting", "queued", "done"}]
        /\ \A c \in armed' : c \in Call /\ calls'[c] = "waiting"
        /\ armed' # {} => up'
    <3>1. ReadAll(eof)
      BY <1>12 DEF UserBlocks
    <3> QED
      BY <3>1, Reading
  <2>2. /\ idles' \in Nat /\ idles' >= idles
        /\ phase = "running" /\ phase' = phase /\ dispatching' = dispatching
        /\ Excused => Excused'
    <3>1. /\ phase = "running" /\ phase' = phase /\ dispatching' = dispatching
          /\ Excused => Excused'
      BY <1>12 DEF UserBlocks, UserRuns, Excused
    <3>2. idles' = idles + Announced(up', inbox')
      BY <1>12 DEF UserBlocks
    <3> QED
      BY <3>1, <3>2, OneOrNone DEF Announced, QueueInv
  <2>3. ASSUME inbox' # <<>>, ~lastStatus
        PROVE  idles' > 0 \/ Excused'
    <3>1. up' \/ blockedAtEnd'
      BY <1>12 DEF UserBlocks, ReadAll
    <3>2. CASE up'
      BY <1>12, <2>2, <2>3, <3>2 DEF UserBlocks, Announced, One, QueueInv
    <3> QED
      BY <3>1, <3>2 DEF Excused
  <2>4. inbox' = <<>> => lastStatus' = lastStatus
    BY <1>12 DEF UserBlocks
  <2>5. lastStatus => idles' > 0 \/ dispatching' # "no" \/ Excused'
    BY <2>2 DEF QueueInv
  <2> QED
    BY <2>1, <2>2, <2>3, <2>4, <2>5 DEF QueueInv
<1>13. CASE UNCHANGED vars
  BY <1>13 DEF vars, QueueInv, Excused
<1> QED
  BY <1>1, <1>2, <1>3, <1>4, <1>5, <1>6, <1>7, <1>8, <1>9, <1>10, <1>11, <1>12,
     <1>13 DEF Next, MainLoop, User

\* Whatever the order of reads, statuses, timeouts, handlers and blocking calls,
\* a message that was read has a dispatch to come.
THEOREM DispatchCorrect == Spec => []DispatchIsQueued
<1>1. Init => QueueInv
  BY DEF Init, QueueInv, Excused
<1>2. QueueInv => DispatchIsQueued
  BY DEF QueueInv, DispatchIsQueued
<1> QED
  BY <1>1, <1>2, QueueSteps, PTL DEF Spec
-----------------------------------------------------------------------------
(* References.  Disconnected comes once, and last of all messages, which is  *)
(* why the disconnect functions give back their references once.             *)

EndOK ==
    /\ socket \in Seq(Message \ {Disconnected})
    /\ \A i \in DOMAIN inbox : inbox[i] = Disconnected => ~up /\ i = Len(inbox)
    /\ told # 0 => ~up /\ \A i \in DOMAIN inbox : inbox[i] # Disconnected

RefsOK ==
    /\ phase = "new" => up /\ functions = 0 /\ userRefs = 1
    /\ fault = "none" => userRefs \in {0, 1}
    /\ fault # "freedConnection"
    /\ "oneFunction" \in observed => functions <= 1
    /\ "givesRef" \in observed /\ functions > 0 /\ told = 0 => userRefs = 1
    /\ {"oneFunction", "givesRef", "freeName"} \subseteq observed => fault = "none"

Invariant == QueueInv /\ TypeOK /\ EndOK /\ RefsOK

LEMMA Kinds ==
    /\ Signal \in Message \ {Disconnected} /\ Disconnected \in Message
    /\ \A c \in Call : Reply(c) \in Message \ {Disconnected}
<1>1. ASSUME NEW c \in Call PROVE Reply(c) # Disconnected
  <2>1. Reply(c).kind = "reply" /\ Disconnected.kind = "disconnected"
    BY DEF Reply, Disconnected
  <2> QED
    BY <2>1
<1>2. Signal # Disconnected
  <2>1. Signal.kind = "signal" /\ Disconnected.kind = "disconnected"
    BY DEF Signal, Disconnected
  <2> QED
    BY <2>1
<1> QED
  BY <1>1, <1>2 DEF Message

\* The errors of the calls that are open at the end
LEMMA FailuresType == Failures \in Seq(Message \ {Disconnected})
<1>1. IsFiniteSet(Ended)
  <2>1. IsFiniteSet(Call)
    BY MainloopAssumption, FS_Interval DEF Call
  <2>2. Ended \subseteq Call
    BY DEF Ended
  <2> QED
    BY <2>1, <2>2, FS_Subset
<1>2. PICK n \in Nat : n = Cardinality(Ended) /\ ExistsBijection(1..n, Ended)
  BY <1>1, FS_CardinalityType
<1>3. \E f \in [1..n -> Ended] : IsInjective(f)
  BY <1>2 DEF ExistsBijection, Bijection, Injection, IsInjective
<1>4. SetToSeq(Ended) \in [1..n -> Ended]
  BY <1>2, <1>3 DEF SetToSeq
<1>5. Failures = [i \in 1..n |-> Reply(SetToSeq(Ended)[i])]
  BY <1>4 DEF Failures
<1>6. \A i \in 1..n : Reply(SetToSeq(Ended)[i]) \in Message \ {Disconnected}
  BY <1>4, Kinds DEF Ended
<1>7. Failures \in [1..n -> Message \ {Disconnected}]
  BY <1>5, <1>6
<1> QED
  BY <1>2, <1>7, SeqDef

LEMMA Apart ==
    ASSUME NEW s \in Seq(Message \ {Disconnected})
    PROVE  /\ s \in Seq(Message) /\ Len(s) \in Nat /\ DOMAIN s = 1..Len(s)
           /\ \A i \in 1..Len(s) : s[i] # Disconnected
<1>1. Len(s) \in Nat /\ DOMAIN s = 1..Len(s) /\ s \in [1..Len(s) -> Message \ {Disconnected}]
  BY LenProperties
<1>2. s \in [1..Len(s) -> Message]
  BY <1>1
<1> QED
  BY <1>1, <1>2, SeqDef

\* A list that Disconnected may end, if the connection is down.
Ends(s, down) ==
    /\ s \in Seq(Message)
    /\ \A i \in DOMAIN s : s[i] = Disconnected => down /\ i = Len(s)

LEMMA Lengthened ==
    ASSUME NEW s, Ends(s, FALSE), NEW t, NEW down, Ends(t, down)
    PROVE  Ends(s \o t, down)
<1>1. /\ s \o t \in Seq(Message) /\ Len(s \o t) = Len(s) + Len(t)
      /\ \A i \in 1..(Len(s) + Len(t)) :
            (s \o t)[i] = IF i <= Len(s) THEN s[i] ELSE t[i - Len(s)]
  BY ConcatProperties DEF Ends
<1>2. /\ Len(s) \in Nat /\ DOMAIN s = 1..Len(s) /\ Len(t) \in Nat /\ DOMAIN t = 1..Len(t)
      /\ DOMAIN (s \o t) = 1..(Len(s) + Len(t))
  BY <1>1, LenProperties DEF Ends
<1>3. ASSUME NEW i \in 1..(Len(s) + Len(t)), (s \o t)[i] = Disconnected
      PROVE  down /\ i = Len(s) + Len(t)
  <2>1. CASE i <= Len(s)
    BY <1>1, <1>2, <1>3, <2>1 DEF Ends
  <2>2. CASE ~(i <= Len(s))
    <3>1. i - Len(s) \in 1..Len(t) /\ t[i - Len(s)] = Disconnected
      BY <1>1, <1>2, <1>3, <2>2
    <3>2. down /\ i - Len(s) = Len(t)
      BY <1>2, <3>1 DEF Ends
    <3> QED
      BY <1>2, <3>2
  <2> QED
    BY <2>1, <2>2
<1> QED
  BY <1>1, <1>2, <1>3 DEF Ends

\* What a read leaves: nothing behind Disconnected, which comes if the stream
\* has ended.
LEMMA ReadEnds ==
    ASSUME NEW end \in BOOLEAN, ReadAll(end), TypeOK, EndOK, up
    PROVE  Ends(inbox', ~up') /\ socket' \in Seq(Message \ {Disconnected}) /\ up' = ~end
<1>1. up' = ~end /\ socket' = <<>>
  BY DEF ReadAll
<1>2. Ends(inbox, FALSE) /\ Ends(socket, FALSE)
  BY Apart DEF TypeOK, EndOK, Ends
<1>3. Ends(inbox \o socket, FALSE)
  BY <1>2, Lengthened
<1>4. Ends(IF end THEN Append(Failures, Disconnected) ELSE <<>>, end)
  <2>1. Ends(<<>>, FALSE)
    BY EmptySeq DEF Ends
  <2>2. Ends(Append(Failures, Disconnected), TRUE)
    <3>1. Failures \in Seq(Message) /\ Len(Failures) \in Nat
          /\ \A i \in 1..Len(Failures) : Failures[i] # Disconnected
      BY FailuresType, Apart
    <3>2. /\ Append(Failures, Disconnected) \in Seq(Message)
          /\ Len(Append(Failures, Disconnected)) = Len(Failures) + 1
          /\ \A i \in 1..Len(Failures) : Append(Failures, Disconnected)[i] = Failures[i]
      BY <3>1, Kinds, AppendProperties
    <3>3. DOMAIN Append(Failures, Disconnected) = 1..(Len(Failures) + 1)
      BY <3>1, <3>2, LenProperties
    <3> QED
      BY <3>1, <3>2, <3>3 DEF Ends
  <2> QED
    BY <2>1, <2>2
<1>5. inbox' = (inbox \o socket) \o (IF end THEN Append(Failures, Disconnected) ELSE <<>>)
  BY DEF ReadAll
<1>6. Ends(inbox', end)
  <2> DEFINE a == inbox \o socket
             b == IF end THEN Append(Failures, Disconnected) ELSE <<>>
  <2>1. inbox' = a \o b /\ Ends(a, FALSE) /\ Ends(b, end)
    BY <1>3, <1>4, <1>5
  <2> HIDE DEF a, b
  <2> QED
    BY <2>1, Lengthened
<1>7. socket' \in Seq(Message \ {Disconnected})
  BY <1>1, EmptySeq
<1> QED
  BY <1>1, <1>6, <1>7

\* The steps that change neither lists nor references keep EndOK and RefsOK;
\* the others are read off their definitions.
LEMMA EndSteps ==
    ASSUME Invariant, Next, TypeOK'
    PROVE  EndOK'
<1> USE DEF Invariant
<1>1. CASE BusSends(Signal) \/ \E c \in Call : BusSends(Reply(c))
  <2>1. PICK m \in Message \ {Disconnected} : BusSends(m)
    BY <1>1, Kinds
  <2>2. Append(socket, m) \in Seq(Message \ {Disconnected})
    BY AppendProperties DEF EndOK
  <2> QED
    BY <2>1, <2>2 DEF BusSends, EndOK
<1>2. CASE \E w \in {"read", "write"} : WatchFunc(w)
  <2> PICK w \in {"read", "write"} : WatchFunc(w)
    BY <1>2
  <2>1. CASE w = "read"
    <3>1. ReadAll(eof) /\ eof \in BOOLEAN /\ up /\ told' = told
      BY <2>1 DEF WatchFunc, TypeOK
    <3>2. Ends(inbox', ~up') /\ socket' \in Seq(Message \ {Disconnected})
      BY <3>1, ReadEnds
    <3> QED
      BY <3>1, <3>2 DEF EndOK, Ends
  <2>2. CASE w = "write"
    BY <2>2 DEF WatchFunc, EndOK
  <2> QED
    BY <2>1, <2>2
<1>3. CASE \E c \in Call : TimeoutHandlerDispatch(c)
  <2> PICK c \in Call : TimeoutHandlerDispatch(c)
    BY <1>3
  <2>1. up /\ up' = up /\ told' = told /\ socket' = socket /\ inbox' = Append(inbox, Reply(c))
    BY DEF TimeoutHandlerDispatch, MainLoopRuns, QueueInv
  <2>2. inbox \in Seq(Message) /\ Reply(c) \in Message /\ Reply(c) # Disconnected
    BY Kinds DEF TypeOK
  <2>3. /\ Len(inbox) \in Nat /\ DOMAIN inbox = 1..Len(inbox)
        /\ Len(inbox') = Len(inbox) + 1 /\ DOMAIN inbox' = 1..Len(inbox')
        /\ \A i \in 1..Len(inbox) : inbox'[i] = inbox[i]
        /\ inbox'[Len(inbox) + 1] = Reply(c)
    BY <2>1, <2>2, LenProperties, AppendProperties
  <2>4. \A i \in DOMAIN inbox' : inbox'[i] # Disconnected
    BY <2>1, <2>2, <2>3 DEF EndOK
  <2> QED
    BY <2>1, <2>4 DEF EndOK
<1>4. CASE DispatchNext
  <2>1. /\ inbox # <<>> /\ inbox' = Tail(inbox) /\ up' = up /\ socket' = socket
        /\ inbox \in Seq(Message)
        /\ IF Head(inbox) = Disconnected THEN told' = functions ELSE told' = told
    BY <1>4 DEF DispatchNext, DisconnectedSignal, TypeOK
  <2>2. /\ Len(inbox) \in Nat /\ DOMAIN inbox = 1..Len(inbox) /\ Len(inbox) >= 1
        /\ Len(inbox') = Len(inbox) - 1 /\ DOMAIN inbox' = 1..Len(inbox')
        /\ \A i \in 1..Len(inbox') : inbox'[i] = inbox[i + 1]
        /\ Head(inbox) = inbox[1]
    BY <2>1, LenProperties, HeadTailProperties, EmptySeq
  <2>3. \A i \in DOMAIN inbox' : inbox'[i] = Disconnected => ~up' /\ i = Len(inbox')
    <3> SUFFICES ASSUME NEW i \in 1..Len(inbox'), inbox'[i] = Disconnected
                 PROVE  ~up' /\ i = Len(inbox')
      BY <2>2
    <3>1. i + 1 \in DOMAIN inbox /\ inbox[i + 1] = Disconnected
      BY <2>2
    <3>2. ~up /\ i + 1 = Len(inbox)
      BY <3>1 DEF EndOK
    <3>3. Len(inbox) \in Nat /\ Len(inbox') = Len(inbox) - 1 /\ i \in Nat
      BY <2>2
    <3>4. i = Len(inbox')
      BY <3>2, <3>3
    <3> QED
      BY <2>1, <3>2, <3>4, Zenon
  <2>4. CASE Head(inbox) = Disconnected
    <3>1. 1 \in DOMAIN inbox /\ inbox[1] = Disconnected
      BY <2>2, <2>4
    <3>2. ~up /\ Len(inbox) = 1
      BY <3>1 DEF EndOK
    <3>3. DOMAIN inbox' = {}
      BY <2>2, <3>2
    <3> QED
      BY <2>1, <2>3, <3>2, <3>3 DEF EndOK
  <2>5. CASE Head(inbox) # Disconnected
    <3>1. told' = told
      BY <2>1, <2>5
    <3>2. \A i \in DOMAIN inbox' : i + 1 \in DOMAIN inbox /\ inbox'[i] = inbox[i + 1]
      BY <2>2
    <3> QED
      BY <2>1, <2>3, <3>1, <3>2 DEF EndOK
  <2> QED
    BY <2>4, <2>5
<1>5. CASE Setup
  <2>1. ReadAll(FALSE) /\ up /\ told' = told
    BY <1>5 DEF Setup, RefsOK
  <2>2. Ends(inbox', ~up') /\ socket' \in Seq(Message \ {Disconnected}) /\ up' = TRUE
    BY <2>1, ReadEnds
  <2>3. told' = 0
    BY <1>5, <2>1 DEF Setup, RefsOK, TypeOK
  <2> QED
    BY <2>2, <2>3 DEF EndOK, Ends
<1>6. CASE SetupFails
  <2>1. told = 0 /\ up /\ told' = told /\ inbox' = inbox /\ socket' = socket
    BY <1>6 DEF SetupFails, RefsOK, TypeOK
  <2> QED
    BY <2>1 DEF EndOK
<1>7. CASE UserBlocks
  <2>1. ReadAll(eof) /\ eof \in BOOLEAN /\ up /\ told' = told
    BY <1>7 DEF UserBlocks, TypeOK
  <2>2. Ends(inbox', ~up') /\ socket' \in Seq(Message \ {Disconnected})
    BY <2>1, ReadEnds
  <2> QED
    BY <2>1, <2>2 DEF EndOK, Ends
<1>8. CASE BusCloses \/ MessageDispatch \/ HandlerReturns \/ NothingToDispatch
           \/ SetDisconnectFunction \/ UserUnrefs
           \/ \E c \in Call, blocked \in BOOLEAN : UserCalls(c, blocked)
  BY <1>8 DEF BusCloses, MessageDispatch, HandlerReturns, NothingToDispatch,
              SetDisconnectFunction, UserUnrefs, UserCalls, EndOK
<1> QED
  BY <1>1, <1>2, <1>3, <1>4, <1>5, <1>6, <1>7, <1>8
     DEF Next, Bus, MainLoop, User

\* With a reference of the user's or none, nothing is used that is freed.
LEMMA RefsCounted ==
    ASSUME NEW u \in Nat, NEW srcs, srcs \subseteq {"read", "write"}, NEW ids \in Nat,
           NEW u2
    PROVE  Refs(u, srcs, ids, u2) \in Nat
<1>1. Cardinality(srcs) \in Nat
  <2>1. IsFiniteSet({"read", "write"})
    <3>1. IsFiniteSet({} \union {"read"})
      BY FS_EmptySet, FS_AddElement
    <3>2. IsFiniteSet(({} \union {"read"}) \union {"write"})
      BY <3>1, FS_AddElement
    <3>3. ({} \union {"read"}) \union {"write"} = {"read", "write"}
      OBVIOUS
    <3> QED
      BY <3>2, <3>3
  <2>2. IsFiniteSet(srcs)
    BY <2>1, FS_Subset
  <2> QED
    BY <2>2, FS_CardinalityType
<1>2. One(dispatching # "no") \in Nat /\ One(shared /\ u2) \in Nat
  BY OneOrNone
<1> QED
  BY <1>1, <1>2 DEF Refs

LEMMA RefsSteps ==
    ASSUME Invariant, Next
    PROVE  RefsOK'
<1> USE DEF Invariant
<1>1. fault = "none" /\ userRefs \in {0, 1} /\ observed' = observed
  BY DEF Next, RefsOK, Bus, MainLoop, User, BusSends, BusCloses, WatchFunc,
         TimeoutHandlerDispatch, MessageDispatch, DispatchNext, HandlerReturns,
         NothingToDispatch, Setup, SetupFails, SetDisconnectFunction, UserCalls,
         UserBlocks, UserUnrefs
<1>2. CASE \E w \in {"read", "write"} : WatchFunc(w)
  <2> PICK w \in {"read", "write"} : WatchFunc(w)
    BY <1>2
  <2>1. /\ phase = "running" /\ phase' = phase /\ functions' = functions
        /\ userRefs' = userRefs /\ told' = told
    BY DEF WatchFunc, MainLoopRuns
  <2>2. fault' = "none"
    <3> DEFINE ids == idles + Announced(up', inbox')
               r == Refs(userRefs, sources', ids, up')
    <3>1. sources' \subseteq {"read", "write"}
      BY DEF WatchFunc, Watches, TypeOK
    <3>2. ids \in Nat
      BY OneOrNone DEF Announced, QueueInv
    <3>3. fault' = IF r + Protection = 0 THEN "freedConnection" ELSE fault
      BY DEF WatchFunc
    <3>4. userRefs \in Nat
      BY <1>1
    <3> HIDE DEF ids
    <3>5. r \in Nat
      BY <3>1, <3>2, <3>4, RefsCounted
    <3> HIDE DEF r
    <3> QED
      BY <1>1, <3>3, <3>5 DEF Protection
  <2> QED
    BY <1>1, <2>1, <2>2 DEF RefsOK
<1>3. CASE DispatchNext
  <2>1. /\ inbox # <<>> /\ functions' = functions /\ phase = "running"
        /\ phase' # "new" /\ inbox \in Seq(Message)
    BY <1>3 DEF DispatchNext, DisconnectedSignal, TypeOK
  <2>2. CASE Head(inbox) # Disconnected
    BY <1>1, <1>3, <2>1, <2>2 DEF DispatchNext, RefsOK
  <2>3. CASE Head(inbox) = Disconnected
    <3>1. 1 \in DOMAIN inbox /\ inbox[1] = Disconnected
      BY <2>1, <2>3, LenProperties, EmptySeq
    <3>2. told = 0
      BY <3>1 DEF EndOK
    <3>3. /\ told' = functions /\ userRefs' = userRefs - functions
          /\ fault' = IF userRefs' < 0 THEN "overUnref" ELSE fault
      BY <1>3, <2>3 DEF DispatchNext, DisconnectedSignal
    <3>4. functions \in 0..2
      BY DEF TypeOK
    <3>5. ASSUME {"oneFunction", "givesRef", "freeName"} \subseteq observed
          PROVE  userRefs' >= 0
      <4>1. functions <= 1 /\ (functions > 0 => userRefs = 1)
        BY <3>2, <3>4, <3>5 DEF RefsOK
      <4> QED
        BY <1>1, <3>3, <3>4, <4>1
    <3>6. userRefs' \in {0, 1} \/ userRefs' < 0
      BY <1>1, <3>3, <3>4
    <3>7. fault' = "none" => userRefs' \in {0, 1}
      BY <3>3, <3>6
    <3>8. fault' # "freedConnection"
      BY <1>1, <3>3
    <3>9. {"oneFunction", "givesRef", "freeName"} \subseteq observed => fault' = "none"
      BY <1>1, <3>3, <3>4, <3>5, <3>6
    <3>10. functions > 0 => told' # 0
      BY <3>3, <3>4
    <3> QED
      BY <1>1, <2>1, <3>7, <3>8, <3>9, <3>10 DEF RefsOK
  <2> QED
    BY <2>2, <2>3
<1>4. CASE Setup
  <2>1. /\ phase = "new" /\ phase' = "running" /\ functions' = functions
        /\ userRefs' = userRefs /\ told' = told /\ fault' = fault
    BY <1>4 DEF Setup
  <2> QED
    BY <1>1, <2>1 DEF RefsOK
<1>5. CASE SetupFails
  BY <1>1, <1>5 DEF SetupFails, RefsOK
<1>6. CASE SetDisconnectFunction
  <2>1. functions \in 0..2 /\ phase' # "new" /\ userRefs' = 1 /\ fault' = fault
        /\ ("oneFunction" \in observed => functions < 1) /\ functions' = functions + 1
    BY <1>6 DEF SetDisconnectFunction, TypeOK
  <2> QED
    BY <1>1, <2>1 DEF RefsOK
<1>7. CASE UserUnrefs
  BY <1>1, <1>7 DEF UserUnrefs, UserRuns, RefsOK
<1>8. CASE UserBlocks
  <2>1. /\ phase = "running" /\ phase' = phase /\ functions' = functions
        /\ userRefs' = userRefs /\ told' = told /\ fault' = fault
    BY <1>8 DEF UserBlocks, UserRuns
  <2> QED
    BY <1>1, <2>1 DEF RefsOK
<1>9. CASE \/ BusSends(Signal) \/ (\E c \in Call : BusSends(Reply(c))) \/ BusCloses
           \/ MessageDispatch \/ HandlerReturns \/ NothingToDispatch
           \/ (\E c \in Call : TimeoutHandlerDispatch(c))
           \/ \E c \in Call, blocked \in BOOLEAN : UserCalls(c, blocked)
  <2>1. /\ phase' = phase /\ functions' = functions /\ up' = up
        /\ userRefs' = userRefs /\ told' = told /\ fault' = fault
    BY <1>9 DEF BusSends, BusCloses, MessageDispatch, HandlerReturns,
                NothingToDispatch, TimeoutHandlerDispatch, UserCalls
  <2> QED
    BY <1>1, <2>1 DEF RefsOK
<1> QED
  BY <1>2, <1>3, <1>4, <1>5, <1>6, <1>7, <1>8, <1>9
     DEF Next, Bus, MainLoop, User

-----------------------------------------------------------------------------
(* The types. *)

\* Timeouts are of calls that wait, and a connection that is down has no
\* sources.
LEMMA TypeSteps ==
    ASSUME Invariant, Next, QueueInv'
    PROVE  TypeOK'
<1> USE DEF Invariant
<1>1. /\ observed' = observed /\ shared' = shared
      /\ (blockedAtEnd' = blockedAtEnd \/ blockedAtEnd' = (blockedAtEnd \/ eof))
      /\ (eof' = eof \/ eof' = TRUE)
  BY DEF Next, Bus, MainLoop, User, BusSends, BusCloses, WatchFunc,
         TimeoutHandlerDispatch, MessageDispatch, DispatchNext, HandlerReturns,
         NothingToDispatch, Setup, SetupFails, SetDisconnectFunction, UserCalls,
         UserBlocks, UserUnrefs
<1>2. /\ observed' \in Observances /\ shared' \in BOOLEAN /\ eof' \in BOOLEAN
      /\ blockedAtEnd' \in BOOLEAN
  <2>1. /\ observed \in Observances /\ shared \in BOOLEAN /\ eof \in BOOLEAN
        /\ blockedAtEnd \in BOOLEAN
    BY DEF TypeOK
  <2> QED
    BY <1>1, <2>1, Zenon
<1>3. /\ idles' \in Nat
      /\ calls' \in [Call -> {"unused", "waiting", "queued", "done"}]
      /\ armed' \subseteq {c \in Call : calls'[c] = "waiting"}
  BY DEF QueueInv
<1> DEFINE Control ==
      /\ up' \in BOOLEAN /\ phase' \in {"new", "running", "failed", "exited"}
      /\ signals' \in 0..MaxSignals /\ lastStatus' \in BOOLEAN
      /\ dispatching' \in {"no", "loop", "handler"}
      /\ userRefs' \in Int /\ functions' \in 0..2 /\ told' \in 0..functions'
      /\ fault' \in {"none", "overUnref", "freedConnection", "notClosed"}
    Sources ==
      /\ sources' \subseteq {"read", "write"}
      /\ sources' # {} => up' /\ phase' = "running"
    Lists == socket' \in Seq(Message) /\ inbox' \in Seq(Message)
<1>4. ASSUME Control, Sources, Lists PROVE TypeOK'
  BY <1>2, <1>3, <1>4 DEF TypeOK
<1>5. CASE BusSends(Signal) \/ \E c \in Call : BusSends(Reply(c))
  <2>1. PICK m \in Message : BusSends(m)
    BY <1>5, Kinds
  <2>2. Control
    BY <2>1, MainloopAssumption DEF BusSends, TypeOK
  <2>3. Sources
    BY <2>1 DEF BusSends, TypeOK
  <2>4. Lists
    BY <2>1, AppendProperties DEF BusSends, TypeOK
  <2> QED
    BY <1>4, <2>2, <2>3, <2>4
<1>6. CASE \E w \in {"read", "write"} : WatchFunc(w)
  <2> PICK w \in {"read", "write"} : WatchFunc(w)
    BY <1>6
  <2>1. CASE w = "read"
    <3>1. ReadAll(eof) /\ eof \in BOOLEAN /\ up
      BY <2>1 DEF WatchFunc, TypeOK
    <3>2. Ends(inbox', ~up') /\ socket' \in Seq(Message \ {Disconnected}) /\ up' = ~eof
      BY <3>1, ReadEnds
    <3>3. Control
      BY <3>2 DEF WatchFunc, MainLoopRuns, TypeOK
    <3>4. Sources
      BY <2>1, <3>2 DEF WatchFunc, MainLoopRuns, Watches, TypeOK
    <3>5. Lists
      BY <3>2, Apart DEF Ends
    <3> QED
      BY <1>4, <3>3, <3>4, <3>5
  <2>2. CASE w = "write"
    <3>1. Control
      BY <2>2 DEF WatchFunc, MainLoopRuns, TypeOK
    <3>2. Sources
      BY <2>2 DEF WatchFunc, MainLoopRuns, TypeOK
    <3>3. Lists
      BY <2>2 DEF WatchFunc, TypeOK
    <3> QED
      BY <1>4, <3>1, <3>2, <3>3
  <2> QED
    BY <2>1, <2>2
<1>7. CASE \E c \in Call : TimeoutHandlerDispatch(c)
  <2> PICK c \in Call : TimeoutHandlerDispatch(c)
    BY <1>7
  <2>1. Control /\ Sources
    BY DEF TimeoutHandlerDispatch, TypeOK
  <2>2. Lists
    BY Kinds, AppendProperties DEF TimeoutHandlerDispatch, TypeOK
  <2> QED
    BY <1>4, <2>1, <2>2
<1>8. CASE DispatchNext
  <2>1. inbox # <<>> /\ inbox' = Tail(inbox) /\ socket' = socket
    BY <1>8 DEF DispatchNext
  <2>2. Lists
    BY <2>1, HeadTailProperties DEF TypeOK
  <2>3. CASE Head(inbox) # Disconnected
    <3>1. Control /\ Sources
      BY <1>8, <2>3 DEF DispatchNext, TypeOK
    <3> QED
      BY <1>4, <2>2, <3>1
  <2>4. CASE Head(inbox) = Disconnected
    <3>1. DisconnectedSignal
      BY <1>8, <2>4 DEF DispatchNext
    <3>2. inbox \in Seq(Message) /\ 1 \in DOMAIN inbox /\ inbox[1] = Disconnected
      BY <2>1, <2>4, LenProperties, EmptySeq DEF TypeOK
    <3>3. ~up
      BY <3>2 DEF EndOK
    <3>4. Control
      BY <1>8, <3>1 DEF DispatchNext, DisconnectedSignal, TypeOK
    <3>5. Sources
      BY <1>8, <3>3 DEF DispatchNext, TypeOK
    <3> QED
      BY <1>4, <2>2, <3>4, <3>5
  <2> QED
    BY <2>3, <2>4
<1>9. CASE Setup
  <2>1. ReadAll(FALSE) /\ up
    BY <1>9 DEF Setup, RefsOK
  <2>2. Ends(inbox', ~up') /\ socket' \in Seq(Message \ {Disconnected}) /\ up' = TRUE
    BY <2>1, ReadEnds
  <2>3. Control /\ Sources
    BY <1>9, <2>2 DEF Setup, TypeOK
  <2>4. Lists
    BY <2>2, Apart DEF Ends
  <2> QED
    BY <1>4, <2>3, <2>4
<1>10. CASE SetupFails
  <2>1. Control /\ Sources /\ Lists
    BY <1>10 DEF SetupFails, TypeOK
  <2> QED
    BY <1>4, <2>1
<1>11. CASE SetDisconnectFunction
  <2>1. functions' \in 0..2 /\ told' \in 0..functions'
    BY <1>11 DEF SetDisconnectFunction, TypeOK
  <2>2. Control /\ Sources /\ Lists
    BY <1>11, <2>1 DEF SetDisconnectFunction, TypeOK
  <2> QED
    BY <1>4, <2>2
<1>12. CASE UserBlocks
  <2>1. ReadAll(eof) /\ eof \in BOOLEAN /\ up
    BY <1>12 DEF UserBlocks, TypeOK
  <2>2. Ends(inbox', ~up') /\ socket' \in Seq(Message \ {Disconnected}) /\ up' = ~eof
    BY <2>1, ReadEnds
  <2>3. Control
    BY <1>12, <2>2 DEF UserBlocks, TypeOK
  <2>4. Sources
    BY <1>12, <2>2 DEF UserBlocks, UserRuns, Watches, TypeOK
  <2>5. Lists
    BY <2>2, Apart DEF Ends
  <2> QED
    BY <1>4, <2>3, <2>4, <2>5
<1>13. CASE \E c \in Call, blocked \in BOOLEAN : UserCalls(c, blocked)
  <2>1. Control /\ Sources /\ Lists
    BY <1>13 DEF UserCalls, UserRuns, TypeOK
  <2> QED
    BY <1>4, <2>1
<1>14. CASE BusCloses \/ MessageDispatch \/ HandlerReturns \/ NothingToDispatch \/ UserUnrefs
  <2>1. /\ up' = up /\ phase' = phase /\ signals' = signals /\ functions' = functions
        /\ told' = told /\ fault' = fault /\ sources' = sources /\ socket' = socket
        /\ inbox' = inbox /\ userRefs' \in {userRefs, 0}
        /\ lastStatus' = lastStatus \/ lastStatus' \in BOOLEAN
        /\ dispatching' \in {dispatching, "no", "loop"}
    BY <1>14 DEF BusCloses, MessageDispatch, HandlerReturns, NothingToDispatch,
                 UserUnrefs
  <2>2. Control /\ Sources /\ Lists
    BY <2>1 DEF TypeOK
  <2> QED
    BY <1>4, <2>2
<1> QED
  BY <1>5, <1>6, <1>7, <1>8, <1>9, <1>10, <1>11, <1>12, <1>13, <1>14
     DEF Next, Bus, MainLoop, User

LEMMA Starts == Init => Invariant
<1> SUFFICES ASSUME Init PROVE Invariant
  OBVIOUS
<1>1. QueueInv
  BY DEF Init, QueueInv, Excused
<1>2. \A S : <<>> \in Seq(S)
  BY EmptySeq
<1>3. TypeOK
  <2>1. /\ calls \in [Call -> {"unused", "waiting", "queued", "done"}]
        /\ armed \subseteq {c \in Call : calls[c] = "waiting"}
    BY DEF Init
  <2>2. signals \in 0..MaxSignals /\ functions \in 0..2 /\ told \in 0..functions
        /\ userRefs \in Int /\ idles \in Nat
    BY MainloopAssumption DEF Init
  <2> QED
    BY <1>2, <2>1, <2>2 DEF Init, TypeOK
<1>4. EndOK /\ RefsOK
  BY <1>2 DEF Init, EndOK, RefsOK
<1> QED
  BY <1>1, <1>3, <1>4 DEF Invariant

LEMMA Steps == Invariant /\ [Next]_vars => Invariant'
<1> SUFFICES ASSUME Invariant, [Next]_vars PROVE Invariant'
  OBVIOUS
<1>1. QueueInv'
  BY QueueSteps DEF Invariant
<1>2. CASE Next
  <2>1. TypeOK'
    BY <1>1, <1>2, TypeSteps
  <2>2. EndOK' /\ RefsOK'
    BY <1>2, <2>1, EndSteps, RefsSteps
  <2> QED
    BY <1>1, <2>1, <2>2 DEF Invariant
<1>3. CASE UNCHANGED vars
  BY <1>1, <1>3 DEF vars, Invariant, TypeOK, EndOK, RefsOK
<1> QED
  BY <1>2, <1>3

\* Every variable keeps its type; there are timeouts only for calls that wait, and
\* GLib sources only for a connection that is up (mainloop.c:86-240).
THEOREM TypeCorrect == Spec => []TypeOK
<1>1. Invariant => TypeOK
  BY DEF Invariant
<1> QED
  BY <1>1, Starts, Steps, PTL DEF Spec

\* Nobody uses a connection that is freed (mainloop.c:86-108); and if the rules
\* are observed, nobody gives back a reference that he does not have.
THEOREM FaultCorrect == Spec => []NoFault
<1>1. Invariant => NoFault
  BY DEF Invariant, RefsOK, NoFault
<1> QED
  BY <1>1, Starts, Steps, PTL DEF Spec

=============================================================================
