---------------------------- MODULE GdbusMainloop ----------------------------
(***************************************************************************)
(* How gdbus runs a D-Bus connection from GLib's main loop                 *)
(* (src/gdbus/mainloop.c).  libdbus tells of its watches, timeouts and     *)
(* dispatch status; each watch with a source, each queued dispatch and     *)
(* the user hold references to the connection.                             *)
(*                                                                         *)
(* libdbus is modelled from outside, as far as mainloop.c meets it: it     *)
(* queues what it reads, announces its dispatch status when it changes,    *)
(* completes the pending calls with errors and queues Disconnected when    *)
(* the connection ends, and answers calls that wait too long.              *)
(***************************************************************************)
EXTENDS Integers, FiniteSets, Sequences, SequencesExt, FiniteSetsExt

CONSTANTS
    MaxSignals,   \* bound on the signals from the bus
    MaxCalls,     \* bound on the calls that the user makes
    Observances   \* sets of rules that may be observed, see below

(* Rules that the user may observe, and mainloop.c does not enforce:        *)
(*   oneFunction  g_dbus_set_disconnect_function is called once at most     *)
(*   givesRef     whoever calls it leaves its reference to the connection   *)
(*                to disconnected_signal                                    *)
(*   onlyReads    the connection is not closed, and there is no blocking    *)
(*                call that would notice its end                            *)
(*   freeName     g_dbus_setup_private asks for names without an owner      *)
Rule == {"oneFunction", "givesRef", "onlyReads", "freeName"}

ASSUME MainloopAssumption ==
    /\ MaxSignals \in Nat /\ MaxCalls \in Nat
    /\ Observances \subseteq SUBSET Rule

Call == 1..MaxCalls
Signal == [kind |-> "signal"]
Disconnected == [kind |-> "disconnected"]
Reply(c) == [kind |-> "reply", call |-> c]
Message == {Signal, Disconnected} \union {Reply(c) : c \in Call}

VARIABLES
    observed,     \* not in the code: the rules of this behaviour
    shared,       \* is it g_dbus_setup_bus's shared connection, or a private one?
    phase,        \* before and after setup_bus, or the process has exited
    socket,       \* messages from the bus that are not read yet
    eof,          \* has the bus closed its end?
    up,           \* dbus_connection_get_is_connected
    signals,      \* how many signals the bus has sent
    inbox,        \* messages that are read and not dispatched
    lastStatus,   \* has libdbus announced DBUS_DISPATCH_DATA_REMAINS?
    sources,      \* the watches that have a GIOChannel source
    idles,        \* idle sources for message_dispatch
    dispatching,  \* does message_dispatch run? Is it in a message's handler?
    calls,        \* the user's calls
    armed,        \* the calls whose timeout has a GLib source
    userRefs,     \* references that the user owns
    functions,    \* disconnect functions that are set
    told,         \* not in the code: how many of them have run
    blockedAtEnd,       \* not in the code: has a blocking call met the end?
    fault

vars == <<observed, shared, phase, socket, eof, up, signals, inbox, lastStatus,
          sources, idles, dispatching, calls, armed, userRefs, functions, told,
          blockedAtEnd, fault>>

TypeOK ==
    /\ observed \in Observances
    /\ shared \in BOOLEAN /\ eof \in BOOLEAN /\ up \in BOOLEAN /\ blockedAtEnd \in BOOLEAN
    /\ phase \in {"new", "running", "failed", "exited"}
    /\ socket \in Seq(Message) /\ inbox \in Seq(Message)
    /\ signals \in 0..MaxSignals
    /\ lastStatus \in BOOLEAN
    /\ sources \subseteq {"read", "write"}
    /\ idles \in Nat
    /\ dispatching \in {"no", "loop", "handler"}
    /\ calls \in [Call -> {"unused", "waiting", "queued", "done"}]
    /\ armed \subseteq {c \in Call : calls[c] = "waiting"}
    /\ userRefs \in Int /\ functions \in 0..2 /\ told \in 0..functions
    /\ fault \in {"none", "overUnref", "freedConnection", "notClosed"}
    /\ sources # {} => up /\ phase = "running"

Init ==
    /\ observed \in Observances
    /\ shared \in BOOLEAN
    /\ phase = "new" /\ socket = <<>> /\ eof = FALSE /\ up = TRUE
    /\ signals = 0 /\ inbox = <<>> /\ lastStatus = FALSE
    /\ sources = {} /\ idles = 0 /\ dispatching = "no"
    /\ calls = [c \in Call |-> "unused"] /\ armed = {}
    /\ userRefs = 1 /\ functions = 0 /\ told = 0
    /\ blockedAtEnd = FALSE
    /\ fault = "none"

One(b) == IF b THEN 1 ELSE 0

-----------------------------------------------------------------------------
(* libdbus, as mainloop.c meets it. *)

\* What is read: all that the socket holds; a reply ends its call's timeout.
\* If it meets the end of the stream, the connection is down: calls are
\* completed with errors, and Disconnected comes last.
Replied(ms) == {c \in Call : Reply(c) \in ToSet(ms) /\ calls[c] = "waiting"}
Ended == {c \in Call : calls[c] = "waiting"} \ Replied(socket)

Failures == LET cs == SetToSeq(Ended) IN [i \in DOMAIN cs |-> Reply(cs[i])]

ReadAll(end) ==
    /\ inbox' = inbox \o socket
                \o (IF end THEN Append(Failures, Disconnected) ELSE <<>>)
    /\ socket' = <<>>
    /\ up' = ~end
    /\ calls' = [c \in Call |-> IF c \in Replied(socket) \/ (end /\ c \in Ended)
                                THEN "queued" ELSE calls[c]]
    /\ armed' = armed \ {c \in Call : calls'[c] = "queued"}

\* (Mutant of the next: what the connection leaves behind is not dispatched.)
QueuesIfConnected(up2, in) == up2 /\ in # <<>>

\* queue_dispatch, with the status that libdbus has for what is queued
Queues(up2, in) == in # <<>>

\* dispatch_status is called when the status has changed, and does nothing
\* for a connection that is down.
Announced(up2, in) == One(in # <<>> /\ ~lastStatus /\ up2 /\ phase = "running")

\* remove_watch: none is left of a connection that is down.
Watches(up2) == IF up2 THEN sources ELSE {}

\* References: user, sources, queued and running dispatches, and libdbus's own
\* for a shared connection that is up
Refs(u, srcs, ids, up2) ==
    u + Cardinality(srcs) + ids + One(dispatching # "no") + One(shared /\ up2)

BusSends(m) ==
    /\ up /\ ~eof
    /\ socket' = Append(socket, m)
    /\ CASE m = Signal -> signals < MaxSignals /\ signals' = signals + 1
         [] OTHER -> /\ \E c \in Call : m = Reply(c) /\ calls[c] \in {"waiting", "queued"}
                     /\ m \notin ToSet(socket) \union ToSet(inbox)
                     /\ UNCHANGED signals
    /\ UNCHANGED <<observed, shared, phase, eof, up, inbox, lastStatus, sources,
                   idles, dispatching, calls, armed, userRefs, functions, told,
                   blockedAtEnd, fault>>

BusCloses ==
    /\ up /\ ~eof /\ eof' = TRUE
    /\ UNCHANGED <<observed, shared, phase, socket, up, signals, inbox, lastStatus,
                   sources, idles, dispatching, calls, armed, userRefs, functions,
                   told, blockedAtEnd, fault>>

-----------------------------------------------------------------------------
(* Setting up. *)

\* (Mutant of the next: the first dispatch waits for the status to change.)
SetupUnqueued ==
    /\ phase = "new" /\ phase' = "running"
    /\ ReadAll(FALSE)
    /\ lastStatus' = (inbox' # <<>>)
    /\ sources' = {"read"}
    /\ UNCHANGED <<observed, shared, eof, signals, idles, dispatching, userRefs,
                   functions, told, blockedAtEnd, fault>>

\* g_dbus_setup_bus, g_dbus_setup_private, setup_bus: requesting the name is a
\* blocking call, which reads messages before anybody listens.  add_watch is
\* called for the read watch, the others are not enabled.
Setup ==
    /\ phase = "new" /\ phase' = "running"
    /\ ReadAll(FALSE)
    /\ lastStatus' = (inbox' # <<>>)
    /\ sources' = {"read"}
    /\ idles' = idles + One(Queues(up', inbox'))
    /\ UNCHANGED <<observed, shared, eof, signals, dispatching, userRefs,
                   functions, told, blockedAtEnd, fault>>

\* The name has an owner already, or the bus is gone: no main loop, and the
\* reference is given back, which a private connection that is up must not be
\* with its last reference.
SetupFails ==
    /\ phase = "new" /\ phase' = "failed"
    /\ "freeName" \in observed => shared \/ eof
    /\ up' = ~eof
    /\ userRefs' = 0
    /\ fault' = IF shared \/ eof THEN fault ELSE "notClosed"
    /\ UNCHANGED <<observed, shared, socket, eof, signals, inbox, lastStatus,
                   sources, idles, dispatching, calls, armed, functions, told,
                   blockedAtEnd>>

\* g_dbus_set_disconnect_function
SetDisconnectFunction ==
    /\ phase = "running" /\ up /\ userRefs = 1
    /\ functions < IF "oneFunction" \in observed THEN 1 ELSE 2
    /\ functions' = functions + 1
    /\ UNCHANGED <<observed, shared, phase, socket, eof, up, signals, inbox,
                   lastStatus, sources, idles, dispatching, calls, armed, userRefs,
                   told, blockedAtEnd, fault>>

-----------------------------------------------------------------------------
(* Sources of the main loop. *)

MainLoopRuns == phase = "running" /\ dispatching = "no"

\* (Mutant of the next: nothing protects the connection in watch_func.)
Unprotected == 0

\* "Protect connection from being destroyed by dbus_watch_handle"
Protection == 1

\* watch_func: dbus_watch_handle announces the status if it has changed, and
\* watch_func queues a dispatch whether it has or not.
WatchFunc(w) ==
    LET queued == idles + Announced(up', inbox')
    IN  /\ MainLoopRuns
        /\ w \in sources
        /\ IF w = "read"
           THEN /\ socket # <<>> \/ eof
                /\ ReadAll(eof)
                /\ sources' = Watches(up')
           ELSE /\ sources' = sources \ {"write"}    \* written, and toggled
                /\ UNCHANGED <<inbox, socket, up, calls, armed>>
        /\ lastStatus' = (inbox' # <<>>)
        /\ fault' = IF Refs(userRefs, sources', queued, up') + Protection = 0
                    THEN "freedConnection" ELSE fault
        /\ idles' = queued + One(Queues(up', inbox'))
        /\ UNCHANGED <<observed, shared, phase, eof, signals, dispatching, userRefs,
                       functions, told, blockedAtEnd>>

\* (Mutant of the next: a timeout that is removed is not freed.)
TimeoutKeepsSource(c) ==
    /\ MainLoopRuns
    /\ c \in armed
    /\ armed' = armed
    /\ calls' = [calls EXCEPT ![c] = "queued"]
    /\ inbox' = Append(inbox, Reply(c))
    /\ idles' = idles + Announced(up, inbox')
    /\ lastStatus' = TRUE
    /\ UNCHANGED <<observed, shared, phase, socket, eof, up, signals, sources,
                   dispatching, userRefs, functions, told, blockedAtEnd, fault>>

\* timeout_handler_dispatch; libdbus queues the error and removes the timeout.
TimeoutHandlerDispatch(c) ==
    /\ MainLoopRuns
    /\ c \in armed
    /\ armed' = armed \ {c}
    /\ calls' = [calls EXCEPT ![c] = "queued"]
    /\ inbox' = Append(inbox, Reply(c))
    /\ idles' = idles + Announced(up, inbox')
    /\ lastStatus' = TRUE
    /\ UNCHANGED <<observed, shared, phase, socket, eof, up, signals, sources,
                   dispatching, userRefs, functions, told, blockedAtEnd, fault>>

\* message_dispatch begins.  A source that is at work keeps its reference.
MessageDispatch ==
    /\ MainLoopRuns
    /\ idles > 0 /\ idles' = idles - 1
    /\ dispatching' = "loop"
    /\ UNCHANGED <<observed, shared, phase, socket, eof, up, signals, inbox,
                   lastStatus, sources, calls, armed, userRefs, functions, told,
                   blockedAtEnd, fault>>

\* disconnected_signal for each function, with the user's reference; without
\* any, libdbus ends the process (exit_on_disconnect of a shared connection).
DisconnectedSignal ==
    /\ told' = functions
    /\ userRefs' = userRefs - functions
    /\ fault' = IF userRefs' < 0 THEN "overUnref" ELSE fault
    /\ phase' = IF functions = 0 /\ shared THEN "exited" ELSE phase

\* One round of message_dispatch's loop: the handler of the next message
DispatchNext ==
    LET m == Head(inbox)
    IN  /\ phase = "running" /\ dispatching = "loop"
        /\ inbox # <<>>
        /\ inbox' = Tail(inbox)
        /\ dispatching' = "handler"
        /\ calls' = [c \in Call |-> IF m = Reply(c) /\ calls[c] = "queued"
                                    THEN "done" ELSE calls[c]]
        /\ IF m = Disconnected THEN DisconnectedSignal
           ELSE UNCHANGED <<told, userRefs, fault, phase>>
        /\ UNCHANGED <<observed, shared, socket, eof, up, signals, lastStatus,
                       sources, idles, armed, functions, blockedAtEnd>>

\* The loop goes on while data remain; the status is announced if it changed.
HandlerReturns ==
    /\ phase = "running" /\ dispatching = "handler"
    /\ dispatching' = IF inbox = <<>> THEN "no" ELSE "loop"
    /\ lastStatus' = (inbox # <<>>)
    /\ idles' = idles + Announced(up, inbox)
    /\ UNCHANGED <<observed, shared, phase, socket, eof, up, signals, inbox,
                   sources, calls, armed, userRefs, functions, told, blockedAtEnd, fault>>

\* A second idle source finds nothing left.
NothingToDispatch ==
    /\ phase = "running" /\ dispatching = "loop" /\ inbox = <<>>
    /\ dispatching' = "no"
    /\ lastStatus' = FALSE
    /\ UNCHANGED <<observed, shared, phase, socket, eof, up, signals, inbox, idles,
                   sources, calls, armed, userRefs, functions, told, blockedAtEnd, fault>>

-----------------------------------------------------------------------------
(* The user, in the main loop or in a message's handler. *)

UserRuns == phase = "running" /\ dispatching # "loop" /\ userRefs > 0

\* add_timeout comes with every call that waits for a reply, and watch_toggled
\* when the socket takes no more.
UserCalls(c, blocked) ==
    /\ UserRuns /\ up
    /\ calls[c] = "unused" /\ \A d \in 1..(c - 1) : calls[d] # "unused"
    /\ calls' = [calls EXCEPT ![c] = "waiting"]
    /\ armed' = armed \union {c}
    /\ sources' = sources \union (IF blocked THEN {"write"} ELSE {})
    /\ UNCHANGED <<observed, shared, phase, socket, eof, up, signals, inbox,
                   lastStatus, idles, dispatching, userRefs, functions, told,
                   blockedAtEnd, fault>>

\* A blocking call of libdbus reads by itself, and the status is announced.
UserBlocks ==
    /\ UserRuns /\ up
    /\ socket # <<>> \/ eof
    /\ "onlyReads" \in observed => ~eof
    /\ ReadAll(eof)
    /\ sources' = Watches(up')
    /\ blockedAtEnd' = (blockedAtEnd \/ eof)
    /\ lastStatus' = IF inbox' # <<>> THEN TRUE ELSE lastStatus
    /\ idles' = idles + Announced(up', inbox')
    /\ UNCHANGED <<observed, shared, phase, eof, signals, dispatching, userRefs,
                   functions, told, fault>>

UserUnrefs ==
    /\ UserRuns
    /\ userRefs = 1
    /\ "givesRef" \in observed => functions = 0
    /\ userRefs' = 0
    /\ UNCHANGED <<observed, shared, phase, socket, eof, up, signals, inbox,
                   lastStatus, sources, idles, dispatching, calls, armed, functions,
                   told, blockedAtEnd, fault>>

Bus == \/ BusSends(Signal) \/ BusCloses
       \/ \E c \in Call : BusSends(Reply(c))

MainLoop ==
    \/ \E w \in {"read", "write"} : WatchFunc(w)
    \/ \E c \in Call : TimeoutHandlerDispatch(c)
    \/ MessageDispatch \/ DispatchNext \/ HandlerReturns \/ NothingToDispatch

User ==
    \/ Setup \/ SetupFails \/ SetDisconnectFunction
    \/ \E c \in Call, blocked \in BOOLEAN : UserCalls(c, blocked)
    \/ UserBlocks \/ UserUnrefs

Next == fault = "none" /\ (Bus \/ MainLoop \/ User)

Spec == Init /\ [][Next]_vars

\* GLib runs a source that stays ready, handlers return, timers expire.
FairSpec ==
    /\ Spec
    /\ WF_vars(fault = "none" /\ (DispatchNext \/ HandlerReturns \/ NothingToDispatch))
    /\ WF_vars(fault = "none" /\ MessageDispatch)
    /\ WF_vars(fault = "none" /\ WatchFunc("read"))
    /\ \A c \in Call : WF_vars(fault = "none" /\ TimeoutHandlerDispatch(c))

-----------------------------------------------------------------------------
(* Properties. *)

\* Over, or in a case that the rules exclude
Excused == fault # "none" \/ phase # "running" \/ blockedAtEnd

\* What has been read waits for a dispatch that is queued or runs: none waits
\* for the next read, however statuses, timeouts, set-up and blocking calls
\* came (mainloop.c:70-84, 244-286).
DispatchIsQueued == inbox # <<>> => idles > 0 \/ dispatching # "no" \/ Excused

\* Every call ends, with its reply, by its timeout or with the connection; and
\* who has set a disconnect function is told when the bus is gone.
EndsAreHeard ==
    /\ \A c \in Call : (calls[c] # "unused") ~> (calls[c] = "done" \/ Excused)
    /\ (phase = "running" /\ eof /\ functions > 0) ~> (told > 0 \/ Excused)

\* The connection is not used when it is freed; nor, if the rules are observed,
\* unreferenced by who has no reference or left open by its last reference.
NoFault ==
    /\ fault # "freedConnection"
    /\ {"oneFunction", "givesRef", "freeName"} \subseteq observed => fault = "none"
=============================================================================
