--------------------------- MODULE GdbusProxyCall ----------------------------
(***************************************************************************)
(* What a user of gdbus's client does with a proxy (src/gdbus/client.c):   *)
(* calls of its methods, Properties.Set, and Properties.Get to refresh     *)
(* what the proxy remembers.  Answers come while the proxy may be removed, *)
(* its client dropped or the bus gone, and what the library calls the user *)
(* for is an occasion for the user to do any of this.  Two occasions are   *)
(* left out: proxy_removed and removed_func when the last reference to the *)
(* client goes (Freed), and g_dbus_proxy_new, which is GdbusClient's, from *)
(* inside of any callback.                                                 *)
(*                                                                         *)
(* The service has one object with one interface and one property.  How    *)
(* the client learns of objects is the subject of GdbusClient: here, three *)
(* messages from the service say it.  proxy_added, property_changed and    *)
(* the like are set; prop_func and property_changed are one callback.      *)
(***************************************************************************)
EXTENDS Naturals, FiniteSets, Sequences, SequencesExt

CONSTANTS
    Val,
    Absent,      \* no such object or property; no value is remembered
    Failed,      \* the answer is an error
    MaxEvents,   \* bound on what the service does by itself
    MaxCalls,    \* bound on the user's calls
    MaxProxies,  \* bound on proxies, one after the other
    Observances  \* sets of rules that may be observed, see below

(* Rules that the user may observe, and client.c does not enforce:         *)
(*   holds        it holds a reference to a proxy that it refreshes, until *)
(*                the answer is there                                      *)
(*   keepsClient  it does not drop its client in a callback on behalf of   *)
(*                that client, but for those that come with interfaces     *)
Rule == {"holds", "keepsClient"}

ASSUME ProxyCallAssumption ==
    /\ Absent \notin Val /\ Failed \notin Val \union {Absent}
    /\ MaxEvents \in Nat /\ MaxCalls \in Nat /\ MaxProxies \in Nat
    /\ Observances \subseteq SUBSET Rule

VARIABLES
    observed,  \* not in the code: the rules of this behaviour
    content,   \* the service's property, Absent if there is no object
    events,    \* what the service has done by itself
    online,    \* is the connection to the bus up?
    inbox,     \* what the connection has not dispatched
    client,    \* does the user hold its GDBusClient?
    proxies,   \* the GDBusProxy of each number, see Proxy
    calls,     \* the user's calls, see Call
    running,   \* the user's function that runs, or Idle
    fault

vars == <<observed, content, events, online, inbox, client, proxies, calls,
          running, fault>>

\* linked: proxy->client # NULL; listed: the client holds a reference;
\* removals: not in the code: the calls of removed_func
Proxy == [linked : BOOLEAN, listed : BOOLEAN, refs : 0..1,
          value : Val \union {Absent}, removals : Nat]

\* value: what Set sends; the last two are not in the code: how often the reply
\* function ran, and how often the user's destroy function (the library's own,
\* for a refresh)
Call == [kind : {"refresh", "set", "method"}, proxy : 1..MaxProxies,
         value : Val \union {Absent},
         state : {"open", "queued", "running", "done", "refused"},
         ran : Nat, destroyed : Nat]

Message ==
    [kind : {"added", "changed"}, value : Val]
    \union [kind : {"invalidated", "removed", "exit"}]
    \union [kind : {"reply"}, call : 1..MaxCalls, answer : Val \union {Failed}]

\* by: what the handler was called for; used: does it use client or proxy after
\* the user's function?
Idle == [in |-> "mainLoop", by |-> "none", used |-> FALSE]
Callback == [in : {"added", "changed", "removed", "gone", "reply"}, of : Nat,
             by : {"added", "changed", "removed", "exit", "reply"},
             used : BOOLEAN]

Alive(p) == proxies[p].listed \/ proxies[p].refs > 0

\* The types, and: a proxy with a client is on that client's list or is being
\* announced, and there is one such proxy at most.
TypeOK ==
    /\ observed \in Observances
    /\ content \in Val \union {Absent} /\ events \in 0..MaxEvents
    /\ online \in BOOLEAN /\ client \in BOOLEAN
    /\ inbox \in Seq(Message)
    /\ proxies \in Seq(Proxy) /\ Len(proxies) <= MaxProxies
    /\ calls \in Seq(Call) /\ Len(calls) <= MaxCalls
    /\ running \in Callback \union {Idle}
    /\ fault \in {"none", "freedProxy", "freedClient"}
    /\ \A p \in DOMAIN proxies : proxies[p].linked => p = Len(proxies)
    /\ fault = "none" =>
         \A p \in DOMAIN proxies : proxies[p].linked => proxies[p].listed

Init ==
    /\ observed \in Observances
    /\ content = Absent /\ events = 0 /\ online = TRUE /\ inbox = <<>>
    /\ client = TRUE /\ proxies = <<>> /\ calls = <<>>
    /\ running = Idle
    /\ fault = "none"

user == <<client, proxies, running, fault>>

-----------------------------------------------------------------------------
(* The service and the bus. *)

Sent(m) == inbox' = Append(inbox, m)
Event == online /\ events < MaxEvents /\ events' = events + 1

\* The open calls are answered for a service, or a bus, that is gone, in any
\* order.
FailAll(first) ==
    /\ \E open \in SetToSeqs({c \in DOMAIN calls : calls[c].state = "open"}) :
          inbox' = first \o [i \in DOMAIN open |->
                                [kind |-> "reply", call |-> open[i], answer |-> Failed]]
    /\ calls' = [c \in DOMAIN calls |-> IF calls[c].state = "open"
                                        THEN [calls[c] EXCEPT !.state = "queued"]
                                        ELSE calls[c]]

ServiceAdds(v) ==
    /\ Event
    /\ content = Absent /\ content' = v
    /\ Sent([kind |-> "added", value |-> v])
    /\ UNCHANGED <<observed, online, calls, user>>

\* PropertiesChanged has the new value, or only says that there is one.
ServiceChanges(v, told) ==
    /\ Event
    /\ content \in Val \ {v} /\ content' = v
    /\ Sent(IF told THEN [kind |-> "changed", value |-> v]
            ELSE [kind |-> "invalidated"])
    /\ UNCHANGED <<observed, online, calls, user>>

ServiceRemoves ==
    /\ Event
    /\ content # Absent /\ content' = Absent
    /\ Sent([kind |-> "removed"])
    /\ UNCHANGED <<observed, online, calls, user>>

ServiceExits ==
    /\ Event
    /\ content # Absent /\ content' = Absent
    /\ FailAll(Append(inbox, [kind |-> "exit"]))
    /\ UNCHANGED <<observed, online, user>>

Queued(c) == calls' = [calls EXCEPT ![c].state = "queued"]

\* Calls are answered in any order.  A Set that succeeds is signalled first.
ServiceAnswers(c, a) ==
    LET k == calls[c].kind
        reply == [kind |-> "reply", call |-> c, answer |-> a]
        changes == k = "set" /\ a # Failed /\ calls[c].value # content
    IN  /\ online /\ calls[c].state = "open"
        /\ content = Absent => a = Failed
        /\ k = "refresh" => a \in {Failed, content}
        /\ k = "set" => a \in {Failed, calls[c].value}
        /\ Queued(c)
        /\ content' = IF changes THEN a ELSE content
        /\ inbox' = inbox \o (IF changes THEN <<[kind |-> "changed", value |-> a]>>
                              ELSE <<>>) \o <<reply>>
        /\ UNCHANGED <<observed, events, online, user>>

\* libdbus answers for a service that does not, and drops what comes later.
TimesOut(c) ==
    /\ calls[c].state = "open"
    /\ Queued(c)
    /\ Sent([kind |-> "reply", call |-> c, answer |-> Failed])
    /\ UNCHANGED <<observed, content, events, online, user>>

Disconnect ==
    /\ online /\ online' = FALSE
    /\ FailAll(inbox)
    /\ UNCHANGED <<observed, content, events, user>>

-----------------------------------------------------------------------------
(* proxy_free, and what the user is called for on the way. *)

Runs(in, of, by, used) ==
    running' = [in |-> in, of |-> of, by |-> by, used |-> used]

\* (Mutant of the next: interfaces_removed does not hold the client.)
GuardedAdded == running.by = "added"

\* Does the handler hold a reference to the client meanwhile?  interfaces_added
\* and interfaces_removed do, service_disconnect and properties_changed do not.
Guarded == running.by \in {"added", "removed"}

Unlinked(q) == [q EXCEPT !.linked = FALSE, !.value = Absent]
Delisted(q) == [q EXCEPT !.listed = FALSE]
Removed(q) == [q EXCEPT !.removals = @ + 1]

\* g_dbus_client_unref when it is the last: proxy_free for what is listed.  The
\* user is called for each of these proxies, and does nothing there.
Freed(ps) == [p \in DOMAIN ps |-> IF ps[p].listed
                                  THEN Delisted(Removed(Unlinked(ps[p])))
                                  ELSE ps[p]]

\* The handler gives back its reference to the client.
Unguarded(ps) == IF Guarded /\ ~client THEN Freed(ps) ELSE ps

Linked == {p \in DOMAIN proxies : proxies[p].linked}

\* g_dbus_proxy_get_property
GetProperty(p) == proxies[p].value

\* add_property, prop_entry_new and prop_entry_update
AddProperty(p, v) == proxies' = [proxies EXCEPT ![p].value = v]

-----------------------------------------------------------------------------
(* The client's handlers, up to the first call of a user's function.  *)

\* parse_properties, under interfaces_added or get_managed_objects_reply.  (The
\* run's bounds leave room for a proxy each time the object appears.)
InterfacesAdded(m) ==
    /\ m.kind = "added" /\ client
    /\ Len(proxies) < MaxProxies
    /\ proxies' = Append(proxies, [linked |-> TRUE, listed |-> TRUE, refs |-> 0,
                                   value |-> m.value, removals |-> 0])
    /\ Runs("added", Len(proxies) + 1, m.kind, TRUE)
    /\ UNCHANGED <<calls, fault>>

\* (Mutant of the next: what is invalidated stays remembered.)
PropertiesChangedKeeps(m, p) ==
    /\ m.kind \in {"changed", "invalidated"} /\ p \in Linked
    /\ IF m.kind = "changed" THEN AddProperty(p, m.value) ELSE UNCHANGED proxies
    /\ Runs("changed", p, "changed", TRUE)
    /\ UNCHANGED <<calls, fault>>

\* properties_changed: an invalidated property is forgotten.
PropertiesChanged(m, p) ==
    /\ m.kind \in {"changed", "invalidated"} /\ p \in Linked
    /\ AddProperty(p, IF m.kind = "changed" THEN m.value ELSE Absent)
    /\ Runs("changed", p, "changed", TRUE)
    /\ UNCHANGED <<calls, fault>>

\* interfaces_removed, which holds the client, and service_disconnect, which
\* does not
ProxyFree(m, p) ==
    /\ m.kind \in {"removed", "exit"} /\ p \in Linked
    /\ Runs("removed", p, m.kind, TRUE)
    /\ UNCHANGED <<proxies, calls, fault>>

\* refresh_property_reply: no reference protects the proxy, and property_changed
\* is called on the client that it had before prop_func.
RefreshPropertyReply(m) ==
    LET p == calls[m.call].proxy
    IN  /\ m.kind = "reply" /\ calls[m.call].kind = "refresh"
        /\ calls' = [calls EXCEPT ![m.call].state = "done", ![m.call].ran = @ + 1,
                                  ![m.call].destroyed = @ + 1]
        /\ IF m.answer = Failed THEN UNCHANGED <<proxies, running, fault>>
           ELSE IF ~Alive(p)
           THEN fault' = "freedProxy" /\ UNCHANGED <<proxies, running>>
           ELSE /\ AddProperty(p, m.answer)
                /\ Runs("changed", p, "reply", proxies[p].linked)
                /\ UNCHANGED fault

\* (Mutant of the next: an answer is for a proxy that still has its client.)
CallReplyLinked(m) ==
    /\ m.kind = "reply" /\ calls[m.call].kind # "refresh"
    /\ IF proxies[calls[m.call].proxy].linked
       THEN /\ calls' = [calls EXCEPT ![m.call].state = "running",
                                      ![m.call].ran = @ + 1]
            /\ Runs("reply", m.call, "reply", FALSE)
       ELSE UNCHANGED <<calls, running>>
    /\ UNCHANGED <<proxies, fault>>

\* set_property_reply, method_call_reply
CallReply(m) ==
    /\ m.kind = "reply" /\ calls[m.call].kind # "refresh"
    /\ calls' = [calls EXCEPT ![m.call].state = "running", ![m.call].ran = @ + 1]
    /\ Runs("reply", m.call, "reply", FALSE)
    /\ UNCHANGED <<proxies, fault>>

\* Signals for a client, or a proxy, that is gone
Ignored(m) ==
    /\ \/ m.kind = "added" /\ ~client
       \/ m.kind \in {"changed", "invalidated", "removed", "exit"} /\ Linked = {}
    /\ UNCHANGED <<proxies, calls, running, fault>>

Dispatch ==
    /\ running = Idle
    /\ inbox # <<>> /\ inbox' = Tail(inbox)
    /\ LET m == Head(inbox)
       IN  \/ InterfacesAdded(m)
           \/ \E p \in DOMAIN proxies : PropertiesChanged(m, p) \/ ProxyFree(m, p)
           \/ RefreshPropertyReply(m)
           \/ CallReply(m)
           \/ Ignored(m)
    /\ UNCHANGED <<observed, content, events, online, client>>

-----------------------------------------------------------------------------
(* The user's function returns to its handler. *)

Returns == UNCHANGED <<observed, content, events, online, inbox, client, fault>>

\* proxy_added and property functions: nothing more happens to the proxy.
ReturnToHandler ==
    /\ running.in \in {"added", "changed"}
    /\ proxies' = Unguarded(proxies)
    /\ running' = Idle
    /\ UNCHANGED calls
    /\ Returns

\* (Mutant of the next: the proxy keeps its client.)
ReturnFromRemovedLinked ==
    LET p == running.of
    IN  /\ running.in = "removed"
        /\ proxies' = [proxies EXCEPT ![p] = [Removed(@) EXCEPT !.value = Absent]]
        /\ running' = [running EXCEPT !.in = "gone"]
        /\ UNCHANGED calls
        /\ Returns

\* proxy_free after proxy_removed: removed_func is next.
ReturnFromRemoved ==
    LET p == running.of
    IN  /\ running.in = "removed"
        /\ proxies' = [proxies EXCEPT ![p] = Removed(Unlinked(@))]
        /\ running' = [running EXCEPT !.in = "gone"]
        /\ UNCHANGED calls
        /\ Returns

\* ... and the list's reference goes.
ReturnFromGone ==
    LET p == running.of
    IN  /\ running.in = "gone"
        /\ proxies' = Unguarded([proxies EXCEPT ![p] = Delisted(@)])
        /\ running' = Idle
        /\ UNCHANGED calls
        /\ Returns

\* (Mutant of the next: the call's destroy function is forgotten.)
ReturnFromReplyUndestroyed ==
    /\ running.in = "reply"
    /\ calls' = [calls EXCEPT ![running.of].state = "done"]
    /\ running' = Idle
    /\ UNCHANGED proxies
    /\ Returns

\* set_property_reply and method_call_reply: destroy is called.
ReturnFromReply ==
    /\ running.in = "reply"
    /\ calls' = [calls EXCEPT ![running.of].state = "done",
                              ![running.of].destroyed = @ + 1]
    /\ running' = Idle
    /\ UNCHANGED proxies
    /\ Returns

Return == ReturnToHandler \/ ReturnFromRemoved \/ ReturnFromGone \/ ReturnFromReply

-----------------------------------------------------------------------------
(* What the user does, from the main loop or in one of its functions.  *)

\* A user knows the proxies it holds and those it was told of and not yet told
\* of the end of.
Known(p) == proxies[p].linked \/ proxies[p].refs > 0

\* Without a client, or a bus to send to, a call returns FALSE, and what it has
\* allocated is freed.
ProxyCall(p, kind, v) ==
    /\ Known(p)
    /\ Len(calls) < MaxCalls
    /\ calls' = Append(calls,
         [kind |-> kind, proxy |-> p, value |-> v,
          state |-> IF proxies[p].linked /\ online THEN "open" ELSE "refused",
          ran |-> 0, destroyed |-> 0])
    /\ UNCHANGED <<observed, content, events, online, inbox, user>>

\* The call keeps the proxy's address, and no reference.
RefreshProperty(p) ==
    /\ "holds" \in observed => proxies[p].refs > 0
    /\ ProxyCall(p, "refresh", Absent)

SetProperty(p, v) == ProxyCall(p, "set", v)
MethodCall(p) == ProxyCall(p, "method", Absent)

ProxyRef(p) ==
    /\ proxies[p].linked /\ proxies[p].refs = 0
    /\ proxies' = [proxies EXCEPT ![p].refs = 1]
    /\ UNCHANGED <<observed, content, events, online, inbox, client, calls,
                   running, fault>>

ProxyUnref(p) ==
    /\ proxies[p].refs = 1
    /\ "holds" \in observed =>
          \A c \in DOMAIN calls : calls[c].proxy = p /\ calls[c].kind = "refresh"
                                    => calls[c].state \in {"done", "refused"}
    /\ proxies' = [proxies EXCEPT ![p].refs = 0]
    /\ UNCHANGED <<observed, content, events, online, inbox, client, calls,
                   running, fault>>

\* g_dbus_client_unref, by its only user: a handler's reference keeps the client
\* until the handler ends; without one, the handler goes on with freed memory.
ClientUnref ==
    /\ client /\ client' = FALSE
    /\ "keepsClient" \in observed =>
          ~running.used \/ running.by \in {"added", "removed"}
    /\ fault' = IF running.used /\ ~Guarded THEN "freedClient" ELSE fault
    /\ proxies' = IF running.used THEN proxies ELSE Freed(proxies)
    /\ UNCHANGED <<observed, content, events, online, inbox, calls, running>>

User ==
    \/ \E p \in DOMAIN proxies :
        \/ ProxyRef(p) \/ ProxyUnref(p)
        \/ RefreshProperty(p) \/ MethodCall(p)
        \/ \E v \in Val : SetProperty(p, v)
    \/ ClientUnref

Service ==
    \/ \E v \in Val : ServiceAdds(v)
    \/ \E v \in Val, told \in BOOLEAN : ServiceChanges(v, told)
    \/ ServiceRemoves \/ ServiceExits
    \/ \E c \in DOMAIN calls, a \in Val \union {Failed} : ServiceAnswers(c, a)

Next ==
    /\ fault = "none"
    /\ \/ Service \/ Disconnect
       \/ \E c \in DOMAIN calls : TimesOut(c)
       \/ Dispatch \/ Return \/ User

Spec == Init /\ [][Next]_vars

\* Timers run, the main loop dispatches, and the user's functions return.
FairSpec ==
    /\ Spec
    /\ WF_vars(fault = "none" /\ (Dispatch \/ Return))
    /\ \A c \in 1..MaxCalls : WF_vars(fault = "none" /\ c \in DOMAIN calls /\ TimesOut(c))

-----------------------------------------------------------------------------
(* Properties. *)

Settled(c) == c \in DOMAIN calls /\ calls[c].state \in {"done", "refused"}

\* Each user function runs once and at the right time, whatever becomes of
\* proxy, client and bus, and whatever the user does when it has a turn: a
\* call's function when its answer is there and its
\* destroy function after it, neither of them for a call that returned FALSE
\* (client.c:636-872); removed_func when the proxy has lost its client
\* (client.c:430-451).
CalledOnce ==
    /\ \A c \in DOMAIN calls :
        LET s == calls[c].state
        IN  /\ calls[c].ran = (IF s \in {"running", "done"} THEN 1 ELSE 0)
            /\ calls[c].destroyed = (IF s = "done" THEN 1 ELSE 0)
    /\ \A p \in DOMAIN proxies :
        proxies[p].removals = (IF proxies[p].linked THEN 0 ELSE 1)

\* What g_dbus_proxy_get_property returns is what the service has, once all
\* that was sent is dispatched, however signals, invalidations, refreshes and
\* Sets crossed (client.c:216-250, 359-402).
KnownIsTrue ==
    \A p \in Linked :
        online /\ inbox = <<>> /\ running.in # "removed" =>
            GetProperty(p) \in {content, Absent}

\* With the rules observed, no reply reaches a freed proxy (client.c:577), and
\* no handler goes on with a client that the user's function has freed
\* (client.c:254, 1164), as far as the user has a turn in this module.
NoFault ==
    /\ "holds" \in observed => fault # "freedProxy"
    /\ "keepsClient" \in observed => fault # "freedClient"

\* Every call that was accepted is answered in the end, though its proxy or
\* client may be gone by then.
CallsSettle ==
    \A c \in 1..MaxCalls :
        (c \in DOMAIN calls) ~> (fault # "none" \/ Settled(c))
=============================================================================
