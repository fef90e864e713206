----------------------------- MODULE GdbusClient -----------------------------
(***************************************************************************)
(* A client of a remote service (src/gdbus/client.c): it keeps one proxy   *)
(* for each interface of each of the service's objects, from the           *)
(* ObjectManager's signals, one GetManagedObjects call per connection and, *)
(* for proxies that its user makes, GetAll calls.                          *)
(*                                                                         *)
(* The service, the bus and the client run side by side.  What the client  *)
(* sends and what it receives stays in order; a call to a service that has *)
(* lost its name may fail late.  All handlers run on the client's main     *)
(* loop, one message at a time; its user's calls come between.             *)
(* A node stands for an interface of an object, its value for the          *)
(* interface's properties.                                                 *)
(***************************************************************************)
EXTENDS Naturals, FiniteSets, Sequences, SequencesExt

CONSTANTS
    Node, Val,
    Absent,      \* the object or interface, or the property, is not there
    Failed,      \* the answer to a call is an error
    MayFail,     \* may the service fail a call, or let it time out?
    MaxEvents,   \* bound on what the service does
    MaxNews,     \* bound on the user's g_dbus_proxy_new calls
    Rules        \* what service and user refrain from, see below

(* These rules are not enforced by client.c:                                *)
(*   exits       a service gives up its name only by exiting, no other      *)
(*               takes the name from it, and its open calls fail at once    *)
(*   handlers    g_dbus_client_set_proxy_handlers is called first of all    *)
(*   noProxyNew  g_dbus_proxy_new is not used                               *)
Rule == {"exits", "handlers", "noProxyNew"}

ASSUME ClientAssumption ==
    /\ Absent \notin Val
    /\ Failed \notin Val \union {Absent} \union [Node -> Val \union {Absent}]
    /\ MayFail \in BOOLEAN
    /\ MaxEvents \in Nat /\ MaxNews \in Nat
    /\ Rules \subseteq Rule
    /\ IsFiniteSet(Node)

VARIABLES
    up,           \* has the service its name?
    content,      \* the service's objects
    events,       \* how much it has done
    outbox,       \* calls that the bus has not routed
    calls,        \* calls that the service has not answered
    orphans,      \* calls whose service has lost its name
    inbox,        \* what the client has not dispatched
    refs,         \* ref_count; 0 once the GDBusClient is freed
    released,     \* has the user given up its reference?
    handlers,     \* are proxy_added and proxy_removed set? Since the start?
    connected,    \* connected
    fetching,     \* get_objects_call # NULL
    proxies,      \* proxy_list
    proxy,        \* the GDBusProxy of each number, see Proxy
    news,         \* how many g_dbus_proxy_new has made
    announced,    \* not in the code: proxies between proxy_added and _removed
    disconnects,  \* not in the code: disconn_func calls since connect_func's
    ready,        \* not in the code: was ready called on this connection?
    fault

service == <<up, content, events>>
bus == <<outbox, calls, orphans>>
shown == <<announced, disconnects, ready>>
vars == <<service, bus, inbox, refs, released, handlers, connected, fetching,
          proxies, proxy, news, shown, fault>>

Contents == [Node -> Val \union {Absent}]
Nothing == [n \in Node |-> Absent]

\* linked: proxy->client # NULL, and with it the watch on PropertiesChanged;
\* held: does the user own a reference?
Proxy == [node : Node, value : Val \union {Absent}, linked : BOOLEAN,
          held : BOOLEAN]

First == [kind |-> "first"]        \* GetNameOwner
Objects == [kind |-> "objects"]    \* GetManagedObjects
Properties(p) == [kind |-> "properties", proxy |-> p]    \* GetAll
ServiceCall == {Objects} \union {Properties(p) : p \in DOMAIN proxy}
Reply(c, a) == [kind |-> "reply", call |-> c, answer |-> a]

Message ==
    [kind : {"owner", "look"}, up : BOOLEAN]
    \union [kind : {"added", "changed"}, node : Node, value : Val]
    \union [kind : {"removed"}, node : Node]
    \union [kind : {"reply"}, call : {Objects}, answer : {Failed} \union Contents]
    \union [kind : {"reply"}, call : ServiceCall \ {Objects},
            answer : {Failed} \union Val]

\* The types, and: proxy_list has no proxy twice and none without its client.
TypeOK ==
    /\ up \in BOOLEAN /\ content \in Contents /\ events \in 0..MaxEvents
    /\ outbox \in Seq({First} \union ServiceCall)
    /\ calls \in Seq(ServiceCall) /\ orphans \subseteq ServiceCall
    /\ inbox \in Seq(Message)
    /\ refs \in Nat
    /\ released \in BOOLEAN /\ connected \in BOOLEAN
    /\ handlers \in {"unset", "set", "setFirst"}
    /\ fetching \in BOOLEAN /\ ready \in BOOLEAN
    /\ proxy \in Seq(Proxy)
    /\ proxies \in Seq(DOMAIN proxy) /\ IsInjective(proxies)
    /\ \A p \in ToSet(proxies) : proxy[p].linked
    /\ news \in 0..MaxNews
    /\ announced \subseteq DOMAIN proxy
    /\ disconnects \in Nat
    /\ fault \in {"none", "nullClient", "freedProxy", "freedClient"}

\* g_dbus_client_new, with the first look of its service watch under way
Init ==
    /\ up \in BOOLEAN
    /\ content \in IF up THEN Contents ELSE {Nothing}
    /\ events = 0
    /\ outbox = <<First>> /\ calls = <<>> /\ orphans = {} /\ inbox = <<>>
    /\ refs = 1 /\ released = FALSE
    /\ handlers \in {"setFirst"} \union (IF "handlers" \in Rules THEN {} ELSE {"unset"})
    /\ connected = FALSE /\ fetching = FALSE
    /\ proxies = <<>> /\ proxy = <<>> /\ news = 0
    /\ announced = {} /\ disconnects = 0 /\ ready = FALSE
    /\ fault = "none"

client == <<refs, released, handlers, connected, fetching, proxies, proxy, news,
            shown, fault>>

-----------------------------------------------------------------------------
(* The service and the bus.  Signals of a name's owner reach the client.     *)

Event == events < MaxEvents /\ events' = events + 1
Sent(m) == inbox' = inbox \o m

\* Its objects may be there before the name is, and were not announced then.
ServiceUp ==
    /\ Event
    /\ ~up /\ up' = TRUE
    /\ content' \in Contents
    /\ Sent(<<[kind |-> "owner", up |-> TRUE]>>)
    /\ UNCHANGED <<bus, client>>

ServiceExits ==
    /\ Event
    /\ up /\ up' = FALSE
    /\ content' = Nothing
    /\ calls' = <<>>
    /\ Sent(<<[kind |-> "owner", up |-> FALSE]>>
            \o [i \in DOMAIN calls |-> Reply(calls[i], Failed)])
    /\ UNCHANGED <<outbox, orphans, client>>

\* The name is released, or goes to another service; calls fail later.
ServiceReplaced(stays) ==
    /\ "exits" \notin Rules
    /\ Event
    /\ up /\ up' = stays
    /\ content' \in IF stays THEN Contents ELSE {Nothing}
    /\ calls' = <<>>
    /\ orphans' = orphans \union ToSet(calls)
    /\ Sent(<<[kind |-> "owner", up |-> stays]>>)
    /\ UNCHANGED <<outbox, client>>

ServiceChanges(n, v) ==
    /\ Event
    /\ up /\ content[n] # v
    /\ content' = [content EXCEPT ![n] = v]
    /\ Sent(<<IF v = Absent THEN [kind |-> "removed", node |-> n]
              ELSE [kind |-> IF content[n] = Absent THEN "added" ELSE "changed",
                    node |-> n, value |-> v]>>)
    /\ UNCHANGED <<up, bus, client>>

\* The bus answers GetNameOwner, and calls to a name without an owner.
BusRoutes ==
    LET c == Head(outbox)
    IN  /\ outbox # <<>>
        /\ outbox' = Tail(outbox)
        /\ IF c = First THEN Sent(<<[kind |-> "look", up |-> up]>>) /\ UNCHANGED calls
           ELSE IF up THEN calls' = Append(calls, c) /\ UNCHANGED inbox
           ELSE Sent(<<Reply(c, Failed)>>) /\ UNCHANGED calls
        /\ UNCHANGED <<service, orphans, client>>

\* Asked for what is not there, GetAll fails.
Answer(c) ==
    IF c = Objects THEN content
    ELSE IF content[proxy[c.proxy].node] = Absent THEN Failed
    ELSE content[proxy[c.proxy].node]

ServiceAnswers ==
    /\ calls # <<>>
    /\ calls' = Tail(calls)
    /\ \E a \in {Answer(Head(calls))} \union (IF MayFail THEN {Failed} ELSE {}) :
           Sent(<<Reply(Head(calls), a)>>)
    /\ UNCHANGED <<service, outbox, orphans, client>>

OrphanFails(c) ==
    /\ c \in orphans
    /\ orphans' = orphans \ {c}
    /\ Sent(<<Reply(c, Failed)>>)
    /\ UNCHANGED <<service, outbox, calls, client>>

-----------------------------------------------------------------------------
(* proxy_list.  A book is what handlers make of it on their way.             *)

Book == [proxies |-> proxies, proxy |-> proxy, announced |-> announced]

Store(b) ==
    /\ proxies' = b.proxies
    /\ proxy' = b.proxy
    /\ announced' = b.announced

\* client->proxy_added || client->proxy_removed
Handled == handlers # "unset"

\* proxy_lookup: the place in proxy_list of the first proxy for n, or 0
Lookup(b, n) == SelectInSeq(b.proxies, LAMBDA p : b.proxy[p].node = n)

\* (Mutant of the next: listed before they are announced to anybody.)
ListedQuietly(b, ps) == [b EXCEPT !.proxies = @ \o ps]

\* proxy_added is called if it is set, and the proxies go to the list.
Listed(b, ps) ==
    [b EXCEPT !.proxies = @ \o ps,
              !.announced = IF Handled THEN @ \union ToSet(ps) ELSE @]

NewProxy(n, v, isHeld) ==
    [node |-> n, value |-> v, linked |-> TRUE, held |-> isHeld]

\* parse_properties, for the interfaces and values a of a message: a listed proxy
\* is updated; the others are made, in the order in which they come.
Parsed(b, a, order) ==
    LET Known(p) == LET i == Lookup(b, b.proxy[p].node)
                    IN  b.proxy[p].node \in DOMAIN a /\ i # 0 /\ b.proxies[i] = p
        old == [p \in DOMAIN b.proxy |->
                  IF Known(p) THEN [b.proxy[p] EXCEPT !.value = a[b.proxy[p].node]]
                  ELSE b.proxy[p]]
        new == [i \in DOMAIN order |-> NewProxy(order[i], a[order[i]], FALSE)]
    IN  Listed([b EXCEPT !.proxy = old \o new],
               [i \in DOMAIN order |-> Len(b.proxy) + i])

StoreParsed(a) ==
    \E order \in SetToSeqs({n \in DOMAIN a : Lookup(Book, n) = 0}) :
        Store(Parsed(Book, a, order))

\* proxy_free for each of ps: they lose their client, and the user is told.
Unlinked(b, ps) ==
    [b EXCEPT !.proxy = [p \in DOMAIN @ |->
                             IF p \in ps
                             THEN [@[p] EXCEPT !.linked = FALSE, !.value = Absent]
                             ELSE @[p]],
              !.announced = @ \ ps]

\* ... for all, and for the one at place i of the list
Emptied(b) == [Unlinked(b, ToSet(b.proxies)) EXCEPT !.proxies = <<>>]

\* (Mutant of the next: the proxy stays listed.)
WithoutUnlisted(b, i) == Unlinked(b, {b.proxies[i]})

Without(b, i) ==
    [Unlinked(b, {b.proxies[i]}) EXCEPT !.proxies = RemoveAt(@, i)]

-----------------------------------------------------------------------------
(* The client's calls and references. *)

\* get_managed_objects: with handlers one call, and only one at a time,
\* without them GetAll for each proxy there is.
GetManagedObjects(isConnected, isHandled) ==
    IF ~isConnected \/ (isHandled /\ fetching)
    THEN UNCHANGED <<outbox, fetching, refs>>
    ELSE IF isHandled
    THEN /\ outbox' = Append(outbox, Objects)
         /\ fetching' = TRUE
         /\ UNCHANGED refs
    ELSE /\ outbox' = outbox \o [i \in DOMAIN proxies |-> Properties(proxies[i])]
         /\ refs' = refs + Len(proxies)
         /\ UNCHANGED fetching

\* (Mutant of the next: the user is told of a disconnection once more.)
UnrefReportsAgain(b) ==
    IF refs > 1
    THEN /\ refs' = refs - 1
         /\ Store(b)
         /\ UNCHANGED <<fetching, disconnects>>
    ELSE /\ refs' = 0
         /\ Store(Emptied(b))
         /\ fetching' = FALSE
         /\ disconnects' = disconnects + 1

\* g_dbus_client_unref: the last reference cancels GetManagedObjects, frees the
\* proxies, and reports a disconnection that was not reported before.
Unref(b) ==
    IF refs > 1
    THEN /\ refs' = refs - 1
         /\ Store(b)
         /\ UNCHANGED <<fetching, disconnects>>
    ELSE /\ refs' = 0
         /\ Store(Emptied(b))
         /\ fetching' = FALSE
         /\ disconnects' = disconnects + (IF connected THEN 1 ELSE 0)

-----------------------------------------------------------------------------
(* What the client does with a message from the bus. *)

\* service_connect, on the news or on the answer to the first look
ServiceConnect(m) ==
    /\ refs > 0
    /\ m.kind \in {"owner", "look"} /\ m.up
    /\ connected' = TRUE
    /\ disconnects' = 0
    /\ ready' = FALSE
    /\ GetManagedObjects(TRUE, Handled)
    /\ UNCHANGED <<released, handlers, proxies, proxy, announced, fault>>

\* (Mutant of the next: the proxies stay for the next connection.)
ServiceDisconnectKeeps(m) ==
    /\ refs > 0
    /\ m.kind = "owner" /\ ~m.up
    /\ connected' = FALSE
    /\ disconnects' = disconnects + 1
    /\ ready' = FALSE
    /\ UNCHANGED <<outbox, refs, released, handlers, fetching, proxies, proxy,
                   announced, fault>>

\* service_disconnect
ServiceDisconnect(m) ==
    /\ refs > 0
    /\ m.kind = "owner" /\ ~m.up
    /\ connected' = FALSE
    /\ Store(Emptied(Book))
    /\ disconnects' = disconnects + 1
    /\ ready' = FALSE
    /\ UNCHANGED <<outbox, refs, released, handlers, fetching, fault>>

InterfacesAdded(m) ==
    /\ refs > 0
    /\ m.kind = "added"
    /\ StoreParsed([n \in {m.node} |-> m.value])
    /\ UNCHANGED <<outbox, refs, released, handlers, connected, fetching,
                   disconnects, ready, fault>>

\* proxy_remove: the first proxy for the node, if there is any
InterfacesRemoved(m) ==
    /\ refs > 0
    /\ m.kind = "removed"
    /\ LET i == Lookup(Book, m.node)
       IN  Store(IF i = 0 THEN Book ELSE Without(Book, i))
    /\ UNCHANGED <<outbox, refs, released, handlers, connected, fetching,
                   disconnects, ready, fault>>

\* Every proxy that watches the node hears of it.
PropertiesChanged(m) ==
    /\ refs > 0
    /\ m.kind = "changed"
    /\ proxy' = [p \in DOMAIN proxy |->
                    IF proxy[p].linked /\ proxy[p].node = m.node
                    THEN [proxy[p] EXCEPT !.value = m.value] ELSE proxy[p]]
    /\ UNCHANGED <<outbox, refs, released, handlers, connected, fetching, proxies,
                   shown, fault>>

\* (Mutant of the next: after an error the call still counts as open.)
ManagedObjectsStuck(m) ==
    /\ fetching
    /\ m.kind = "reply" /\ m.call = Objects
    /\ IF m.answer = Failed
       THEN UNCHANGED <<proxies, proxy, announced, ready, fetching>>
       ELSE /\ StoreParsed([n \in {k \in Node : m.answer[k] # Absent} |-> m.answer[n]])
            /\ ready' = TRUE
            /\ fetching' = FALSE
    /\ UNCHANGED <<outbox, refs, released, handlers, connected, disconnects, fault>>

\* get_managed_objects_reply: what the answer holds is parsed, what it no longer
\* holds is not looked for.
ManagedObjects(m) ==
    /\ fetching
    /\ m.kind = "reply" /\ m.call = Objects
    /\ fetching' = FALSE
    /\ IF m.answer = Failed
       THEN UNCHANGED <<proxies, proxy, announced, ready>>
       ELSE /\ StoreParsed([n \in {k \in Node : m.answer[k] # Absent} |-> m.answer[n]])
            /\ ready' = TRUE
    /\ UNCHANGED <<outbox, refs, released, handlers, connected, disconnects, fault>>

\* get_all_properties_reply keeps a plain pointer to the proxy: the proxy may be
\* gone, or be without its client.
AllProperties(m) ==
    /\ m.kind = "reply" /\ m.call.kind = "properties"
    /\ LET p == m.call.proxy
           b == IF m.answer = Failed THEN Book
                ELSE [Book EXCEPT !.proxy[p].value = m.answer]
       IN  IF refs > 0 /\ proxy[p].linked
           THEN /\ Unref(IF p \in ToSet(proxies) THEN b ELSE Listed(b, <<p>>))
                /\ UNCHANGED fault
           ELSE /\ fault' = CASE refs = 0 -> "freedClient"
                              [] proxy[p].held -> "nullClient"
                              [] OTHER -> "freedProxy"
                /\ UNCHANGED <<refs, proxies, proxy, fetching, announced,
                               disconnects>>
    /\ UNCHANGED <<outbox, released, handlers, connected, ready>>

\* A first look that finds nobody, an answer nobody waits for, a signal whose
\* watch is gone with the client
Ignored(m) ==
    /\ \/ m.kind = "look" /\ ~m.up
       \/ m.kind = "reply" /\ m.call = Objects /\ ~fetching
       \/ refs = 0 /\ ~(m.kind = "reply" /\ m.call.kind = "properties")
    /\ UNCHANGED <<outbox, client>>

Dispatch ==
    /\ inbox # <<>>
    /\ inbox' = Tail(inbox)
    /\ LET m == Head(inbox)
       IN  \/ ServiceConnect(m) \/ ServiceDisconnect(m)
           \/ InterfacesAdded(m) \/ InterfacesRemoved(m) \/ PropertiesChanged(m)
           \/ ManagedObjects(m) \/ AllProperties(m)
           \/ Ignored(m)
    /\ UNCHANGED <<service, calls, orphans, news>>

-----------------------------------------------------------------------------
(* What its user does. *)

SetProxyHandlers ==
    /\ ~released /\ ~Handled
    /\ handlers' = "set"
    /\ GetManagedObjects(connected, TRUE)
    /\ UNCHANGED <<service, calls, orphans, inbox, released, connected, proxies,
                   proxy, news, shown, fault>>

\* (Mutant of the next: the call does not keep the client alive.)
ProxyNewUnreferenced(n) ==
    /\ "noProxyNew" \notin Rules
    /\ ~released /\ news < MaxNews
    /\ Lookup(Book, n) = 0
    /\ news' = news + 1
    /\ proxy' = Append(proxy, NewProxy(n, Absent, TRUE))
    /\ outbox' = Append(outbox, Properties(Len(proxy) + 1))
    /\ UNCHANGED <<service, calls, orphans, inbox, refs, released, handlers,
                   connected, fetching, proxies, shown, fault>>

\* g_dbus_proxy_new: a listed proxy, or one that is listed when its GetAll is
\* answered
ProxyNew(n) ==
    /\ "noProxyNew" \notin Rules
    /\ ~released /\ news < MaxNews
    /\ news' = news + 1
    /\ LET i == Lookup(Book, n)
       IN  IF i # 0
           THEN /\ proxy' = [proxy EXCEPT ![proxies[i]].held = TRUE]
                /\ UNCHANGED <<outbox, refs>>
           ELSE /\ proxy' = Append(proxy, NewProxy(n, Absent, TRUE))
                /\ outbox' = Append(outbox, Properties(Len(proxy) + 1))
                /\ refs' = refs + 1
    /\ UNCHANGED <<service, calls, orphans, inbox, released, handlers, connected,
                   fetching, proxies, shown, fault>>

ProxyUnref(p) ==
    /\ proxy[p].held
    /\ proxy' = [proxy EXCEPT ![p].held = FALSE]
    /\ UNCHANGED <<service, bus, inbox, refs, released, handlers, connected,
                   fetching, proxies, news, shown, fault>>

ClientUnref ==
    /\ ~released
    /\ released' = TRUE
    /\ Unref(Book)
    /\ UNCHANGED <<service, bus, inbox, handlers, connected, news, ready, fault>>

-----------------------------------------------------------------------------

Service ==
    \/ ServiceUp
    \/ ServiceExits
    \/ \E stays \in BOOLEAN : ServiceReplaced(stays)
    \/ \E n \in Node, v \in Val \union {Absent} : ServiceChanges(n, v)

User ==
    \/ SetProxyHandlers
    \/ \E n \in Node : ProxyNew(n)
    \/ \E p \in DOMAIN proxy : ProxyUnref(p)
    \/ ClientUnref

Next ==
    /\ fault = "none"
    /\ \/ Service \/ User \/ Dispatch
       \/ BusRoutes \/ ServiceAnswers
       \/ \E c \in orphans : OrphanFails(c)

Spec == Init /\ [][Next]_vars

\* The bus routes, the service answers, and the client's main loop runs.
FairSpec ==
    /\ Spec
    /\ WF_vars(BusRoutes) /\ WF_vars(ServiceAnswers) /\ WF_vars(Dispatch)

-----------------------------------------------------------------------------
(* Properties. *)

Quiet == outbox = <<>> /\ calls = <<>> /\ orphans = {} /\ inbox = <<>>

\* With nothing under way, proxy_list has exactly one proxy for each interface
\* of the service, with its properties, and none for what is gone: however
\* signals, the one answer to GetManagedObjects, restarts of the service and
\* the two ways of hearing of them came (client.c:928-1169).
ProxiesAgree ==
    Quiet /\ refs > 0 =>
        \A n \in Node :
            LET known == {p \in ToSet(proxies) : proxy[p].node = n}
            IN  IF content[n] = Absent THEN known = {}
                ELSE \E p \in known : known = {p} /\ proxy[p].value = content[n]

\* A connected client's ready function is called in the end (client.c:1075).
ReadyInTheEnd == connected ~> (ready \/ ~connected \/ refs = 0)

\* A user who set the handlers first of all has been told of exactly the listed
\* proxies, whoever made them, and of the end of all others (client.c:430-451).
AnnouncedAreListed == handlers = "setFirst" => announced = ToSet(proxies)

\* With such a user no reply reaches a freed proxy, a proxy without its client,
\* or a freed client (client.c:280-310).
NoFault == handlers = "setFirst" => fault = "none"

\* "Don't call disconn_func twice if disconnection was previously reported"
\* (client.c:1296): not between two calls of connect_func, nor on the way out.
DisconnectReportedOnce == disconnects <= 1
=============================================================================
