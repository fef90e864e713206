---------------------------- MODULE WifiInstance ----------------------------
(***************************************************************************)
(* One WifiInstance object (src/src/wifi_instance.cpp) together with its   *)
(* base classes, which load the extension, create and delete the instance, *)
(* hand it the messages of the page and end the extension                  *)
(* (src/common/extension.cpp).  Instances share nothing but g_extension,   *)
(* which is only asked to create them.                                     *)
(*                                                                         *)
(* Three actors share the object: the page, which posts messages and       *)
(* blocks on synchronous ones; the Crosswalk host, which creates and       *)
(* destroys the instance; and GIO, which completes the creation of the     *)
(* four D-Bus proxies, reports property changes and answers method calls   *)
(* whenever it likes, also after the object was deleted, because nothing   *)
(* is ever cancelled.                                                      *)
(*                                                                         *)
(* Undefined behaviour ends the process: "fault" names what happened, and  *)
(* no action is enabled once it is set.                                    *)
(***************************************************************************)
EXTENDS Naturals, Sequences, SequencesExt

CONSTANTS
    ReplyId,       \* the reply ids the page puts into its commands
    NoId,          \* the empty string a callback id starts as
    Wired,         \* does the host's Initialize() reach initialize()?  The
                   \* build says FALSE: initialize() overrides nothing
    MaxChanges,    \* bound on the property changes ConnMan's agent reports
    MaxCalls       \* bound on the method calls in flight

ASSUME WifiAssumption ==
    /\ NoId \notin ReplyId
    /\ Wired \in BOOLEAN
    /\ MaxChanges \in Nat
    /\ MaxCalls \in Nat

Proxy  == {"manager", "service", "tech", "agent"}
Slot   == {"activate", "deactivate", "scan", "connect", "disconnect"}
Method == {"SetPowered", "Connect", "Disconnect", "GetServices"}
Fault  == {"none", "nullError", "nullContext", "useAfterFree"}

VARIABLES
    extension,   \* g_extension: "none" yet, "live", "refused" or "deleted"
    object,      \* "absent", "live" (xw_instance_ set) or "freed"
    creating,    \* proxies whose g_dbus_proxy_new_for_bus is in flight
    proxy,       \* the proxy members that are not NULL
    failed,      \* proxies whose creation has failed
    jsReady,     \* is_js_context_initialized_, which no constructor sets
    queue,       \* msg_queue_; a message is the number of the change it reports
    changes,     \* number of property changes reported so far
    posted,      \* what PostMessage has handed to the page, in order
    callbackId,  \* the *_callback_id_ members
    bus,         \* method calls ConnMan has not answered yet, in order
    blocked,     \* is the page blocked in a synchronous message?
    fault

vars == <<extension, object, creating, proxy, failed, jsReady, queue, changes,
          posted, callbackId, bus, blocked, fault>>

\* The types, and: what exists was created by an extension that was loaded.
TypeOK ==
    /\ extension \in {"none", "live", "refused", "deleted"}
    /\ extension \in {"none", "refused"} => object = "absent"
    /\ object \in {"absent", "live", "freed"}
    /\ creating \subseteq Proxy
    /\ proxy \subseteq Proxy
    /\ failed \subseteq Proxy
    /\ jsReady \in BOOLEAN
    /\ changes \in 0..MaxChanges
    /\ queue \in Seq(1..changes)
    /\ posted \in Seq(1..changes)
    /\ callbackId \in [Slot -> ReplyId \union {NoId}]
    /\ bus \in Seq(Method)
    /\ blocked \in BOOLEAN
    /\ fault \in Fault

Init ==
    /\ extension = "none"
    /\ object = "absent"
    /\ creating = {}
    /\ proxy = {}
    /\ failed = {}
    /\ jsReady \in BOOLEAN
    /\ queue = <<>>
    /\ changes = 0
    /\ posted = <<>>
    /\ callbackId = [s \in Slot |-> NoId]
    /\ bus = <<>>
    /\ blocked = FALSE
    /\ fault = "none"

Running == fault = "none"

-----------------------------------------------------------------------------
(* Messages to the page. *)

\* FlushPendingMessages posts the whole queue and leaves it as it is, so the
\* next flush posts it again.
Flushed(sent) == sent \o queue

\* InternalPostMessage
InternalPostMessage(m) ==
    IF jsReady
    THEN posted' = Append(Flushed(posted), m) /\ UNCHANGED queue
    ELSE queue' = Append(queue, m) /\ UNCHANGED posted

\* (Mutant of the next: the reply alone.)
InternalSetSyncReplyOnly ==
    /\ blocked' = FALSE
    /\ UNCHANGED posted

\* InternalSetSyncReply: the reply first, the queue after it.
InternalSetSyncReply ==
    /\ blocked' = FALSE
    /\ posted' = Flushed(posted)

\* GetDefaultReply.  default_reply_id_ is never set and so not a variable.
GetDefaultReply ==
    /\ jsReady' = TRUE
    /\ InternalSetSyncReply

NoReply == UNCHANGED <<jsReady, blocked, posted>>

-----------------------------------------------------------------------------
(* The host loads and ends the extension, creates and destroys the instance. *)

Host == UNCHANGED <<creating, proxy, failed, jsReady, queue, changes, posted,
                    callbackId, bus, blocked, fault>>

\* XW_Initialize: the host lacks an interface that the extension needs, or it
\* is told of the callbacks.
XwInitialize(served) ==
    /\ Running
    /\ extension = "none"
    /\ extension' = IF served THEN "live" ELSE "refused"
    /\ UNCHANGED object /\ Host

\* Extension::OnShutdown, which leaves instances as they are; the host creates
\* none afterwards.
OnShutdown ==
    /\ Running
    /\ extension = "live"
    /\ extension' = "deleted"
    /\ UNCHANGED object /\ Host

\* Extension::OnInstanceCreated, the constructor, and initialize() if Wired.
InstanceCreated ==
    /\ Running
    /\ extension = "live"
    /\ object = "absent"
    /\ object' = "live"
    /\ creating' = IF Wired THEN Proxy ELSE {}
    /\ UNCHANGED <<extension, proxy, failed, jsReady, queue, changes, posted,
                   callbackId, bus, blocked, fault>>

\* Extension::OnInstanceDestroyed and ~WifiInstance: the members are unref'd,
\* creations and calls in flight stay in flight.
InstanceDestroyed ==
    /\ Running
    /\ object = "live"
    /\ object' = "freed"
    /\ proxy' = {}
    /\ blocked' = FALSE
    /\ UNCHANGED <<extension, creating, failed, jsReady, queue, changes, posted,
                   callbackId, bus, fault>>

-----------------------------------------------------------------------------
(* Completion of a proxy creation: ok says whether GIO made the proxy. *)

\* g_dbus_proxy_new_for_bus_finish
Finish(x, ok) ==
    /\ Running
    /\ object = "live"
    /\ x \in creating
    /\ creating' = creating \ {x}
    /\ proxy' = IF ok THEN proxy \union {x} ELSE proxy \ {x}
    /\ failed' = IF ok THEN failed ELSE failed \union {x}
    /\ UNCHANGED <<extension, object, queue, changes, callbackId, bus>>

\* OnManagerProxyCreated and OnTechnologyProxyCreated
OnProxyCreated(x, ok) ==
    /\ Finish(x, ok)
    /\ IF ok THEN NoReply ELSE GetDefaultReply
    /\ UNCHANGED fault

\* OnServiceProxyCreated looks at agent_proxy_: a service proxy that arrives
\* before the agent's goes down the error path with error == NULL.
OnServiceProxyCreated(ok) ==
    /\ Finish("service", ok)
    /\ IF "agent" \in proxy
       THEN NoReply /\ UNCHANGED fault
       ELSE /\ GetDefaultReply
            /\ fault' = IF ok THEN "nullError" ELSE "none"

\* (Mutant of the next: a default reply on both paths.)
OnAgentProxyCreatedReady(ok) ==
    /\ Finish("agent", ok)
    /\ GetDefaultReply
    /\ UNCHANGED fault

\* OnAgentProxyCreated: no reply on either path.
OnAgentProxyCreated(ok) ==
    /\ Finish("agent", ok)
    /\ NoReply
    /\ UNCHANGED fault

\* A creation that completes after the delete calls into a freed object.
LateProxyCreated(x) ==
    /\ Running
    /\ object = "freed"
    /\ x \in creating
    /\ creating' = creating \ {x}
    /\ fault' = "useAfterFree"
    /\ UNCHANGED <<extension, object, proxy, failed, jsReady, queue, changes,
                   posted, callbackId, bus, blocked>>

\* (Mutant of the next: reports the state before the change.)
OnPropertiesChangedStale ==
    /\ Running
    /\ object = "live"
    /\ "agent" \in proxy
    /\ changes < MaxChanges
    /\ changes' = changes + 1
    /\ InternalPostMessage(changes)
    /\ UNCHANGED <<extension, object, creating, proxy, failed, jsReady,
                   callbackId, bus, blocked, fault>>

\* OnPropertiesChanged, connected to the agent proxy only.
OnPropertiesChanged ==
    /\ Running
    /\ object = "live"
    /\ "agent" \in proxy
    /\ changes < MaxChanges
    /\ changes' = changes + 1
    /\ InternalPostMessage(changes')
    /\ UNCHANGED <<extension, object, creating, proxy, failed, jsReady,
                   callbackId, bus, blocked, fault>>

-----------------------------------------------------------------------------
(* Messages from the page, which sends none while it is blocked. *)

PageMaySend ==
    /\ Running
    /\ object = "live"
    /\ ~blocked

\* One asynchronous command: the id goes into slot s, and if proxy x exists a
\* call to m without a callback goes out.
Command(s, id, x, m) ==
    /\ callbackId' = [callbackId EXCEPT ![s] = id]
    /\ IF x \in proxy
       THEN Len(bus) < MaxCalls /\ bus' = Append(bus, m)
       ELSE UNCHANGED bus

HandleActivate(id)   == Command("activate", id, "tech", "SetPowered")
HandleDeactivate(id) == Command("deactivate", id, "tech", "SetPowered")
HandleConnect(id)    == Command("connect", id, "service", "Connect")
HandleDisconnect(id) == Command("disconnect", id, "service", "Disconnect")

\* Extension::HandleMessage and WifiInstance::HandleMessage.  "Scan" is
\* dispatched to HandleDeactivate; an unknown or unparsable message is ignored.
HandleMessage(cmd, id) ==
    /\ PageMaySend
    /\ \/ cmd = "Activate" /\ HandleActivate(id)
       \/ cmd \in {"Deactivate", "Scan"} /\ HandleDeactivate(id)
       \/ cmd = "Connect" /\ HandleConnect(id)
       \/ cmd = "Disconnect" /\ HandleDisconnect(id)
       \/ cmd = "other" /\ UNCHANGED <<callbackId, bus>>
    /\ UNCHANGED <<extension, object, creating, proxy, failed, jsReady, queue,
                   changes, posted, blocked, fault>>

\* HandleGetServices, which keeps the id where HandleConnect keeps its own.
HandleGetServices(id) == Command("connect", id, "manager", "GetServices")

\* Extension::HandleSyncMessage and WifiInstance::HandleSyncMessage
HandleSyncMessage(cmd, id) ==
    /\ PageMaySend
    /\ blocked' = TRUE
    /\ \/ cmd = "GetServices" /\ HandleGetServices(id)
       \/ cmd = "other" /\ UNCHANGED <<callbackId, bus>>
    /\ UNCHANGED <<extension, object, creating, proxy, failed, jsReady, queue,
                   changes, posted, fault>>

\* ConnMan answers the oldest call.  Only GetServices has a callback, and
\* OnGetServicesThunk dereferences the NULL it was given as user data.
CallAnswered ==
    /\ Running
    /\ bus # <<>>
    /\ bus' = Tail(bus)
    /\ fault' = IF Head(bus) = "GetServices" THEN "nullContext" ELSE "none"
    /\ UNCHANGED <<extension, object, creating, proxy, failed, jsReady, queue,
                   changes, posted, callbackId, blocked>>

-----------------------------------------------------------------------------
AsyncCmd == {"Activate", "Deactivate", "Scan", "Connect", "Disconnect", "other"}

Gio ==
    \/ \E x \in {"manager", "tech"}, ok \in BOOLEAN : OnProxyCreated(x, ok)
    \/ \E ok \in BOOLEAN : OnServiceProxyCreated(ok)
    \/ \E ok \in BOOLEAN : OnAgentProxyCreated(ok)
    \/ \E x \in Proxy : LateProxyCreated(x)
    \/ CallAnswered

Next ==
    \/ \E served \in BOOLEAN : XwInitialize(served)
    \/ OnShutdown
    \/ InstanceCreated
    \/ InstanceDestroyed
    \/ Gio
    \/ OnPropertiesChanged
    \/ \E cmd \in AsyncCmd, id \in ReplyId : HandleMessage(cmd, id)
    \/ \E cmd \in {"GetServices", "other"}, id \in ReplyId :
          HandleSyncMessage(cmd, id)

Spec == Init /\ [][Next]_vars

\* The main loop runs a callback that stays ready, and ConnMan answers: GIO's
\* 20 s timeout answers for it otherwise.
FairSpec == Spec /\ WF_vars(Gio)

-----------------------------------------------------------------------------
(* Properties. *)

\* No change is lost on its way through msg_queue_, and the page sees the
\* first delivery of each change in the order ConnMan reported them, however
\* often FlushPendingMessages repeats the queue.  Once the page's context is
\* ready nothing waits: what was queued before is on the page.
FirstDeliveriesInOrder ==
    /\ ToSet(posted) \union ToSet(queue) = 1..changes
    /\ \A i \in DOMAIN posted : \A m \in 1..(posted[i] - 1) :
          \E j \in 1..(i - 1) : posted[j] = m
    /\ jsReady => ToSet(posted) = 1..changes

\* The context becomes ready only through a proxy that could not be created or
\* through a fault: in a start-up where everything succeeds a queued change is
\* never delivered (GetDefaultReply is called on error paths only).
ReadyOnlyOnTrouble ==
    [][~jsReady /\ jsReady' => failed' # failed \/ fault' # "none"]_vars

\* The SyncMessage interface's promise to a page that sends a synchronous
\* message: it blocks until a reply is available, and the extension makes one
\* available (or the instance or the process ends).
SyncMessageAnswered == blocked ~> (~blocked \/ ~Running)
=============================================================================
