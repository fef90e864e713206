---------------------------- MODULE GdbusPending ----------------------------
(***************************************************************************)
(* The list "pending" of src/gdbus/object.c, the idle callbacks that will  *)
(* process its objects, and the functions that walk lists while they call  *)
(* the service: process_changes calls property getters, remove_interface   *)
(* calls getters and a destroy function, and g_dbus_flush calls            *)
(* process_changes for one pending object after the other.  Each of these  *)
(* functions may call gdbus back, so "stack" has one frame for every such  *)
(* function that is under way.                                             *)
(*                                                                         *)
(* An Object is a generic_data, an Interface an interface_data: neither is *)
(* used again when it is freed, so that a pointer to a freed one is one    *)
(* whose state says so.  A list link is its element.                       *)
(*                                                                         *)
(* One connection; an ObjectManager is attached and every object hangs     *)
(* below some other.  What signals say is left to GdbusObject.             *)
(***************************************************************************)
EXTENDS Naturals, Sequences, SequencesExt

CONSTANTS
    Object,          \* generic_data, each of some path below "/"
    Interface,       \* interfaces of the service
    Introspectable,  \* stands for the interfaces gdbus adds by itself, which
                     \* have neither getters nor a destroy function
    None,            \* NULL
    MaxSources,      \* bound on idle callbacks
    MaxDepth,        \* bound on the stack
    Rules            \* what the service refrains from, see below

(* A service may observe these rules, which object.c does not enforce:      *)
(*   quietGetter   a getter that is called for a signal neither reports a   *)
(*                 change of that signal's object nor adds an interface     *)
(*   sendsNothing  a getter sends no message                                *)
(*   keepsAll      a getter unregisters nothing                             *)
(*   announced     no message is sent while the destroy function runs of an *)
(*                 interface whose InterfacesAdded is not sent yet          *)
Rule == {"quietGetter", "sendsNothing", "keepsAll", "announced"}

ASSUME PendingAssumption ==
    /\ Introspectable \notin Interface /\ None \notin Interface \union Object
    /\ None # Introspectable
    /\ MaxSources \in Nat /\ MaxDepth \in Nat
    /\ Rules \subseteq Rule

VARIABLES
    data,       \* generic_data of each object, see DataType
    iface,      \* interface_data of each interface, see InterfaceType
    owner,      \* owner[id]: the object that idle callback id was made for
    sources,    \* idle callbacks that the main loop has
    pending,    \* "pending", each link by the idle callback made with it
    stack,      \* the functions under way, innermost first, see Frame
    fault

heap == <<data, iface, owner, sources, pending>>
vars == <<heap, stack, fault>>

Source == 1..MaxSources
Listed == Interface \union {Introspectable}

DataType ==
    [state : {"unused", "live", "freed"},
     refcount : Nat,
     interfaces : Seq(Interface),
     added : Seq(Listed),
     removed : BOOLEAN,           \* removed # NULL
     pendingProp : BOOLEAN,       \* pending_prop
     processId : {0} \union Source]

\* "leaving" is off the list, with its destroy function called; dirty is a
\* pending_prop that is not NULL.
InterfaceType ==
    [state : {"unused", "listed", "leaving", "freed"}, dirty : BOOLEAN]

\* g_dbus_flush, between two objects, with its saved l->next.
FlushFrame == [call : {"flush"}, at : {"walk"}, link : {0} \union Source]

\* process_changes and remove_interface.  at: "added", in the walk of
\* emit_interfaces_added; "changed", about to send iface's property changes;
\* "unlist", about to take it off the list; "announcing", "changing" and
\* "destroying", inside of the service's function.  next: the next link, where
\* g_slist_foreach has saved it.
CallFrame ==
    [call : {"process", "remove"},
     at : {"added", "announcing", "changed", "changing", "unlist", "destroying"},
     data : Object,
     iface : Listed \union {None},
     next : Listed \union {None}]

Frame == FlushFrame \union CallFrame

Fault == {"none", "freedData", "freedInterface", "freedLink", "destroyedUser"}

TypeOK ==
    /\ data \in [Object -> DataType]
    /\ iface \in [Interface -> InterfaceType]
    /\ owner \in Seq(Object) /\ Len(owner) <= MaxSources
    /\ sources \subseteq 1..Len(owner)
    /\ pending \in Seq(1..Len(owner))
    /\ stack \in Seq(Frame)
    /\ fault \in Fault

Unused ==
    [state |-> "unused", refcount |-> 0, interfaces |-> <<>>, added |-> <<>>,
     removed |-> FALSE, pendingProp |-> FALSE, processId |-> 0]

Init ==
    /\ data = [d \in Object |-> Unused]
    /\ iface = [i \in Interface |-> [state |-> "unused", dirty |-> FALSE]]
    /\ owner = <<>>
    /\ sources = {}
    /\ pending = <<>>
    /\ stack = <<>>
    /\ fault = "none"

-----------------------------------------------------------------------------
(* The heap, as functions of a record h of it. *)

Heap == [data |-> data, iface |-> iface, owner |-> owner, sources |-> sources,
         pending |-> pending]

Become(h) ==
    /\ data' = h.data
    /\ iface' = h.iface
    /\ owner' = h.owner
    /\ sources' = h.sources
    /\ pending' = h.pending
    /\ Len(owner') <= MaxSources

First(list) == IF list = <<>> THEN None ELSE Head(list)

\* The link behind that of x.
Behind(list, x) ==
    LET k == SelectInSeq(list, LAMBDA y : y = x)
    IN  IF k = Len(list) THEN None ELSE list[k + 1]

\* add_pending
AddPending(h, d) ==
    LET id == Len(h.owner) + 1
    IN  IF h.data[d].processId > 0 THEN h
        ELSE [h EXCEPT !.data[d].processId = id,
                       !.owner = Append(@, d),
                       !.sources = @ \union {id},
                       !.pending = Append(@, id)]

\* remove_pending: of several links to d, the first goes.
RemovePending(h, d) ==
    LET k == SelectInSeq(h.pending, LAMBDA id : h.owner[id] = d)
    IN  [h EXCEPT !.data[d].processId = 0,
                  !.sources = @ \ {h.data[d].processId},
                  !.pending = IF k = 0 THEN @ ELSE RemoveAt(@, k)]

\* object_path_ref
Referenced(h, d) ==
    LET new == [h EXCEPT !.data[d].state = "live", !.data[d].refcount = 1,
                         !.data[d].added = <<Introspectable>>]
    IN  IF h.data[d].state = "live"
        THEN [h EXCEPT !.data[d].refcount = @ + 1]
        ELSE AddPending(new, d)

\* (Mutant of the next: the object is freed with its idle callback.)
UnreferencedPending(h, d) ==
    IF h.data[d].refcount > 1
    THEN [h EXCEPT !.data[d].refcount = @ - 1]
    ELSE [h EXCEPT !.data[d].state = "freed", !.data[d].refcount = 0]

\* object_path_unref and generic_unregister.  process_changes calls no getter
\* here, as the object has no interface of the service left.
Unreferenced(h, d) ==
    LET bare == IF Introspectable \in ToSet(h.data[d].added)
                THEN h ELSE AddPending(h, d)
        last == IF bare.data[d].processId > 0 THEN RemovePending(bare, d) ELSE bare
    IN  IF h.data[d].refcount > 1
        THEN [h EXCEPT !.data[d].refcount = @ - 1]
        ELSE [last EXCEPT !.data[d] = [Unused EXCEPT !.state = "freed"]]

-----------------------------------------------------------------------------
(* The service. *)

Top == Head(stack)

\* Called from getters and destroy functions, and from the main loop.
ServiceRuns ==
    /\ fault = "none"
    /\ stack # <<>> => Top.at \in {"announcing", "changing", "destroying"}

InGetter == stack # <<>> /\ Top.at \in {"announcing", "changing"}

\* Does the rule keep a getter from making news of object d?
Quiet(d) ==
    "quietGetter" \in Rules /\ InGetter => Top.call # "process" \/ Top.data # d

\* g_dbus_register_interface
Register(d, i) ==
    LET r == Referenced(Heap, d)
    IN  /\ ServiceRuns /\ Quiet(d)
        /\ data[d].state # "freed"
        /\ iface[i].state = "unused"
        /\ Become(AddPending([r EXCEPT !.iface[i].state = "listed",
                                       !.data[d].interfaces = Append(@, i),
                                       !.data[d].added = Append(@, i)], d))
        /\ UNCHANGED <<stack, fault>>

\* g_dbus_emit_property_changed, of a property that is not noted yet.
Report(d, i) ==
    /\ ServiceRuns /\ Quiet(d)
    /\ i \in ToSet(data[d].interfaces) /\ i \notin ToSet(data[d].added)
    /\ Become(AddPending([Heap EXCEPT !.iface[i].dirty = TRUE,
                                      !.data[d].pendingProp = TRUE], d))
    /\ UNCHANGED <<stack, fault>>

\* g_dbus_unregister_interface, which enters remove_interface.
Unregister(d, i) ==
    /\ ServiceRuns
    /\ "keepsAll" \in Rules => ~InGetter
    /\ i \in ToSet(data[d].interfaces)
    /\ Len(stack) < MaxDepth
    /\ stack' = <<[call |-> "remove", at |-> "changed", data |-> d, iface |-> i,
                   next |-> None]>> \o stack
    /\ UNCHANGED <<heap, fault>>

\* g_dbus_send_message and its like, which enter g_dbus_flush.
Send ==
    /\ ServiceRuns
    /\ "sendsNothing" \in Rules => ~InGetter
    /\ "announced" \in Rules =>
          \A f \in ToSet(stack) :
              f.at = "destroying" => f.iface \notin ToSet(data[f.data].added)
    /\ pending # <<>>
    /\ Len(stack) < MaxDepth
    /\ stack' = <<[call |-> "flush", at |-> "walk", link |-> Head(pending)]>> \o stack
    /\ UNCHANGED <<heap, fault>>

-----------------------------------------------------------------------------
(* process_changes and g_dbus_flush *)

Fails(why) == fault' = why /\ UNCHANGED <<heap, stack>>

\* The function under way goes on as frame f, with heap h.
GoesOn(f, h) ==
    /\ stack' = <<f>> \o Tail(stack)
    /\ Become(h)
    /\ UNCHANGED fault

\* process_changes(d) is called and starts with remove_pending.
Enter(d, callers, h) ==
    LET r == RemovePending(h, d)
    IN  IF data[d].state = "freed" THEN Fails("freedData")
        ELSE /\ stack' = <<[call |-> "process", at |-> "added", data |-> d,
                            iface |-> First(data[d].added), next |-> None]>>
                         \o callers
             /\ Become(r)
             /\ UNCHANGED fault

\* The main loop runs idle callback id, which will not be run again.
Idle(id) ==
    /\ fault = "none"
    /\ stack = <<>>
    /\ id \in sources
    /\ Enter(owner[id], <<>>, [Heap EXCEPT !.sources = @ \ {id}])

\* (Mutant of the next: the link behind is looked up when the object has been
\* processed, as in a usual loop.)
FlushNextLate ==
    LET l == Top.link
    IN  /\ fault = "none" /\ stack # <<>> /\ Top.call = "flush" /\ l # 0
        /\ IF l \notin ToSet(pending) THEN Fails("freedLink")
           ELSE Enter(owner[l], stack, Heap)

\* g_dbus_flush looks at the next object, and at the link behind it before the
\* object is processed.
FlushNext ==
    LET l == Top.link
        behind == Behind(pending, l)
    IN  /\ fault = "none" /\ stack # <<>> /\ Top.call = "flush" /\ l # 0
        /\ IF l \notin ToSet(pending) THEN Fails("freedLink")
           ELSE Enter(owner[l],
                      <<[Top EXCEPT !.link = IF behind = None THEN 0 ELSE behind]>>
                          \o Tail(stack),
                      Heap)

FlushEnds ==
    /\ fault = "none" /\ stack # <<>> /\ Top.call = "flush" /\ Top.link = 0
    /\ stack' = Tail(stack)
    /\ UNCHANGED <<heap, fault>>

At(call, place) ==
    fault = "none" /\ stack # <<>> /\ Top.call = call /\ Top.at = place

\* emit_interfaces_added: the next of the new interfaces, whose getters are
\* called.
Announce ==
    LET d == Top.data
        i == Top.iface
        behind == Behind(data[d].added, i)
    IN  /\ At("process", "added") /\ i # None
        /\ CASE data[d].state = "freed" -> Fails("freedData")
             [] data[d].state # "freed" /\ i \notin ToSet(data[d].added) ->
                    Fails("freedLink")
             [] data[d].state # "freed" /\ i \in ToSet(data[d].added) ->
                    IF i = Introspectable
                    THEN GoesOn([Top EXCEPT !.iface = behind], Heap)
                    ELSE IF iface[i].state = "leaving" THEN Fails("destroyedUser")
                    ELSE GoesOn([Top EXCEPT !.at = "announcing", !.next = behind],
                                Heap)

\* The getters return.
Announced ==
    LET i == Top.iface
    IN  /\ At("process", "announcing")
        /\ IF iface[i].state # "listed" THEN Fails("freedInterface")
           ELSE GoesOn([Top EXCEPT !.at = "added", !.iface = Top.next, !.next = None],
                       Heap)

\* InterfacesAdded leaves, and process_property_changes starts if there is a
\* change.
AllAnnounced ==
    LET d == Top.data
    IN  /\ At("process", "added") /\ Top.iface = None
        /\ IF data[d].state = "freed" THEN Fails("freedData")
           ELSE GoesOn([Top EXCEPT !.at = "changed",
                            !.iface = IF data[d].pendingProp
                                      THEN First(data[d].interfaces) ELSE None],
                       [Heap EXCEPT !.data[d].added = <<>>])

\* Is the pending_prop of interface i walked by one of these frames?
Walks(frames, i) == \E f \in ToSet(frames) : f.at = "changing" /\ f.iface = i

\* Where process_property_changes and remove_interface stand when interface i
\* of object d has been dealt with.
Sent(d, i) ==
    IF Top.call = "remove" THEN [Top EXCEPT !.at = "unlist"]
    ELSE [Top EXCEPT !.at = "changed", !.iface = Behind(data[d].interfaces, i)]

\* process_properties_from_interface
Change ==
    LET d == Top.data
        i == Top.iface
        down == [Heap EXCEPT !.data[d].pendingProp = FALSE]
    IN  /\ fault = "none" /\ stack # <<>> /\ Top.at = "changed" /\ i # None
        /\ CASE data[d].state = "freed" -> Fails("freedData")
             [] data[d].state # "freed" /\ i \notin ToSet(data[d].interfaces) ->
                    Fails("freedLink")
             [] data[d].state # "freed" /\ i \in ToSet(data[d].interfaces) ->
                    IF ~iface[i].dirty THEN GoesOn(Sent(d, i), down)
                    ELSE IF Walks(Tail(stack), i) THEN Fails("freedLink")
                    ELSE GoesOn([Top EXCEPT !.at = "changing"], down)

\* The getters of the changed properties return, and PropertiesChanged leaves.
Changed ==
    LET d == Top.data
        i == Top.iface
    IN  /\ fault = "none" /\ stack # <<>> /\ Top.at = "changing"
        /\ IF data[d].state = "freed" THEN Fails("freedData")
           ELSE IF iface[i].state # "listed" THEN Fails("freedInterface")
           ELSE GoesOn(Sent(d, i), [Heap EXCEPT !.iface[i].dirty = FALSE])

\* InterfacesRemoved leaves, and process_id is 0 whatever it was by now.
ProcessEnds ==
    LET d == Top.data
    IN  /\ At("process", "changed") /\ Top.iface = None
        /\ IF data[d].state = "freed" THEN Fails("freedData")
           ELSE /\ stack' = Tail(stack)
                /\ Become([Heap EXCEPT !.data[d].removed = FALSE,
                                       !.data[d].processId = 0])
                /\ UNCHANGED fault

-----------------------------------------------------------------------------
(* remove_interface *)

\* The interface is off the list when its destroy function is called.
Unlist ==
    /\ At("remove", "unlist")
    /\ GoesOn([Top EXCEPT !.at = "destroying"],
              [Heap EXCEPT !.data[Top.data].interfaces = Remove(@, Top.iface),
                           !.iface[Top.iface].state = "leaving"])

\* The rest of remove_interface: clients need not hear of an interface that they
\* have not heard of.
Freed(h, d, i) ==
    LET freed == [h EXCEPT !.iface[i].state = "freed"]
    IN  IF i \in ToSet(h.data[d].added)
        THEN [freed EXCEPT !.data[d].added = Remove(@, i)]
        ELSE AddPending([freed EXCEPT !.data[d].removed = TRUE], d)

\* The destroy function returns; object_path_unref follows remove_interface.
Destroyed ==
    LET d == Top.data
    IN  /\ At("remove", "destroying")
        /\ IF data[d].state = "freed" THEN Fails("freedData")
           ELSE /\ stack' = Tail(stack)
                /\ Become(Unreferenced(Freed(Heap, d, Top.iface), d))
                /\ UNCHANGED fault

Next ==
    \/ \E d \in Object, i \in Interface :
          Register(d, i) \/ Report(d, i) \/ Unregister(d, i)
    \/ Send
    \/ \E id \in Source : Idle(id)
    \/ FlushNext
    \/ FlushEnds
    \/ Announce
    \/ Announced
    \/ AllAnnounced
    \/ Change
    \/ Changed
    \/ ProcessEnds
    \/ Unlist
    \/ Destroyed

Spec == Init /\ [][Next]_vars

-----------------------------------------------------------------------------
(* Properties. *)

\* A service that observes the rules may call back from getters and destroy
\* functions: no walk meets a link or an object that was freed under it, and no
\* getter is called for an interface that has been destroyed.
NoFault == fault = "none"

\* However calls are nested, the list that g_dbus_flush walks and the idle
\* callbacks stay one: every link is of an object that lives, has that callback
\* and knows it by its process_id, and no callback is without a link, so that
\* generic_unregister takes with an object all that refers to it (object.c:983-1026).
PendingIsScheduled ==
    /\ ToSet(pending) = sources /\ IsInjective(pending)
    /\ \A id \in sources :
          data[owner[id]].state = "live" /\ data[owner[id]].processId = id
    /\ \A d \in Object :
          data[d].processId \in sources \union {0}

\* What interfaces an object has won and lost since its last signals is never
\* forgotten: the object is pending, or process_changes is at work on it.
NewsIsPending ==
    \A d \in Object :
        data[d].added # <<>> \/ data[d].removed =>
            \/ data[d].processId # 0
            \/ \E f \in ToSet(stack) : f.call = "process" /\ f.data = d

\* Types, and the two facts above (object.c:635-643, 983-1035).
Bookkeeping == TypeOK /\ PendingIsScheduled /\ NewsIsPending
=============================================================================
