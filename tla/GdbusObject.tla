---------------------------- MODULE GdbusObject -----------------------------
(***************************************************************************)
(* The server side of gdbus (src/gdbus/object.c): objects, the interfaces  *)
(* registered on them, and the ObjectManager signals that tell clients     *)
(* about both.                                                             *)
(*                                                                         *)
(* Registering, unregistering and changing a property only note the change *)
(* in the object's generic_data and schedule process_changes as an idle    *)
(* callback; the signals leave when the main loop is idle, when any other  *)
(* message is sent on the connection (g_dbus_flush), or when the object    *)
(* goes away.  "told" is what a client knows that listened from the start  *)
(* and applied every signal sent so far.                                   *)
(*                                                                         *)
(* One connection; "/" carries the ObjectManager and nothing else; each    *)
(* interface has one property, which stands for all of its properties.     *)
(* Getters and destroy functions do not call back: GdbusPending is about   *)
(* those that do, and about the list "pending", the idle callbacks and     *)
(* process_id, which are one flag here.                                    *)
(***************************************************************************)
EXTENDS Naturals, FiniteSets

CONSTANTS
    Path,            \* the object paths a service may register, "/" excepted
    Above,           \* Above[p]: the paths in Path that p lies below
    Iface,           \* the interfaces the service registers
    WithProps,       \* those of them that have properties
    Introspectable, Properties,    \* the interfaces gdbus adds by itself
    Val, Absent,     \* values of a property; no such interface
    Root, None,      \* "/"; the NULL parent
    MaxManagers,     \* bound on nested g_dbus_attach_object_manager calls
    Rules            \* what the service refrains from, see below

Standard == {Introspectable, Properties}
Name == Iface \union Standard
Node == Path \union {Root}

(* A service may observe these rules, which nothing in object.c enforces:  *)
(*   managed      objects exist only while the ObjectManager is attached   *)
(*   topDown      an object is registered before, and unregistered after,  *)
(*                the objects below it                                     *)
(*   noReadd      an interface is not registered again before the signal   *)
(*                about its removal is out                                 *)
(*   quietRemove  no interface is unregistered while a property change of  *)
(*                another interface of the object is still to be sent      *)
Rule == {"managed", "topDown", "noReadd", "quietRemove"}

ASSUME PathAssumption ==
    /\ Above \in [Path -> SUBSET Path]
    /\ \A p \in Path : p \notin Above[p]
    \* A path below one that is below a third one is below the third.
    /\ \A p \in Path : \A a \in Above[p] : Above[a] \subseteq Above[p]
    \* The paths above a path form a chain, with a lowest and a highest of any of them.
    /\ \A p \in Path : \A S \in SUBSET Above[p] :
          S # {} => /\ \E a \in S : S \ {a} \subseteq Above[a]
                    /\ \E a \in S : \A b \in S \ {a} : a \in Above[b]
    /\ Root \notin Path /\ None \notin Path /\ Root # None

ASSUME NameAssumption ==
    /\ WithProps \subseteq Iface
    /\ Introspectable \notin Iface /\ Properties \notin Iface
    /\ Introspectable # Properties
    /\ Absent \notin Val /\ Val # {}

ASSUME BoundAssumption ==
    /\ MaxManagers \in Nat
    /\ Rules \subseteq Rule

VARIABLES
    obj,        \* generic_data of each path, see ObjectType
    children,   \* the "objects" list of each node
    attached,   \* root # NULL
    managers,   \* ObjectManager interfaces on "/", which is "/"'s refcount
    dangling    \* a list or a parent pointer refers to freed generic_data

vars == <<obj, children, attached, managers, dangling>>

Row == [Name -> Val \union {Absent}]

ObjectType ==
    [reg : BOOLEAN,              \* is generic_data registered at the path?
     ifaces : SUBSET Name,       \* interfaces
     val : [Iface -> Val],       \* what the property getters return
     added : SUBSET Name,        \* added
     removed : SUBSET Name,      \* removed
     dirty : SUBSET Iface,       \* interfaces with a non-empty pending_prop
     pendingProp : BOOLEAN,      \* generic_data's pending_prop
     scheduled : BOOLEAN,        \* on the list "pending", with an idle callback
     parent : Node \union {None},
     told : Row]                 \* not in the code: the clients' knowledge

TypeOK ==
    /\ obj \in [Path -> ObjectType]
    /\ children \in [Node -> SUBSET Path]
    /\ attached \in BOOLEAN
    /\ managers \in 0..MaxManagers
    /\ dangling \in BOOLEAN

Nothing == [n \in Name |-> Absent]

\* No generic_data at a path: what remains is the values the service holds
\* for it and what clients believe.
Unregistered(values, told) ==
    [reg |-> FALSE, ifaces |-> {}, val |-> values, added |-> {}, removed |-> {},
     dirty |-> {}, pendingProp |-> FALSE, scheduled |-> FALSE,
     parent |-> None, told |-> told]

Init ==
    /\ \E values \in [Iface -> Val] :
          obj = [p \in Path |-> Unregistered(values, Nothing)]
    /\ children = [a \in Node |-> {}]
    /\ attached = FALSE
    /\ managers = 0
    /\ dangling = FALSE

-----------------------------------------------------------------------------
(* Contents and signals of one object o. *)

\* What GetManagedObjects and InterfacesAdded say of interface n.  The standard
\* interfaces have no properties, so any fixed value will do for them.
NoProperties == CHOOSE v \in Val : TRUE
Value(o, n) == IF n \in Iface THEN o.val[n] ELSE NoProperties
Content(o) == [n \in Name |-> IF n \in o.ifaces THEN Value(o, n) ELSE Absent]

\* A client that hears InterfacesAdded, PropertiesChanged or InterfacesRemoved
\* for the interfaces in S.  It ignores a change of an interface it lacks.
HearsAdded(o, S) ==
    [n \in Name |-> IF n \in S THEN Value(o, n) ELSE o.told[n]]
HearsChanged(o, S) ==
    [n \in Name |-> IF n \in S /\ o.told[n] # Absent
                    THEN Value(o, n) ELSE o.told[n]]
HearsRemoved(o, S) ==
    [n \in Name |-> IF n \in S THEN Absent ELSE o.told[n]]

\* add_pending
AddPending(o) == [o EXCEPT !.scheduled = TRUE]

\* process_properties_from_interface: the object's flag goes down, whatever
\* the other interfaces still have to send.
SendChanged(o, n) ==
    [o EXCEPT !.pendingProp = FALSE,
              !.dirty = @ \ {n},
              !.told = HearsChanged(o, o.dirty \intersect {n})]

\* add_interface
AddInterface(o, n) ==
    IF o.parent = None
    THEN [o EXCEPT !.ifaces = @ \union {n}]
    ELSE AddPending([o EXCEPT !.ifaces = @ \union {n},
                              !.added = @ \union {n}])

\* (Mutant of the next: the removal is noted but nothing is scheduled.)
RemoveInterfaceUnscheduled(o, n) ==
    LET r == [SendChanged(o, n) EXCEPT !.ifaces = @ \ {n}]
    IN  IF n \notin o.ifaces THEN o
        ELSE IF n \in o.added THEN [r EXCEPT !.added = @ \ {n}]
        ELSE [r EXCEPT !.removed = @ \union {n}]

\* (Another one: an interface that goes before it was announced stays on the
\* list of those to announce.)
RemoveInterfaceStillAdded(o, n) ==
    LET r == [SendChanged(o, n) EXCEPT !.ifaces = @ \ {n}]
    IN  IF n \notin o.ifaces THEN o
        ELSE IF n \in o.added \/ o.parent = None THEN r
        ELSE AddPending([r EXCEPT !.removed = @ \union {n}])

\* remove_interface: no signal for an interface that was not announced yet,
\* nor for an object without a parent.
RemoveInterface(o, n) ==
    LET r == [SendChanged(o, n) EXCEPT !.ifaces = @ \ {n}]
    IN  IF n \notin o.ifaces THEN o
        ELSE IF n \in o.added THEN [r EXCEPT !.added = @ \ {n}]
        ELSE IF o.parent = None THEN r
        ELSE AddPending([r EXCEPT !.removed = @ \union {n}])

\* emit_interfaces_added and emit_interfaces_removed, which return early and
\* keep their list when no ObjectManager is attached.
EmitAdded(o) ==
    IF ~attached THEN o
    ELSE [o EXCEPT !.added = {}, !.told = HearsAdded(o, o.added)]

EmitRemoved(o) ==
    IF ~attached THEN o
    ELSE [o EXCEPT !.removed = {}, !.told = HearsRemoved(o, o.removed)]

\* process_property_changes, called while pending_prop is up.
SendAllChanged(o) ==
    IF ~o.pendingProp THEN o
    ELSE [o EXCEPT !.pendingProp = FALSE, !.dirty = {},
                   !.told = HearsChanged(o, o.dirty)]

\* (Mutant of the next: property changes are not flushed.)
ProcessChangesNoProperties(o) ==
    EmitRemoved(EmitAdded([o EXCEPT !.scheduled = FALSE]))

\* process_changes, with remove_pending first.
ProcessChanges(o) ==
    EmitRemoved(SendAllChanged(EmitAdded([o EXCEPT !.scheduled = FALSE])))

-----------------------------------------------------------------------------
(* The tree of objects. *)

Registered == {p \in Path : obj[p].reg}

\* (Mutant of the next: an unregistered path in between breaks the search.)
NearestDirect(q, R) ==
    IF Above[q] = {} /\ managers > 0 THEN Root
    ELSE IF Above[q] # {} /\ Above[q] \subseteq R
    THEN CHOOSE a \in Above[q] : Above[q] \ {a} \subseteq Above[a]
    ELSE None

\* The node whose "objects" list q belongs on when R is registered: the lowest
\* registered node above q.
Nearest(q, R) ==
    LET A == Above[q] \intersect R
    IN  IF A # {} THEN CHOOSE a \in A : A \ {a} \subseteq Above[a]
        ELSE IF managers > 0 THEN Root
        ELSE None

\* invalidate_parent_data(p) walks up from p and puts every registered object
\* it meets on the list of its nearest node, unless it is on it already.
Relinked(p, R) ==
    {q \in R \intersect ({p} \union Above[p]) :
        /\ Nearest(q, R) # None
        /\ q \notin children[Nearest(q, R)]}

ChildrenAfter(p, R) ==
    [a \in Node |->
        children[a] \union {q \in Relinked(p, R) : Nearest(q, R) = a}]

ParentAfter(p, R, q) ==
    IF q \in Relinked(p, R) THEN Nearest(q, R) ELSE obj[q].parent

-----------------------------------------------------------------------------
(* Operations of the service. *)

\* g_dbus_register_interface, with object_path_ref when the path is new.
Register(p, i) ==
    LET R == Registered \union {p}
        fresh == ~obj[p].reg
        o0 == IF fresh THEN AddInterface([obj[p] EXCEPT !.reg = TRUE,
                                             !.parent = ParentAfter(p, R, p)],
                                         Introspectable)
              ELSE obj[p]
        o1 == AddInterface(o0, i)
        o2 == IF i \in WithProps /\ Properties \notin o1.ifaces
              THEN AddInterface(o1, Properties) ELSE o1
    IN  /\ ~dangling
        /\ i \notin obj[p].ifaces
        /\ "managed" \in Rules => attached
        /\ "noReadd" \in Rules => i \notin obj[p].removed
        /\ "topDown" \in Rules /\ fresh =>
              \A q \in Registered : p \notin Above[q]
        /\ obj' = [q \in Path |->
              IF q = p THEN o2
              ELSE IF fresh
              THEN [obj[q] EXCEPT !.parent = ParentAfter(p, R, q)]
              ELSE obj[q]]
        /\ children' = IF fresh THEN ChildrenAfter(p, R) ELSE children
        /\ UNCHANGED <<attached, managers, dangling>>

\* Does anything still refer to node a, when the lists are C and the parents
\* of registered objects are those in objs?
RefersTo(a, C, objs) ==
    \/ \E b \in Node \ {a} : a \in C[b]
    \/ \E q \in Path \ {a} : objs[q].reg /\ objs[q].parent = a

\* generic_unregister of object p, whose generic_data is now o: p leaves its
\* parent's list, sends what is pending, which takes it off that list, and hands
\* its parent on to its children.
Destroy(p, o) ==
    LET up == ParentAfter(p, Registered, p)
        C == ChildrenAfter(p, Registered)
        last == IF o.scheduled THEN ProcessChanges(o) ELSE o
        objs == [q \in Path |->
                    IF q = p THEN Unregistered(o.val, last.told)
                    ELSE IF q \in C[p] THEN [obj[q] EXCEPT !.parent = up]
                    ELSE [obj[q] EXCEPT
                             !.parent = ParentAfter(p, Registered, q)]]
        lists == [a \in Node |-> IF a = p THEN {}
                                 ELSE IF a = up THEN C[a] \ {p} ELSE C[a]]
    IN  /\ obj' = objs
        /\ children' = lists
        /\ dangling' = RefersTo(p, lists, objs)

\* g_dbus_unregister_interface and object_path_unref.  The refcount of an
\* object is the number of the service's interfaces on it.
Unregister(p, i) ==
    LET o == RemoveInterface(obj[p], i)
        bare == RemoveInterface(RemoveInterface(o, Introspectable), Properties)
    IN  /\ ~dangling
        /\ i \in obj[p].ifaces
        /\ "quietRemove" \in Rules => obj[p].dirty \subseteq {i}
        /\ IF o.ifaces \intersect Iface # {}
           THEN /\ obj' = [obj EXCEPT ![p] = o]
                /\ UNCHANGED <<children, dangling>>
           ELSE /\ "topDown" \in Rules =>
                      \A q \in Registered : p \notin Above[q]
                /\ Destroy(p, bare)
        /\ UNCHANGED <<attached, managers>>

\* The service changes a property of i and calls g_dbus_emit_property_changed.
ChangeProperty(p, i, v) ==
    LET o == [obj[p] EXCEPT !.val[i] = v]
    IN  /\ ~dangling
        /\ i \in obj[p].ifaces \intersect WithProps
        /\ v # obj[p].val[i]
        /\ obj' = [obj EXCEPT ![p] =
              IF \/ attached /\ i \in o.added
                 \/ i \in o.dirty
              THEN o
              ELSE AddPending([o EXCEPT !.pendingProp = TRUE,
                                        !.dirty = @ \union {i}])]
        /\ UNCHANGED <<children, attached, managers, dangling>>

\* The idle callback of object p.
Idle(p) ==
    /\ ~dangling
    /\ obj[p].scheduled
    /\ obj' = [obj EXCEPT ![p] = ProcessChanges(@)]
    /\ UNCHANGED <<children, attached, managers, dangling>>

\* g_dbus_flush: g_dbus_send_message, g_dbus_send_message_with_reply and
\* g_dbus_emit_signal call it before they send, and so does every reply, that
\* to GetManagedObjects included.
Flush ==
    /\ ~dangling
    /\ \E p \in Path : obj[p].scheduled
    /\ obj' = [p \in Path |->
                  IF obj[p].scheduled THEN ProcessChanges(obj[p]) ELSE obj[p]]
    /\ UNCHANGED <<children, attached, managers, dangling>>

\* g_dbus_attach_object_manager.  Objects registered before are not linked to
\* the new "/".
Attach ==
    /\ ~dangling
    /\ managers < MaxManagers
    /\ managers' = managers + 1
    /\ attached' = TRUE
    /\ UNCHANGED <<obj, children, dangling>>

\* (Mutant of the next: detaches what was never attached.)
DetachUnchecked ==
    /\ ~dangling
    /\ "managed" \in Rules => Registered = {}
    /\ managers' = managers - 1
    /\ attached' = FALSE
    /\ UNCHANGED <<obj, children, dangling>>

\* g_dbus_detach_object_manager: root is NULL even if "/" lives on because the
\* manager was attached twice.
Detach ==
    LET objs == [p \in Path |-> IF p \in children[Root]
                                THEN [obj[p] EXCEPT !.parent = None]
                                ELSE obj[p]]
    IN  /\ ~dangling
        /\ managers > 0
        /\ "managed" \in Rules => Registered = {}
        /\ managers' = managers - 1
        /\ attached' = FALSE
        /\ IF managers = 1
           THEN /\ obj' = objs
                /\ children' = [children EXCEPT ![Root] = {}]
                /\ dangling' = RefersTo(Root, children', objs)
           ELSE UNCHANGED <<obj, children, dangling>>

Next ==
    \/ \E p \in Path, i \in Iface : Register(p, i) \/ Unregister(p, i)
    \/ \E p \in Path, i \in Iface, v \in Val : ChangeProperty(p, i, v)
    \/ \E p \in Path : Idle(p)
    \/ Flush
    \/ Attach
    \/ Detach

Spec == Init /\ [][Next]_vars

\* GLib runs an idle callback once nothing of higher priority is ready.
FairSpec == Spec /\ \A p \in Path : WF_vars(Idle(p))
-----------------------------------------------------------------------------
(* Properties. *)

\* With nothing left to send for an object, a client that followed the signals
\* has its interfaces and their property values right.
ClientsAgree ==
    \A p \in Path : ~obj[p].scheduled => obj[p].told = Content(obj[p])

\* The node lists make a tree with every registered object in it once, so that
\* GetManagedObjects (append_object's walk from "/") names each of them once;
\* and no list and no parent pointer outlives the object it refers to.
Walked(p) ==
    \A S \in SUBSET Path :
        (/\ children[Root] \subseteq S
         /\ \A q \in S : children[q] \subseteq S) => p \in S

GetManagedObjectsComplete ==
    /\ ~dangling
    /\ attached => \A p \in Path :
        IF obj[p].reg
        THEN Walked(p) /\ Cardinality({a \in Node : p \in children[a]}) = 1
        ELSE \A a \in Node : p \notin children[a]

\* What relates the lists of one object o to each other and to its clients'
\* image, between any two steps of a service that observes the rules.
Consistent(o) ==
    /\ o.added \subseteq o.ifaces
    /\ o.removed \intersect o.ifaces = {}
    /\ o.dirty \subseteq o.ifaces \ o.added
    /\ o.dirty # {} => o.pendingProp
    /\ (o.added # {} \/ o.removed # {} \/ o.pendingProp) => o.scheduled
    /\ \A n \in Name :
        /\ n \in o.added => o.told[n] = Absent
        /\ n \in o.dirty => o.told[n] # Absent
        /\ n \in o.ifaces \ (o.added \union o.dirty) => o.told[n] = Value(o, n)
        /\ n \notin o.ifaces \union o.removed => o.told[n] = Absent

\* ... and the objects to the tree: a registered object hangs below some node
\* of an attached tree, an unregistered one has nothing left to send, and the
\* lists name registered objects only.
Bookkeeping ==
    /\ attached => managers > 0
    /\ \A p \in Path :
        /\ Consistent(obj[p])
        /\ obj[p].removed \subseteq Iface
        /\ obj[p].reg => attached /\ obj[p].parent # None
        /\ ~obj[p].reg => obj[p].ifaces = {} /\ ~obj[p].scheduled
    /\ ~dangling => \A a \in Node : children[a] \subseteq Registered

\* The service keeps what the ObjectManager promises.
Promise == INSTANCE ObjectManagerView
             WITH content <- [p \in Path |-> Content(obj[p])],
                  told <- [p \in Path |-> obj[p].told]

\* It tells clients nothing that was not true when it was noted: each interface
\* of their image stays, moves to what the object has now, or hears a last
\* value on its way out, with every signal that is batched or suppressed.
TellsTheTruth == Promise!Safety

\* Whatever is changed, clients have all of an object right again and again:
\* no change is noted without an idle callback that sends it.
ClientsCatchUp == Promise!CatchUp
=============================================================================
