--------------------------- MODULE GdbusIntrospect ---------------------------
(***************************************************************************)
(* Introspection on top of GdbusObject (src/gdbus/object.c): each object   *)
(* keeps the text of its last answer to Introspect and gives it again      *)
(* until something clears it.  The text names the object's interfaces and  *)
(* the paths one level below it, so it must be cleared whenever either     *)
(* changes, however far down the tree the change is.                       *)
(*                                                                         *)
(* Every path that lies between two paths of Path, or above one, is in     *)
(* Path itself: it may stay unregistered.  An interface stands for what    *)
(* its static tables of methods, signals and properties print.             *)
(***************************************************************************)
EXTENDS GdbusObject

CONSTANTS
    ObjectManager,   \* the interface of "/"
    Unknown          \* no text is kept: introspect = NULL

ASSUME IntrospectAssumption == ObjectManager \notin Name

VARIABLES
    text             \* introspect of each node, see Generated, or Unknown

introspectVars == <<vars, text>>

IntrospectInit == Init /\ text = [n \in Node |-> Unknown]

-----------------------------------------------------------------------------
(* What there is to print. *)

\* The nodes of D-Bus's object tree, "/" included.
Live == Registered \union (IF managers > 0 THEN {Root} ELSE {})

Below(n) == IF n = Root THEN Path ELSE {q \in Path : n \in Above[q]}

\* dbus_connection_list_registered: the paths one level below n that are
\* registered or lead to a registered one.
ListRegistered(n) ==
    {c \in Below(n) :
        /\ Above[c] \intersect Below(n) = {}
        /\ ({c} \union Below(c)) \intersect Registered # {}}

\* generate_introspection_xml
Generated(n) ==
    [ifaces |-> IF n = Root THEN {Introspectable, ObjectManager} ELSE obj[n].ifaces,
     nodes |-> ListRegistered(n)]

\* The text that object_path_ref gives a new object.
BareText == [ifaces |-> {}, nodes |-> {}]

\* (Mutant of the next: only a registered parent one level up is cleared.)
InvalidatedParentOnly(p) ==
    {n \in Live : p \in Below(n) /\ Below(n) \intersect Above[p] = {}}

\* The objects whose text invalidate_parent_data(p) clears on its way up.
Invalidated(p) == {n \in Live : p \in Below(n)}

Cleared(S) == [n \in Node |-> IF n \in S THEN Unknown ELSE text[n]]

-----------------------------------------------------------------------------
(* The operations of GdbusObject and what they do to the texts. *)

\* g_dbus_register_interface; the parents' texts go when the object is new.
RegisterText(p, i) ==
    /\ Register(p, i)
    /\ text' = Cleared({p} \union IF obj[p].reg THEN {} ELSE Invalidated(p))

\* g_dbus_unregister_interface and object_path_unref, which invalidates the
\* parents while the object is still registered.
UnregisterText(p, i) ==
    /\ Unregister(p, i)
    /\ text' = Cleared({p} \union IF obj'[p].reg THEN {} ELSE Invalidated(p))

\* g_dbus_attach_object_manager calls add_interface itself, so the bare text
\* that object_path_ref made stays.
AttachText ==
    /\ Attach
    /\ text' = IF managers = 0 THEN [text EXCEPT ![Root] = BareText] ELSE text

DetachText ==
    /\ Detach
    /\ text' = Cleared({Root})

\* introspect, and the reply, before which g_dbus_send_message flushes.
Introspect(n) ==
    /\ ~dangling
    /\ n \in Live
    /\ text' = [text EXCEPT ![n] = IF @ = Unknown THEN Generated(n) ELSE @]
    /\ obj' = [p \in Path |->
                  IF obj[p].scheduled THEN ProcessChanges(obj[p]) ELSE obj[p]]
    /\ UNCHANGED <<children, attached, managers, dangling>>

\* Values and signals are not part of any text.
Signals ==
    \/ \E p \in Path, i \in Iface, v \in Val : ChangeProperty(p, i, v)
    \/ \E p \in Path : Idle(p)
    \/ Flush

IntrospectNext ==
    \/ \E p \in Path, i \in Iface : RegisterText(p, i) \/ UnregisterText(p, i)
    \/ Signals /\ UNCHANGED text
    \/ AttachText
    \/ DetachText
    \/ \E n \in Node : Introspect(n)

IntrospectSpec == IntrospectInit /\ [][IntrospectNext]_introspectVars

\* Idle callbacks run, as in GdbusObject.
IntrospectFairSpec == IntrospectSpec /\ \A p \in Path : WF_vars(Idle(p))

-----------------------------------------------------------------------------
(* Properties. *)

\* Introspect tells the truth (object.c:239): a text that is kept names the
\* interfaces and the children that generate_introspection_xml would name now.
\* The exception is "/", which answers with an empty node from the attaching of
\* the ObjectManager to the first change below it.  The property allows it that
\* text at any time: that it has it no longer after a change is not claimed.
IntrospectIsFresh ==
    \A n \in Live :
        text[n] \in {Unknown, Generated(n)} \union (IF n = Root THEN {BareText} ELSE {})
=============================================================================
