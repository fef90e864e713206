-------------------------- MODULE GdbusObjectProof --------------------------
(***************************************************************************)
(* Proofs about GdbusObject and GdbusIntrospect, for all sets of paths,    *)
(* interfaces and values.                                                  *)
(* First the operators on one object, then the steps and the theorems that *)
(* need no rules, then what the ObjectManager promises and the tree it     *)
(* walks; at the end the texts of GdbusIntrospect, for all trees of paths. *)
(***************************************************************************)
EXTENDS GdbusIntrospect, FiniteSetTheorems, TLAPS

-----------------------------------------------------------------------------
(* One object: types. *)

\* A property getter returns a value, and a value is not "Absent".
LEMMA ValueType ==
    ASSUME NEW o \in ObjectType, NEW n \in Name
    PROVE  Value(o, n) \in Val /\ Value(o, n) # Absent
<1>1. NoProperties \in Val
  BY NameAssumption DEF NoProperties
<1>2. n \in Iface => o.val[n] \in Val
  BY DEF ObjectType
<1> QED
  BY <1>1, <1>2, NameAssumption DEF Value

\* What clients hear keeps their image an image.
LEMMA HearsType ==
    ASSUME NEW o \in ObjectType, NEW S
    PROVE  /\ HearsAdded(o, S) \in Row
           /\ HearsChanged(o, S) \in Row
           /\ HearsRemoved(o, S) \in Row
<1>1. o.told \in Row
  BY DEF ObjectType
<1>2. \A n \in Name : Value(o, n) \in Val
  BY ValueType
<1> QED
  BY <1>1, <1>2 DEF HearsAdded, HearsChanged, HearsRemoved, Row

\* Every operator keeps an object an object, registered or not.
Typed(o) == o \in ObjectType

LEMMA AddPendingType ==
    ASSUME NEW o, Typed(o)
    PROVE  /\ Typed(AddPending(o))
           /\ AddPending(o).reg = o.reg /\ AddPending(o).parent = o.parent
BY DEF AddPending, ObjectType, Typed

LEMMA SendChangedType ==
    ASSUME NEW o, Typed(o), NEW n \in Name
    PROVE  /\ Typed(SendChanged(o, n))
           /\ SendChanged(o, n).reg = o.reg /\ SendChanged(o, n).parent = o.parent
<1>1. HearsChanged(o, o.dirty \intersect {n}) \in Row
  BY HearsType DEF Typed
<1> QED
  BY <1>1 DEF SendChanged, ObjectType, Typed

LEMMA AddInterfaceType ==
    ASSUME NEW o, Typed(o), NEW n \in Name
    PROVE  /\ Typed(AddInterface(o, n))
           /\ AddInterface(o, n).reg = o.reg /\ AddInterface(o, n).parent = o.parent
<1> DEFINE r == [o EXCEPT !.ifaces = @ \union {n}]
           s == [o EXCEPT !.ifaces = @ \union {n}, !.added = @ \union {n}]
<1>1. Typed(r) /\ r.reg = o.reg /\ r.parent = o.parent
  BY DEF ObjectType, Typed
<1>2. Typed(s) /\ s.reg = o.reg /\ s.parent = o.parent
  BY DEF ObjectType, Typed
<1>3. AddInterface(o, n) = IF o.parent = None THEN r ELSE AddPending(s)
  BY DEF AddInterface
<1> HIDE DEF r, s
<1> QED
  BY <1>1, <1>2, <1>3, AddPendingType

LEMMA RemoveInterfaceType ==
    ASSUME NEW o, Typed(o), NEW n \in Name
    PROVE  /\ Typed(RemoveInterface(o, n))
           /\ RemoveInterface(o, n).reg = o.reg
           /\ RemoveInterface(o, n).parent = o.parent
<1> DEFINE r == [SendChanged(o, n) EXCEPT !.ifaces = @ \ {n}]
           s == [r EXCEPT !.added = @ \ {n}]
           t == [r EXCEPT !.removed = @ \union {n}]
<1>1. Typed(r) /\ r.reg = o.reg /\ r.parent = o.parent
  BY SendChangedType DEF ObjectType, Typed
<1>2. RemoveInterface(o, n) = IF n \notin o.ifaces THEN o
                              ELSE IF n \in o.added THEN s
                              ELSE IF o.parent = None THEN r
                              ELSE AddPending(t)
  BY DEF RemoveInterface
<1> HIDE DEF r
<1>3. Typed(s) /\ s.reg = o.reg /\ s.parent = o.parent
  BY <1>1 DEF ObjectType, Typed
<1>4. Typed(t) /\ t.reg = o.reg /\ t.parent = o.parent
  BY <1>1 DEF ObjectType, Typed
<1> HIDE DEF s, t
<1> QED
  BY <1>1, <1>2, <1>3, <1>4, AddPendingType

LEMMA ProcessChangesType ==
    ASSUME NEW o, Typed(o)
    PROVE  LET r == ProcessChanges(o) IN
           Typed(r) /\ r.reg = o.reg /\ r.parent = o.parent /\ r.scheduled = FALSE
<1> DEFINE o0 == [o EXCEPT !.scheduled = FALSE]
           o1 == EmitAdded(o0)
           o2 == SendAllChanged(o1)
           o3 == EmitRemoved(o2)
           Like(r) == Typed(r) /\ r.reg = o.reg /\ r.parent = o.parent /\ r.scheduled = FALSE
<1>0. ProcessChanges(o) = o3
  BY DEF ProcessChanges
<1>1. Like(o0)
  BY DEF ObjectType, Typed
<1> HIDE DEF o0
<1>2. Like(o1)
  <2>1. HearsAdded(o0, o0.added) \in Row
    BY <1>1, HearsType DEF Typed
  <2> QED
    BY <1>1, <2>1 DEF EmitAdded, ObjectType, Typed
<1> HIDE DEF o1
<1>3. Like(o2)
  <2>1. HearsChanged(o1, o1.dirty) \in Row
    BY <1>2, HearsType DEF Typed
  <2> QED
    BY <1>2, <2>1 DEF SendAllChanged, ObjectType, Typed
<1> HIDE DEF o2
<1>4. Like(o3)
  <2>1. HearsRemoved(o2, o2.removed) \in Row
    BY <1>3, HearsType DEF Typed
  <2> QED
    BY <1>3, <2>1 DEF EmitRemoved, ObjectType, Typed
<1> QED
  BY <1>0, <1>4

-----------------------------------------------------------------------------
(* One object: what each operator changes, and that it keeps the object     *)
(* consistent.                                                              *)

LEMMA AddInterfaceFields ==
    ASSUME NEW o \in ObjectType, NEW n \in Name, o.parent # None
    PROVE  LET r == AddInterface(o, n) IN
           /\ r.reg = o.reg /\ r.parent = o.parent
           /\ r.ifaces = o.ifaces \union {n} /\ r.added = o.added \union {n}
           /\ r.removed = o.removed /\ r.dirty = o.dirty
           /\ r.val = o.val /\ r.told = o.told
           /\ r.pendingProp = o.pendingProp /\ r.scheduled = TRUE
BY DEF AddInterface, AddPending, ObjectType

LEMMA AddInterfaceConsistent ==
    ASSUME NEW o \in ObjectType, Consistent(o), o.parent # None,
           NEW n \in Name, n \notin o.ifaces, n \notin o.removed
    PROVE  Consistent(AddInterface(o, n))
<1> DEFINE r == AddInterface(o, n)
<1>1. /\ r.ifaces = o.ifaces \union {n} /\ r.added = o.added \union {n}
      /\ r.removed = o.removed /\ r.dirty = o.dirty
      /\ r.val = o.val /\ r.told = o.told
      /\ r.pendingProp = o.pendingProp /\ r.scheduled = TRUE
  BY AddInterfaceFields
<1> HIDE DEF r
<1>2. \A m \in Name : Value(r, m) = Value(o, m)
  BY <1>1 DEF Value
<1>3. Consistent(r)
  BY <1>1, <1>2 DEF Consistent
<1> QED
  BY <1>3 DEF r

\* An interface may leave if no other one has a change to send.
LEMMA RemoveInterfaceFields ==
    ASSUME NEW o \in ObjectType, NEW n \in o.ifaces, o.parent # None,
           o.dirty \subseteq {n}
    PROVE  LET r == RemoveInterface(o, n) IN
           /\ r.reg = o.reg /\ r.parent = o.parent /\ r.val = o.val
           /\ r.ifaces = o.ifaces \ {n} /\ r.added = o.added \ {n}
           /\ r.removed = IF n \in o.added THEN o.removed
                          ELSE o.removed \union {n}
           /\ r.dirty = {} /\ r.pendingProp = FALSE
           /\ r.told = HearsChanged(o, o.dirty)
           /\ r.scheduled = IF n \in o.added THEN o.scheduled ELSE TRUE
<1> DEFINE s == SendChanged(o, n)
           r == [s EXCEPT !.ifaces = @ \ {n}]
<1>1. s \in ObjectType
  <2>1. HearsChanged(o, o.dirty \intersect {n}) \in Row
    BY HearsType
  <2> QED
    BY <2>1 DEF SendChanged, ObjectType
<1>2. /\ s.reg = o.reg /\ s.parent = o.parent /\ s.val = o.val
      /\ s.ifaces = o.ifaces /\ s.added = o.added /\ s.removed = o.removed
      /\ s.dirty = {} /\ s.pendingProp = FALSE
      /\ s.told = HearsChanged(o, o.dirty) /\ s.scheduled = o.scheduled
  <2>1. o.dirty \intersect {n} = o.dirty /\ o.dirty \ {n} = {}
    OBVIOUS
  <2> QED
    BY <2>1 DEF SendChanged, ObjectType
<1> HIDE DEF s
<1>3. r \in ObjectType
  BY <1>1 DEF ObjectType
<1>4. /\ r.reg = o.reg /\ r.parent = o.parent /\ r.val = o.val
      /\ r.ifaces = o.ifaces \ {n} /\ r.added = o.added
      /\ r.removed = o.removed /\ r.dirty = {} /\ r.pendingProp = FALSE
      /\ r.told = HearsChanged(o, o.dirty) /\ r.scheduled = o.scheduled
  BY <1>1, <1>2 DEF ObjectType
<1>5. RemoveInterface(o, n) =
         IF n \in o.added THEN [r EXCEPT !.added = @ \ {n}]
         ELSE AddPending([r EXCEPT !.removed = @ \union {n}])
  BY DEF RemoveInterface, s
<1> HIDE DEF r
<1>6. CASE n \in o.added
  BY <1>3, <1>4, <1>5, <1>6 DEF ObjectType
<1>7. CASE n \notin o.added
  <2>1. o.added \ {n} = o.added
    BY <1>7
  <2> QED
    BY <1>3, <1>4, <1>5, <1>7, <2>1 DEF AddPending, ObjectType
<1> QED
  BY <1>6, <1>7

LEMMA RemoveInterfaceConsistent ==
    ASSUME NEW o \in ObjectType, Consistent(o), o.parent # None,
           NEW n \in o.ifaces, o.dirty \subseteq {n}
    PROVE  Consistent(RemoveInterface(o, n))
<1> DEFINE r == RemoveInterface(o, n)
<1>1. /\ r.val = o.val
      /\ r.ifaces = o.ifaces \ {n} /\ r.added = o.added \ {n}
      /\ r.removed = IF n \in o.added THEN o.removed
                     ELSE o.removed \union {n}
      /\ r.dirty = {} /\ r.pendingProp = FALSE
      /\ r.told = HearsChanged(o, o.dirty)
      /\ r.scheduled = IF n \in o.added THEN o.scheduled ELSE TRUE
  BY RemoveInterfaceFields
<1> HIDE DEF r
<1>2. \A m \in Name : Value(r, m) = Value(o, m)
  BY <1>1 DEF Value
<1>3. \A m \in Name :
         r.told[m] = IF m \in o.dirty /\ o.told[m] # Absent
                     THEN Value(o, m) ELSE o.told[m]
  BY <1>1 DEF HearsChanged
<1>4. n \in Name
  BY DEF ObjectType
<1>5. /\ r.added \subseteq r.ifaces
      /\ r.removed \intersect r.ifaces = {}
      /\ (r.added # {} \/ r.removed # {} \/ r.pendingProp) => r.scheduled
  BY <1>1 DEF Consistent
<1>6. ASSUME NEW m \in Name
      PROVE  /\ m \in r.added => r.told[m] = Absent
             /\ m \in r.ifaces \ r.added => r.told[m] = Value(r, m)
             /\ m \notin r.ifaces \union r.removed => r.told[m] = Absent
  BY <1>1, <1>2, <1>3, <1>4 DEF Consistent
<1>7. Consistent(r)
  BY <1>1, <1>5, <1>6 DEF Consistent
<1> QED
  BY <1>7 DEF r

\* After process_changes clients have an attached object's content right.
LEMMA ProcessChangesTells ==
    ASSUME NEW o \in ObjectType, Consistent(o), attached
    PROVE  LET r == ProcessChanges(o) IN
           /\ r.reg = o.reg /\ r.parent = o.parent /\ r.val = o.val
           /\ r.ifaces = o.ifaces /\ r.added = {} /\ r.removed = {}
           /\ r.dirty = {} /\ r.pendingProp = FALSE /\ r.scheduled = FALSE
           /\ r.told = Content(o) /\ Content(r) = Content(o)
           /\ Consistent(r)
<1> DEFINE o0 == [o EXCEPT !.scheduled = FALSE]
           o1 == EmitAdded(o0)
           o2 == SendAllChanged(o1)
           o3 == EmitRemoved(o2)
<1>0. o3 = ProcessChanges(o)
  BY DEF ProcessChanges
<1>1. /\ o0 \in ObjectType
      /\ o0.reg = o.reg /\ o0.parent = o.parent /\ o0.val = o.val
      /\ o0.ifaces = o.ifaces /\ o0.added = o.added /\ o0.removed = o.removed
      /\ o0.dirty = o.dirty /\ o0.pendingProp = o.pendingProp
      /\ o0.scheduled = FALSE /\ o0.told = o.told
  BY DEF ObjectType
<1> HIDE DEF o0
<1>2. /\ o1 \in ObjectType
      /\ o1.reg = o.reg /\ o1.parent = o.parent /\ o1.val = o.val
      /\ o1.ifaces = o.ifaces /\ o1.added = {} /\ o1.removed = o.removed
      /\ o1.dirty = o.dirty /\ o1.pendingProp = o.pendingProp
      /\ o1.scheduled = FALSE /\ o1.told = HearsAdded(o0, o.added)
  <2>1. HearsAdded(o0, o0.added) \in Row
    BY <1>1, HearsType
  <2> QED
    BY <1>1, <2>1 DEF EmitAdded, ObjectType
<1> HIDE DEF o1
<1>3. /\ o2 \in ObjectType
      /\ o2.reg = o.reg /\ o2.parent = o.parent /\ o2.val = o.val
      /\ o2.ifaces = o.ifaces /\ o2.added = {} /\ o2.removed = o.removed
      /\ o2.dirty = {} /\ o2.pendingProp = FALSE /\ o2.scheduled = FALSE
      /\ o2.told = IF o.pendingProp THEN HearsChanged(o1, o.dirty)
                   ELSE o1.told
  <2>1. HearsChanged(o1, o1.dirty) \in Row
    BY <1>2, HearsType
  <2>2. ~o.pendingProp => o.dirty = {}
    BY DEF Consistent
  <2>3. o.pendingProp \in BOOLEAN
    BY DEF ObjectType
  <2> QED
    BY <1>2, <2>1, <2>2, <2>3 DEF SendAllChanged, ObjectType
<1> HIDE DEF o2
<1>4. /\ o3 \in ObjectType
      /\ o3.reg = o.reg /\ o3.parent = o.parent /\ o3.val = o.val
      /\ o3.ifaces = o.ifaces /\ o3.added = {} /\ o3.removed = {}
      /\ o3.dirty = {} /\ o3.pendingProp = FALSE /\ o3.scheduled = FALSE
      /\ o3.told = HearsRemoved(o2, o.removed)
  <2>1. HearsRemoved(o2, o2.removed) \in Row
    BY <1>3, HearsType
  <2> QED
    BY <1>3, <2>1 DEF EmitRemoved, ObjectType
<1> HIDE DEF o3
<1>5. \A m \in Name :
         /\ Value(o0, m) = Value(o, m) /\ Value(o1, m) = Value(o, m)
         /\ Value(o3, m) = Value(o, m)
  BY <1>1, <1>2, <1>4 DEF Value
<1>6. ASSUME NEW m \in Name
      PROVE  o3.told[m] = Content(o)[m]
  <2>1. o1.told[m] = IF m \in o.added THEN Value(o, m) ELSE o.told[m]
    BY <1>1, <1>2, <1>5 DEF HearsAdded
  <2>2. o2.told[m] = IF m \in o.dirty THEN Value(o, m) ELSE o1.told[m]
    BY <1>2, <1>3, <1>5, <2>1 DEF HearsChanged, Consistent
  <2>3. o3.told[m] = IF m \in o.removed THEN Absent ELSE o2.told[m]
    BY <1>4 DEF HearsRemoved
  <2> QED
    BY <2>1, <2>2, <2>3 DEF Consistent, Content
<1>7. o3.told = Content(o)
  BY <1>4, <1>6 DEF HearsRemoved, Content
<1>8. Content(o3) = Content(o)
  BY <1>4, <1>5 DEF Content
<1>9. Consistent(o3)
  <2>1. \A m \in Name :
          o3.told[m] = IF m \in o3.ifaces THEN Value(o3, m) ELSE Absent
    BY <1>4, <1>5, <1>6 DEF Content
  <2> QED
    BY <1>4, <2>1 DEF Consistent
<1> QED
  BY <1>0, <1>4, <1>7, <1>8, <1>9

\* With nothing scheduled, consistency says that clients have it right.
LEMMA QuietTells ==
    ASSUME NEW o \in ObjectType, Consistent(o), ~o.scheduled
    PROVE  o.told = Content(o)
<1>1. o.added = {} /\ o.removed = {} /\ o.dirty = {}
  BY DEF Consistent
<1>2. \A n \in Name : o.told[n] = Content(o)[n]
  BY <1>1 DEF Consistent, Content
<1>3. o.told \in Row
  BY DEF ObjectType
<1> QED
  BY <1>2, <1>3 DEF Row, Content

-----------------------------------------------------------------------------
(* The tree. *)

LEMMA NearestType ==
    ASSUME TypeOK, NEW q \in Path, NEW R \in SUBSET Path
    PROVE  /\ Nearest(q, R) \in Node \union {None}
           /\ managers > 0 => Nearest(q, R) # None
<1> DEFINE A == Above[q] \intersect R
<1>1. A # {} => \E a \in A : A \ {a} \subseteq Above[a]
  <2>1. \A S \in SUBSET Above[q] :
           S # {} => \E a \in S : S \ {a} \subseteq Above[a]
    BY PathAssumption
  <2>2. A \in SUBSET Above[q]
    OBVIOUS
  <2> HIDE DEF A
  <2> QED
    BY <2>1, <2>2
<1>2. A \subseteq Path
  OBVIOUS
<1>3. CASE A # {}
  <2>1. Nearest(q, R) \in A
    BY <1>1, <1>3 DEF Nearest
  <2> QED
    BY <1>2, <2>1, PathAssumption DEF Node
<1>4. CASE A = {}
  BY <1>4, PathAssumption DEF Nearest, Node
<1> QED
  BY <1>3, <1>4

LEMMA ParentAfterType ==
    ASSUME TypeOK, NEW p \in Path, NEW q \in Path, NEW R \in SUBSET Path
    PROVE  /\ ParentAfter(p, R, q) \in Node \union {None}
           /\ obj[q].parent # None => ParentAfter(p, R, q) # None
<1>1. obj[q].parent \in Node \union {None}
  BY DEF TypeOK, ObjectType
<1> QED
  BY <1>1, NearestType DEF ParentAfter, Relinked

LEMMA ChildrenAfterType ==
    ASSUME TypeOK, NEW p \in Path, NEW R \in SUBSET Path
    PROVE  /\ ChildrenAfter(p, R) \in [Node -> SUBSET Path]
           /\ \A a \in Node : ChildrenAfter(p, R)[a] \subseteq children[a] \union R
BY DEF TypeOK, ChildrenAfter, Relinked

\* A new parent changes nothing else.
LEMMA NewParent ==
    ASSUME NEW o \in ObjectType, NEW x \in Node \union {None}
    PROVE  LET r == [o EXCEPT !.parent = x] IN
           /\ r \in ObjectType
           /\ r.reg = o.reg /\ r.ifaces = o.ifaces /\ r.scheduled = o.scheduled
           /\ r.removed = o.removed
           /\ r.told = o.told /\ r.parent = x /\ Content(r) = Content(o)
           /\ Consistent(o) => Consistent(r)
<1> DEFINE r == [o EXCEPT !.parent = x]
<1>1. /\ r \in ObjectType
      /\ r.reg = o.reg /\ r.ifaces = o.ifaces /\ r.val = o.val
      /\ r.added = o.added /\ r.removed = o.removed /\ r.dirty = o.dirty
      /\ r.pendingProp = o.pendingProp /\ r.scheduled = o.scheduled
      /\ r.told = o.told /\ r.parent = x
  BY DEF ObjectType
<1> HIDE DEF r
<1>2. \A n \in Name : Value(r, n) = Value(o, n)
  BY <1>1 DEF Value
<1>3. Content(r) = Content(o)
  BY <1>1, <1>2 DEF Content
<1>4. Consistent(o) => Consistent(r)
  BY <1>1, <1>2 DEF Consistent
<1> QED
  BY <1>1, <1>3, <1>4 DEF r

-----------------------------------------------------------------------------
(* Types, whatever the service does. *)

\* What is registered may have work to do and interfaces; nothing else does.
Placed(o) == (o.scheduled \/ o.ifaces # {}) => o.reg

TypeInv == TypeOK /\ \A p \in Path : Placed(obj[p])

LEMMA TypeInvTyped ==
    ASSUME TypeInv, NEW p \in Path
    PROVE  /\ Typed(obj[p])
           /\ obj[p].scheduled => obj[p].reg
           /\ obj[p].ifaces # {} => obj[p].reg
BY DEF TypeInv, TypeOK, Typed, Placed

\* It suffices to look at each object.
LEMMA TypeInvIntro ==
    ASSUME TypeInv,
           obj' \in [Path -> ObjectType],
           \A p \in Path : Typed(obj'[p]) /\ Placed(obj'[p]),
           children' \in [Node -> SUBSET Path],
           attached' \in BOOLEAN, managers' \in 0..MaxManagers,
           dangling' \in BOOLEAN
    PROVE  TypeInv'
BY DEF TypeInv, TypeOK, Typed, Placed

LEMMA UnregisteredType ==
    ASSUME NEW v \in [Iface -> Val], NEW t \in Row
    PROVE  Typed(Unregistered(v, t)) /\ Placed(Unregistered(v, t))
BY DEF Unregistered, ObjectType, Typed, Placed

\* The object that Register leaves at p.
NewObject(p, i) ==
    LET R == Registered \union {p}
        o0 == IF ~obj[p].reg
              THEN AddInterface([obj[p] EXCEPT !.reg = TRUE,
                                               !.parent = ParentAfter(p, R, p)],
                                Introspectable)
              ELSE obj[p]
        o1 == AddInterface(o0, i)
    IN  IF i \in WithProps /\ Properties \notin o1.ifaces
        THEN AddInterface(o1, Properties) ELSE o1

LEMMA RegisterEffect ==
    ASSUME NEW p \in Path, NEW i \in Iface, Register(p, i)
    PROVE  LET R == Registered \union {p} IN
           /\ obj' = [q \in Path |->
                 IF q = p THEN NewObject(p, i)
                 ELSE IF ~obj[p].reg
                 THEN [obj[q] EXCEPT !.parent = ParentAfter(p, R, q)]
                 ELSE obj[q]]
           /\ children' = IF ~obj[p].reg THEN ChildrenAfter(p, R) ELSE children
           /\ UNCHANGED <<attached, managers, dangling>>
           /\ ~dangling /\ i \notin obj[p].ifaces
           /\ "managed" \in Rules => attached
           /\ "noReadd" \in Rules => i \notin obj[p].removed
BY DEF Register, NewObject

LEMMA NewObjectType ==
    ASSUME TypeInv, NEW p \in Path, NEW i \in Iface
    PROVE  Typed(NewObject(p, i)) /\ NewObject(p, i).reg
<1> DEFINE R == Registered \union {p}
           n0 == [obj[p] EXCEPT !.reg = TRUE, !.parent = ParentAfter(p, R, p)]
           o0 == IF ~obj[p].reg THEN AddInterface(n0, Introspectable)
                 ELSE obj[p]
           o1 == AddInterface(o0, i)
           o2 == IF i \in WithProps /\ Properties \notin o1.ifaces
                 THEN AddInterface(o1, Properties) ELSE o1
<1>0. NewObject(p, i) = o2
  BY DEF NewObject
<1>1. R \in SUBSET Path
  BY DEF Registered
<1>2. Typed(n0) /\ n0.reg
  <2>1. ParentAfter(p, R, p) \in Node \union {None}
    BY <1>1, ParentAfterType DEF TypeInv
  <2> HIDE DEF R
  <2> QED
    BY <2>1, TypeInvTyped DEF Typed, ObjectType
<1> HIDE DEF n0
<1>3. Typed(o0) /\ o0.reg
  BY <1>2, TypeInvTyped, AddInterfaceType DEF Name, Standard, Typed, ObjectType
<1> HIDE DEF o0
<1>4. Typed(o1) /\ o1.reg
  BY <1>3, AddInterfaceType DEF Name
<1> HIDE DEF o1
<1>5. Typed(o2) /\ o2.reg
  BY <1>4, AddInterfaceType DEF Name, Standard
<1> QED
  BY <1>0, <1>5

\* An object keeps its parent; a new one has what Register finds for it.
LEMMA NewObjectParent ==
    ASSUME TypeInv, NEW p \in Path, NEW i \in Iface
    PROVE  NewObject(p, i).parent =
              IF obj[p].reg THEN obj[p].parent
              ELSE ParentAfter(p, Registered \union {p}, p)
<1> DEFINE R == Registered \union {p}
           n0 == [obj[p] EXCEPT !.reg = TRUE, !.parent = ParentAfter(p, R, p)]
           o0 == IF ~obj[p].reg THEN AddInterface(n0, Introspectable)
                 ELSE obj[p]
           o1 == AddInterface(o0, i)
           o2 == IF i \in WithProps /\ Properties \notin o1.ifaces
                 THEN AddInterface(o1, Properties) ELSE o1
<1>0. NewObject(p, i) = o2
  BY DEF NewObject
<1>1. R \in SUBSET Path
  BY DEF Registered
<1>2. Typed(n0) /\ n0.parent = ParentAfter(p, R, p)
  <2>1. ParentAfter(p, R, p) \in Node \union {None}
    BY <1>1, ParentAfterType DEF TypeInv
  <2> HIDE DEF R
  <2> QED
    BY <2>1, TypeInvTyped DEF Typed, ObjectType
<1> HIDE DEF n0
<1>3. /\ Typed(o0)
      /\ o0.parent = IF obj[p].reg THEN obj[p].parent ELSE ParentAfter(p, R, p)
  BY <1>2, TypeInvTyped, AddInterfaceType DEF Name, Standard, Typed, ObjectType
<1> HIDE DEF o0
<1>4. Typed(o1) /\ o1.parent = o0.parent
  BY <1>3, AddInterfaceType DEF Name
<1> HIDE DEF o1
<1>5. o2.parent = o0.parent
  BY <1>4, AddInterfaceType DEF Name, Standard
<1> QED
  BY <1>0, <1>3, <1>5

LEMMA RegisterType ==
    ASSUME TypeInv, NEW p \in Path, NEW i \in Iface, Register(p, i)
    PROVE  TypeInv'
<1> DEFINE R == Registered \union {p}
           Other(q) == IF ~obj[p].reg
                       THEN [obj[q] EXCEPT !.parent = ParentAfter(p, R, q)]
                       ELSE obj[q]
<1>1. R \in SUBSET Path
  BY DEF Registered
<1>2. obj' = [q \in Path |-> IF q = p THEN NewObject(p, i) ELSE Other(q)]
  BY RegisterEffect
<1>3. ASSUME NEW q \in Path
      PROVE  Typed(Other(q)) /\ Placed(Other(q))
  <2>1. ParentAfter(p, R, q) \in Node \union {None}
    BY <1>1, ParentAfterType DEF TypeInv
  <2> HIDE DEF R
  <2> QED
    BY <2>1, TypeInvTyped DEF Typed, ObjectType, Placed
<1>4. /\ children' \in [Node -> SUBSET Path]
      /\ UNCHANGED <<attached, managers, dangling>>
  <2>1. /\ children' = IF ~obj[p].reg THEN ChildrenAfter(p, R) ELSE children
        /\ UNCHANGED <<attached, managers, dangling>>
    BY RegisterEffect
  <2>2. ChildrenAfter(p, R) \in [Node -> SUBSET Path]
    BY <1>1, ChildrenAfterType DEF TypeInv
  <2> QED
    BY <2>1, <2>2 DEF TypeInv, TypeOK
<1> HIDE DEF Other
<1>5. \A q \in Path : Typed(obj'[q]) /\ Placed(obj'[q])
  BY <1>2, <1>3, NewObjectType DEF Placed
<1>6. obj' \in [Path -> ObjectType]
  BY <1>2, <1>3, NewObjectType DEF Typed
<1> QED
  BY <1>4, <1>5, <1>6, TypeInvIntro DEF TypeInv, TypeOK

\* An object that Unregister takes an interface from, first with the object
\* staying, then on its way out.
Bare(p, i) ==
    RemoveInterface(RemoveInterface(RemoveInterface(obj[p], i),
                                    Introspectable), Properties)
Last(p, i) ==
    IF Bare(p, i).scheduled THEN ProcessChanges(Bare(p, i)) ELSE Bare(p, i)

LEMMA BareType ==
    ASSUME TypeInv, NEW p \in Path, NEW i \in Iface
    PROVE  /\ Typed(RemoveInterface(obj[p], i))
           /\ RemoveInterface(obj[p], i).reg = obj[p].reg
           /\ Typed(Bare(p, i)) /\ Typed(Last(p, i))
<1>1. /\ Typed(RemoveInterface(obj[p], i))
      /\ RemoveInterface(obj[p], i).reg = obj[p].reg
  BY TypeInvTyped, RemoveInterfaceType DEF Name
<1>2. Introspectable \in Name /\ Properties \in Name
  BY DEF Name, Standard
<1>3. Typed(Bare(p, i))
  BY <1>1, <1>2, RemoveInterfaceType DEF Bare
<1> QED
  BY <1>1, <1>3, ProcessChangesType DEF Last

LEMMA DestroyType ==
    ASSUME TypeInv, NEW p \in Path, NEW o, Typed(o), Destroy(p, o),
           UNCHANGED <<attached, managers>>
    PROVE  TypeInv'
<1> DEFINE up == ParentAfter(p, Registered, p)
           C == ChildrenAfter(p, Registered)
           last == IF o.scheduled THEN ProcessChanges(o) ELSE o
           Other(q) == IF q \in C[p] THEN [obj[q] EXCEPT !.parent = up]
                       ELSE [obj[q] EXCEPT
                                !.parent = ParentAfter(p, Registered, q)]
           objs == [q \in Path |-> IF q = p THEN Unregistered(o.val, last.told)
                                   ELSE Other(q)]
           lists == [a \in Node |-> IF a = p THEN {}
                                    ELSE IF a = up THEN C[a] \ {p} ELSE C[a]]
<1>1. Registered \in SUBSET Path
  BY DEF Registered
<1>2. obj' = objs /\ children' = lists /\ dangling' = RefersTo(p, lists, objs)
  BY DEF Destroy
<1>3. Typed(last)
  BY ProcessChangesType
<1>4. /\ Typed(Unregistered(o.val, last.told))
      /\ Placed(Unregistered(o.val, last.told))
  BY <1>3, UnregisteredType DEF Typed, ObjectType
<1>5. ASSUME NEW q \in Path
      PROVE  Typed(Other(q)) /\ Placed(Other(q))
  <2>1. up \in Node \union {None}
    BY <1>1, ParentAfterType DEF TypeInv
  <2>2. ParentAfter(p, Registered, q) \in Node \union {None}
    BY <1>1, ParentAfterType DEF TypeInv
  <2> HIDE DEF C, up
  <2> QED
    BY <2>1, <2>2, TypeInvTyped DEF Typed, ObjectType, Placed
<1>6. C \in [Node -> SUBSET Path]
  BY <1>1, ChildrenAfterType DEF TypeInv
<1> HIDE DEF Other, last, C, up
<1>7. children' \in [Node -> SUBSET Path]
  BY <1>2, <1>6
<1>8. dangling' \in BOOLEAN
  BY <1>2 DEF RefersTo
<1>9. \A q \in Path : Typed(obj'[q]) /\ Placed(obj'[q])
  BY <1>2, <1>4, <1>5
<1>10. obj' \in [Path -> ObjectType]
  BY <1>2, <1>4, <1>5 DEF Typed
<1> QED
  BY <1>7, <1>8, <1>9, <1>10, TypeInvIntro DEF TypeInv, TypeOK

LEMMA UnregisterType ==
    ASSUME TypeInv, NEW p \in Path, NEW i \in Iface, Unregister(p, i)
    PROVE  TypeInv'
<1> DEFINE o == RemoveInterface(obj[p], i)
<1>1. CASE o.ifaces \intersect Iface # {}
  <2>1. obj' = [obj EXCEPT ![p] = o]
        /\ UNCHANGED <<children, attached, managers, dangling>>
    BY <1>1 DEF Unregister
  <2>2. Typed(o) /\ o.reg = obj[p].reg
    BY BareType
  <2>3. obj[p].reg
    BY TypeInvTyped DEF Unregister
  <2> HIDE DEF o
  <2>4. \A q \in Path : Typed(obj'[q]) /\ Placed(obj'[q])
    BY <2>1, <2>2, <2>3, TypeInvTyped DEF TypeInv, TypeOK, Placed
  <2>5. obj' \in [Path -> ObjectType]
    BY <2>1, <2>2 DEF TypeInv, TypeOK, Typed
  <2> QED
    BY <2>1, <2>4, <2>5, TypeInvIntro DEF TypeInv, TypeOK
<1>2. CASE o.ifaces \intersect Iface = {}
  <2>1. Destroy(p, Bare(p, i)) /\ UNCHANGED <<attached, managers>>
    BY <1>2 DEF Unregister, Bare
  <2> QED
    BY <2>1, BareType, DestroyType
<1> QED
  BY <1>1, <1>2

LEMMA ChangePropertyType ==
    ASSUME TypeInv, NEW p \in Path, NEW i \in Iface, NEW v \in Val,
           ChangeProperty(p, i, v)
    PROVE  TypeInv'
<1> DEFINE o == [obj[p] EXCEPT !.val[i] = v]
           d == [o EXCEPT !.pendingProp = TRUE, !.dirty = @ \union {i}]
           r == IF \/ attached /\ i \in o.added
                   \/ i \in o.dirty
                THEN o ELSE AddPending(d)
<1>1. /\ obj' = [obj EXCEPT ![p] = r]
      /\ UNCHANGED <<children, attached, managers, dangling>>
      /\ i \in obj[p].ifaces
  BY DEF ChangeProperty
<1>2. Typed(o) /\ o.reg = obj[p].reg
  BY TypeInvTyped DEF Typed, ObjectType
<1> HIDE DEF o
<1>3. Typed(d) /\ d.reg = o.reg
  BY <1>2 DEF Typed, ObjectType
<1> HIDE DEF d
<1>4. Typed(r) /\ r.reg
  BY <1>1, <1>2, <1>3, AddPendingType, TypeInvTyped
<1> HIDE DEF r
<1>5. \A q \in Path : Typed(obj'[q]) /\ Placed(obj'[q])
  BY <1>1, <1>4, TypeInvTyped DEF TypeInv, TypeOK, Placed
<1>6. obj' \in [Path -> ObjectType]
  BY <1>1, <1>4 DEF TypeInv, TypeOK, Typed
<1> QED
  BY <1>1, <1>5, <1>6, TypeInvIntro DEF TypeInv, TypeOK

LEMMA ProcessType ==
    ASSUME TypeInv, NEW p \in Path, obj[p].scheduled
    PROVE  Typed(ProcessChanges(obj[p])) /\ Placed(ProcessChanges(obj[p]))
<1>1. Typed(obj[p]) /\ obj[p].reg
  BY TypeInvTyped DEF Typed
<1> QED
  BY <1>1, ProcessChangesType DEF Placed

LEMMA IdleType ==
    ASSUME TypeInv, NEW p \in Path, Idle(p)
    PROVE  TypeInv'
<1>1. /\ obj' = [obj EXCEPT ![p] = ProcessChanges(obj[p])]
      /\ UNCHANGED <<children, attached, managers, dangling>>
      /\ obj[p].scheduled
  BY DEF Idle
<1>2. Typed(ProcessChanges(obj[p])) /\ Placed(ProcessChanges(obj[p]))
  BY <1>1, ProcessType
<1>3. \A q \in Path : Typed(obj'[q]) /\ Placed(obj'[q])
  BY <1>1, <1>2, TypeInvTyped DEF TypeInv, TypeOK, Placed
<1>4. obj' \in [Path -> ObjectType]
  BY <1>1, <1>2 DEF TypeInv, TypeOK, Typed
<1> QED
  BY <1>1, <1>3, <1>4, TypeInvIntro DEF TypeInv, TypeOK

LEMMA FlushType ==
    ASSUME TypeInv, Flush
    PROVE  TypeInv'
<1>1. /\ obj' = [q \in Path |-> IF obj[q].scheduled THEN ProcessChanges(obj[q])
                                ELSE obj[q]]
      /\ UNCHANGED <<children, attached, managers, dangling>>
  BY DEF Flush
<1>2. \A q \in Path : Typed(obj'[q]) /\ Placed(obj'[q])
  BY <1>1, ProcessType, TypeInvTyped DEF Placed
<1>3. obj' \in [Path -> ObjectType]
  BY <1>1, <1>2 DEF Typed
<1> QED
  BY <1>1, <1>2, <1>3, TypeInvIntro DEF TypeInv, TypeOK

LEMMA AttachType ==
    ASSUME TypeInv, Attach
    PROVE  TypeInv'
BY BoundAssumption DEF TypeInv, TypeOK, Placed, Attach

LEMMA DetachType ==
    ASSUME TypeInv, Detach
    PROVE  TypeInv'
<1> DEFINE Other(q) == IF q \in children[Root]
                       THEN [obj[q] EXCEPT !.parent = None] ELSE obj[q]
           objs == [q \in Path |-> Other(q)]
<1>1. /\ managers > 0 /\ managers' = managers - 1 /\ attached' = FALSE
      /\ \/ /\ obj' = objs
            /\ children' = [children EXCEPT ![Root] = {}]
            /\ dangling' = RefersTo(Root, children', objs)
         \/ UNCHANGED <<obj, children, dangling>>
  BY DEF Detach
<1>2. ASSUME NEW q \in Path
      PROVE  Typed(Other(q)) /\ Placed(Other(q))
  BY TypeInvTyped DEF Typed, ObjectType, Placed
<1> HIDE DEF Other
<1>3. \A q \in Path : Typed(obj'[q]) /\ Placed(obj'[q])
  BY <1>1, <1>2, TypeInvTyped DEF Placed
<1>4. obj' \in [Path -> ObjectType]
  BY <1>1, <1>2 DEF Typed, TypeInv, TypeOK
<1>5. managers' \in 0..MaxManagers
  BY <1>1, BoundAssumption DEF TypeInv, TypeOK
<1>6. children' \in [Node -> SUBSET Path] /\ dangling' \in BOOLEAN
  BY <1>1 DEF TypeInv, TypeOK, RefersTo
<1> QED
  BY <1>1, <1>3, <1>4, <1>5, <1>6, TypeInvIntro DEF TypeInv, TypeOK

LEMMA TypeInvInit == Init => TypeInv
<1> SUFFICES ASSUME Init PROVE TypeInv
  OBVIOUS
<1>1. Nothing \in Row
  BY DEF Nothing, Row
<1>2. PICK values \in [Iface -> Val] :
         obj = [p \in Path |-> Unregistered(values, Nothing)]
  BY DEF Init
<1> DEFINE o == Unregistered(values, Nothing)
<1>3. Typed(o) /\ Placed(o)
  BY <1>1, UnregisteredType
<1> HIDE DEF o
<1>4. obj = [p \in Path |-> o]
  BY <1>2 DEF o
<1>5. TypeOK
  <2>1. obj \in [Path -> ObjectType]
    BY <1>3, <1>4 DEF Typed
  <2>2. children \in [Node -> SUBSET Path] /\ managers \in 0..MaxManagers
    BY BoundAssumption DEF Init
  <2> QED
    BY <2>1, <2>2 DEF Init, TypeOK
<1>6. \A p \in Path : Placed(obj[p])
  BY <1>3, <1>4
<1> QED
  BY <1>5, <1>6 DEF TypeInv

LEMMA TypeInvStep == TypeInv /\ [Next]_vars => TypeInv'
<1> SUFFICES ASSUME TypeInv, [Next]_vars PROVE TypeInv'
  OBVIOUS
<1>1. ASSUME NEW p \in Path, NEW i \in Iface, Register(p, i)
      PROVE  TypeInv'
  BY <1>1, RegisterType
<1>2. ASSUME NEW p \in Path, NEW i \in Iface, Unregister(p, i)
      PROVE  TypeInv'
  BY <1>2, UnregisterType
<1>3. ASSUME NEW p \in Path, NEW i \in Iface, NEW v \in Val,
             ChangeProperty(p, i, v)
      PROVE  TypeInv'
  BY <1>3, ChangePropertyType
<1>4. ASSUME NEW p \in Path, Idle(p)
      PROVE  TypeInv'
  BY <1>4, IdleType
<1>5. CASE UNCHANGED vars
  BY <1>5 DEF vars, TypeInv, TypeOK, Placed
<1> QED
  BY <1>1, <1>2, <1>3, <1>4, <1>5, FlushType, AttachType, DetachType DEF Next

\* Every variable keeps its type, for any service.
THEOREM TypeCorrect == Spec => []TypeOK
<1> QED
  BY TypeInvInit, TypeInvStep, PTL DEF Spec, TypeInv

-----------------------------------------------------------------------------
(* A service that observes three of the rules keeps what the ObjectManager *)
(* promises: clients agree with the objects whenever nothing is left to    *)
(* send, and are told nothing untrue on the way.  The argument is the      *)
(* invariant Bookkeeping; each lemma on a step shows that the step keeps   *)
(* it and is honest to the clients.                                        *)

Observed == {"managed", "noReadd", "quietRemove"} \subseteq Rules

Inv == TypeInv /\ Bookkeeping

\* What a step may do to a client's image of p: the abstract specification's
\* Truthful in terms of obj.
Honest(p) ==
    \A n \in Name :
        \/ obj'[p].told[n] \in {obj[p].told[n], Content(obj'[p])[n]}
        \/ /\ Content(obj'[p])[n] = Absent
           /\ obj'[p].told[n] = Content(obj[p])[n]

\* Bookkeeping's part about one object.
Kept(o, isAttached) ==
    /\ Consistent(o)
    /\ o.removed \subseteq Iface
    /\ o.reg => isAttached /\ o.parent # None
    /\ ~o.reg => o.ifaces = {} /\ ~o.scheduled

LEMMA InvKept ==
    ASSUME Inv, NEW p \in Path
    PROVE  obj[p] \in ObjectType /\ Kept(obj[p], attached)
BY DEF Inv, TypeInv, TypeOK, Bookkeeping, Kept

LEMMA InvIntro ==
    ASSUME TypeInv',
           attached' => managers' > 0,
           \A p \in Path : Kept(obj'[p], attached'),
           ~dangling' => \A a \in Node : children'[a] \subseteq Registered'
    PROVE  Inv'
BY DEF Inv, Bookkeeping, Kept

LEMMA UnchangedHonest ==
    ASSUME NEW p \in Path, obj'[p].told = obj[p].told
    PROVE  Honest(p)
BY DEF Honest

\* A new parent changes nothing else.
LEMMA NewParentKept ==
    ASSUME NEW o \in ObjectType, NEW x \in Node \union {None},
           NEW isAttached \in BOOLEAN, Kept(o, isAttached),
           o.reg => x # None
    PROVE  LET r == [o EXCEPT !.parent = x] IN
           r.reg = o.reg /\ r.told = o.told /\ Kept(r, isAttached)
BY NewParent DEF Kept

-----------------------------------------------------------------------------
(* Steps that send signals. *)

LEMMA ProcessKept ==
    ASSUME Inv, NEW p \in Path, obj[p].scheduled
    PROVE  LET r == ProcessChanges(obj[p]) IN
           /\ Kept(r, attached)
           /\ r.told = Content(r) /\ r.reg = obj[p].reg
<1>1. obj[p] \in ObjectType /\ Kept(obj[p], attached) /\ obj[p].reg /\ attached
  BY InvKept DEF Kept
<1> QED
  BY <1>1, ProcessChangesTells DEF Kept

LEMMA IdleStep ==
    ASSUME Inv, NEW p \in Path, Idle(p), TypeInv'
    PROVE  Inv' /\ \A q \in Path : Honest(q)
<1> DEFINE r == ProcessChanges(obj[p])
<1>1. Kept(r, attached) /\ r.told = Content(r) /\ r.reg = obj[p].reg
  BY ProcessKept DEF Idle
<1>2. /\ obj' = [obj EXCEPT ![p] = r]
      /\ UNCHANGED <<children, attached, managers, dangling>>
  BY DEF Idle
<1> HIDE DEF r
<1>3. ASSUME NEW q \in Path
      PROVE  /\ Kept(obj'[q], attached) /\ obj'[q].reg = obj[q].reg
             /\ obj'[q].told = obj[q].told \/ obj'[q].told = Content(obj'[q])
  BY <1>1, <1>2, InvKept DEF Inv, TypeInv, TypeOK
<1>4. Registered' = Registered
  BY <1>3 DEF Registered
<1>5. Inv'
  BY <1>2, <1>3, <1>4, InvIntro DEF Inv, Bookkeeping
<1>6. \A q \in Path : Honest(q)
  BY <1>3 DEF Honest
<1> QED
  BY <1>5, <1>6

LEMMA FlushStep ==
    ASSUME Inv, Flush, TypeInv'
    PROVE  Inv' /\ \A q \in Path : Honest(q)
<1>1. /\ obj' = [q \in Path |-> IF obj[q].scheduled THEN ProcessChanges(obj[q])
                                ELSE obj[q]]
      /\ UNCHANGED <<children, attached, managers, dangling>>
  BY DEF Flush
<1>2. ASSUME NEW q \in Path
      PROVE  /\ Kept(obj'[q], attached) /\ obj'[q].reg = obj[q].reg
             /\ obj'[q].told = obj[q].told \/ obj'[q].told = Content(obj'[q])
  <2>1. CASE obj[q].scheduled
    <3>1. obj'[q] = ProcessChanges(obj[q])
      BY <1>1, <2>1
    <3> QED
      BY <2>1, <3>1, ProcessKept
  <2>2. CASE ~obj[q].scheduled
    BY <1>1, <2>2, InvKept
  <2> QED
    BY <2>1, <2>2
<1>3. Registered' = Registered
  BY <1>2 DEF Registered
<1>4. Inv'
  BY <1>1, <1>2, <1>3, InvIntro DEF Inv, Bookkeeping
<1>5. \A q \in Path : Honest(q)
  BY <1>2 DEF Honest
<1> QED
  BY <1>4, <1>5

-----------------------------------------------------------------------------
(* Attaching and detaching the ObjectManager. *)

LEMMA AttachStep ==
    ASSUME Inv, Attach, TypeInv'
    PROVE  Inv' /\ \A q \in Path : Honest(q)
<1>1. /\ managers' = managers + 1 /\ attached' = TRUE
      /\ UNCHANGED <<obj, children, dangling>>
  BY DEF Attach
<1>2. \A q \in Path : Kept(obj'[q], attached')
  BY <1>1, InvKept DEF Kept
<1>3. managers' > 0
  BY <1>1, BoundAssumption DEF Inv, TypeInv, TypeOK
<1>4. Registered' = Registered
  BY <1>1 DEF Registered
<1>5. Inv'
  BY <1>1, <1>2, <1>3, <1>4, InvIntro DEF Inv, Bookkeeping
<1> QED
  BY <1>1, <1>5, UnchangedHonest

LEMMA DetachStep ==
    ASSUME Observed, Inv, Detach, TypeInv'
    PROVE  Inv' /\ \A q \in Path : Honest(q)
<1> DEFINE Other(q) == IF q \in children[Root]
                       THEN [obj[q] EXCEPT !.parent = None] ELSE obj[q]
<1>1. /\ attached' = FALSE /\ Registered = {} /\ ~dangling
      /\ \/ /\ obj' = [q \in Path |-> Other(q)]
            /\ children' = [children EXCEPT ![Root] = {}]
         \/ UNCHANGED <<obj, children>>
  BY DEF Detach, Observed
<1>2. ASSUME NEW q \in Path
      PROVE  Kept(Other(q), FALSE) /\ ~Other(q).reg /\ Other(q).told = obj[q].told
  <2>1. ~obj[q].reg
    BY <1>1 DEF Registered
  <2>2. obj[q] \in ObjectType /\ Kept(obj[q], FALSE)
    BY <2>1, InvKept DEF Kept
  <2> QED
    BY <2>1, <2>2, NewParentKept
<1>3. \A q \in Path : ~obj[q].reg /\ Kept(obj[q], FALSE)
  BY <1>1, InvKept DEF Kept, Registered
<1> HIDE DEF Other
<1>4. ASSUME NEW q \in Path
      PROVE  Kept(obj'[q], FALSE) /\ obj'[q].told = obj[q].told
  BY <1>1, <1>2, <1>3
<1>5. \A a \in Node : children'[a] = {}
  <2>1. \A a \in Node : children[a] = {}
    BY <1>1 DEF Inv, Bookkeeping
  <2> QED
    BY <1>1, <2>1 DEF Inv, TypeInv, TypeOK
<1>6. Inv'
  BY <1>1, <1>4, <1>5, InvIntro
<1> QED
  BY <1>4, <1>6, UnchangedHonest

-----------------------------------------------------------------------------
(* Registering an interface. *)

\* A registered interface is consistent with what it is added to.
LEMMA AddKept ==
    ASSUME NEW o \in ObjectType, Kept(o, attached), o.reg, NEW n \in Name,
           n \notin o.ifaces, n \notin o.removed
    PROVE  LET r == AddInterface(o, n) IN
           /\ Kept(r, attached) /\ r.reg /\ r.told = o.told
           /\ r.ifaces = o.ifaces \union {n} /\ r.removed = o.removed
BY AddInterfaceConsistent, AddInterfaceFields DEF Kept

\* A path that becomes an object is linked to a node right away.
LEMMA FreshParent ==
    ASSUME Inv, NEW p \in Path, ~obj[p].reg, ~dangling, attached
    PROVE  ParentAfter(p, Registered \union {p}, p) # None
<1> DEFINE R == Registered \union {p}
<1>1. R \in SUBSET Path /\ p \in R
  BY DEF Registered
<1>2. managers > 0
  BY DEF Inv, Bookkeeping
<1> HIDE DEF R
<1>3. Nearest(p, R) \in Node /\ Nearest(p, R) # None
  BY <1>1, <1>2, NearestType DEF Inv, TypeInv
<1>4. \A a \in Node : p \notin children[a]
  BY DEF Inv, Bookkeeping, Registered
<1>5. p \in Relinked(p, R)
  BY <1>1, <1>3, <1>4 DEF Relinked
<1> QED
  BY <1>3, <1>5 DEF ParentAfter, R

LEMMA NewObjectKept ==
    ASSUME Inv, NEW p \in Path, NEW i \in Iface, ~dangling, attached,
           i \notin obj[p].ifaces, i \notin obj[p].removed
    PROVE  /\ Kept(NewObject(p, i), attached)
           /\ NewObject(p, i).told = obj[p].told
<1> DEFINE R == Registered \union {p}
           n0 == [obj[p] EXCEPT !.reg = TRUE, !.parent = ParentAfter(p, R, p)]
           o0 == IF ~obj[p].reg THEN AddInterface(n0, Introspectable)
                 ELSE obj[p]
           o1 == AddInterface(o0, i)
           o2 == IF i \in WithProps /\ Properties \notin o1.ifaces
                 THEN AddInterface(o1, Properties) ELSE o1
           \* What holds of the object as the interfaces are added one by one.
           Fine(o) == /\ Typed(o) /\ Kept(o, attached) /\ o.reg
                      /\ o.told = obj[p].told /\ o.removed = obj[p].removed
<1>0. NewObject(p, i) = o2
  BY DEF NewObject
<1>1. /\ Introspectable \in Name /\ Properties \in Name /\ i \in Name
      /\ Introspectable # i /\ Introspectable \notin Iface
      /\ Properties \notin Iface
  BY NameAssumption DEF Name, Standard
<1>2. Typed(obj[p]) /\ Kept(obj[p], attached)
  BY InvKept, TypeInvTyped DEF Inv
<1>3. ASSUME ~obj[p].reg
      PROVE  Fine(o0) /\ i \notin o0.ifaces
  <2>1. obj[p].ifaces = {} /\ obj[p].removed = {} /\ ~obj[p].scheduled
    BY <1>2, <1>3 DEF Kept, Consistent
  <2>2. ParentAfter(p, R, p) \in Node /\ ParentAfter(p, R, p) # None
    <3>1. R \in SUBSET Path
      BY DEF Registered
    <3> QED
      BY <1>3, <3>1, FreshParent, ParentAfterType DEF Inv, TypeInv
  <2>3. Fine(n0) /\ n0.ifaces = {}
    <3> HIDE DEF R
    <3>1. /\ Typed(n0) /\ n0.reg /\ n0.parent # None
          /\ n0.told = obj[p].told /\ n0.ifaces = {} /\ n0.removed = {}
          /\ n0.added = obj[p].added /\ n0.dirty = obj[p].dirty
          /\ n0.pendingProp = obj[p].pendingProp
          /\ n0.scheduled = obj[p].scheduled
      BY <1>2, <2>1, <2>2 DEF Typed, ObjectType
    <3> HIDE DEF n0
    <3>2. Consistent(n0)
      BY <1>2, <2>1, <3>1 DEF Kept, Consistent
    <3> QED
      BY <2>1, <3>1, <3>2 DEF Kept
  <2> HIDE DEF n0
  <2>4. Fine(o0) /\ o0.ifaces = {Introspectable}
    <3>1. o0 = AddInterface(n0, Introspectable)
      BY <1>3
    <3>2. /\ n0 \in ObjectType /\ Kept(n0, attached) /\ n0.reg
          /\ Introspectable \notin n0.ifaces /\ Introspectable \notin n0.removed
      BY <2>1, <2>3 DEF Typed
    <3>3. /\ Kept(o0, attached) /\ o0.told = n0.told
          /\ o0.ifaces = {Introspectable} /\ o0.removed = n0.removed
      BY <1>1, <2>3, <3>1, <3>2, AddKept
    <3>4. Typed(o0) /\ o0.reg
      BY <1>1, <2>3, <3>1, AddInterfaceType
    <3> QED
      BY <2>3, <3>3, <3>4
  <2> QED
    BY <1>1, <2>4
<1>4. Fine(o0) /\ i \notin o0.ifaces
  BY <1>2, <1>3
<1> HIDE DEF o0
<1>5. Fine(o1)
  BY <1>1, <1>4, AddKept, AddInterfaceType DEF Typed
<1> HIDE DEF o1
<1>6. Properties \notin o1.removed
  BY <1>1, <1>5 DEF Kept
<1>7. Fine(o2)
  BY <1>1, <1>5, <1>6, AddKept, AddInterfaceType DEF Typed
<1> QED
  BY <1>0, <1>7

LEMMA RegisterStep ==
    ASSUME Observed, Inv, NEW p \in Path, NEW i \in Iface, Register(p, i),
           TypeInv'
    PROVE  Inv' /\ \A q \in Path : Honest(q)
<1> DEFINE R == Registered \union {p}
           Other(q) == IF ~obj[p].reg
                       THEN [obj[q] EXCEPT !.parent = ParentAfter(p, R, q)]
                       ELSE obj[q]
<1>1. /\ obj' = [q \in Path |-> IF q = p THEN NewObject(p, i) ELSE Other(q)]
      /\ children' = IF ~obj[p].reg THEN ChildrenAfter(p, R) ELSE children
      /\ UNCHANGED <<attached, managers, dangling>>
      /\ ~dangling /\ attached
      /\ i \notin obj[p].ifaces /\ i \notin obj[p].removed
  BY RegisterEffect DEF Observed
<1>2. R \in SUBSET Path
  BY DEF Registered
<1>3. /\ Kept(NewObject(p, i), attached) /\ NewObject(p, i).reg
      /\ NewObject(p, i).told = obj[p].told
  BY <1>1, NewObjectKept, NewObjectType DEF Inv
<1>4. ASSUME NEW q \in Path
      PROVE  /\ Kept(Other(q), attached)
             /\ Other(q).reg = obj[q].reg /\ Other(q).told = obj[q].told
  <2>1. /\ ParentAfter(p, R, q) \in Node \union {None}
        /\ obj[q].parent # None => ParentAfter(p, R, q) # None
    BY <1>2, ParentAfterType DEF Inv, TypeInv
  <2>2. obj[q] \in ObjectType /\ Kept(obj[q], attached)
    BY InvKept
  <2>3. obj[q].reg => ParentAfter(p, R, q) # None
    BY <2>1, <2>2 DEF Kept
  <2>4. attached \in BOOLEAN
    BY DEF Inv, TypeInv, TypeOK
  <2> HIDE DEF R
  <2> QED
    BY <2>1, <2>2, <2>3, <2>4, NewParentKept
<1> HIDE DEF Other
<1>5. ASSUME NEW q \in Path
      PROVE  /\ Kept(obj'[q], attached) /\ obj'[q].told = obj[q].told
             /\ obj[q].reg => obj'[q].reg
  BY <1>1, <1>3, <1>4
<1>6. R \subseteq Registered'
  BY <1>1, <1>3, <1>5 DEF Registered
<1>7. \A a \in Node : children'[a] \subseteq R
  <2>1. \A a \in Node : children[a] \subseteq R
    BY <1>1 DEF Inv, Bookkeeping
  <2>2. \A a \in Node : ChildrenAfter(p, R)[a] \subseteq children[a] \union R
    BY <1>2, ChildrenAfterType DEF Inv, TypeInv
  <2> QED
    BY <1>1, <2>1, <2>2
<1>8. Inv'
  <2>1. \A a \in Node : children'[a] \subseteq Registered'
    BY <1>6, <1>7
  <2> QED
    BY <1>1, <1>5, <2>1, InvIntro DEF Inv, Bookkeeping
<1> QED
  BY <1>5, <1>8, UnchangedHonest

-----------------------------------------------------------------------------
(* Unregistering an interface, and the object with its last one. *)

LEMMA RemoveKept ==
    ASSUME NEW o, Typed(o), Consistent(o), o.parent # None, NEW n \in Name,
           o.dirty \subseteq {n} \intersect o.ifaces
    PROVE  LET r == RemoveInterface(o, n) IN
           /\ Typed(r) /\ r.reg = o.reg /\ Consistent(r) /\ r.parent # None
           /\ r.removed \subseteq o.removed \union {n}
           /\ r.ifaces = o.ifaces \ {n} /\ r.dirty = {}
           /\ r.told = HearsChanged(o, o.dirty)
<1> DEFINE r == RemoveInterface(o, n)
<1>1. o \in ObjectType
  BY DEF Typed
<1>2. Typed(r) /\ r.reg = o.reg
  BY RemoveInterfaceType
<1>3. CASE n \in o.ifaces
  <2>1. o.dirty \subseteq {n}
    OBVIOUS
  <2>2. Consistent(r)
    BY <1>1, <1>3, <2>1, RemoveInterfaceConsistent
  <2> QED
    BY <1>1, <1>2, <1>3, <2>1, <2>2, RemoveInterfaceFields
<1>4. CASE n \notin o.ifaces
  <2>1. r = o /\ o.dirty = {}
    BY <1>4 DEF RemoveInterface
  <2>2. HearsChanged(o, {}) = o.told
    BY <1>1 DEF HearsChanged, ObjectType, Row
  <2> QED
    BY <1>1, <1>2, <1>4, <2>1, <2>2
<1> QED
  BY <1>3, <1>4

\* What an object that Unregister takes an interface from satisfies.
LEMMA Leaving ==
    ASSUME Observed, Inv, NEW p \in Path, NEW i \in Iface, Unregister(p, i)
    PROVE  /\ Typed(obj[p]) /\ Kept(obj[p], attached) /\ obj[p].reg /\ attached
           /\ obj[p].parent # None /\ i \in obj[p].ifaces /\ i \in Name
           /\ obj[p].dirty \subseteq {i} \intersect obj[p].ifaces
<1>1. i \in obj[p].ifaces /\ obj[p].dirty \subseteq {i}
  BY DEF Unregister, Observed
<1>2. Typed(obj[p]) /\ Kept(obj[p], attached) /\ obj[p].reg
  BY <1>1, InvKept, TypeInvTyped DEF Inv
<1> QED
  BY <1>1, <1>2 DEF Kept, Name

\* The object stays: clients may hear of the interface's last value.
LEMMA UnregisterStays ==
    ASSUME Observed, Inv, NEW p \in Path, NEW i \in Iface, Unregister(p, i),
           RemoveInterface(obj[p], i).ifaces \intersect Iface # {}, TypeInv'
    PROVE  Inv' /\ \A q \in Path : Honest(q)
<1> DEFINE o == obj[p]
           r == RemoveInterface(obj[p], i)
<1>1. /\ obj' = [obj EXCEPT ![p] = r]
      /\ UNCHANGED <<children, attached, managers, dangling>>
  BY DEF Unregister
<1>2. /\ Typed(o) /\ Kept(o, attached) /\ o.reg /\ attached /\ o.parent # None
      /\ i \in o.ifaces /\ i \in Name /\ o.dirty \subseteq {i} \intersect o.ifaces
  BY Leaving
<1>3. /\ Typed(r) /\ r.reg = o.reg /\ Consistent(r) /\ r.parent # None
      /\ r.removed \subseteq o.removed \union {i}
      /\ r.ifaces = o.ifaces \ {i} /\ r.told = HearsChanged(o, o.dirty)
  BY <1>2, RemoveKept DEF Kept
<1>4. \A q \in Path : obj'[q] = IF q = p THEN r ELSE obj[q]
  BY <1>1 DEF Inv, TypeInv, TypeOK
<1> HIDE DEF r
<1>5. Kept(r, attached)
  BY <1>2, <1>3 DEF Kept
<1>6. \A q \in Path : Kept(obj'[q], attached) /\ obj'[q].reg = obj[q].reg
  BY <1>2, <1>3, <1>4, <1>5, InvKept
<1>7. Registered' = Registered
  BY <1>6 DEF Registered
<1>8. Inv'
  BY <1>1, <1>6, <1>7, InvIntro DEF Inv, Bookkeeping
<1>9. Honest(p)
  <2>1. obj'[p] = r
    BY <1>4
  <2>2. ASSUME NEW n \in Name, n # i
        PROVE  r.told[n] = o.told[n]
    BY <1>2, <1>3, <2>2 DEF HearsChanged
  <2>3. r.told[i] \in {o.told[i], Content(o)[i]} /\ Content(r)[i] = Absent
    BY <1>2, <1>3 DEF HearsChanged, Content
  <2> QED
    BY <2>1, <2>2, <2>3 DEF Honest
<1>10. ASSUME NEW q \in Path, q # p
       PROVE  Honest(q)
  BY <1>4, <1>10, UnchangedHonest
<1> QED
  BY <1>8, <1>9, <1>10

\* The object goes: by then clients know that nothing is left of it.
LEMMA LastTells ==
    ASSUME Observed, Inv, NEW p \in Path, NEW i \in Iface, Unregister(p, i),
           RemoveInterface(obj[p], i).ifaces \intersect Iface = {}
    PROVE  Last(p, i).told = Nothing
<1> DEFINE o == obj[p]
           r == RemoveInterface(obj[p], i)
           s == RemoveInterface(r, Introspectable)
           t == RemoveInterface(s, Properties)
<1>0. Bare(p, i) = t
  BY DEF Bare
<1>1. /\ Typed(o) /\ Consistent(o) /\ o.parent # None /\ attached /\ i \in Name
      /\ o.dirty \subseteq {i} \intersect o.ifaces
  BY Leaving DEF Kept
<1>2. Introspectable \in Name /\ Properties \in Name
  BY DEF Name, Standard
<1>3. Typed(r) /\ Consistent(r) /\ r.parent # None /\ r.dirty = {}
  BY <1>1, RemoveKept
<1>4. r.ifaces \intersect Iface = {}
  OBVIOUS
<1> HIDE DEF r
<1>5. /\ Typed(s) /\ Consistent(s) /\ s.parent # None /\ s.dirty = {}
      /\ s.ifaces = r.ifaces \ {Introspectable}
  BY <1>2, <1>3, RemoveKept
<1> HIDE DEF s
<1>6. Typed(t) /\ Consistent(t) /\ t.ifaces = s.ifaces \ {Properties}
  BY <1>2, <1>5, RemoveKept
<1> HIDE DEF t
<1>7. t.ifaces = {}
  BY <1>3, <1>4, <1>5, <1>6 DEF Typed, ObjectType, Name, Standard
<1>8. Content(t) = Nothing
  BY <1>7 DEF Content, Nothing
<1>9. CASE t.scheduled
  BY <1>0, <1>1, <1>6, <1>8, <1>9, ProcessChangesTells DEF Last, Typed
<1>10. CASE ~t.scheduled
  BY <1>0, <1>6, <1>8, <1>10, QuietTells DEF Last, Typed
<1> QED
  BY <1>9, <1>10

\* Nothing is left to say of an unregistered object.
LEMMA GoneKept ==
    ASSUME NEW v \in [Iface -> Val], NEW isAttached \in BOOLEAN
    PROVE  LET r == Unregistered(v, Nothing) IN
           /\ Kept(r, isAttached) /\ ~r.reg /\ r.told = Nothing
           /\ Content(r) = Nothing
<1> DEFINE r == Unregistered(v, Nothing)
<1>1. /\ r.reg = FALSE /\ r.ifaces = {} /\ r.added = {} /\ r.removed = {}
      /\ r.dirty = {} /\ r.pendingProp = FALSE /\ r.scheduled = FALSE
      /\ r.told = Nothing
  BY DEF Unregistered
<1> HIDE DEF r
<1>2. Consistent(r)
  BY <1>1 DEF Consistent, Nothing
<1>3. Content(r) = Nothing
  BY <1>1 DEF Content, Nothing
<1>4. Kept(r, isAttached)
  BY <1>1, <1>2 DEF Kept
<1> QED
  BY <1>1, <1>3, <1>4 DEF r

LEMMA UnregisterGoes ==
    ASSUME Observed, Inv, NEW p \in Path, NEW i \in Iface, Unregister(p, i),
           RemoveInterface(obj[p], i).ifaces \intersect Iface = {}, TypeInv'
    PROVE  Inv' /\ \A q \in Path : Honest(q)
<1> DEFINE up == ParentAfter(p, Registered, p)
           C == ChildrenAfter(p, Registered)
           gone == Unregistered(Bare(p, i).val, Last(p, i).told)
           Above1(q) == IF q \in C[p] THEN up ELSE ParentAfter(p, Registered, q)
           objs == [q \in Path |-> IF q = p THEN gone
                                   ELSE [obj[q] EXCEPT !.parent = Above1(q)]]
           lists == [a \in Node |-> IF a = p THEN {}
                                    ELSE IF a = up THEN C[a] \ {p} ELSE C[a]]
<1>1. /\ obj' = objs /\ children' = lists
      /\ dangling' = RefersTo(p, lists, objs)
      /\ UNCHANGED <<attached, managers>> /\ ~dangling
  <2>1. Destroy(p, Bare(p, i)) /\ UNCHANGED <<attached, managers>> /\ ~dangling
    BY DEF Unregister, Bare
  <2>2. /\ obj' = [q \in Path |->
              IF q = p THEN gone
              ELSE IF q \in C[p] THEN [obj[q] EXCEPT !.parent = up]
              ELSE [obj[q] EXCEPT !.parent = ParentAfter(p, Registered, q)]]
        /\ children' = lists
        /\ dangling' = RefersTo(p, lists, obj')
    BY <2>1 DEF Destroy, Last
  <2>3. obj' = objs
    BY <2>2
  <2> QED
    BY <2>1, <2>2, <2>3
<1>2. Registered \in SUBSET Path
  BY DEF Registered
<1>3. obj[p].reg /\ obj[p].parent # None /\ attached \in BOOLEAN
  BY Leaving DEF Inv, TypeInv, TypeOK
<1>4. Kept(gone, attached) /\ ~gone.reg /\ gone.told = Content(gone)
  <2>1. Bare(p, i).val \in [Iface -> Val]
    BY BareType DEF Inv, Typed, ObjectType
  <2> QED
    BY <1>3, <2>1, LastTells, GoneKept
<1>5. up \in Node /\ up # None
  BY <1>2, <1>3, ParentAfterType DEF Inv, TypeInv
<1>6. ASSUME NEW q \in Path
      PROVE  LET r == [obj[q] EXCEPT !.parent = Above1(q)] IN
             r.reg = obj[q].reg /\ r.told = obj[q].told /\ Kept(r, attached)
  <2>1. /\ Above1(q) \in Node \union {None}
        /\ obj[q].parent # None => Above1(q) # None
    BY <1>2, <1>5, ParentAfterType DEF Inv, TypeInv
  <2>2. obj[q] \in ObjectType /\ Kept(obj[q], attached)
    BY InvKept
  <2>3. obj[q].reg => Above1(q) # None
    BY <2>1, <2>2 DEF Kept
  <2> HIDE DEF Above1
  <2> QED
    BY <1>3, <2>1, <2>2, <2>3, NewParentKept
<1>7. \A a \in Node : C[a] \subseteq Registered
  <2>1. \A a \in Node : C[a] \subseteq children[a] \union Registered
    BY <1>2, ChildrenAfterType DEF Inv, TypeInv
  <2> QED
    BY <1>1, <2>1 DEF Inv, Bookkeeping
<1> HIDE DEF gone, Above1, C, up
<1>8. ASSUME NEW q \in Path
      PROVE  /\ Kept(obj'[q], attached)
             /\ q # p => obj'[q].reg = obj[q].reg
             /\ obj'[q].told = obj[q].told \/ obj'[q].told = Content(obj'[q])
  BY <1>1, <1>4, <1>6
<1>9. ~dangling' => \A a \in Node : children'[a] \subseteq Registered'
  <2> SUFFICES ASSUME ~dangling', NEW a \in Node, NEW q \in children'[a]
               PROVE  q \in Path /\ q # p /\ q \in Registered
    BY <1>8 DEF Registered
  <2>1. q \in C[a] /\ q \in Registered
    BY <1>1, <1>7
  <2>2. \A b \in Node \ {p} : p \notin lists[b]
    BY <1>1 DEF RefersTo
  <2>3. p \notin children'[a]
    BY <1>1, <2>2
  <2> QED
    BY <2>1, <2>3, <1>2
<1>10. Inv'
  BY <1>1, <1>8, <1>9, InvIntro DEF Inv, Bookkeeping
<1>11. \A q \in Path : Honest(q)
  BY <1>8 DEF Honest
<1> QED
  BY <1>10, <1>11

LEMMA UnregisterStep ==
    ASSUME Observed, Inv, NEW p \in Path, NEW i \in Iface, Unregister(p, i),
           TypeInv'
    PROVE  Inv' /\ \A q \in Path : Honest(q)
BY UnregisterStays, UnregisterGoes

-----------------------------------------------------------------------------
(* Changing a property. *)

LEMMA ChangePropertyStep ==
    ASSUME Inv, NEW p \in Path, NEW i \in Iface, NEW v \in Val,
           ChangeProperty(p, i, v), TypeInv'
    PROVE  Inv' /\ \A q \in Path : Honest(q)
<1> DEFINE old == obj[p]
           o == [old EXCEPT !.val[i] = v]
           r == IF \/ attached /\ i \in o.added
                   \/ i \in o.dirty
                THEN o
                ELSE AddPending([o EXCEPT !.pendingProp = TRUE,
                                          !.dirty = @ \union {i}])
<1>1. /\ obj' = [obj EXCEPT ![p] = r]
      /\ UNCHANGED <<children, attached, managers, dangling>>
      /\ i \in old.ifaces
  BY DEF ChangeProperty
<1>2. old \in ObjectType /\ Kept(old, attached) /\ old.reg /\ i \in Name
  BY <1>1, InvKept, TypeInvTyped DEF Inv, Name
<1>3. /\ o \in ObjectType
      /\ o.reg = old.reg /\ o.parent = old.parent /\ o.ifaces = old.ifaces
      /\ o.val = [old.val EXCEPT ![i] = v]
      /\ o.added = old.added /\ o.removed = old.removed /\ o.dirty = old.dirty
      /\ o.pendingProp = old.pendingProp /\ o.scheduled = old.scheduled
      /\ o.told = old.told
  BY <1>2 DEF ObjectType
<1>4. old.val \in [Iface -> Val] /\ old.dirty \subseteq Iface
  BY <1>2 DEF ObjectType
<1> HIDE DEF old, o
<1>5. \A n \in Name : n # i => Value(o, n) = Value(old, n)
  BY <1>3, <1>4 DEF Value
<1>6. ASSUME i \in old.added \union old.dirty
      PROVE  Kept(r, attached) /\ r.reg = old.reg /\ r.told = old.told
  <2>1. r = o
    BY <1>2, <1>3, <1>6 DEF Kept
  <2>2. Consistent(o)
    BY <1>2, <1>3, <1>5, <1>6 DEF Kept, Consistent
  <2>3. r.told = old.told /\ r.reg = old.reg /\ Kept(r, attached)
    BY <1>2, <1>3, <2>1, <2>2 DEF Kept
  <2> QED
    BY <2>3
<1>7. ASSUME i \notin old.added \union old.dirty
      PROVE  Kept(r, attached) /\ r.reg = old.reg /\ r.told = old.told
  <2>1. r = AddPending([o EXCEPT !.pendingProp = TRUE, !.dirty = @ \union {i}])
    BY <1>3, <1>7
  <2>2. /\ r.reg = o.reg /\ r.parent = o.parent /\ r.ifaces = o.ifaces
        /\ r.val = o.val /\ r.added = o.added /\ r.removed = o.removed
        /\ r.dirty = o.dirty \union {i} /\ r.pendingProp = TRUE
        /\ r.scheduled = TRUE /\ r.told = o.told
    BY <1>3, <2>1 DEF AddPending, ObjectType
  <2> HIDE DEF r
  <2>3. \A n \in Name : n # i => Value(r, n) = Value(old, n)
    BY <1>5, <2>2 DEF Value
  <2>4. old.told[i] # Absent
    <3>1. old.told[i] = Value(old, i)
      BY <1>1, <1>2, <1>7 DEF Kept, Consistent
    <3> QED
      BY <1>2, <3>1, ValueType
  <2>5. Consistent(r)
    BY <1>1, <1>2, <1>3, <1>7, <2>2, <2>3, <2>4 DEF Kept, Consistent
  <2> QED
    BY <1>2, <1>3, <2>2, <2>5 DEF Kept
<1>8. Kept(r, attached) /\ r.reg = old.reg /\ r.told = old.told
  BY <1>6, <1>7
<1> HIDE DEF r
<1>9. ASSUME NEW q \in Path
      PROVE  /\ Kept(obj'[q], attached) /\ obj'[q].reg = obj[q].reg
             /\ obj'[q].told = obj[q].told
  BY <1>1, <1>8, InvKept DEF Inv, TypeInv, TypeOK, old
<1>10. Registered' = Registered
  BY <1>9 DEF Registered
<1>11. Inv'
  BY <1>1, <1>9, <1>10, InvIntro DEF Inv, Bookkeeping
<1> QED
  BY <1>9, <1>11, UnchangedHonest

-----------------------------------------------------------------------------
(* All steps, and the theorems. *)

LEMMA InvInit == Init => Inv
<1> SUFFICES ASSUME Init PROVE Inv
  OBVIOUS
<1>1. TypeInv
  BY TypeInvInit
<1>2. PICK values \in [Iface -> Val] :
         obj = [p \in Path |-> Unregistered(values, Nothing)]
  BY DEF Init
<1> DEFINE o == Unregistered(values, Nothing)
<1>3. Kept(o, attached)
  BY GoneKept DEF Init
<1> HIDE DEF o
<1>4. \A p \in Path : Kept(obj[p], attached)
  BY <1>2, <1>3 DEF o
<1>5. Bookkeeping
  BY <1>4 DEF Bookkeeping, Kept, Init
<1> QED
  BY <1>1, <1>5 DEF Inv

LEMMA InvStep ==
    ASSUME Observed, Inv, [Next]_vars
    PROVE  Inv' /\ \A p \in Path : Honest(p)
<1>1. TypeInv'
  BY TypeInvStep DEF Inv
<1>2. ASSUME NEW p \in Path, NEW i \in Iface, Register(p, i) \/ Unregister(p, i)
      PROVE  Inv' /\ \A q \in Path : Honest(q)
  BY <1>1, <1>2, RegisterStep, UnregisterStep
<1>3. ASSUME NEW p \in Path, NEW i \in Iface, NEW v \in Val,
             ChangeProperty(p, i, v)
      PROVE  Inv' /\ \A q \in Path : Honest(q)
  BY <1>1, <1>3, ChangePropertyStep
<1>4. ASSUME NEW p \in Path, Idle(p)
      PROVE  Inv' /\ \A q \in Path : Honest(q)
  BY <1>1, <1>4, IdleStep
<1>5. CASE UNCHANGED vars
  <2>1. \A q \in Path : Honest(q)
    BY <1>5, UnchangedHonest DEF vars
  <2>2. Bookkeeping'
    BY <1>5 DEF vars, Inv, Bookkeeping, Registered
  <2> QED
    BY <1>1, <2>1, <2>2 DEF Inv
<1> QED
  BY <1>1, <1>2, <1>3, <1>4, <1>5, FlushStep, AttachStep, DetachStep DEF Next

\* For a service that observes the rules, the pending lists, the clients'
\* image and the tree stay in the relation that process_changes relies on.
THEOREM BookkeepingCorrect ==
    ASSUME {"managed", "noReadd", "quietRemove"} \subseteq Rules
    PROVE  Spec => []Bookkeeping
<1>1. Inv /\ [Next]_vars => Inv'
  BY InvStep DEF Observed
<1>2. Inv => Bookkeeping
  BY DEF Inv
<1> QED
  BY <1>1, <1>2, InvInit, PTL DEF Spec

\* When nothing is left to send for an object, clients have its interfaces and
\* values right: the guarantee that the idle callback is there to give.
THEOREM AgreementCorrect ==
    ASSUME {"managed", "noReadd", "quietRemove"} \subseteq Rules
    PROVE  Spec => []ClientsAgree
<1>1. Inv /\ [Next]_vars => Inv'
  BY InvStep DEF Observed
<1>2. Inv => ClientsAgree
  BY InvKept, QuietTells DEF ClientsAgree, Kept
<1> QED
  BY <1>1, <1>2, InvInit, PTL DEF Spec

\* The client's image is a refinement of the abstract one.
ContentNow == [p \in Path |-> Content(obj[p])]
ToldNow == [p \in Path |-> obj[p].told]

ImageOK == ContentNow \in [Path -> Row] /\ ToldNow \in [Path -> Row]

LEMMA ImageType == TypeInv => ImageOK
<1> SUFFICES ASSUME TypeInv PROVE ImageOK
  OBVIOUS
<1>1. ASSUME NEW p \in Path
      PROVE  Content(obj[p]) \in Row /\ obj[p].told \in Row
  <2>1. obj[p] \in ObjectType
    BY DEF TypeInv, TypeOK
  <2>2. \A n \in Name : Value(obj[p], n) \in Val
    BY <2>1, ValueType
  <2> QED
    BY <2>1, <2>2 DEF Content, Row, ObjectType
<1> QED
  BY <1>1 DEF ImageOK, ContentNow, ToldNow

\* Every step tells clients the truth, whatever signals it sends, drops or
\* merges: a service that observes the rules implements the safety part of what
\* the ObjectManager promises.
THEOREM PromiseKept ==
    ASSUME {"managed", "noReadd", "quietRemove"} \subseteq Rules
    PROVE  Spec => TellsTheTruth
<1>1. Init => Promise!Init
  <2> SUFFICES ASSUME Init PROVE ContentNow = [p \in Path |-> Nothing]
                                 /\ ToldNow = ContentNow
    BY DEF Promise!Init, ContentNow, ToldNow, Nothing
  <2>1. PICK values \in [Iface -> Val] :
           obj = [p \in Path |-> Unregistered(values, Nothing)]
    BY DEF Init
  <2>2. /\ Content(Unregistered(values, Nothing)) = Nothing
        /\ Unregistered(values, Nothing).told = Nothing
    BY GoneKept
  <2> QED
    BY <2>1, <2>2 DEF ContentNow, ToldNow
<1>2. Inv /\ [Next]_vars => Inv'
  BY InvStep DEF Observed
<1>3. TypeInv' => ImageOK'
  BY ImageType, PTL
<1>4. Inv /\ [Next]_vars => [Promise!Next]_(Promise!vars)
  <2> SUFFICES ASSUME Inv, [Next]_vars PROVE Promise!Next
    OBVIOUS
  <2>1. Inv' /\ \A p \in Path : Honest(p)
    BY InvStep DEF Observed
  <2>2. ContentNow' \in [Path -> Row] /\ ToldNow' \in [Path -> Row]
    BY <2>1, <1>3 DEF Inv, ImageOK
  <2>3. ASSUME NEW p \in Path, NEW n \in Name
        PROVE  \/ ToldNow'[p][n] \in {ToldNow[p][n], ContentNow'[p][n]}
               \/ ContentNow'[p][n] = Absent /\ ToldNow'[p][n] = ContentNow[p][n]
    BY <2>1 DEF Honest, ContentNow, ToldNow
  <2> QED
    BY <2>2, <2>3 DEF Promise!Next, Promise!Truthful, Promise!Row, Row,
                      ContentNow, ToldNow
<1> QED
  BY <1>1, <1>2, <1>4, InvInit, PTL DEF Spec, TellsTheTruth, Promise!Safety

-----------------------------------------------------------------------------
(* The tree, for a service that keeps a manager attached while it has      *)
(* objects and registers an object before those below it.                  *)

TopDown == {"managed", "topDown"} \subseteq Rules

\* Objects exist only in an attached tree, and each is on the list of the
\* lowest node above it, which it takes for its parent.
Tree ==
    /\ ~dangling
    /\ attached => managers > 0
    /\ Registered # {} => attached
    /\ \A a \in Node : children[a] = {q \in Registered : Nearest(q, Registered) = a}
    /\ \A q \in Registered : obj[q].parent = Nearest(q, Registered)

TreeInv == TypeInv /\ Tree

LEMMA NearestIs ==
    ASSUME NEW q \in Path, NEW R \in SUBSET Path
    PROVE  \/ /\ Nearest(q, R) \in Above[q] \intersect R
              /\ (Above[q] \intersect R) \ {Nearest(q, R)} \subseteq Above[Nearest(q, R)]
           \/ /\ Above[q] \intersect R = {}
              /\ Nearest(q, R) = IF managers > 0 THEN Root ELSE None
<1> DEFINE A == Above[q] \intersect R
<1>1. A # {} => \E a \in A : A \ {a} \subseteq Above[a]
  <2>1. A \in SUBSET Above[q]
    OBVIOUS
  <2> HIDE DEF A
  <2> QED
    BY <2>1, PathAssumption
<1>2. Nearest(q, R) = IF A # {} THEN CHOOSE a \in A : A \ {a} \subseteq Above[a]
                      ELSE IF managers > 0 THEN Root ELSE None
  BY DEF Nearest
<1> HIDE DEF A
<1>3. \/ Nearest(q, R) \in A /\ A \ {Nearest(q, R)} \subseteq Above[Nearest(q, R)]
      \/ A = {} /\ Nearest(q, R) = IF managers > 0 THEN Root ELSE None
  BY <1>1, <1>2
<1> QED
  BY <1>3 DEF A

\* No object finds itself, nor anything that is below no other object.
LEMMA NearestOther ==
    ASSUME NEW q \in Path, NEW R \in SUBSET Path, NEW p \in Path, p \notin Above[q]
    PROVE  Nearest(q, R) # p
BY NearestIs, PathAssumption

LEMMA NearestSame ==
    ASSUME NEW q, NEW R, NEW S, Above[q] \intersect R = Above[q] \intersect S
    PROVE  Nearest(q, R) = Nearest(q, S)
<1> DEFINE Lowest(A) == IF A # {} THEN CHOOSE a \in A : A \ {a} \subseteq Above[a]
                        ELSE IF managers > 0 THEN Root ELSE None
<1>1. /\ Nearest(q, R) = Lowest(Above[q] \intersect R)
      /\ Nearest(q, S) = Lowest(Above[q] \intersect S)
  BY DEF Nearest
<1> HIDE DEF Lowest
<1> QED
  BY <1>1

\* A step that leaves tree and manager alone.
LEMMA TreeKept ==
    ASSUME Tree, UNCHANGED <<children, attached, managers, dangling>>,
           \A q \in Path : obj'[q].reg = obj[q].reg /\ obj'[q].parent = obj[q].parent
    PROVE  Tree'
<1>1. Registered' = Registered
  BY DEF Registered
<1>2. \A q \in Path : Nearest(q, Registered)' = Nearest(q, Registered)
  BY <1>1 DEF Nearest
<1>3. Registered \subseteq Path
  BY DEF Registered
<1> QED
  BY <1>1, <1>2, <1>3 DEF Tree

\* invalidate_parent_data finds on its way up only objects that are in place.
LEMMA Linked ==
    ASSUME TypeOK, Tree, NEW q \in Registered
    PROVE  q \in Path /\ Nearest(q, Registered) \in Node
           /\ q \in children[Nearest(q, Registered)]
<1>1. q \in Path /\ Registered \in SUBSET Path /\ managers > 0
  BY DEF Registered, Tree
<1>2. Nearest(q, Registered) \in Node
  BY <1>1, NearestType
<1> QED
  BY <1>1, <1>2 DEF Tree

LEMMA RegisterTree ==
    ASSUME TopDown, TreeInv, NEW p \in Path, NEW i \in Iface, Register(p, i)
    PROVE  Tree'
<1> DEFINE R == Registered \union {p}
<1>1. Registered \in SUBSET Path /\ R \in SUBSET Path
  BY DEF Registered
<1>2. TypeOK /\ Tree /\ TypeInv
  BY DEF TreeInv, TypeInv
<1>3. attached /\ managers > 0
  BY <1>2, RegisterEffect DEF TopDown, Tree
<1>4. CASE obj[p].reg
  <2>1. NewObject(p, i).reg = obj[p].reg /\ NewObject(p, i).parent = obj[p].parent
    BY <1>2, <1>4, NewObjectType, NewObjectParent DEF Typed, TypeOK, ObjectType
  <2>2. \A q \in Path : obj'[q].reg = obj[q].reg /\ obj'[q].parent = obj[q].parent
    <3>1. obj' = [q \in Path |-> IF q = p THEN NewObject(p, i) ELSE obj[q]]
      BY <1>4, RegisterEffect
    <3>2. \A q \in Path : q # p => obj'[q] = obj[q]
      BY <3>1
    <3>3. obj'[p] = NewObject(p, i)
      BY <3>1
    <3> QED
      BY <2>1, <3>2, <3>3
  <2>3. UNCHANGED <<children, attached, managers, dangling>>
    BY <1>4, RegisterEffect
  <2> QED
    BY <1>2, <2>2, <2>3, TreeKept
<1>5. CASE ~obj[p].reg
  <2>1. \A q \in Registered : p \notin Above[q]
    BY <1>5 DEF Register, TopDown
  <2>2. p \notin Registered
    BY <1>5 DEF Registered
  <2>3. \A q \in R : Nearest(q, R) = Nearest(q, Registered)
    <3> SUFFICES ASSUME NEW q \in R
                 PROVE  Above[q] \intersect R = Above[q] \intersect Registered
      BY NearestSame
    <3>1. p \notin Above[q]
      BY <2>1, PathAssumption
    <3> QED
      BY <3>1
  <2>4. Nearest(p, R) \in Node /\ Nearest(p, R) # None
    BY <1>1, <1>2, <1>3, NearestType
  <2>5. Relinked(p, R) = {p}
    <3>1. p \in Relinked(p, R)
      <4>1. p \notin children[Nearest(p, R)]
        BY <1>2, <2>2, <2>4 DEF Tree
      <4> QED
        BY <2>4, <4>1 DEF Relinked
    <3>2. ASSUME NEW q \in Relinked(p, R), q # p
          PROVE  FALSE
      <4>1. q \in Registered /\ q \notin children[Nearest(q, R)]
        BY <3>2 DEF Relinked
      <4>2. Nearest(q, R) = Nearest(q, Registered)
        BY <2>3, <4>1
      <4> QED
        BY <1>2, <4>1, <4>2, Linked
    <3> QED
      BY <3>1, <3>2
  <2>6. obj' = [q \in Path |->
                   IF q = p THEN NewObject(p, i)
                   ELSE [obj[q] EXCEPT !.parent = ParentAfter(p, R, q)]]
        /\ children' = ChildrenAfter(p, R)
        /\ UNCHANGED <<attached, managers, dangling>>
    BY <1>5, RegisterEffect
  <2> HIDE DEF R
  <2>7. \A q \in Path : ParentAfter(p, R, q) = IF q = p THEN Nearest(p, R) ELSE obj[q].parent
    BY <2>5 DEF ParentAfter
  <2>8. \A a \in Node : children'[a] = children[a] \union {q \in {p} : Nearest(q, R) = a}
    BY <2>5, <2>6 DEF ChildrenAfter
  <2>9. NewObject(p, i).reg /\ NewObject(p, i).parent = Nearest(p, R)
    BY <1>2, <1>5, <2>7, NewObjectType, NewObjectParent DEF R
  <2>10. ASSUME NEW q \in Path, q # p
         PROVE  obj'[q].reg = obj[q].reg /\ obj'[q].parent = obj[q].parent
    <3>1. obj[q] \in ObjectType
      BY <1>2 DEF TypeOK
    <3>2. obj'[q] = [obj[q] EXCEPT !.parent = obj[q].parent]
      BY <2>6, <2>7, <2>10
    <3> QED
      BY <3>1, <3>2 DEF ObjectType
  <2>11. obj'[p].reg /\ obj'[p].parent = Nearest(p, R)
    BY <2>6, <2>9
  <2>12. Registered' = R
    BY <2>10, <2>11 DEF Registered, R
  <2>13. \A q : Nearest(q, Registered)' = Nearest(q, R)
    BY <2>6, <2>12 DEF Nearest
  <2>14. \A a \in Node : children'[a] = {q \in Registered' : Nearest(q, Registered)' = a}
    <3> TAKE a \in Node
    <3>1. children[a] = {q \in Registered : Nearest(q, Registered) = a}
      BY <1>2 DEF Tree
    <3>2. children[a] = {q \in Registered : Nearest(q, R) = a}
      BY <2>3, <3>1 DEF R
    <3> QED
      BY <2>8, <2>12, <2>13, <3>2 DEF R
  <2>15. \A q \in Registered' : obj'[q].parent = Nearest(q, Registered)'
    <3> TAKE q \in Registered'
    <3>1. CASE q = p
      BY <2>11, <2>13, <3>1
    <3>2. CASE q # p
      <4>1. q \in Registered /\ q \in Path /\ q \in R
        BY <1>1, <2>12, <3>2 DEF R
      <4>2. obj[q].parent = Nearest(q, Registered)
        BY <1>2, <4>1 DEF Tree
      <4> QED
        BY <2>3, <2>10, <2>13, <3>2, <4>1, <4>2
    <3> QED
      BY <3>1, <3>2
  <2> QED
    BY <1>2, <1>3, <2>6, <2>14, <2>15 DEF Tree
<1> QED
  BY <1>4, <1>5

LEMMA DestroyTree ==
    ASSUME TopDown, TreeInv, NEW p \in Path, NEW o, Destroy(p, o), obj[p].reg,
           \A q \in Registered : p \notin Above[q],
           UNCHANGED <<attached, managers>>
    PROVE  Tree'
<1> DEFINE up == ParentAfter(p, Registered, p)
           C == ChildrenAfter(p, Registered)
           last == IF o.scheduled THEN ProcessChanges(o) ELSE o
           Other(q) == IF q \in C[p] THEN [obj[q] EXCEPT !.parent = up]
                       ELSE [obj[q] EXCEPT
                                !.parent = ParentAfter(p, Registered, q)]
           objs == [q \in Path |-> IF q = p THEN Unregistered(o.val, last.told)
                                   ELSE Other(q)]
           lists == [a \in Node |-> IF a = p THEN {}
                                    ELSE IF a = up THEN C[a] \ {p} ELSE C[a]]
<1>1. obj' = objs /\ children' = lists /\ dangling' = RefersTo(p, lists, objs)
  BY DEF Destroy
<1>2. TypeOK /\ Tree /\ Registered \in SUBSET Path /\ p \in Registered
  BY DEF TreeInv, TypeInv, Registered
<1>3. Relinked(p, Registered) = {}
  BY <1>2, Linked DEF Relinked
<1>4. \A q \in Path : ParentAfter(p, Registered, q) = obj[q].parent
  BY <1>3 DEF ParentAfter
<1>5. C = children
  <2>1. C = [a \in Node |-> children[a]]
    BY <1>3 DEF ChildrenAfter
  <2> QED
    BY <1>2, <2>1 DEF TypeOK
<1>6. up = Nearest(p, Registered)
  BY <1>2, <1>4 DEF Tree
<1>7. \A q \in Registered : Nearest(q, Registered) # p
  BY <1>2, NearestOther
<1>8. children[p] = {}
  BY <1>2, <1>7 DEF Tree, Node
<1> HIDE DEF up, C, last, Other
<1>9. \A a \in Node : lists[a] = children[a] \ {p}
  <2> TAKE a \in Node
  <2>1. a # up => p \notin children[a]
    BY <1>2, <1>6 DEF Tree
  <2> QED
    BY <1>5, <1>8, <2>1
<1>10. ASSUME NEW q \in Path, q # p
       PROVE  objs[q].reg = obj[q].reg /\ objs[q].parent = obj[q].parent
  <2>1. obj[q] \in ObjectType
    BY <1>2 DEF TypeOK
  <2>2. Other(q) = [obj[q] EXCEPT !.parent = obj[q].parent]
    BY <1>4, <1>5, <1>8 DEF Other
  <2>3. objs[q] = Other(q)
    BY <1>10
  <2> QED
    BY <2>1, <2>2, <2>3 DEF ObjectType
<1>11. objs[p].reg = FALSE
  BY DEF Unregistered
<1> HIDE DEF objs, lists
<1>12. Registered' = Registered \ {p}
  BY <1>1, <1>10, <1>11 DEF Registered
<1>13. \A q \in Registered' : Nearest(q, Registered)' = Nearest(q, Registered)
  <2> TAKE q \in Registered'
  <2>1. Above[q] \intersect (Registered \ {p}) = Above[q] \intersect Registered
    BY <1>12
  <2>2. Nearest(q, Registered \ {p}) = Nearest(q, Registered)
    BY <2>1, NearestSame
  <2> QED
    BY <1>12, <2>2 DEF Nearest
<1>14. ~dangling'
  <2>1. ASSUME NEW b \in Node \ {p}
        PROVE  p \notin lists[b]
    BY <1>9
  <2>2. ASSUME NEW q \in Path \ {p}, objs[q].reg
        PROVE  objs[q].parent # p
    <3>1. q \in Registered /\ objs[q].parent = obj[q].parent
      BY <1>10, <2>2 DEF Registered
    <3>2. obj[q].parent = Nearest(q, Registered)
      BY <1>2, <3>1 DEF Tree
    <3> QED
      BY <1>7, <3>1, <3>2
  <2> QED
    BY <1>1, <2>1, <2>2 DEF RefersTo
<1>15. \A a \in Node : children'[a] = {q \in Registered' : Nearest(q, Registered)' = a}
  <2> TAKE a \in Node
  <2>1. children[a] = {q \in Registered : Nearest(q, Registered) = a}
    BY <1>2 DEF Tree
  <2>2. children'[a] = {q \in Registered' : Nearest(q, Registered) = a}
    BY <1>1, <1>9, <1>12, <2>1
  <2> QED
    BY <1>13, <2>2
<1>16. \A q \in Registered' : obj'[q].parent = Nearest(q, Registered)'
  <2> TAKE q \in Registered'
  <2>1. q \in Registered /\ q # p /\ q \in Path
    BY <1>2, <1>12
  <2>2. obj[q].parent = Nearest(q, Registered)
    BY <1>2, <2>1 DEF Tree
  <2> QED
    BY <1>1, <1>10, <1>13, <2>1, <2>2
<1> QED
  BY <1>2, <1>12, <1>14, <1>15, <1>16 DEF Tree

LEMMA UnregisterTree ==
    ASSUME TopDown, TreeInv, NEW p \in Path, NEW i \in Iface, Unregister(p, i)
    PROVE  Tree'
<1> DEFINE o == RemoveInterface(obj[p], i)
<1>1. TypeInv /\ Tree /\ Typed(obj[p]) /\ obj[p].reg
  BY TypeInvTyped DEF TreeInv, Unregister
<1>2. CASE o.ifaces \intersect Iface # {}
  <2>1. /\ obj' = [obj EXCEPT ![p] = o]
        /\ UNCHANGED <<children, attached, managers, dangling>>
    BY <1>2 DEF Unregister
  <2>2. o.reg = obj[p].reg /\ o.parent = obj[p].parent
    BY <1>1, RemoveInterfaceType DEF Name
  <2> HIDE DEF o
  <2>3. \A q \in Path : obj'[q].reg = obj[q].reg /\ obj'[q].parent = obj[q].parent
    BY <1>1, <2>1, <2>2 DEF TypeInv, TypeOK
  <2> QED
    BY <1>1, <2>1, <2>3, TreeKept
<1>3. CASE o.ifaces \intersect Iface = {}
  <2>1. /\ Destroy(p, Bare(p, i)) /\ UNCHANGED <<attached, managers>>
        /\ \A q \in Registered : p \notin Above[q]
    BY <1>3 DEF Unregister, Bare, TopDown
  <2> QED
    BY <1>1, <2>1, DestroyTree
<1> QED
  BY <1>2, <1>3

LEMMA QuietTree ==
    ASSUME TreeInv,
           \/ \E p \in Path, i \in Iface, v \in Val : ChangeProperty(p, i, v)
           \/ \E p \in Path : Idle(p)
           \/ Flush
    PROVE  Tree'
<1>1. TypeInv /\ Tree /\ \A q \in Path : Typed(obj[q])
  BY TypeInvTyped DEF TreeInv
<1>2. obj \in [Path -> ObjectType]
  BY <1>1 DEF TypeInv, TypeOK
<1>3. \A q \in Path : /\ ProcessChanges(obj[q]).reg = obj[q].reg
                      /\ ProcessChanges(obj[q]).parent = obj[q].parent
  BY <1>1, ProcessChangesType
<1>4. ASSUME NEW p \in Path, NEW i \in Iface, NEW v \in Val, ChangeProperty(p, i, v)
      PROVE  Tree'
  <2> DEFINE o == [obj[p] EXCEPT !.val[i] = v]
             d == [o EXCEPT !.pendingProp = TRUE, !.dirty = @ \union {i}]
             r == IF \/ attached /\ i \in o.added
                     \/ i \in o.dirty
                  THEN o ELSE AddPending(d)
  <2>1. /\ obj' = [obj EXCEPT ![p] = r]
        /\ UNCHANGED <<children, attached, managers, dangling>>
    BY <1>4 DEF ChangeProperty
  <2>2. Typed(o) /\ o.reg = obj[p].reg /\ o.parent = obj[p].parent
    BY <1>1 DEF Typed, ObjectType
  <2> HIDE DEF o
  <2>3. Typed(d) /\ d.reg = o.reg /\ d.parent = o.parent
    BY <2>2 DEF Typed, ObjectType
  <2> HIDE DEF d
  <2>4. r.reg = obj[p].reg /\ r.parent = obj[p].parent
    BY <2>2, <2>3, AddPendingType
  <2> HIDE DEF r
  <2>5. \A q \in Path : obj'[q].reg = obj[q].reg /\ obj'[q].parent = obj[q].parent
    BY <1>2, <2>1, <2>4
  <2> QED
    BY <1>1, <2>1, <2>5, TreeKept
<1>5. ASSUME NEW p \in Path, Idle(p)
      PROVE  Tree'
  <2>1. /\ obj' = [obj EXCEPT ![p] = ProcessChanges(obj[p])]
        /\ UNCHANGED <<children, attached, managers, dangling>>
    BY <1>5 DEF Idle
  <2>2. \A q \in Path : obj'[q].reg = obj[q].reg /\ obj'[q].parent = obj[q].parent
    BY <1>2, <1>3, <2>1
  <2> QED
    BY <1>1, <2>1, <2>2, TreeKept
<1>6. CASE Flush
  <2>1. /\ obj' = [q \in Path |-> IF obj[q].scheduled THEN ProcessChanges(obj[q])
                                  ELSE obj[q]]
        /\ UNCHANGED <<children, attached, managers, dangling>>
    BY <1>6 DEF Flush
  <2>2. \A q \in Path : obj'[q].reg = obj[q].reg /\ obj'[q].parent = obj[q].parent
    BY <1>3, <2>1
  <2> QED
    BY <1>1, <2>1, <2>2, TreeKept
<1> QED
  BY <1>4, <1>5, <1>6

\* Where the ObjectManager is attached anew or given up there are no objects.
LEMMA ManagerTree ==
    ASSUME TopDown, TreeInv, Attach \/ Detach
    PROVE  Tree'
<1>1. TypeOK /\ Tree
  BY DEF TreeInv, TypeInv
<1>2. CASE Registered = {}
  <2>1. \A a \in Node : children[a] = {}
    BY <1>1, <1>2 DEF Tree
  <2>2. \A q \in Path : obj'[q].reg = obj[q].reg
    BY <1>1 DEF Attach, Detach, TypeOK, ObjectType
  <2>3. Registered' = {}
    BY <1>2, <2>2 DEF Registered
  <2>4. \A a \in Node : children'[a] = {}
    BY <1>1, <2>1 DEF Attach, Detach, TypeOK, Node
  <2>5. attached' => managers' > 0
    BY <1>1 DEF Attach, Detach, TypeOK
  <2>6. ~dangling'
    <3>1. ASSUME NEW objs, objs = obj'
          PROVE  ~RefersTo(Root, children', objs)
      BY <2>3, <2>4, <3>1 DEF RefersTo, Registered
    <3>2. \/ dangling' = RefersTo(Root, children', obj')
          \/ dangling' = dangling
      BY DEF Attach, Detach
    <3> QED
      BY <1>1, <3>1, <3>2 DEF Tree
  <2> QED
    BY <2>3, <2>4, <2>5, <2>6 DEF Tree
<1>3. CASE Registered # {}
  <2>1. Attach /\ attached
    BY <1>1, <1>3 DEF Detach, TopDown, Tree
  <2>2. managers > 0 /\ managers' > 0 /\ attached' /\ UNCHANGED <<obj, children, dangling>>
    BY <1>1, <2>1 DEF Attach, Tree, TypeOK
  <2>3. Registered' = Registered
    BY <2>2 DEF Registered
  <2>4. \A q : Nearest(q, Registered)' = Nearest(q, Registered)
    BY <2>2, <2>3 DEF Nearest
  <2> QED
    BY <1>1, <2>2, <2>3, <2>4 DEF Tree
<1> QED
  BY <1>2, <1>3

LEMMA TreeInvInit == Init => TreeInv
<1> SUFFICES ASSUME Init PROVE Tree
  BY TypeInvInit DEF TreeInv
<1>1. Registered = {}
  BY DEF Init, Registered, Unregistered
<1> QED
  BY <1>1 DEF Init, Tree

LEMMA TreeInvStep ==
    ASSUME TopDown, TreeInv, [Next]_vars
    PROVE  TreeInv'
<1>1. TypeInv'
  BY TypeInvStep DEF TreeInv
<1>2. ASSUME NEW p \in Path, NEW i \in Iface, Register(p, i) \/ Unregister(p, i)
      PROVE  Tree'
  BY <1>2, RegisterTree, UnregisterTree
<1>3. ASSUME UNCHANGED vars PROVE Tree'
  <2>1. \A q \in Path : obj'[q].reg = obj[q].reg /\ obj'[q].parent = obj[q].parent
    BY <1>3 DEF vars
  <2> QED
    <3>1. Tree /\ UNCHANGED <<children, attached, managers, dangling>>
      BY <1>3 DEF vars, TreeInv
    <3> QED
      BY <2>1, <3>1, TreeKept
<1>4. ASSUME \/ \E p \in Path, i \in Iface, v \in Val : ChangeProperty(p, i, v)
             \/ \E p \in Path : Idle(p)
             \/ Flush
      PROVE  Tree'
  BY <1>4, QuietTree
<1>5. Tree'
  BY <1>2, <1>3, <1>4, ManagerTree DEF Next
<1> QED
  BY <1>1, <1>5 DEF TreeInv

\* A walk from "/" that misses p misses one whose parent it does not miss.
LEMMA TreeWalked ==
    ASSUME TypeOK, Tree, NEW p \in Registered
    PROVE  Walked(p)
<1> SUFFICES ASSUME NEW S \in SUBSET Path, children[Root] \subseteq S,
                    \A q \in S : children[q] \subseteq S,
                    p \notin S
             PROVE  FALSE
  BY DEF Walked
<1>1. Registered \in SUBSET Path /\ p \in Path
  BY DEF Registered
<1> DEFINE B == (Above[p] \intersect Registered) \ S
<1>2. PICK b : \/ b = p /\ B = {}
               \/ b \in B /\ \A c \in B \ {b} : b \in Above[c]
  <2>1. B \in SUBSET Above[p]
    OBVIOUS
  <2> HIDE DEF B
  <2>2. B # {} => \E a \in B : \A c \in B \ {a} : a \in Above[c]
    BY <1>1, <2>1, PathAssumption
  <2> QED
    BY <2>2
<1>3. b \in Registered /\ b \in Path /\ b \notin S
  BY <1>1, <1>2
<1>4. Above[b] \intersect Registered \subseteq S
  <2> SUFFICES ASSUME NEW c \in Above[b] \intersect Registered, c \notin S
               PROVE  FALSE
    OBVIOUS
  <2>1. c \in B /\ c \in Path
    BY <1>1, <1>2, PathAssumption
  <2>2. c # b
    BY <1>3, PathAssumption
  <2>3. b \in Above[c]
    BY <1>2, <2>1, <2>2
  <2>4. b \in Above[b]
    BY <1>3, <2>3, PathAssumption
  <2> QED
    BY <1>3, <2>4, PathAssumption
<1> DEFINE n == Nearest(b, Registered)
<1>5. b \in children[n]
  BY <1>3, Linked
<1>6. n \in S \/ n = Root
  <2>1. managers > 0
    BY <1>3 DEF Tree
  <2> QED
    BY <1>1, <1>3, <1>4, <2>1, NearestIs
<1> QED
  BY <1>3, <1>5, <1>6

LEMMA TreeComplete == TreeInv => GetManagedObjectsComplete
<1> SUFFICES ASSUME TreeInv PROVE GetManagedObjectsComplete
  OBVIOUS
<1>1. TypeOK /\ Tree
  BY DEF TreeInv, TypeInv
<1>2. ASSUME NEW p \in Path, obj[p].reg
      PROVE  Walked(p) /\ Cardinality({a \in Node : p \in children[a]}) = 1
  <2>1. p \in Registered
    BY <1>2 DEF Registered
  <2>2. {a \in Node : p \in children[a]} = {Nearest(p, Registered)}
    BY <1>1, <2>1, Linked DEF Tree
  <2>3. Cardinality({Nearest(p, Registered)}) = 1
    BY FS_Singleton
  <2> QED
    BY <1>1, <2>1, <2>2, <2>3, TreeWalked
<1>3. ASSUME NEW p \in Path, ~obj[p].reg, NEW a \in Node
      PROVE  p \notin children[a]
  BY <1>1, <1>3 DEF Tree, Registered
<1> QED
  BY <1>1, <1>2, <1>3 DEF GetManagedObjectsComplete, Tree

\* A service that has objects only while its ObjectManager is attached, and
\* registers an object before and unregisters it after those below it, has its
\* registered objects in the answer to GetManagedObjects, each of them once, and
\* no list and no parent pointer to freed data (object.c invalidate_parent_data,
\* generic_unregister, append_object).
THEOREM TreeCorrect ==
    ASSUME {"managed", "topDown"} \subseteq Rules
    PROVE  Spec => []GetManagedObjectsComplete
<1>1. TreeInv /\ [Next]_vars => TreeInv'
  BY TreeInvStep DEF TopDown
<1> QED
  BY <1>1, TreeInvInit, TreeComplete, PTL DEF Spec

-----------------------------------------------------------------------------
(* Introspection.  What a text depends on: the interfaces of its own object, *)
(* and which paths below it are registered.                                  *)

\* Objects that have the same interfaces and registered paths print the same.
SameText(n) ==
    /\ n \in Path => obj'[n].ifaces = obj[n].ifaces
    /\ \A q \in Below(n) : obj'[q].reg = obj[q].reg

LEMMA BelowTransitive ==
    ASSUME NEW n \in Node, NEW c \in Below(n)
    PROVE  c \in Path /\ Below(c) \subseteq Below(n)
<1>1. c \in Path
  BY DEF Below
<1>2. c # Root
  BY <1>1, PathAssumption
<1>3. ASSUME NEW q \in Below(c) PROVE q \in Below(n)
  BY <1>1, <1>2, <1>3, PathAssumption DEF Below
<1> QED
  BY <1>1, <1>3

LEMMA GeneratedSame ==
    ASSUME NEW n \in Node, SameText(n)
    PROVE  Generated(n)' = Generated(n)
<1>1. ASSUME NEW q \in Below(n)
      PROVE  q \in Registered' <=> q \in Registered
  BY <1>1, BelowTransitive DEF SameText, Registered
<1>2. ASSUME NEW c \in Below(n)
      PROVE  ({c} \union Below(c)) \intersect Registered' = {} <=>
             ({c} \union Below(c)) \intersect Registered = {}
  BY <1>1, <1>2, BelowTransitive
<1>3. ListRegistered(n)' = ListRegistered(n)
  BY <1>2 DEF ListRegistered
<1>4. n # Root => n \in Path
  BY DEF Node
<1> QED
  BY <1>3, <1>4 DEF Generated, SameText

\* The objects on the way up from p are those that have p below them.
LEMMA InvalidatedAbove ==
    ASSUME NEW p \in Path, NEW n \in Live \ Invalidated(p)
    PROVE  p \notin Below(n)
BY DEF Invalidated

-----------------------------------------------------------------------------
(* The invariant. *)

TextInv ==
    /\ TypeInv
    /\ text = [n \in Node |-> text[n]]
    /\ IntrospectIsFresh

\* It suffices that each text that stays is of an object that was there and
\* prints what it did.
LEMMA FreshIntro ==
    ASSUME TextInv, NEW S \in SUBSET Node, text' = Cleared(S),
           \A n \in Live' \ S : n \in Live /\ SameText(n)
    PROVE  IntrospectIsFresh' /\ text' = [n \in Node |-> text'[n]]
<1>1. text' = [n \in Node |-> IF n \in S THEN Unknown ELSE text[n]]
  BY DEF Cleared
<1>2. ASSUME NEW n \in Live'
      PROVE  text'[n] \in {Unknown, Generated(n)'}
                \union (IF n = Root THEN {BareText} ELSE {})
  <2>1. n \in Node
    BY DEF Live, Registered, Node
  <2>2. CASE n \in S
    BY <1>1, <2>1, <2>2
  <2>3. CASE n \notin S
    <3>1. n \in Live /\ Generated(n)' = Generated(n)
      BY <2>1, <2>3, GeneratedSame
    <3>2. text[n] \in {Unknown, Generated(n)}
             \union (IF n = Root THEN {BareText} ELSE {})
      BY <3>1 DEF TextInv, IntrospectIsFresh
    <3> QED
      BY <1>1, <2>1, <2>3, <3>1, <3>2
  <2> QED
    BY <2>2, <2>3
<1>3. IntrospectIsFresh'
  BY <1>2 DEF IntrospectIsFresh, BareText
<1> QED
  BY <1>1, <1>3

-----------------------------------------------------------------------------
(* What the operations of GdbusObject do to interfaces and registrations. *)

LEMMA ProcessChangesIfaces ==
    ASSUME NEW o, Typed(o)
    PROVE  ProcessChanges(o).ifaces = o.ifaces /\ ProcessChanges(o).reg = o.reg
<1> DEFINE o0 == [o EXCEPT !.scheduled = FALSE]
           o1 == EmitAdded(o0)
           o2 == SendAllChanged(o1)
           Like(r) == r \in ObjectType /\ r.reg = o.reg /\ r.ifaces = o.ifaces
<1>1. Like(o0)
  BY DEF ObjectType, Typed
<1> HIDE DEF o0
<1>2. Like(o1)
  <2>1. HearsAdded(o0, o0.added) \in Row
    BY <1>1, HearsType
  <2> QED
    BY <1>1, <2>1 DEF EmitAdded, ObjectType
<1> HIDE DEF o1
<1>3. Like(o2)
  <2>1. HearsChanged(o1, o1.dirty) \in Row
    BY <1>2, HearsType
  <2> QED
    BY <1>2, <2>1 DEF SendAllChanged, ObjectType
<1> HIDE DEF o2
<1>4. Like(EmitRemoved(o2))
  <2>1. HearsRemoved(o2, o2.removed) \in Row
    BY <1>3, HearsType
  <2> QED
    BY <1>3, <2>1 DEF EmitRemoved, ObjectType
<1>5. ProcessChanges(o) = EmitRemoved(o2)
  BY DEF ProcessChanges, o0, o1, o2
<1> QED
  BY <1>4, <1>5

\* Where only what is pending or who is whose parent changes, all texts stay.
Quiet == \A q \in Path : obj'[q].reg = obj[q].reg /\ obj'[q].ifaces = obj[q].ifaces

LEMMA QuietSame ==
    ASSUME Quiet, NEW n \in Node
    PROVE  SameText(n)
<1>1. Below(n) \subseteq Path
  BY DEF Below
<1> QED
  BY <1>1 DEF Quiet, SameText

\* Only object p is registered, unregistered or given other interfaces.
OnlyAt(p) ==
    \A q \in Path \ {p} :
        obj'[q].reg = obj[q].reg /\ obj'[q].ifaces = obj[q].ifaces

LEMMA OnlyAtSame ==
    ASSUME NEW p \in Path, OnlyAt(p), NEW n \in Node, n # p,
           obj'[p].reg = obj[p].reg \/ p \notin Below(n)
    PROVE  SameText(n)
<1>1. Below(n) \subseteq Path
  BY DEF Below
<1> QED
  BY <1>1 DEF OnlyAt, SameText

LEMMA QuietStep ==
    ASSUME TypeInv, Signals \/ Attach \/ Detach
    PROVE  Quiet
<1>1. ASSUME NEW p \in Path, NEW i \in Iface, NEW v \in Val,
             ChangeProperty(p, i, v)
      PROVE  Quiet
  <2> DEFINE o == [obj[p] EXCEPT !.val[i] = v]
             d == [o EXCEPT !.pendingProp = TRUE, !.dirty = @ \union {i}]
  <2>1. obj[p] \in ObjectType
    BY DEF TypeInv, TypeOK
  <2>2. o.reg = obj[p].reg /\ o.ifaces = obj[p].ifaces
    BY <2>1 DEF ObjectType
  <2>3. /\ AddPending(d).reg = obj[p].reg
        /\ AddPending(d).ifaces = obj[p].ifaces
    BY <2>1 DEF AddPending, ObjectType
  <2>4. \E r \in {o, AddPending(d)} : obj' = [obj EXCEPT ![p] = r]
    BY <1>1 DEF ChangeProperty
  <2> HIDE DEF o, d
  <2> QED
    BY <2>2, <2>3, <2>4 DEF Quiet, TypeInv, TypeOK
<1>2. ASSUME NEW p \in Path, Idle(p)
      PROVE  Quiet
  BY <1>2, TypeInvTyped, ProcessChangesIfaces DEF Idle, Quiet, TypeInv, TypeOK
<1>3. CASE Flush
  BY <1>3, TypeInvTyped, ProcessChangesIfaces DEF Flush, Quiet
<1>4. CASE Attach
  BY <1>4 DEF Attach, Quiet
<1>5. CASE Detach
  <2>1. \A q \in Path : obj[q] \in ObjectType
    BY DEF TypeInv, TypeOK
  <2>2. \/ obj' = [p \in Path |-> IF p \in children[Root]
                                  THEN [obj[p] EXCEPT !.parent = None]
                                  ELSE obj[p]]
        \/ UNCHANGED obj
    BY <1>5 DEF Detach
  <2> QED
    BY <2>1, <2>2 DEF Quiet, ObjectType
<1> QED
  BY <1>1, <1>2, <1>3, <1>4, <1>5 DEF Signals

LEMMA RegisterOnlyAt ==
    ASSUME TypeInv, NEW p \in Path, NEW i \in Iface, Register(p, i)
    PROVE  OnlyAt(p) /\ obj'[p].reg /\ UNCHANGED managers
<1>1. obj'[p] = NewObject(p, i) /\ UNCHANGED managers
  BY RegisterEffect
<1>2. NewObject(p, i).reg
  BY NewObjectType
<1>3. ASSUME NEW q \in Path \ {p}
      PROVE  obj'[q].reg = obj[q].reg /\ obj'[q].ifaces = obj[q].ifaces
  <2>1. obj[q] \in ObjectType
    BY DEF TypeInv, TypeOK
  <2>2. \/ obj'[q] = [obj[q] EXCEPT
                        !.parent = ParentAfter(p, Registered \union {p}, q)]
        \/ obj'[q] = obj[q]
    BY RegisterEffect
  <2> QED
    BY <2>1, <2>2 DEF ObjectType
<1> QED
  BY <1>1, <1>2, <1>3 DEF OnlyAt

LEMMA UnregisterOnlyAt ==
    ASSUME TypeInv, NEW p \in Path, NEW i \in Iface, Unregister(p, i)
    PROVE  /\ OnlyAt(p) /\ UNCHANGED managers
           /\ obj'[p].reg => obj[p].reg
<1> DEFINE o == RemoveInterface(obj[p], i)
<1>1. CASE o.ifaces \intersect Iface # {}
  <2>1. obj' = [obj EXCEPT ![p] = o] /\ UNCHANGED managers
    BY <1>1 DEF Unregister
  <2>2. o.reg = obj[p].reg
    BY BareType
  <2> HIDE DEF o
  <2> QED
    BY <2>1, <2>2 DEF OnlyAt, TypeInv, TypeOK
<1>2. CASE o.ifaces \intersect Iface = {}
  <2>1. Destroy(p, Bare(p, i)) /\ UNCHANGED managers
    BY <1>2 DEF Unregister, Bare
  <2>2. obj'[p].reg = FALSE
    BY <2>1 DEF Destroy, Unregistered
  <2>3. ASSUME NEW q \in Path \ {p}
        PROVE  obj'[q].reg = obj[q].reg /\ obj'[q].ifaces = obj[q].ifaces
    <3>1. obj[q] \in ObjectType
      BY DEF TypeInv, TypeOK
    <3>2. \/ obj'[q] = [obj[q] EXCEPT !.parent = ParentAfter(p, Registered, p)]
          \/ obj'[q] = [obj[q] EXCEPT !.parent = ParentAfter(p, Registered, q)]
      BY <2>1 DEF Destroy
    <3> QED
      BY <3>1, <3>2 DEF ObjectType
  <2> QED
    BY <2>1, <2>2, <2>3 DEF OnlyAt
<1> QED
  BY <1>1, <1>2

-----------------------------------------------------------------------------
(* The steps. *)

LEMMA RegisterFresh ==
    ASSUME TextInv, NEW p \in Path, NEW i \in Iface, RegisterText(p, i)
    PROVE  IntrospectIsFresh' /\ text' = [n \in Node |-> text'[n]]
<1> DEFINE S == {p} \union IF obj[p].reg THEN {} ELSE Invalidated(p)
<1>1. text' = Cleared(S) /\ Register(p, i)
  BY DEF RegisterText
<1>2. OnlyAt(p) /\ obj'[p].reg /\ UNCHANGED managers
  BY <1>1, RegisterOnlyAt DEF TextInv
<1>3. S \in SUBSET Node
  BY DEF Invalidated, Live, Registered, Node
<1>4. obj[p].reg \in BOOLEAN
  BY DEF TextInv, TypeInv, TypeOK, ObjectType
<1>5. ASSUME NEW n \in Live' \ S
      PROVE  n \in Live /\ SameText(n)
  <2>1. n \in Live /\ n \in Node /\ n # p
    BY <1>2, <1>5 DEF Live, Registered, OnlyAt, Node
  <2>2. obj'[p].reg = obj[p].reg \/ p \notin Below(n)
    BY <1>2, <1>4, <1>5, <2>1, InvalidatedAbove
  <2> QED
    BY <1>2, <2>1, <2>2, OnlyAtSame
<1> HIDE DEF S
<1> QED
  BY <1>1, <1>3, <1>5, FreshIntro

LEMMA UnregisterFresh ==
    ASSUME TextInv, NEW p \in Path, NEW i \in Iface, UnregisterText(p, i)
    PROVE  IntrospectIsFresh' /\ text' = [n \in Node |-> text'[n]]
<1> DEFINE S == {p} \union IF obj'[p].reg THEN {} ELSE Invalidated(p)
<1>1. text' = Cleared(S) /\ Unregister(p, i)
  BY DEF UnregisterText
<1>2. OnlyAt(p) /\ UNCHANGED managers /\ (obj'[p].reg => obj[p].reg)
  BY <1>1, UnregisterOnlyAt DEF TextInv
<1>3. S \in SUBSET Node
  BY DEF Invalidated, Live, Registered, Node
<1>4. obj[p].reg \in BOOLEAN /\ obj'[p].reg \in BOOLEAN
  <2>1. TypeInv'
    BY <1>1, UnregisterType DEF TextInv
  <2> QED
    BY <2>1 DEF TextInv, TypeInv, TypeOK, ObjectType
<1>5. ASSUME NEW n \in Live' \ S
      PROVE  n \in Live /\ SameText(n)
  <2>1. n \in Live /\ n \in Node /\ n # p
    BY <1>2, <1>5 DEF Live, Registered, OnlyAt, Node
  <2>2. obj'[p].reg = obj[p].reg \/ p \notin Below(n)
    BY <1>2, <1>4, <1>5, <2>1, InvalidatedAbove
  <2> QED
    BY <1>2, <2>1, <2>2, OnlyAtSame
<1> HIDE DEF S
<1> QED
  BY <1>1, <1>3, <1>5, FreshIntro

\* Steps that change no object's interfaces, and clear some texts or none.
LEMMA QuietFresh ==
    ASSUME TextInv, Quiet, NEW S \in SUBSET Node, text' = Cleared(S),
           Root \in Live' => Root \in Live \/ Root \in S
    PROVE  IntrospectIsFresh' /\ text' = [n \in Node |-> text'[n]]
<1>1. ASSUME NEW n \in Live' \ S
      PROVE  n \in Live /\ SameText(n)
  <2>1. n \in Live /\ n \in Node
    BY <1>1 DEF Live, Registered, Quiet, Node
  <2> QED
    BY <2>1, QuietSame
<1> QED
  BY <1>1, FreshIntro

LEMMA SignalsFresh ==
    ASSUME TextInv, Signals, UNCHANGED text
    PROVE  IntrospectIsFresh' /\ text' = [n \in Node |-> text'[n]]
<1>1. Quiet
  BY QuietStep DEF TextInv
<1>2. text' = Cleared({})
  BY DEF Cleared, TextInv
<1>3. UNCHANGED managers
  BY DEF Signals, ChangeProperty, Idle, Flush
<1>4. Root \in Live' => Root \in Live
  BY <1>3, PathAssumption DEF Live, Registered
<1> QED
  BY <1>1, <1>2, <1>4, QuietFresh

LEMMA DetachFresh ==
    ASSUME TextInv, DetachText
    PROVE  IntrospectIsFresh' /\ text' = [n \in Node |-> text'[n]]
<1>1. Quiet
  BY QuietStep DEF TextInv, DetachText
<1> QED
  BY <1>1, QuietFresh DEF DetachText, Node

LEMMA AttachFresh ==
    ASSUME TextInv, AttachText
    PROVE  IntrospectIsFresh' /\ text' = [n \in Node |-> text'[n]]
<1>1. Quiet /\ Attach
  BY QuietStep DEF TextInv, AttachText
<1>2. CASE managers = 0
  <2>1. text' = [text EXCEPT ![Root] = BareText]
    BY <1>2 DEF AttachText
  <2>2. text = [n \in Node |-> text[n]]
    BY DEF TextInv
  <2>3. text' = [n \in Node |-> IF n = Root THEN BareText ELSE text[n]]
    BY <2>1, <2>2 DEF Node
  <2>4. ASSUME NEW n \in Live'
        PROVE  text'[n] \in {Unknown, Generated(n)'}
                  \union (IF n = Root THEN {BareText} ELSE {})
    <3>1. n \in Node
      BY DEF Live, Registered, Node
    <3>2. CASE n # Root
      <4>1. n \in Live /\ Generated(n)' = Generated(n)
        BY <1>1, <3>1, <3>2, QuietSame, GeneratedSame
           DEF Live, Registered, Quiet
      <4>2. text[n] \in {Unknown, Generated(n)}
        BY <3>2, <4>1 DEF TextInv, IntrospectIsFresh
      <4> QED
        BY <2>3, <3>1, <3>2, <4>1, <4>2
    <3> QED
      BY <2>3, <3>1, <3>2
  <2>5. IntrospectIsFresh'
    BY <2>4 DEF IntrospectIsFresh, BareText
  <2> QED
    BY <2>3, <2>5
<1>3. CASE managers # 0
  <2>1. text' = Cleared({})
    BY <1>3 DEF AttachText, Cleared, TextInv
  <2>2. Root \in Live
    BY <1>3, BoundAssumption DEF Live, TextInv, TypeInv, TypeOK
  <2> QED
    BY <1>1, <2>1, <2>2, QuietFresh
<1> QED
  BY <1>2, <1>3

\* A text that is made says what there is, and the flush before the reply that
\* brings it changes nothing of that.
LEMMA IntrospectQuiet ==
    ASSUME TypeInv, NEW n \in Node, Introspect(n)
    PROVE  Quiet /\ TypeInv'
<1>1. /\ obj' = [q \in Path |-> IF obj[q].scheduled THEN ProcessChanges(obj[q])
                                ELSE obj[q]]
      /\ UNCHANGED <<children, attached, managers, dangling>>
  BY DEF Introspect
<1>2. Quiet
  BY <1>1, TypeInvTyped, ProcessChangesIfaces DEF Quiet
<1>3. \A q \in Path : Typed(obj'[q]) /\ Placed(obj'[q])
  BY <1>1, ProcessType, TypeInvTyped DEF Placed
<1>4. obj' \in [Path -> ObjectType]
  BY <1>1, <1>3 DEF Typed
<1> QED
  BY <1>1, <1>2, <1>3, <1>4, TypeInvIntro DEF TypeInv, TypeOK

LEMMA IntrospectFresh ==
    ASSUME TextInv, NEW m \in Node, Introspect(m)
    PROVE  IntrospectIsFresh' /\ text' = [n \in Node |-> text'[n]]
<1>1. Quiet /\ UNCHANGED managers
  BY IntrospectQuiet DEF TextInv, Introspect
<1>2. text' = [n \in Node |-> IF n = m /\ text[m] = Unknown THEN Generated(m)
                              ELSE text[n]]
  <2>1. text = [n \in Node |-> text[n]]
    BY DEF TextInv
  <2>2. text' = [text EXCEPT ![m] = IF @ = Unknown THEN Generated(m) ELSE @]
    BY DEF Introspect
  <2> QED
    BY <2>1, <2>2
<1>3. ASSUME NEW n \in Live'
      PROVE  text'[n] \in {Unknown, Generated(n)'}
                \union (IF n = Root THEN {BareText} ELSE {})
  <2>1. n \in Live /\ n \in Node
    BY <1>1 DEF Live, Registered, Quiet, Node
  <2>2. Generated(n)' = Generated(n)
    BY <1>1, <2>1, QuietSame, GeneratedSame
  <2>3. text[n] \in {Unknown, Generated(n)}
           \union (IF n = Root THEN {BareText} ELSE {})
    BY <2>1 DEF TextInv, IntrospectIsFresh
  <2> QED
    BY <1>2, <2>1, <2>2, <2>3
<1>4. IntrospectIsFresh'
  BY <1>3 DEF IntrospectIsFresh, BareText
<1> QED
  BY <1>2, <1>4

LEMMA TextInvInit == IntrospectInit => TextInv
<1> SUFFICES ASSUME IntrospectInit PROVE TextInv
  OBVIOUS
<1>1. TypeInv /\ text = [n \in Node |-> Unknown]
  BY TypeInvInit DEF IntrospectInit
<1>2. Live \subseteq Node
  BY DEF Live, Registered, Node
<1> QED
  BY <1>1, <1>2 DEF TextInv, IntrospectIsFresh

LEMMA TextInvStep == TextInv /\ [IntrospectNext]_introspectVars => TextInv'
<1> SUFFICES ASSUME TextInv, [IntrospectNext]_introspectVars PROVE TextInv'
  OBVIOUS
<1>1. ASSUME NEW p \in Path, NEW i \in Iface, RegisterText(p, i)
      PROVE  TextInv'
  BY <1>1, RegisterFresh, RegisterType DEF RegisterText, TextInv
<1>2. ASSUME NEW p \in Path, NEW i \in Iface, UnregisterText(p, i)
      PROVE  TextInv'
  BY <1>2, UnregisterFresh, UnregisterType DEF UnregisterText, TextInv
<1>3. CASE Signals /\ UNCHANGED text
  BY <1>3, SignalsFresh, TypeInvStep DEF Signals, Next, TextInv
<1>4. CASE AttachText
  BY <1>4, AttachFresh, AttachType DEF AttachText, TextInv
<1>5. CASE DetachText
  BY <1>5, DetachFresh, DetachType DEF DetachText, TextInv
<1>6. ASSUME NEW n \in Node, Introspect(n)
      PROVE  TextInv'
  BY <1>6, IntrospectFresh, IntrospectQuiet DEF TextInv
<1>7. CASE UNCHANGED introspectVars
  <2>1. UNCHANGED <<vars, text>>
    BY <1>7 DEF introspectVars
  <2>2. TypeInv'
    BY <2>1, TypeInvStep DEF TextInv
  <2>3. Quiet /\ Root \in Live' => Root \in Live
    BY <2>1 DEF vars, Quiet, Live, Registered
  <2>4. Quiet /\ text' = Cleared({})
    BY <2>1 DEF vars, Quiet, Cleared, TextInv
  <2>5. Live' = Live
    BY <2>1 DEF vars, Live, Registered
  <2> QED
    BY <2>2, <2>4, <2>5, QuietFresh DEF TextInv
<1> QED
  BY <1>1, <1>2, <1>3, <1>4, <1>5, <1>6, <1>7 DEF IntrospectNext

\* A text that an object keeps for Introspect names the interfaces and the
\* children that it has, wherever in the tree services register and unregister,
\* whatever rules they observe.
THEOREM IntrospectCorrect == IntrospectSpec => []IntrospectIsFresh
<1> QED
  BY TextInvInit, TextInvStep, PTL DEF IntrospectSpec, TextInv
=============================================================================
