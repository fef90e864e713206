-------------------------- MODULE ObjectManagerView --------------------------
(***************************************************************************)
(* What the ObjectManager promises its clients, without a word on how:     *)
(* each object has some content, clients hold an image of it, and the      *)
(* image only ever moves to what is true.  gdbus batches, reorders and     *)
(* suppresses signals (src/gdbus/object.c); none of that may be visible    *)
(* beyond a delay.                                                         *)
(***************************************************************************)
CONSTANTS Path, Name, Val, Absent

VARIABLES
    content,   \* content[p][n]: the value of interface n on p, or Absent
    told       \* told[p][n]: the same, as a client has it

vars == <<content, told>>

Row == [Name -> Val \union {Absent}]

Init ==
    /\ content = [p \in Path |-> [n \in Name |-> Absent]]
    /\ told = content

\* The image of an interface stays, moves to the present content, or hears of
\* a last value while the interface disappears.
Truthful(p, n) ==
    \/ told'[p][n] \in {told[p][n], content'[p][n]}
    \/ content'[p][n] = Absent /\ told'[p][n] = content[p][n]

Next ==
    /\ content' \in [Path -> Row]
    /\ told' \in [Path -> Row]
    /\ \A p \in Path, n \in Name : Truthful(p, n)

Safety == Init /\ [][Next]_vars

\* However often the contents change, clients catch up again and again.
CatchUp == \A p \in Path : []<>(told[p] = content[p])

Spec == Safety /\ CatchUp
=============================================================================
