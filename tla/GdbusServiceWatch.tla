-------------------------- MODULE GdbusServiceWatch --------------------------
(***************************************************************************)
(* Watching whether a bus name has an owner (g_dbus_add_service_watch and  *)
(* g_dbus_add_disconnect_watch of src/gdbus/watch.c).                      *)
(*                                                                         *)
(* Each watch hears of the name from two sides: the NameOwnerChanged       *)
(* signal, and a first look that check_service takes when the watch is     *)
(* added, either by asking the bus (GetNameOwner) or, when some signal     *)
(* watch for the same name has seen its owner already, from that cache in  *)
(* an idle callback.  What bus and connection exchange stays in order; the *)
(* idle callback has no place in that order.                               *)
(*                                                                         *)
(* How filters keep their callbacks is GdbusWatch's subject: here there is *)
(* one filter, and the bus accepts its match rule.                         *)
(***************************************************************************)
EXTENDS Naturals, Sequences, SequencesExt

CONSTANTS
    Watch,             \* service watches
    Conn, Disc,        \* those with a connect, with a disconnect function
    Owner, Nobody,     \* unique names that may own the name; no owner
    Unknown, NoFilter, \* owner == NULL; no signal watch for the name
    MaxChanges         \* bound on changes of the owner

ASSUME ServiceWatchAssumption ==
    /\ Conn \subseteq Watch /\ Disc \subseteq Watch
    /\ Unknown \notin Owner /\ NoFilter \notin Owner /\ Nobody \notin Owner
    /\ Unknown # NoFilter /\ Unknown # Nobody /\ NoFilter # Nobody
    /\ MaxChanges \in Nat

VARIABLES
    unique,     \* is the name a unique name itself (":1.5")?
    owner,      \* the bus: who owns the name
    changes,    \* how often that has changed
    requests,   \* GetNameOwner calls that the bus has not answered
    inbox,      \* what the bus has sent and the connection not dispatched
    state,      \* state of each watch
    callbacks,  \* the filter's callbacks, in the order they were added
    check,      \* the callback's service_data: "none", "call" or "idle"
    cache,      \* owner that signal filters for the name have
    news,       \* the NameOwnerChanged under dispatch says this
    todo,       \* ... and these callbacks are still to be called for it
    belief,     \* which function of the watch was called last
    metOwner,   \* not in the code: had the name an owner since the watch came?
    hurried,    \* not in the code: is old news under way, see Hurried?
    doubted     \* not in the code: watches whose first look tells nothing sure

bus == <<unique, owner, changes, requests>>
vars == <<bus, inbox, state, callbacks, check, cache, news, todo, belief,
          metOwner, hurried, doubted>>

Changed == [kind : {"changed"}, owner : Owner \union {Nobody}]
Reply == [kind : {"reply"}, watch : Watch, owner : Owner \union {Nobody}]

\* The types, and: exactly the active watches have a callback in the filter,
\* and only such are still to be called (watch.c:354-380).
TypeOK ==
    /\ unique \in BOOLEAN
    /\ owner \in Owner \union {Nobody}
    /\ changes \in 0..MaxChanges
    /\ requests \in Seq(Watch)
    /\ inbox \in Seq(Changed \union Reply)
    /\ state \in [Watch -> {"absent", "active", "removed"}]
    /\ callbacks \in Seq(Watch)
    /\ check \in [Watch -> {"none", "call", "idle"}]
    /\ cache \in Owner \union {Nobody, Unknown, NoFilter}
    /\ news \in Owner \union {Nobody}
    /\ todo \in Seq(Watch)
    /\ belief \in [Watch -> {"none", "conn", "disc"}]
    /\ metOwner \in [Watch -> BOOLEAN]
    /\ hurried \in BOOLEAN
    /\ doubted \subseteq Watch
    /\ ToSet(callbacks) = {w \in Watch : state[w] = "active"}
    /\ ToSet(todo) \subseteq ToSet(callbacks)
    /\ IsInjective(callbacks)

Init ==
    /\ unique \in BOOLEAN
    /\ owner \in Owner \union {Nobody}
    /\ changes = 0
    /\ requests = <<>>
    /\ inbox = <<>>
    /\ state = [w \in Watch |-> "absent"]
    /\ callbacks = <<>>
    /\ check = [w \in Watch |-> "none"]
    /\ cache = NoFilter
    /\ news = Nobody
    /\ todo = <<>>
    /\ belief = [w \in Watch |-> "none"]
    /\ metOwner = [w \in Watch |-> FALSE]
    /\ hurried = FALSE
    /\ doubted = {}

-----------------------------------------------------------------------------
(* The bus. *)

\* The bus has a match rule for the name while some watch needs it.
MatchRule == callbacks # <<>> \/ cache # NoFilter

\* The name is watched anew before the main loop has dispatched the news that
\* an earlier match rule brought: what follows them may have been missed.
Hurried ==
    /\ hurried \/ ~MatchRule
    /\ \E i \in DOMAIN inbox : inbox[i].kind = "changed"

\* The name changes hands, and the connection hears of it if it has a match
\* rule for that.  A unique name that is gone does not come back.
OwnerChanges(o) ==
    /\ changes < MaxChanges
    /\ o # owner
    /\ unique => o = Nobody
    /\ owner' = o
    /\ changes' = changes + 1
    /\ inbox' = IF MatchRule
                THEN Append(inbox, [kind |-> "changed", owner |-> o])
                ELSE inbox
    /\ metOwner' = [w \in Watch |->
                       metOwner[w] \/ (state[w] = "active" /\ o # Nobody)]
    /\ UNCHANGED <<unique, requests, state, callbacks, check, cache, news, todo,
                   belief, hurried, doubted>>

\* GetNameOwner is answered in the order it was asked; Nobody is an error.
BusAnswers ==
    /\ requests # <<>>
    /\ requests' = Tail(requests)
    /\ inbox' = Append(inbox, [kind |-> "reply", watch |-> Head(requests),
                               owner |-> owner])
    /\ UNCHANGED <<unique, owner, changes, state, callbacks, check, cache, news,
                   todo, belief, metOwner, hurried, doubted>>

-----------------------------------------------------------------------------
(* Callers, who may also be inside a callback. *)

\* (Mutant of the next: one look is enough for all watches of the filter.)
AddServiceWatchOneLook(w) ==
    /\ state[w] = "absent"
    /\ state' = [state EXCEPT ![w] = "active"]
    /\ callbacks' = Append(callbacks, w)
    /\ IF callbacks # <<>>
       THEN UNCHANGED <<check, requests>>
       ELSE /\ check' = [check EXCEPT ![w] = "call"]
            /\ requests' = Append(requests, w)
    /\ metOwner' = [metOwner EXCEPT ![w] = owner # Nobody]
    /\ hurried' = Hurried
    /\ doubted' = IF hurried' \/ cache \notin {Unknown, NoFilter}
                  THEN doubted \union {w} ELSE doubted
    /\ UNCHANGED <<unique, owner, changes, inbox, cache, news, todo, belief>>

\* g_dbus_add_service_watch with check_service: a known owner comes from the
\* cache, "" of a name that is gone included.
AddServiceWatch(w) ==
    /\ state[w] = "absent"
    /\ state' = [state EXCEPT ![w] = "active"]
    /\ callbacks' = Append(callbacks, w)
    /\ IF w \notin Conn
       THEN UNCHANGED <<check, requests>>
       ELSE IF cache \in {Unknown, NoFilter}
       THEN /\ check' = [check EXCEPT ![w] = "call"]
            /\ requests' = Append(requests, w)
       ELSE /\ check' = [check EXCEPT ![w] = "idle"]
            /\ UNCHANGED requests
    /\ metOwner' = [metOwner EXCEPT ![w] = owner # Nobody]
    /\ hurried' = Hurried
    /\ doubted' = IF hurried' \/ cache \notin {Unknown, NoFilter}
                  THEN doubted \union {w} ELSE doubted
    /\ UNCHANGED <<unique, owner, changes, inbox, cache, news, todo, belief>>

\* (Mutant of the next: the first look goes on.)
RemoveWithoutCancel(w) ==
    /\ state[w] = "active"
    /\ state' = [state EXCEPT ![w] = "removed"]
    /\ callbacks' = RemoveFirst(callbacks, w)
    /\ todo' = RemoveFirst(todo, w)
    /\ UNCHANGED <<bus, inbox, check, cache, news, belief, metOwner, hurried,
                   doubted>>

\* (Mutant of the next: the callback is not taken off the list under dispatch.)
RemoveWhileCalled(w) ==
    /\ state[w] = "active"
    /\ state' = [state EXCEPT ![w] = "removed"]
    /\ callbacks' = RemoveFirst(callbacks, w)
    /\ check' = [check EXCEPT ![w] = "none"]
    /\ UNCHANGED <<bus, inbox, todo, cache, news, belief, metOwner, hurried,
                   doubted>>

\* g_dbus_remove_watch and filter_data_remove_callback: a call is cancelled,
\* an idle callback removed.
RemoveServiceWatch(w) ==
    /\ state[w] = "active"
    /\ state' = [state EXCEPT ![w] = "removed"]
    /\ callbacks' = RemoveFirst(callbacks, w)
    /\ todo' = RemoveFirst(todo, w)
    /\ check' = [check EXCEPT ![w] = "none"]
    /\ UNCHANGED <<bus, inbox, cache, news, belief, metOwner, hurried,
                   doubted>>

\* A signal watch for the name comes or goes, with its own watch on the owner.
AddSignalWatch ==
    /\ cache = NoFilter
    /\ cache' = Unknown
    /\ hurried' = Hurried
    /\ UNCHANGED <<bus, inbox, state, callbacks, check, news, todo, belief,
                   metOwner, doubted>>

RemoveSignalWatch ==
    /\ cache # NoFilter
    /\ cache' = NoFilter
    /\ UNCHANGED <<bus, inbox, state, callbacks, check, news, todo, belief,
                   metOwner, hurried, doubted>>

-----------------------------------------------------------------------------
(* The main loop. *)

\* service_filter starts on a NameOwnerChanged: update_name_cache.
NameOwnerChanged ==
    /\ todo = <<>>
    /\ inbox # <<>> /\ Head(inbox).kind = "changed"
    /\ inbox' = Tail(inbox)
    /\ news' = Head(inbox).owner
    /\ todo' = callbacks
    /\ cache' = IF cache = NoFilter THEN cache ELSE Head(inbox).owner
    /\ UNCHANGED <<bus, state, callbacks, check, belief, metOwner, hurried,
                   doubted>>

\* The function of watch w that the news is for.
Told(w) ==
    IF news = Nobody
    THEN IF w \in Disc THEN "disc" ELSE belief[w]
    ELSE IF w \in Conn THEN "conn" ELSE belief[w]

\* ... and goes on with the next callback, which it removes by itself if the
\* name is unique and the watch has one function only.
CallNext ==
    LET w == Head(todo)
        done == unique /\ w \notin Conn \intersect Disc
    IN  /\ todo # <<>>
        /\ todo' = Tail(todo)
        /\ belief' = [belief EXCEPT ![w] = Told(w)]
        /\ state' = IF done THEN [state EXCEPT ![w] = "removed"] ELSE state
        /\ callbacks' = IF done THEN RemoveFirst(callbacks, w) ELSE callbacks
        /\ check' = IF done THEN [check EXCEPT ![w] = "none"] ELSE check
        /\ UNCHANGED <<bus, inbox, cache, news, metOwner, hurried, doubted>>

\* (Mutant of the next: an error counts as an owner.)
ServiceReplyUnchecked ==
    LET w == Head(inbox).watch
    IN  /\ todo = <<>>
        /\ inbox # <<>> /\ Head(inbox).kind = "reply"
        /\ inbox' = Tail(inbox)
        /\ check' = [check EXCEPT ![w] = "none"]
        /\ belief' = IF check[w] = "call"
                     THEN [belief EXCEPT ![w] = "conn"] ELSE belief
        /\ UNCHANGED <<bus, state, callbacks, cache, news, todo, metOwner,
                   hurried, doubted>>

\* service_reply, unless the call was cancelled or has timed out.
ServiceReply ==
    LET w == Head(inbox).watch
    IN  /\ todo = <<>>
        /\ inbox # <<>> /\ Head(inbox).kind = "reply"
        /\ inbox' = Tail(inbox)
        /\ check' = [check EXCEPT ![w] = "none"]
        /\ belief' = IF check[w] = "call" /\ Head(inbox).owner # Nobody
                     THEN [belief EXCEPT ![w] = "conn"] ELSE belief
        /\ UNCHANGED <<bus, state, callbacks, cache, news, todo, metOwner,
                   hurried, doubted>>

\* service_reply with the error that libdbus makes when the answer is late.
TimesOut(w) ==
    /\ todo = <<>>
    /\ check[w] = "call"
    /\ doubted' = doubted \union {w}
    /\ check' = [check EXCEPT ![w] = "none"]
    /\ UNCHANGED <<bus, inbox, state, callbacks, cache, news, todo, belief,
                   metOwner, hurried>>

\* update_service as idle callback
UpdateService(w) ==
    /\ todo = <<>>
    /\ check[w] = "idle"
    /\ check' = [check EXCEPT ![w] = "none"]
    /\ belief' = [belief EXCEPT ![w] = "conn"]
    /\ UNCHANGED <<bus, inbox, state, callbacks, cache, news, todo, metOwner,
                   hurried, doubted>>

MainLoop ==
    NameOwnerChanged \/ CallNext \/ ServiceReply \/ \E w \in Watch : UpdateService(w)

Next ==
    \/ \E o \in Owner \union {Nobody} : OwnerChanges(o)
    \/ BusAnswers
    \/ \E w \in Watch : AddServiceWatch(w) \/ RemoveServiceWatch(w) \/ TimesOut(w)
    \/ AddSignalWatch
    \/ RemoveSignalWatch
    \/ MainLoop

Spec == Init /\ [][Next]_vars

\* The bus answers, and the main loop runs what is ready.
FairSpec == Spec /\ WF_vars(BusAnswers) /\ WF_vars(MainLoop)

-----------------------------------------------------------------------------
(* Properties. *)

Quiet ==
    /\ inbox = <<>> /\ requests = <<>> /\ todo = <<>>
    /\ \A w \in Watch : check[w] = "none"

\* With nothing under way, the last function called is the right one, whether
\* the answer or the signals came first, were merged or crossed: a watch with
\* both functions knows if the name has an owner, and one that saw an owner
\* knows if it is gone (watch.c:458-694).  Excepted are watches whose owner came
\* from the cache, whose look timed out or that were added in a hurry.
BeliefSettles ==
    Quiet => \A w \in Watch \ doubted : state[w] = "active" =>
        /\ w \in Conn \intersect Disc => (belief[w] = "conn" <=> owner # Nobody)
        /\ w \in Disc /\ metOwner[w] /\ owner = Nobody => belief[w] = "disc"

\* "Cancel pending operations" (watch.c:372): no function of a removed watch is
\* called, though its call is answered or its turn comes later.
NoCallAfterRemoval ==
    [][\A w \in Watch : state[w] = "removed" => belief'[w] = belief[w]]_vars

\* A watch whose name keeps its owner is told so in the end, with the same
\* exceptions.
OwnerIsLearned ==
    \A w \in Conn : (state[w] = "active" /\ owner # Nobody)
        ~> (\/ belief[w] = "conn" \/ owner = Nobody
            \/ state[w] = "removed" \/ w \in doubted)
=============================================================================
