----------------------------- MODULE GdbusWatch -----------------------------
(***************************************************************************)
(* The signal watches of gdbus (src/gdbus/watch.c): filters, one for each  *)
(* kind of signal somebody watches, with the callbacks of the watches; and *)
(* the dispatch of one signal to all filters that match it.                *)
(*                                                                         *)
(* All of it runs on one thread, and the difficulty is re-entrancy: a      *)
(* callback may add and remove watches while the filter it is called from, *)
(* and the list of all filters, are being walked.  Dispatch is therefore   *)
(* cut at every call of a user's function; what the function does are      *)
(* actions of their own, and its return is one more.                       *)
(*                                                                         *)
(* A filter is a number, never used again when the filter_data is freed, so *)
(* that a pointer to a freed one is a number that is not in listeners.     *)
(* One connection, one bus name.                                           *)
(***************************************************************************)
EXTENDS Naturals, FiniteSets, Sequences, SequencesExt

CONSTANTS
    Key,             \* what filters are told apart by, the owner excepted
    Named,           \* the keys whose sender is the well-known name
    NameKey,         \* the key of NameOwnerChanged for that name
    Signal,          \* signals but for NameOwnerChanged
    MatchedBy,       \* MatchedBy[m]: the keys whose path, interface, member
                     \* and argument m has
    Sender,          \* unique names
    Unknown, Nobody, \* owner == NULL; owner == ""
    MaxWatches, MaxFilters,      \* bounds on listener_id, on allocations
    MaxInstalled,                \* and on installations of message_filter
    WithDestroy,                 \* the watches that have a destroy_func
    Observances                  \* sets of rules that may be observed, see below

(* Callers and bus may observe these rules, which watch.c does not enforce:  *)
(*   returnsTrue   a callback that removed its own watch does not return    *)
(*                 FALSE as well                                            *)
(*   oneEmptied    the callbacks of one signal leave at most one filter     *)
(*                 without watches, and add none to it afterwards           *)
(*   noRemoveAll   g_dbus_remove_all_watches is not used: it frees the       *)
(*                 callbacks of every filter twice                          *)
(*   adds, removes the bus does not refuse AddMatch, RemoveMatch            *)
(*   keepsLast     a destroy_func does not remove the last watch of the      *)
(*                 filter that its own watch is being removed from          *)
Rule == {"returnsTrue", "oneEmptied", "noRemoveAll", "adds", "removes",
         "keepsLast"}

ASSUME WatchAssumption ==
    /\ Named \subseteq Key /\ NameKey \in Key \ Named
    /\ MatchedBy \in [Signal -> SUBSET (Key \ {NameKey})]
    /\ Unknown \notin Sender /\ Nobody \notin Sender /\ Unknown # Nobody
    /\ MaxWatches \in Nat /\ MaxFilters \in Nat /\ MaxInstalled \in Nat
    /\ Observances \subseteq SUBSET Rule
    /\ WithDestroy \subseteq Nat

Watch == 1..MaxWatches
Filter == 1..MaxFilters

\* A signal as it is dispatched: one of Signal from some sender, or the news
\* that the name has a new owner.
SignalFrom == [kind : {"signal"}, signal : Signal, sender : Sender]
OwnerChanged == [kind : {"owner"}, owner : Sender \union {Nobody}]
NoMessage == [kind |-> "none"]

VARIABLES
    observed,    \* not in the code: the rules of this behaviour
    listeners,   \* listeners
    filter,      \* filter_data of each filter, see FilterData
    lastId,      \* listener_id
    created,     \* number of filters allocated so far
    rules,       \* the connection's match rules on the bus, per key
    installed,   \* how often message_filter is installed on the connection
    silent,      \* watches without a function (name_watch)
    held,        \* not in the code: the watches that callers think they have
    dispatch,    \* where message_filter stands, see Dispatching
    removal,     \* the filter_data_remove_callback whose destroy_func runs
    due,         \* not in the code: the watches that this signal is for
    heard,       \* not in the code: calls of each watch for this signal
    fault

data == <<listeners, filter, lastId, created, rules, installed, silent>>
vars == <<observed, data, held, dispatch, removal, due, heard, fault>>

FilterData ==
    [key : Key,
     callbacks : Seq(Watch), processed : Seq(Watch),
     lock : BOOLEAN,
     owner : Sender \union {Unknown, Nobody},
     nameWatch : {0} \union Watch]

\* phase: "idle"; "filter", about to look at filter "at"; "handle", between
\* two callbacks of "at"; "call", inside the function of watch "call";
\* "removeAll", in the loop of RemoveAllWatches.
Dispatching ==
    [phase : {"idle", "filter", "handle", "call", "removeAll"},
     message : SignalFrom \union OwnerChanged \union {NoMessage},
     at : {0} \union Filter,
     call : {0} \union Watch,
     doomed : Seq(Filter),       \* delete_listener
     passes : Nat]               \* installations of message_filter to go

Idle == [phase |-> "idle", message |-> NoMessage, at |-> 0, call |-> 0,
         doomed |-> <<>>, passes |-> 0]

\* ok: what the bus will say to RemoveMatch; returns: was it called for a
\* function that returned FALSE?
Removal == [filter : Filter, ok : BOOLEAN, returns : BOOLEAN]
NoRemoval == [filter |-> 0, ok |-> TRUE, returns |-> FALSE]

Fault == {"none", "freedFilter", "freedListener", "freedCallback", "endless"}

TypeOK ==
    /\ observed \in Observances
    /\ listeners \in Seq(1..created)
    /\ filter \in [1..created -> FilterData]
    /\ lastId \in {0} \union Watch
    /\ created \in 0..MaxFilters
    /\ rules \in [Key -> Nat]
    /\ installed \in Nat
    /\ silent \subseteq 1..lastId
    /\ held \subseteq 1..lastId
    /\ dispatch \in Dispatching
    /\ removal \in Removal \union {NoRemoval}
    /\ due \subseteq 1..lastId
    /\ heard \in [Watch -> Nat]
    /\ fault \in Fault

Init ==
    /\ observed \in Observances
    /\ listeners = <<>>
    /\ filter = <<>>
    /\ lastId = 0
    /\ created = 0
    /\ rules = [k \in Key |-> 0]
    /\ installed = 0
    /\ silent = {}
    /\ held = {}
    /\ dispatch = Idle
    /\ removal = NoRemoval
    /\ due = {}
    /\ heard = [i \in Watch |-> 0]
    /\ fault = "none"

-----------------------------------------------------------------------------
(* Changes to the data of the module, as functions of a record d of it.      *)

Data == [listeners |-> listeners, filter |-> filter, lastId |-> lastId,
         created |-> created, rules |-> rules, installed |-> installed,
         silent |-> silent]

Become(d) ==
    /\ listeners' = d.listeners
    /\ filter' = d.filter
    /\ lastId' = d.lastId
    /\ created' = d.created
    /\ rules' = d.rules
    /\ installed' = d.installed
    /\ silent' = d.silent

NewFilter(k) ==
    [key |-> k, callbacks |-> <<>>, processed |-> <<>>, lock |-> FALSE,
     owner |-> Unknown, nameWatch |-> 0]

\* filter_data_find_match: the owner is compared as well, so a filter whose
\* owner has become known is not found any more.
FindMatch(d, k) ==
    SelectInSeq(d.listeners,
        LAMBDA f : d.filter[f].key = k /\ d.filter[f].owner = Unknown)

\* filter_data_get.  message_filter is installed when there is no listener,
\* and stays installed when add_match fails.
Get(d, k, ok) ==
    LET c == IF d.listeners = <<>> THEN [d EXCEPT !.installed = @ + 1] ELSE d
        i == FindMatch(d, k)
    IN  IF i # 0 THEN [d |-> c, f |-> c.listeners[i]]
        ELSE IF ~ok THEN [d |-> c, f |-> 0]
        ELSE [d |-> [c EXCEPT !.created = @ + 1,
                              !.filter = Append(@, NewFilter(k)),
                              !.listeners = Append(@, d.created + 1),
                              !.rules[k] = @ + 1],
              f |-> d.created + 1]

\* filter_data_add_callback
AddCallback(d, f) ==
    LET id == d.lastId + 1
    IN  IF d.filter[f].lock
        THEN [d EXCEPT !.lastId = id, !.filter[f].processed = Append(@, id)]
        ELSE [d EXCEPT !.lastId = id, !.filter[f].callbacks = Append(@, id)]

\* What makes a filter with key k watch its sender's owner: a watch on
\* NameOwnerChanged that has no functions.
AddNameWatch(d, f, ok) ==
    LET g == Get(d, NameKey, ok)
        e == AddCallback(g.d, g.f)
    IN  IF d.filter[f].key \notin Named \/ d.filter[f].nameWatch # 0 THEN d
        ELSE IF g.f = 0 THEN g.d
        ELSE [e EXCEPT !.filter[f].nameWatch = e.lastId,
                       !.silent = @ \union {e.lastId}]

\* (Mutant of the next: message_filter goes with any listener.)
UnlistedRemovesFilter(d, f) ==
    [d EXCEPT !.listeners = RemoveFirst(@, f), !.filter[f] = NewFilter(@.key),
              !.installed = @ - 1]

\* Take f off the listeners, and message_filter with the last one.  What f was
\* is gone.
Unlisted(d, f) ==
    LET l == RemoveFirst(d.listeners, f)
    IN  [d EXCEPT !.listeners = l,
                  !.filter[f] = NewFilter(@.key),
                  !.installed = IF l = <<>> THEN @ - 1 ELSE @]

WithoutCallback(d, f, id) ==
    [d EXCEPT !.filter[f].callbacks = RemoveFirst(@, id),
              !.filter[f].processed = RemoveFirst(@, id)]

\* (Mutant of the next: the filter goes although it is being walked.)
StaysUnlessEmpty(d, f) == d.filter[f].callbacks # <<>>

\* "Don't remove the filter if other callbacks exist or data is lock
\* processing callbacks."
Stays(d, f) == d.filter[f].callbacks # <<>> \/ d.filter[f].lock

\* (Mutant of the next: the rule stays on the bus.)
WithoutRuleForgotten(d, f) == d

WithoutRule(d, f) == [d EXCEPT !.rules[d.filter[f].key] = @ - 1]

\* filter_data_remove_callback for a name watch, whose filter has none itself.
RemoveNameWatch(d, id, ok) ==
    LET i == SelectInSeq(d.listeners,
                LAMBDA g : id \in ToSet(d.filter[g].callbacks \o d.filter[g].processed))
        f == d.listeners[i]
        e == WithoutCallback(d, f, id)
    IN  IF id = 0 \/ i = 0 THEN d
        ELSE IF Stays(e, f) \/ ~ok THEN e
        ELSE Unlisted(WithoutRule(e, f), f)

\* filter_data_free, once f is off the list.
Free(d, f, ok) ==
    RemoveNameWatch(Unlisted(d, f), d.filter[f].nameWatch, ok)

\* filter_data_remove_callback, once the callback is off its list and its
\* destroy_func has returned.  When the bus refuses RemoveMatch (ok is FALSE) the
\* filter stays, without callbacks.
Removed(d, f, ok) ==
    IF Stays(d, f) \/ ~ok THEN d ELSE Free(WithoutRule(d, f), f, ok)

\* The filter among the listeners that has watch id.
FilterOf(id) ==
    {f \in ToSet(listeners) :
        id \in ToSet(filter[f].callbacks \o filter[f].processed)}

-----------------------------------------------------------------------------
(* Callers. *)

\* Filters that are left without a watch, but for one that is about to go
\* (removal r).
Emptied(ls, fs, r) ==
    {f \in ToSet(ls) : /\ fs[f].callbacks = <<>> /\ fs[f].processed = <<>>
                       /\ f = r.filter => fs[f].lock}

\* Callers run while nothing is dispatched, or from inside a callback or a
\* destroy_func.
CallerRuns ==
    /\ fault = "none"
    /\ dispatch.phase \in {"idle", "call"}

ObservesOneEmptied ==
    "oneEmptied" \in observed /\ dispatch.phase = "call" =>
        /\ Emptied(listeners, filter, removal)
             \subseteq Emptied(listeners', filter', removal')
        /\ Cardinality(Emptied(listeners', filter', removal')) <= 1

\* g_dbus_add_signal_watch, g_dbus_add_properties_watch and, for NameKey,
\* g_dbus_add_service_watch.
AddWatch(k, ok, okName) ==
    LET g == Get(Data, k, ok)
        e == AddCallback(g.d, g.f)
    IN  /\ CallerRuns
        /\ lastId + 2 <= MaxWatches /\ created + 2 <= MaxFilters
        /\ g.d.installed <= MaxInstalled
        /\ ok \/ "adds" \notin observed
        /\ okName \/ "adds" \notin observed
        /\ IF g.f = 0
           THEN Become(g.d) /\ UNCHANGED held
           ELSE /\ Become(AddNameWatch(e, g.f, okName))
                /\ held' = held \union {e.lastId}
        /\ UNCHANGED <<dispatch, removal, due, heard, fault>>
        /\ ObservesOneEmptied

\* filter_data_remove_callback for watch id of filter f.  If it has a
\* destroy_func, that runs next, and callers with it; FinishRemoval is the rest.
\* Inside of one removal, other destroy_funcs do nothing.
RemoveCallback(f, id, ok, returns) ==
    LET d == WithoutCallback(Data, f, id)
    IN  IF id \in WithDestroy /\ removal = NoRemoval
        THEN /\ Become(d)
             /\ removal' = [filter |-> f, ok |-> ok, returns |-> returns]
        ELSE Become(Removed(d, f, ok)) /\ UNCHANGED removal

\* g_dbus_remove_watch
RemoveWatch(id, ok) ==
    /\ CallerRuns
    /\ id \in held
    /\ ok \/ "removes" \notin observed
    /\ \E f \in FilterOf(id) : RemoveCallback(f, id, ok, FALSE)
    /\ held' = held \ {id}
    /\ "keepsLast" \in observed /\ removal # NoRemoval =>
          removal.filter \in ToSet(listeners')
    /\ ObservesOneEmptied
    /\ UNCHANGED <<dispatch, due, heard, fault>>

\* destroy_func returns, and the removal that called it goes on with its filter.
FinishRemoval ==
    LET f == removal.filter
    IN  /\ fault = "none"
        /\ removal # NoRemoval /\ removal' = NoRemoval
        /\ IF f \in ToSet(listeners)
           THEN Become(Removed(Data, f, removal.ok)) /\ UNCHANGED fault
           ELSE fault' = "freedFilter" /\ UNCHANGED data
        /\ dispatch' = IF removal.returns
                       THEN [dispatch EXCEPT !.phase = "handle", !.call = 0]
                       ELSE dispatch
        /\ UNCHANGED <<held, due, heard>>

\* g_dbus_remove_all_watches, whose loop no caller interrupts unless it is
\* called from inside a callback or a destroy_func, whose filter it frees.
RemoveAllWatches ==
    /\ CallerRuns
    /\ "noRemoveAll" \notin observed
    /\ listeners # <<>>
    /\ IF dispatch.phase = "call" \/ removal # NoRemoval
       THEN fault' = "freedFilter" /\ UNCHANGED dispatch
       ELSE dispatch' = [Idle EXCEPT !.phase = "removeAll"] /\ UNCHANGED fault
    /\ UNCHANGED <<data, held, removal, due, heard>>

\* Its loop: the first of the filters goes, and its match rule stays.
\* filter_data_call_and_free frees the callbacks and leaves them on the list, and
\* filter_data_free frees them again: only a filter without callbacks goes well.
RemoveFirstFilter ==
    LET f == Head(listeners)
    IN  /\ fault = "none"
        /\ dispatch.phase = "removeAll"
        /\ listeners # <<>>
        /\ IF filter[f].callbacks # <<>>
           THEN fault' = "freedCallback" /\ UNCHANGED data
           ELSE Become(Free(Data, f, TRUE)) /\ UNCHANGED fault
        /\ UNCHANGED <<held, dispatch, removal, due, heard>>

AllRemoved ==
    /\ dispatch.phase = "removeAll"
    /\ listeners = <<>>
    /\ dispatch' = Idle
    /\ UNCHANGED <<data, held, removal, due, heard, fault>>

-----------------------------------------------------------------------------
(* message_filter *)

\* Does the dispatched message m match filter f?  A filter for the name that
\* knows its owner takes signals of that owner only.
Matching(m, f) ==
    CASE m.kind = "owner"  -> filter[f].key = NameKey
      [] m.kind = "signal" ->
            /\ filter[f].key \in MatchedBy[m.signal]
            /\ filter[f].owner \in {Unknown, m.sender}

Deliver(m) ==
    /\ fault = "none"
    /\ dispatch.phase = "idle" /\ removal = NoRemoval
    /\ installed > 0 /\ listeners # <<>>
    /\ dispatch' = [Idle EXCEPT !.phase = "filter", !.message = m,
                                !.at = Head(listeners), !.passes = installed]
    /\ due' = {id \in held : \E f \in FilterOf(id) : Matching(m, f)}
    /\ heard' = [i \in Watch |-> 0]
    /\ UNCHANGED <<data, held, removal, fault>>

\* The walk goes on behind filter f, or ends.
After(f, doomed) ==
    LET i == SelectInSeq(listeners', LAMBDA g : g = f)
    IN  [dispatch EXCEPT !.phase = "filter", !.call = 0, !.doomed = doomed,
            !.at = IF i = Len(listeners') THEN 0 ELSE listeners'[i + 1]]

Skip ==
    /\ fault = "none"
    /\ dispatch.phase = "filter" /\ dispatch.at # 0
    /\ ~Matching(dispatch.message, dispatch.at)
    /\ UNCHANGED <<data, held, removal, due, heard, fault>>
    /\ dispatch' = After(dispatch.at, dispatch.doomed)

\* Lock the filter and enter signal_filter or service_filter, which starts
\* with update_name_cache.
Enter ==
    LET m == dispatch.message
        Cached(f) == IF m.kind = "owner" /\ filter[f].key \in Named
                        /\ f \in ToSet(listeners)
                     THEN [filter[f] EXCEPT !.owner = m.owner]
                     ELSE filter[f]
    IN  /\ fault = "none"
        /\ dispatch.phase = "filter" /\ dispatch.at # 0
        /\ Matching(m, dispatch.at)
        /\ filter' = [[f \in DOMAIN filter |-> Cached(f)]
                        EXCEPT ![dispatch.at].lock = TRUE]
        /\ dispatch' = [dispatch EXCEPT !.phase = "handle"]
        /\ UNCHANGED <<listeners, lastId, created, rules, installed, silent,
                       held, removal, due, heard, fault>>

\* (Mutant of the next: the watch stays where it is as well.)
MovedTwice(f, id) ==
    IF id \in ToSet(filter[f].callbacks)
    THEN [filter EXCEPT ![f].processed = Append(@, id)]
    ELSE filter

\* From callbacks to processed, if the watch is still there.
Moved(f, id) ==
    IF id \in ToSet(filter[f].callbacks)
    THEN [filter EXCEPT ![f].callbacks = RemoveFirst(@, id),
                        ![f].processed = Append(@, id)]
    ELSE filter

\* The next callback: a watch without functions is done at once.
Call ==
    LET f == dispatch.at
        id == Head(filter[f].callbacks)
    IN  /\ fault = "none"
        /\ dispatch.phase = "handle"
        /\ filter[f].callbacks # <<>>
        /\ IF id \in silent
           THEN filter' = Moved(f, id) /\ UNCHANGED <<dispatch, due, heard>>
           ELSE /\ dispatch' = [dispatch EXCEPT !.phase = "call", !.call = id]
                /\ heard' = [heard EXCEPT ![id] = @ + 1]
                /\ UNCHANGED filter
        /\ UNCHANGED <<listeners, lastId, created, rules, installed, silent,
                       held, removal, due, fault>>

\* The function returns TRUE, or is of a service watch and returns nothing.
ReturnTrue ==
    /\ fault = "none"
    /\ dispatch.phase = "call" /\ removal = NoRemoval
    /\ filter' = Moved(dispatch.at, dispatch.call)
    /\ dispatch' = [dispatch EXCEPT !.phase = "handle", !.call = 0]
    /\ UNCHANGED <<listeners, lastId, created, rules, installed, silent, held,
                   removal, due, heard, fault>>

\* It returns FALSE: the watch is removed, without a look at whether it is
\* still there.
ReturnFalse ==
    LET f == dispatch.at
        id == dispatch.call
    IN  /\ fault = "none"
        /\ dispatch.phase = "call" /\ removal = NoRemoval
        /\ filter[f].key # NameKey
        /\ "returnsTrue" \in observed => id \in held
        /\ RemoveCallback(f, id, TRUE, TRUE)
        /\ held' = held \ {id}
        /\ dispatch' = IF removal' # NoRemoval THEN dispatch
                       ELSE [dispatch EXCEPT !.phase = "handle", !.call = 0]
        /\ fault' = IF id \in held THEN "none" ELSE "freedCallback"
        /\ ObservesOneEmptied
        /\ UNCHANGED <<due, heard>>

\* (Mutant of the next: the watches that were called are forgotten.)
LeaveForgetting ==
    LET f == dispatch.at
    IN  /\ fault = "none"
        /\ dispatch.phase = "handle"
        /\ filter[f].callbacks = <<>>
        /\ filter' = [filter EXCEPT ![f].processed = <<>>, ![f].lock = FALSE]
        /\ UNCHANGED <<listeners, lastId, created, rules, installed, silent,
                       held, removal, due, heard, fault>>
        /\ dispatch' = After(f, dispatch.doomed)

\* The handler is through with the filter.
Leave ==
    LET f == dispatch.at
    IN  /\ fault = "none"
        /\ dispatch.phase = "handle"
        /\ filter[f].callbacks = <<>>
        /\ filter' = [filter EXCEPT ![f].callbacks = filter[f].processed,
                                    ![f].processed = <<>>,
                                    ![f].lock = FALSE]
        /\ UNCHANGED <<listeners, lastId, created, rules, installed, silent,
                       held, removal, due, heard>>
        /\ IF f \in ToSet(listeners)
           THEN /\ dispatch' = After(f, IF filter[f].processed = <<>>
                                        THEN <<f>> \o dispatch.doomed
                                        ELSE dispatch.doomed)
                /\ fault' = "none"
           ELSE fault' = "freedFilter" /\ UNCHANGED dispatch

\* message_filter returns; if it is installed twice, it is called once more.
Returns ==
    dispatch' = IF dispatch.passes > 1 /\ listeners' # <<>>
                THEN [Idle EXCEPT !.phase = "filter", !.at = Head(listeners'),
                                  !.message = dispatch.message,
                                  !.passes = dispatch.passes - 1]
                ELSE Idle

Walked == fault = "none" /\ dispatch.phase = "filter" /\ dispatch.at = 0

\* The loop over delete_listener, with the result of remove_match ignored.
\* Its increment is "current = delete_listener->next", so it visits the first
\* entry and then the second one, over and over.
DeleteNone ==
    /\ Walked
    /\ dispatch.doomed = <<>>
    /\ UNCHANGED <<data, held, removal, due, heard, fault>>
    /\ Returns

DeleteOne(ok) ==
    LET f == dispatch.doomed[1]
    IN  /\ Walked
        /\ Len(dispatch.doomed) = 1
        /\ ok \/ "removes" \notin observed
        /\ IF f \notin ToSet(listeners)
           THEN fault' = "freedListener" /\ UNCHANGED <<data, dispatch>>
           ELSE /\ Become(IF filter[f].callbacks # <<>> THEN Data
                          ELSE Free(IF ok THEN WithoutRule(Data, f) ELSE Data,
                                    f, ok))
                /\ Returns
                /\ UNCHANGED fault
        /\ UNCHANGED <<held, removal, due, heard>>

DeleteMore ==
    LET second == dispatch.doomed[2]
    IN  /\ Walked
        /\ Len(dispatch.doomed) > 1
        /\ fault' = IF /\ dispatch.doomed[1] \in ToSet(listeners)
                       /\ second \in ToSet(listeners)
                       /\ filter[second].callbacks # <<>>
                    THEN "endless" ELSE "freedListener"
        /\ UNCHANGED <<data, held, dispatch, removal, due, heard>>

Step ==
    \/ \E k \in Key, ok \in BOOLEAN, okName \in BOOLEAN :
          AddWatch(k, ok, okName)
    \/ \E id \in Watch, ok \in BOOLEAN : RemoveWatch(id, ok)
    \/ FinishRemoval
    \/ RemoveAllWatches
    \/ RemoveFirstFilter
    \/ AllRemoved
    \/ \E m \in SignalFrom \union OwnerChanged : Deliver(m)
    \/ Skip
    \/ Enter
    \/ Call
    \/ ReturnTrue
    \/ ReturnFalse
    \/ Leave
    \/ DeleteNone
    \/ \E ok \in BOOLEAN : DeleteOne(ok)
    \/ DeleteMore

Next == Step /\ UNCHANGED observed

Spec == Init /\ [][Next]_vars

-----------------------------------------------------------------------------
(* Properties. *)

\* Unless g_dbus_remove_all_watches is used, a watch is with exactly one listed
\* filter from the moment its caller has the id until the watch is removed,
\* wherever the walk over the filters is; and no filter has a watch that its
\* caller has removed.  No other rule is needed for this.
WatchesAreHeld ==
    "noRemoveAll" \in observed /\ fault = "none" =>
        /\ \A id \in held : Cardinality(FilterOf(id)) = 1
        /\ \A f \in ToSet(listeners) :
            ToSet(filter[f].callbacks \o filter[f].processed)
                \subseteq held \union silent

\* With no signal under way, the bus has one match rule for each filter, and
\* message_filter is on the connection once while there are filters, and not at
\* all otherwise: "Remove filter if there are no listeners left for the
\* connection" (watch.c:284).
BusMatchesFilters ==
    observed = Rule /\ dispatch.phase = "idle" =>
        /\ \A k \in Key :
            rules[k] = Cardinality({f \in ToSet(listeners) : filter[f].key = k})
        /\ installed = IF listeners = <<>> THEN 0 ELSE 1

\* A signal reaches every watch that is for it and is not removed on the way,
\* once, whatever watches the callbacks add and remove.
DeliveredOnce ==
    observed = Rule =>
        /\ \A id \in Watch : heard[id] <= 1
        /\ dispatch.phase = "filter" /\ dispatch.at = 0 =>
              \A id \in due \intersect held : heard[id] = 1

\* Callers that observe the rules meet no freed memory and no endless loop.
NoFault == observed = Rule => fault = "none"

\* "Has any other callback added callbacks back to this data?" (watch.c:578):
\* the loop asks this of each filter that was left without callbacks, and ends.
DeleteLoopEnds == fault \notin {"freedListener", "endless"}
=============================================================================
