----------------------------- MODULE GdbusMethod -----------------------------
(***************************************************************************)
(* How an object answers method calls (generic_message of                  *)
(* src/gdbus/object.c): a method that asks for a privilege waits on        *)
(* pending_security until the service's security function, or polkit       *)
(* (src/gdbus/polkit.c), gives its verdict; Properties.Set waits on        *)
(* pending_property_set until the property's set function has an answer;   *)
(* an asynchronous method answers when it pleases.                         *)
(*                                                                         *)
(* There is one object with one interface.  The registration of the        *)
(* interface is a number: it stands for the user data that the interface   *)
(* is registered with and that its destroy function frees.  Numbers of     *)
(* requests are never reused (the code's are 32 bits wide).  What a reply  *)
(* flushes is the subject of GdbusObject.                                  *)
(***************************************************************************)
EXTENDS Naturals, FiniteSets, Sequences, SequencesExt, FiniteSetsExt

CONSTANTS
    Method,           \* the methods that clients call, see Kind
    MaxCalls,         \* bound on the calls
    MaxRegistrations, \* bound on registrations of the interface
    MaxTables,        \* bound on registrations of the security table
    MaxRuns,          \* bound on what "ran" counts
    Observances       \* sets of rules that may be observed, see below

(* What a method does.  "set" is Properties.Set, "unknown" is not in the    *)
(* table, is experimental, or has other arguments; "plain" stands for       *)
(* Properties.Get and GetAll as well.                                       *)
(* What its privilege is in the security table: not there, with the table's *)
(* function, or with G_DBUS_SECURITY_FLAG_BUILTIN.                          *)
Kind == {"plain", "async", "noReply", "set", "unknown"}
Check == {"none", "function", "builtin"}

(* Rules that the service may observe, and object.c does not enforce:       *)
(*   replies  a method that is not asynchronous returns a reply, and a get  *)
(*            function succeeds                                             *)
(*   drained  the interface is not unregistered while a verdict on one of   *)
(*            its methods is awaited                                        *)
Rule == {"replies", "drained"}

ASSUME MethodAssumption ==
    /\ Method \subseteq [kind : Kind, check : Check]
    /\ \A m \in Method : m.kind \in {"set", "unknown"} => m.check = "none"
    /\ MaxCalls \in Nat /\ MaxRegistrations \in Nat /\ MaxTables \in Nat
    /\ MaxRuns \in Nat \ {0, 1}
    /\ Observances \subseteq SUBSET Rule

Call == 1..MaxCalls

VARIABLES
    observed,      \* not in the code: the rules of this behaviour
    registration,  \* the interface's user data; 0 if it is not registered
    registrations, \* how many there have been
    table,         \* security_table # NULL
    tables,        \* how often it was registered
    method,        \* the method of each call so far
    inbox,         \* calls that the connection has not dispatched
    nextPending,   \* next_pending
    security,      \* pending_security
    polkit,        \* requests that polkit has not answered
    nextProperty,  \* next_pending_property
    setting,       \* pending_property_set
    working,       \* asynchronous methods that have not replied
    asked,         \* not in the code: the call of each request
    verdict,       \* not in the code: what the first answer to it was
    ran,           \* not in the code: how often its function ran, to MaxRuns
    answers,       \* not in the code: how often the call was answered
    fault

host == <<registration, registrations, table, tables>>
lists == <<nextPending, security, polkit, nextProperty, setting, working>>
history == <<asked, verdict, ran, answers>>
vars == <<observed, host, method, inbox, lists, history, fault>>

SecurityData == [pending : Call, call : Call, user : 1..MaxRegistrations]
PropertyData == [id : Call, call : Call]
Ids(l) == {l[i].id : i \in DOMAIN l}
Pendings(l) == {l[i].pending : i \in DOMAIN l}
CallsOf(l) == {l[i].call : i \in DOMAIN l}

\* The types, and: a call waits in one place at most.
TypeOK ==
    /\ observed \in Observances
    /\ registrations \in 0..MaxRegistrations
    /\ registration \in {0, registrations}
    /\ table \in BOOLEAN /\ tables \in 0..MaxTables
    /\ method \in Seq(Method) /\ Len(method) <= MaxCalls
    /\ inbox \in Seq(DOMAIN method)
    /\ nextPending \in 1..(MaxCalls + 1) /\ nextProperty \in 1..(MaxCalls + 1)
    /\ security \in Seq(SecurityData) /\ Pendings(security) \subseteq 1..(nextPending - 1)
    /\ polkit \subseteq 1..(nextPending - 1)
    /\ setting \in Seq(PropertyData) /\ Ids(setting) \subseteq 1..(nextProperty - 1)
    /\ working \subseteq DOMAIN method
    /\ asked \in [1..(nextPending - 1) -> DOMAIN method]
    /\ verdict \in [Call -> {"none", "open", "granted", "denied"}]
    /\ ran \in [Call -> 0..MaxRuns] /\ answers \in [Call -> Nat]
    /\ fault \in {"none", "freedUserData"}
    /\ IsInjective(inbox)
    /\ Len(security) = Cardinality(CallsOf(security))
    /\ Len(setting) = Cardinality(CallsOf(setting))

Init ==
    /\ observed \in Observances
    /\ registration = 0 /\ registrations = 0
    /\ table = FALSE /\ tables = 0
    /\ method = <<>> /\ inbox = <<>>
    /\ nextPending = 1 /\ security = <<>> /\ polkit = {}
    /\ nextProperty = 1 /\ setting = <<>>
    /\ working = {}
    /\ asked = <<>>
    /\ verdict = [c \in Call |-> "none"]
    /\ ran = [c \in Call |-> 0]
    /\ answers = [c \in Call |-> 0]
    /\ fault = "none"

-----------------------------------------------------------------------------
(* Calls come in, and the host comes and goes. *)

CallArrives(m) ==
    /\ Len(method) < MaxCalls
    /\ method' = Append(method, m)
    /\ inbox' = Append(inbox, Len(method'))
    /\ UNCHANGED <<observed, host, lists, history, fault>>

\* g_dbus_register_interface
RegisterInterface ==
    /\ registration = 0 /\ registrations < MaxRegistrations
    /\ registrations' = registrations + 1
    /\ registration' = registrations'
    /\ UNCHANGED <<observed, table, tables, method, inbox, lists, history, fault>>

\* g_dbus_unregister_interface and the interface's destroy function.  No list
\* of object.c is looked through for what refers to the interface.
UnregisterInterface ==
    /\ registration # 0
    /\ "drained" \in observed => \A c \in Call : verdict[c] # "open"
    /\ registration' = 0
    /\ UNCHANGED <<observed, registrations, table, tables, method, inbox, lists,
                   history, fault>>

RegisterSecurity ==
    /\ ~table /\ tables < MaxTables
    /\ table' = TRUE
    /\ tables' = tables + 1
    /\ UNCHANGED <<observed, registration, registrations, method, inbox, lists,
                   history, fault>>

UnregisterSecurity ==
    /\ table
    /\ table' = FALSE
    /\ UNCHANGED <<observed, registration, registrations, tables, method, inbox,
                   lists, history, fault>>

-----------------------------------------------------------------------------
(* Running a method. *)

Answered(a, c) == [a EXCEPT ![c] = @ + 1]

\* properties_set: an error at once, or the property's set function is called,
\* whose answer takes the steps PropertySuccess and PropertyError below, even
\* if it comes before the function returns.
PropertiesSet(c) ==
    \/ /\ answers' = Answered(answers, c)
       /\ UNCHANGED <<nextProperty, setting>>
    \/ /\ setting' = <<[id |-> nextProperty, call |-> c]>> \o setting
       /\ nextProperty' = nextProperty + 1
       /\ UNCHANGED answers

\* process_message calls the method's function.  done is FALSE if it returns
\* DBUS_HANDLER_RESULT_NEED_MEMORY.
ProcessMessage(c, done) ==
    LET kind == method[c].kind
    IN  /\ ran' = [ran EXCEPT ![c] = Min({@ + 1, MaxRuns})]
        /\ done \/ (kind = "plain" /\ "replies" \notin observed)
        /\ IF kind = "set"
           THEN PropertiesSet(c) /\ UNCHANGED working
           ELSE /\ UNCHANGED <<nextProperty, setting>>
                /\ \/ /\ kind \in {"plain", "async"} /\ done
                      /\ answers' = Answered(answers, c)
                      /\ UNCHANGED working
                   \/ /\ kind = "async"
                      /\ working' = working \union {c}
                      /\ UNCHANGED answers
                   \/ /\ kind = "noReply" \/ ~done
                      /\ UNCHANGED <<working, answers>>

-----------------------------------------------------------------------------
(* Verdicts. *)

\* The first entry for request n
Entry(i, n) ==
    /\ security[i].pending = n
    /\ \A j \in 1..(i - 1) : security[j].pending # n

Noted(n, v) ==
    IF n \in DOMAIN asked /\ verdict[asked[n]] = "open"
    THEN [verdict EXCEPT ![asked[n]] = v] ELSE verdict

\* (Mutant of the next: the newest request is taken for the one meant.)
PendingSuccessNewest(n) ==
    LET s == security[1]
    IN  /\ security # <<>>
        /\ security' = RemoveAt(security, 1)
        /\ verdict' = Noted(n, "granted")
        /\ \E done \in BOOLEAN : ProcessMessage(s.call, done)
        /\ fault' = IF s.user = registration THEN fault ELSE "freedUserData"

\* g_dbus_pending_success: the method runs with the user data that its
\* interface had when the call came, and what process_message returns is lost.
PendingSuccess(n) ==
    \E i \in 1..Len(security) :
        /\ Entry(i, n)
        /\ security' = RemoveAt(security, i)
        /\ verdict' = Noted(n, "granted")
        /\ \E done \in BOOLEAN : ProcessMessage(security[i].call, done)
        /\ fault' = IF security[i].user = registration THEN fault
                    ELSE "freedUserData"

\* g_dbus_pending_error, which answers a call that wants no reply as well
PendingError(n) ==
    \E i \in 1..Len(security) :
        /\ Entry(i, n)
        /\ security' = RemoveAt(security, i)
        /\ verdict' = Noted(n, "denied")
        /\ answers' = Answered(answers, security[i].call)
        /\ UNCHANGED <<nextProperty, setting, working, ran, fault>>

\* The table's function gives its verdict on request n: once, again, or on a
\* request that does not wait any more, which nobody minds.
SecurityAnswers(n) ==
    /\ n \in DOMAIN asked /\ method[asked[n]].check = "function"
    /\ PendingSuccess(n) \/ PendingError(n)
    /\ UNCHANGED <<observed, host, method, inbox, nextPending, polkit, asked>>

\* authorization_reply and builtin_security_result: polkit's verdict, an error,
\* an answer of another type, or none within 30 seconds
PolkitAnswers(n) ==
    /\ n \in polkit
    /\ polkit' = polkit \ {n}
    /\ PendingSuccess(n) \/ PendingError(n)
    /\ UNCHANGED <<observed, host, method, inbox, nextPending, asked>>

-----------------------------------------------------------------------------
(* The main loop dispatches a call. *)


\* (Mutant of the next: all requests have the same number.)
CheckPrivilegeSameNumber(c) ==
    /\ asked' = Append(asked, c)
    /\ security' = <<[pending |-> nextPending, call |-> c,
                      user |-> registration]>> \o security
    /\ polkit' = IF method[c].check = "builtin"
                 THEN polkit \union {nextPending} ELSE polkit
    /\ verdict' = [verdict EXCEPT ![c] = "open"]
    /\ UNCHANGED <<nextPending, nextProperty, setting, working, ran, answers>>

\* check_privilege: the request goes to the table's function, or to polkit, and
\* if that cannot be asked the call is answered with an error at once.
CheckPrivilege(c) ==
    /\ nextPending' = nextPending + 1
    /\ asked' = Append(asked, c)
    /\ \/ /\ security' = <<[pending |-> nextPending, call |-> c,
                            user |-> registration]>> \o security
          /\ polkit' = IF method[c].check = "builtin"
                       THEN polkit \union {nextPending} ELSE polkit
          /\ verdict' = [verdict EXCEPT ![c] = "open"]
          /\ UNCHANGED answers
       \/ /\ method[c].check = "builtin"
          /\ verdict' = [verdict EXCEPT ![c] = "denied"]
          /\ answers' = Answered(answers, c)
          /\ UNCHANGED <<security, polkit>>
    /\ UNCHANGED <<nextProperty, setting, working, ran>>

\* libdbus answers what no object handles.
NotYetHandled(c) ==
    /\ answers' = Answered(answers, c)
    /\ UNCHANGED <<lists, asked, verdict, ran>>

\* generic_message.  After DBUS_HANDLER_RESULT_NEED_MEMORY libdbus puts the call
\* back to where it was.
GenericMessage ==
    LET c == Head(inbox)
    IN  /\ inbox # <<>>
        /\ IF registration = 0 \/ method[c].kind = "unknown"
           THEN NotYetHandled(c) /\ inbox' = Tail(inbox)
           ELSE IF table /\ method[c].check # "none"
           THEN CheckPrivilege(c) /\ inbox' = Tail(inbox)
           ELSE \E done \in BOOLEAN :
                    /\ ProcessMessage(c, done)
                    /\ inbox' = IF done THEN Tail(inbox) ELSE inbox
                    /\ UNCHANGED <<nextPending, security, polkit, asked, verdict>>
        /\ UNCHANGED <<observed, host, method, fault>>

-----------------------------------------------------------------------------
(* Late answers. *)

\* The first entry for the Set with number n
SetEntry(i, n) ==
    /\ setting[i].id = n
    /\ \A j \in 1..(i - 1) : setting[j].id # n

\* (Mutant of the next: the request stays in the list.)
PropertyAnsweredKeeps(n) ==
    \E i \in 1..Len(setting) :
        /\ SetEntry(i, n)
        /\ answers' = Answered(answers, setting[i].call)
        /\ UNCHANGED <<observed, host, method, inbox, nextPending, security, polkit,
                       nextProperty, setting, working, asked, verdict, ran, fault>>

\* g_dbus_pending_property_success and _error, of which the first counts
PropertyAnswered(n) ==
    \E i \in 1..Len(setting) :
        /\ SetEntry(i, n)
        /\ setting' = RemoveAt(setting, i)
        /\ answers' = Answered(answers, setting[i].call)
        /\ UNCHANGED <<observed, host, method, inbox, nextPending, security, polkit,
                       nextProperty, working, asked, verdict, ran, fault>>

\* An asynchronous method replies with g_dbus_send_message.
MethodReplies(c) ==
    /\ c \in working
    /\ working' = working \ {c}
    /\ answers' = Answered(answers, c)
    /\ UNCHANGED <<observed, host, method, inbox, nextPending, security, polkit,
                   nextProperty, setting, asked, verdict, ran, fault>>

-----------------------------------------------------------------------------

Next ==
    /\ fault = "none"
    /\ \/ \E m \in Method : CallArrives(m)
       \/ RegisterInterface \/ UnregisterInterface
       \/ RegisterSecurity \/ UnregisterSecurity
       \/ GenericMessage
       \/ \E n \in Call : SecurityAnswers(n) \/ PolkitAnswers(n)
       \/ \E n \in Call : PropertyAnswered(n) \/ MethodReplies(n)

Spec == Init /\ [][Next]_vars

\* The main loop dispatches; the table's function, polkit (if only by its
\* time-out), set functions and asynchronous methods answer what they are asked.
FairSpec ==
    /\ Spec
    /\ WF_vars(GenericMessage)
    /\ \A n \in Call :
           /\ WF_vars(SecurityAnswers(n)) /\ WF_vars(PolkitAnswers(n))
           /\ WF_vars(PropertyAnswered(n)) /\ WF_vars(MethodReplies(n))

-----------------------------------------------------------------------------
(* Properties. *)

\* A call is answered once at most, however often, late or contradictory the
\* verdict on it or the answer to its Set is given (object.c:285-328, 448-477).
AnsweredOnce == \A c \in Call : answers[c] <= 1

\* The first verdict on the call itself counts: its function runs only when it
\* was granted or no check was asked for (object.c:383-421, 1063-1065).
RunsIfGranted ==
    [][\A c \in Call : ran'[c] # ran[c] => verdict'[c] \in {"none", "granted"}]_vars

\* With a service that observes the rules, a function runs with the user data of
\* the interface as it is (object.c:400), and once at most.
RunsOnLiveData ==
    observed = Rule => fault = "none" /\ \A c \in Call : ran[c] <= 1

=============================================================================
