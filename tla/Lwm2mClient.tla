----------------------------- MODULE Lwm2mClient -----------------------------
(***************************************************************************)
(* The client side of liblwm2m and the loop that drives it: registration   *)
(* with every configured server (core/registration.c), the resources the   *)
(* servers observe and their notifications (core/observe.c), the requests  *)
(* the servers send (core/management.c, core/objects.c and the object of   *)
(* tests/client/object.c), the registration transactions                   *)
(* (core/transaction.c), the dispatch of received packets (core/packet.c), *)
(* lwm2m_step and lwm2m_close (core/liblwm2m.c), and the select() loop of  *)
(* tests/client/lwm2mclient.c.                                             *)
(*                                                                         *)
(* Servers are numbered in the order of serverList and are known by that   *)
(* number as an address.  observedList and the watcherList of each of its  *)
(* elements are functions: the code keeps at most one element per path and *)
(* one watcher per server.  Where the order of these lists decides         *)
(* something, every order is allowed.                                      *)
(***************************************************************************)
EXTENDS Transaction, FiniteSets

CONSTANTS
    NServers,       \* servers added by lwm2m_add_server
    Addrs,          \* addresses packets come from, the servers' among them
    Family,         \* address -> its length, which prv_findServer compares
    Uris,           \* records [obj, inst, res], None for an absent part
    Access,         \* path -> "R", "RW", "E", "no object", "no resource"
    Empty,          \* paths of integers without a value, of objects too long
    Wild,           \* paths of strings without a value, or off the table
    Values,         \* what a resource may hold
    Locations,      \* location paths servers assign
    MaxMid,         \* bound: message IDs the context hands out
    MaxCounter,     \* bound: observe options sent to a watcher
    MaxLate,        \* bound: seconds the loop may be late at lwm2m_step
    SelectTimeout,  \* what the loop sleeps for when nothing is due, 60
    Requests,       \* requests that peers may send
    Replies,        \* other packets that peers may send
    Faults,         \* calls that may fail: malloc, gettimeofday, sendto
    ObjectsFreed,   \* had the program freed the objects when it closes?
    None

Servers == 1..NServers
Mids    == 0..(MaxMid - 1)

Tokens    == {r.token : r \in Requests}
Statuses  == {"UNKNOWN", "REG_PENDING", "REGISTERED"}
Watchers  == [token : Tokens, counter : 0..MaxCounter, lastMid : Mids]
Transactions == [server : Servers, timer : Timers]
Misuses == {"no watcher", "no location", "objects freed", "block",
            "no value", "dead payload"}

ASSUME BoundsAssumption ==
    /\ NServers \in Nat \ {0} /\ MaxMid \in Nat \ {0} /\ MaxCounter \in Nat
    /\ MaxLate \in Nat /\ SelectTimeout \in Nat \ {0}

ASSUME InputAssumption ==
    /\ Servers \subseteq Addrs
    /\ Access \in [Uris -> {"R", "RW", "E", "no object", "no resource"}]
    /\ Empty \subseteq Uris /\ Wild \subseteq Uris
    /\ Faults \subseteq {"alloc", "clock", "send"}
    /\ ObjectsFreed \subseteq BOOLEAN
    /\ IsFiniteSet(Uris)
    /\ \A r \in Requests : r.from \in Addrs /\ r.uri \in Uris
    /\ \A r \in Requests : r.op = "write" => r.data \in Values \cup {None}
    /\ \A r \in Replies : r.from \in Addrs /\ r.mid \in Mids
                          /\ r.location \in Locations \cup {None}

ASSUME NoneAssumption ==
    /\ None \notin Transactions /\ None \notin Watchers
    /\ None \notin Locations /\ None \notin Int /\ None \notin Replies
    /\ None \notin [Servers -> Watchers \cup {None}]

VARIABLES
    status,         \* of each server
    regMid,         \* mid of each server: the registration that counts
    location,       \* of each server, None before the first registration
    observed,       \* path -> watcher of each server, or None
    value,          \* what each path of the objects holds
    transactions,   \* transactionList: Mids -> registration or None
    nextMID,        \* nextMID of the context
    phase,          \* "start", "step", "select", "closed", "undefined"
    timeout,        \* tv.tv_sec handed to select(), counting down
    sent,           \* packets sent by the last step
    accepted,       \* history: the last 2.01 that registered each server
    unheard,        \* history: servers whose answer changed nothing
    misuse          \* history: what happened that the engine does not guard

vars == <<status, regMid, location, observed, value, transactions, nextMID,
          phase, timeout, sent, accepted, unheard, misuse>>

registration == <<status, regMid, location, accepted, unheard>>

-----------------------------------------------------------------------------
(* Helpers                                                                  *)

HasInstance(u) == u.inst # None
HasResource(u) == u.res # None

Pending == {m \in Mids : transactions[m] # None}

NoWatchers == [s \in Servers |-> None]

\* The observedList as a set of path and server.
Watched == {w \in Uris \X Servers :
               observed[w[1]] # None /\ observed[w[1]][w[2]] # None}

Watcher(w) == observed[w[1]][w[2]]

RegisterRequest(m, s) == [to |-> s, mid |-> m, op |-> "register"]

GoUndefined ==
    /\ phase' = "undefined"
    /\ sent' = {}
    /\ UNCHANGED <<registration, observed, value, transactions, nextMID, timeout>>

-----------------------------------------------------------------------------
Init ==
    /\ status = [s \in Servers |-> "UNKNOWN"]
    /\ regMid = [s \in Servers |-> 0]
    /\ location = [s \in Servers |-> None]
    /\ observed = [u \in Uris |-> None]
    /\ value \in [Uris -> Values]
    /\ transactions = [m \in Mids |-> None]
    /\ nextMID = 0
    /\ phase = "start"
    /\ timeout = SelectTimeout
    /\ sent = {}
    /\ accepted = [s \in Servers |-> None]
    /\ unheard = {}
    /\ misuse = {}

-----------------------------------------------------------------------------
(* Registration                                                             *)

NewRegistration(s) == [server |-> s, timer |-> NewTimer]

SentAgain(t, clockOk) == [t EXCEPT !.timer = Resent(@, clockOk)]

\* Variant: the status is not looked at.
SilenceAlways(ss) ==
    /\ status' = [s \in Servers |-> IF s \in ss THEN "UNKNOWN" ELSE status[s]]
    /\ regMid' = [s \in Servers |-> IF s \in ss THEN 0 ELSE regMid[s]]

\* prv_handleRegistrationReply for the servers in ss when their answer did
\* not come.
Silence(ss) ==
    /\ status' = [s \in Servers |-> IF s \in ss /\ status[s] = "REG_PENDING"
                                    THEN "UNKNOWN" ELSE status[s]]
    /\ regMid' = [s \in Servers |-> IF s \in ss /\ status[s] = "REG_PENDING"
                                    THEN 0 ELSE regMid[s]]

\* Variant: the request is taken for its answer.
OutcomeHopeful(s, launched, noClock) ==
    IF s \in launched THEN "REGISTERED" ELSE status[s]

\* What lwm2m_register makes of a server's status: only the requests that
\* left and are in the transaction list count.
Outcome(s, launched, noClock) ==
    IF s \in launched THEN "REG_PENDING"
    ELSE IF s \in noClock /\ status[s] = "REG_PENDING" THEN "UNKNOWN"
    ELSE status[s]

\* Variant: the request is sent but not added to the transaction list.
RegistrationLost(s, noBuffer, noClock) == None

\* The transaction of server s after the loop of lwm2m_register.
Registration(s, noBuffer, noClock) ==
    IF s \in noBuffer THEN NewRegistration(s)
    ELSE IF s \in noClock THEN None
    ELSE SentAgain(NewRegistration(s), TRUE)

DeadPayload(noBuffer) == IF noBuffer = {} THEN {} ELSE {"dead payload"}

\* lwm2m_register: a request to every server, until one cannot be allocated
\* (server number `stop`; or no memory for the query, before the first).  At
\* the start of the program that ends it.  A request without a buffer stays
\* in the list with a payload that is a local array of this function.
Register ==
    /\ phase \in {"start", "select"}
    /\ nextMID + NServers <= MaxMid
    /\ \E stop \in 1..(NServers + 1), noBuffer \in SUBSET Servers :
       \E noClock \in SUBSET Servers :
          LET asked    == 1..(stop - 1)
              launched == asked \ (noBuffer \cup noClock)
              Mid(s)   == nextMID + s - 1
          IN  /\ noBuffer \cap noClock = {} /\ noBuffer \cup noClock \subseteq asked
              /\ stop <= NServers \/ noBuffer # {} => "alloc" \in Faults
              /\ noClock # {} => "clock" \in Faults
              /\ phase' = IF phase = "start" /\ stop <= NServers
                          THEN "closed" ELSE "step"
              /\ transactions' = [m \in Mids |->
                    IF \E s \in asked : m = Mid(s)
                    THEN Registration(m - nextMID + 1, noBuffer, noClock)
                    ELSE transactions[m]]
              /\ status' = [s \in Servers |-> Outcome(s, launched, noClock)]
              /\ regMid' = [s \in Servers |->
                    IF s \in launched THEN Mid(s)
                    ELSE IF s \in noClock /\ status[s] = "REG_PENDING" THEN 0
                    ELSE regMid[s]]
              /\ sent' = {RegisterRequest(Mid(s), s) : s \in asked \ noBuffer}
              /\ \/ nextMID' = nextMID + (IF stop <= NServers THEN stop ELSE NServers)
                 \/ stop = 1 /\ nextMID' = nextMID
              /\ unheard' = unheard \ launched
              /\ misuse' = misuse \cup DeadPayload(noBuffer)
    /\ UNCHANGED <<location, observed, value, timeout, accepted>>

\* Variant: whatever registration the answer belongs to.
CountsForAny(msg, s) ==
    status[s] = "REG_PENDING" /\ msg.type = "ACK" /\ msg.location # None

\* The answer prv_handleRegistrationReply looks at the code of.
CountsFor(msg, s) ==
    /\ status[s] = "REG_PENDING" /\ msg.mid = regMid[s]
    /\ msg.type = "ACK" /\ msg.location # None

\* prv_handleRegistrationReply on a packet of server s.
RegistrationReply(msg, s) ==
    \/ /\ CountsFor(msg, s) /\ msg.code = "2.01"
       /\ status' = [status EXCEPT ![s] = "REGISTERED"]
       /\ \/ location' = [location EXCEPT ![s] = msg.location] /\ UNCHANGED misuse
          \/ \* no memory for the location: registered nonetheless
             /\ "alloc" \in Faults
             /\ location' = [location EXCEPT ![s] = None]
             /\ misuse' = misuse \cup {"no location"}
       /\ accepted' = [accepted EXCEPT ![s] = msg]
       /\ UNCHANGED <<regMid, unheard>>
    \/ /\ CountsFor(msg, s) /\ msg.code = "4.00"
       /\ status' = [status EXCEPT ![s] = "UNKNOWN"]
       /\ regMid' = [regMid EXCEPT ![s] = 0]
       /\ UNCHANGED <<location, accepted, unheard, misuse>>
    \/ /\ ~(CountsFor(msg, s) /\ msg.code \in {"2.01", "4.00"})
       /\ unheard' = IF status[s] = "REG_PENDING" /\ msg.mid = regMid[s]
                     THEN unheard \cup {s} ELSE unheard
       /\ UNCHANGED <<status, regMid, location, accepted, misuse>>

\* The transaction lookup of lwm2m_handle_packet and handle_response.
AnswerTransaction(msg) ==
    IF transactions[msg.mid] = None \/ transactions[msg.mid].server # msg.from
    THEN UNCHANGED <<registration, transactions, misuse>>
    ELSE /\ RegistrationReply(msg, msg.from)
         /\ transactions' = [transactions EXCEPT ![msg.mid] = None]

-----------------------------------------------------------------------------
(* Requests of the servers                                                  *)

\* object_read and prv_object_read.
ReadCode(u) ==
    CASE Access[u] \in {"no object", "no resource"} -> "4.04"
      [] Access[u] = "E" /\ HasResource(u)          -> "4.05"
      [] u \in Empty                                -> "5.00"
      [] OTHER                                      -> "2.05"

\* object_write and prv_object_write; data is None when it is no number.
WriteCode(u, data) ==
    CASE Access[u] = "no object"   -> "4.04"
      [] ~HasResource(u)           -> "5.01"
      [] Access[u] = "no resource" -> "4.04"
      [] Access[u] # "RW"          -> "4.05"
      [] data = None \/ u \in Empty -> "4.00"
      [] OTHER                     -> "2.04"

\* object_create_execute and prv_object_execute; the test that should let a
\* create through is always false.
PostCode(u, data) ==
    CASE Access[u] = "no object"   -> "4.04"
      [] ~HasResource(u)           -> "4.00"
      [] data # None               -> "4.00"
      [] Access[u] = "no resource" -> "4.04"
      [] Access[u] # "E"           -> "4.05"
      [] OTHER                     -> "2.04"

\* object_delete; the objects have no deleteFunc.
DeleteCode(u) ==
    CASE HasResource(u)          -> "4.00"
      [] Access[u] = "no object" -> "4.04"
      [] OTHER                   -> "4.05"

\* Any failure is sent as an ACK without the token of the request.
Failure(msg, code) ==
    [to |-> msg.from, mid |-> msg.mid, type |-> "ACK", code |-> code,
     token |-> None, counter |-> None, data |-> None]

\* The answer to a request that was carried out.  A NON answer has a message
\* ID of its own.
Response(msg, code, counter, data) ==
    [to |-> msg.from, mid |-> IF msg.con THEN msg.mid ELSE None,
     type |-> IF msg.con THEN "ACK" ELSE "NON", code |-> code,
     token |-> msg.token, counter |-> counter, data |-> data]

Refused(msg, code) ==
    /\ phase' = "step" /\ sent' = {Failure(msg, code)}
    /\ UNCHANGED <<observed, misuse>>

\* The end of lwm2m_handle_packet on a request that was carried out.  What
\* message_send returns takes the place of the answer's code, and of the 5.01
\* of a Block1 option: when nothing left, 5.00 follows.  A Block2 option cuts
\* the payload: behind the offset ("later"), or past its end, which 4.02
\* tells, what is freed after the answer left is not what was allocated.
Answered(msg, code, counter, data) ==
    LET answer == Response(msg, code, counter, data)
    IN  \/ /\ msg.block2 = "none" \/ (msg.block2 = "first" /\ data # None)
           /\ phase' = "step" /\ UNCHANGED misuse
           /\ \/ sent' = {answer}
              \/ "send" \in Faults /\ sent' = {Failure(msg, "5.00")}
        \/ /\ msg.block2 # "none"
           /\ phase' = "undefined" /\ misuse' = misuse \cup {"block"}
           /\ \E c \in {code, "4.02"} :
                 sent' = {[answer EXCEPT !.code = c, !.data = None]}

\* GET without an Observe option; there may be no memory for the value.
ReadRequest(msg) ==
    /\ msg.op = "read"
    /\ UNCHANGED value
    /\ IF ReadCode(msg.uri) # "2.05" THEN Refused(msg, ReadCode(msg.uri))
       ELSE \/ /\ Answered(msg, "2.05", None, value[msg.uri])
               /\ UNCHANGED observed
            \/ "alloc" \in Faults /\ Refused(msg, "5.00")

\* POST.  The function of an executable resource may fail half-way: whether it
\* does or not, it stores what it likes in its object.
PostRequest(msg) ==
    /\ msg.op = "post"
    /\ IF PostCode(msg.uri, msg.data) # "2.04"
       THEN Refused(msg, PostCode(msg.uri, msg.data)) /\ UNCHANGED value
       ELSE /\ \/ Answered(msg, "2.04", None, None) /\ UNCHANGED observed
               \/ Refused(msg, "4.00")
            /\ value' \in [Uris -> Values]
            /\ \A u \in Uris : u.obj # msg.uri.obj => value'[u] = value[u]

\* DELETE.
DeleteRequest(msg) ==
    /\ msg.op = "delete"
    /\ Refused(msg, DeleteCode(msg.uri)) /\ UNCHANGED value

\* Variant: the value is stored before the resource is looked at.
WriteFirst(msg) ==
    /\ msg.op = "write"
    /\ value' = IF msg.data = None THEN value
                ELSE [value EXCEPT ![msg.uri] = msg.data]
    /\ IF WriteCode(msg.uri, msg.data) # "2.04"
       THEN Refused(msg, WriteCode(msg.uri, msg.data))
       ELSE Answered(msg, "2.04", None, None) /\ UNCHANGED observed

\* PUT.
WriteRequest(msg) ==
    /\ msg.op = "write"
    /\ IF WriteCode(msg.uri, msg.data) # "2.04"
       THEN Refused(msg, WriteCode(msg.uri, msg.data)) /\ UNCHANGED value
       ELSE /\ value' = [value EXCEPT ![msg.uri] = msg.data]
            /\ Answered(msg, "2.04", None, None) /\ UNCHANGED observed

\* Variant: the first server, whatever the address.
FirstServer(from) == {1}

\* prv_findServer: the first server whose address is as long as the sender's.
FoundServer(from) ==
    {s \in Servers : /\ Family[s] = Family[from]
                     /\ \A r \in Servers : r < s => Family[r] # Family[from]}

\* prv_getObserved: the element of the path, or a new one.
WatchersOf(u) == IF observed[u] = None THEN NoWatchers ELSE observed[u]

\* prv_findWatcher finds the server's watcher, which keeps its token, or a
\* new one is made.
AddWatcher(msg, s) ==
    LET u   == msg.uri
        old == WatchersOf(u)
        w   == IF old[s] # None THEN old[s]
               ELSE [token |-> msg.token, counter |-> 0, lastMid |-> 0]
    IN  \/ /\ w.counter < MaxCounter
           /\ observed' = [observed EXCEPT
                 ![u] = [old EXCEPT ![s] = [w EXCEPT !.counter = @ + 1]]]
           /\ Answered(msg, "2.05", w.counter, value[u])
        \/ \* the element of observedList cannot be allocated
           /\ "alloc" \in Faults /\ observed[u] = None
           /\ Refused(msg, "5.00")
        \/ \* its watcher cannot: the element stays, without a watcher
           /\ "alloc" \in Faults /\ old[s] = None
           /\ observed' = [observed EXCEPT ![u] = old]
           /\ phase' = "step" /\ sent' = {Failure(msg, "5.00")}
           /\ misuse' = IF old = NoWatchers THEN misuse \cup {"no watcher"}
                        ELSE misuse

\* GET with an Observe option: object_read, then handle_observe_request.
ObserveRequest(msg) ==
    /\ msg.op = "observe"
    /\ UNCHANGED value
    /\ \/ IF ReadCode(msg.uri) # "2.05" THEN Refused(msg, ReadCode(msg.uri))
          ELSE IF \/ ~HasInstance(msg.uri) /\ HasResource(msg.uri)
                  \/ msg.token = None
          THEN Refused(msg, "4.00")
          ELSE IF \E s \in FoundServer(msg.from) : status[s] = "REGISTERED"
          THEN \E s \in FoundServer(msg.from) : AddWatcher(msg, s)
          ELSE Refused(msg, "4.01")
       \/ \* no memory for the value
          /\ "alloc" \in Faults /\ ReadCode(msg.uri) = "2.05"
          /\ Refused(msg, "5.00")

\* The pointer to a value is not there, and prv_object_read (a string) or
\* prv_object_write (a string) follows it; or exec_download and its like are
\* called for an entry that is off their table.
Strays(msg) ==
    /\ msg.uri \in Wild
    /\ \/ msg.op \in {"read", "observe"} /\ ReadCode(msg.uri) = "2.05"
       \/ msg.op = "post" /\ PostCode(msg.uri, msg.data) = "2.04"
       \/ msg.op = "write" /\ HasResource(msg.uri) /\ Access[msg.uri] = "RW"

\* lwm2m_handle_packet on a request.  Nothing remembers the message ID: a
\* request that comes twice is executed twice.
HandleRequest(msg) ==
    /\ phase = "select"
    /\ \/ Strays(msg) /\ GoUndefined /\ misuse' = misuse \cup {"no value"}
       \/ /\ ~Strays(msg)
          /\ \/ ReadRequest(msg) \/ WriteRequest(msg) \/ PostRequest(msg)
             \/ DeleteRequest(msg) \/ ObserveRequest(msg)
       \/ \* no memory for the path
          /\ "alloc" \in Faults
          /\ Refused(msg, "4.00") /\ UNCHANGED value
    /\ UNCHANGED <<registration, transactions, nextMID, timeout>>

-----------------------------------------------------------------------------
(* Notifications                                                            *)

\* prv_getObservedList: a change of u concerns what was observed as t.
Concerns(u, t) ==
    /\ t.obj = u.obj
    /\ ~HasInstance(u) \/ ~HasInstance(t) \/ t.inst = u.inst
    /\ ~HasResource(u) \/ ~HasResource(t) \/ t.res = u.res

\* Variant: one message ID for all the watchers of a resource.
NotificationMidsShared(ws) == [ws -> {nextMID}]

\* The message IDs of the notifications, in the order of the lists.
NotificationMids(ws) ==
    {f \in [ws -> nextMID..(nextMID + Cardinality(ws) - 1)] :
        \A v, w \in ws : f[v] = f[w] => v = w}

Notified(w, mid) == [Watcher(w) EXCEPT !.lastMid = mid, !.counter = @ + 1]

\* Variant: the token of the first watcher of the list.
TokenOfFirst(w) == Watcher(CHOOSE x \in Watched : TRUE).token

TokenOf(w) == Watcher(w).token

Notification(w, mid) ==
    [to |-> w[2], mid |-> mid, type |-> "ACK", code |-> "2.04",
     token |-> TokenOf(w), counter |-> Watcher(w).counter,
     data |-> value[w[1]]]

\* The notifications to the watchers in ws, and what is kept of them.
NotifyAll(ws) ==
    /\ nextMID + Cardinality(ws) <= MaxMid
    /\ \A w \in ws : Watcher(w).counter < MaxCounter
    /\ \E mid \in NotificationMids(ws) :
          /\ observed' = [t \in Uris |->
                IF observed[t] = None THEN None
                ELSE [s \in Servers |->
                        IF <<t, s>> \in ws THEN Notified(<<t, s>>, mid[<<t, s>>])
                        ELSE observed[t][s]]]
          /\ sent' = {Notification(w, mid[w]) : w \in ws}
    /\ nextMID' = nextMID + Cardinality(ws)

\* lwm2m_resource_value_changed.  An element whose entry in the list of the
\* concerned, or whose value, finds no memory is passed over.
ResourceValueChanged(u) ==
    /\ phase = "select" /\ phase' = "step"
    /\ \E over \in SUBSET {t \in Uris : observed[t] # None /\ Concerns(u, t)} :
          /\ over # {} => "alloc" \in Faults
          /\ NotifyAll({w \in Watched : /\ Concerns(u, w[1]) /\ w[1] \notin over
                                        /\ ReadCode(w[1]) = "2.05"})
    /\ UNCHANGED <<registration, value, transactions, timeout, misuse>>

\* The command "change URI DATA": what follows the path is not looked at.
Change(u, data) == ResourceValueChanged(u)

\* The program gives a resource another value, as status_run does on every
\* period of its timer; nobody is notified.
UpdateObject(u, v) ==
    /\ phase = "select" /\ phase' = "step"
    /\ value' = [value EXCEPT ![u] = v]
    /\ sent' = {}
    /\ UNCHANGED <<registration, observed, transactions, nextMID, timeout, misuse>>

\* The watchers a reset message may be meant for.
MeantBy(msg) == {w \in Watched : w[2] = msg.from /\ Watcher(w).lastMid = msg.mid}

\* Variant: an element without a watcher stays in the list.
UnwatchedKept(w) == [observed EXCEPT ![w[1]][w[2]] = None]

\* The lists without a watcher.
Unwatched(w) ==
    LET rest == [observed[w[1]] EXCEPT ![w[2]] = None]
    IN  [observed EXCEPT ![w[1]] = IF rest = NoWatchers THEN None ELSE rest]

\* Variant: the walk goes on after the first match.
CancelEvery(msg) ==
    observed' = [u \in Uris |->
        IF \E w \in MeantBy(msg) : w[1] = u THEN None ELSE observed[u]]

\* cancel_observe: the first watcher that was sent this message ID last.
CancelObserve(msg) ==
    IF MeantBy(msg) = {} THEN UNCHANGED observed
    ELSE \E w \in MeantBy(msg) : observed' = Unwatched(w)

\* The walk of cancel_observe may reach an element without a watcher.
WalksOff(msg) == msg.type = "RST" /\ \E u \in Uris : observed[u] = NoWatchers

\* lwm2m_handle_packet on anything but a request.
ReceiveReply(msg) ==
    /\ phase = "select"
    /\ \/ WalksOff(msg) /\ GoUndefined /\ UNCHANGED misuse
       \/ /\ WalksOff(msg) => MeantBy(msg) # {}
          /\ IF msg.type = "RST" THEN CancelObserve(msg) ELSE UNCHANGED observed
          /\ AnswerTransaction(msg)
          /\ phase' = "step" /\ sent' = {}
          /\ UNCHANGED <<value, nextMID, timeout>>

-----------------------------------------------------------------------------
(* The loop                                                                 *)

\* The requests without a buffer: transaction_send serialises them first.
Unserialised == {m \in Pending : Unsent(transactions[m].timer)}

\* The transactions lwm2m_step calls transaction_send on, and those it sends
\* for the last time.
Touched == {m \in Pending : Due(transactions[m].timer)}

Gone == {m \in Touched : GivesUp(transactions[m].timer, TRUE)}

Walked(touched, gone) ==
    [m \in Mids |-> IF m \in gone THEN None
                    ELSE IF m \in touched THEN SentAgain(transactions[m], TRUE)
                    ELSE transactions[m]]

IsSleep(s, ms) ==
    /\ s \in 1..SelectTimeout
    /\ \A m \in ms : s <= Interval(transactions'[m].timer)
    /\ s = SelectTimeout \/ \E m \in ms : s = Interval(transactions'[m].timer)

WalkList(touched, gone) ==
    /\ transactions' = Walked(touched, gone)
    /\ Silence({transactions[m].server : m \in gone})
    /\ sent' = {RegisterRequest(m, transactions[m].server) : m \in touched}
    /\ \E s \in 1..SelectTimeout :
          /\ IsSleep(s, {m \in Mids : transactions'[m] # None})
          /\ timeout' = s

\* lwm2m_step.  A request that has no buffer yet is serialised now, from the
\* payload lwm2m_register had on its stack.  Without a clock the step fails,
\* and the program ends.
Lwm2mStep ==
    /\ phase = "step"
    /\ \/ Unserialised # {} /\ GoUndefined
       \/ /\ Unserialised = {} /\ phase' = "select"
          /\ WalkList(Touched, Gone)
          /\ UNCHANGED <<location, observed, value, nextMID, accepted, unheard>>
       \/ /\ "clock" \in Faults /\ phase' = "closed"
          /\ sent' = {}
          /\ UNCHANGED <<registration, observed, value, transactions, nextMID,
                         timeout>>
    /\ UNCHANGED misuse

\* select() returns because its timeout ran out.
Wake ==
    /\ phase = "select" /\ timeout = 0 /\ phase' = "step"
    /\ sent' = {}
    /\ UNCHANGED <<registration, observed, value, transactions, nextMID,
                   timeout, misuse>>

\* A second passes: in select(), or on the way to lwm2m_step when the
\* machine is slow.
Tick ==
    /\ \/ /\ phase = "select" /\ timeout > 0
          /\ timeout' = timeout - 1
       \/ /\ phase = "step" /\ Pending # {} /\ MaxLate > 0
          /\ \A m \in Pending : transactions[m].timer.wait > -MaxLate
          /\ UNCHANGED timeout
    /\ transactions' = [m \in Mids |->
          IF transactions[m] = None THEN None
          ELSE [transactions[m] EXCEPT !.timer = Aged(@)]]
    /\ sent' = {}
    /\ UNCHANGED <<registration, observed, value, nextMID, phase, misuse>>

\* Packets registration_deregister sends to the servers in ss.
Farewells(ss) ==
    {[to |-> s, op |-> "deregister", location |-> location[s],
      mid |-> nextMID + Cardinality({r \in ss : r < s})] : s \in ss}

\* lwm2m_close.  tests/client frees the objects before it calls it.
Close(objectsFreed) ==
    LET registered == {s \in Servers : status[s] = "REGISTERED"}
    IN  /\ phase = "select"
        /\ IF objectsFreed \/ \E s \in registered : location[s] = None
           THEN /\ GoUndefined
                /\ misuse' = IF objectsFreed THEN misuse \cup {"objects freed"}
                             ELSE misuse
           ELSE /\ phase' = "closed"
                /\ sent' = Farewells(registered)
                /\ status' = [s \in Servers |-> IF s \in registered THEN "UNKNOWN"
                                                ELSE status[s]]
                /\ observed' = [u \in Uris |-> None]
                /\ transactions' = [m \in Mids |-> None]
                /\ UNCHANGED <<regMid, location, value, nextMID, timeout,
                               accepted, unheard, misuse>>

\* ^C: the loop ends, and the process with it.
Abort ==
    /\ phase = "select" /\ phase' = "closed"
    /\ sent' = {}
    /\ UNCHANGED <<registration, observed, value, transactions, nextMID,
                   timeout, misuse>>

-----------------------------------------------------------------------------
Next ==
    \/ Register
    \/ \E msg \in Requests : HandleRequest(msg)
    \/ \E msg \in Replies : ReceiveReply(msg)
    \/ \E u \in Uris, d \in Values : Change(u, d)
    \/ \E u \in Uris, v \in Values : UpdateObject(u, v)
    \/ \E freed \in ObjectsFreed : Close(freed)
    \/ Lwm2mStep \/ Wake \/ Tick \/ Abort

Spec == Init /\ [][Next]_vars

\* The loop calls lwm2m_step again and again, and time does not stop.
Fairness == WF_vars(Lwm2mStep) /\ WF_vars(Wake) /\ WF_vars(Tick)
FairSpec == Spec /\ Fairness

-----------------------------------------------------------------------------
(* Properties                                                               *)

TypeOK ==
    /\ status \in [Servers -> Statuses]
    /\ regMid \in [Servers -> Mids]
    /\ location \in [Servers -> Locations \cup {None}]
    /\ observed \in [Uris -> {None} \cup [Servers -> Watchers \cup {None}]]
    /\ value \in [Uris -> Values]
    /\ transactions \in [Mids -> Transactions \cup {None}]
    /\ nextMID \in 0..MaxMid
    /\ phase \in {"start", "step", "select", "closed", "undefined"}
    /\ timeout \in 0..SelectTimeout
    /\ accepted \in [Servers -> Replies \cup {None}]
    /\ unheard \subseteq Servers
    /\ misuse \subseteq Misuses

\* A registration that is pending is being asked for: the request the server
\* record names is in the transaction list, unless its answer was consumed
\* without being understood (prv_handleRegistrationReply ignores every code
\* but 2.01, and 4.00 without a location).  Registering again while an older
\* request is unanswered must not break the link.
PendingIsAsked ==
    \A s \in Servers :
      status[s] = "REG_PENDING" /\ s \notin unheard /\ phase # "closed" =>
        /\ regMid[s] \in Pending
        /\ transactions[regMid[s]].server = s
        /\ ~Unsent(transactions[regMid[s]].timer)

\* The status and the location of a registered server are those of one 2.01
\* answer, and of the answer to its latest registration request.
RegisteredAsAnswered ==
    \A s \in Servers : status[s] = "REGISTERED" =>
        /\ accepted[s] # None
        /\ accepted[s].from = s /\ accepted[s].mid = regMid[s]
        /\ location[s] \in {accepted[s].location, None}
        /\ location[s] = None => "no location" \in misuse

\* A message ID that a notification left with names one watcher only, and is
\* not that of a request in the transaction list: cancel_observe and the
\* lookup that follows it cannot take one for the other.
NotificationNames ==
    \A v, w \in Watched :
        /\ Watcher(v).lastMid = Watcher(w).lastMid /\ Watcher(v).lastMid # 0
              => v = w
        /\ Watcher(v).lastMid # 0 => /\ Watcher(v).lastMid < nextMID
                                     /\ Watcher(v).lastMid \notin Pending

\* A reset message ends one observation at most, the sender's.
ResetCancelsOne ==
    [][phase' # "closed" /\ Watched \ Watched' # {} =>
          /\ Cardinality(Watched \ Watched') = 1
          /\ \E msg \in Replies :
                /\ msg.type = "RST" /\ ReceiveReply(msg)
                /\ \A w \in Watched \ Watched' : w[2] = msg.from]_vars

\* prv_findServer takes an address for a server's when it is as long: whoever
\* asks, an observation is that of the first server of the family of the
\* sender, which is registered, with the token and for the path of the
\* request.  Only a sender that is alone in its family is sure to be the one
\* that gets the notifications.
WatcherIsOfTheFamily ==
    [][\A w \in Watched' \ Watched : \E msg \in Requests :
          /\ HandleRequest(msg)
          /\ msg.op = "observe" /\ msg.uri = w[1]
          /\ msg.token = observed'[w[1]][w[2]].token
          /\ status[w[2]] = "REGISTERED"
          /\ Family[w[2]] = Family[msg.from]
          /\ \A s \in Servers : Family[s] = Family[msg.from] => w[2] <= s]_vars

\* A request that is answered with an error leaves the resources and the
\* observations as they were, unless it is an execute (whose function fails
\* after it stored its state), unless the error is the 5.00 that follows an
\* answer that could not be sent, or the answer of a Block2 request was cut.
RefusedHasNoEffect ==
    [][/\ value' # value \/ Watched' # Watched
       /\ phase' # "undefined"
       /\ \E r \in sent' : /\ "code" \in DOMAIN r
                           /\ r.code \notin {"2.04", "2.05"}
                           /\ r.code = "5.00" => "send" \notin Faults
       => \E msg \in Requests : msg.op = "post" /\ HandleRequest(msg)]_vars

\* The engine leaves defined behaviour only after one of these events: a
\* watcher or a location could not be allocated; the program freed the objects
\* itself; a request that was carried out had a Block2 option, or asked for a
\* string or an application that is not there; a registration found no memory
\* for its buffer.
UndefinedExplained ==
    /\ phase = "undefined" => misuse # {}
    /\ (\E u \in Uris : observed[u] = NoWatchers) => "no watcher" \in misuse
    /\ Unserialised # {} => "dead payload" \in misuse

\* A registration does not stay pending: it is accepted, given up or left
\* without understanding.
RegistrationSettles ==
    \A s \in Servers :
        status[s] = "REG_PENDING" ~>
            \/ status[s] # "REG_PENDING" \/ s \in unheard
            \/ phase \in {"closed", "undefined"}

\* lwm2mclient.c:274: "Change the value of resource.", "DATA: new value".
ChangeStores ==
    [][\A u \in Uris, d \in Values : Change(u, d) => value'[u] = d]_vars

\* lwm2mclient.c:276: "Quit the client gracefully.", as opposed to "abruptly
\* (without sending a de-register message)".
QuitDeregisters ==
    [][\A freed \in ObjectsFreed, s \in Servers :
          Close(freed) /\ status[s] = "REGISTERED" =>
             \E r \in sent' : r.op = "deregister" /\ r.to = s]_vars

isOpen == phase \in {"start", "step", "select"}

\* The engine implements Registration.
Abstract == INSTANCE Registration WITH open <- isOpen
RegistrationSpec == Abstract!Spec
=============================================================================
