---------------------------- MODULE Lwm2mServer ----------------------------
(***************************************************************************)
(* The server side of liblwm2m and the loop that drives it: the clients    *)
(* that registered (core/registration.c), the device management requests   *)
(* (core/management.c) and the observations (core/observe.c) the           *)
(* application issues, the transactions that carry them                    *)
(* (core/transaction.c), the dispatch of received packets (core/packet.c), *)
(* lwm2m_step and lwm2m_close (core/liblwm2m.c), and the select() loop of  *)
(* tests/server/lwm2mserver.c.                                             *)
(*                                                                         *)
(* The linked lists are functions from the identifier to the element, None *)
(* where the list has no such element.  A pointer into a list is the       *)
(* identifier together with a flag that tells whether the element it       *)
(* points to was freed since.  Following a freed pointer ends the run in   *)
(* phase "undefined".                                                      *)
(***************************************************************************)
EXTENDS Transaction, FiniteSets

CONSTANTS
    Names,          \* endpoint names
    Addrs,          \* socket addresses packets come from
    Uris,           \* records [obj, inst, res], None for an absent part
    MaxClients,     \* bound: registrations held at a time
    MaxObs,         \* bound: observations held per client
    MaxMid,         \* bound: message IDs the context hands out
    MaxLate,        \* bound: seconds the loop may be late at lwm2m_step
    SelectTimeout,  \* what the loop sleeps for when nothing is due, 60
    Ops,            \* requests issued, a subset of Operations
    Replies,        \* replies and notifications that peers may send
    Faults,         \* calls that may fail: malloc, gettimeofday, sendto
    Callbacks,      \* is a result callback passed: a subset of BOOLEAN
    None

Ids    == 0..(MaxClients - 1)
ObsIds == 0..(MaxObs - 1)
Mids   == 0..(MaxMid - 1)

DmOperations == {"read", "write", "exec", "create", "delete"}
Operations   == DmOperations \cup {"observe"}

Clients      == [name : Names, addr : Addrs]
Observations == [uri : Uris, status : {"PENDING", "REGISTERED"}]
Transactions ==
    [op : Operations, peer : Ids, peerFreed : BOOLEAN,
     obs : ObsIds \cup {None}, obsFreed : BOOLEAN,
     uri : Uris, cb : BOOLEAN, timer : Timers]

Fates   == {"none", "refused", "reported", "silent", "again"}
Misuses == {"client freed", "observation freed", "no callback", "no memory",
            "block", "dead payload"}

ASSUME BoundsAssumption ==
    /\ MaxClients \in Nat /\ MaxObs \in Nat /\ MaxMid \in Nat
    /\ MaxLate \in Nat /\ SelectTimeout \in Nat \ {0}

ASSUME InputAssumption ==
    /\ Ops \subseteq Operations
    /\ Faults \subseteq {"alloc", "clock", "send"}
    /\ Callbacks \subseteq BOOLEAN
    /\ \A r \in Replies : r.mid \in Mids

ASSUME NoneAssumption ==
    /\ None \notin Clients /\ None \notin Observations
    /\ None \notin Transactions /\ None \notin Int /\ None \notin Names

VARIABLES
    clients,        \* clientList: Ids -> registered client or None
    observations,   \* the observationList of each client
    transactions,   \* transactionList: Mids -> transaction or None
    nextMID,        \* nextMID of the context
    phase,          \* the loop: "step", "select", "closed", "undefined"
    timeout,        \* tv.tv_sec handed to select(), counting down
    calls,          \* result callbacks made by the last step
    sent,           \* packets sent by the last step
    fate,           \* history: what became of the request with each mid
    misuse          \* history: what happened that the engine does not guard

vars == <<clients, observations, transactions, nextMID, phase, timeout,
          calls, sent, fate, misuse>>

-----------------------------------------------------------------------------
(* Helpers                                                                  *)

HasInstance(u) == u.inst # None
HasResource(u) == u.res # None

\* lwm2m_list_newId: the lowest identifier that is not used.
IsNewId(i, list) ==
    /\ list[i] = None
    /\ \A j \in DOMAIN list : j < i => list[j] # None

Pending == {m \in Mids : transactions[m] # None}

\* The transactions that hold a valid pointer to a client.
PendingWith(id) ==
    {m \in Pending : transactions[m].peer = id /\ ~transactions[m].peerFreed}

\* The observation a transaction carries its answer to.
Carries(t, id, o) ==
    t.op = "observe" /\ t.peer = id /\ t.obs = o /\ ~t.obsFreed

Carriers(id, o) == {m \in Pending : Carries(transactions[m], id, o)}

\* The packet of a transaction, as transaction_send puts it on the wire.
Request(m, t) ==
    [to |-> clients[t.peer].addr, mid |-> m, op |-> t.op, uri |-> t.uri,
     token |-> IF t.op = "observe" THEN <<t.peer, t.obs>> ELSE None]

SentAgain(t, clockOk) == [t EXCEPT !.timer = Resent(@, clockOk)]

Older(t) == [t EXCEPT !.timer = Aged(@)]

\* A call of the application's result callback.
Call(m, t, status, data) ==
    [mid |-> m, op |-> t.op, client |-> t.peer, uri |-> t.uri,
     status |-> status, data |-> data]

Reported(ms) ==
    [m \in Mids |-> IF m \notin ms THEN fate[m]
                    ELSE IF fate[m] = "none" THEN "reported" ELSE "again"]

\* Variant: the transaction stays in the list.
RemovedNone(ms) == transactions

\* transaction_remove, or not yet in the list.
Removed(ms) == [m \in Mids |-> IF m \in ms THEN None ELSE transactions[m]]

\* Variant: the observation stays; every observation of the path goes.
WithoutNone(ts) == observations

WithoutPath(ts) ==
    [id \in Ids |-> [o \in ObsIds |->
        IF observations[id][o] # None /\ \E t \in ts :
              /\ t.op = "observe" /\ t.peer = id
              /\ t.uri = observations[id][o].uri
        THEN None ELSE observations[id][o]]]

\* prv_observationRemove on the observations of the observe requests in ts.
WithoutObservations(ts) ==
    [id \in Ids |-> [o \in ObsIds |->
        IF \E t \in ts : Carries(t, id, o) THEN None
        ELSE observations[id][o]]]

\* The callback of t would follow a pointer that was freed.
StaleCallback(t) == t.peerFreed \/ (t.op = "observe" /\ t.obsFreed)

GoUndefined ==
    /\ phase' = "undefined"
    /\ calls' = {} /\ sent' = {}
    /\ UNCHANGED <<clients, observations, transactions, nextMID, timeout, fate>>

-----------------------------------------------------------------------------
Init ==
    /\ clients = [id \in Ids |-> None]
    /\ observations = [id \in Ids |-> [o \in ObsIds |-> None]]
    /\ transactions = [m \in Mids |-> None]
    /\ nextMID = 0
    /\ phase = "step"
    /\ timeout = SelectTimeout
    /\ calls = {} /\ sent = {}
    /\ fate = [m \in Mids |-> "none"]
    /\ misuse = {}

-----------------------------------------------------------------------------
(* Registration interface: packets whose path is /rd or /rd/<id>            *)

\* Variant: the name is not looked up.
IsFreshRecord(id, name) == IsNewId(id, clients)

\* prv_getClientByName finds the record, or lwm2m_list_newId makes one.
IsRecordFor(id, name) ==
    IF \E i \in Ids : clients[i] # None /\ clients[i].name = name
    THEN clients[id] # None /\ clients[id].name = name
    ELSE IsNewId(id, clients)

\* The end of lwm2m_handle_packet on a request that was carried out.  What
\* message_send returns takes the place of the answer's code: when nothing
\* left, 5.00 follows.  With a Block2 option the answer, which has no payload
\* of its own, leaves as a 4.02 whose payload, a literal, is freed.
Answered(from, mid, answer, block2) ==
    \/ /\ ~block2 /\ phase' = "step"
       /\ \/ sent' = {answer}
          \/ /\ "send" \in Faults
             /\ sent' = {[to |-> from, mid |-> mid, code |-> "5.00"]}
    \/ /\ block2 /\ phase' = "undefined"
       /\ sent' = {[to |-> from, mid |-> mid, code |-> "4.02"]}

\* POST /rd.  A name that is registered already keeps its record, its
\* identifier and its observations, and gets the new address.  The name is
\* None when there is no ep= parameter, or no object list that can be decoded.
Register(from, mid, name, block2) ==
    /\ phase = "select"
    /\ calls' = {}
    /\ UNCHANGED <<transactions, nextMID, timeout, fate, observations>>
    /\ \/ \* no memory for the name is the same as no name
          /\ name = None \/ "alloc" \in Faults
          /\ phase' = "step"
          /\ sent' = {[to |-> from, mid |-> mid, code |-> "4.00"]}
          /\ UNCHANGED <<clients, misuse>>
       \/ /\ name # None
          /\ \E id \in Ids :
                /\ IsRecordFor(id, name)
                /\ clients' = [clients EXCEPT
                                 ![id] = [name |-> name, addr |-> from]]
                /\ Answered(from, mid, [to |-> from, mid |-> mid, code |-> "2.01",
                                        location |-> id], block2)
          /\ misuse' = IF block2 THEN misuse \cup {"block"} ELSE misuse
       \/ \* the client record cannot be allocated
          /\ name # None /\ "alloc" \in Faults
          /\ \A i \in Ids : clients[i] # None => clients[i].name # name
          /\ phase' = "step"
          /\ sent' = {[to |-> from, mid |-> mid, code |-> "5.00"]}
          /\ UNCHANGED <<clients, misuse>>
       \/ \* a record of the object list cannot, and is cleared before the
          \* pointer is looked at; or the address cannot: the client's record
          \* is freed and stays in the list, which the next search walks
          /\ name # None /\ "alloc" \in Faults
          /\ phase' = "undefined"
          /\ sent' \in {{}, {[to |-> from, mid |-> mid, code |-> "5.00"]}}
          /\ misuse' = misuse \cup {"no memory"}
          /\ UNCHANGED clients

\* History only: is a request to a registered client unanswered?
AwaitsAnswerFrom(id) ==
    \E m \in Pending : transactions[m].peer = id /\ ~transactions[m].peerFreed

\* DELETE /rd/<id>; the test on the path lets /rd alone through, with 0 as
\* the identifier.  Nothing looks at the pending transactions.
Deregister(from, mid, target, block2) ==
    LET id     == IF target = None THEN 0 ELSE target
        orphan == PendingWith(id)
    IN  /\ phase = "select"
        /\ calls' = {}
        /\ IF id \notin Ids \/ clients[id] = None
           THEN /\ phase' = "step"
                /\ sent' = {[to |-> from, mid |-> mid, code |-> "4.00"]}
                /\ UNCHANGED <<clients, observations, transactions, misuse>>
           ELSE /\ Answered(from, mid, [to |-> from, mid |-> mid, code |-> "2.02"],
                            block2)
                /\ clients' = [clients EXCEPT ![id] = None]
                /\ observations' = [observations EXCEPT
                                      ![id] = [o \in ObsIds |-> None]]
                /\ transactions' = [m \in Mids |->
                      IF m \in orphan
                      THEN [transactions[m] EXCEPT !.peerFreed = TRUE,
                                                   !.obsFreed = TRUE]
                      ELSE transactions[m]]
                /\ misuse' = misuse
                      \cup (IF AwaitsAnswerFrom(id) THEN {"client freed"} ELSE {})
                      \cup (IF block2 THEN {"block"} ELSE {})
        /\ UNCHANGED <<nextMID, timeout, fate>>

-----------------------------------------------------------------------------
(* Requests of the application                                              *)

\* Which paths the five lwm2m_dm_ functions and lwm2m_observe let through.
Accepts(op, u) ==
    CASE op = "read"    -> TRUE
      [] op = "write"   -> HasInstance(u)
      [] op = "exec"    -> HasResource(u)
      [] op = "create"  -> ~HasResource(u)
      [] op = "delete"  -> HasInstance(u) /\ ~HasResource(u)
      [] op = "observe" -> HasInstance(u) \/ ~HasResource(u)

NewTransaction(op, id, o, u, cb) ==
    [op |-> op, peer |-> id, peerFreed |-> FALSE, obs |-> o,
     obsFreed |-> FALSE, uri |-> u, cb |-> cb, timer |-> NewTimer]


\* The requests whose message has, or may have, a pointer to a payload that
\* is the caller's.
HavePayload    == {"write", "create"}
MayHavePayload == HavePayload \cup {"exec"}

\* The transaction enters the list and transaction_send is called on it;
\* obs is the observation table it was issued with.
Launch(t, obs) ==
    /\ nextMID' = nextMID + 1
    /\ \/ \* no buffer: an error is returned, the transaction stays, and the
          \* next lwm2m_step reads the payload the caller gave
          /\ "alloc" \in Faults
          /\ transactions' = [transactions EXCEPT ![nextMID] = t]
          /\ observations' = obs
          /\ calls' = {} /\ sent' = {}
          /\ misuse' = IF t.op \in MayHavePayload
                       THEN misuse \cup {"dead payload"} ELSE misuse
          /\ UNCHANGED fate
       \/ /\ transactions' = [transactions EXCEPT ![nextMID] = SentAgain(t, TRUE)]
          /\ observations' = obs
          /\ calls' = {} /\ sent' = {Request(nextMID, t)}
          /\ UNCHANGED <<fate, misuse>>
       \/ \* no clock: sent once, then given up within the same call
          /\ "clock" \in Faults
          /\ sent' = {Request(nextMID, t)}
          /\ calls' = IF t.cb THEN {Call(nextMID, t, "5.03", None)} ELSE {}
          /\ fate' = IF t.cb THEN Reported({nextMID})
                     ELSE [fate EXCEPT ![nextMID] = "silent"]
          /\ UNCHANGED <<transactions, observations, misuse>>

\* Allocation of the request fails before it reaches the list: the message
\* ID is used up and the caller gets an error.
Refuse ==
    /\ "alloc" \in Faults
    /\ nextMID' = nextMID + 1
    /\ fate' = [fate EXCEPT ![nextMID] = "refused"]
    /\ calls' = {} /\ sent' = {}
    /\ UNCHANGED <<transactions, observations, misuse>>

\* lwm2m_dm_read, write, execute, create, delete.
DmRequest(op, id, u, cb) ==
    /\ phase = "select" /\ phase' = "step"
    /\ nextMID < MaxMid
    /\ op \in DmOperations /\ Accepts(op, u) /\ clients[id] # None
    /\ \/ Launch(NewTransaction(op, id, None, u, cb), observations)
       \/ Refuse
    /\ UNCHANGED <<clients, timeout>>

\* lwm2m_observe.  Nothing looks for an observation of the same path.
Observe(id, u) ==
    /\ phase = "select" /\ phase' = "step"
    /\ nextMID < MaxMid
    /\ Accepts("observe", u) /\ clients[id] # None
    /\ \/ \E o \in ObsIds :
             /\ IsNewId(o, observations[id])
             /\ Launch(NewTransaction("observe", id, o, u, TRUE),
                       [observations EXCEPT ![id][o] =
                           [uri |-> u, status |-> "PENDING"]])
       \/ Refuse
    /\ UNCHANGED <<clients, timeout>>

Observes(id, o, u) == observations[id][o] # None /\ observations[id][o].uri = u

\* lwm2m_observe_cancel: drops an observation of the path, whatever its
\* status, and tells nobody.  The search compares the identifiers that the
\* path does not have too, which nobody set: any observation of the path may
\* be the one that is found first.
ObserveCancel(id, u) ==
    /\ phase = "select" /\ phase' = "step"
    /\ clients[id] # None
    /\ \E o \in ObsIds :
          /\ Observes(id, o, u)
          /\ LET carrier == Carriers(id, o)
             IN  /\ observations' = [observations EXCEPT ![id][o] = None]
                 /\ transactions' = [m \in Mids |->
                       IF m \in carrier
                       THEN [transactions[m] EXCEPT !.obsFreed = TRUE]
                       ELSE transactions[m]]
                 /\ misuse' = IF carrier = {} THEN misuse
                              ELSE misuse \cup {"observation freed"}
    /\ calls' = {} /\ sent' = {}
    /\ UNCHANGED <<clients, nextMID, timeout, fate>>

-----------------------------------------------------------------------------
(* Replies and notifications                                                *)

\* What prv_obsRequestCallback makes of an answer.
ObserveStatus(msg) ==
    IF msg.code = "2.05" /\ ~msg.observe THEN "4.05" ELSE msg.code

\* The answer comes from where the client is registered now.
FromPeer(t, msg) == ~t.peerFreed /\ clients[t.peer].addr = msg.from

\* Following the transaction's pointers leaves defined behaviour.
Derails(t, msg) ==
    t.peerFreed \/ (FromPeer(t, msg) /\ (~t.cb \/ StaleCallback(t)))

\* prv_obsRequestCallback or dm_result_callback on an answer.
DeliverAnswer(m, t, msg) ==
    \/ /\ t.op # "observe"
       /\ calls' = {Call(m, t, msg.code, msg.data)}
       /\ UNCHANGED observations
    \/ /\ t.op = "observe" /\ ObserveStatus(msg) # "2.05"
       /\ calls' = {Call(m, t, ObserveStatus(msg), None)}
       /\ observations' = WithoutObservations({t})
    \/ /\ t.op = "observe" /\ ObserveStatus(msg) = "2.05"
       /\ calls' = {Call(m, t, "2.05", msg.data)}
       /\ observations' = [observations EXCEPT
                             ![t.peer][t.obs].status = "REGISTERED"]

\* handle_response; a packet from someone else is dropped.
AnswerWith(m, msg) ==
    LET t == transactions[m]
    IN  /\ t # None
        /\ IF Derails(t, msg)
           THEN /\ GoUndefined
                /\ misuse' = IF t.peerFreed \/ t.cb THEN misuse
                             ELSE misuse \cup {"no callback"}
           ELSE /\ IF FromPeer(t, msg)
                   THEN /\ DeliverAnswer(m, t, msg)
                        /\ transactions' = Removed({m})
                        /\ fate' = Reported({m})
                   ELSE /\ calls' = {}
                        /\ UNCHANGED <<observations, transactions, fate>>
                /\ phase' = "step" /\ sent' = {}
                /\ UNCHANGED <<clients, nextMID, timeout, misuse>>

\* Variant: the message ID is not compared.
AnswerAny(msg) == \E m \in Pending : AnswerWith(m, msg)

\* lwm2m_list_find by the message ID, then handle_response.
AnswerTransaction(msg) == AnswerWith(msg.mid, msg)

\* An Observe option and a token of four bytes whose first half is a client.
NotifiesClient(msg) ==
    /\ msg.observe /\ msg.token # None
    /\ msg.token[1] \in Ids /\ clients[msg.token[1]] # None

\* handle_observe_notify: the token alone selects the observation, the
\* sender's address does not count.
Notify(msg) ==
    /\ transactions[msg.mid] = None
    /\ phase' = "step"
    /\ IF ~NotifiesClient(msg)
       THEN calls' = {} /\ sent' = {}
       ELSE LET id == msg.token[1]
                o  == msg.token[2]
            IN  IF o \notin ObsIds \/ observations[id][o] = None
                THEN /\ calls' = {}
                     /\ sent' = {[to |-> msg.from, mid |-> msg.mid,
                                  code |-> "RST"]}
                ELSE /\ calls' = {[mid |-> None, op |-> "observe",
                                   client |-> id,
                                   uri |-> observations[id][o].uri,
                                   status |-> "counter", data |-> msg.data]}
                     /\ sent' = {}
    /\ UNCHANGED <<clients, observations, transactions, nextMID, timeout,
                   fate, misuse>>

ReceiveReply(msg) ==
    /\ phase = "select"
    /\ AnswerTransaction(msg) \/ Notify(msg)

-----------------------------------------------------------------------------
(* The loop                                                                 *)

\* The transactions lwm2m_step calls transaction_send on, unless it finds
\* no memory for the buffer; those it sends for the last time; those of them
\* that have a callback.
Touched(noBuffer) ==
    {m \in Pending : Due(transactions[m].timer)} \ noBuffer

Gone(noBuffer, noClock) ==
    {m \in Touched(noBuffer) : GivesUp(transactions[m].timer, m \notin noClock)}

Told(noBuffer, noClock) ==
    {m \in Gone(noBuffer, noClock) : transactions[m].cb}

\* The list after the walk.
Walked(touched, gone, noClock) ==
    [m \in Mids |->
        IF m \in gone THEN Removed(gone)[m]
        ELSE IF m \in touched THEN SentAgain(transactions[m], m \notin noClock)
             ELSE transactions[m]]

\* What is left to wait for: the transactions in ms are those for which
\* transaction_send returned 0 or was not called.
IsSleep(s, ms) ==
    /\ s \in 1..SelectTimeout
    /\ \A m \in ms : s <= Interval(transactions'[m].timer)
    /\ s = SelectTimeout \/ \E m \in ms : s = Interval(transactions'[m].timer)

WalkList(touched, gone, told, noBuffer, noClock) ==
    IF \/ \E m \in touched : transactions[m].peerFreed
       \/ \E m \in told : StaleCallback(transactions[m])
    THEN GoUndefined
    ELSE /\ transactions' = Walked(touched, gone, noClock)
         /\ observations' = WithoutObservations({transactions[m] : m \in told})
         /\ calls' = {Call(m, transactions[m], "5.03", None) : m \in told}
         /\ sent' = {Request(m, transactions[m]) : m \in touched}
         /\ fate' = [m \in Mids |-> IF m \in gone \ told THEN "silent"
                                    ELSE Reported(told)[m]]
         /\ \E s \in 1..SelectTimeout :
               /\ IsSleep(s, {m \in Mids \ noBuffer : transactions'[m] # None})
               /\ timeout' = s
         /\ phase' = "select"
         /\ UNCHANGED <<clients, nextMID>>

\* Variant: every transmission serialises the message anew.
SerialisedAnew == {m \in Pending : Due(transactions[m].timer)}

\* The transactions without a buffer: transaction_send serialises them.
Unserialised == {m \in Pending : Unsent(transactions[m].timer)}

\* Every transaction that is due is sent again or given up, in one walk of
\* the list.  noBuffer, noClock: where a call of transaction_send fails to
\* allocate or to read the clock.
Walk ==
    \E noBuffer \in SUBSET Unserialised, noClock \in SUBSET Unserialised :
       /\ noBuffer # {} => "alloc" \in Faults
       /\ noClock # {} => "clock" \in Faults
       /\ WalkList(Touched(noBuffer), Gone(noBuffer, noClock),
                   Told(noBuffer, noClock), noBuffer, noClock)

\* lwm2m_step.  A request that has no buffer yet is serialised now, from a
\* payload that was the caller's.  Without a clock the step fails, and the
\* program ends.
Lwm2mStep ==
    /\ phase = "step"
    /\ \/ /\ \E m \in Unserialised : transactions[m].op \in MayHavePayload
          /\ GoUndefined
       \/ /\ \A m \in Unserialised : transactions[m].op \notin HavePayload
          /\ Walk
       \/ /\ "clock" \in Faults
          /\ phase' = "closed"
          /\ calls' = {} /\ sent' = {}
          /\ UNCHANGED <<clients, observations, transactions, nextMID,
                         timeout, fate>>
    /\ UNCHANGED misuse

\* select() returns because its timeout ran out.
Wake ==
    /\ phase = "select" /\ timeout = 0
    /\ phase' = "step"
    /\ calls' = {} /\ sent' = {}
    /\ UNCHANGED <<clients, observations, transactions, nextMID, timeout,
                   fate, misuse>>

\* A second passes: in select(), or on the way to lwm2m_step when the
\* machine is slow.
Tick ==
    /\ \/ /\ phase = "select" /\ timeout > 0
          /\ timeout' = timeout - 1
       \/ /\ phase = "step"
          /\ \A m \in Pending : transactions[m].timer.wait > -MaxLate
          /\ Pending # {} /\ MaxLate > 0
          /\ UNCHANGED timeout
    /\ transactions' = [m \in Mids |-> IF transactions[m] = None THEN None
                                       ELSE Older(transactions[m])]
    /\ calls' = {} /\ sent' = {}
    /\ UNCHANGED <<clients, observations, nextMID, phase, fate, misuse>>

\* lwm2m_close: everything is freed, no callback is called.
Close ==
    /\ phase = "select"
    /\ phase' = "closed"
    /\ clients' = [id \in Ids |-> None]
    /\ observations' = [id \in Ids |-> [o \in ObsIds |-> None]]
    /\ transactions' = [m \in Mids |-> None]
    /\ calls' = {} /\ sent' = {}
    /\ UNCHANGED <<nextMID, timeout, fate, misuse>>

-----------------------------------------------------------------------------
Next ==
    \/ \E from \in Addrs, name \in Names \cup {None}, block2 \in BOOLEAN :
          Register(from, 0, name, block2)
    \/ \E from \in Addrs, target \in Ids \cup {None, MaxClients}, block2 \in BOOLEAN :
          Deregister(from, 0, target, block2)
    \/ \E op \in Ops, id \in Ids, u \in Uris, cb \in Callbacks :
          DmRequest(op, id, u, cb)
    \/ \E id \in Ids, u \in Uris : "observe" \in Ops /\ Observe(id, u)
    \/ \E id \in Ids, u \in Uris : ObserveCancel(id, u)
    \/ \E msg \in Replies : ReceiveReply(msg)
    \/ Lwm2mStep \/ Wake \/ Tick \/ Close

Spec == Init /\ [][Next]_vars

\* The loop calls lwm2m_step again and again, and time does not stop.
Fairness == WF_vars(Lwm2mStep) /\ WF_vars(Wake) /\ WF_vars(Tick)
FairSpec == Spec /\ Fairness

-----------------------------------------------------------------------------
(* Properties                                                               *)

TypeOK ==
    /\ clients \in [Ids -> Clients \cup {None}]
    /\ observations \in [Ids -> [ObsIds -> Observations \cup {None}]]
    /\ transactions \in [Mids -> Transactions \cup {None}]
    /\ nextMID \in 0..MaxMid
    /\ phase \in {"step", "select", "closed", "undefined"}
    /\ timeout \in 0..SelectTimeout
    /\ fate \in [Mids -> Fates]
    /\ misuse \subseteq Misuses

\* Every transaction is on the schedule of transaction_send: it was sent
\* counter - 1 times and its next transmission falls 2, 6 or 12 seconds after
\* the first one, however late lwm2m_step was called before.
Schedule == \A m \in Pending : OnSchedule(transactions[m].timer)

\* No transmission waits longer than the loop is slow: the sleep lwm2m_step
\* hands to select() never goes past the next transmission, for any number of
\* transactions that start and end in between.
Punctual ==
    \A m \in Pending : ~Unsent(transactions[m].timer) =>
        /\ transactions[m].timer.wait >= -MaxLate
        /\ phase = "select" => \/ timeout <= transactions[m].timer.wait
                               \/ timeout <= 1 /\ transactions[m].timer.wait <= 0

\* While the context is open, a request that was not refused is either in
\* the transaction list or its result callback was called, exactly once
\* (unless no callback was passed and it timed out).
OneResult ==
    \A m \in Mids :
        /\ fate[m] # "again"
        /\ m >= nextMID => fate[m] = "none"
        /\ phase \in {"step", "select"} =>
              (m \in Pending <=> m < nextMID /\ fate[m] = "none")

\* liblwm2m.h:253: an observation is PENDING exactly as long as the request
\* that asks for it is in the transaction list, and only one is.
PendingObservation ==
    \A id \in Ids, o \in ObsIds :
        /\ (/\ observations[id][o] # None
            /\ observations[id][o].status = "PENDING") <=> Carriers(id, o) # {}
        /\ \A m, n \in Carriers(id, o) : m = n

\* A pointer that was not marked as freed leads to the client it was taken
\* from, and to the observation of the path it was taken for.
LiveReferences ==
    \A m \in Pending :
        LET t == transactions[m]
        IN  /\ ~t.peerFreed => clients[t.peer] # None
            /\ t.op = "observe" /\ ~t.obsFreed =>
                  /\ ~t.peerFreed
                  /\ observations[t.peer][t.obs] # None
                  /\ observations[t.peer][t.obs].uri = t.uri

\* The engine leaves defined behaviour only after one of these events: a
\* client deregistered, or an observation was cancelled, while a request to
\* it was in the transaction list; an answer came to a request issued
\* without a callback; a registration that was carried out had a Block2
\* option; a registration found no memory for an address or a record of the
\* object list; a request with a payload found no memory for its buffer.
UndefinedExplained ==
    /\ phase = "undefined" => misuse # {}
    /\ (\E m \in Unserialised : transactions[m].op \in MayHavePayload) =>
          "dead payload" \in misuse
    /\ (\E m \in Pending : transactions[m].peerFreed) =>
          "client freed" \in misuse
    /\ (\E m \in Pending : transactions[m].obsFreed) =>
          misuse \cap {"client freed", "observation freed"} # {}

\* prv_getClientByName: two records never hold the same endpoint name.
UniqueNames ==
    \A i, j \in Ids :
        clients[i] # None /\ clients[j] # None
          /\ clients[i].name = clients[j].name => i = j

\* A client's location (its identifier) stays valid as long as it is
\* registered: registering again does not move it.
LocationStable ==
    [][\A i, j \in Ids :
          clients[i] # None /\ clients'[j] # None
            /\ clients[i].name = clients'[j].name => i = j]_vars

\* The application is told 5.03 only after the request was sent four times
\* over at least 12 seconds, when the clock works.
PatientGiveUp ==
    [][\A c \in calls' : c.status = "5.03" /\ "clock" \notin Faults =>
          /\ transactions[c.mid].timer.sends = COAP_MAX_RETRANSMIT - 1
          /\ transactions[c.mid].timer.age >= Deadline(COAP_MAX_RETRANSMIT)]_vars

\* Every request leaves the list: answered, given up, or dropped.
RequestSettles ==
    \A m \in Mids : m \in Pending ~> m \notin Pending \/ phase \in {"closed", "undefined"}

\* liblwm2m.h:245: "When used with an observe, if 'data' is not nil, 'status'
\* holds the observe counter."
ObserveStatusIsCounter ==
    \A c \in calls : c.op = "observe" /\ c.data # None => c.status = "counter"

\* The requests of the application, as RequestService sees them.
requestState ==
    [m \in Mids |->
        IF m >= nextMID THEN "unused"
        ELSE IF fate[m] = "reported" THEN "reported"
        ELSE IF fate[m] = "again" THEN "reported twice"
        ELSE IF fate[m] = "none" /\ phase \in {"step", "select"} THEN "pending"
        ELSE "dropped"]

Service == INSTANCE RequestService WITH Requests <- Mids, request <- requestState

\* The engine implements RequestService.
ServiceSpec == Service!Spec
=============================================================================
