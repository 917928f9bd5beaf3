---------------------------- MODULE Lwm2mSystem ----------------------------
(***************************************************************************)
(* One server and one client of liblwm2m over UDP: the two engines, and    *)
(* every packet either of them ever sent, which may arrive at any time,    *)
(* more than once, in any order, or never.  The client's process may be    *)
(* killed and started again.                                               *)
(*                                                                         *)
(* The engines share nothing but the packets, so that one of them is let   *)
(* finish lwm2m_step before the other one moves.                           *)
(***************************************************************************)
EXTENDS Integers, FiniteSets

CONSTANTS
    Name, Addr,     \* the client's endpoint name and address
    Uris,           \* records [obj, inst, res] of the client's resources
    Values,         \* what a resource may hold
    MaxClients,     \* bound: registrations the server holds
    MaxObs,         \* bound: observations the server holds
    ServerMids,     \* bound: message IDs the server's context hands out
    ClientMids,     \* bound: message IDs the client's context hands out
    MaxCounter,     \* bound: observe options sent to a watcher
    MaxStarts,      \* bound: times the client is started again
    MaxPending,     \* bound: requests the server has in its list
    ClientClock,    \* bound: does time pass at the client?
    SelectTimeout,  \* what each loop sleeps for when nothing is due
    Ops,            \* requests the server's application issues
    Cancels,        \* does it cancel observations?
    None

ASSUME SystemAssumption ==
    /\ MaxStarts \in Nat /\ MaxPending \in Nat
    /\ ServerMids \in Nat /\ ClientMids \in Nat \ {0}
    /\ IsFiniteSet(Uris)
    /\ Ops \subseteq {"read", "write", "observe"}
    /\ Cancels \in BOOLEAN /\ ClientClock \in BOOLEAN

VARIABLES
    sClients, sObservations, sTransactions, sNextMID, sPhase, sTimeout,
    sCalls, sSent, sFate, sMisuse,
    cStatus, cRegMid, cLocation, cObserved, cValue, cTransactions, cNextMID,
    cPhase, cTimeout, cSent, cAccepted, cUnheard, cMisuse,
    toServer, toClient, \* the packets sent so far
    payload,            \* what each write of the server carries
    starts,             \* times the client was started again
    answers,            \* history: the client's answers to requests
    shown,              \* history: what it sent of observed paths, and which
    held                \* history: the values each read may return

serverVars == <<sClients, sObservations, sTransactions, sNextMID, sPhase,
                sTimeout, sCalls, sSent, sFate, sMisuse>>
clientVars == <<cStatus, cRegMid, cLocation, cObserved, cValue, cTransactions,
                cNextMID, cPhase, cTimeout, cSent, cAccepted, cUnheard, cMisuse>>
history    == <<answers, shown, held>>
vars == <<serverVars, clientVars, toServer, toClient, payload, starts, history>>

\* Both contexts count from 0; either may see the other's numbers.
MaxMid == IF ServerMids < ClientMids THEN ClientMids ELSE ServerMids

Server == 1     \* the client's only server, and its address

S == INSTANCE Lwm2mServer WITH
        Names <- {Name}, Addrs <- {Addr}, MaxLate <- 0, Replies <- {},
        Faults <- {}, Callbacks <- {TRUE},
        clients <- sClients, observations <- sObservations,
        transactions <- sTransactions, nextMID <- sNextMID, phase <- sPhase,
        timeout <- sTimeout, calls <- sCalls, sent <- sSent, fate <- sFate,
        misuse <- sMisuse

C == INSTANCE Lwm2mClient WITH
        NServers <- 1, Addrs <- {Server}, Family <- [a \in {Server} |-> "inet6"],
        Access <- [u \in Uris |-> "RW"], Empty <- {}, Wild <- {},
        Locations <- S!Ids, MaxLate <- 0,
        Requests <- {}, Replies <- {}, Faults <- {}, ObjectsFreed <- BOOLEAN,
        status <- cStatus, regMid <- cRegMid, location <- cLocation,
        observed <- cObserved, value <- cValue, transactions <- cTransactions,
        nextMID <- cNextMID, phase <- cPhase, timeout <- cTimeout,
        sent <- cSent, accepted <- cAccepted, unheard <- cUnheard,
        misuse <- cMisuse

\* The NULL of a list is no element of it, and no message ID.
ASSUME NoneAssumption == None \notin S!Observations /\ None \notin S!Mids

Init ==
    /\ S!Init /\ C!Init
    /\ toServer = {} /\ toClient = {}
    /\ payload = [m \in S!Mids |-> None]
    /\ starts = 0
    /\ answers = {} /\ shown = {}
    /\ held = [m \in S!Mids |-> {}]

-----------------------------------------------------------------------------
(* Packets: what one engine sent, as the other one receives it              *)

IsRequest(p) == "op" \in DOMAIN p

\* The method of a request.
Verb(op) == IF op \in {"exec", "create"} THEN "post" ELSE op

RequestOf(p) ==
    [from |-> Server, con |-> TRUE, mid |-> p.mid, op |-> Verb(p.op),
     uri |-> p.uri, token |-> p.token, data |-> payload[p.mid], block2 |-> "none"]

\* A 2.01 has a Location-Path, nothing else does.
AnswerOf(p) ==
    [from |-> Server, mid |-> p.mid,
     type |-> IF p.code = "RST" THEN "RST" ELSE "ACK", code |-> p.code,
     location |-> IF "location" \in DOMAIN p THEN p.location ELSE None]

ReplyOf(p) ==
    [from |-> Addr, mid |-> p.mid, code |-> p.code,
     observe |-> p.counter # None, token |-> p.token, data |-> p.data]

-----------------------------------------------------------------------------
(* The server                                                               *)

\* What a pending read may return: the values its resource holds meanwhile.
Holds(m) ==
    IF S!Pending' # S!Pending /\ m \in S!Pending' \ S!Pending
       /\ sTransactions'[m].op = "read"
    THEN {cValue[sTransactions'[m].uri]}
    ELSE IF m \in S!Pending' THEN held[m] ELSE {}

ServerMoves ==
    /\ toClient' = toClient \cup sSent'
    /\ held' = [m \in S!Mids |-> Holds(m)]
    /\ UNCHANGED <<clientVars, toServer, starts, answers, shown>>

\* The application issues a request.
ServerAsks(op, id, u, v) ==
    /\ Cardinality(S!Pending) < MaxPending /\ sNextMID < ServerMids
    /\ S!DmRequest(op, id, u, TRUE)
    /\ payload' = IF op = "write" THEN [payload EXCEPT ![sNextMID] = v]
                  ELSE payload
    /\ ServerMoves

ServerObserves(id, u) ==
    /\ Cardinality(S!Pending) < MaxPending /\ sNextMID < ServerMids
    /\ S!Observe(id, u)
    /\ UNCHANGED payload /\ ServerMoves

ServerCancels(id, u) ==
    /\ Cancels
    /\ S!ObserveCancel(id, u)
    /\ UNCHANGED payload /\ ServerMoves

\* lwm2m_handle_packet of the server.
ServerReceives(p) ==
    /\ \/ /\ IsRequest(p) /\ p.op = "register"
          /\ S!Register(Addr, p.mid, Name, FALSE)
       \/ /\ IsRequest(p) /\ p.op = "deregister"
          /\ S!Deregister(Addr, p.mid, p.location, FALSE)
       \/ ~IsRequest(p) /\ S!ReceiveReply(ReplyOf(p))
    /\ UNCHANGED payload /\ ServerMoves

ServerStep == S!Lwm2mStep /\ UNCHANGED payload /\ ServerMoves

ServerWaits == (S!Wake \/ S!Tick) /\ UNCHANGED payload /\ ServerMoves

-----------------------------------------------------------------------------
(* The client                                                               *)

ClientMoves ==
    /\ toServer' = toServer \cup cSent'
    /\ held' = [m \in S!Mids |->
                  IF held[m] = {} THEN {}
                  ELSE held[m] \cup {cValue'[sTransactions[m].uri]}]
    /\ UNCHANGED <<serverVars, toClient, payload>>

ClientRegisters ==
    /\ C!Register /\ cNextMID' <= ClientMids
    /\ UNCHANGED <<starts, answers, shown>> /\ ClientMoves

\* The program stores a new value.
ClientUpdates(u, v) ==
    /\ C!UpdateObject(u, v)
    /\ UNCHANGED <<starts, answers, shown>> /\ ClientMoves

\* It tells the observers of the resource.
ClientNotifies(u) ==
    /\ C!ResourceValueChanged(u) /\ cNextMID' <= ClientMids
    /\ shown' = shown \cup
          {<<C!Notification(w, cObserved'[w[1]][w[2]].lastMid), w[1]>> :
              w \in {x \in C!Watched : C!Concerns(u, x[1])}}
    /\ UNCHANGED <<starts, answers>> /\ ClientMoves

\* lwm2m_handle_packet of the client.
ClientReceives(p) ==
    /\ \/ /\ IsRequest(p) /\ C!HandleRequest(RequestOf(p))
          /\ answers' = answers \cup cSent'
          /\ shown' = shown \cup {<<a, p.uri>> : a \in {x \in cSent' : x.counter # None}}
       \/ /\ ~IsRequest(p) /\ C!ReceiveReply(AnswerOf(p))
          /\ UNCHANGED <<answers, shown>>
    /\ UNCHANGED starts /\ ClientMoves

\* It says goodbye, and its program ends; it may be started again.  A program
\* that frees its objects first, as tests/client does, need not come so far.
ClientCloses ==
    /\ cNextMID < ClientMids /\ starts < MaxStarts
    /\ \E freed \in BOOLEAN : C!Close(freed)
    /\ UNCHANGED <<starts, answers, shown>> /\ ClientMoves

ClientStep == C!Lwm2mStep /\ UNCHANGED <<starts, answers, shown>> /\ ClientMoves

ClientWaits ==
    ClientClock /\ (C!Wake \/ C!Tick) /\ UNCHANGED <<starts, answers, shown>> /\ ClientMoves

\* The client's process is killed, or has ended, and is started again at the
\* same address; it finds its resources as they then are.
ClientRestarts ==
    /\ starts < MaxStarts /\ starts' = starts + 1
    /\ cPhase # "start" /\ cPhase' = "start"
    /\ cValue' \in [Uris -> Values]
    /\ cStatus' = [s \in {Server} |-> "UNKNOWN"]
    /\ cRegMid' = [s \in {Server} |-> 0]
    /\ cLocation' = [s \in {Server} |-> None]
    /\ cObserved' = [u \in Uris |-> None]
    /\ cTransactions' = [m \in C!Mids |-> None]
    /\ cNextMID' = 0 /\ cTimeout' = SelectTimeout
    /\ cSent' = {}
    /\ cAccepted' = [s \in {Server} |-> None]
    /\ cUnheard' = {} /\ cMisuse' = {}
    /\ UNCHANGED <<answers, shown>> /\ ClientMoves

-----------------------------------------------------------------------------
Between == sPhase # "step" /\ cPhase # "step"

Next ==
    \/ ServerStep
    \/ sPhase # "step" /\ ClientStep
    \/ /\ Between
       /\ \/ \E op \in Ops, id \in S!Ids, u \in Uris, v \in Values :
                ServerAsks(op, id, u, v)
          \/ \E id \in S!Ids, u \in Uris :
                "observe" \in Ops /\ ServerObserves(id, u)
          \/ \E id \in S!Ids, u \in Uris : ServerCancels(id, u)
          \/ \E p \in toServer : ServerReceives(p)
          \/ ServerWaits
          \/ ClientRegisters
          \/ \E u \in Uris, v \in Values : ClientUpdates(u, v)
          \/ \E u \in Uris : ClientNotifies(u)
          \/ \E p \in toClient : ClientReceives(p)
          \/ ClientWaits
          \/ ClientCloses
          \/ ClientRestarts

Spec == Init /\ [][Next]_vars

FairSpec == Spec /\ WF_vars(ServerStep) /\ WF_vars(ClientStep)

-----------------------------------------------------------------------------
(* Properties                                                               *)

TypeOK ==
    /\ S!TypeOK
    /\ cStatus \in [{Server} -> C!Statuses]
    /\ cLocation \in [{Server} -> S!Ids \cup {None}]
    /\ cValue \in [Uris -> Values]
    /\ starts \in 0..MaxStarts
    /\ answers \subseteq toServer
    /\ \A n \in shown : n[1] \in toServer /\ n[2] \in Uris

\* A client that believes it is registered is in the server's list, under the
\* location it was given, with its name and its address: whatever was lost,
\* repeated or given up on the way and however often the client was started,
\* as long as it never said goodbye.  (A DELETE of an earlier life that comes
\* late removes the record of the present one.)
RegisteredIsKnown ==
    cStatus[Server] = "REGISTERED" =>
        \/ \E p \in toServer : IsRequest(p) /\ p.op = "deregister"
        \/ /\ cLocation[Server] # None
           /\ sClients[cLocation[Server]] = [name |-> Name, addr |-> Addr]

\* lwm2mserver.c:504, "Result will be displayed asynchronously.": the result
\* of a request, other than that it was given up, is the client's answer to it.
ResultIsAnswer ==
    [][\A c \in sCalls' : c.mid # None /\ c.status # "5.03" =>
          \E a \in answers : a.mid = c.mid /\ a.code = c.status
                             /\ (c.op = "read" => a.data = c.data)]_vars

\* A read returns what the resource held at some moment since it was issued,
\* never something older, whatever packets are repeated or late.
ReadIsCurrent ==
    [][\A c \in sCalls' : c.op = "read" /\ c.status = "2.05" =>
          c.data \in held[c.mid]]_vars

\* liblwm2m.h:254, "STATE_REGISTERED means the client acknowledged the observe
\* request": it sent a 2.05 about this path with the token of this observation.
ObservedWasAcknowledged ==
    \A id \in S!Ids, o \in S!ObsIds :
        /\ sObservations[id][o] # None
        /\ sObservations[id][o].status = "REGISTERED"
        => \E n \in shown : /\ n[1].code = "2.05" /\ n[1].token = <<id, o>>
                            /\ n[2] = sObservations[id][o].uri

\* What the client sends of a path it observes carries a token the server gave
\* for this path, in whatever order its requests come, and however often.
ShownWithItsToken ==
    \A n \in shown : \E p \in toClient :
        /\ IsRequest(p) /\ p.op = "observe"
        /\ p.uri = n[2] /\ p.token = n[1].token

\* lwm2mserver.c:521, "Observe from a client." "URI: uri to observe" "Result
\* will be displayed asynchronously.": the path the application is told of is
\* the one that what it is told comes from.
NotifiedOfItsPath ==
    [][\A c \in sCalls' : c.mid = None =>
          \E n \in shown : /\ n[2] = c.uri /\ n[1].data = c.data
                           /\ ServerReceives(n[1])]_vars

=============================================================================
