-------------------------- MODULE Lwm2mSystemProofs --------------------------
(***************************************************************************)
(* One server and one client over a network that loses, repeats and        *)
(* reorders: what each of them may conclude from the packets it gets.      *)
(* Every theorem holds for any number of resources, registrations,         *)
(* observations, message IDs, pending requests and restarts.               *)
(***************************************************************************)
EXTENDS Lwm2mSystem, FiniteSetTheorems, TLAPS

-----------------------------------------------------------------------------
(* The invariants                                                           *)

\* Registration: without a DELETE the server keeps the record of every
\* location it ever assigned, and a registered client has one of those.
Farewell == \E p \in toServer : IsRequest(p) /\ p.op = "deregister"

Record == [name |-> Name, addr |-> Addr]

LocationsKept ==
    /\ sClients = [id \in S!Ids |-> sClients[id]]
    /\ cStatus = [s \in {Server} |-> cStatus[s]]
    /\ cLocation = [s \in {Server} |-> cLocation[s]]
    /\ Farewell
       \/ /\ \A p \in toClient : ~IsRequest(p) /\ p.code = "2.01" =>
                p.location \in S!Ids /\ sClients[p.location] = Record
          /\ cStatus[Server] = "REGISTERED" =>
                /\ cLocation[Server] # None
                /\ cLocation[Server] \in S!Ids
                /\ sClients[cLocation[Server]] = Record

\* Observation: a watcher has the token of a request for its path.
AskedFor(u, token) ==
    \E q \in toClient : /\ IsRequest(q) /\ q.op = "observe"
                        /\ q.uri = u /\ q.token = token

IsWatcher(w) == w = [token |-> w.token, counter |-> w.counter, lastMid |-> w.lastMid]

WatchersAsked ==
    /\ cObserved = [u \in Uris |-> cObserved[u]]
    /\ \A u \in Uris : cObserved[u] # None =>
          /\ cObserved[u] = [s \in {Server} |-> cObserved[u][s]]
          /\ cObserved[u][Server] # None =>
                /\ IsWatcher(cObserved[u][Server])
                /\ AskedFor(u, cObserved[u][Server].token)

\* The transactions of the server.
IsTransaction(t) ==
    /\ t = [op |-> t.op, peer |-> t.peer, peerFreed |-> t.peerFreed,
            obs |-> t.obs, obsFreed |-> t.obsFreed, uri |-> t.uri,
            cb |-> t.cb, timer |-> t.timer]
    /\ t.op \in Ops /\ t.uri \in Uris /\ t.peer \in S!Ids
    /\ t.peerFreed \in BOOLEAN /\ t.obsFreed \in BOOLEAN
    /\ t.peerFreed => t.obsFreed
    /\ t.op = "observe" => t.obs \in S!ObsIds

ListOK ==
    /\ sNextMID \in Nat
    /\ sTransactions = [m \in S!Mids |-> sTransactions[m]]
    /\ \A m \in S!Pending : m < sNextMID /\ IsTransaction(sTransactions[m])

\* A request on its way is that of the transaction with its message ID, if
\* there still is one.
Asks(q, t) ==
    /\ q.op = t.op /\ q.uri = t.uri
    /\ t.op = "observe" => q.token = <<t.peer, t.obs>>

RequestsOK ==
    \A q \in toClient : IsRequest(q) =>
        /\ q.mid \in S!Mids /\ q.mid < sNextMID
        /\ q.op \in Ops /\ q.uri \in Uris
        /\ q.mid \in S!Pending => Asks(q, sTransactions[q.mid])

\* A 2.05 on its way answers a request that was sent.
AnswersOK ==
    \A p \in toServer : ~IsRequest(p) /\ p.code = "2.05" =>
        \E q \in toClient :
            /\ IsRequest(q) /\ q.mid = p.mid
            /\ p.counter # None =>
                  /\ q.op = "observe" /\ q.token = p.token
                  /\ <<p, q.uri>> \in shown

\* A pending read may return what its resource holds, and so does every
\* answer to it.
HeldOK ==
    /\ \A m \in S!Pending : sTransactions[m].op = "read" =>
          cValue[sTransactions[m].uri] \in held[m]
    /\ \A p \in toServer :
          /\ ~IsRequest(p) /\ p.code = "2.05" /\ p.mid \in S!Pending
          /\ sTransactions[p.mid].op = "read"
          => p.data \in held[p.mid]

\* Between two steps of the server, its last results are requests given up.
CallsOK ==
    sPhase # "step" => \A c \in sCalls : c.status = "5.03" /\ c.mid \in S!Mids

\* Without observations the client sends nothing but answers.
OnlyAnswers ==
    \A p \in toServer : IsRequest(p) \/ (p \in answers /\ p.mid \in S!Mids)

\* A packet that is no request has the message ID of a request, or the next
\* one of the client.
MidsOK ==
    /\ cNextMID \in Nat
    /\ \A p \in toServer : ~IsRequest(p) => p.mid \in S!Mids

\* The observation a pending request will settle is there, has its path, and
\* no other request settles it.
CarriersOK ==
    /\ sObservations \in [S!Ids -> [S!ObsIds -> S!Observations \cup {None}]]
    /\ \A m \in S!Pending, id \in S!Ids, o \in S!ObsIds :
          S!Carries(sTransactions[m], id, o) =>
             /\ sObservations[id][o] # None
             /\ sObservations[id][o].uri = sTransactions[m].uri
             /\ \A n \in S!Pending :
                   S!Carries(sTransactions[n], id, o) => n = m

\* The request that makes an observation.
Makes(q, id, o, u) ==
    IsRequest(q) /\ q.op = "observe" /\ q.token = <<id, o>> /\ q.uri = u

\* Every observation was asked for, with its identifiers as the token.
ObservationsMade ==
    \A id \in S!Ids, o \in S!ObsIds :
        sObservations[id][o] # None =>
           \E q \in toClient : Makes(q, id, o, sObservations[id][o].uri)

\* What the client sends with an Observe option is of a path it observes.
ObservedIsShown ==
    \A p \in toServer : ~IsRequest(p) /\ p.counter # None =>
        \E u : <<p, u>> \in shown

-----------------------------------------------------------------------------
(* The steps                                                                *)

\* What the server does in one of its steps.
ServerAction ==
    \/ \E op \in Ops, id \in S!Ids, u \in Uris : S!DmRequest(op, id, u, TRUE)
    \/ "observe" \in Ops /\ \E id \in S!Ids, u \in Uris : S!Observe(id, u)
    \/ \E id \in S!Ids, u \in Uris : S!ObserveCancel(id, u)
    \/ \E mid : S!Register(Addr, mid, Name, FALSE)
    \/ Farewell /\ \E mid, location : S!Deregister(Addr, mid, location, FALSE)
    \/ \E p \in toServer : ~IsRequest(p) /\ S!ReceiveReply(ReplyOf(p))
    \/ S!Lwm2mStep
    \/ S!Wake
    \/ S!Tick

\* What the client does, when it sends nothing about its resources.
ClientAction ==
    \/ C!Register
    \/ \E u \in Uris, v \in Values : C!UpdateObject(u, v)
    \/ \E p \in toClient : ~IsRequest(p) /\ C!ReceiveReply(AnswerOf(p))
    \/ (\E freed \in BOOLEAN : C!Close(freed))
    \/ C!Lwm2mStep
    \/ C!Wake
    \/ C!Tick
    \/ ClientRestarts

\* It answers a request.
ClientAnswers(q) ==
    /\ IsRequest(q) /\ C!HandleRequest(RequestOf(q))
    /\ answers' = answers \cup cSent'
    /\ shown' = shown \cup {<<a, q.uri>> : a \in {x \in cSent' : x.counter # None}}

LEMMA StepCases ==
    ASSUME [Next]_vars
    PROVE  \/ UNCHANGED vars
           \/ ServerAction /\ ServerMoves
           \/ /\ ClientMoves /\ sPhase # "step"
              /\ \/ ClientAction /\ UNCHANGED <<answers, shown>>
                 \/ (\E u \in Uris : ClientNotifies(u))
                 \/ (\E q \in toClient : ClientAnswers(q))
<1>1. CASE ServerStep \/ ServerWaits
  BY <1>1 DEF ServerStep, ServerWaits, ServerAction
<1>2. CASE \/ \E op \in Ops, id \in S!Ids, u \in Uris, v \in Values :
                 ServerAsks(op, id, u, v)
           \/ \E id \in S!Ids, u \in Uris : "observe" \in Ops /\ ServerObserves(id, u)
           \/ \E id \in S!Ids, u \in Uris : ServerCancels(id, u)
  BY <1>2 DEF ServerAsks, ServerObserves, ServerCancels, ServerAction
<1>3. ASSUME NEW p \in toServer, ServerReceives(p)
      PROVE  ServerAction /\ ServerMoves
  BY <1>3 DEF ServerReceives, ServerAction, Farewell
<1>4. CASE sPhase # "step" /\ (ClientStep \/ ClientWaits \/ ClientRegisters
                               \/ ClientCloses \/ ClientRestarts)
  BY <1>4 DEF ClientStep, ClientWaits, ClientRegisters, ClientCloses,
              ClientRestarts, ClientAction
<1>5. CASE \E u \in Uris, v \in Values : sPhase # "step" /\ ClientUpdates(u, v)
  BY <1>5 DEF ClientUpdates, ClientAction
<1>6. CASE \E u \in Uris : sPhase # "step" /\ ClientNotifies(u)
  BY <1>6 DEF ClientNotifies
<1>7. ASSUME NEW p \in toClient, sPhase # "step", ClientReceives(p)
      PROVE  /\ ClientMoves /\ sPhase # "step"
             /\ \/ ClientAction /\ UNCHANGED <<answers, shown>>
                \/ ClientAnswers(p)
  BY <1>7 DEF ClientReceives, ClientAction, ClientAnswers
<1>8. QED
  BY <1>1, <1>2, <1>3, <1>4, <1>5, <1>6, <1>7 DEF Next, Between
-----------------------------------------------------------------------------
(* What the server's steps do, whatever they are for                        *)

\* What transaction_send puts on the wire is a request, and says which.
LEMMA RequestFields ==
    ASSUME NEW m, NEW t
    PROVE  /\ IsRequest(S!Request(m, t)) /\ S!Request(m, t).mid = m
           /\ Asks(S!Request(m, t), t)
  BY DEF IsRequest, Asks, S!Request

\* lwm2m_dm_* and lwm2m_observe: with memory and a clock, the request is in the
\* list and on its way.
LEMMA Launched ==
    ASSUME NEW t, NEW obs, S!Launch(t, obs)
    PROVE  /\ sNextMID' = sNextMID + 1
           /\ sTransactions' = [sTransactions EXCEPT ![sNextMID] = S!SentAgain(t, TRUE)]
           /\ sObservations' = obs
           /\ sCalls' = {} /\ sSent' = {S!Request(sNextMID, t)}
  BY DEF S!Launch

LEMMA DmRequestCases ==
    ASSUME NEW op, NEW id, NEW u, S!DmRequest(op, id, u, TRUE)
    PROVE  /\ sPhase' = "step" /\ sClients' = sClients
           /\ S!Launch(S!NewTransaction(op, id, None, u, TRUE), sObservations)
  BY DEF S!DmRequest, S!Refuse

LEMMA ObserveCases ==
    ASSUME NEW id, NEW u, S!Observe(id, u)
    PROVE  /\ sPhase' = "step" /\ sClients' = sClients
           /\ \E o \in S!ObsIds :
                 /\ S!IsNewId(o, sObservations[id])
                 /\ S!Launch(S!NewTransaction("observe", id, o, u, TRUE),
                             [sObservations EXCEPT ![id][o] =
                                 [uri |-> u, status |-> "PENDING"]])
  BY DEF S!Observe, S!Refuse

\* A packet that is no request makes the server say nothing, or RST.
LEMMA ReplySends ==
    ASSUME NEW msg, S!ReceiveReply(msg)
    PROVE  /\ sClients' = sClients /\ sNextMID' = sNextMID
           /\ \A q \in sSent' : ~IsRequest(q) /\ q.code = "RST"
<1>1. CASE S!Notify(msg)
  <2>1. sSent' \in {{}, {[to |-> msg.from, mid |-> msg.mid, code |-> "RST"]}}
    BY <1>1 DEF S!Notify
  <2>2. QED
    BY <1>1, <2>1 DEF S!Notify, IsRequest
<1>2. CASE S!AnswerTransaction(msg)
  BY <1>2 DEF S!AnswerTransaction, S!AnswerWith, S!GoUndefined
<1>3. QED
  BY <1>1, <1>2 DEF S!ReceiveReply

\* The answer to a request that was carried out: no call of sendto fails here,
\* and nothing is cut.
LEMMA ServerAnswers ==
    ASSUME NEW mid, NEW answer, S!Answered(Addr, mid, answer, FALSE)
    PROVE  sPhase' = "step" /\ sSent' = {answer}
  BY DEF S!Answered

\* POST /rd and DELETE, when all there is is one name and one address.
LEMMA RegisterCases ==
    ASSUME NEW mid, S!Register(Addr, mid, Name, FALSE)
    PROVE  /\ UNCHANGED <<sTransactions, sNextMID, sObservations>> /\ sCalls' = {}
           /\ \/ /\ sSent' = {[to |-> Addr, mid |-> mid, code |-> "4.00"]}
                 /\ sClients' = sClients
              \/ \E id \in S!Ids :
                    /\ sClients' = [sClients EXCEPT ![id] = Record]
                    /\ sSent' = {[to |-> Addr, mid |-> mid, code |-> "2.01",
                                  location |-> id]}
<1>1. UNCHANGED <<sTransactions, sNextMID, sObservations>> /\ sCalls' = {}
  BY DEF S!Register
<1>2. \/ /\ sSent' = {[to |-> Addr, mid |-> mid, code |-> "4.00"]}
         /\ sClients' = sClients
      \/ \E id \in S!Ids :
            /\ sClients' = [sClients EXCEPT ![id] = [name |-> Name, addr |-> Addr]]
            /\ S!Answered(Addr, mid, [to |-> Addr, mid |-> mid, code |-> "2.01",
                                      location |-> id], FALSE)
  BY DEF S!Register
<1>3. QED
  BY <1>1, <1>2, ServerAnswers DEF Record

LEMMA RegisterAnswers ==
    ASSUME NEW mid, S!Register(Addr, mid, Name, FALSE)
    PROVE  /\ sNextMID' = sNextMID /\ sTransactions' = sTransactions
           /\ \A q \in sSent' : ~IsRequest(q)
<1>1. /\ sNextMID' = sNextMID /\ sTransactions' = sTransactions
      /\ \/ sSent' = {[to |-> Addr, mid |-> mid, code |-> "4.00"]}
         \/ \E id : sSent' = {[to |-> Addr, mid |-> mid, code |-> "2.01",
                               location |-> id]}
  BY RegisterCases
<1>2. QED
  BY <1>1 DEF IsRequest

LEMMA DeregisterCases ==
    ASSUME NEW mid, NEW location, S!Deregister(Addr, mid, location, FALSE)
    PROVE  /\ sNextMID' = sNextMID /\ sCalls' = {}
           /\ \E code : sSent' = {[to |-> Addr, mid |-> mid, code |-> code]}
<1>1. sNextMID' = sNextMID /\ sCalls' = {}
  BY Zenon DEF S!Deregister
<1>2. \/ sSent' = {[to |-> Addr, mid |-> mid, code |-> "4.00"]}
      \/ S!Answered(Addr, mid, [to |-> Addr, mid |-> mid, code |-> "2.02"], FALSE)
  BY Zenon DEF S!Deregister
<1>3. QED
  BY <1>1, <1>2, ServerAnswers

\* lwm2m_step of the server, which has its clock.
LEMMA ServerStepCases ==
    ASSUME S!Lwm2mStep
    PROVE  \/ S!GoUndefined
           \/ \E noBuffer, noClock :
                 S!WalkList(S!Touched(noBuffer), S!Gone(noBuffer, noClock),
                            S!Told(noBuffer, noClock), noBuffer, noClock)
<1>1. S!GoUndefined \/ S!Walk
  BY DEF S!Lwm2mStep
<1>2. QED
  BY <1>1, Zenon DEF S!Walk

LEMMA ClientStepCases ==
    ASSUME C!Lwm2mStep
    PROVE  \/ C!GoUndefined
           \/ /\ C!WalkList(C!Touched, C!Gone)
              /\ UNCHANGED <<cLocation, cObserved, cValue, cNextMID>>
  BY DEF C!Lwm2mStep

\* lwm2m_register of the client.
LEMMA ClientRegisterCases ==
    ASSUME C!Register
    PROVE  /\ UNCHANGED <<cLocation, cObserved, cValue>>
           /\ cStatus' = [s \in C!Servers |-> cStatus'[s]]
           /\ \A s \in C!Servers :
                 cStatus'[s] \in {"REG_PENDING", "UNKNOWN", cStatus[s]}
           /\ \E ss : cSent' = {C!RegisterRequest(cNextMID + s - 1, s) : s \in ss}
           /\ cNextMID' = cNextMID \/ \E k \in 1..2 : cNextMID' = cNextMID + k
<1>1. UNCHANGED <<cLocation, cObserved, cValue>>
  BY Zenon DEF C!Register
<1>2. /\ cStatus' = [s \in C!Servers |-> cStatus'[s]]
      /\ \A s \in C!Servers :
            cStatus'[s] \in {"REG_PENDING", "UNKNOWN", cStatus[s]}
      /\ \E ss : cSent' = {C!RegisterRequest(cNextMID + s - 1, s) : s \in ss}
  <2>1. cStatus' = [s \in C!Servers |-> cStatus'[s]]
    BY SMTT(30) DEF C!Register
  <2>3. \A s \in C!Servers :
           cStatus'[s] \in {"REG_PENDING", "UNKNOWN", cStatus[s]}
    BY SMTT(30) DEF C!Register, C!Outcome
  <2>2. \E ss : cSent' = {C!RegisterRequest(cNextMID + s - 1, s) : s \in ss}
    BY ZenonT(60) DEF C!Register
  <2>4. QED
    BY <2>1, <2>2, <2>3
<1>3. cNextMID' = cNextMID \/ \E k \in 1..2 : cNextMID' = cNextMID + k
  <2>1. \E stop \in 1..(1 + 1) :
           \/ cNextMID' = cNextMID + (IF stop <= 1 THEN stop ELSE 1)
           \/ cNextMID' = cNextMID
    BY ZenonT(60) DEF C!Register
  <2>2. QED
    BY <2>1
<1>4. QED
  BY <1>1, <1>2, <1>3

\* lwm2m_step sends requests only.
LEMMA StepSends ==
    ASSUME S!Lwm2mStep
    PROVE  /\ sClients' = sClients /\ sNextMID' = sNextMID
           /\ \A q \in sSent' : IsRequest(q)
<1>1. \/ sSent' = {}
      \/ \E ms : sSent' = {S!Request(m, sTransactions[m]) : m \in ms}
  BY ServerStepCases, Zenon DEF S!WalkList, S!GoUndefined
<1>2. sClients' = sClients /\ sNextMID' = sNextMID
  BY ServerStepCases, Zenon DEF S!WalkList, S!GoUndefined
<1>3. QED
  BY <1>1, <1>2, RequestFields

-----------------------------------------------------------------------------
(* Registration                                                             *)

\* POST /rd writes the one record there is, and answers with its place.
LEMMA RegisterRecords ==
    ASSUME NEW mid, S!Register(Addr, mid, Name, FALSE),
           sClients = [id \in S!Ids |-> sClients[id]]
    PROVE  /\ sClients' = [id \in S!Ids |-> sClients'[id]]
           /\ \A l \in S!Ids : sClients[l] = Record => sClients'[l] = Record
           /\ \A q \in sSent' : ~IsRequest(q) /\ q.code = "2.01" =>
                 q.location \in S!Ids /\ sClients'[q.location] = Record
<1>1. CASE /\ sSent' = {[to |-> Addr, mid |-> mid, code |-> "4.00"]}
           /\ sClients' = sClients
  BY <1>1
<1>2. CASE \E id \in S!Ids :
              /\ sClients' = [sClients EXCEPT ![id] = Record]
              /\ sSent' = {[to |-> Addr, mid |-> mid, code |-> "2.01", location |-> id]}
  BY <1>2
<1>3. QED
  BY <1>1, <1>2, RegisterCases

\* Every other step of the server but a DELETE keeps the records.
LEMMA ServerRecords ==
    ASSUME ServerAction, sClients = [id \in S!Ids |-> sClients[id]]
    PROVE  /\ sClients' = [id \in S!Ids |-> sClients'[id]]
           /\ \/ Farewell
              \/ /\ \A l \in S!Ids : sClients[l] = Record => sClients'[l] = Record
                 /\ \A q \in sSent' : ~IsRequest(q) /\ q.code = "2.01" =>
                       q.location \in S!Ids /\ sClients'[q.location] = Record
<1>0. ASSUME NEW t, NEW obs, S!Launch(t, obs)
      PROVE  \A q \in sSent' : IsRequest(q)
  <2>1. sSent' = {S!Request(sNextMID, t)}
    BY <1>0, Launched
  <2>2. QED
    BY <2>1, RequestFields
<1>1. ASSUME NEW op, NEW id, NEW u, S!DmRequest(op, id, u, TRUE) \/ S!Observe(id, u)
      PROVE  sClients' = sClients /\ \A q \in sSent' : IsRequest(q)
  <2>1. CASE S!DmRequest(op, id, u, TRUE)
    BY <1>0, <2>1, DmRequestCases
  <2>2. CASE S!Observe(id, u)
    BY <1>0, <2>2, ObserveCases
  <2>3. QED
    BY <1>1, <2>1, <2>2
<1>2. ASSUME NEW mid, S!Register(Addr, mid, Name, FALSE)
      PROVE  /\ sClients' = [id \in S!Ids |-> sClients'[id]]
             /\ \A l \in S!Ids : sClients[l] = Record => sClients'[l] = Record
             /\ \A q \in sSent' : ~IsRequest(q) /\ q.code = "2.01" =>
                   q.location \in S!Ids /\ sClients'[q.location] = Record
  BY <1>2, RegisterRecords
<1>3. ASSUME NEW mid, NEW location, S!Deregister(Addr, mid, location, FALSE)
      PROVE  sClients' = [id \in S!Ids |-> sClients'[id]]
  <2>1. \E id : sClients' = sClients \/ sClients' = [sClients EXCEPT ![id] = None]
    BY <1>3, Zenon DEF S!Deregister
  <2>2. QED
    BY <2>1
<1>4. ASSUME NEW msg, S!ReceiveReply(msg)
      PROVE  sClients' = sClients /\ \A q \in sSent' : ~IsRequest(q) /\ q.code = "RST"
  BY <1>4, ReplySends
<1>5. CASE S!Wake \/ S!Tick \/ \E id \in S!Ids, u \in Uris : S!ObserveCancel(id, u)
  BY <1>5 DEF S!Wake, S!Tick, S!ObserveCancel
<1>6. CASE S!Lwm2mStep
  BY <1>6, StepSends
<1>7. QED
  BY <1>1, <1>2, <1>3, <1>4, <1>5, <1>6 DEF ServerAction

\* The client is registered after a step if it was before, under the same
\* location, or because a 2.01 told it one.
LEMMA ClientRegistered ==
    ASSUME ClientAction, cStatus = [s \in {Server} |-> cStatus[s]],
           cLocation = [s \in {Server} |-> cLocation[s]]
    PROVE  /\ cStatus' = [s \in {Server} |-> cStatus'[s]]
           /\ cLocation' = [s \in {Server} |-> cLocation'[s]]
           /\ cStatus'[Server] = "REGISTERED" =>
                 \/ /\ cStatus[Server] = "REGISTERED"
                    /\ cLocation'[Server] = cLocation[Server]
                 \/ \E p \in toClient :
                       /\ ~IsRequest(p) /\ p.code = "2.01"
                       /\ cLocation'[Server] = p.location
                       /\ cLocation'[Server] # None
<1>0. C!Servers = {Server}
  BY DEF C!Servers, Server
<1>1. CASE C!Register
  <2>1. cLocation' = cLocation
    BY <1>1, ClientRegisterCases
  <2>2. \A s \in C!Servers : cStatus'[s] \in {"REG_PENDING", "UNKNOWN", cStatus[s]}
    BY <1>1, ClientRegisterCases
  <2>3. cStatus' = [s \in C!Servers |-> cStatus'[s]]
    BY <1>1, ClientRegisterCases
  <2>4. QED
    BY <1>0, <2>1, <2>2, <2>3
<1>2. ASSUME NEW p \in toClient, ~IsRequest(p), C!ReceiveReply(AnswerOf(p))
      PROVE  \/ cStatus' = cStatus /\ cLocation' = cLocation
             \/ cStatus' = [cStatus EXCEPT ![Server] = "UNKNOWN"] /\ cLocation' = cLocation
             \/ /\ cStatus' = [cStatus EXCEPT ![Server] = "REGISTERED"]
                /\ p.code = "2.01" /\ p.location # None
                /\ cLocation' = [cLocation EXCEPT ![Server] = p.location]
  <2> DEFINE msg == AnswerOf(p)
  <2>1. /\ msg.from = Server /\ msg.code = p.code
        /\ msg.location # None => msg.location = p.location
    BY DEF AnswerOf
  <2> HIDE DEF msg
  <2>2. CASE C!RegistrationReply(msg, Server)
    BY <2>1, <2>2 DEF C!RegistrationReply, C!CountsFor
  <2>3. CASE cStatus' = cStatus /\ cLocation' = cLocation
    BY <2>3
  <2>4. C!GoUndefined \/ C!AnswerTransaction(msg)
    BY <1>2 DEF C!ReceiveReply, msg
  <2>5. QED
    BY <2>1, <2>2, <2>3, <2>4 DEF C!GoUndefined, C!registration, C!AnswerTransaction
<1>3. CASE (\E freed \in BOOLEAN : C!Close(freed))
  <2>1. /\ cLocation' = cLocation
        /\ \/ cStatus' = cStatus
           \/ cStatus' = [s \in C!Servers |->
                            IF s \in {r \in C!Servers : cStatus[r] = "REGISTERED"}
                            THEN "UNKNOWN" ELSE cStatus[s]]
    BY <1>3 DEF C!Close, C!GoUndefined, C!registration
  <2>2. QED
    BY <1>0, <2>1
<1>4. CASE C!Lwm2mStep
  <2>1. cLocation' = cLocation /\ (cStatus' = cStatus \/ \E ss : C!Silence(ss))
    BY <1>4, ClientStepCases, Zenon DEF C!WalkList, C!GoUndefined, C!registration
  <2>2. QED
    BY <1>0, <2>1 DEF C!Silence
<1>5. CASE \/ C!Wake \/ C!Tick \/ \E u \in Uris, v \in Values : C!UpdateObject(u, v)
  BY <1>5 DEF C!Wake, C!Tick, C!UpdateObject, C!registration
<1>6. CASE ClientRestarts
  BY <1>6 DEF ClientRestarts
<1>7. QED
  BY <1>1, <1>2, <1>3, <1>4, <1>5, <1>6 DEF ClientAction

\* Requests and notifications do not touch the registration.
LEMMA RegistrationUntouched ==
    ASSUME \/ \E u \in Uris : ClientNotifies(u)
           \/ \E q \in toClient : ClientAnswers(q)
    PROVE  cStatus' = cStatus /\ cLocation' = cLocation
  BY DEF ClientNotifies, ClientAnswers, C!ResourceValueChanged, C!HandleRequest,
         C!registration

LEMMA InitLocationsKept == Init => LocationsKept
  BY DEF Init, LocationsKept, S!Init, C!Init, C!Servers, Server

LEMMA NextLocationsKept == LocationsKept /\ [Next]_vars => LocationsKept'
<1> SUFFICES ASSUME LocationsKept, [Next]_vars
             PROVE  LocationsKept'
  OBVIOUS
<1>1. CASE UNCHANGED vars
  BY <1>1 DEF vars, serverVars, clientVars, LocationsKept, Farewell
<1>2. CASE ServerAction /\ ServerMoves
  <2>1. /\ cStatus' = cStatus /\ cLocation' = cLocation
        /\ toServer' = toServer /\ toClient' = toClient \cup sSent'
    BY <1>2 DEF ServerMoves, clientVars
  <2>2. /\ sClients' = [id \in S!Ids |-> sClients'[id]]
        /\ \/ Farewell
           \/ /\ \A l \in S!Ids : sClients[l] = Record => sClients'[l] = Record
              /\ \A q \in sSent' : ~IsRequest(q) /\ q.code = "2.01" =>
                    q.location \in S!Ids /\ sClients'[q.location] = Record
    BY <1>2, ServerRecords DEF LocationsKept
  <2>3. Farewell => Farewell'
    BY <2>1 DEF Farewell
  <2>4. QED
    BY <2>1, <2>2, <2>3 DEF LocationsKept
<1>3. CASE ClientMoves
  <2>1. sClients' = sClients /\ toClient' = toClient /\ toServer \subseteq toServer'
    BY <1>3 DEF ClientMoves, serverVars
  <2>2. Farewell => Farewell'
    BY <2>1 DEF Farewell
  <2>3. CASE ClientAction
    BY <2>1, <2>2, <2>3, ClientRegistered DEF LocationsKept
  <2>4. CASE \/ \E u \in Uris : ClientNotifies(u)
             \/ \E q \in toClient : ClientAnswers(q)
    BY <2>1, <2>2, <2>4, RegistrationUntouched DEF LocationsKept
  <2>5. QED
    BY <1>3, <2>3, <2>4, StepCases, <1>1, <1>2
<1>4. QED
  BY <1>1, <1>2, <1>3, StepCases

\* A client that believes it is registered is in the server's list, under the
\* location it was given, unless some life of it said goodbye: no loss, no
\* repetition, no delay and no restart breaks this (registration.c:338 and
\* :395, where the record is found by name and keeps its identifier).
THEOREM RegisteredStaysKnown == Spec => []RegisteredIsKnown
<1>1. LocationsKept => RegisteredIsKnown
  BY DEF LocationsKept, RegisteredIsKnown, Farewell, Record
<1>2. QED
  BY <1>1, InitLocationsKept, NextLocationsKept, PTL DEF Spec

-----------------------------------------------------------------------------
(* What the client answers                                                  *)

LEMMA FailureFields ==
    ASSUME NEW msg, NEW code, cSent' = {C!Failure(msg, code)}
    PROVE  \A a \in cSent' :
              /\ ~IsRequest(a) /\ a.mid = msg.mid /\ a.code = code
              /\ a.counter = None
  BY DEF C!Failure, IsRequest

\* What was carried out is answered as it was meant to be: nothing is cut, and
\* nothing fails here.
LEMMA AnsweredSends ==
    ASSUME NEW msg, NEW code, NEW counter, NEW data, msg.block2 = "none",
           C!Answered(msg, code, counter, data)
    PROVE  cSent' = {C!Response(msg, code, counter, data)}
  BY DEF C!Answered

LEMMA ResponseFields ==
    ASSUME NEW msg, NEW code, NEW counter, NEW data, msg.con = TRUE,
           cSent' = {C!Response(msg, code, counter, data)}
    PROVE  \A a \in cSent' :
              /\ ~IsRequest(a) /\ a.mid = msg.mid /\ a.code = code
              /\ a.counter = counter /\ a.token = msg.token /\ a.data = data
  BY DEF C!Response, IsRequest

\* The one way to an Observe option is a new or a refreshed watcher.
LEMMA ObserveRequestCases ==
    ASSUME NEW msg, msg.con = TRUE, msg.block2 = "none", C!ObserveRequest(msg)
    PROVE  /\ msg.op = "observe" /\ cValue' = cValue
           /\ \/ /\ UNCHANGED cObserved
                 /\ \E code : code # "2.05" /\ cSent' = {C!Failure(msg, code)}
              \/ /\ C!AddWatcher(msg, Server)
<1>1. msg.op = "observe" /\ cValue' = cValue
  BY DEF C!ObserveRequest
<1>2. C!FoundServer(msg.from) \subseteq {Server}
  BY DEF C!FoundServer, C!Servers, Server
<1>3. \/ C!Refused(msg, C!ReadCode(msg.uri)) /\ C!ReadCode(msg.uri) # "2.05"
      \/ C!Refused(msg, "4.00") \/ C!Refused(msg, "4.01")
      \/ \E s \in C!FoundServer(msg.from) : C!AddWatcher(msg, s)
  BY DEF C!ObserveRequest
<1>4. QED
  BY <1>1, <1>2, <1>3 DEF C!Refused

\* The watcher of a path after a request to observe it.
Watching(msg) ==
    IF C!WatchersOf(msg.uri)[Server] # None THEN C!WatchersOf(msg.uri)[Server]
    ELSE [token |-> msg.token, counter |-> 0, lastMid |-> 0]

LEMMA AddWatcherCases ==
    ASSUME NEW msg, msg.block2 = "none", C!AddWatcher(msg, Server)
    PROVE  /\ cObserved' = [cObserved EXCEPT
                 ![msg.uri] = [C!WatchersOf(msg.uri) EXCEPT
                    ![Server] = [Watching(msg) EXCEPT !.counter = @ + 1]]]
           /\ cSent' = {C!Response(msg, "2.05", Watching(msg).counter,
                                   cValue[msg.uri])}
<1>1. C!Answered(msg, "2.05", Watching(msg).counter, cValue[msg.uri])
  BY DEF C!AddWatcher, Watching
<1>2. QED
  BY <1>1, AnsweredSends DEF C!AddWatcher, Watching

\* What a request is answered with: only a read, or an observe request, gets a
\* 2.05, and only the latter an Observe option and with it its token.
LEMMA AnswersOf ==
    ASSUME NEW q, C!HandleRequest(RequestOf(q))
    PROVE  \A a \in cSent' :
              /\ ~IsRequest(a) /\ a.mid = q.mid
              /\ a.counter # None => q.op = "observe" /\ a.token = q.token
              /\ a.code = "2.05" =>
                    /\ cValue' = cValue
                    /\ \/ q.op = "read" /\ a.data = cValue[q.uri]
                       \/ q.op = "observe"
<1> DEFINE msg == RequestOf(q)
<1>1. /\ msg.con = TRUE /\ msg.block2 = "none" /\ msg.mid = q.mid
      /\ msg.token = q.token /\ msg.uri = q.uri
      /\ msg.op = "read" <=> q.op = "read"
      /\ msg.op = "observe" <=> q.op = "observe"
  BY DEF RequestOf, Verb
<1> HIDE DEF msg
<1>2. ASSUME NEW code, C!Refused(msg, code), code # "2.05"
      PROVE  \A a \in cSent' : /\ ~IsRequest(a) /\ a.mid = q.mid
                               /\ a.counter = None /\ a.code # "2.05"
  BY <1>1, <1>2, FailureFields DEF C!Refused
<1>3. CASE C!ReadRequest(msg)
  <2>1. cValue' = cValue /\ msg.op = "read"
    BY <1>3, Zenon DEF C!ReadRequest
  <2>2. \/ C!ReadCode(msg.uri) # "2.05" /\ C!Refused(msg, C!ReadCode(msg.uri))
        \/ C!Answered(msg, "2.05", None, cValue[msg.uri])
    BY <1>3 DEF C!ReadRequest
  <2>3. CASE C!Answered(msg, "2.05", None, cValue[msg.uri])
    <3>1. cSent' = {C!Response(msg, "2.05", None, cValue[msg.uri])}
      BY <1>1, <2>3, AnsweredSends, Zenon
    <3>2. QED
      BY <1>1, <2>1, <3>1 DEF C!Response, IsRequest
  <2>4. QED
    BY <1>2, <2>2, <2>3
<1>4. CASE C!WriteRequest(msg) \/ C!PostRequest(msg) \/ C!DeleteRequest(msg)
  <2>1. /\ C!WriteCode(msg.uri, msg.data) # "2.05"
        /\ C!PostCode(msg.uri, msg.data) # "2.05"
        /\ C!DeleteCode(msg.uri) # "2.05"
    BY DEF C!WriteCode, C!PostCode, C!DeleteCode
  <2>2. \/ \E code : C!Refused(msg, code) /\ code # "2.05"
        \/ C!Answered(msg, "2.04", None, None)
    BY <1>4, <2>1 DEF C!WriteRequest, C!PostRequest, C!DeleteRequest
  <2>3. CASE C!Answered(msg, "2.04", None, None)
    <3>1. cSent' = {C!Response(msg, "2.04", None, None)}
      BY <1>1, <2>3, AnsweredSends, Zenon
    <3>2. QED
      BY <1>1, <3>1 DEF C!Response, IsRequest
  <2>4. QED
    BY <1>2, <2>2, <2>3
<1>5. CASE C!ObserveRequest(msg)
  <2>1. msg.op = "observe" /\ cValue' = cValue
    BY <1>1, <1>5, ObserveRequestCases
  <2>2. CASE C!AddWatcher(msg, Server)
    <3> DEFINE n == Watching(msg).counter
    <3>1. cSent' = {C!Response(msg, "2.05", n, cValue[msg.uri])}
      BY <1>1, <2>2, AddWatcherCases
    <3> HIDE DEF n
    <3>2. QED
      BY <1>1, <2>1, <3>1 DEF C!Response, IsRequest
  <2>3. ASSUME NEW code, code # "2.05", cSent' = {C!Failure(msg, code)}
        PROVE  \A a \in cSent' : /\ ~IsRequest(a) /\ a.mid = q.mid
                                 /\ a.counter = None /\ a.code # "2.05"
    BY <1>1, <2>3, FailureFields
  <2>4. QED
    BY <1>1, <1>5, <2>1, <2>2, <2>3, ObserveRequestCases
<1>6. QED
  BY <1>3, <1>4, <1>5 DEF C!HandleRequest, C!Strays, msg

-----------------------------------------------------------------------------
(* What the client shows of the paths it observes                           *)

\* Only a request to observe makes a watcher, and only its fields do.
LEMMA WatcherAfterRequest ==
    ASSUME WatchersAsked, NEW q \in toClient, ClientAnswers(q),
           toClient' = toClient
    PROVE  WatchersAsked'
<1> DEFINE msg == RequestOf(q)
<1>1. /\ msg.con = TRUE /\ msg.block2 = "none"
      /\ msg.token = q.token /\ msg.uri = q.uri
      /\ msg.op = "observe" <=> q.op = "observe"
  BY DEF RequestOf, Verb
<1>2. C!HandleRequest(msg) /\ IsRequest(q)
  BY DEF ClientAnswers
<1> HIDE DEF msg
<1>3. CASE cObserved' = cObserved
  BY <1>3 DEF WatchersAsked, AskedFor
<1>4. CASE msg.op = "observe" /\ C!AddWatcher(msg, Server)
  <2> DEFINE u   == msg.uri
             old == C!WatchersOf(u)
             new == [Watching(msg) EXCEPT !.counter = @ + 1]
  <2>1. cObserved' = [cObserved EXCEPT ![u] = [old EXCEPT ![Server] = new]]
    BY <1>1, <1>4, AddWatcherCases
  <2>2. old = [s \in {Server} |-> old[s]] \/ u \notin Uris
    BY DEF WatchersAsked, C!WatchersOf, C!NoWatchers, C!Servers, Server
  <2>3. u \in Uris => IsWatcher(Watching(msg)) /\ AskedFor(u, Watching(msg).token)
    <3>1. CASE old[Server] # None
      BY <3>1 DEF WatchersAsked, C!WatchersOf, C!NoWatchers, C!Servers, Server, Watching
    <3>2. CASE old[Server] = None
      <4>1. Watching(msg) = [token |-> msg.token, counter |-> 0, lastMid |-> 0]
        BY <3>2 DEF Watching
      <4>2. AskedFor(u, msg.token)
        BY <1>1, <1>2, <1>4 DEF AskedFor
      <4>3. QED
        BY <4>1, <4>2 DEF IsWatcher
    <3>3. QED
      BY <3>1, <3>2
  <2>4. u \in Uris => IsWatcher(new) /\ new.token = Watching(msg).token
    BY <2>3 DEF IsWatcher
  <2> HIDE DEF old, new, u
  <2>5. \A x, t : AskedFor(x, t) => AskedFor(x, t)'
    BY DEF AskedFor
  <2>6. QED
    BY <2>1, <2>2, <2>3, <2>4, <2>5 DEF WatchersAsked, IsWatcher
<1>5. C!ReadRequest(msg) \/ C!WriteRequest(msg) \/ C!PostRequest(msg)
         \/ C!DeleteRequest(msg) => cObserved' = cObserved
  BY DEF C!ReadRequest, C!WriteRequest, C!PostRequest, C!DeleteRequest, C!Refused
<1>6. C!ObserveRequest(msg) =>
         \/ cObserved' = cObserved
         \/ msg.op = "observe" /\ C!AddWatcher(msg, Server)
  BY <1>1, ObserveRequestCases
<1>7. QED
  BY <1>2, <1>3, <1>4, <1>5, <1>6 DEF C!HandleRequest, C!Strays

LEMMA WatcherFields ==
    ASSUME NEW w, IsWatcher(w), NEW m
    PROVE  /\ IsWatcher([w EXCEPT !.lastMid = m, !.counter = @ + 1])
           /\ [w EXCEPT !.lastMid = m, !.counter = @ + 1].token = w.token
<1>1. PICK t, n, k : w = [token |-> t, counter |-> n, lastMid |-> k]
  BY Zenon DEF IsWatcher
<1> DEFINE c == n + 1
<1>2. [w EXCEPT !.lastMid = m, !.counter = @ + 1]
         = [w EXCEPT !.lastMid = m, !.counter = c]
  BY <1>1
<1> HIDE DEF c
<1> DEFINE v == [w EXCEPT !.lastMid = m]
<1>3. v = [token |-> t, counter |-> n, lastMid |-> m]
  BY <1>1
<1>4. [w EXCEPT !.lastMid = m, !.counter = c] = [v EXCEPT !.counter = c]
  OBVIOUS
<1> HIDE DEF v
<1>5. [v EXCEPT !.counter = c] = [token |-> t, counter |-> c, lastMid |-> m]
  BY <1>3
<1>6. QED
  BY <1>1, <1>2, <1>4, <1>5 DEF IsWatcher

\* A notification keeps the tokens.
LEMMA WatcherAfterNotification ==
    ASSUME WatchersAsked, NEW u \in Uris, ClientNotifies(u), toClient' = toClient
    PROVE  WatchersAsked'
<1>0. C!Servers = {Server}
  BY DEF C!Servers, Server
<1>1. PICK ws, mid :
         cObserved' = [t \in Uris |->
            IF cObserved[t] = None THEN None
            ELSE [s \in C!Servers |->
                    IF <<t, s>> \in ws THEN C!Notified(<<t, s>>, mid[<<t, s>>])
                    ELSE cObserved[t][s]]]
         /\ ws \subseteq C!Watched
  <2>1. PICK over : C!NotifyAll({w \in C!Watched :
                       /\ C!Concerns(u, w[1]) /\ w[1] \notin over
                       /\ C!ReadCode(w[1]) = "2.05"})
    BY Zenon DEF ClientNotifies, C!ResourceValueChanged
  <2> DEFINE ws == {w \in C!Watched : /\ C!Concerns(u, w[1]) /\ w[1] \notin over
                                      /\ C!ReadCode(w[1]) = "2.05"}
  <2>2. ws \subseteq C!Watched
    OBVIOUS
  <2>3. C!NotifyAll(ws)
    BY <2>1
  <2> HIDE DEF ws
  <2>4. QED
    BY <2>2, <2>3, Zenon DEF C!NotifyAll
<1>2. ASSUME NEW t \in Uris, cObserved[t] # None, <<t, Server>> \in ws
      PROVE  /\ cObserved[t][Server] # None
             /\ IsWatcher(C!Notified(<<t, Server>>, mid[<<t, Server>>]))
             /\ C!Notified(<<t, Server>>, mid[<<t, Server>>]).token
                   = cObserved[t][Server].token
  <2>1. cObserved[t][Server] # None
    BY <1>1, <1>2 DEF C!Watched
  <2>2. IsWatcher(cObserved[t][Server])
    BY <1>2, <2>1 DEF WatchersAsked
  <2> DEFINE x == cObserved[t][Server]
             m == mid[<<t, Server>>]
  <2>3. C!Notified(<<t, Server>>, m) = [x EXCEPT !.lastMid = m, !.counter = @ + 1]
    BY Zenon DEF C!Notified, C!Watcher
  <2>4. IsWatcher(x)
    BY <2>2
  <2> HIDE DEF x, m
  <2>5. /\ IsWatcher([x EXCEPT !.lastMid = m, !.counter = @ + 1])
        /\ [x EXCEPT !.lastMid = m, !.counter = @ + 1].token = x.token
    BY <2>4, WatcherFields
  <2>6. QED
    BY <2>1, <2>3, <2>5 DEF x, m
<1>3. \A x, t : AskedFor(x, t) => AskedFor(x, t)'
  BY DEF AskedFor
<1>4. QED
  BY <1>0, <1>1, <1>2, <1>3 DEF WatchersAsked

\* Nothing else makes one.
LEMMA WatcherAfterAction ==
    ASSUME WatchersAsked, ClientAction, toClient' = toClient
    PROVE  WatchersAsked'
<1>0. \A x, t : AskedFor(x, t) => AskedFor(x, t)'
  BY DEF AskedFor
<1>1. CASE cObserved' = cObserved \/ cObserved' = [u \in Uris |-> None]
  BY <1>0, <1>1 DEF WatchersAsked
<1>2. ASSUME NEW w \in C!Watched, cObserved' = C!Unwatched(w)
      PROVE  WatchersAsked'
  <2>1. w[2] = Server
    BY DEF C!Watched, C!Servers, Server
  <2> DEFINE rest == [cObserved[w[1]] EXCEPT ![Server] = None]
  <2>2. \/ cObserved' = [cObserved EXCEPT ![w[1]] = rest]
        \/ cObserved' = [cObserved EXCEPT ![w[1]] = None]
    BY <1>2, <2>1 DEF C!Unwatched
  <2>3. w[1] \in Uris /\ cObserved[w[1]] # None
    BY DEF C!Watched
  <2>4. rest = [s \in {Server} |-> rest[s]] /\ rest[Server] = None
    BY <2>3 DEF WatchersAsked
  <2> HIDE DEF rest
  <2>5. QED
    BY <1>0, <2>2, <2>4 DEF WatchersAsked
<1>3. ASSUME NEW p, C!ReceiveReply(AnswerOf(p))
      PROVE  \/ cObserved' = cObserved
             \/ \E w \in C!Watched : cObserved' = C!Unwatched(w)
  BY <1>3 DEF C!ReceiveReply, C!GoUndefined, C!CancelObserve, C!MeantBy
<1>4. CASE (\E freed \in BOOLEAN : C!Close(freed))
  BY <1>1, <1>4 DEF C!Close, C!GoUndefined
<1>5. CASE C!Register \/ C!Lwm2mStep \/ C!Wake \/ C!Tick \/ ClientRestarts
           \/ \E u \in Uris, v \in Values : C!UpdateObject(u, v)
  BY <1>1, <1>5, ClientRegisterCases, ClientStepCases DEF C!GoUndefined, C!Wake, C!Tick, ClientRestarts, C!UpdateObject
<1>6. QED
  BY <1>1, <1>2, <1>3, <1>4, <1>5 DEF ClientAction

LEMMA InitWatchersAsked == Init => WatchersAsked /\ ShownWithItsToken
  BY DEF Init, C!Init, WatchersAsked, ShownWithItsToken

LEMMA NextWatchersAsked ==
    WatchersAsked /\ ShownWithItsToken /\ [Next]_vars
      => WatchersAsked' /\ ShownWithItsToken'
<1> SUFFICES ASSUME WatchersAsked, ShownWithItsToken, [Next]_vars
             PROVE  WatchersAsked' /\ ShownWithItsToken'
  OBVIOUS
<1>0. ShownWithItsToken <=> \A n \in shown : AskedFor(n[2], n[1].token)
  BY DEF ShownWithItsToken, AskedFor
<1>1. ShownWithItsToken' <=> \A n \in shown' : AskedFor(n[2], n[1].token)'
  BY DEF ShownWithItsToken, AskedFor
<1>2. CASE \/ UNCHANGED vars
           \/ ServerAction /\ ServerMoves
  <2>1. toClient \subseteq toClient' /\ cObserved' = cObserved /\ shown' = shown
    BY <1>2 DEF vars, clientVars, history, ServerMoves
  <2>2. \A x, t : AskedFor(x, t) => AskedFor(x, t)'
    BY <2>1 DEF AskedFor
  <2>3. QED
    BY <1>0, <1>1, <2>1, <2>2 DEF WatchersAsked
<1>3. CASE ClientMoves /\ sPhase # "step"
  <2>1. toClient' = toClient
    BY <1>3 DEF ClientMoves
  <2>2. \A x, t : AskedFor(x, t) => AskedFor(x, t)'
    BY <2>1 DEF AskedFor
  <2>3. CASE ClientAction /\ UNCHANGED <<answers, shown>>
    BY <1>0, <1>1, <2>1, <2>2, <2>3, WatcherAfterAction
  <2>4. ASSUME NEW u \in Uris, ClientNotifies(u)
        PROVE  WatchersAsked' /\ ShownWithItsToken'
    <3>1. ASSUME NEW w \in C!Watched, NEW m
          PROVE  AskedFor(w[1], C!Notification(w, m).token)
      <4>1. w[2] = Server /\ w[1] \in Uris /\ cObserved[w[1]] # None
            /\ cObserved[w[1]][Server] # None
        BY DEF C!Watched, C!Servers, Server
      <4>2. QED
        BY <4>1 DEF C!Notification, C!TokenOf, C!Watcher, WatchersAsked
    <3>2. \A n \in shown' \ shown : \E w \in C!Watched : \E m :
              n = <<C!Notification(w, m), w[1]>>
      BY <2>4, Zenon DEF ClientNotifies
    <3>3. \A n \in shown' \ shown : AskedFor(n[2], n[1].token)
      BY <3>1, <3>2
    <3>4. QED
      BY <1>0, <1>1, <2>1, <2>2, <2>4, <3>3, WatcherAfterNotification
  <2>5. ASSUME NEW q \in toClient, ClientAnswers(q)
        PROVE  WatchersAsked' /\ ShownWithItsToken'
    <3>1. IsRequest(q) /\ \A a \in cSent' : 
             a.counter # None => q.op = "observe" /\ a.token = q.token
      BY <2>5, AnswersOf DEF ClientAnswers
    <3>2. \A a \in cSent' : a.counter # None => AskedFor(q.uri, a.token)
      BY <3>1 DEF AskedFor
    <3>3. \A n \in shown' \ shown : AskedFor(n[2], n[1].token)
      BY <2>5, <3>2 DEF ClientAnswers
    <3>4. QED
      BY <1>0, <1>1, <2>1, <2>2, <2>5, <3>3, WatcherAfterRequest
  <2>6. QED
    BY <1>2, <1>3, <2>3, <2>4, <2>5, StepCases
<1>4. QED
  BY <1>2, <1>3, StepCases

\* Whatever the client sends of a path it observes carries a token the server
\* gave for this path (observe.c:179, a watcher that is found keeps its token),
\* in whatever order requests, resets and restarts come.
THEOREM ShownAsAsked == Spec => []ShownWithItsToken
  BY InitWatchersAsked, NextWatchersAsked, PTL DEF Spec

-----------------------------------------------------------------------------
(* The server's list of transactions                                        *)

\* u is what became of the transaction t: it asks for the same.
Continues(t, u) ==
    /\ u.op = t.op /\ u.uri = t.uri /\ u.peer = t.peer /\ u.obs = t.obs
    /\ t.obsFreed => u.obsFreed

LEMMA TransactionUpdates ==
    ASSUME NEW t, IsTransaction(t)
    PROVE  /\ Continues(t, t)
           /\ \A x : /\ IsTransaction([t EXCEPT !.timer = x])
                     /\ Continues(t, [t EXCEPT !.timer = x])
           /\ /\ IsTransaction([t EXCEPT !.obsFreed = TRUE])
              /\ Continues(t, [t EXCEPT !.obsFreed = TRUE])
           /\ /\ IsTransaction([t EXCEPT !.peerFreed = TRUE, !.obsFreed = TRUE])
              /\ Continues(t, [t EXCEPT !.peerFreed = TRUE, !.obsFreed = TRUE])
<1>1. Continues(t, t)
  BY DEF Continues
<1> DEFINE Shaped(x) ==
        x = [op |-> x.op, peer |-> x.peer, peerFreed |-> x.peerFreed,
             obs |-> x.obs, obsFreed |-> x.obsFreed, uri |-> x.uri,
             cb |-> x.cb, timer |-> x.timer]
<1>2. Shaped(t)
  BY DEF IsTransaction
<1>3. ASSUME NEW x, Shaped(x), NEW b
      PROVE  Shaped([x EXCEPT !.obsFreed = b]) /\ Shaped([x EXCEPT !.peerFreed = b])
  BY <1>3
<1> HIDE DEF Shaped
<1>4. ASSUME NEW x
      PROVE  /\ IsTransaction([t EXCEPT !.timer = x])
             /\ Continues(t, [t EXCEPT !.timer = x])
  BY DEF IsTransaction, Continues
<1>5. /\ IsTransaction([t EXCEPT !.obsFreed = TRUE])
      /\ Continues(t, [t EXCEPT !.obsFreed = TRUE])
  <2> DEFINE y == [t EXCEPT !.obsFreed = TRUE]
  <2>1. Shaped(y)
    BY <1>2, <1>3, Zenon
  <2>2. y.op = t.op /\ y.uri = t.uri /\ y.peer = t.peer /\ y.obs = t.obs
    BY DEF IsTransaction
  <2>3. y.obsFreed = TRUE /\ y.peerFreed = t.peerFreed
    BY DEF IsTransaction
  <2> HIDE DEF y
  <2>4. IsTransaction(y) /\ Continues(t, y)
    BY <2>1, <2>2, <2>3 DEF IsTransaction, Continues, Shaped
  <2>5. QED
    BY <2>4 DEF y
<1>6. /\ IsTransaction([t EXCEPT !.peerFreed = TRUE, !.obsFreed = TRUE])
      /\ Continues(t, [t EXCEPT !.peerFreed = TRUE, !.obsFreed = TRUE])
  <2> DEFINE x == [t EXCEPT !.peerFreed = TRUE]
             y == [t EXCEPT !.peerFreed = TRUE, !.obsFreed = TRUE]
  <2>1. y = [x EXCEPT !.obsFreed = TRUE]
    OBVIOUS
  <2>2. Shaped(x)
    BY <1>2, <1>3, Zenon
  <2>3. y.op = t.op /\ y.uri = t.uri /\ y.peer = t.peer /\ y.obs = t.obs
    BY DEF IsTransaction
  <2>4. y.obsFreed = TRUE /\ y.peerFreed = TRUE
    BY DEF IsTransaction
  <2> HIDE DEF x, y
  <2>5. Shaped(y)
    BY <2>1, <2>2, <1>3, Zenon
  <2>6. IsTransaction(y) /\ Continues(t, y)
    BY <2>3, <2>4, <2>5 DEF IsTransaction, Continues, Shaped
  <2>7. QED
    BY <2>6 DEF y
<1>7. QED
  BY <1>1, <1>4, <1>5, <1>6

LEMMA TimerUpdate ==
    ASSUME NEW t, IsTransaction(t), NEW y, NEW x, x = [t EXCEPT !.timer = y]
    PROVE  IsTransaction(x) /\ Continues(t, x)
  BY TransactionUpdates

\* What a step of the server leaves in its list, and what it sends.
ListStep ==
    /\ sNextMID' \in Nat /\ sNextMID <= sNextMID'
    /\ sTransactions' = [m \in S!Mids |-> sTransactions'[m]]
    /\ \A m \in S!Pending' :
          /\ m < sNextMID' /\ IsTransaction(sTransactions'[m])
          /\ \/ m \in S!Pending /\ Continues(sTransactions[m], sTransactions'[m])
             \/ m = sNextMID
    /\ \A q \in sSent' : IsRequest(q) =>
          /\ q.mid \in S!Mids /\ q.mid < sNextMID'
          /\ q.op \in Ops /\ q.uri \in Uris
          /\ q.mid \in S!Pending' => Asks(q, sTransactions'[q.mid])

\* A step that takes no message ID and changes the transactions one by one.
LEMMA StepOnList ==
    ASSUME ListOK, sNextMID' = sNextMID,
           sTransactions' = [m \in S!Mids |-> sTransactions'[m]],
           \A m \in S!Mids : sTransactions[m] = None => sTransactions'[m] = None,
           \A m \in S!Pending : sTransactions'[m] # None =>
              /\ IsTransaction(sTransactions'[m])
              /\ Continues(sTransactions[m], sTransactions'[m]),
           \A q \in sSent' : IsRequest(q) =>
              \E m \in S!Pending : q = S!Request(m, sTransactions[m])
    PROVE  ListStep
<1>1. \A m \in S!Pending' : m \in S!Pending
  BY DEF S!Pending
<1>2. ASSUME NEW q \in sSent', IsRequest(q)
      PROVE  /\ q.mid \in S!Mids /\ q.mid < sNextMID'
             /\ q.op \in Ops /\ q.uri \in Uris
             /\ q.mid \in S!Pending' => Asks(q, sTransactions'[q.mid])
  <2>1. PICK m \in S!Pending : q = S!Request(m, sTransactions[m])
    BY <1>2
  <2>2. q.mid = m /\ Asks(q, sTransactions[m])
    BY <2>1, RequestFields
  <2>3. m \in S!Mids /\ m < sNextMID' /\ IsTransaction(sTransactions[m])
    BY DEF ListOK, S!Pending
  <2>4. q.op \in Ops /\ q.uri \in Uris
    BY <2>2, <2>3 DEF Asks, IsTransaction
  <2>5. m \in S!Pending' => Asks(q, sTransactions'[m])
    BY <2>2 DEF Asks, Continues, S!Pending
  <2>6. QED
    BY <2>2, <2>3, <2>4, <2>5
<1>3. \A m \in S!Pending' :
          /\ m < sNextMID' /\ IsTransaction(sTransactions'[m])
          /\ m \in S!Pending /\ Continues(sTransactions[m], sTransactions'[m])
  BY <1>1 DEF ListOK, S!Pending
<1>4. QED
  BY <1>2, <1>3 DEF ListStep, ListOK

LEMMA StepKeepsList ==
    ASSUME ListOK, sNextMID' = sNextMID, sTransactions' = sTransactions,
           \A q \in sSent' : ~IsRequest(q)
    PROVE  ListStep
<1>1. \A m \in S!Pending : Continues(sTransactions[m], sTransactions'[m])
  BY DEF Continues
<1>2. QED
  BY <1>1, StepOnList DEF ListOK

\* A request takes the next message ID.
LEMMA LaunchOnList ==
    ASSUME ListOK, NEW op \in Ops, NEW id \in S!Ids, NEW u \in Uris, NEW o, NEW obs,
           op = "observe" => o \in S!ObsIds, sNextMID < MaxMid,
           S!Launch(S!NewTransaction(op, id, o, u, TRUE), obs)
    PROVE  ListStep
<1> DEFINE t == S!NewTransaction(op, id, o, u, TRUE)
           x == S!SentAgain(t, TRUE)
<1>1. IsTransaction(t) /\ t.op = op /\ t.uri = u
  BY DEF S!NewTransaction, IsTransaction
<1>2. S!Launch(t, obs)
  OBVIOUS
<1> HIDE DEF t
<1>3. IsTransaction(x) /\ Continues(t, x)
  BY <1>1, TransactionUpdates DEF S!SentAgain
<1>4. /\ sNextMID' = sNextMID + 1
      /\ sTransactions' = [sTransactions EXCEPT ![sNextMID] = x]
      /\ sSent' = {S!Request(sNextMID, t)}
  BY <1>2, Launched
<1> HIDE DEF x
<1>5. sNextMID \in S!Mids
  BY SystemAssumption DEF ListOK, S!Mids, MaxMid
<1>6. \A m \in S!Pending' :
         /\ m < sNextMID' /\ IsTransaction(sTransactions'[m])
         /\ \/ m \in S!Pending /\ sTransactions'[m] = sTransactions[m]
            \/ m = sNextMID
  BY <1>3, <1>4, <1>5 DEF ListOK, S!Pending, S!Mids
<1>7. \A q \in sSent' : q.mid = sNextMID /\ Asks(q, t) /\ IsRequest(q)
  BY <1>4, RequestFields
<1>8. sTransactions'[sNextMID] = x
  BY <1>4, <1>5 DEF ListOK
<1>9. \A q \in sSent' : /\ q.mid = sNextMID /\ q.op \in Ops /\ q.uri \in Uris
                        /\ Asks(q, sTransactions'[sNextMID])
  BY <1>1, <1>3, <1>7, <1>8 DEF Asks, Continues
<1>10. /\ sNextMID' \in Nat /\ sNextMID < sNextMID'
       /\ sTransactions' = [m \in S!Mids |-> sTransactions'[m]]
  BY <1>4, <1>5 DEF ListOK
<1>11. \A m : Continues(sTransactions[m], sTransactions[m])
  BY DEF Continues
<1>12. QED
  BY <1>5, <1>6, <1>9, <1>10, <1>11 DEF ListStep, ListOK

\* The list after one walk of lwm2m_step: a transaction is gone, was sent
\* again, or was left alone.
LEMMA WalkCases ==
    ASSUME S!Lwm2mStep
    PROVE  \/ sTransactions' = sTransactions /\ sObservations' = sObservations
              /\ sCalls' = {} /\ sSent' = {} /\ sPhase' = "undefined"
           \/ \E touched, gone, told, noClock :
                 /\ touched \subseteq S!Pending
                 /\ told \subseteq gone /\ told \subseteq S!Pending
                 /\ sTransactions' = S!Walked(touched, gone, noClock)
                 /\ sObservations' =
                       S!WithoutObservations({sTransactions[m] : m \in told})
                 /\ sCalls' = {S!Call(m, sTransactions[m], "5.03", None) : m \in told}
                 /\ sSent' = {S!Request(m, sTransactions[m]) : m \in touched}
                 /\ sPhase' = "select"
<1>1. S!GoUndefined =>
         /\ sTransactions' = sTransactions /\ sObservations' = sObservations
         /\ sCalls' = {} /\ sSent' = {} /\ sPhase' = "undefined"
  BY DEF S!GoUndefined
<1>2. ASSUME NEW noBuffer, NEW noClock, ~S!GoUndefined,
             S!WalkList(S!Touched(noBuffer), S!Gone(noBuffer, noClock),
                        S!Told(noBuffer, noClock), noBuffer, noClock)
      PROVE  \E touched, gone, told :
                /\ touched \subseteq S!Pending
                /\ told \subseteq gone /\ told \subseteq S!Pending
                /\ sTransactions' = S!Walked(touched, gone, noClock)
                /\ sObservations' =
                      S!WithoutObservations({sTransactions[m] : m \in told})
                /\ sCalls' = {S!Call(m, sTransactions[m], "5.03", None) : m \in told}
                /\ sSent' = {S!Request(m, sTransactions[m]) : m \in touched}
                /\ sPhase' = "select"
  <2> DEFINE touched == S!Touched(noBuffer)
             gone    == S!Gone(noBuffer, noClock)
             told    == S!Told(noBuffer, noClock)
  <2>1. touched \subseteq S!Pending /\ told \subseteq gone /\ told \subseteq S!Pending
    BY DEF S!Touched, S!Told, S!Gone
  <2>2. S!WalkList(touched, gone, told, noBuffer, noClock)
    BY <1>2
  <2> HIDE DEF touched, gone, told
  <2>3. /\ sTransactions' = S!Walked(touched, gone, noClock)
        /\ sObservations' = S!WithoutObservations({sTransactions[m] : m \in told})
        /\ sCalls' = {S!Call(m, sTransactions[m], "5.03", None) : m \in told}
        /\ sSent' = {S!Request(m, sTransactions[m]) : m \in touched}
        /\ sPhase' = "select"
    BY <1>2, <2>2, Zenon DEF S!WalkList
  <2>4. QED
    BY <2>1, <2>3, Zenon
<1>3. S!GoUndefined
      \/ \E noBuffer, noClock :
            S!WalkList(S!Touched(noBuffer), S!Gone(noBuffer, noClock),
                       S!Told(noBuffer, noClock), noBuffer, noClock)
  BY ServerStepCases, Zenon
<1>4. CASE S!GoUndefined
  BY <1>1, <1>4, Zenon
<1>5. CASE ~S!GoUndefined
  <2>1. PICK noBuffer, noClock :
           S!WalkList(S!Touched(noBuffer), S!Gone(noBuffer, noClock),
                      S!Told(noBuffer, noClock), noBuffer, noClock)
    BY <1>3, <1>5, Zenon
  <2>2. \E touched, gone, told :
           /\ touched \subseteq S!Pending
           /\ told \subseteq gone /\ told \subseteq S!Pending
           /\ sTransactions' = S!Walked(touched, gone, noClock)
           /\ sObservations' =
                 S!WithoutObservations({sTransactions[m] : m \in told})
           /\ sCalls' = {S!Call(m, sTransactions[m], "5.03", None) : m \in told}
           /\ sSent' = {S!Request(m, sTransactions[m]) : m \in touched}
           /\ sPhase' = "select"
    BY <1>2, <1>5, <2>1, Zenon
  <2>3. QED
    BY <2>2, Zenon
<1>6. QED
  BY <1>4, <1>5

LEMMA WalkOnList ==
    ASSUME ListOK, S!Lwm2mStep
    PROVE  ListStep
<1>1. sNextMID' = sNextMID
  BY StepSends
<1>2. CASE sTransactions' = sTransactions /\ sSent' = {}
  BY <1>1, <1>2, StepKeepsList
<1>3. ASSUME NEW touched, NEW gone, NEW noClock, touched \subseteq S!Pending,
             sTransactions' = S!Walked(touched, gone, noClock),
             sSent' = {S!Request(m, sTransactions[m]) : m \in touched}
      PROVE  ListStep
  <2>1. sTransactions' = [m \in S!Mids |-> sTransactions'[m]]
    BY <1>3 DEF S!Walked
  <2>2. \A m \in S!Mids :
           sTransactions'[m] \in
              {None, sTransactions[m], S!SentAgain(sTransactions[m], m \notin noClock)}
    BY <1>3 DEF S!Walked, S!Removed
  <2>3. \A m \in S!Mids : sTransactions[m] = None => sTransactions'[m] = None
    BY <1>3 DEF S!Walked, S!Removed, S!Pending
  <2>4. \A m \in S!Pending : sTransactions'[m] # None =>
              /\ IsTransaction(sTransactions'[m])
              /\ Continues(sTransactions[m], sTransactions'[m])
    <3>1. ASSUME NEW m \in S!Pending, sTransactions'[m] # None
          PROVE  /\ IsTransaction(sTransactions'[m])
                 /\ Continues(sTransactions[m], sTransactions'[m])
      <4> DEFINE t == sTransactions[m]
                 x == S!SentAgain(t, m \notin noClock)
      <4>1. IsTransaction(t)
        BY DEF ListOK
      <4>2. PICK y : x = [t EXCEPT !.timer = y]
        BY Zenon DEF S!SentAgain
      <4> HIDE DEF x
      <4>3. IsTransaction(x) /\ Continues(t, x) /\ Continues(t, t)
        BY <4>1, <4>2, TransactionUpdates, TimerUpdate
      <4>4. sTransactions'[m] \in {None, t, x}
        BY <2>2 DEF S!Pending, x
      <4>5. QED
        BY <3>1, <4>1, <4>3, <4>4
    <3>2. QED
      BY <3>1
  <2>5. \A q \in sSent' : \E m \in S!Pending : q = S!Request(m, sTransactions[m])
    BY <1>3
  <2>6. QED
    BY <1>1, <2>1, <2>3, <2>4, <2>5, StepOnList
<1>4. QED
  BY <1>2, <1>3, WalkCases, Zenon

LEMMA ServerListStep ==
    ASSUME ServerAction, ListOK
    PROVE  ListStep
<1>1. ASSUME NEW op \in Ops, NEW id \in S!Ids, NEW u \in Uris,
             S!DmRequest(op, id, u, TRUE)
      PROVE  ListStep
  <2>1. op # "observe" /\ sNextMID < MaxMid
    BY <1>1 DEF S!DmRequest, S!DmOperations
  <2>2. QED
    BY <1>1, <2>1, DmRequestCases, LaunchOnList
<1>2. ASSUME NEW id \in S!Ids, NEW u \in Uris, "observe" \in Ops, S!Observe(id, u)
      PROVE  ListStep
  <2>1. sNextMID < MaxMid
    BY <1>2 DEF S!Observe
  <2>2. QED
    BY <1>2, <2>1, ObserveCases, LaunchOnList
<1>3. ASSUME NEW mid, S!Register(Addr, mid, Name, FALSE)
      PROVE  ListStep
  <2>1. /\ sNextMID' = sNextMID /\ sTransactions' = sTransactions
        /\ \A q \in sSent' : ~IsRequest(q)
    BY <1>3, RegisterAnswers
  <2>2. QED
    BY <2>1, StepKeepsList
<1>4. ASSUME NEW ms, sNextMID' = sNextMID, \A q \in sSent' : ~IsRequest(q),
             \/ sTransactions' = [m \in S!Mids |->
                   IF m \in ms
                   THEN [sTransactions[m] EXCEPT !.peerFreed = TRUE, !.obsFreed = TRUE]
                   ELSE sTransactions[m]]
             \/ sTransactions' = [m \in S!Mids |->
                   IF m \in ms THEN [sTransactions[m] EXCEPT !.obsFreed = TRUE]
                   ELSE sTransactions[m]],
             ms \subseteq S!Pending
      PROVE  ListStep
  <2>1. ASSUME NEW m \in S!Pending
        PROVE  /\ IsTransaction(sTransactions'[m])
               /\ Continues(sTransactions[m], sTransactions'[m])
    <3> DEFINE t == sTransactions[m]
               x == [t EXCEPT !.peerFreed = TRUE, !.obsFreed = TRUE]
               y == [t EXCEPT !.obsFreed = TRUE]
    <3>1. IsTransaction(t)
      BY DEF ListOK
    <3>2. /\ IsTransaction(x) /\ Continues(t, x)
          /\ IsTransaction(y) /\ Continues(t, y) /\ Continues(t, t)
      BY <3>1, TransactionUpdates
    <3>3. sTransactions'[m] \in {t, x, y}
      BY <1>4 DEF S!Pending
    <3> HIDE DEF t, x, y
    <3>4. QED
      BY <3>1, <3>2, <3>3 DEF t
  <2>2. \A m \in S!Mids : sTransactions[m] = None => sTransactions'[m] = None
    BY <1>4 DEF S!Pending
  <2>3. sTransactions' = [m \in S!Mids |-> sTransactions'[m]]
    BY <1>4
  <2>4. QED
    BY <1>4, <2>1, <2>2, <2>3, StepOnList
<1>5. ASSUME NEW mid, NEW location, S!Deregister(Addr, mid, location, FALSE)
      PROVE  ListStep
  <2>1. /\ sNextMID' = sNextMID
        /\ \E code : sSent' = {[to |-> Addr, mid |-> mid, code |-> code]}
    BY <1>5, DeregisterCases
  <2>2. \A q \in sSent' : ~IsRequest(q)
    BY <2>1 DEF IsRequest
  <2>3. CASE sTransactions' = sTransactions
    BY <2>1, <2>2, <2>3, StepKeepsList
  <2>4. \/ sTransactions' = sTransactions
        \/ \E ms \in SUBSET S!Pending : sTransactions' = [m \in S!Mids |->
              IF m \in ms
              THEN [sTransactions[m] EXCEPT !.peerFreed = TRUE, !.obsFreed = TRUE]
              ELSE sTransactions[m]]
    <3> DEFINE ms == S!PendingWith(IF location = None THEN 0 ELSE location)
    <3>1. \/ sTransactions' = sTransactions
          \/ sTransactions' = [m \in S!Mids |->
              IF m \in ms
              THEN [sTransactions[m] EXCEPT !.peerFreed = TRUE, !.obsFreed = TRUE]
              ELSE sTransactions[m]]
      BY <1>5, Zenon DEF S!Deregister
    <3>2. ms \in SUBSET S!Pending
      BY DEF S!PendingWith
    <3>3. QED
      BY <3>1, <3>2, Zenon
  <2>5. QED
    BY <1>4, <2>1, <2>2, <2>3, <2>4
<1>6. ASSUME NEW id \in S!Ids, NEW u \in Uris, S!ObserveCancel(id, u)
      PROVE  ListStep
  <2>1. /\ sNextMID' = sNextMID /\ sSent' = {}
        /\ \E o : sTransactions' = [m \in S!Mids |->
                   IF m \in S!Carriers(id, o)
                   THEN [sTransactions[m] EXCEPT !.obsFreed = TRUE]
                   ELSE sTransactions[m]]
    BY <1>6, Zenon DEF S!ObserveCancel
  <2>2. \A o : S!Carriers(id, o) \subseteq S!Pending
    BY DEF S!Carriers
  <2>3. QED
    BY <1>4, <2>1, <2>2
<1>7. ASSUME NEW msg, S!ReceiveReply(msg)
      PROVE  ListStep
  <2>1. sNextMID' = sNextMID /\ \A q \in sSent' : ~IsRequest(q)
    BY <1>7, ReplySends
  <2>2. \/ sTransactions' = sTransactions
        \/ sTransactions' = S!Removed({msg.mid})
    BY <1>7 DEF S!ReceiveReply, S!Notify, S!AnswerTransaction, S!AnswerWith, S!GoUndefined
  <2>3. CASE sTransactions' = S!Removed({msg.mid})
    <3>1. \A m \in S!Pending : sTransactions'[m] # None =>
              sTransactions'[m] = sTransactions[m]
      BY <2>3 DEF S!Removed, S!Pending
    <3>2. \A m \in S!Pending : sTransactions'[m] # None =>
              /\ IsTransaction(sTransactions'[m])
              /\ Continues(sTransactions[m], sTransactions'[m])
      BY <3>1 DEF ListOK, Continues
    <3>3. /\ sTransactions' = [m \in S!Mids |-> sTransactions'[m]]
          /\ \A m \in S!Mids : sTransactions[m] = None => sTransactions'[m] = None
      BY <2>3 DEF S!Removed
    <3>4. QED
      BY <2>1, <3>2, <3>3, StepOnList
  <2>4. QED
    BY <2>1, <2>2, <2>3, StepKeepsList
<1>8. CASE S!Wake
  BY <1>8, StepKeepsList DEF S!Wake
<1>9. CASE S!Tick
  <2>1. /\ sNextMID' = sNextMID /\ sSent' = {}
        /\ sTransactions' = [m \in S!Mids |-> IF sTransactions[m] = None THEN None
                                              ELSE S!Older(sTransactions[m])]
    BY <1>9 DEF S!Tick
  <2>2. ASSUME NEW m \in S!Pending
        PROVE  /\ IsTransaction(sTransactions'[m])
               /\ Continues(sTransactions[m], sTransactions'[m])
    <3> DEFINE t == sTransactions[m]
    <3>1. IsTransaction(t)
      BY DEF ListOK
    <3>2. sTransactions'[m] = S!Older(t)
      BY <2>1 DEF S!Pending
    <3>3. PICK y : S!Older(t) = [t EXCEPT !.timer = y]
      BY Zenon DEF S!Older
    <3> HIDE DEF t
    <3>4. IsTransaction(S!Older(t)) /\ Continues(t, S!Older(t))
      BY <3>1, <3>3, TimerUpdate
    <3>5. QED
      BY <3>2, <3>4 DEF t
  <2>3. /\ sTransactions' = [m \in S!Mids |-> sTransactions'[m]]
        /\ \A m \in S!Mids : sTransactions[m] = None => sTransactions'[m] = None
    BY <2>1
  <2>4. QED
    BY <2>1, <2>2, <2>3, StepOnList
<1>10. QED
  BY <1>1, <1>2, <1>3, <1>5, <1>6, <1>7, <1>8, <1>9, WalkOnList DEF ServerAction

-----------------------------------------------------------------------------
(* The packets, the results, and what a read may return                     *)

LEMMA InitListOK == Init => ListOK /\ RequestsOK
  BY DEF Init, S!Init, ListOK, RequestsOK, S!Pending

\* The list and the requests that are on their way agree: a request that is
\* older than its place in the list has a message ID of its own.
LEMMA NextListOK ==
    ListOK /\ RequestsOK /\ [Next]_vars => ListOK' /\ RequestsOK'
<1> SUFFICES ASSUME ListOK, RequestsOK, [Next]_vars
             PROVE  ListOK' /\ RequestsOK'
  OBVIOUS
<1>1. CASE UNCHANGED vars \/ ClientMoves
  <2>1. sNextMID' = sNextMID /\ sTransactions' = sTransactions /\ toClient' = toClient
    BY <1>1 DEF vars, serverVars, ClientMoves
  <2>2. S!Pending' = S!Pending
    BY <2>1 DEF S!Pending
  <2>3. ListOK'
    BY <2>1, <2>2 DEF ListOK
  <2>4. RequestsOK'
    BY <2>1, <2>2 DEF RequestsOK
  <2>5. QED
    BY <2>3, <2>4
<1>2. CASE ServerAction /\ ServerMoves
  <2>1. ListStep
    BY <1>2, ServerListStep
  <2>2. ListOK'
    BY <2>1 DEF ListStep, ListOK
  <2>3. toClient' = toClient \cup sSent'
    BY <1>2 DEF ServerMoves
  <2>4. ASSUME NEW q \in toClient, IsRequest(q)
        PROVE  /\ q.mid \in S!Mids /\ q.mid < sNextMID'
               /\ q.op \in Ops /\ q.uri \in Uris
               /\ q.mid \in S!Pending' => Asks(q, sTransactions'[q.mid])
    <3>1. /\ q.mid \in S!Mids /\ q.mid < sNextMID /\ q.op \in Ops /\ q.uri \in Uris
          /\ q.mid \in S!Pending => Asks(q, sTransactions[q.mid])
      BY <2>4 DEF RequestsOK
    <3>2. q.mid \in Int /\ sNextMID \in Nat /\ sNextMID' \in Nat /\ sNextMID <= sNextMID'
      BY <2>1, <3>1 DEF S!Mids, ListStep, ListOK
    <3>3. q.mid < sNextMID'
      BY <3>1, <3>2
    <3>4. q.mid # sNextMID
      BY <3>1, <3>2
    <3>5. q.mid \in S!Pending' => Asks(q, sTransactions'[q.mid])
      BY <2>1, <3>1, <3>4 DEF ListStep, Asks, Continues
    <3>6. QED
      BY <3>1, <3>3, <3>5
  <2>5. RequestsOK'
    BY <2>1, <2>3, <2>4 DEF ListStep, RequestsOK
  <2>6. QED
    BY <2>2, <2>5
<1>3. QED
  BY <1>1, <1>2, StepCases

\* Unless it is asked, the client sends requests only.
LEMMA ClientSends ==
    ASSUME ClientAction
    PROVE  \A q \in cSent' : IsRequest(q)
<1>1. \A m, s : IsRequest(C!RegisterRequest(m, s))
  BY DEF C!RegisterRequest, IsRequest
<1>2. ASSUME C!Register PROVE \A q \in cSent' : IsRequest(q)
  <2>1. \A q \in cSent' : \E m, s : q = C!RegisterRequest(m, s)
    BY <1>2, ClientRegisterCases
  <2>2. QED
    BY <1>1, <2>1
<1>3. ASSUME C!Lwm2mStep PROVE \A q \in cSent' : IsRequest(q)
  <2>1. \A q \in cSent' : \E m, s : q = C!RegisterRequest(m, s)
    BY <1>3 DEF C!Lwm2mStep, C!WalkList, C!GoUndefined
  <2>2. QED
    BY <1>1, <2>1
<1>4. ASSUME (\E freed \in BOOLEAN : C!Close(freed)) PROVE \A q \in cSent' : IsRequest(q)
  <2>1. cSent' = {} \/ \E ss : cSent' = C!Farewells(ss)
    BY <1>4 DEF C!Close, C!GoUndefined
  <2>2. \A ss : \A q \in C!Farewells(ss) : \E s, l, m :
           q = [to |-> s, op |-> "deregister", location |-> l, mid |-> m]
    BY Zenon DEF C!Farewells
  <2>3. \A s, l, m :
           IsRequest([to |-> s, op |-> "deregister", location |-> l, mid |-> m])
    BY DEF IsRequest
  <2>4. QED
    BY <2>1, <2>2, <2>3
<1>5. ASSUME \/ C!Wake \/ C!Tick \/ ClientRestarts
             \/ \E u \in Uris, v \in Values : C!UpdateObject(u, v)
             \/ \E p \in toClient : C!ReceiveReply(AnswerOf(p))
      PROVE  cSent' = {}
  BY <1>5 DEF C!Wake, C!Tick, ClientRestarts, C!UpdateObject, C!ReceiveReply, C!GoUndefined
<1>6. QED
  BY <1>2, <1>3, <1>4, <1>5 DEF ClientAction

\* A notification is a 2.04, to a watcher.
LEMMA NotificationsSent ==
    ASSUME NEW u \in Uris, ClientNotifies(u)
    PROVE  /\ \A p \in cSent' : ~IsRequest(p) /\ p.code = "2.04"
           /\ C!Watched = {} => cSent' = {}
           /\ cValue' = cValue /\ shown \subseteq shown'
<1>1. PICK over : C!NotifyAll({w \in C!Watched :
                     /\ C!Concerns(u, w[1]) /\ w[1] \notin over
                     /\ C!ReadCode(w[1]) = "2.05"})
  BY Zenon DEF ClientNotifies, C!ResourceValueChanged
<1> DEFINE ws == {w \in C!Watched : /\ C!Concerns(u, w[1]) /\ w[1] \notin over
                                    /\ C!ReadCode(w[1]) = "2.05"}
<1>2. ws \subseteq C!Watched
  OBVIOUS
<1>3. C!NotifyAll(ws)
  BY <1>1
<1> HIDE DEF ws
<1>4. PICK mid \in C!NotificationMids(ws) :
         cSent' = {C!Notification(w, mid[w]) : w \in ws}
  BY <1>3, ZenonT(60) DEF C!NotifyAll
<1>5. \A w, m : ~IsRequest(C!Notification(w, m)) /\ C!Notification(w, m).code = "2.04"
  BY DEF C!Notification, IsRequest
<1>6. cValue' = cValue /\ shown \subseteq shown'
  BY DEF ClientNotifies, C!ResourceValueChanged
<1>7. QED
  BY <1>2, <1>4, <1>5, <1>6

LEMMA InitAnswersOK == Init => AnswersOK
  BY DEF Init, AnswersOK

LEMMA NextAnswersOK == AnswersOK /\ [Next]_vars => AnswersOK'
<1> SUFFICES ASSUME AnswersOK, [Next]_vars
             PROVE  AnswersOK'
  OBVIOUS
<1>1. CASE UNCHANGED vars \/ ServerMoves
  <2>1. toServer' = toServer /\ shown' = shown /\ toClient \subseteq toClient'
    BY <1>1 DEF vars, history, ServerMoves
  <2>2. QED
    BY <2>1 DEF AnswersOK
<1>2. CASE ClientMoves /\ sPhase # "step"
  <2>1. toServer' = toServer \cup cSent' /\ toClient' = toClient
    BY <1>2 DEF ClientMoves
  <2>2. CASE ClientAction /\ UNCHANGED <<answers, shown>>
    BY <2>1, <2>2, ClientSends DEF AnswersOK
  <2>3. ASSUME NEW u \in Uris, ClientNotifies(u)
        PROVE  AnswersOK'
    BY <2>1, <2>3, NotificationsSent DEF AnswersOK
  <2>4. ASSUME NEW q \in toClient, ClientAnswers(q)
        PROVE  AnswersOK'
    <3>1. IsRequest(q) /\ C!HandleRequest(RequestOf(q)) /\ shown \subseteq shown'
      BY <2>4 DEF ClientAnswers
    <3>2. ASSUME NEW p \in cSent'
          PROVE  /\ p.mid = q.mid
                 /\ p.counter # None =>
                       /\ q.op = "observe" /\ q.token = p.token
                       /\ <<p, q.uri>> \in shown'
      <4>1. /\ p.mid = q.mid
            /\ p.counter # None => q.op = "observe" /\ p.token = q.token
        BY <3>1, AnswersOf
      <4>2. p.counter # None => <<p, q.uri>> \in shown'
        BY <2>4 DEF ClientAnswers
      <4>3. QED
        BY <4>1, <4>2
    <3>3. QED
      BY <2>1, <3>1, <3>2 DEF AnswersOK
  <2>5. QED
    BY <1>1, <1>2, <2>2, <2>3, <2>4, StepCases
<1>3. QED
  BY <1>1, <1>2, StepCases

\* The result of a request the client answered.
IsResult(c, p) ==
    LET t == sTransactions[p.mid]
    IN  /\ ~IsRequest(p) /\ t # None
        /\ c.mid = p.mid /\ c.op = t.op
        /\ t.op # "observe" => c.status = p.code /\ c.data = p.data

\* lwm2m_step tells the application of requests it gives up.
LEMMA GivenUpCalls ==
    ASSUME S!Lwm2mStep
    PROVE  \A c \in sCalls' : c.status = "5.03" /\ c.mid \in S!Mids
<1>1. \A c \in sCalls' : \E m \in S!Pending : c = S!Call(m, sTransactions[m], "5.03", None)
  BY WalkCases
<1>2. QED
  BY <1>1 DEF S!Call, S!Pending

\* What the server's application is told: that a request is given up, a
\* notification, or the client's answer to a pending request.
LEMMA ServerCalls ==
    ASSUME ServerAction
    PROVE  /\ sPhase' # "step" =>
                 \A c \in sCalls' : c.status = "5.03" /\ c.mid \in S!Mids
           /\ \A c \in sCalls' :
                 \/ c.status = "5.03"
                 \/ c.mid = None /\ c.op = "observe"
                 \/ \E p \in toServer : IsResult(c, p)
<1>1. ASSUME NEW t, NEW obs, S!Launch(t, obs)
      PROVE  sCalls' = {}
  BY <1>1, Launched
<1>2. ASSUME NEW op, NEW id, NEW u, S!DmRequest(op, id, u, TRUE) \/ S!Observe(id, u)
      PROVE  sCalls' = {}
  BY <1>1, <1>2, DmRequestCases, ObserveCases
<1>3. ASSUME NEW mid, \/ S!Register(Addr, mid, Name, FALSE)
                      \/ \E location : S!Deregister(Addr, mid, location, FALSE)
      PROVE  sCalls' = {}
  BY <1>3 DEF S!Register, S!Deregister
<1>4. ASSUME \/ S!Wake \/ S!Tick
             \/ \E id \in S!Ids, u \in Uris : S!ObserveCancel(id, u)
      PROVE  sCalls' = {}
  BY <1>4 DEF S!Wake, S!Tick, S!ObserveCancel
<1>5. ASSUME S!Lwm2mStep
      PROVE  \A c \in sCalls' : c.status = "5.03" /\ c.mid \in S!Mids
  BY <1>5, GivenUpCalls
<1>6. ASSUME NEW p \in toServer, ~IsRequest(p), S!ReceiveReply(ReplyOf(p))
      PROVE  /\ sPhase' # "step" => sCalls' = {}
             /\ \A c \in sCalls' : \/ c.mid = None /\ c.op = "observe"
                                   \/ IsResult(c, p)
  <2> DEFINE msg == ReplyOf(p)
             t   == sTransactions[p.mid]
  <2>1. msg.mid = p.mid /\ msg.code = p.code /\ msg.data = p.data
    BY DEF ReplyOf
  <2> HIDE DEF msg
  <2>2. CASE S!Notify(msg)
    BY <2>2 DEF S!Notify
  <2>3. CASE S!AnswerTransaction(msg)
    <3>1. /\ t # None
          /\ \/ sCalls' = {}
             \/ sPhase' = "step" /\ S!DeliverAnswer(p.mid, t, msg)
      BY <2>1, <2>3 DEF S!AnswerTransaction, S!AnswerWith, S!GoUndefined
    <3>2. CASE S!DeliverAnswer(p.mid, t, msg)
      <4>1. \/ t.op # "observe" /\ sCalls' = {S!Call(p.mid, t, p.code, p.data)}
            \/ t.op = "observe" /\ \E s, d : sCalls' = {S!Call(p.mid, t, s, d)}
        BY <2>1, <3>2 DEF S!DeliverAnswer
      <4>2. \A s, d : /\ S!Call(p.mid, t, s, d).mid = p.mid
                      /\ S!Call(p.mid, t, s, d).op = t.op
                      /\ S!Call(p.mid, t, s, d).status = s
                      /\ S!Call(p.mid, t, s, d).data = d
        BY DEF S!Call
      <4>3. \A c \in sCalls' : /\ c.mid = p.mid /\ c.op = t.op
                               /\ t.op # "observe" => c.status = p.code /\ c.data = p.data
        BY <4>1, <4>2
      <4>4. QED
        BY <1>6, <3>1, <4>3 DEF IsResult
    <3>3. QED
      BY <3>1, <3>2
  <2>4. QED
    BY <1>6, <2>2, <2>3 DEF S!ReceiveReply, msg
<1>7. QED
  BY <1>2, <1>3, <1>4, <1>5, <1>6 DEF ServerAction

LEMMA InitCallsOK == Init => CallsOK
  BY DEF Init, S!Init, CallsOK

LEMMA NextCallsOK == CallsOK /\ [Next]_vars => CallsOK'
<1> SUFFICES ASSUME CallsOK, [Next]_vars
             PROVE  CallsOK'
  OBVIOUS
<1>1. CASE UNCHANGED vars \/ ClientMoves
  BY <1>1 DEF vars, serverVars, ClientMoves, CallsOK
<1>2. CASE ServerAction
  BY <1>2, ServerCalls DEF CallsOK
<1>3. QED
  BY <1>1, <1>2, StepCases

LEMMA InitHeldOK == Init => HeldOK
  BY DEF Init, S!Init, HeldOK, S!Pending

\* While a read is pending, every value its resource takes is recorded, and
\* every answer to it has one of them.
LEMMA NextHeldOK ==
    ListOK /\ RequestsOK /\ AnswersOK /\ HeldOK /\ [Next]_vars => HeldOK'
<1> SUFFICES ASSUME ListOK, RequestsOK, AnswersOK, HeldOK, [Next]_vars
             PROVE  HeldOK'
  OBVIOUS
<1>1. CASE UNCHANGED vars
  BY <1>1 DEF vars, serverVars, clientVars, history, HeldOK, S!Pending
<1>2. CASE ServerAction /\ ServerMoves
  <2>1. ListStep
    BY <1>2, ServerListStep
  <2>2. /\ held' = [m \in S!Mids |-> Holds(m)]
        /\ cValue' = cValue /\ toServer' = toServer
    BY <1>2 DEF ServerMoves, clientVars
  <2>3. ASSUME NEW m \in S!Pending', m \in S!Pending
        PROVE  /\ held'[m] = held[m]
               /\ sTransactions'[m].op = sTransactions[m].op
               /\ sTransactions'[m].uri = sTransactions[m].uri
    <3>1. m \in S!Mids /\ Holds(m) = held[m]
      BY <2>3 DEF Holds, S!Pending
    <3>2. m # sNextMID
      BY <2>3 DEF ListOK, S!Pending, S!Mids
    <3>3. QED
      BY <2>1, <2>2, <3>1, <3>2 DEF ListStep, Continues
  <2>4. ASSUME NEW m \in S!Pending', m \notin S!Pending, sTransactions'[m].op = "read"
        PROVE  /\ held'[m] = {cValue'[sTransactions'[m].uri]}
               /\ m = sNextMID
    <3>1. m \in S!Mids
      BY DEF S!Pending
    <3>2. held'[m] = {cValue[sTransactions'[m].uri]}
      BY <2>2, <2>4, <3>1 DEF Holds
    <3>3. QED
      BY <2>1, <2>2, <2>4, <3>2 DEF ListStep
  <2>5. \A m \in S!Pending' : sTransactions'[m].op = "read" =>
           cValue'[sTransactions'[m].uri] \in held'[m]
    BY <2>2, <2>3, <2>4 DEF HeldOK
  <2>6. ASSUME NEW p \in toServer, ~IsRequest(p), p.code = "2.05", p.mid \in S!Pending',
               sTransactions'[p.mid].op = "read"
        PROVE  p.data \in held'[p.mid]
    <3>1. p.mid \in S!Mids /\ p.mid < sNextMID
      BY <2>6 DEF AnswersOK, RequestsOK
    <3>2. p.mid # sNextMID
      BY <3>1 DEF ListOK, S!Mids
    <3>3. p.mid \in S!Pending
      BY <2>4, <2>6, <3>2
    <3>4. QED
      BY <2>3, <2>6, <3>3 DEF HeldOK
  <2>7. QED
    BY <2>2, <2>5, <2>6 DEF HeldOK
<1>3. CASE /\ ClientMoves
           /\ \/ ClientAction
              \/ (\E u \in Uris : ClientNotifies(u))
              \/ (\E q \in toClient : ClientAnswers(q))
  <2>1. /\ toServer' = toServer \cup cSent' /\ sTransactions' = sTransactions
        /\ held' = [m \in S!Mids |->
                      IF held[m] = {} THEN {}
                      ELSE held[m] \cup {cValue'[sTransactions[m].uri]}]
    BY <1>3 DEF ClientMoves, serverVars
  <2>2. S!Pending' = S!Pending /\ S!Pending \subseteq S!Mids
    BY <2>1 DEF S!Pending
  <2>3. ASSUME NEW m \in S!Pending
        PROVE  /\ held[m] \subseteq held'[m]
               /\ sTransactions[m].op = "read" => cValue'[sTransactions[m].uri] \in held'[m]
    BY <2>1, <2>2 DEF HeldOK
  <2>4. ASSUME NEW p \in cSent', ~IsRequest(p), p.code = "2.05", p.mid \in S!Pending,
               sTransactions[p.mid].op = "read"
        PROVE  p.data \in held'[p.mid]
    <3>1. PICK q \in toClient : ClientAnswers(q)
      BY <1>3, <2>4, ClientSends, NotificationsSent
    <3>2. IsRequest(q) /\ C!HandleRequest(RequestOf(q))
      BY <3>1 DEF ClientAnswers
    <3>3. /\ p.mid = q.mid /\ cValue' = cValue
          /\ \/ q.op = "read" /\ p.data = cValue[q.uri]
             \/ q.op = "observe"
      BY <2>4, <3>2, AnswersOf
    <3>4. q.op = "read" /\ q.uri = sTransactions[p.mid].uri
      BY <2>4, <3>2, <3>3 DEF RequestsOK, Asks
    <3>5. QED
      BY <2>3, <2>4, <3>3, <3>4
  <2>5. QED
    BY <2>1, <2>2, <2>3, <2>4 DEF HeldOK
<1>4. QED
  BY <1>1, <1>2, <1>3, StepCases

\* What a client's step leaves of the last results.
LEMMA CallsOfStep ==
    ASSUME CallsOK, [Next]_vars
    PROVE  \/ UNCHANGED vars
           \/ \A c \in sCalls' :
                 \/ c.status = "5.03"
                 \/ c.mid = None /\ c.op = "observe"
                 \/ \E p \in toServer : IsResult(c, p)
<1>1. CASE ClientMoves /\ sPhase # "step"
  BY <1>1 DEF ClientMoves, serverVars, CallsOK
<1>2. QED
  BY <1>1, StepCases, ServerCalls

CurrentStep ==
    \A c \in sCalls' : c.op = "read" /\ c.status = "2.05" => c.data \in held[c.mid]

LEMMA ReadsCurrentStep ==
    ASSUME RequestsOK, AnswersOK, HeldOK, CallsOK, [Next]_vars
    PROVE  [CurrentStep]_vars
<1>1. ASSUME NEW c \in sCalls', c.op = "read", c.status = "2.05",
             NEW p \in toServer, IsResult(c, p)
      PROVE  c.data \in held[c.mid]
  <2>1. /\ ~IsRequest(p) /\ p.code = "2.05" /\ c.mid = p.mid /\ c.data = p.data
        /\ sTransactions[p.mid] # None /\ sTransactions[p.mid].op = "read"
    BY <1>1 DEF IsResult
  <2>2. p.mid \in S!Pending
    BY <2>1 DEF AnswersOK, RequestsOK, S!Pending
  <2>3. QED
    BY <2>1, <2>2 DEF HeldOK
<1>2. QED
  BY <1>1, CallsOfStep DEF CurrentStep

\* A read returns a value its resource held since the read was issued: no
\* repeated or late packet, no restart of the client and no other request
\* makes it return an older one.
THEOREM ReadsAreCurrent == Spec => ReadIsCurrent
<1>1. RequestsOK /\ AnswersOK /\ HeldOK /\ CallsOK /\ [Next]_vars => [CurrentStep]_vars
  BY ReadsCurrentStep
<1>2. QED
  BY <1>1, InitListOK, NextListOK, InitAnswersOK, NextAnswersOK, InitHeldOK,
     NextHeldOK, InitCallsOK, NextCallsOK, PTL DEF Spec, ReadIsCurrent, CurrentStep

-----------------------------------------------------------------------------
(* The result of a request is the client's answer                           *)

\* Nobody watches what nobody asked to observe.
LEMMA NoWatcher ==
    ASSUME "observe" \notin Ops, RequestsOK, WatchersAsked
    PROVE  C!Watched = {}
<1> SUFFICES ASSUME NEW w \in C!Watched
             PROVE  FALSE
  OBVIOUS
<1>1. /\ w[1] \in Uris /\ w[2] = Server /\ cObserved[w[1]] # None
      /\ cObserved[w[1]][Server] # None
  BY DEF C!Watched, C!Servers, Server
<1>2. \E q \in toClient : IsRequest(q) /\ q.op = "observe"
  BY <1>1 DEF WatchersAsked, AskedFor
<1>3. QED
  BY <1>2 DEF RequestsOK

LEMMA InitOnlyAnswers == Init => OnlyAnswers
  BY DEF Init, OnlyAnswers

LEMMA NextOnlyAnswers ==
    ASSUME "observe" \notin Ops, RequestsOK, WatchersAsked, OnlyAnswers, [Next]_vars
    PROVE  OnlyAnswers'
<1>1. CASE UNCHANGED vars \/ ServerMoves
  <2>1. toServer' = toServer /\ answers' = answers
    BY <1>1 DEF vars, history, ServerMoves
  <2>2. QED
    BY <2>1 DEF OnlyAnswers
<1>2. CASE ClientMoves /\ ClientAction /\ UNCHANGED <<answers, shown>>
  BY <1>2, ClientSends DEF OnlyAnswers, ClientMoves
<1>3. ASSUME ClientMoves, NEW u \in Uris, ClientNotifies(u)
      PROVE  OnlyAnswers'
  <2>1. cSent' = {} /\ answers' = answers
    BY <1>3, NoWatcher, NotificationsSent DEF ClientNotifies
  <2>2. QED
    BY <1>3, <2>1 DEF OnlyAnswers, ClientMoves
<1>4. ASSUME ClientMoves, NEW q \in toClient, ClientAnswers(q)
      PROVE  OnlyAnswers'
  <2>1. /\ IsRequest(q) /\ C!HandleRequest(RequestOf(q))
        /\ answers' = answers \cup cSent' /\ toServer' = toServer \cup cSent'
    BY <1>4 DEF ClientAnswers, ClientMoves
  <2>2. \A a \in cSent' : a.mid \in S!Mids
    BY <2>1, AnswersOf DEF RequestsOK
  <2>3. QED
    BY <2>1, <2>2 DEF OnlyAnswers
<1>5. QED
  BY <1>1, <1>2, <1>3, <1>4, StepCases

AnswerStep ==
    \A c \in sCalls' : c.mid # None /\ c.status # "5.03" =>
        \E a \in answers : a.mid = c.mid /\ a.code = c.status
                           /\ (c.op = "read" => a.data = c.data)

LEMMA ResultsAnsweredStep ==
    ASSUME "observe" \notin Ops, ListOK, OnlyAnswers, CallsOK, [Next]_vars
    PROVE  [AnswerStep]_vars
<1>1. ASSUME NEW c \in sCalls', NEW p \in toServer, IsResult(c, p)
      PROVE  /\ p \in answers /\ p.mid = c.mid /\ p.code = c.status
             /\ p.data = c.data
  <2>1. ~IsRequest(p) /\ c.mid = p.mid /\ sTransactions[p.mid] # None
    BY <1>1 DEF IsResult
  <2>2. p \in answers /\ p.mid \in S!Pending
    BY <2>1 DEF OnlyAnswers, S!Pending
  <2>3. sTransactions[p.mid].op # "observe"
    BY <2>2 DEF ListOK, IsTransaction
  <2>4. QED
    BY <1>1, <2>1, <2>2, <2>3 DEF IsResult
<1>2. QED
  BY <1>1, CallsOfStep DEF AnswerStep

\* A server that does not observe tells its application, of a request, that
\* it was given up or what the client answered to it; with observations it may
\* take a notification for the answer, since the two contexts count their
\* message IDs independently (packet.c:199 looks for the message ID alone).
THEOREM ResultsAreAnswers ==
    ASSUME "observe" \notin Ops
    PROVE  Spec => ResultIsAnswer
<1>1. /\ ListOK /\ RequestsOK /\ WatchersAsked /\ ShownWithItsToken
      /\ OnlyAnswers /\ CallsOK /\ [Next]_vars
      => OnlyAnswers' /\ [AnswerStep]_vars
  BY NextOnlyAnswers, ResultsAnsweredStep
<1>2. QED
  BY <1>1, InitListOK, NextListOK, InitWatchersAsked, NextWatchersAsked,
     InitOnlyAnswers, InitCallsOK, NextCallsOK, PTL
     DEF Spec, ResultIsAnswer, AnswerStep

-----------------------------------------------------------------------------
(* What a registered observation means                                      *)

LEMMA InitCarriersOK == Init => CarriersOK
  BY DEF Init, S!Init, CarriersOK, S!Pending

\* The pending requests carry nothing they did not carry before.
LEMMA CarriedBefore ==
    ASSUME ListStep, NEW m \in S!Pending', m # sNextMID, NEW id, NEW o,
           S!Carries(sTransactions'[m], id, o)
    PROVE  /\ m \in S!Pending /\ S!Carries(sTransactions[m], id, o)
           /\ sTransactions'[m].uri = sTransactions[m].uri
  BY DEF ListStep, Continues, S!Carries

\* A step that starts no request, and keeps every observation that a request
\* still carries after it.
LEMMA CarriersKept ==
    ASSUME ListStep, CarriersOK, ListOK, sNextMID' = sNextMID,
           sObservations' \in [S!Ids -> [S!ObsIds -> S!Observations \cup {None}]],
           \A m \in S!Pending', id \in S!Ids, o \in S!ObsIds :
              S!Carries(sTransactions'[m], id, o) =>
                 sObservations'[id][o] = sObservations[id][o]
    PROVE  CarriersOK'
<1>1. \A m \in S!Pending' : m # sNextMID
  BY DEF ListStep
<1>2. ASSUME NEW m \in S!Pending', NEW id \in S!Ids, NEW o \in S!ObsIds,
             S!Carries(sTransactions'[m], id, o)
      PROVE  /\ sObservations'[id][o] # None
             /\ sObservations'[id][o].uri = sTransactions'[m].uri
             /\ \A n \in S!Pending' : S!Carries(sTransactions'[n], id, o) => n = m
  <2>1. /\ m \in S!Pending /\ S!Carries(sTransactions[m], id, o)
        /\ sTransactions'[m].uri = sTransactions[m].uri
    BY <1>1, <1>2, CarriedBefore
  <2>2. \A n \in S!Pending' : S!Carries(sTransactions'[n], id, o) => n = m
    BY <1>1, <2>1, CarriedBefore DEF CarriersOK
  <2>3. sObservations'[id][o] = sObservations[id][o]
    BY <1>2
  <2>4. QED
    BY <2>1, <2>2, <2>3 DEF CarriersOK
<1>3. QED
  BY <1>2 DEF CarriersOK

\* The step of an application's request; only lwm2m_observe changes the table.
LEMMA CarriersLaunched ==
    ASSUME ListOK, CarriersOK, NEW op \in Ops, NEW id \in S!Ids, NEW u \in Uris,
           NEW o, NEW obs, sNextMID < MaxMid,
           S!Launch(S!NewTransaction(op, id, o, u, TRUE), obs),
           \/ op # "observe" /\ obs = sObservations
           \/ /\ op = "observe" /\ o \in S!ObsIds /\ sObservations[id][o] = None
              /\ obs = [sObservations EXCEPT ![id][o] =
                           [uri |-> u, status |-> "PENDING"]]
    PROVE  CarriersOK'
<1> DEFINE t == S!NewTransaction(op, id, o, u, TRUE)
<1>1. ListStep
  BY LaunchOnList
<1>2. sObservations' = obs
  BY Launched
<1>3. /\ sNextMID' = sNextMID + 1 /\ sNextMID \in Nat
      /\ sTransactions' = [sTransactions EXCEPT ![sNextMID] = S!SentAgain(t, TRUE)]
  BY Launched DEF ListOK
<1>4. sNextMID \in S!Mids
  BY <1>3, SystemAssumption DEF S!Mids, MaxMid
<1>5. /\ IsTransaction(t) /\ t.op = op /\ t.uri = u /\ t.peer = id /\ t.obs = o
  BY DEF S!NewTransaction, IsTransaction
<1>6. Continues(t, sTransactions'[sNextMID])
  <2> HIDE DEF t
  <2>1. PICK y : S!SentAgain(t, TRUE) = [t EXCEPT !.timer = y]
    BY Zenon DEF S!SentAgain
  <2>2. Continues(t, S!SentAgain(t, TRUE))
    BY <1>5, <2>1, TimerUpdate
  <2>3. QED
    BY <1>3, <1>4, <2>2 DEF ListOK
<1> HIDE DEF t
\* What the transactions carry, and where.
<1>7. ASSUME NEW m \in S!Pending', NEW i \in S!Ids, NEW j \in S!ObsIds,
             S!Carries(sTransactions'[m], i, j)
      PROVE  \/ /\ m \in S!Pending /\ S!Carries(sTransactions[m], i, j)
                /\ sTransactions'[m].uri = sTransactions[m].uri
             \/ /\ m = sNextMID /\ op = "observe" /\ i = id /\ j = o
                /\ sTransactions'[m].uri = u
  <2>1. CASE m # sNextMID
    BY <1>1, <1>7, <2>1, CarriedBefore
  <2>2. CASE m = sNextMID
    BY <1>5, <1>6, <1>7, <2>2 DEF Continues, S!Carries
  <2>3. QED
    BY <2>1, <2>2
<1>8. CASE op # "observe" /\ obs = sObservations
  <2>1. sObservations' = sObservations
    BY <1>2, <1>8
  <2>2. QED
    BY <1>7, <1>8, <2>1 DEF CarriersOK
<1>9. CASE /\ op = "observe" /\ o \in S!ObsIds /\ sObservations[id][o] = None
           /\ obs = [sObservations EXCEPT ![id][o] = [uri |-> u, status |-> "PENDING"]]
  <2> DEFINE x == [uri |-> u, status |-> "PENDING"]
  <2>1. x \in S!Observations /\ x # None /\ x.uri = u
    BY NoneAssumption DEF S!Observations
  <2>2. sObservations' = [sObservations EXCEPT ![id][o] = x]
    BY <1>2, <1>9
  <2> HIDE DEF x
  <2>3. /\ sObservations' \in [S!Ids -> [S!ObsIds -> S!Observations \cup {None}]]
        /\ \A i \in S!Ids, j \in S!ObsIds :
              sObservations'[i][j] = IF i = id /\ j = o THEN x ELSE sObservations[i][j]
    BY <1>9, <2>1, <2>2 DEF CarriersOK
  <2>4. \A m \in S!Pending : ~S!Carries(sTransactions[m], id, o)
    BY <1>9 DEF CarriersOK
  <2>5. ASSUME NEW m \in S!Pending', NEW i \in S!Ids, NEW j \in S!ObsIds,
               S!Carries(sTransactions'[m], i, j)
        PROVE  /\ sObservations'[i][j] # None
               /\ sObservations'[i][j].uri = sTransactions'[m].uri
               /\ \A n \in S!Pending' : S!Carries(sTransactions'[n], i, j) => n = m
    <3>1. CASE i = id /\ j = o
      BY <1>7, <2>1, <2>3, <2>4, <2>5, <3>1
    <3>2. CASE ~(i = id /\ j = o)
      BY <1>7, <2>3, <2>5, <3>2 DEF CarriersOK
    <3>3. QED
      BY <3>1, <3>2
  <2>6. QED
    BY <2>3, <2>5 DEF CarriersOK
<1>10. QED
  BY <1>8, <1>9

LEMMA InitMidsOK == Init => MidsOK
  BY DEF Init, C!Init, MidsOK

LEMMA NotificationMids ==
    ASSUME NEW u \in Uris, ClientNotifies(u), cNextMID \in Nat
    PROVE  /\ cNextMID' \in Nat
           /\ \A p \in cSent' : p.mid \in S!Mids
<1>1. PICK over : C!NotifyAll({w \in C!Watched :
                     /\ C!Concerns(u, w[1]) /\ w[1] \notin over
                     /\ C!ReadCode(w[1]) = "2.05"})
  BY Zenon DEF ClientNotifies, C!ResourceValueChanged
<1> DEFINE ws == {w \in C!Watched : /\ C!Concerns(u, w[1]) /\ w[1] \notin over
                                    /\ C!ReadCode(w[1]) = "2.05"}
           n  == Cardinality(ws)
<1>2. n \in Nat
  <2>1. IsFiniteSet({Server}) /\ IsFiniteSet(Uris)
    BY FS_Singleton, SystemAssumption
  <2>2. IsFiniteSet(Uris \X {Server})
    BY <2>1, FS_Product
  <2>3. ws \in SUBSET (Uris \X {Server})
    BY DEF C!Watched, C!Servers, Server
  <2> HIDE DEF ws
  <2>4. IsFiniteSet(ws)
    BY <2>2, <2>3, FS_Subset
  <2>5. QED
    BY <2>4, FS_CardinalityType
<1>3. C!NotifyAll(ws)
  BY <1>1
<1> HIDE DEF ws
<1>4. PICK mid \in C!NotificationMids(ws) :
         cSent' = {C!Notification(w, mid[w]) : w \in ws}
  BY <1>3, ZenonT(60) DEF C!NotifyAll
\* The client's copy of an operator is the operator.
<1>5. C!Cardinality(ws) = n
  BY Zenon DEF C!Cardinality, Cardinality
<1>6. /\ mid \in [ws -> cNextMID..(cNextMID + C!Cardinality(ws) - 1)]
      /\ cNextMID' = cNextMID + C!Cardinality(ws)
  BY <1>3, <1>4, Zenon DEF C!NotificationMids, C!NotifyAll
<1> HIDE DEF n
<1>7. /\ \A w \in ws : mid[w] \in cNextMID..(cNextMID + n - 1)
      /\ cNextMID' = cNextMID + n
  BY <1>5, <1>6
<1>8. cNextMID + n <= ClientMids
  BY <1>7 DEF ClientNotifies
<1>9. ClientMids \in Nat /\ ServerMids \in Nat
  BY SystemAssumption
<1>10. ASSUME NEW w \in ws PROVE mid[w] \in S!Mids
  <2> DEFINE x == mid[w]
  <2>1. x \in cNextMID..(cNextMID + n - 1)
    BY <1>7
  <2> HIDE DEF x
  <2>2. x \in S!Mids
    BY <1>2, <1>8, <1>9, <2>1 DEF S!Mids, MaxMid
  <2>3. QED
    BY <2>2 DEF x
<1>11. \A w, m : C!Notification(w, m).mid = m
  BY DEF C!Notification
<1>12. QED
  BY <1>2, <1>4, <1>7, <1>10, <1>11

LEMMA ActionMids ==
    ASSUME ClientAction, cNextMID \in Nat
    PROVE  cNextMID' \in Nat
<1>1. ASSUME C!Register
      PROVE  cNextMID' \in Nat
  <2>1. cNextMID' = cNextMID \/ \E k \in 1..2 : cNextMID' = cNextMID + k
    BY <1>1, ClientRegisterCases
  <2>2. QED
    BY <2>1
<1>2. ASSUME \/ C!Lwm2mStep \/ C!Wake \/ C!Tick \/ (\E freed \in BOOLEAN : C!Close(freed))
             \/ \E u \in Uris, v \in Values : C!UpdateObject(u, v)
             \/ \E p \in toClient : C!ReceiveReply(AnswerOf(p))
      PROVE  cNextMID' = cNextMID
  BY <1>2 DEF C!Wake, C!Tick, C!UpdateObject, C!ReceiveReply, C!GoUndefined,
              C!Close, C!Lwm2mStep
<1>3. ASSUME ClientRestarts
      PROVE  cNextMID' = 0
  BY <1>3 DEF ClientRestarts
<1>4. CASE C!Register
  BY <1>1, <1>4
<1>5. CASE ClientRestarts
  BY <1>3, <1>5
<1>6. CASE \E p \in toClient : C!ReceiveReply(AnswerOf(p))
  BY <1>2, <1>6
<1>7. CASE \/ C!Lwm2mStep \/ C!Wake \/ C!Tick \/ (\E freed \in BOOLEAN : C!Close(freed))
           \/ \E u \in Uris, v \in Values : C!UpdateObject(u, v)
  BY <1>2, <1>7
<1>8. QED
  BY <1>4, <1>5, <1>6, <1>7 DEF ClientAction

LEMMA NextMidsOK ==
    ASSUME MidsOK, RequestsOK, [Next]_vars
    PROVE  MidsOK'
<1>1. CASE UNCHANGED vars \/ ServerMoves
  BY <1>1 DEF vars, clientVars, ServerMoves, MidsOK
<1>2. CASE ClientMoves /\ ClientAction
  BY <1>2, ActionMids, ClientSends DEF ClientMoves, MidsOK
<1>3. ASSUME ClientMoves, NEW u \in Uris, ClientNotifies(u)
      PROVE  MidsOK'
  BY <1>3, NotificationMids DEF ClientMoves, MidsOK
<1>4. ASSUME ClientMoves, NEW q \in toClient, ClientAnswers(q)
      PROVE  MidsOK'
  <2>1. IsRequest(q) /\ C!HandleRequest(RequestOf(q))
    BY <1>4 DEF ClientAnswers
  <2>2. \A a \in cSent' : a.mid \in S!Mids
    BY <2>1, AnswersOf DEF RequestsOK
  <2>3. cNextMID' = cNextMID
    BY <2>1 DEF C!HandleRequest
  <2>4. QED
    BY <1>4, <2>2, <2>3 DEF ClientMoves, MidsOK
<1>5. QED
  BY <1>1, <1>2, <1>3, <1>4, StepCases

\* The answer that settles an observation: a 2.05 with an Observe option.
Settles(p, id, o) ==
    /\ ~IsRequest(p) /\ p.code = "2.05" /\ p.counter # None
    /\ p.mid \in S!Pending /\ S!Carries(sTransactions[p.mid], id, o)

\* What a step of the server does to its observations.
ObservationStep ==
    \A id \in S!Ids, o \in S!ObsIds :
        LET before == sObservations[id][o]
            after  == sObservations'[id][o]
        IN  after # None =>
               /\ \/ before # None /\ after.uri = before.uri
                  \/ \E q \in sSent' : Makes(q, id, o, after.uri)
               /\ after.status = "REGISTERED" =>
                     \/ after = before
                     \/ /\ after.uri = before.uri
                        /\ \E p \in toServer : Settles(p, id, o)

Table == [S!Ids -> [S!ObsIds -> S!Observations \cup {None}]]

\* Observations are dropped, with every carrier that is left.
LEMMA ObservationsDropped ==
    ASSUME ListStep, ListOK, CarriersOK, sNextMID' = sNextMID,
           NEW kept,
           sObservations' = [id \in S!Ids |-> [o \in S!ObsIds |->
                                IF <<id, o>> \in kept THEN sObservations[id][o]
                                ELSE None]],
           \A m \in S!Pending', id \in S!Ids, o \in S!ObsIds :
              S!Carries(sTransactions'[m], id, o) => <<id, o>> \in kept
    PROVE  CarriersOK' /\ ObservationStep
<1>1. sObservations' \in Table
  BY DEF CarriersOK, Table
<1>2. \A id \in S!Ids, o \in S!ObsIds :
         sObservations'[id][o] \in {None, sObservations[id][o]}
  OBVIOUS
<1>3. CarriersOK'
  BY <1>1, CarriersKept DEF Table
<1>4. QED
  BY <1>2, <1>3 DEF ObservationStep

LEMMA ObservationsSame ==
    ASSUME ListStep, ListOK, CarriersOK, sNextMID' = sNextMID,
           sObservations' = sObservations
    PROVE  CarriersOK' /\ ObservationStep
<1>1. CarriersOK'
  BY CarriersKept DEF CarriersOK
<1>2. QED
  BY <1>1 DEF ObservationStep

\* The observations without those of the transactions ms, which left the list.
LEMMA ObservationsRemoved ==
    ASSUME ListStep, ListOK, CarriersOK, sNextMID' = sNextMID,
           NEW ms, ms \subseteq S!Pending, \A m \in ms : m \notin S!Pending',
           sObservations' = S!WithoutObservations({sTransactions[m] : m \in ms})
    PROVE  CarriersOK' /\ ObservationStep
<1> DEFINE kept == {x \in S!Ids \X S!ObsIds :
                      \A m \in ms : ~S!Carries(sTransactions[m], x[1], x[2])}
<1>1. sObservations' = [id \in S!Ids |-> [o \in S!ObsIds |->
                          IF <<id, o>> \in kept THEN sObservations[id][o] ELSE None]]
  BY DEF S!WithoutObservations
<1>2. ASSUME NEW n \in S!Pending', NEW id \in S!Ids, NEW o \in S!ObsIds,
             S!Carries(sTransactions'[n], id, o)
      PROVE  <<id, o>> \in kept
  <2>1. n \in S!Pending /\ S!Carries(sTransactions[n], id, o)
    BY <1>2, CarriedBefore DEF ListStep
  <2>2. \A m \in ms : ~S!Carries(sTransactions[m], id, o)
    BY <2>1 DEF CarriersOK
  <2>3. QED
    BY <2>2
<1> HIDE DEF kept
<1>3. QED
  BY <1>1, <1>2, ObservationsDropped

\* An answer settles the observation it is for, or removes it.
LEMMA ReplyObservations ==
    ASSUME ListOK, RequestsOK, MidsOK, CarriersOK, ListStep,
           NEW p \in toServer, ~IsRequest(p), S!ReceiveReply(ReplyOf(p))
    PROVE  CarriersOK' /\ ObservationStep
<1> DEFINE msg == ReplyOf(p)
           t   == sTransactions[p.mid]
<1>1. /\ msg.mid = p.mid /\ msg.code = p.code
      /\ msg.observe <=> p.counter # None
  BY DEF ReplyOf
<1>2. sNextMID' = sNextMID
  BY ReplySends
<1> HIDE DEF msg
<1>3. CASE sObservations' = sObservations
  BY <1>2, <1>3, ObservationsSame
<1>4. CASE /\ t # None /\ ~S!Derails(t, msg) /\ S!FromPeer(t, msg)
           /\ S!DeliverAnswer(p.mid, t, msg) /\ sTransactions' = S!Removed({p.mid})
  <2>1. p.mid \in S!Pending /\ p.mid \notin S!Pending'
    BY <1>4 DEF MidsOK, S!Pending, S!Removed
  <2>2. IsTransaction(t)
    BY <2>1 DEF ListOK
  <2>3. CASE sObservations' = S!WithoutObservations({t})
    <3>1. {sTransactions[m] : m \in {p.mid}} = {t}
      OBVIOUS
    <3>2. QED
      BY <1>2, <2>1, <2>3, <3>1, ObservationsRemoved
  <2>4. CASE /\ t.op = "observe" /\ S!ObserveStatus(msg) = "2.05"
             /\ sObservations' = [sObservations EXCEPT ![t.peer][t.obs].status = "REGISTERED"]
    <3> DEFINE id == t.peer
               o  == t.obs
               x  == sObservations[id][o]
               y  == [x EXCEPT !.status = "REGISTERED"]
    <3>1. id \in S!Ids /\ o \in S!ObsIds
      BY <2>2, <2>4 DEF IsTransaction
    <3>2. S!Carries(t, id, o)
      BY <1>4, <2>4 DEF S!Derails, S!StaleCallback, S!Carries
    <3>3. x # None /\ x \in S!Observations
      BY <2>1, <3>1, <3>2 DEF CarriersOK
    <3>4. y \in S!Observations /\ y.uri = x.uri
      BY <3>3 DEF S!Observations
    <3>5. Settles(p, id, o)
      BY <1>1, <2>1, <2>4, <3>2 DEF Settles, S!ObserveStatus
    <3>6. sObservations' = [sObservations EXCEPT ![id][o] = y]
      BY <2>4
    <3> HIDE DEF y, id, o
    <3>7. /\ sObservations' \in Table
          /\ \A i \in S!Ids, j \in S!ObsIds :
                sObservations'[i][j] = IF i = id /\ j = o THEN y ELSE sObservations[i][j]
      BY <3>1, <3>4, <3>6 DEF CarriersOK, Table
    <3>8. ASSUME NEW m \in S!Pending', NEW i \in S!Ids, NEW j \in S!ObsIds,
                 S!Carries(sTransactions'[m], i, j)
          PROVE  ~(i = id /\ j = o)
      <4>1. m \in S!Pending /\ S!Carries(sTransactions[m], i, j)
        BY <1>2, <3>8, CarriedBefore DEF ListStep
      <4>2. m # p.mid
        BY <2>1
      <4>3. QED
        BY <2>1, <3>2, <4>1, <4>2 DEF CarriersOK
    <3>9. CarriersOK'
      BY <1>2, <3>7, <3>8, CarriersKept DEF Table
    <3>10. ObservationStep
      BY <3>1, <3>3, <3>4, <3>5, <3>7 DEF ObservationStep
    <3>11. QED
      BY <3>9, <3>10
  <2>5. QED
    BY <1>2, <1>4, <2>3, <2>4, ObservationsSame DEF S!DeliverAnswer
<1>5. S!Notify(msg) => sObservations' = sObservations
  BY DEF S!Notify
<1>6. S!AnswerTransaction(msg) =>
         \/ sObservations' = sObservations
         \/ /\ t # None /\ ~S!Derails(t, msg) /\ S!FromPeer(t, msg)
            /\ S!DeliverAnswer(p.mid, t, msg) /\ sTransactions' = S!Removed({p.mid})
  BY <1>1 DEF S!AnswerTransaction, S!AnswerWith, S!GoUndefined
<1>7. S!Notify(msg) \/ S!AnswerTransaction(msg)
  BY DEF S!ReceiveReply, msg
<1>8. QED
  BY <1>3, <1>4, <1>5, <1>6, <1>7

\* lwm2m_observe makes an observation nobody else carries.
LEMMA RequestObservations ==
    ASSUME ListOK, CarriersOK, NEW op \in Ops, NEW id \in S!Ids, NEW u \in Uris,
           \/ S!DmRequest(op, id, u, TRUE)
           \/ op = "observe" /\ S!Observe(id, u)
    PROVE  CarriersOK' /\ ObservationStep
<1>1. CASE S!DmRequest(op, id, u, TRUE)
  <2>1. op # "observe" /\ sNextMID < MaxMid
    BY <1>1 DEF S!DmRequest, S!DmOperations
  <2>2. S!Launch(S!NewTransaction(op, id, None, u, TRUE), sObservations)
    BY <1>1, DmRequestCases
  <2>3. CarriersOK'
    BY <2>1, <2>2, CarriersLaunched
  <2>4. sObservations' = sObservations
    BY <2>2, Launched
  <2>5. QED
    BY <2>3, <2>4 DEF ObservationStep
<1>2. CASE op = "observe" /\ S!Observe(id, u)
  <2> DEFINE x == [uri |-> u, status |-> "PENDING"]
  <2>1. sNextMID < MaxMid
    BY <1>2 DEF S!Observe
  <2>2. PICK o \in S!ObsIds :
           /\ S!IsNewId(o, sObservations[id])
           /\ S!Launch(S!NewTransaction("observe", id, o, u, TRUE),
                       [sObservations EXCEPT ![id][o] = x])
    BY <1>2, ObserveCases
  <2>3. sObservations[id][o] = None
    BY <2>2 DEF S!IsNewId
  <2>4. CarriersOK'
    BY <1>2, <2>1, <2>2, <2>3, CarriersLaunched
  <2>5. sObservations' = [sObservations EXCEPT ![id][o] = x]
    BY <2>2, Launched
  <2>6. \E q \in sSent' : Makes(q, id, o, u)
    <3> DEFINE t == S!NewTransaction("observe", id, o, u, TRUE)
    <3>1. sSent' = {S!Request(sNextMID, t)}
      BY <2>2, Launched
    <3>2. t.op = "observe" /\ t.uri = u /\ t.peer = id /\ t.obs = o
      BY DEF S!NewTransaction
    <3> HIDE DEF t
    <3>3. QED
      BY <3>1, <3>2, RequestFields DEF Makes, Asks
  <2>7. x.status # "REGISTERED" /\ x.uri = u
    OBVIOUS
  <2> HIDE DEF x
  <2>8. \A i \in S!Ids, j \in S!ObsIds :
           \/ i = id /\ j = o /\ sObservations'[i][j] = x
           \/ sObservations'[i][j] = sObservations[i][j]
    BY <2>5 DEF CarriersOK
  <2>9. QED
    BY <2>4, <2>6, <2>7, <2>8 DEF ObservationStep
<1>3. QED
  BY <1>1, <1>2

\* DELETE drops the observations of the client, and its requests let go of them.
LEMMA DeregisterObservations ==
    ASSUME ListOK, CarriersOK, ListStep, NEW mid, NEW location,
           S!Deregister(Addr, mid, location, FALSE)
    PROVE  CarriersOK' /\ ObservationStep
<1> DEFINE id     == IF location = None THEN 0 ELSE location
           orphan == S!PendingWith(id)
<1>1. /\ sNextMID' = sNextMID
      /\ \/ sObservations' = sObservations
         \/ /\ id \in S!Ids
            /\ sObservations' = [sObservations EXCEPT ![id] = [o \in S!ObsIds |-> None]]
            /\ sTransactions' = [m \in S!Mids |->
                  IF m \in orphan
                  THEN [sTransactions[m] EXCEPT !.peerFreed = TRUE, !.obsFreed = TRUE]
                  ELSE sTransactions[m]]
  BY Zenon DEF S!Deregister
<1>2. ASSUME NEW m \in S!Pending, m \notin orphan, sTransactions[m].peer = id
      PROVE  sTransactions[m].obsFreed
  BY <1>2 DEF ListOK, IsTransaction, S!PendingWith
<1> HIDE DEF id
<1>3. sNextMID' = sNextMID
  BY <1>1
<1>4. \A m \in S!Pending' : m # sNextMID
  BY <1>3 DEF ListStep
<1>5. CASE sObservations' = sObservations
  BY <1>3, <1>5, ObservationsSame
<1>6. CASE /\ id \in S!Ids
           /\ sObservations' = [sObservations EXCEPT ![id] = [o \in S!ObsIds |-> None]]
           /\ sTransactions' = [m \in S!Mids |->
                  IF m \in orphan
                  THEN [sTransactions[m] EXCEPT !.peerFreed = TRUE, !.obsFreed = TRUE]
                  ELSE sTransactions[m]]
  <2> DEFINE kept == {x \in S!Ids \X S!ObsIds : x[1] # id}
  <2>1. sObservations' = [i \in S!Ids |-> [o \in S!ObsIds |->
                            IF <<i, o>> \in kept THEN sObservations[i][o] ELSE None]]
    BY <1>6 DEF CarriersOK
  <2>2. ASSUME NEW m \in S!Pending', NEW i \in S!Ids, NEW o \in S!ObsIds,
               S!Carries(sTransactions'[m], i, o)
        PROVE  i # id
    <3>1. m \in S!Pending /\ S!Carries(sTransactions[m], i, o)
      BY <1>4, <2>2, CarriedBefore
    <3>2. ~sTransactions'[m].obsFreed /\ ~sTransactions[m].obsFreed
          /\ sTransactions[m].peer = i
      BY <2>2, <3>1 DEF S!Carries
    <3>3. m \notin orphan
      <4>1. SUFFICES ASSUME m \in orphan PROVE FALSE
        OBVIOUS
      <4>2. sTransactions'[m] =
               [sTransactions[m] EXCEPT !.peerFreed = TRUE, !.obsFreed = TRUE]
        BY <1>6, <3>1, <4>1 DEF S!Pending
      <4>3. sTransactions[m] = [op |-> sTransactions[m].op, peer |-> sTransactions[m].peer,
               peerFreed |-> sTransactions[m].peerFreed, obs |-> sTransactions[m].obs,
               obsFreed |-> sTransactions[m].obsFreed, uri |-> sTransactions[m].uri,
               cb |-> sTransactions[m].cb, timer |-> sTransactions[m].timer]
        BY <3>1 DEF ListOK, IsTransaction
      <4>4. sTransactions'[m].obsFreed
        BY <4>2, <4>3
      <4>5. QED
        BY <3>2, <4>4
    <3>4. QED
      BY <1>2, <3>1, <3>2, <3>3
  <2>3. \A m \in S!Pending', i \in S!Ids, o \in S!ObsIds :
           S!Carries(sTransactions'[m], i, o) => <<i, o>> \in kept
    BY <2>2
  <2> HIDE DEF kept
  <2>4. QED
    BY <1>3, <2>1, <2>3, ObservationsDropped
<1>7. QED
  BY <1>1, <1>5, <1>6

\* lwm2m_observe_cancel drops one, and the request that asked for it lets go.
LEMMA CancelObservations ==
    ASSUME ListOK, CarriersOK, ListStep, NEW id \in S!Ids, NEW u \in Uris,
           S!ObserveCancel(id, u)
    PROVE  CarriersOK' /\ ObservationStep
<1>1. PICK o \in S!ObsIds :
         /\ sObservations' = [sObservations EXCEPT ![id][o] = None]
         /\ sTransactions' = [m \in S!Mids |->
               IF m \in S!Carriers(id, o)
               THEN [sTransactions[m] EXCEPT !.obsFreed = TRUE]
               ELSE sTransactions[m]]
  BY Zenon DEF S!ObserveCancel
<1>2. sNextMID' = sNextMID
  BY DEF S!ObserveCancel
<1> DEFINE kept == {x \in S!Ids \X S!ObsIds : ~(x[1] = id /\ x[2] = o)}
<1>3. sObservations' = [i \in S!Ids |-> [j \in S!ObsIds |->
                          IF <<i, j>> \in kept THEN sObservations[i][j] ELSE None]]
  <2>1. sObservations = [i \in S!Ids |-> [j \in S!ObsIds |-> sObservations[i][j]]]
    BY DEF CarriersOK
  <2>2. sObservations' = [sObservations EXCEPT ![id][o] = None]
    BY <1>1
  <2>3. QED
    BY <2>1, <2>2
<1>4. ASSUME NEW m \in S!Pending', NEW i \in S!Ids, NEW j \in S!ObsIds,
             S!Carries(sTransactions'[m], i, j)
      PROVE  ~(i = id /\ j = o)
  <2>1. m \in S!Pending /\ S!Carries(sTransactions[m], i, j)
    BY <1>2, <1>4, CarriedBefore DEF ListStep
  <2>2. SUFFICES ASSUME i = id, j = o PROVE FALSE
    OBVIOUS
  <2>3. sTransactions'[m] = [sTransactions[m] EXCEPT !.obsFreed = TRUE]
    BY <1>1, <2>1, <2>2 DEF S!Pending, S!Carriers
  <2>4. sTransactions[m] = [op |-> sTransactions[m].op, peer |-> sTransactions[m].peer,
           peerFreed |-> sTransactions[m].peerFreed, obs |-> sTransactions[m].obs,
           obsFreed |-> sTransactions[m].obsFreed, uri |-> sTransactions[m].uri,
           cb |-> sTransactions[m].cb, timer |-> sTransactions[m].timer]
    BY <2>1 DEF ListOK, IsTransaction
  <2>5. sTransactions'[m].obsFreed
    BY <2>3, <2>4
  <2>6. QED
    BY <1>4, <2>5 DEF S!Carries
<1>5. \A m \in S!Pending', i \in S!Ids, j \in S!ObsIds :
         S!Carries(sTransactions'[m], i, j) => <<i, j>> \in kept
  BY <1>4
<1> HIDE DEF kept
<1>6. QED
  BY <1>2, <1>3, <1>5, ObservationsDropped

LEMMA WalkObservations ==
    ASSUME ListOK, CarriersOK, ListStep, S!Lwm2mStep
    PROVE  CarriersOK' /\ ObservationStep
<1>1. sNextMID' = sNextMID
  BY StepSends
<1>2. CASE sObservations' = sObservations
  BY <1>1, <1>2, ObservationsSame
<1>3. ASSUME NEW touched, NEW gone, NEW told, NEW noClock, told \subseteq gone,
             told \subseteq S!Pending,
             sTransactions' = S!Walked(touched, gone, noClock),
             sObservations' = S!WithoutObservations({sTransactions[m] : m \in told})
      PROVE  CarriersOK' /\ ObservationStep
  <2>1. \A m \in told : m \notin S!Pending'
    BY <1>3 DEF S!Walked, S!Removed, S!Pending
  <2>2. QED
    BY <1>1, <1>3, <2>1, ObservationsRemoved
<1>4. QED
  BY <1>2, <1>3, WalkCases, Zenon

LEMMA ServerObservations ==
    ASSUME ServerAction, ListOK, RequestsOK, MidsOK, CarriersOK
    PROVE  CarriersOK' /\ ObservationStep
<1>0. ListStep
  BY ServerListStep
<1>1. ASSUME \/ S!Wake \/ S!Tick \/ \E mid : S!Register(Addr, mid, Name, FALSE)
      PROVE  sNextMID' = sNextMID /\ sObservations' = sObservations
  BY <1>1 DEF S!Wake, S!Tick, S!Register
<1>2. CASE \/ S!Wake \/ S!Tick \/ \E mid : S!Register(Addr, mid, Name, FALSE)
  BY <1>0, <1>1, <1>2, ObservationsSame
<1>3. CASE S!Lwm2mStep
  BY <1>0, <1>3, WalkObservations
<1>4. CASE \E p \in toServer : ~IsRequest(p) /\ S!ReceiveReply(ReplyOf(p))
  BY <1>0, <1>4, ReplyObservations
<1>5. CASE \E id \in S!Ids, u \in Uris : S!ObserveCancel(id, u)
  BY <1>0, <1>5, CancelObservations
<1>6. CASE \E mid, location : S!Deregister(Addr, mid, location, FALSE)
  BY <1>0, <1>6, DeregisterObservations
<1>7. CASE \/ \E op \in Ops, id \in S!Ids, u \in Uris : S!DmRequest(op, id, u, TRUE)
           \/ "observe" \in Ops /\ \E id \in S!Ids, u \in Uris : S!Observe(id, u)
  BY <1>7, RequestObservations
<1>8. QED
  BY <1>2, <1>3, <1>4, <1>5, <1>6, <1>7 DEF ServerAction

AcknowledgedInv ==
    /\ ListOK /\ RequestsOK /\ MidsOK /\ AnswersOK /\ CarriersOK
    /\ ObservedWasAcknowledged

LEMMA NextAcknowledged == AcknowledgedInv /\ [Next]_vars => AcknowledgedInv'
<1> SUFFICES ASSUME AcknowledgedInv, [Next]_vars
             PROVE  AcknowledgedInv'
  OBVIOUS
<1>0. /\ ListOK /\ RequestsOK /\ MidsOK /\ AnswersOK /\ CarriersOK
      /\ ObservedWasAcknowledged
  BY DEF AcknowledgedInv
<1>1. ListOK' /\ RequestsOK' /\ MidsOK' /\ AnswersOK'
  BY <1>0, NextListOK, NextMidsOK, NextAnswersOK
<1>2. CASE UNCHANGED vars \/ ClientMoves
  <2>1. sObservations' = sObservations /\ sTransactions' = sTransactions
    BY <1>2 DEF vars, serverVars, ClientMoves
  <2>2. S!Pending' = S!Pending
    BY <2>1 DEF S!Pending
  <2>3. CarriersOK'
    BY <1>0, <2>1, <2>2 DEF CarriersOK
  <2>4. shown \subseteq shown'
    <3>1. CASE ClientAction /\ UNCHANGED <<answers, shown>>
      BY <3>1
    <3>2. CASE \/ \E u \in Uris : ClientNotifies(u)
               \/ \E q \in toClient : ClientAnswers(q)
      BY <3>2 DEF ClientNotifies, ClientAnswers
    <3>3. CASE UNCHANGED vars \/ ServerMoves
      BY <3>3 DEF vars, history, ServerMoves
    <3>4. QED
      BY <3>1, <3>2, <3>3, StepCases
  <2>5. ObservedWasAcknowledged'
    BY <1>0, <2>1, <2>4 DEF ObservedWasAcknowledged
  <2>6. QED
    BY <1>1, <2>3, <2>5 DEF AcknowledgedInv
<1>3. CASE ServerAction /\ ServerMoves
  <2>1. CarriersOK' /\ ObservationStep
    BY <1>0, <1>3, ServerObservations
  <2>2. shown' = shown
    BY <1>3 DEF ServerMoves
  <2>3. ASSUME NEW id \in S!Ids, NEW o \in S!ObsIds, NEW p \in toServer, Settles(p, id, o)
        PROVE  \E n \in shown : /\ n[1].code = "2.05" /\ n[1].token = <<id, o>>
                                /\ n[2] = sObservations[id][o].uri
    <3> DEFINE t == sTransactions[p.mid]
    <3>1. /\ p.mid \in S!Pending /\ t.op = "observe" /\ t.peer = id /\ t.obs = o
          /\ p.code = "2.05" /\ ~IsRequest(p) /\ p.counter # None
          /\ S!Carries(t, id, o)
      BY <2>3 DEF Settles, S!Carries
    <3>2. sObservations[id][o].uri = t.uri
      BY <1>0, <3>1 DEF CarriersOK
    <3>3. PICK q \in toClient : /\ IsRequest(q) /\ q.mid = p.mid
                                /\ q.token = p.token /\ <<p, q.uri>> \in shown
      BY <1>0, <3>1 DEF AnswersOK
    <3>4. q.uri = t.uri /\ q.token = <<id, o>>
      BY <1>0, <3>1, <3>3 DEF RequestsOK, Asks
    <3>5. QED
      BY <3>1, <3>2, <3>3, <3>4
  <2>4. ASSUME NEW id \in S!Ids, NEW o \in S!ObsIds,
               sObservations'[id][o] # None, sObservations'[id][o].status = "REGISTERED"
        PROVE  \E n \in shown : /\ n[1].code = "2.05" /\ n[1].token = <<id, o>>
                                /\ n[2] = sObservations'[id][o].uri
    <3>1. CASE sObservations'[id][o] = sObservations[id][o]
      BY <1>0, <2>4, <3>1 DEF ObservedWasAcknowledged
    <3>2. CASE /\ sObservations'[id][o].uri = sObservations[id][o].uri
               /\ \E p \in toServer : Settles(p, id, o)
      BY <2>3, <3>2
    <3>3. QED
      BY <2>1, <2>4, <3>1, <3>2 DEF ObservationStep
  <2>5. ObservedWasAcknowledged'
    BY <2>2, <2>4 DEF ObservedWasAcknowledged
  <2>6. QED
    BY <1>1, <2>1, <2>5 DEF AcknowledgedInv
<1>4. QED
  BY <1>2, <1>3, StepCases

LEMMA AcknowledgedHolds == Spec => []AcknowledgedInv
<1>1. Init => AcknowledgedInv
  <2>1. Init => ObservedWasAcknowledged
    BY DEF Init, S!Init, ObservedWasAcknowledged
  <2>2. QED
    BY <2>1, InitListOK, InitMidsOK, InitAnswersOK, InitCarriersOK DEF AcknowledgedInv
<1>2. QED
  BY <1>1, NextAcknowledged, PTL DEF Spec

\* An observation the server lists as REGISTERED was acknowledged: the client
\* sent a 2.05 with this observation's token about this observation's path,
\* even when observations were cancelled, their identifiers given out again,
\* and answers to the old ones are still on their way.
THEOREM RegisteredWasAcknowledged == Spec => []ObservedWasAcknowledged
<1>1. AcknowledgedInv => ObservedWasAcknowledged
  BY DEF AcknowledgedInv
<1>2. QED
  BY <1>1, AcknowledgedHolds, PTL

-----------------------------------------------------------------------------
(* What a notification is about                                             *)

LEMMA InitObservationsMade == Init => ObservationsMade
  BY DEF Init, S!Init, ObservationsMade

LEMMA NextObservationsMade ==
    ASSUME ListOK, RequestsOK, MidsOK, CarriersOK, ObservationsMade, [Next]_vars
    PROVE  ObservationsMade'
<1>1. CASE UNCHANGED vars \/ ClientMoves
  BY <1>1 DEF vars, serverVars, ClientMoves, ObservationsMade, Makes
<1>2. CASE ServerAction /\ ServerMoves
  <2>1. ObservationStep
    BY <1>2, ServerObservations
  <2>2. toClient' = toClient \cup sSent'
    BY <1>2 DEF ServerMoves
  <2>3. ASSUME NEW id \in S!Ids, NEW o \in S!ObsIds, sObservations'[id][o] # None
        PROVE  \E q \in toClient' : Makes(q, id, o, sObservations'[id][o].uri)
    <3>1. CASE /\ sObservations[id][o] # None
               /\ sObservations'[id][o].uri = sObservations[id][o].uri
      BY <2>2, <3>1 DEF ObservationsMade
    <3>2. CASE \E q \in sSent' : Makes(q, id, o, sObservations'[id][o].uri)
      BY <2>2, <3>2
    <3>3. QED
      BY <2>1, <2>3, <3>1, <3>2 DEF ObservationStep
  <2>4. QED
    BY <2>3 DEF ObservationsMade, Makes
<1>3. QED
  BY <1>1, <1>2, StepCases

\* A notification carries the message ID that its watcher keeps.
LEMMA NotificationsShown ==
    ASSUME NEW u \in Uris, ClientNotifies(u), WatchersAsked
    PROVE  \A p \in cSent' : \E t : <<p, t>> \in shown'
<1>1. PICK over : C!NotifyAll({w \in C!Watched :
                     /\ C!Concerns(u, w[1]) /\ w[1] \notin over
                     /\ C!ReadCode(w[1]) = "2.05"})
  BY Zenon DEF ClientNotifies, C!ResourceValueChanged
<1> DEFINE ws == {w \in C!Watched : /\ C!Concerns(u, w[1]) /\ w[1] \notin over
                                    /\ C!ReadCode(w[1]) = "2.05"}
<1>2. \A w \in ws : w \in C!Watched /\ C!Concerns(u, w[1])
  OBVIOUS
<1>3. C!NotifyAll(ws)
  BY <1>1
<1> HIDE DEF ws
<1>4. PICK mid :
         /\ cObserved' = [t \in Uris |->
               IF cObserved[t] = None THEN None
               ELSE [s \in C!Servers |->
                       IF <<t, s>> \in ws THEN C!Notified(<<t, s>>, mid[<<t, s>>])
                       ELSE cObserved[t][s]]]
         /\ cSent' = {C!Notification(w, mid[w]) : w \in ws}
  BY <1>3, ZenonT(60) DEF C!NotifyAll
<1>5. ASSUME NEW w \in ws
      PROVE  cObserved'[w[1]][w[2]].lastMid = mid[w]
  <2>1. /\ w = <<w[1], w[2]>> /\ w[1] \in Uris /\ w[2] \in C!Servers
        /\ w[2] = Server /\ cObserved[w[1]] # None /\ C!Watcher(w) # None
    BY <1>2 DEF C!Watched, C!Watcher, C!Servers, Server
  <2>2. cObserved'[w[1]][w[2]] = C!Notified(w, mid[w])
    BY <1>4, <2>1
  <2> DEFINE x == C!Watcher(w)
             m == mid[w]
  <2>3. IsWatcher(x)
    BY <2>1 DEF WatchersAsked, C!Watcher
  <2>4. C!Notified(w, m) = [x EXCEPT !.lastMid = m, !.counter = @ + 1]
    BY Zenon DEF C!Notified
  <2> HIDE DEF x, m
  <2>5. [x EXCEPT !.lastMid = m, !.counter = @ + 1].lastMid = m
    BY <2>3 DEF IsWatcher
  <2>6. QED
    BY <2>2, <2>4, <2>5 DEF m
<1>6. ASSUME NEW w \in ws
      PROVE  <<C!Notification(w, mid[w]), w[1]>> \in shown'
  <2>1. w \in {x \in C!Watched : C!Concerns(u, x[1])}
    BY <1>2
  <2>2. <<C!Notification(w, cObserved'[w[1]][w[2]].lastMid), w[1]>> \in shown'
    BY <2>1, Zenon DEF ClientNotifies
  <2>3. QED
    BY <1>5, <2>2, Zenon
<1>7. QED
  BY <1>4, <1>6, Zenon

LEMMA InitObservedIsShown == Init => ObservedIsShown
  BY DEF Init, ObservedIsShown

LEMMA NextObservedIsShown ==
    ASSUME WatchersAsked, ObservedIsShown, [Next]_vars
    PROVE  ObservedIsShown'
<1>1. CASE UNCHANGED vars \/ ServerMoves
  <2>1. toServer' = toServer /\ shown' = shown
    BY <1>1 DEF vars, history, ServerMoves
  <2>2. QED
    BY <2>1 DEF ObservedIsShown
<1>2. CASE ClientMoves /\ ClientAction /\ UNCHANGED <<answers, shown>>
  BY <1>2, ClientSends DEF ClientMoves, ObservedIsShown
<1>3. ASSUME ClientMoves, NEW u \in Uris, ClientNotifies(u)
      PROVE  ObservedIsShown'
  <2>1. shown \subseteq shown' /\ toServer' = toServer \cup cSent'
    BY <1>3, NotificationsSent DEF ClientMoves
  <2>2. \A p \in cSent' : \E t : <<p, t>> \in shown'
    BY <1>3, NotificationsShown
  <2>3. QED
    BY <2>1, <2>2 DEF ObservedIsShown
<1>4. ASSUME ClientMoves, NEW q \in toClient, ClientAnswers(q)
      PROVE  ObservedIsShown'
  <2>1. /\ toServer' = toServer \cup cSent'
        /\ shown' = shown \cup {<<a, q.uri>> : a \in {x \in cSent' : x.counter # None}}
    BY <1>4 DEF ClientMoves, ClientAnswers
  <2>2. \A p \in cSent' : p.counter # None => <<p, q.uri>> \in shown'
    BY <2>1
  <2>3. shown \subseteq shown'
    BY <2>1
  <2>4. QED
    BY <2>1, <2>2, <2>3 DEF ObservedIsShown
<1>5. QED
  BY <1>1, <1>2, <1>3, <1>4, StepCases

\* A call that is no result of a request is that of handle_observe_notify.
LEMMA NotifyCalls ==
    ASSUME MidsOK, NEW p \in toServer, ~IsRequest(p), S!ReceiveReply(ReplyOf(p)),
           NEW c \in sCalls', c.mid = None
    PROVE  \E id \in S!Ids, o \in S!ObsIds :
              /\ p.counter # None /\ c.data = p.data
              /\ p.token[1] = id /\ p.token[2] = o
              /\ sObservations[id][o] # None
              /\ c.uri = sObservations[id][o].uri
<1> DEFINE msg == ReplyOf(p)
           t   == sTransactions[p.mid]
<1>1. /\ msg.mid = p.mid /\ msg.data = p.data /\ msg.token = p.token
      /\ msg.observe <=> p.counter # None
  BY DEF ReplyOf
<1>2. p.mid \in S!Mids /\ c.mid # p.mid
  BY NoneAssumption DEF MidsOK
<1> HIDE DEF msg
<1>3. ~S!AnswerTransaction(msg)
  <2>1. SUFFICES ASSUME S!AnswerTransaction(msg) PROVE FALSE
    OBVIOUS
  <2>2. S!DeliverAnswer(p.mid, t, msg)
    BY <1>1, <2>1 DEF S!AnswerTransaction, S!AnswerWith, S!GoUndefined
  <2>3. \E s, d : sCalls' = {S!Call(p.mid, t, s, d)}
    BY <2>2 DEF S!DeliverAnswer
  <2>4. \A s, d : S!Call(p.mid, t, s, d).mid = p.mid
    BY DEF S!Call
  <2>5. QED
    BY <1>2, <2>3, <2>4
<1>4. S!Notify(msg)
  BY <1>3 DEF S!ReceiveReply, msg
<1> DEFINE id == msg.token[1]
           o  == msg.token[2]
<1>5. /\ S!NotifiesClient(msg) /\ o \in S!ObsIds /\ sObservations[id][o] # None
      /\ sCalls' = {[mid |-> None, op |-> "observe", client |-> id,
                     uri |-> sObservations[id][o].uri,
                     status |-> "counter", data |-> msg.data]}
  BY <1>4 DEF S!Notify
<1>6. id \in S!Ids /\ msg.observe
  BY <1>5 DEF S!NotifiesClient
<1>7. QED
  BY <1>1, <1>5, <1>6

\* Every other step of the server reports requests only.
LEMMA OtherCalls ==
    ASSUME \/ S!Lwm2mStep \/ S!Wake \/ S!Tick
           \/ \E op, id, u : S!DmRequest(op, id, u, TRUE)
           \/ \E id, u : S!Observe(id, u) \/ S!ObserveCancel(id, u)
           \/ \E mid : S!Register(Addr, mid, Name, FALSE)
           \/ \E mid, location : S!Deregister(Addr, mid, location, FALSE)
    PROVE  \A c \in sCalls' : c.mid \in S!Mids
<1>1. ASSUME NEW op, NEW id, NEW u, S!DmRequest(op, id, u, TRUE) \/ S!Observe(id, u)
      PROVE  sCalls' = {}
  BY <1>1, DmRequestCases, ObserveCases, Launched
<1>2. ASSUME NEW mid, \/ S!Register(Addr, mid, Name, FALSE)
                      \/ \E location : S!Deregister(Addr, mid, location, FALSE)
      PROVE  sCalls' = {}
  BY <1>2 DEF S!Register, S!Deregister
<1>3. ASSUME S!Wake \/ S!Tick \/ \E id, u : S!ObserveCancel(id, u)
      PROVE  sCalls' = {}
  BY <1>3 DEF S!Wake, S!Tick, S!ObserveCancel
<1>4. CASE S!Lwm2mStep
  BY <1>4, GivenUpCalls
<1>5. QED
  BY <1>1, <1>2, <1>3, <1>4

\* So that a call without a message ID comes from a packet that is received.
LEMMA NotifySteps ==
    ASSUME CallsOK, [Next]_vars, NEW c \in sCalls', c.mid = None
    PROVE  \/ UNCHANGED vars
           \/ \E p \in toServer :
                 ~IsRequest(p) /\ S!ReceiveReply(ReplyOf(p)) /\ ServerReceives(p)
<1>0. c.mid \notin S!Mids
  BY NoneAssumption
<1>1. CASE ServerStep \/ ServerWaits
  BY <1>0, <1>1, OtherCalls DEF ServerStep, ServerWaits
<1>2. CASE \/ \E op \in Ops, id \in S!Ids, u \in Uris, v \in Values :
                 ServerAsks(op, id, u, v)
           \/ \E id \in S!Ids, u \in Uris : "observe" \in Ops /\ ServerObserves(id, u)
           \/ \E id \in S!Ids, u \in Uris : ServerCancels(id, u)
  BY <1>0, <1>2, OtherCalls DEF ServerAsks, ServerObserves, ServerCancels
<1>3. ASSUME NEW p \in toServer, ServerReceives(p)
      PROVE  ~IsRequest(p) /\ S!ReceiveReply(ReplyOf(p))
  <2>1. CASE \/ \E mid : S!Register(Addr, mid, Name, FALSE)
             \/ \E mid, location : S!Deregister(Addr, mid, location, FALSE)
    BY <1>0, <2>1, OtherCalls
  <2>2. QED
    BY <1>3, <2>1 DEF ServerReceives
<1>4. CASE sPhase # "step" /\ ClientMoves
  BY <1>0, <1>4 DEF CallsOK, ClientMoves, serverVars
<1>5. CASE sPhase # "step" /\ ClientStep
  BY <1>4, <1>5 DEF ClientStep
<1>6. CASE Between /\ (\/ ClientRegisters \/ ClientWaits \/ ClientCloses \/ ClientRestarts
                       \/ \E u \in Uris, v \in Values : ClientUpdates(u, v)
                       \/ \E u \in Uris : ClientNotifies(u)
                       \/ \E p \in toClient : ClientReceives(p))
  BY <1>4, <1>6 DEF Between, ClientRegisters, ClientWaits, ClientCloses, ClientRestarts,
                    ClientUpdates, ClientNotifies, ClientReceives
<1>7. QED
  BY <1>1, <1>2, <1>3, <1>5, <1>6 DEF Next

\* The token of a request to observe is a pair.
TokensOK ==
    \A q \in toClient : IsRequest(q) /\ q.op = "observe" =>
        q.token = <<q.token[1], q.token[2]>>

LEMMA RequestsSent ==
    ASSUME ServerAction, NEW q \in sSent', IsRequest(q)
    PROVE  \E m, t : q = S!Request(m, t)
<1>1. ASSUME NEW op, NEW id, NEW u, S!DmRequest(op, id, u, TRUE) \/ S!Observe(id, u)
      PROVE  \E m, t : q = S!Request(m, t)
  <2>1. \E t, obs : S!Launch(t, obs)
    BY <1>1, DmRequestCases, ObserveCases
  <2>2. QED
    BY <2>1, Launched
<1>2. CASE S!Lwm2mStep
  <2>1. \/ sSent' = {}
        \/ \E ms : sSent' = {S!Request(m, sTransactions[m]) : m \in ms}
    BY <1>2, ServerStepCases, Zenon DEF S!WalkList, S!GoUndefined
  <2>2. QED
    BY <2>1
<1>3. CASE \E p \in toServer : S!ReceiveReply(ReplyOf(p))
  BY <1>3, ReplySends
<1>4. CASE \E mid : S!Register(Addr, mid, Name, FALSE)
  BY <1>4, RegisterAnswers
<1>5. CASE \E mid, location : S!Deregister(Addr, mid, location, FALSE)
  <2>1. \E mid, code : sSent' = {[to |-> Addr, mid |-> mid, code |-> code]}
    BY <1>5, DeregisterCases
  <2>2. QED
    BY <2>1 DEF IsRequest
<1>6. CASE S!Wake \/ S!Tick \/ \E id, u : S!ObserveCancel(id, u)
  BY <1>6 DEF S!Wake, S!Tick, S!ObserveCancel
<1>7. QED
  BY <1>1, <1>2, <1>3, <1>4, <1>5, <1>6 DEF ServerAction

LEMMA InitTokensOK == Init => TokensOK
  BY DEF Init, TokensOK

LEMMA NextTokensOK == TokensOK /\ [Next]_vars => TokensOK'
<1> SUFFICES ASSUME TokensOK, [Next]_vars PROVE TokensOK'
  OBVIOUS
<1>1. CASE UNCHANGED vars \/ ClientMoves
  BY <1>1 DEF vars, ClientMoves, TokensOK
<1>2. CASE ServerAction /\ ServerMoves
  <2>1. ASSUME NEW q \in sSent', IsRequest(q), q.op = "observe"
        PROVE  q.token = <<q.token[1], q.token[2]>>
    <3>1. PICK m, t : q = S!Request(m, t)
      BY <1>2, <2>1, RequestsSent
    <3>2. q.token = <<t.peer, t.obs>>
      BY <2>1, <3>1, RequestFields DEF Asks
    <3>3. QED
      BY <3>2
  <2>2. toClient' = toClient \cup sSent'
    BY <1>2 DEF ServerMoves
  <2>3. QED
    BY <2>1, <2>2 DEF TokensOK
<1>3. QED
  BY <1>1, <1>2, StepCases

\* No token is given to two paths: what a cancel or a DELETE, which free the
\* identifiers of observations, may break.
TokensKept ==
    \A p, q \in toClient :
        /\ IsRequest(p) /\ p.op = "observe"
        /\ IsRequest(q) /\ q.op = "observe"
        /\ p.token = q.token
        => p.uri = q.uri

NotifyStep ==
    \A c \in sCalls' : c.mid = None =>
        \E n \in shown : /\ n[2] = c.uri /\ n[1].data = c.data
                         /\ ServerReceives(n[1])

LEMMA NotifiedStep ==
    ASSUME TokensKept, TokensOK, MidsOK, CallsOK, ObservationsMade, ObservedIsShown,
           ShownWithItsToken, [Next]_vars
    PROVE  [NotifyStep]_vars
<1> SUFFICES ASSUME ~UNCHANGED vars, NEW c \in sCalls', c.mid = None
             PROVE  \E n \in shown : /\ n[2] = c.uri /\ n[1].data = c.data
                                     /\ ServerReceives(n[1])
  BY DEF NotifyStep
<1>1. PICK p \in toServer :
         ~IsRequest(p) /\ S!ReceiveReply(ReplyOf(p)) /\ ServerReceives(p)
  BY NotifySteps
<1>2. PICK id \in S!Ids, o \in S!ObsIds :
         /\ p.counter # None /\ c.data = p.data
         /\ p.token[1] = id /\ p.token[2] = o
         /\ sObservations[id][o] # None
         /\ c.uri = sObservations[id][o].uri
  BY <1>1, NotifyCalls
<1>3. PICK u : <<p, u>> \in shown
  BY <1>1, <1>2 DEF ObservedIsShown
<1>4. PICK q \in toClient : /\ IsRequest(q) /\ q.op = "observe"
                            /\ q.uri = u /\ q.token = p.token
  BY <1>3 DEF ShownWithItsToken
<1>5. PICK r \in toClient : Makes(r, id, o, c.uri)
  BY <1>2 DEF ObservationsMade
<1>6. q.token = <<id, o>>
  BY <1>2, <1>4 DEF TokensOK
<1>7. u = c.uri
  BY <1>4, <1>5, <1>6 DEF Makes, TokensKept
<1>8. QED
  BY <1>1, <1>2, <1>3, <1>7

\* As long as no token is given to two paths, the path the application is told
\* of is the one that what it is told comes from: whatever is lost, repeated
\* or late, from whichever life of the client (observe.c:504 finds the
\* observation by the token alone).
THEOREM NotifiedWhileTokensKept == Spec /\ []TokensKept => NotifiedOfItsPath
<1>1. /\ TokensKept /\ TokensOK /\ MidsOK /\ CallsOK /\ ObservationsMade
      /\ ObservedIsShown /\ ShownWithItsToken /\ [Next]_vars
      => [NotifyStep]_vars
  BY NotifiedStep
<1>2. ListOK /\ RequestsOK /\ MidsOK /\ CarriersOK /\ ObservationsMade /\ [Next]_vars
      => ObservationsMade'
  BY NextObservationsMade
<1>3. WatchersAsked /\ ObservedIsShown /\ [Next]_vars => ObservedIsShown'
  BY NextObservedIsShown
<1>4. Spec => []AcknowledgedInv
  BY AcknowledgedHolds
<1>5. AcknowledgedInv => ListOK /\ RequestsOK /\ MidsOK /\ CarriersOK
  BY DEF AcknowledgedInv
<1>6. QED
  BY <1>1, <1>2, <1>3, <1>4, <1>5, InitTokensOK, NextTokensOK, InitCallsOK, NextCallsOK,
     InitObservationsMade, InitObservedIsShown, InitWatchersAsked, NextWatchersAsked, PTL
     DEF Spec, NotifiedOfItsPath, NotifyStep
=============================================================================
