------------------------- MODULE Lwm2mServerProofs -------------------------
(***************************************************************************)
(* Safety of the server engine for every number of clients, observations,  *)
(* message IDs, and whatever the peers send.                               *)
(***************************************************************************)
EXTENDS Lwm2mServer, TLAPS

-----------------------------------------------------------------------------
(* The inductive invariant                                                  *)

\* An observe request knows the observation it was issued for.
Shape ==
    \A m \in Pending :
        /\ m < nextMID
        /\ transactions[m].op = "observe" =>
              transactions[m].obs \in ObsIds /\ transactions[m].cb
        /\ transactions[m].obsFreed \/ ~transactions[m].peerFreed

\* The observation a pending observe request will settle is there, waiting
\* for it, and for no other request.
CarriedIsPending ==
    \A m \in Pending, id \in Ids, o \in ObsIds :
        Carries(transactions[m], id, o) =>
            /\ observations[id][o] # None
            /\ observations[id][o].status = "PENDING"
            /\ observations[id][o].uri = transactions[m].uri

CarrierIsUnique ==
    \A m, n \in Pending, id \in Ids, o \in ObsIds :
        Carries(transactions[m], id, o) /\ Carries(transactions[n], id, o) => m = n

PendingIsCarried ==
    \A id \in Ids, o \in ObsIds :
        observations[id][o] # None /\ observations[id][o].status = "PENDING"
            => \E m \in Pending : Carries(transactions[m], id, o)

PeersRegistered ==
    \A m \in Pending :
        ~transactions[m].peerFreed => clients[transactions[m].peer] # None

\* Only registered clients have observations.
ObservationsRegistered ==
    \A id \in Ids, o \in ObsIds : observations[id][o] # None => clients[id] # None

Structure == /\ Shape /\ CarriedIsPending /\ CarrierIsUnique
             /\ PendingIsCarried /\ PeersRegistered /\ ObservationsRegistered

IInv == TypeOK /\ Structure

-----------------------------------------------------------------------------
(* The timer                                                                *)

LEMMA ResentType ==
    ASSUME NEW t \in Timers, NEW ok \in BOOLEAN, ~GivesUp(t, ok)
    PROVE  /\ Resent(t, ok) \in Timers
           /\ ~Unsent(Resent(t, ok))
  <1> DEFINE c == CounterAtSend(t, ok)
  <1>1. c \in 1..3
    BY DEF Timers, GivesUp, CounterAtSend, Unsent, COAP_MAX_RETRANSMIT
  <1> HIDE DEF c
  <1>2. Resent(t, ok) = [counter |-> c + 1,
                         wait |-> t.wait + COAP_RESPONSE_TIMEOUT * c,
                         age |-> t.age, sends |-> t.sends + 1]
    BY DEF Resent, c
  <1>3. QED
    BY <1>1, <1>2 DEF Timers, Unsent, COAP_MAX_RETRANSMIT, COAP_RESPONSE_TIMEOUT

LEMMA AgedType ==
    ASSUME NEW t \in Timers
    PROVE  Aged(t) \in Timers
  BY DEF Timers, Aged, Unsent

\* What a transaction is about, all but its timer.
SameRequest(t, u) ==
    /\ t.op = u.op /\ t.uri = u.uri /\ t.cb = u.cb
    /\ t.peer = u.peer /\ t.peerFreed = u.peerFreed
    /\ t.obs = u.obs /\ t.obsFreed = u.obsFreed

LEMMA SentAgainType ==
    ASSUME NEW t \in Transactions, NEW ok \in BOOLEAN, ~GivesUp(t.timer, ok)
    PROVE  SentAgain(t, ok) \in Transactions /\ SameRequest(SentAgain(t, ok), t)
  <1>1. t.timer \in Timers
    BY DEF Transactions
  <1>2. Resent(t.timer, ok) \in Timers
    BY <1>1, ResentType
  <1>3. QED
    BY <1>2 DEF Transactions, SentAgain, SameRequest

LEMMA OlderType ==
    ASSUME NEW t \in Transactions
    PROVE  Older(t) \in Transactions /\ SameRequest(Older(t), t)
  <1>1. t.timer \in Timers
    BY DEF Transactions
  <1>2. Aged(t.timer) \in Timers
    BY <1>1, AgedType
  <1>3. QED
    BY <1>2 DEF Transactions, Older, SameRequest

LEMMA NewTransactionType ==
    ASSUME NEW op \in Operations, NEW id \in Ids, NEW o \in ObsIds \cup {None},
           NEW u \in Uris, NEW cb \in BOOLEAN
    PROVE  /\ NewTransaction(op, id, o, u, cb) \in Transactions
           /\ ~GivesUp(NewTransaction(op, id, o, u, cb).timer, TRUE)
  BY DEF NewTransaction, Transactions, NewTimer, Timers, GivesUp,
         CounterAtSend, Unsent, COAP_MAX_RETRANSMIT
-----------------------------------------------------------------------------
(* Type correctness of each action                                          *)

LEMMA ReportedType ==
    ASSUME TypeOK, NEW ms
    PROVE  Reported(ms) \in [Mids -> Fates]
  BY DEF Reported, TypeOK, Fates

LEMMA RegisterType ==
    ASSUME TypeOK, NEW from \in Addrs, NEW name \in Names \cup {None},
           NEW block2 \in BOOLEAN, Register(from, 0, name, block2)
    PROVE  TypeOK'
  <1>1. clients' \in [Ids -> Clients \cup {None}]
    <2>1. CASE UNCHANGED clients
      BY <2>1 DEF TypeOK
    <2>2. CASE \E id \in Ids : /\ name # None
                               /\ clients' = [clients EXCEPT
                                     ![id] = [name |-> name, addr |-> from]]
      BY <2>2 DEF TypeOK, Clients
    <2>3. QED
      BY <2>1, <2>2 DEF Register
  <1>2. phase' \in {"step", "undefined"} /\ misuse' \subseteq Misuses
    BY DEF Register, Answered, TypeOK, Misuses
  <1>3. QED
    BY <1>1, <1>2 DEF Register, TypeOK

LEMMA DeregisterType ==
    ASSUME TypeOK, NEW target \in Ids \cup {None, MaxClients},
           NEW from \in Addrs, NEW block2 \in BOOLEAN,
           Deregister(from, 0, target, block2)
    PROVE  TypeOK'
  <1> DEFINE id == IF target = None THEN 0 ELSE target
  <1>a. phase' \in {"step", "undefined"}
    BY Zenon DEF Deregister, Answered
  <1>0. /\ UNCHANGED <<nextMID, timeout, fate>>
        /\ IF id \notin Ids \/ clients[id] = None
           THEN UNCHANGED <<clients, observations, transactions, misuse>>
           ELSE /\ clients' = [clients EXCEPT ![id] = None]
                /\ observations' = [observations EXCEPT
                                      ![id] = [o \in ObsIds |-> None]]
                /\ transactions' = [m \in Mids |->
                      IF m \in PendingWith(id)
                      THEN [transactions[m] EXCEPT !.peerFreed = TRUE,
                                                   !.obsFreed = TRUE]
                      ELSE transactions[m]]
                /\ misuse' = misuse
                      \cup (IF AwaitsAnswerFrom(id) THEN {"client freed"} ELSE {})
                      \cup (IF block2 THEN {"block"} ELSE {})
    BY Zenon DEF Deregister
  <1> HIDE DEF id
  <1>1. CASE id \notin Ids \/ clients[id] = None
    BY <1>a, <1>0, <1>1 DEF TypeOK
  <1>2. CASE ~(id \notin Ids \/ clients[id] = None)
    <2>1. clients' \in [Ids -> Clients \cup {None}]
      BY <1>0, <1>2 DEF TypeOK
    <2>2. observations' \in [Ids -> [ObsIds -> Observations \cup {None}]]
      <3>1. [o \in ObsIds |-> None] \in [ObsIds -> Observations \cup {None}]
        OBVIOUS
      <3>2. observations' =
               [observations EXCEPT ![id] = [o \in ObsIds |-> None]]
        BY <1>0, <1>2
      <3>3. QED
        BY <3>1, <3>2 DEF TypeOK
    <2>3. \A m \in Pending :
             [transactions[m] EXCEPT !.peerFreed = TRUE, !.obsFreed = TRUE]
                \in Transactions
      BY DEF TypeOK, Transactions, Pending
    <2>4. transactions' \in [Mids -> Transactions \cup {None}]
      <3>1. PendingWith(id) \subseteq Pending
        BY DEF PendingWith
      <3>2. transactions' = [m \in Mids |->
               IF m \in PendingWith(id)
               THEN [transactions[m] EXCEPT !.peerFreed = TRUE, !.obsFreed = TRUE]
               ELSE transactions[m]]
        BY <1>0, <1>2
      <3>3. QED
        BY <2>3, <3>1, <3>2 DEF TypeOK
    <2>5. misuse' \subseteq Misuses
      BY <1>0, <1>2 DEF TypeOK, Misuses
    <2>6. QED
      BY <2>1, <2>2, <2>4, <2>5, <1>a, <1>0, <1>2 DEF TypeOK
  <1>3. QED
    BY <1>1, <1>2

LEMMA LaunchType ==
    ASSUME TypeOK, NEW t \in Transactions, ~GivesUp(t.timer, TRUE),
           NEW obs \in [Ids -> [ObsIds -> Observations \cup {None}]],
           nextMID < MaxMid, Launch(t, obs)
    PROVE  /\ transactions' \in [Mids -> Transactions \cup {None}]
           /\ observations' \in [Ids -> [ObsIds -> Observations \cup {None}]]
           /\ nextMID' \in 0..MaxMid
           /\ fate' \in [Mids -> Fates]
           /\ misuse' \subseteq Misuses
  <1>1. SentAgain(t, TRUE) \in Transactions
    BY SentAgainType
  <1>2. nextMID \in Mids
    BY BoundsAssumption DEF TypeOK, Mids
  <1>3. fate' \in [Mids -> Fates]
    <2>1. Reported({nextMID}) \in [Mids -> Fates]
      BY ReportedType
    <2>2. [fate EXCEPT ![nextMID] = "silent"] \in [Mids -> Fates]
      BY DEF TypeOK, Fates
    <2>3. \/ fate' = fate \/ fate' = Reported({nextMID})
          \/ fate' = [fate EXCEPT ![nextMID] = "silent"]
      BY Zenon DEF Launch
    <2>4. QED
      BY <2>1, <2>2, <2>3 DEF TypeOK
  <1>4. nextMID' \in 0..MaxMid
    <2>1. nextMID' = nextMID + 1
      BY Zenon DEF Launch
    <2>2. QED
      BY <2>1, BoundsAssumption DEF TypeOK
  <1>5. misuse' \subseteq Misuses
    BY DEF Launch, TypeOK, Misuses
  <1>6. QED
    BY <1>1, <1>2, <1>3, <1>4, <1>5 DEF Launch, TypeOK

LEMMA RefuseType ==
    ASSUME TypeOK, nextMID < MaxMid, Refuse
    PROVE  /\ transactions' = transactions /\ observations' = observations
           /\ nextMID' \in 0..MaxMid
           /\ fate' \in [Mids -> Fates]
           /\ misuse' = misuse
  <1>1. [fate EXCEPT ![nextMID] = "refused"] \in [Mids -> Fates]
    BY DEF TypeOK, Fates
  <1>2. nextMID + 1 \in 0..MaxMid
    BY BoundsAssumption DEF TypeOK
  <1>3. QED
    BY <1>1, <1>2 DEF Refuse

LEMMA DmRequestType ==
    ASSUME TypeOK, NEW op \in Ops, NEW id \in Ids, NEW u \in Uris,
           NEW cb \in Callbacks, DmRequest(op, id, u, cb)
    PROVE  TypeOK'
  <1> DEFINE t == NewTransaction(op, id, None, u, cb)
  <1>1. t \in Transactions /\ ~GivesUp(t.timer, TRUE)
    BY NewTransactionType, InputAssumption
  <1>2. observations \in [Ids -> [ObsIds -> Observations \cup {None}]]
    BY DEF TypeOK
  <1> HIDE DEF t
  <1>3. CASE Launch(t, observations)
    BY <1>1, <1>2, <1>3, LaunchType DEF DmRequest, TypeOK
  <1>4. CASE Refuse
    BY <1>4, RefuseType DEF DmRequest, TypeOK
  <1>5. QED
    BY <1>3, <1>4 DEF DmRequest, t

LEMMA ObserveType ==
    ASSUME TypeOK, NEW id \in Ids, NEW u \in Uris, Observe(id, u)
    PROVE  TypeOK'
  <1>1. CASE Refuse
    BY <1>1, RefuseType DEF Observe, TypeOK
  <1>2. ASSUME NEW o \in ObsIds,
               Launch(NewTransaction("observe", id, o, u, TRUE),
                      [observations EXCEPT ![id][o] =
                          [uri |-> u, status |-> "PENDING"]])
        PROVE  TypeOK'
    <2> DEFINE t   == NewTransaction("observe", id, o, u, TRUE)
               obs == [observations EXCEPT ![id][o] =
                          [uri |-> u, status |-> "PENDING"]]
    <2>1. t \in Transactions /\ ~GivesUp(t.timer, TRUE)
      BY NewTransactionType DEF Operations
    <2>2. obs \in [Ids -> [ObsIds -> Observations \cup {None}]]
      BY DEF TypeOK, Observations
    <2> HIDE DEF t, obs
    <2>3. Launch(t, obs)
      BY <1>2 DEF t, obs
    <2>4. QED
      BY <2>1, <2>2, <2>3, LaunchType DEF Observe, TypeOK
  <1>3. QED
    BY <1>1, <1>2 DEF Observe

LEMMA ObserveCancelType ==
    ASSUME TypeOK, NEW id \in Ids, NEW u \in Uris, ObserveCancel(id, u)
    PROVE  TypeOK'
  <1>1. PICK o \in ObsIds :
           /\ observations' = [observations EXCEPT ![id][o] = None]
           /\ transactions' = [m \in Mids |->
                 IF m \in Carriers(id, o)
                 THEN [transactions[m] EXCEPT !.obsFreed = TRUE]
                 ELSE transactions[m]]
           /\ misuse' = IF Carriers(id, o) = {} THEN misuse
                        ELSE misuse \cup {"observation freed"}
    BY DEF ObserveCancel
  <1>2. \A m \in Pending :
           [transactions[m] EXCEPT !.obsFreed = TRUE] \in Transactions
    BY DEF TypeOK, Transactions, Pending
  <1>3. transactions' \in [Mids -> Transactions \cup {None}]
    BY <1>1, <1>2 DEF TypeOK, Carriers
  <1>4. observations' \in [Ids -> [ObsIds -> Observations \cup {None}]]
    BY <1>1 DEF TypeOK
  <1>5. misuse' \subseteq Misuses
    BY <1>1 DEF TypeOK, Misuses
  <1>6. QED
    BY <1>3, <1>4, <1>5 DEF ObserveCancel, TypeOK
\* The steps that leave the four tables of the engine alone.
Idle == UNCHANGED <<clients, observations, transactions, nextMID, fate>>

LEMMA GoUndefinedIdle ==
    ASSUME GoUndefined
    PROVE  Idle /\ phase' = "undefined" /\ timeout' = timeout
  BY DEF GoUndefined, Idle

LEMMA NotifyIdle ==
    ASSUME NEW msg, Notify(msg)
    PROVE  Idle /\ phase' = "step" /\ timeout' = timeout /\ misuse' = misuse
  BY DEF Notify, Idle

LEMMA AnswerEffect ==
    ASSUME NEW msg, transactions[msg.mid] # None, AnswerTransaction(msg),
           NEW m, m = msg.mid, NEW t, t = transactions[m]
    PROVE  \/ /\ Idle /\ phase' \in {"step", "undefined"} /\ timeout' = timeout
              /\ misuse' \in {misuse, misuse \cup {"no callback"}}
           \/ /\ phase' = "step"
              /\ UNCHANGED <<clients, nextMID, timeout, misuse>>
              /\ transactions' = Removed({m}) /\ fate' = Reported({m})
              /\ ~StaleCallback(t)
              /\ \/ t.op # "observe" /\ UNCHANGED observations
                 \/ t.op = "observe" /\ observations' = WithoutObservations({t})
                 \/ /\ t.op = "observe"
                    /\ observations' = [observations EXCEPT
                          ![t.peer][t.obs].status = "REGISTERED"]
  <1>1. CASE Derails(t, msg)
    BY <1>1, GoUndefinedIdle DEF AnswerTransaction, AnswerWith
  <1>2. CASE ~Derails(t, msg) /\ ~FromPeer(t, msg)
    BY <1>2 DEF AnswerTransaction, AnswerWith, Idle
  <1>3. CASE ~Derails(t, msg) /\ FromPeer(t, msg)
    <2>1. ~StaleCallback(t)
      BY <1>3 DEF Derails
    <2>2. /\ DeliverAnswer(m, t, msg)
          /\ transactions' = Removed({m}) /\ fate' = Reported({m})
          /\ phase' = "step"
          /\ UNCHANGED <<clients, nextMID, timeout, misuse>>
      BY <1>3 DEF AnswerTransaction, AnswerWith
    <2>3. QED
      BY <2>1, <2>2 DEF DeliverAnswer
  <1>4. QED
    BY <1>1, <1>2, <1>3

LEMMA RemovedType ==
    ASSUME TypeOK, NEW ms
    PROVE  Removed(ms) \in [Mids -> Transactions \cup {None}]
  BY DEF Removed, TypeOK

LEMMA WithoutObservationsType ==
    ASSUME TypeOK, NEW ts
    PROVE  WithoutObservations(ts) \in [Ids -> [ObsIds -> Observations \cup {None}]]
  <1>1. \A id \in Ids : [o \in ObsIds |->
            IF \E t \in ts : Carries(t, id, o) THEN None ELSE observations[id][o]]
               \in [ObsIds -> Observations \cup {None}]
    BY DEF TypeOK
  <1>2. QED
    BY <1>1 DEF WithoutObservations

LEMMA ReceiveReplyType ==
    ASSUME IInv, NEW msg \in Replies, ReceiveReply(msg)
    PROVE  TypeOK'
  <1> DEFINE m == msg.mid
             t == transactions[m]
  <1>1. TypeOK /\ Shape /\ CarriedIsPending /\ m \in Mids
    BY InputAssumption DEF IInv, Structure
  <1>2. CASE Notify(msg)
    BY <1>1, <1>2, NotifyIdle DEF Idle, TypeOK
  <1>3. CASE AnswerTransaction(msg)
    <2>1. t # None /\ m \in Pending /\ t \in Transactions
      BY <1>1, <1>3 DEF AnswerTransaction, AnswerWith, Pending, TypeOK
    <2>2. CASE Idle /\ phase' \in {"step", "undefined"} /\ timeout' = timeout
                    /\ misuse' \in {misuse, misuse \cup {"no callback"}}
      BY <1>1, <2>2 DEF Idle, TypeOK, Misuses
    <2>3. CASE /\ phase' = "step"
               /\ UNCHANGED <<clients, nextMID, timeout, misuse>>
               /\ transactions' = Removed({m}) /\ fate' = Reported({m})
               /\ ~StaleCallback(t)
               /\ \/ t.op # "observe" /\ UNCHANGED observations
                  \/ t.op = "observe" /\ observations' = WithoutObservations({t})
                  \/ /\ t.op = "observe"
                     /\ observations' = [observations EXCEPT
                           ![t.peer][t.obs].status = "REGISTERED"]
      <3>1. transactions' \in [Mids -> Transactions \cup {None}]
        BY <1>1, <2>3, RemovedType
      <3>2. fate' \in [Mids -> Fates]
        BY <1>1, <2>3, ReportedType
      <3>3. observations' \in [Ids -> [ObsIds -> Observations \cup {None}]]
        <4>1. CASE t.op # "observe" /\ UNCHANGED observations
          BY <1>1, <4>1 DEF TypeOK
        <4>2. CASE observations' = WithoutObservations({t})
          BY <1>1, <4>2, WithoutObservationsType
        <4>3. CASE /\ t.op = "observe"
                   /\ observations' = [observations EXCEPT
                         ![t.peer][t.obs].status = "REGISTERED"]
          <5>1. t.peer \in Ids /\ t.obs \in ObsIds
            BY <1>1, <2>1, <4>3 DEF Shape, Transactions
          <5>2. Carries(t, t.peer, t.obs)
            BY <2>3, <4>3 DEF Carries, StaleCallback
          <5>3. observations[t.peer][t.obs] # None
            BY <1>1, <2>1, <5>1, <5>2 DEF CarriedIsPending
          <5>4. observations[t.peer][t.obs] \in Observations
            BY <1>1, <5>1, <5>3 DEF TypeOK
          <5>5. [observations[t.peer][t.obs] EXCEPT !.status = "REGISTERED"]
                   \in Observations
            BY <5>4 DEF Observations
          <5> DEFINE r == [observations[t.peer][t.obs] EXCEPT
                              !.status = "REGISTERED"]
          <5>6. observations' = [observations EXCEPT ![t.peer][t.obs] = r]
            BY <4>3
          <5> HIDE DEF r
          <5>7. QED
            BY <1>1, <5>1, <5>5, <5>6 DEF TypeOK, r
        <4>4. QED
          BY <2>3, <4>1, <4>2, <4>3
      <3>4. QED
        BY <1>1, <2>3, <3>1, <3>2, <3>3 DEF TypeOK
    <2>4. QED
      BY <1>3, <2>1, <2>2, <2>3, AnswerEffect
  <1>4. QED
    BY <1>2, <1>3 DEF ReceiveReply

\* A pass over the list that never uses freed memory.
CleanPass(noBuffer, noClock) ==
    LET touched == Touched(noBuffer)
        gone    == Gone(noBuffer, noClock)
        told    == Told(noBuffer, noClock)
    IN  /\ \A m \in touched : ~transactions[m].peerFreed
        /\ \A m \in told : ~StaleCallback(transactions[m])
        /\ transactions' = Walked(touched, gone, noClock)
        /\ observations' = WithoutObservations({transactions[m] : m \in told})
        /\ fate' = [m \in Mids |-> IF m \in gone \ told THEN "silent"
                                   ELSE Reported(told)[m]]
        /\ phase' = "select" /\ timeout' \in 1..SelectTimeout
        /\ UNCHANGED <<clients, nextMID, misuse>>

\* A pass that did, or read a payload that is gone; or the step that had no
\* clock.
BadPass ==
    /\ Idle /\ UNCHANGED <<timeout, misuse>>
    /\ phase' \in {"undefined", "closed"}

LEMMA StepCases ==
    ASSUME Lwm2mStep
    PROVE  \E noBuffer, noClock : BadPass \/ CleanPass(noBuffer, noClock)
  <1>a. CASE \/ GoUndefined
             \/ phase' = "closed"
                /\ UNCHANGED <<clients, observations, transactions, nextMID,
                               timeout, fate>>
    BY <1>a, GoUndefinedIdle DEF BadPass, Lwm2mStep, Idle
  <1>b. SUFFICES ASSUME Walk
                 PROVE  \E noBuffer, noClock : BadPass \/ CleanPass(noBuffer, noClock)
    BY <1>a DEF Lwm2mStep
  <1>1. PICK noBuffer, noClock :
           WalkList(Touched(noBuffer), Gone(noBuffer, noClock),
                    Told(noBuffer, noClock), noBuffer, noClock)
    BY <1>b DEF Walk
  <1> DEFINE touched == Touched(noBuffer)
             gone    == Gone(noBuffer, noClock)
             told    == Told(noBuffer, noClock)
  <1>2. misuse' = misuse
    BY DEF Lwm2mStep
  <1> HIDE DEF touched, gone, told
  <1>3. WalkList(touched, gone, told, noBuffer, noClock)
    BY <1>1 DEF touched, gone, told
  <1>4. CASE \/ \E m \in touched : transactions[m].peerFreed
             \/ \E m \in told : StaleCallback(transactions[m])
    <2>1. GoUndefined
      BY <1>3, <1>4 DEF WalkList
    <2>2. BadPass
      BY <1>2, <2>1, GoUndefinedIdle DEF BadPass
    <2>3. QED
      BY <2>2
  <1>5. CASE ~(\/ \E m \in touched : transactions[m].peerFreed
               \/ \E m \in told : StaleCallback(transactions[m]))
    <2>1. /\ transactions' = Walked(touched, gone, noClock)
          /\ observations' = WithoutObservations({transactions[m] : m \in told})
          /\ fate' = [m \in Mids |-> IF m \in gone \ told THEN "silent"
                                     ELSE Reported(told)[m]]
          /\ phase' = "select" /\ timeout' \in 1..SelectTimeout
          /\ UNCHANGED <<clients, nextMID>>
      BY <1>3, <1>5 DEF WalkList
    <2>2. CleanPass(noBuffer, noClock)
      BY <1>2, <1>5, <2>1 DEF touched, gone, told, CleanPass
    <2>3. QED
      BY <2>2
  <1>6. QED
    BY <1>4, <1>5

LEMMA WalkedType ==
    ASSUME TypeOK, NEW noBuffer, NEW noClock
    PROVE  LET gone == Gone(noBuffer, noClock)
               after == Walked(Touched(noBuffer), gone, noClock)
           IN  /\ after \in [Mids -> Transactions \cup {None}]
               /\ \A m \in Mids : after[m] # None =>
                     /\ m \in Pending /\ m \notin gone
                     /\ SameRequest(after[m], transactions[m])
               /\ \A m \in Pending \ gone : after[m] # None
  <1> DEFINE touched == Touched(noBuffer)
             gone == Gone(noBuffer, noClock)
             after == Walked(touched, gone, noClock)
  <1>1. ASSUME NEW m \in Mids
        PROVE  /\ m \in gone => after[m] = None
               /\ m \in touched \ gone =>
                     /\ after[m] \in Transactions
                     /\ SameRequest(after[m], transactions[m])
               /\ m \notin touched /\ m \notin gone => after[m] = transactions[m]
    <2>1. CASE m \in gone
      BY <2>1 DEF Walked, Removed
    <2>2. CASE m \in touched \ gone
      <3>1. transactions[m] \in Transactions
        BY <2>2 DEF Touched, Pending, TypeOK
      <3>2. ~GivesUp(transactions[m].timer, m \notin noClock)
        BY <2>2 DEF Gone
      <3>3. after[m] = SentAgain(transactions[m], m \notin noClock)
        BY <2>2 DEF Walked
      <3> DEFINE ok == m \notin noClock
      <3>4. ok \in BOOLEAN
        OBVIOUS
      <3> HIDE DEF ok
      <3>5. after[m] = SentAgain(transactions[m], ok) /\ ~GivesUp(transactions[m].timer, ok)
        BY <3>2, <3>3 DEF ok
      <3>6. QED
        BY <2>2, <3>1, <3>4, <3>5, SentAgainType
    <2>3. CASE m \notin touched /\ m \notin gone
      BY <2>3 DEF Walked
    <2>4. QED
      BY <2>1, <2>2, <2>3
  <1>2. gone \subseteq touched /\ touched \subseteq Pending
    BY DEF Gone, Touched
  <1>3. after = [m \in Mids |-> after[m]]
    BY DEF Walked
  <1>4. \A m \in Mids : after[m] # None =>
           /\ m \in Pending /\ m \notin gone
           /\ SameRequest(after[m], transactions[m])
    BY <1>1, <1>2 DEF Pending, SameRequest
  <1>5. \A m \in Mids : after[m] \in Transactions \cup {None}
    BY <1>1, <1>2 DEF TypeOK
  <1>6. \A m \in Pending \ gone : after[m] # None
    BY <1>1, NoneAssumption DEF Pending
  <1> HIDE DEF after
  <1>7. after \in [Mids -> Transactions \cup {None}]
    BY <1>3, <1>5
  <1>8. QED
    BY <1>4, <1>6, <1>7 DEF after

LEMMA StepType ==
    ASSUME TypeOK, Lwm2mStep
    PROVE  TypeOK'
  <1>1. PICK noBuffer, noClock : BadPass \/ CleanPass(noBuffer, noClock)
    BY StepCases
  <1>2. CASE BadPass
    BY <1>2 DEF BadPass, Idle, TypeOK
  <1>3. CASE CleanPass(noBuffer, noClock)
    <2>1. transactions' \in [Mids -> Transactions \cup {None}]
      BY <1>3, WalkedType DEF CleanPass
    <2>2. observations' \in [Ids -> [ObsIds -> Observations \cup {None}]]
      BY <1>3, WithoutObservationsType DEF CleanPass
    <2>3. fate' \in [Mids -> Fates]
      <3> DEFINE told == Told(noBuffer, noClock)
                 gone == Gone(noBuffer, noClock)
      <3>1. Reported(told) \in [Mids -> Fates]
        BY ReportedType
      <3>2. fate' = [m \in Mids |-> IF m \in gone \ told THEN "silent"
                                    ELSE Reported(told)[m]]
        BY <1>3, Zenon DEF CleanPass
      <3> HIDE DEF told, gone
      <3>3. QED
        BY <3>1, <3>2 DEF Fates
    <2>4. /\ phase' = "select" /\ timeout' \in 1..SelectTimeout
          /\ UNCHANGED <<clients, nextMID, misuse>>
      BY <1>3 DEF CleanPass
    <2>5. timeout' \in 0..SelectTimeout
      BY <2>4, BoundsAssumption
    <2>6. QED
      BY <2>1, <2>2, <2>3, <2>4, <2>5 DEF TypeOK
  <1>4. QED
    BY <1>1, <1>2, <1>3

LEMMA LoopType ==
    ASSUME TypeOK, Wake \/ Tick \/ Close
    PROVE  TypeOK'
  <1>1. CASE Wake
    BY <1>1 DEF Wake, TypeOK
  <1>2. CASE Tick
    <2>1. \A m \in Mids : transactions[m] # None =>
             Older(transactions[m]) \in Transactions
      BY OlderType DEF TypeOK
    <2>2. transactions' = [m \in Mids |-> IF transactions[m] = None THEN None
                                          ELSE Older(transactions[m])]
      BY <1>2 DEF Tick
    <2>3. transactions' \in [Mids -> Transactions \cup {None}]
      BY <2>1, <2>2
    <2>4. timeout' \in 0..SelectTimeout
      BY <1>2, BoundsAssumption DEF Tick, TypeOK
    <2>5. QED
      BY <1>2, <2>3, <2>4 DEF Tick, TypeOK
  <1>3. CASE Close
    BY <1>3 DEF Close, TypeOK
  <1>4. QED
    BY <1>1, <1>2, <1>3
-----------------------------------------------------------------------------
(* The structural part of the invariant                                     *)

LEMMA IdleStructure ==
    ASSUME Structure, UNCHANGED <<clients, observations, transactions, nextMID>>
    PROVE  Structure'
  BY DEF Structure, Shape, CarriedIsPending, CarrierIsUnique, PendingIsCarried,
         PeersRegistered, ObservationsRegistered, Pending

LEMMA RegisterStructure ==
    ASSUME IInv, NEW from \in Addrs, NEW name \in Names \cup {None},
           NEW block2 \in BOOLEAN, Register(from, 0, name, block2)
    PROVE  Structure'
  <1>1. UNCHANGED <<observations, transactions, nextMID>>
    BY DEF Register
  <1>2. \A i \in Ids : clients[i] # None => clients'[i] # None
    <2>1. CASE UNCHANGED clients
      BY <2>1
    <2>2. CASE \E id \in Ids : /\ name # None
                               /\ clients' = [clients EXCEPT
                                     ![id] = [name |-> name, addr |-> from]]
      <3>1. name # None => [name |-> name, addr |-> from] \in Clients
        BY DEF Clients
      <3>2. QED
        BY <2>2, <3>1, NoneAssumption DEF IInv, TypeOK
    <2>3. QED
      BY <2>1, <2>2 DEF Register
  <1>3. \A m \in Pending : transactions[m].peer \in Ids
    BY DEF IInv, TypeOK, Pending, Transactions
  <1>4. QED
    BY <1>1, <1>2, <1>3 DEF IInv, Structure, Shape, CarriedIsPending,
       CarrierIsUnique, PendingIsCarried, PeersRegistered,
       ObservationsRegistered, Pending

\* The fields of a transaction whose pointers were marked as freed.
LEMMA PeerFreedFields ==
    ASSUME NEW t \in Transactions, NEW u,
           u = [t EXCEPT !.peerFreed = TRUE, !.obsFreed = TRUE]
    PROVE  /\ u # None
           /\ u.op = t.op /\ u.peer = t.peer /\ u.obs = t.obs
           /\ u.uri = t.uri /\ u.cb = t.cb /\ u.peerFreed /\ u.obsFreed
  <1>1. u \in Transactions
    BY DEF Transactions
  <1>2. u # None
    BY <1>1, NoneAssumption
  <1>3. u.op = t.op /\ u.peer = t.peer /\ u.obs = t.obs
    BY DEF Transactions
  <1>4. u.uri = t.uri /\ u.cb = t.cb /\ u.peerFreed /\ u.obsFreed
    BY DEF Transactions
  <1>5. QED
    BY <1>2, <1>3, <1>4

LEMMA ObsFreedFields ==
    ASSUME NEW t \in Transactions, NEW u, u = [t EXCEPT !.obsFreed = TRUE]
    PROVE  /\ u # None
           /\ u.op = t.op /\ u.peer = t.peer /\ u.obs = t.obs
           /\ u.uri = t.uri /\ u.cb = t.cb
           /\ u.peerFreed = t.peerFreed /\ u.obsFreed
  <1>1. u \in Transactions
    BY DEF Transactions
  <1>2. u # None
    BY <1>1, NoneAssumption
  <1>3. u.op = t.op /\ u.peer = t.peer /\ u.obs = t.obs
    BY DEF Transactions
  <1>4. u.uri = t.uri /\ u.cb = t.cb /\ u.peerFreed = t.peerFreed /\ u.obsFreed
    BY DEF Transactions
  <1>5. QED
    BY <1>2, <1>3, <1>4

LEMMA DeregisterStructure ==
    ASSUME IInv, NEW target \in Ids \cup {None, MaxClients},
           NEW from \in Addrs, NEW block2 \in BOOLEAN,
           Deregister(from, 0, target, block2)
    PROVE  Structure'
  <1> DEFINE id == IF target = None THEN 0 ELSE target
             T == PendingWith(id)
  <1>1. CASE id \notin Ids \/ clients[id] = None
    <2>1. UNCHANGED <<clients, observations, transactions, nextMID>>
      BY <1>1, Zenon DEF Deregister
    <2>2. QED
      BY <2>1, IdleStructure DEF IInv
  <1>2. CASE ~(id \notin Ids \/ clients[id] = None)
    <2>1. /\ clients' = [clients EXCEPT ![id] = None]
          /\ observations' = [observations EXCEPT ![id] = [o \in ObsIds |-> None]]
          /\ transactions' = [m \in Mids |->
                IF m \in T
                THEN [transactions[m] EXCEPT !.peerFreed = TRUE, !.obsFreed = TRUE]
                ELSE transactions[m]]
          /\ nextMID' = nextMID
      BY <1>2, Zenon DEF Deregister
    <2>2. id \in Ids
      BY <1>2
    <2> HIDE DEF id
    <2>3. TypeOK /\ T = {m \in Pending : /\ transactions[m].peer = id
                                         /\ ~transactions[m].peerFreed}
      BY DEF PendingWith, IInv
    <2> HIDE DEF T
    <2>4. ASSUME NEW m \in Pending
          PROVE  transactions[m] \in Transactions
      BY <2>3 DEF TypeOK, Pending
    <2>5. /\ Pending' = Pending
          /\ \A m \in Pending :
                LET t == transactions[m]
                    u == transactions'[m]
                IN  /\ u.op = t.op /\ u.peer = t.peer /\ u.obs = t.obs /\ u.uri = t.uri
                    /\ u.cb = t.cb
                    /\ m \in T => u.peerFreed /\ u.obsFreed
                    /\ m \notin T => u = t
      <3>1. ASSUME NEW m \in T
            PROVE  /\ m \in Pending /\ transactions'[m] # None
                   /\ LET t == transactions[m]
                          u == transactions'[m]
                      IN  /\ u.op = t.op /\ u.peer = t.peer /\ u.obs = t.obs
                          /\ u.uri = t.uri /\ u.cb = t.cb
                          /\ u.peerFreed /\ u.obsFreed
        <4>1. m \in Pending /\ transactions[m] \in Transactions
          BY <2>3, <2>4
        <4>2. transactions'[m] =
                 [transactions[m] EXCEPT !.peerFreed = TRUE, !.obsFreed = TRUE]
          BY <2>1, <4>1 DEF Pending
        <4> DEFINE t == transactions[m]
                   u == transactions'[m]
        <4>3. t \in Transactions
          BY <4>1
        <4>4. u = [t EXCEPT !.peerFreed = TRUE, !.obsFreed = TRUE]
          BY <4>2
        <4> HIDE DEF t, u
        <4>5. /\ u # None
              /\ u.op = t.op /\ u.peer = t.peer /\ u.obs = t.obs
              /\ u.uri = t.uri /\ u.cb = t.cb /\ u.peerFreed /\ u.obsFreed
          BY <4>3, <4>4, PeerFreedFields
        <4>6. QED
          BY <4>1, <4>5 DEF t, u
      <3>2. \A m \in Mids \ T : transactions'[m] = transactions[m]
        BY <2>1
      <3>3. QED
        BY <3>1, <3>2 DEF Pending
    <2>6. \A i \in Ids, o \in ObsIds :
             /\ i # id => observations'[i][o] = observations[i][o]
             /\ i = id => observations'[i][o] = None
      BY <2>1, <2>3 DEF TypeOK
    <2>7. \A i \in Ids : i # id => clients'[i] = clients[i]
      BY <2>1, <2>3 DEF TypeOK
    <2>8. \A m \in Pending \ T : ~transactions[m].obsFreed =>
                                    transactions[m].peer # id
      BY <2>3 DEF IInv, Structure, Shape
    <2>9. Shape'
      <3>1. SUFFICES ASSUME NEW m \in Pending'
                     PROVE  /\ m < nextMID'
                            /\ transactions'[m].op = "observe" =>
                                  /\ transactions'[m].obs \in ObsIds
                                  /\ transactions'[m].cb
                            /\ \/ transactions'[m].obsFreed
                               \/ ~transactions'[m].peerFreed
        BY DEF Shape
      <3>2. m \in Pending
        BY <2>5
      <3>3. /\ m < nextMID
            /\ transactions[m].op = "observe" =>
                  transactions[m].obs \in ObsIds /\ transactions[m].cb
            /\ transactions[m].obsFreed \/ ~transactions[m].peerFreed
        BY <3>2 DEF IInv, Structure, Shape
      <3>4. CASE m \in T
        BY <2>1, <2>5, <3>2, <3>3, <3>4
      <3>5. CASE m \notin T
        BY <2>1, <2>5, <3>2, <3>3, <3>5
      <3>6. QED
        BY <3>4, <3>5
    <2>10. CarriedIsPending'
      BY <2>5, <2>6, <2>8 DEF IInv, Structure, CarriedIsPending, Carries
    <2>11. CarrierIsUnique'
      BY <2>5 DEF IInv, Structure, CarrierIsUnique, Carries
    <2>12. PendingIsCarried'
      <3>1. SUFFICES ASSUME NEW i \in Ids, NEW o \in ObsIds,
                            observations'[i][o] # None,
                            observations'[i][o].status = "PENDING"
                     PROVE  \E m \in Pending' : Carries(transactions'[m], i, o)
        BY DEF PendingIsCarried
      <3>2. i # id /\ observations[i][o] = observations'[i][o]
        BY <2>6, <3>1
      <3>3. PICK m \in Pending : Carries(transactions[m], i, o)
        BY <3>1, <3>2 DEF IInv, Structure, PendingIsCarried
      <3>4. m \notin T
        BY <2>3, <3>2, <3>3 DEF Carries
      <3>5. QED
        BY <2>5, <3>3, <3>4
    <2>13. PeersRegistered'
      BY <2>3, <2>4, <2>5, <2>7 DEF IInv, Structure, PeersRegistered, Transactions
    <2>14. ObservationsRegistered'
      BY <2>6, <2>7 DEF IInv, Structure, ObservationsRegistered
    <2>15. QED
      BY <2>9, <2>10, <2>11, <2>12, <2>13, <2>14 DEF Structure
  <1>3. QED
    BY <1>1, <1>2
\* A request enters the list together with the observations obs.
LEMMA LaunchStructure ==
    ASSUME IInv, NEW t \in Transactions, nextMID < MaxMid,
           t.op = "observe" => t.obs \in ObsIds /\ t.cb, ~t.peerFreed, ~t.obsFreed,
           clients[t.peer] # None, UNCHANGED clients,
           ~GivesUp(t.timer, TRUE),
           NEW obs \in [Ids -> [ObsIds -> Observations \cup {None}]],
           \A id \in Ids, o \in ObsIds :
              IF Carries(t, id, o)
              THEN /\ observations[id][o] = None
                   /\ obs[id][o] # None /\ obs[id][o].status = "PENDING"
                   /\ obs[id][o].uri = t.uri
              ELSE obs[id][o] = observations[id][o],
           Launch(t, obs)
    PROVE  Structure'
  <1>1. /\ TypeOK /\ nextMID \in Mids /\ transactions[nextMID] = None
        /\ nextMID' = nextMID + 1
    <2>1. TypeOK /\ nextMID \in Mids
      BY BoundsAssumption DEF IInv, TypeOK, Mids
    <2>2. nextMID \notin Pending
      BY <2>1 DEF IInv, Structure, Shape, Mids
    <2>3. QED
      BY <2>1, <2>2 DEF Pending, Launch
  <1>2. CASE UNCHANGED <<transactions, observations>>
    BY <1>1, <1>2 DEF IInv, Structure, Shape, CarriedIsPending, CarrierIsUnique,
       PendingIsCarried, PeersRegistered, ObservationsRegistered, Pending, Mids, TypeOK
  <1>3. ASSUME NEW u \in Transactions, SameRequest(u, t), observations' = obs,
               transactions' = [transactions EXCEPT ![nextMID] = u]
        PROVE  Structure'
    <2>1. /\ Pending' = Pending \cup {nextMID}
          /\ nextMID \notin Pending
          /\ \A m \in Pending : transactions'[m] = transactions[m]
          /\ transactions'[nextMID] = u
      BY <1>1, <1>3, NoneAssumption DEF Pending, TypeOK
    <2>2. \A id \in Ids, o \in ObsIds : Carries(u, id, o) <=> Carries(t, id, o)
      BY <1>3 DEF Carries, SameRequest
    <2>3. \A m \in Pending, id \in Ids, o \in ObsIds :
             Carries(transactions[m], id, o) => ~Carries(t, id, o)
      BY DEF IInv, Structure, CarriedIsPending
    <2>4. Shape'
      <3>1. \A m \in Pending : m < nextMID + 1
        BY <1>1 DEF IInv, Structure, Shape, Mids, Pending
      <3>2. nextMID < nextMID + 1
        BY <1>1 DEF Mids
      <3>3. QED
        BY <1>1, <1>3, <2>1, <3>1, <3>2
           DEF IInv, Structure, Shape, SameRequest
    <2>5. CarriedIsPending'
      <3>1. SUFFICES ASSUME NEW m \in Pending', NEW id \in Ids, NEW o \in ObsIds,
                            Carries(transactions'[m], id, o)
                     PROVE  /\ obs[id][o] # None
                            /\ obs[id][o].status = "PENDING"
                            /\ obs[id][o].uri = transactions'[m].uri
        BY <1>3 DEF CarriedIsPending
      <3>2. CASE m = nextMID
        BY <1>3, <2>1, <2>2, <3>1, <3>2 DEF SameRequest
      <3>3. CASE m \in Pending
        BY <2>1, <2>3, <3>1, <3>3 DEF IInv, Structure, CarriedIsPending
      <3>4. QED
        BY <2>1, <3>2, <3>3
    <2>6. CarrierIsUnique'
      BY <2>1, <2>2, <2>3 DEF IInv, Structure, CarrierIsUnique
    <2>7. PendingIsCarried'
      <3>1. SUFFICES ASSUME NEW id \in Ids, NEW o \in ObsIds,
                            obs[id][o] # None, obs[id][o].status = "PENDING"
                     PROVE  \E m \in Pending' : Carries(transactions'[m], id, o)
        BY <1>3 DEF PendingIsCarried
      <3>2. CASE Carries(t, id, o)
        BY <2>1, <2>2, <3>2
      <3>3. CASE ~Carries(t, id, o)
        <4>1. PICK m \in Pending : Carries(transactions[m], id, o)
          BY <3>1, <3>3 DEF IInv, Structure, PendingIsCarried
        <4>2. QED
          BY <2>1, <4>1
      <3>4. QED
        BY <3>2, <3>3
    <2>8. PeersRegistered'
      BY <1>3, <2>1 DEF IInv, Structure, PeersRegistered, SameRequest
    <2>9. ObservationsRegistered'
      <3>1. SUFFICES ASSUME NEW id \in Ids, NEW o \in ObsIds, obs[id][o] # None
                     PROVE  clients[id] # None
        BY <1>3 DEF ObservationsRegistered
      <3>2. CASE Carries(t, id, o)
        BY <3>2 DEF Carries
      <3>3. CASE ~Carries(t, id, o)
        BY <3>1, <3>3 DEF IInv, Structure, ObservationsRegistered
      <3>4. QED
        BY <3>2, <3>3
    <2>10. QED
      BY <2>4, <2>5, <2>6, <2>7, <2>8, <2>9 DEF Structure
  <1>4. CASE observations' = obs /\ transactions' = [transactions EXCEPT ![nextMID] = t]
    BY <1>3, <1>4 DEF SameRequest
  <1>5. CASE /\ observations' = obs
             /\ transactions' = [transactions EXCEPT ![nextMID] = SentAgain(t, TRUE)]
    BY <1>3, <1>5, SentAgainType
  <1>6. QED
    BY <1>2, <1>4, <1>5 DEF Launch

LEMMA RefuseStructure ==
    ASSUME IInv, Refuse, UNCHANGED clients
    PROVE  Structure'
  <1>1. UNCHANGED <<clients, observations, transactions>> /\ nextMID' = nextMID + 1
    BY DEF Refuse
  <1>2. \A m \in Pending : m < nextMID + 1
    BY DEF IInv, Structure, Shape, Pending, Mids, TypeOK
  <1>3. QED
    BY <1>1, <1>2 DEF IInv, Structure, Shape, CarriedIsPending, CarrierIsUnique,
       PendingIsCarried, PeersRegistered, ObservationsRegistered, Pending

LEMMA DmRequestStructure ==
    ASSUME IInv, NEW op \in Ops, NEW id \in Ids, NEW u \in Uris,
           NEW cb \in Callbacks, DmRequest(op, id, u, cb)
    PROVE  Structure'
  <1>1. CASE Refuse
    BY <1>1, RefuseStructure DEF DmRequest
  <1>2. CASE Launch(NewTransaction(op, id, None, u, cb), observations)
    <2> DEFINE t == NewTransaction(op, id, None, u, cb)
    <2>1. t \in Transactions /\ ~GivesUp(t.timer, TRUE)
      BY NewTransactionType, InputAssumption
    <2>2. t.op # "observe" /\ t.peer = id /\ ~t.peerFreed /\ ~t.obsFreed
      BY DEF DmRequest, DmOperations, NewTransaction
    <2>3. /\ clients[id] # None /\ UNCHANGED clients /\ nextMID < MaxMid
          /\ Launch(t, observations)
      BY <1>2 DEF DmRequest
    <2> HIDE DEF t
    <2>4. \A i \in Ids, o \in ObsIds : ~Carries(t, i, o)
      BY <2>2 DEF Carries
    <2>5. observations \in [Ids -> [ObsIds -> Observations \cup {None}]]
      BY DEF IInv, TypeOK
    <2>6. QED
      BY <2>1, <2>2, <2>3, <2>4, <2>5, LaunchStructure
  <1>3. QED
    BY <1>1, <1>2 DEF DmRequest

LEMMA ObserveStructure ==
    ASSUME IInv, NEW id \in Ids, NEW u \in Uris, Observe(id, u)
    PROVE  Structure'
  <1>1. CASE Refuse
    BY <1>1, RefuseStructure DEF Observe
  <1>2. ASSUME NEW o \in ObsIds, IsNewId(o, observations[id]),
               Launch(NewTransaction("observe", id, o, u, TRUE),
                      [observations EXCEPT ![id][o] =
                          [uri |-> u, status |-> "PENDING"]])
        PROVE  Structure'
    <2> DEFINE t   == NewTransaction("observe", id, o, u, TRUE)
               new == [uri |-> u, status |-> "PENDING"]
               obs == [observations EXCEPT ![id][o] = new]
    <2>1. t \in Transactions /\ ~GivesUp(t.timer, TRUE)
      BY NewTransactionType DEF Operations
    <2>2. /\ t.op = "observe" /\ t.peer = id /\ t.obs = o /\ t.uri = u /\ t.cb
          /\ ~t.peerFreed /\ ~t.obsFreed
      BY DEF NewTransaction
    <2>3. new \in Observations /\ new.status = "PENDING" /\ new.uri = u
      BY DEF Observations
    <2>4. observations \in [Ids -> [ObsIds -> Observations \cup {None}]]
      BY DEF IInv, TypeOK
    <2>5. /\ clients[id] # None /\ UNCHANGED clients /\ nextMID < MaxMid
          /\ Launch(t, obs) /\ observations[id][o] = None
      BY <1>2 DEF Observe, IsNewId
    <2> HIDE DEF t, new
    <2>6. obs \in [Ids -> [ObsIds -> Observations \cup {None}]]
      BY <2>3, <2>4
    <2>7. \A i \in Ids, p \in ObsIds :
             IF i = id /\ p = o THEN obs[i][p] = new
             ELSE obs[i][p] = observations[i][p]
      BY <2>4
    <2>8. \A i \in Ids, p \in ObsIds : Carries(t, i, p) <=> i = id /\ p = o
      BY <2>2 DEF Carries
    <2>9. new # None
      BY <2>3, NoneAssumption
    <2> HIDE DEF obs
    <2>10. \A i \in Ids, p \in ObsIds :
              IF Carries(t, i, p)
              THEN /\ observations[i][p] = None
                   /\ obs[i][p] # None /\ obs[i][p].status = "PENDING"
                   /\ obs[i][p].uri = t.uri
              ELSE obs[i][p] = observations[i][p]
      BY <2>2, <2>3, <2>5, <2>7, <2>8, <2>9
    <2>11. QED
      BY <2>1, <2>2, <2>5, <2>6, <2>10, LaunchStructure
  <1>3. QED
    BY <1>1, <1>2 DEF Observe
\* Transactions leave the list, and with each goes the observation it carried,
\* or the observation stops waiting.
LEMMA RemovalStructure ==
    ASSUME IInv, UNCHANGED <<clients, nextMID>>, Pending' \subseteq Pending,
           \A m \in Pending' : SameRequest(transactions'[m], transactions[m]),
           \A id \in Ids, o \in ObsIds :
              IF \E m \in Pending \ Pending' : Carries(transactions[m], id, o)
              THEN \/ observations'[id][o] = None
                   \/ observations'[id][o].status # "PENDING"
              ELSE observations'[id][o] = observations[id][o]
    PROVE  Structure'
  <1>1. \A m \in Pending', id \in Ids, o \in ObsIds :
           Carries(transactions'[m], id, o) <=> Carries(transactions[m], id, o)
    BY DEF Carries, SameRequest
  <1>2. Shape'
    BY DEF IInv, Structure, Shape, SameRequest
  <1>3. CarriedIsPending'
    <2>1. SUFFICES ASSUME NEW m \in Pending', NEW id \in Ids, NEW o \in ObsIds,
                          Carries(transactions'[m], id, o)
                   PROVE  /\ observations'[id][o] # None
                          /\ observations'[id][o].status = "PENDING"
                          /\ observations'[id][o].uri = transactions'[m].uri
      BY DEF CarriedIsPending
    <2>2. m \in Pending /\ Carries(transactions[m], id, o)
      BY <1>1, <2>1
    <2>3. ~ \E n \in Pending \ Pending' : Carries(transactions[n], id, o)
      BY <2>1, <2>2 DEF IInv, Structure, CarrierIsUnique
    <2>4. observations'[id][o] = observations[id][o]
      BY <2>3
    <2>5. QED
      BY <2>2, <2>4 DEF IInv, Structure, CarriedIsPending, SameRequest
  <1>4. CarrierIsUnique'
    BY <1>1 DEF IInv, Structure, CarrierIsUnique
  <1>5. PendingIsCarried'
    <2>1. SUFFICES ASSUME NEW id \in Ids, NEW o \in ObsIds,
                          observations'[id][o] # None,
                          observations'[id][o].status = "PENDING"
                   PROVE  \E m \in Pending' : Carries(transactions'[m], id, o)
      BY DEF PendingIsCarried
    <2>2. ~ \E n \in Pending \ Pending' : Carries(transactions[n], id, o)
      BY <2>1
    <2>3. observations'[id][o] = observations[id][o]
      BY <2>2
    <2>4. PICK m \in Pending : Carries(transactions[m], id, o)
      BY <2>1, <2>3 DEF IInv, Structure, PendingIsCarried
    <2>5. QED
      BY <1>1, <2>2, <2>4
  <1>6. PeersRegistered'
    BY DEF IInv, Structure, PeersRegistered, SameRequest
  <1>7. ObservationsRegistered'
    <2>1. SUFFICES ASSUME NEW id \in Ids, NEW o \in ObsIds,
                          observations'[id][o] # None
                   PROVE  clients[id] # None
      BY DEF ObservationsRegistered
    <2>2. observations[id][o] # None
      BY <2>1 DEF IInv, Structure, CarriedIsPending
    <2>3. QED
      BY <2>2 DEF IInv, Structure, ObservationsRegistered
  <1>8. QED
    BY <1>2, <1>3, <1>4, <1>5, <1>6, <1>7 DEF Structure

LEMMA ObserveCancelStructure ==
    ASSUME IInv, NEW id \in Ids, NEW u \in Uris, ObserveCancel(id, u)
    PROVE  Structure'
  <1>1. PICK o \in ObsIds :
           /\ observations' = [observations EXCEPT ![id][o] = None]
           /\ transactions' = [m \in Mids |->
                 IF m \in Carriers(id, o)
                 THEN [transactions[m] EXCEPT !.obsFreed = TRUE]
                 ELSE transactions[m]]
           /\ UNCHANGED <<clients, nextMID>>
    BY DEF ObserveCancel
  <1> DEFINE T == Carriers(id, o)
  <1>2. /\ TypeOK /\ T \subseteq Pending
        /\ T = {m \in Pending : Carries(transactions[m], id, o)}
        /\ \A m \in Pending : transactions[m] \in Transactions
    BY DEF Carriers, IInv, TypeOK, Pending
  <1> HIDE DEF T
  <1>3. /\ Pending' = Pending
        /\ \A m \in Pending :
              LET t == transactions[m]
                  v == transactions'[m]
              IN  /\ v.op = t.op /\ v.peer = t.peer /\ v.obs = t.obs
                  /\ v.uri = t.uri /\ v.cb = t.cb /\ v.peerFreed = t.peerFreed
                  /\ m \in T => v.obsFreed
                  /\ m \notin T => v = t
    <2>1. ASSUME NEW m \in T
          PROVE  /\ m \in Pending /\ transactions'[m] # None
                 /\ LET t == transactions[m]
                        v == transactions'[m]
                    IN  /\ v.op = t.op /\ v.peer = t.peer /\ v.obs = t.obs
                        /\ v.uri = t.uri /\ v.cb = t.cb
                        /\ v.peerFreed = t.peerFreed /\ v.obsFreed
      <3>1. m \in Pending /\ transactions[m] \in Transactions
        BY <1>2
      <3>2. transactions'[m] = [transactions[m] EXCEPT !.obsFreed = TRUE]
        BY <1>1, <3>1 DEF Pending, T
      <3> DEFINE t == transactions[m]
                 v == transactions'[m]
      <3>3. t \in Transactions
        BY <3>1
      <3>4. v = [t EXCEPT !.obsFreed = TRUE]
        BY <3>2
      <3> HIDE DEF t, v
      <3>5. /\ v # None
            /\ v.op = t.op /\ v.peer = t.peer /\ v.obs = t.obs
            /\ v.uri = t.uri /\ v.cb = t.cb
            /\ v.peerFreed = t.peerFreed /\ v.obsFreed
        BY <3>3, <3>4, ObsFreedFields
      <3>6. QED
        BY <3>1, <3>5 DEF t, v
    <2>2. \A m \in Mids \ T : transactions'[m] = transactions[m]
      BY <1>1 DEF T
    <2>3. QED
      BY <2>1, <2>2 DEF Pending
  <1>4. \A i \in Ids, p \in ObsIds :
           IF i = id /\ p = o THEN observations'[i][p] = None
           ELSE observations'[i][p] = observations[i][p]
    BY <1>1, <1>2 DEF TypeOK
  <1>5. Shape'
    <2>1. SUFFICES ASSUME NEW m \in Pending'
                   PROVE  /\ m < nextMID'
                          /\ transactions'[m].op = "observe" =>
                                /\ transactions'[m].obs \in ObsIds
                                /\ transactions'[m].cb
                          /\ \/ transactions'[m].obsFreed
                             \/ ~transactions'[m].peerFreed
      BY DEF Shape
    <2>2. m \in Pending
      BY <1>3
    <2>3. /\ m < nextMID
          /\ transactions[m].op = "observe" =>
                transactions[m].obs \in ObsIds /\ transactions[m].cb
          /\ transactions[m].obsFreed \/ ~transactions[m].peerFreed
      BY <2>2 DEF IInv, Structure, Shape
    <2>4. nextMID' = nextMID
      BY <1>1
    <2>5. CASE m \in T
      BY <1>3, <2>2, <2>3, <2>4, <2>5
    <2>6. CASE m \notin T
      BY <1>3, <2>2, <2>3, <2>4, <2>6
    <2>7. QED
      BY <2>5, <2>6
  <1>6. CarriedIsPending'
    BY <1>2, <1>3, <1>4 DEF IInv, Structure, CarriedIsPending, Carries
  <1>7. CarrierIsUnique'
    BY <1>3 DEF IInv, Structure, CarrierIsUnique, Carries
  <1>8. PendingIsCarried'
    <2>1. SUFFICES ASSUME NEW i \in Ids, NEW p \in ObsIds,
                          observations'[i][p] # None,
                          observations'[i][p].status = "PENDING"
                   PROVE  \E m \in Pending' : Carries(transactions'[m], i, p)
      BY DEF PendingIsCarried
    <2>2. ~(i = id /\ p = o) /\ observations[i][p] = observations'[i][p]
      BY <1>4, <2>1
    <2>3. PICK m \in Pending : Carries(transactions[m], i, p)
      BY <2>1, <2>2 DEF IInv, Structure, PendingIsCarried
    <2>4. m \notin T
      BY <1>2, <2>2, <2>3 DEF Carries
    <2>5. QED
      BY <1>3, <2>3, <2>4
  <1>9. PeersRegistered'
    <2>1. SUFFICES ASSUME NEW m \in Pending', ~transactions'[m].peerFreed
                   PROVE  clients'[transactions'[m].peer] # None
      BY DEF PeersRegistered
    <2>2. /\ m \in Pending /\ ~transactions[m].peerFreed
          /\ transactions'[m].peer = transactions[m].peer
      BY <1>3, <2>1
    <2>3. clients[transactions[m].peer] # None
      BY <2>2 DEF IInv, Structure, PeersRegistered
    <2>4. clients' = clients
      BY <1>1
    <2>5. QED
      BY <2>2, <2>3, <2>4
  <1>10. ObservationsRegistered'
    BY <1>1, <1>4 DEF IInv, Structure, ObservationsRegistered
  <1>11. QED
    BY <1>5, <1>6, <1>7, <1>8, <1>9, <1>10 DEF Structure

LEMMA ReceiveReplyStructure ==
    ASSUME IInv, NEW msg \in Replies, ReceiveReply(msg)
    PROVE  Structure'
  <1> DEFINE m == msg.mid
             t == transactions[m]
  <1>1. TypeOK /\ m \in Mids
    BY InputAssumption DEF IInv
  <1>2. CASE Notify(msg)
    BY <1>2, NotifyIdle, IdleStructure DEF Idle, IInv
  <1>3. CASE AnswerTransaction(msg)
    <2>1. t # None /\ m \in Pending /\ t \in Transactions
      BY <1>1, <1>3 DEF AnswerTransaction, AnswerWith, Pending, TypeOK
    <2>2. CASE Idle
      BY <2>2, IdleStructure DEF Idle, IInv
    <2>3. CASE /\ UNCHANGED <<clients, nextMID>>
               /\ transactions' = Removed({m})
               /\ ~StaleCallback(t)
               /\ \/ t.op # "observe" /\ UNCHANGED observations
                  \/ t.op = "observe" /\ observations' = WithoutObservations({t})
                  \/ /\ t.op = "observe"
                     /\ observations' = [observations EXCEPT
                           ![t.peer][t.obs].status = "REGISTERED"]
      <3>1. /\ Pending' = Pending \ {m}
            /\ \A n \in Pending' : transactions'[n] = transactions[n]
        BY <2>3 DEF Pending, Removed
      <3>2. \A n \in Pending' : SameRequest(transactions'[n], transactions[n])
        BY <3>1 DEF SameRequest
      <3>3. \A id \in Ids, o \in ObsIds :
               (\E n \in Pending \ Pending' : Carries(transactions[n], id, o))
                  <=> Carries(t, id, o)
        BY <2>1, <3>1
      <3>4. \A id \in Ids, o \in ObsIds :
               IF Carries(t, id, o)
               THEN \/ observations'[id][o] = None
                    \/ observations'[id][o].status # "PENDING"
               ELSE observations'[id][o] = observations[id][o]
        <4>1. CASE t.op # "observe" /\ UNCHANGED observations
          BY <4>1 DEF Carries
        <4>2. CASE observations' = WithoutObservations({t})
          BY <4>2 DEF WithoutObservations
        <4>3. CASE /\ t.op = "observe"
                   /\ observations' = [observations EXCEPT
                         ![t.peer][t.obs].status = "REGISTERED"]
          <5>1. t.peer \in Ids /\ t.obs \in ObsIds
            BY <2>1, <4>3 DEF IInv, Structure, Shape, Transactions
          <5>2. Carries(t, t.peer, t.obs)
            BY <2>3, <4>3 DEF Carries, StaleCallback
          <5>3. observations[t.peer][t.obs] \in Observations
            BY <1>1, <2>1, <5>1, <5>2
               DEF IInv, Structure, CarriedIsPending, TypeOK
          <5> DEFINE r == [observations[t.peer][t.obs] EXCEPT
                              !.status = "REGISTERED"]
          <5>4. r.status = "REGISTERED"
            BY <5>3 DEF Observations
          <5>5. observations' = [observations EXCEPT ![t.peer][t.obs] = r]
            BY <4>3
          <5>6. \A id \in Ids, o \in ObsIds :
                   Carries(t, id, o) <=> id = t.peer /\ o = t.obs
            BY <5>2 DEF Carries
          <5> HIDE DEF r
          <5>7. \A id \in Ids, o \in ObsIds :
                   observations'[id][o] =
                      IF id = t.peer /\ o = t.obs THEN r ELSE observations[id][o]
            BY <1>1, <5>5 DEF TypeOK
          <5>8. QED
            BY <5>4, <5>6, <5>7
        <4>4. QED
          BY <2>3, <4>1, <4>2, <4>3
      <3>5. Pending' \subseteq Pending
        BY <3>1
      <3>6. QED
        BY <2>3, <3>2, <3>3, <3>4, <3>5, RemovalStructure
    <2>4. QED
      BY <1>3, <2>1, <2>2, <2>3, AnswerEffect
  <1>4. QED
    BY <1>2, <1>3 DEF ReceiveReply

LEMMA StepStructure ==
    ASSUME IInv, Lwm2mStep
    PROVE  Structure'
  <1>1. PICK noBuffer, noClock : BadPass \/ CleanPass(noBuffer, noClock)
    BY StepCases
  <1>2. CASE BadPass
    BY <1>2, IdleStructure DEF BadPass, Idle, IInv
  <1>3. CASE CleanPass(noBuffer, noClock)
    <2> DEFINE gone == Gone(noBuffer, noClock)
               told == Told(noBuffer, noClock)
    <2>1. /\ \A m \in Mids : transactions'[m] # None =>
                /\ m \in Pending /\ m \notin gone
                /\ SameRequest(transactions'[m], transactions[m])
          /\ \A m \in Pending \ gone : transactions'[m] # None
      BY <1>3, WalkedType DEF CleanPass, IInv
    <2>2. /\ gone \subseteq Pending /\ told = {m \in gone : transactions[m].cb}
          /\ observations' = WithoutObservations({transactions[m] : m \in told})
          /\ UNCHANGED <<clients, nextMID>>
      BY <1>3 DEF CleanPass, Gone, Told, Touched
    <2> HIDE DEF gone, told
    <2>3. /\ Pending' = Pending \ gone
          /\ \A m \in Pending' : SameRequest(transactions'[m], transactions[m])
      BY <2>1, <2>2 DEF Pending
    <2>4. \A m \in gone, id \in Ids, o \in ObsIds :
             Carries(transactions[m], id, o) => m \in told
      BY <2>2 DEF IInv, Structure, Shape, Carries
    <2>5. \A id \in Ids, o \in ObsIds :
             (\E m \in Pending \ Pending' : Carries(transactions[m], id, o))
                <=> (\E t \in {transactions[m] : m \in told} : Carries(t, id, o))
      BY <2>2, <2>3, <2>4
    <2>6. \A id \in Ids, o \in ObsIds :
             IF \E t \in {transactions[m] : m \in told} : Carries(t, id, o)
             THEN observations'[id][o] = None
             ELSE observations'[id][o] = observations[id][o]
      BY <2>2 DEF WithoutObservations
    <2>7. QED
      BY <2>2, <2>3, <2>5, <2>6, RemovalStructure
  <1>4. QED
    BY <1>1, <1>2, <1>3

LEMMA LoopStructure ==
    ASSUME IInv, Wake \/ Tick \/ Close
    PROVE  Structure'
  <1>1. CASE Wake
    BY <1>1, IdleStructure DEF Wake, IInv
  <1>2. CASE Tick
    <2>1. \A m \in Pending : /\ transactions[m] \in Transactions
                             /\ transactions'[m] = Older(transactions[m])
      BY <1>2 DEF Tick, Pending, IInv, TypeOK
    <2>2. \A m \in Pending : /\ transactions'[m] # None
                             /\ SameRequest(transactions'[m], transactions[m])
      BY <2>1, OlderType, NoneAssumption
    <2>3. Pending' = Pending
      BY <1>2, <2>2 DEF Tick, Pending
    <2>4. UNCHANGED <<clients, observations, nextMID>>
      BY <1>2 DEF Tick
    <2>5. QED
      BY <2>2, <2>3, <2>4, RemovalStructure
  <1>3. CASE Close
    <2>1. Pending' = {} /\ \A id \in Ids, o \in ObsIds : observations'[id][o] = None
      BY <1>3 DEF Close, Pending
    <2>2. QED
      BY <2>1 DEF Structure, Shape, CarriedIsPending, CarrierIsUnique,
         PendingIsCarried, PeersRegistered, ObservationsRegistered
  <1>4. QED
    BY <1>1, <1>2, <1>3

-----------------------------------------------------------------------------
(* The theorems                                                             *)

LEMMA InitIInv == Init => IInv
  <1> SUFFICES ASSUME Init PROVE IInv
    OBVIOUS
  <1>1. TypeOK
    BY BoundsAssumption DEF Init, TypeOK, Fates, Misuses
  <1>2. Pending = {} /\ \A id \in Ids, o \in ObsIds : observations[id][o] = None
    BY DEF Init, Pending
  <1>3. QED
    BY <1>1, <1>2 DEF IInv, Structure, Shape, CarriedIsPending,
       CarrierIsUnique, PendingIsCarried, PeersRegistered, ObservationsRegistered

LEMMA NextIInv == IInv /\ [Next]_vars => IInv'
  <1> SUFFICES ASSUME IInv, [Next]_vars PROVE IInv'
    OBVIOUS
  <1>0. TypeOK
    BY DEF IInv
  <1>1. ASSUME NEW from \in Addrs, NEW name \in Names \cup {None},
               NEW block2 \in BOOLEAN, Register(from, 0, name, block2)
        PROVE  IInv'
    BY <1>0, <1>1, RegisterType, RegisterStructure DEF IInv
  <1>2. ASSUME NEW from \in Addrs, NEW target \in Ids \cup {None, MaxClients},
               NEW block2 \in BOOLEAN, Deregister(from, 0, target, block2)
        PROVE  IInv'
    BY <1>0, <1>2, DeregisterType, DeregisterStructure DEF IInv
  <1>3. ASSUME NEW op \in Ops, NEW id \in Ids, NEW u \in Uris,
               NEW cb \in Callbacks, DmRequest(op, id, u, cb)
        PROVE  IInv'
    BY <1>0, <1>3, DmRequestType, DmRequestStructure DEF IInv
  <1>4. ASSUME NEW id \in Ids, NEW u \in Uris, Observe(id, u)
        PROVE  IInv'
    BY <1>0, <1>4, ObserveType, ObserveStructure DEF IInv
  <1>5. ASSUME NEW id \in Ids, NEW u \in Uris, ObserveCancel(id, u)
        PROVE  IInv'
    BY <1>0, <1>5, ObserveCancelType, ObserveCancelStructure DEF IInv
  <1>6. ASSUME NEW msg \in Replies, ReceiveReply(msg)
        PROVE  IInv'
    BY <1>6, ReceiveReplyType, ReceiveReplyStructure DEF IInv
  <1>7. CASE Lwm2mStep
    BY <1>0, <1>7, StepType, StepStructure DEF IInv
  <1>8. CASE Wake \/ Tick \/ Close
    BY <1>0, <1>8, LoopType, LoopStructure DEF IInv
  <1>9. CASE UNCHANGED vars
    BY <1>0, <1>9, IdleStructure DEF vars, TypeOK, IInv
  <1>10. QED
    BY <1>1, <1>2, <1>3, <1>4, <1>5, <1>6, <1>7, <1>8, <1>9 DEF Next

\* The inductive invariant holds in every reachable state.
THEOREM InvariantHolds == Spec => []IInv
  BY InitIInv, NextIInv, PTL DEF Spec

\* Every variable keeps its type: in particular no transaction is sent a fifth
\* time and no answer is written into a freed observation.
THEOREM TypeCorrect == Spec => []TypeOK
  <1>1. IInv => TypeOK
    BY DEF IInv
  <1>2. QED
    BY <1>1, InvariantHolds, PTL

\* liblwm2m.h:253: an observation is PENDING as long as its request is in the
\* transaction list, whatever clients, application and clock do in between.
THEOREM PendingObservationHolds == Spec => []PendingObservation
  <1>1. IInv => PendingObservation
    <2> SUFFICES ASSUME IInv PROVE PendingObservation
      OBVIOUS
    <2>1. \A id \in Ids, o \in ObsIds : \A m \in Carriers(id, o) :
             m \in Pending /\ Carries(transactions[m], id, o)
      BY DEF Carriers
    <2>2. ASSUME NEW id \in Ids, NEW o \in ObsIds
          PROVE  /\ (/\ observations[id][o] # None
                     /\ observations[id][o].status = "PENDING")
                       <=> Carriers(id, o) # {}
                 /\ \A m, n \in Carriers(id, o) : m = n
      BY <2>1 DEF Carriers, IInv, Structure, CarriedIsPending, CarrierIsUnique,
         PendingIsCarried
    <2>3. QED
      BY <2>2 DEF PendingObservation
  <1>2. QED
    BY <1>1, InvariantHolds, PTL

\* A pointer to a client or to an observation that was not marked as freed is
\* valid, and leads to the observation of the path it was issued for.
THEOREM LiveReferencesHold == Spec => []LiveReferences
  <1>1. IInv => LiveReferences
    <2> SUFFICES ASSUME IInv, NEW m \in Pending
                 PROVE  LET t == transactions[m]
                        IN  /\ ~t.peerFreed => clients[t.peer] # None
                            /\ t.op = "observe" /\ ~t.obsFreed =>
                                  /\ ~t.peerFreed
                                  /\ observations[t.peer][t.obs] # None
                                  /\ observations[t.peer][t.obs].uri = t.uri
      BY DEF LiveReferences
    <2> DEFINE t == transactions[m]
    <2>1. t \in Transactions
      BY DEF IInv, TypeOK, Pending
    <2>2. ~t.peerFreed => clients[t.peer] # None
      BY DEF IInv, Structure, PeersRegistered
    <2>3. ASSUME t.op = "observe", ~t.obsFreed
          PROVE  /\ ~t.peerFreed
                 /\ observations[t.peer][t.obs] # None
                 /\ observations[t.peer][t.obs].uri = t.uri
      <3>1. ~t.peerFreed /\ t.obs \in ObsIds /\ t.peer \in Ids
        BY <2>1, <2>3 DEF IInv, Structure, Shape, Transactions
      <3>2. Carries(t, t.peer, t.obs)
        BY <2>3 DEF Carries
      <3>3. QED
        BY <3>1, <3>2 DEF IInv, Structure, CarriedIsPending
    <2>4. QED
      BY <2>2, <2>3
  <1>2. QED
    BY <1>1, InvariantHolds, PTL
=============================================================================
