-------------------------- MODULE Lwm2mServerSafety --------------------------
(***************************************************************************)
(* What the server engine promises on top of its type and of its lists:    *)
(* the registry of endpoint names, the result of each request, the events  *)
(* that lead out of defined behaviour, and its timing: the retransmission  *)
(* schedule of each transaction, the sleep lwm2m_step hands to select(),   *)
(* and what a result of 5.03 tells the application.  Every theorem holds   *)
(* for every number of clients, observations and message IDs, whatever the *)
(* peers send and however late the loop is.                                *)
(***************************************************************************)
EXTENDS Lwm2mServerProofs

-----------------------------------------------------------------------------
(* The registry of endpoint names                                           *)

\* What a step of the engine does to the client list: records go, or the one
\* record a name belongs to is written.
RecordStep ==
    \/ \A i \in Ids : clients'[i] = clients[i] \/ clients'[i] = None
    \/ \E id \in Ids, name \in Names, from \in Addrs :
          /\ IsRecordFor(id, name)
          /\ clients' = [clients EXCEPT ![id] = [name |-> name, addr |-> from]]

LEMMA RegisterRecordStep ==
    ASSUME NEW from \in Addrs, NEW name \in Names \cup {None},
           NEW block2 \in BOOLEAN, Register(from, 0, name, block2)
    PROVE  RecordStep
  BY DEF Register, RecordStep

LEMMA DeregisterRecordStep ==
    ASSUME TypeOK, NEW from \in Addrs, NEW target \in Ids \cup {None, MaxClients},
           NEW block2 \in BOOLEAN, Deregister(from, 0, target, block2)
    PROVE  RecordStep
  <1> DEFINE id == IF target = None THEN 0 ELSE target
  <1>1. \/ UNCHANGED clients
        \/ clients' = [clients EXCEPT ![id] = None]
    BY Zenon DEF Deregister
  <1> HIDE DEF id
  <1>2. QED
    BY <1>1 DEF RecordStep, TypeOK

LEMMA NextRecordStep ==
    ASSUME TypeOK, [Next]_vars
    PROVE  RecordStep
  <1>1. ASSUME NEW from \in Addrs, NEW name \in Names \cup {None},
               NEW block2 \in BOOLEAN, Register(from, 0, name, block2)
        PROVE  RecordStep
    BY <1>1, RegisterRecordStep
  <1>2. ASSUME NEW from \in Addrs, NEW target \in Ids \cup {None, MaxClients},
               NEW block2 \in BOOLEAN, Deregister(from, 0, target, block2)
        PROVE  RecordStep
    BY <1>2, DeregisterRecordStep
  <1>3. ASSUME UNCHANGED clients
        PROVE  RecordStep
    BY <1>3 DEF RecordStep
  <1>4. ASSUME NEW op \in Ops, NEW id \in Ids, NEW u \in Uris,
               NEW cb \in Callbacks, DmRequest(op, id, u, cb)
        PROVE  UNCHANGED clients
    BY <1>4 DEF DmRequest
  <1>5. ASSUME NEW id \in Ids, NEW u \in Uris, Observe(id, u) \/ ObserveCancel(id, u)
        PROVE  UNCHANGED clients
    BY <1>5 DEF Observe, ObserveCancel
  <1>6. ASSUME NEW msg \in Replies, ReceiveReply(msg)
        PROVE  UNCHANGED clients
    BY <1>6 DEF ReceiveReply, Notify, AnswerTransaction, AnswerWith, GoUndefined
  <1>7. CASE Lwm2mStep
    BY <1>7, StepCases DEF BadPass, CleanPass, Idle, RecordStep
  <1>8. CASE Wake \/ Tick
    BY <1>8 DEF Wake, Tick, RecordStep
  <1>9. CASE Close
    BY <1>9 DEF Close, RecordStep
  <1>10. CASE UNCHANGED vars
    BY <1>10 DEF vars, RecordStep
  <1>11. QED
    BY <1>1, <1>2, <1>3, <1>4, <1>5, <1>6, <1>7, <1>8, <1>9, <1>10 DEF Next

\* Only the record a name belongs to may hold it afterwards.
LEMMA OneRecordPerName ==
    ASSUME TypeOK, UniqueNames, RecordStep
    PROVE  /\ UniqueNames'
           /\ \A i, j \in Ids :
                 clients[i] # None /\ clients'[j] # None
                   /\ clients[i].name = clients'[j].name => i = j
  <1>1. CASE \A i \in Ids : clients'[i] = clients[i] \/ clients'[i] = None
    BY <1>1 DEF UniqueNames
  <1>2. ASSUME NEW id \in Ids, NEW name \in Names, NEW from \in Addrs,
               IsRecordFor(id, name),
               clients' = [clients EXCEPT ![id] = [name |-> name, addr |-> from]]
        PROVE  /\ UniqueNames'
               /\ \A i, j \in Ids :
                     clients[i] # None /\ clients'[j] # None
                       /\ clients[i].name = clients'[j].name => i = j
    <2>1. clients'[id].name = name /\ \A i \in Ids \ {id} : clients'[i] = clients[i]
      BY <1>2 DEF TypeOK
    <2>2. \A i \in Ids : clients[i] # None /\ clients[i].name = name => i = id
      BY <1>2 DEF IsRecordFor, UniqueNames
    <2>3. \A i, j \in Ids :
             clients[i] # None /\ clients'[j] # None
               /\ clients[i].name = clients'[j].name => i = j
      BY <2>1, <2>2 DEF UniqueNames
    <2>4. clients[id] = None \/ clients[id].name = name
      BY <1>2 DEF IsRecordFor, IsNewId
    <2>5. UniqueNames'
      BY <2>1, <2>2 DEF UniqueNames
    <2>6. QED
      BY <2>3, <2>5
  <1>3. QED
    BY <1>1, <1>2 DEF RecordStep

\* However clients register, move to other addresses and leave, an endpoint
\* name never has two records.
THEOREM NamesAreUnique == Spec => []UniqueNames
  <1>1. Init => UniqueNames
    BY DEF Init, UniqueNames
  <1>2. TypeOK /\ UniqueNames /\ [Next]_vars => UniqueNames'
    BY NextRecordStep, OneRecordPerName
  <1>3. QED
    BY <1>1, <1>2, TypeCorrect, PTL DEF Spec

\* Registering again leaves the location a client was told as it is.
THEOREM LocationsAreStable == Spec => LocationStable
  <1> DEFINE Kept == \A i, j \in Ids :
                clients[i] # None /\ clients'[j] # None
                  /\ clients[i].name = clients'[j].name => i = j
  <1>1. TypeOK /\ UniqueNames /\ [Next]_vars => [Kept]_vars
    BY NextRecordStep, OneRecordPerName
  <1>2. [][Kept]_vars => LocationStable
    BY PTL DEF LocationStable
  <1> HIDE DEF Kept
  <1>3. QED
    BY <1>1, <1>2, TypeCorrect, NamesAreUnique, PTL DEF Spec

-----------------------------------------------------------------------------
(* One result for each request                                              *)

Open == {"step", "select"}

\* What a step of the engine does to the requests as a whole.
ResultQuiet ==
    /\ phase \in Open /\ phase' \in Open \cup {"undefined", "closed"}
    /\ Pending' = Pending /\ nextMID' = nextMID /\ fate' = fate

ResultClosed ==
    /\ phase \in Open /\ phase' = "closed"
    /\ Pending' = {} /\ nextMID' = nextMID /\ fate' = fate

\* One more request: in the list, refused, given up or reported at once.
ResultIssued ==
    /\ phase \in Open /\ phase' \in Open
    /\ nextMID < MaxMid /\ nextMID' = nextMID + 1
    /\ \/ Pending' = Pending \cup {nextMID} /\ fate' = fate
       \/ /\ Pending' = Pending
          /\ \/ fate' = [fate EXCEPT ![nextMID] = "refused"]
             \/ fate' = [fate EXCEPT ![nextMID] = "silent"]
             \/ fate' = Reported({nextMID})

\* The requests in told get their result, those in gone leave the list.
ResultSettled(told, gone) ==
    /\ phase \in Open /\ phase' \in Open
    /\ told \subseteq gone /\ gone \subseteq Pending
    /\ nextMID' = nextMID
    /\ Pending' = Pending \ gone
    /\ fate' = [m \in Mids |-> IF m \in gone \ told THEN "silent"
                               ELSE Reported(told)[m]]

ResultStep ==
    \/ ResultQuiet \/ ResultClosed \/ ResultIssued
    \/ \E told, gone : ResultSettled(told, gone)

LEMMA LaunchResult ==
    ASSUME TypeOK, NEW t \in Transactions, ~GivesUp(t.timer, TRUE), NEW obs,
           phase \in Open, phase' \in Open, nextMID < MaxMid, Launch(t, obs)
    PROVE  ResultIssued
  <1>1. nextMID \in Mids
    BY BoundsAssumption DEF TypeOK, Mids
  <1>2. SentAgain(t, TRUE) # None /\ t # None
    BY SentAgainType, NoneAssumption
  <1>3. nextMID' = nextMID + 1
    BY DEF Launch
  <1>4. ASSUME NEW u, u # None, transactions' = [transactions EXCEPT ![nextMID] = u]
        PROVE  Pending' = Pending \cup {nextMID}
    BY <1>1, <1>4 DEF Pending, TypeOK
  <1>5. \/ transactions' = [transactions EXCEPT ![nextMID] = t] /\ fate' = fate
        \/ /\ transactions' = [transactions EXCEPT ![nextMID] = SentAgain(t, TRUE)]
           /\ fate' = fate
        \/ /\ transactions' = transactions
           /\ \/ fate' = [fate EXCEPT ![nextMID] = "silent"]
              \/ fate' = Reported({nextMID})
    BY Zenon DEF Launch
  <1>6. transactions' = transactions => Pending' = Pending
    BY DEF Pending
  <1>7. QED
    BY <1>2, <1>3, <1>4, <1>5, <1>6 DEF ResultIssued

LEMMA RefuseResult ==
    ASSUME phase \in Open, phase' \in Open, nextMID < MaxMid, Refuse
    PROVE  ResultIssued
  BY DEF Refuse, ResultIssued, Pending

LEMMA RequestResult ==
    ASSUME TypeOK,
           \/ \E op \in Ops, id \in Ids, u \in Uris, cb \in Callbacks :
                 DmRequest(op, id, u, cb)
           \/ \E id \in Ids, u \in Uris : Observe(id, u)
    PROVE  ResultStep
  <1>1. ASSUME NEW op \in Ops, NEW id \in Ids, NEW u \in Uris,
               NEW cb \in Callbacks, DmRequest(op, id, u, cb)
        PROVE  ResultIssued
    <2> DEFINE t == NewTransaction(op, id, None, u, cb)
    <2>1. t \in Transactions /\ ~GivesUp(t.timer, TRUE)
      BY NewTransactionType, InputAssumption
    <2>2. /\ phase \in Open /\ phase' \in Open /\ nextMID < MaxMid
          /\ Launch(t, observations) \/ Refuse
      BY <1>1 DEF DmRequest, Open
    <2> HIDE DEF t
    <2>3. CASE Refuse
      BY <2>2, <2>3, RefuseResult
    <2>4. CASE Launch(t, observations)
      BY <2>1, <2>2, <2>4, LaunchResult
    <2>5. QED
      BY <2>2, <2>3, <2>4
  <1>2. ASSUME NEW id \in Ids, NEW u \in Uris, Observe(id, u)
        PROVE  ResultIssued
    <2>1. phase \in Open /\ phase' \in Open /\ nextMID < MaxMid
      BY <1>2 DEF Observe, Open
    <2>2. CASE Refuse
      BY <2>1, <2>2, RefuseResult
    <2>3. ASSUME NEW o \in ObsIds,
                 Launch(NewTransaction("observe", id, o, u, TRUE),
                        [observations EXCEPT ![id][o] =
                            [uri |-> u, status |-> "PENDING"]])
          PROVE  ResultIssued
      <3> DEFINE t   == NewTransaction("observe", id, o, u, TRUE)
                 obs == [observations EXCEPT ![id][o] =
                            [uri |-> u, status |-> "PENDING"]]
      <3>1. t \in Transactions /\ ~GivesUp(t.timer, TRUE)
        BY NewTransactionType DEF Operations
      <3>2. Launch(t, obs)
        BY <2>3
      <3> HIDE DEF t, obs
      <3>3. QED
        BY <2>1, <3>1, <3>2, LaunchResult
    <2>4. QED
      BY <1>2, <2>2, <2>3 DEF Observe
  <1>3. QED
    BY <1>1, <1>2 DEF ResultStep

LEMMA ReceiveReplyResult ==
    ASSUME IInv, NEW msg \in Replies, ReceiveReply(msg)
    PROVE  ResultStep
  <1> DEFINE m == msg.mid
             t == transactions[m]
  <1>1. phase \in Open /\ m \in Mids
    BY InputAssumption DEF ReceiveReply, Open
  <1>2. CASE Notify(msg)
    BY <1>1, <1>2, NotifyIdle DEF Idle, ResultStep, ResultQuiet, Open, Pending
  <1>3. CASE AnswerTransaction(msg)
    <2>1. t # None /\ m \in Pending
      BY <1>1, <1>3 DEF AnswerTransaction, AnswerWith, Pending
    <2>2. CASE Idle /\ phase' \in {"step", "undefined"}
      BY <1>1, <2>2 DEF Idle, ResultStep, ResultQuiet, Open, Pending
    <2>3. CASE /\ phase' = "step" /\ nextMID' = nextMID
               /\ transactions' = Removed({m}) /\ fate' = Reported({m})
      <3>1. Pending' = Pending \ {m}
        BY <2>3 DEF Pending, Removed
      <3>2. fate' = [n \in Mids |-> IF n \in {m} \ {m} THEN "silent"
                                    ELSE Reported({m})[n]]
        BY <2>3 DEF Reported
      <3>3. ResultSettled({m}, {m})
        BY <1>1, <2>1, <2>3, <3>1, <3>2 DEF ResultSettled, Open
      <3>4. QED
        BY <3>3 DEF ResultStep
    <2>4. QED
      BY <1>3, <2>1, <2>2, <2>3, AnswerEffect
  <1>4. QED
    BY <1>2, <1>3 DEF ReceiveReply

LEMMA StepResult ==
    ASSUME TypeOK, Lwm2mStep
    PROVE  ResultStep
  <1>1. PICK noBuffer, noClock : BadPass \/ CleanPass(noBuffer, noClock)
    BY StepCases
  <1>2. phase \in Open
    BY DEF Lwm2mStep, Open
  <1>3. CASE BadPass
    BY <1>2, <1>3 DEF BadPass, Idle, ResultStep, ResultQuiet, Open, Pending
  <1>4. CASE CleanPass(noBuffer, noClock)
    <2> DEFINE told == Told(noBuffer, noClock)
               gone == Gone(noBuffer, noClock)
               after == Walked(Touched(noBuffer), gone, noClock)
    <2>1. /\ \A m \in Mids : after[m] # None => m \in Pending /\ m \notin gone
          /\ \A m \in Pending \ gone : after[m] # None
      BY WalkedType
    <2>2. /\ transactions' = after /\ nextMID' = nextMID /\ phase' = "select"
          /\ fate' = [m \in Mids |-> IF m \in gone \ told THEN "silent"
                                     ELSE Reported(told)[m]]
      BY <1>4, Zenon DEF CleanPass
    <2>3. told \subseteq gone /\ gone \subseteq Pending
      BY DEF Told, Gone, Touched
    <2> HIDE DEF told, gone, after
    <2>4. Pending' = Pending \ gone
      BY <2>1, <2>2 DEF Pending
    <2>5. ResultSettled(told, gone)
      BY <1>2, <2>2, <2>3, <2>4 DEF ResultSettled, Open
    <2>6. QED
      BY <2>5 DEF ResultStep
  <1>5. QED
    BY <1>1, <1>3, <1>4

LEMMA NextResultStep ==
    ASSUME IInv, Next
    PROVE  ResultStep
  <1>0. TypeOK
    BY DEF IInv
  <1>1. ASSUME NEW from \in Addrs, NEW name \in Names \cup {None},
               NEW block2 \in BOOLEAN, Register(from, 0, name, block2)
        PROVE  ResultStep
    BY <1>1 DEF Register, Answered, ResultStep, ResultQuiet, Open, Pending
  <1>2. ASSUME NEW from \in Addrs, NEW target \in Ids \cup {None, MaxClients},
               NEW block2 \in BOOLEAN, Deregister(from, 0, target, block2)
        PROVE  ResultStep
    <2> DEFINE id == IF target = None THEN 0 ELSE target
    <2>1. /\ phase \in Open /\ phase' \in Open \cup {"undefined"}
          /\ nextMID' = nextMID /\ fate' = fate
      BY <1>2 DEF Deregister, Answered, Open
    <2>2. \/ transactions' = transactions
          \/ transactions' = [m \in Mids |->
                IF m \in PendingWith(id)
                THEN [transactions[m] EXCEPT !.peerFreed = TRUE,
                                             !.obsFreed = TRUE]
                ELSE transactions[m]]
      BY <1>2, Zenon DEF Deregister
    <2>3. \A m \in PendingWith(id) : /\ transactions[m] \in Transactions
                                     /\ transactions[m] # None
      BY <1>0 DEF PendingWith, Pending, TypeOK
    <2>4. \A m \in PendingWith(id) :
             [transactions[m] EXCEPT !.peerFreed = TRUE, !.obsFreed = TRUE] # None
      BY <2>3, PeerFreedFields
    <2> HIDE DEF id
    <2>5. Pending' = Pending
      BY <2>2, <2>3, <2>4 DEF Pending
    <2>6. QED
      BY <2>1, <2>5 DEF ResultStep, ResultQuiet
  <1>3. ASSUME NEW id \in Ids, NEW u \in Uris, ObserveCancel(id, u)
        PROVE  ResultStep
    <2>1. /\ phase \in Open /\ phase' \in Open
          /\ nextMID' = nextMID /\ fate' = fate
      BY <1>3 DEF ObserveCancel, Open
    <2>2. PICK o \in ObsIds :
             transactions' = [m \in Mids |->
                 IF m \in Carriers(id, o)
                 THEN [transactions[m] EXCEPT !.obsFreed = TRUE]
                 ELSE transactions[m]]
      BY <1>3 DEF ObserveCancel
    <2>3. \A m \in Carriers(id, o) : /\ transactions[m] \in Transactions
                                     /\ transactions[m] # None
      BY <1>0 DEF Carriers, Pending, TypeOK
    <2>4. \A m \in Carriers(id, o) :
             [transactions[m] EXCEPT !.obsFreed = TRUE] # None
      BY <2>3, ObsFreedFields
    <2>5. Pending' = Pending
      BY <2>2, <2>3, <2>4 DEF Pending
    <2>6. QED
      BY <2>1, <2>5 DEF ResultStep, ResultQuiet
  <1>4. CASE \/ \E op \in Ops, id \in Ids, u \in Uris, cb \in Callbacks :
                   DmRequest(op, id, u, cb)
             \/ \E id \in Ids, u \in Uris : Observe(id, u)
    BY <1>0, <1>4, RequestResult
  <1>5. ASSUME NEW msg \in Replies, ReceiveReply(msg)
        PROVE  ResultStep
    BY <1>5, ReceiveReplyResult
  <1>6. CASE Lwm2mStep
    BY <1>0, <1>6, StepResult
  <1>7. CASE Wake
    BY <1>7 DEF Wake, ResultStep, ResultQuiet, Open, Pending
  <1>8. CASE Tick
    <2>1. \A m \in Mids : transactions[m] # None => Older(transactions[m]) # None
      BY <1>0, OlderType, NoneAssumption DEF TypeOK
    <2>2. transactions' = [m \in Mids |-> IF transactions[m] = None THEN None
                                          ELSE Older(transactions[m])]
      BY <1>8 DEF Tick
    <2>3. Pending' = Pending
      BY <2>1, <2>2 DEF Pending
    <2>4. QED
      BY <1>8, <2>3 DEF Tick, ResultStep, ResultQuiet, Open
  <1>9. CASE Close
    BY <1>9 DEF Close, ResultStep, ResultClosed, Open, Pending
  <1>10. QED
    BY <1>1, <1>2, <1>3, <1>4, <1>5, <1>6, <1>7, <1>8, <1>9 DEF Next

LEMMA OneResultKept ==
    ASSUME TypeOK, OneResult, ResultStep
    PROVE  OneResult'
  <1>1. CASE ResultQuiet \/ ResultClosed
    BY <1>1 DEF ResultQuiet, ResultClosed, OneResult, Open
  <1>2. CASE ResultIssued
    <2>1. nextMID \in Mids /\ nextMID \in Nat
      BY <1>2, BoundsAssumption DEF ResultIssued, TypeOK, Mids
    <2>2. fate \in [Mids -> Fates] /\ fate[nextMID] = "none"
      BY <2>1 DEF TypeOK, OneResult
    <2>3. \A m \in Mids : fate[m] # "again" /\ (m >= nextMID => fate[m] = "none")
      BY DEF OneResult
    <2>4. \A m \in Mids : m \in Pending <=> m < nextMID /\ fate[m] = "none"
      BY <1>2 DEF OneResult, ResultIssued, Open
    <2>5. nextMID' = nextMID + 1 /\ \A m \in Mids : m \in Nat
      BY <1>2 DEF ResultIssued, Mids
    <2>6. \A m \in Mids : /\ m < nextMID' <=> m < nextMID \/ m = nextMID
                          /\ m >= nextMID' => m >= nextMID /\ m # nextMID
      BY <2>1, <2>5
    <2>7. CASE Pending' = Pending \cup {nextMID} /\ fate' = fate
      BY <2>1, <2>2, <2>3, <2>4, <2>6, <2>7 DEF OneResult
    <2>8. CASE /\ Pending' = Pending
               /\ \/ fate' = [fate EXCEPT ![nextMID] = "refused"]
                  \/ fate' = [fate EXCEPT ![nextMID] = "silent"]
                  \/ fate' = Reported({nextMID})
      <3>1. fate'[nextMID] \in {"refused", "silent", "reported"}
        BY <2>1, <2>2, <2>8 DEF Reported
      <3>2. \A m \in Mids : m # nextMID => fate'[m] = fate[m]
        BY <2>1, <2>2, <2>8 DEF Reported
      <3> HIDE <2>8
      <3>3. \A m \in Mids : fate'[m] # "again" /\ (m >= nextMID' => fate'[m] = "none")
        BY <2>3, <2>6, <3>1, <3>2
      <3>4. Pending' = Pending
        BY <2>8
      <3>5. \A m \in Mids : m \in Pending <=> m < nextMID' /\ fate'[m] = "none"
        BY <2>4, <2>6, <2>1, <2>5, <3>1, <3>2
      <3>6. QED
        BY <3>3, <3>4, <3>5 DEF OneResult
    <2>9. QED
      BY <1>2, <2>7, <2>8 DEF ResultIssued
  <1>3. ASSUME NEW told, NEW gone, ResultSettled(told, gone)
        PROVE  OneResult'
    <2>1. \A m \in Mids : m \in Pending <=> m < nextMID /\ fate[m] = "none"
      BY <1>3 DEF OneResult, ResultSettled, Open
    <2>2. \A m \in Mids : fate[m] # "again" /\ (m >= nextMID => fate[m] = "none")
      BY DEF OneResult
    <2>3. /\ told \subseteq gone /\ gone \subseteq Pending
          /\ nextMID' = nextMID /\ Pending' = Pending \ gone
      BY <1>3 DEF ResultSettled
    <2>4. \A m \in Mids : fate'[m] =
             IF m \in gone \ told THEN "silent"
             ELSE IF m \notin told THEN fate[m]
             ELSE IF fate[m] = "none" THEN "reported" ELSE "again"
      BY <1>3 DEF ResultSettled, Reported
    <2>5. \A m \in Pending : m < nextMID
      BY <2>1 DEF Pending
    <2>6. \A m \in gone : m \in Mids /\ m < nextMID /\ fate[m] = "none"
      BY <2>1, <2>3 DEF Pending
    <2>7. \A m \in Mids : ~(m < nextMID) <=> m >= nextMID
      BY DEF Mids, TypeOK
    <2>8. \A m \in Mids : m \in gone => fate'[m] \in {"silent", "reported"}
      BY <2>3, <2>4, <2>6
    <2>9. \A m \in Mids : m \notin gone => fate'[m] = fate[m]
      BY <2>3, <2>4
    <2>10. QED
      BY <2>1, <2>2, <2>3, <2>6, <2>7, <2>8, <2>9 DEF OneResult
  <1>4. QED
    BY <1>1, <1>2, <1>3 DEF ResultStep

\* Whatever answers, resets, timeouts and failures of the clock and of the
\* allocator come in whatever order, a request is in the transaction list
\* until it has its result, and its callback is never called twice.
THEOREM ResultsAreUnique == Spec => []OneResult
  <1>1. Init => OneResult
    BY DEF Init, OneResult, Pending, Mids
  <1>2. IInv /\ OneResult /\ [Next]_vars => OneResult'
    <2> SUFFICES ASSUME IInv, OneResult, [Next]_vars PROVE OneResult'
      OBVIOUS
    <2>1. CASE Next
      BY <2>1, NextResultStep, OneResultKept DEF IInv
    <2>2. CASE UNCHANGED vars
      BY <2>2 DEF vars, OneResult, Pending
    <2>3. QED
      BY <2>1, <2>2
  <1>3. QED
    BY <1>1, <1>2, InvariantHolds, PTL DEF Spec

-----------------------------------------------------------------------------
(* The engine implements RequestService                                     *)

LEMMA RequestStateIs ==
    ASSUME TypeOK, OneResult, NEW m \in Mids
    PROVE  /\ m >= nextMID => requestState[m] = "unused"
           /\ m < nextMID /\ fate[m] = "reported" => requestState[m] = "reported"
           /\ m < nextMID /\ fate[m] \in {"silent", "refused"}
                => requestState[m] = "dropped"
           /\ m < nextMID /\ fate[m] = "none" /\ phase \in Open
                => requestState[m] = "pending"
           /\ m < nextMID /\ fate[m] = "none" /\ phase \notin Open
                => requestState[m] = "dropped"
           /\ fate[m] \in {"none", "refused", "reported", "silent"}
  <1>1. ~(m < nextMID) <=> m >= nextMID
    BY DEF Mids, TypeOK
  <1>2. fate[m] \in {"none", "refused", "reported", "silent"}
    BY DEF OneResult, TypeOK, Fates
  <1>3. QED
    BY <1>1, <1>2 DEF requestState, Open

LEMMA RequestStateSame ==
    ASSUME nextMID' = nextMID, fate' = fate,
           phase \in Open <=> phase' \in Open
    PROVE  requestState' = requestState
  BY DEF requestState, Open

LEMMA RequestStateType ==
    ASSUME OneResult'
    PROVE  requestState' \in [Mids -> Service!States]
  BY DEF requestState, OneResult, Service!States

\* Every step of the engine is one of the service, or none.
LEMMA ResultStepIsServed ==
    ASSUME TypeOK, TypeOK', OneResult, OneResult', ResultStep
    PROVE  Service!Next \/ requestState' = requestState
  <1>0. \A m \in Mids : ~(m < nextMID) <=> m >= nextMID
    BY DEF Mids, TypeOK
  <1>1. CASE ResultQuiet /\ phase' \in Open
    BY <1>1, RequestStateSame DEF ResultQuiet
  <1>2. CASE \/ ResultQuiet /\ phase' \notin Open
             \/ ResultClosed
    <2>1. nextMID' = nextMID /\ fate' = fate /\ phase \in Open /\ phase' \notin Open
      BY <1>2 DEF ResultQuiet, ResultClosed, Open
    <2>2. requestState' = [m \in Mids |-> IF requestState[m] = "pending"
                                          THEN "dropped" ELSE requestState[m]]
      BY <2>1 DEF requestState, Open
    <2>3. Service!Resolve
      BY <2>2, RequestStateType DEF Service!Resolve
    <2>4. QED
      BY <2>3 DEF Service!Next
  <1>3. CASE ResultIssued
    <2>1. /\ phase \in Open /\ phase' \in Open /\ nextMID \in Mids
          /\ nextMID' = nextMID + 1
      BY <1>3, BoundsAssumption DEF ResultIssued, TypeOK, Mids
    <2>2. \A m \in Mids \ {nextMID} : fate'[m] = fate[m]
      BY <1>3, <2>1 DEF ResultIssued, Reported, TypeOK
    <2>3. \A m \in Mids \ {nextMID} : /\ m < nextMID' <=> m < nextMID
                                      /\ m >= nextMID' <=> m >= nextMID
      BY <2>1 DEF Mids
    <2>4. \A m \in Mids \ {nextMID} : requestState'[m] = requestState[m]
      BY <2>1, <2>2, <2>3 DEF requestState, Open
    <2>5. requestState[nextMID] = "unused"
      BY <2>1 DEF requestState, Mids
    <2>6. requestState'[nextMID] \in {"pending", "reported", "dropped"}
      <3>1. nextMID < nextMID' /\ ~(nextMID >= nextMID')
        BY <2>1 DEF Mids
      <3>2. fate'[nextMID] # "again"
        BY <2>1 DEF OneResult
      <3>3. QED
        BY <2>1, <3>1, <3>2 DEF requestState, Open
    <2> DEFINE s == requestState'[nextMID]
    <2>7. requestState' = [requestState EXCEPT ![nextMID] = s]
      <3>1. /\ requestState = [m \in Mids |-> requestState[m]]
            /\ requestState' = [m \in Mids |-> requestState'[m]]
        BY DEF requestState
      <3>2. QED
        BY <2>1, <2>4, <3>1
    <2>8. Service!Issue(nextMID)
      BY <2>5, <2>6, <2>7 DEF Service!Issue, Service!States
    <2>9. QED
      BY <2>1, <2>8 DEF Service!Next
  <1>4. ASSUME NEW told, NEW gone, ResultSettled(told, gone)
        PROVE  Service!Next
    <2>1. /\ phase \in Open /\ phase' \in Open /\ nextMID' = nextMID
          /\ told \subseteq gone /\ gone \subseteq Pending
          /\ Pending \subseteq Mids
      BY <1>4 DEF ResultSettled, Pending
    <2>2. \A m \in gone : m \in Mids /\ m < nextMID /\ fate[m] = "none"
      BY <2>1 DEF OneResult, Open
    <2>3. \A m \in gone : requestState[m] = "pending"
      BY <2>1, <2>2, RequestStateIs
    <2>4. \A m \in Mids : fate'[m] =
             IF m \in gone \ told THEN "silent"
             ELSE IF m \notin told THEN fate[m]
             ELSE IF fate[m] = "none" THEN "reported" ELSE "again"
      BY <1>4 DEF ResultSettled, Reported
    <2>5. \A m \in Mids \ gone : fate'[m] = fate[m]
      BY <2>1, <2>4
    <2>6. \A m \in gone : fate'[m] \in {"reported", "silent"}
      BY <2>2, <2>4
    <2>7. \A m \in Mids \ gone : requestState'[m] = requestState[m]
      BY <2>1, <2>5 DEF requestState, Open
    <2>8. \A m \in gone : requestState'[m] \in {"reported", "dropped"}
      <3>1. SUFFICES ASSUME NEW m \in gone
                     PROVE  requestState'[m] \in {"reported", "dropped"}
        OBVIOUS
      <3>2. m \in Mids /\ ~(m >= nextMID')
        BY <1>0, <2>1, <2>2
      <3>3. QED
        BY <2>6, <3>2 DEF requestState
    <2>11. Service!Resolve
      <3>1. \A m \in Mids : requestState'[m] # requestState[m] => m \in gone
        BY <2>7
      <3>2. QED
        BY <2>3, <2>8, <3>1, RequestStateType DEF Service!Resolve
    <2>12. QED
      BY <2>1, <2>11 DEF Service!Next
  <1>5. QED
    BY <1>1, <1>2, <1>3, <1>4 DEF ResultStep

\* The transactions, callbacks and message IDs of the engine implement the
\* request service: the detailed specification refines the abstract one.
THEOREM EngineServesRequests == Spec => ServiceSpec
  <1>1. Init => Service!Init
    <2> SUFFICES ASSUME Init PROVE requestState = [m \in Mids |-> "unused"]
      BY DEF Service!Init
    <2>1. \A m \in Mids : m >= 0
      BY DEF Mids
    <2>2. QED
      BY <2>1 DEF Init, requestState
  <1>2. /\ IInv /\ IInv' /\ OneResult /\ OneResult' /\ [Next]_vars
        => [Service!Next]_requestState
    <2> SUFFICES ASSUME IInv, IInv', OneResult, OneResult', [Next]_vars
                 PROVE  Service!Next \/ requestState' = requestState
      OBVIOUS
    <2>1. TypeOK /\ TypeOK'
      BY DEF IInv
    <2>2. CASE Next
      BY <2>1, <2>2, NextResultStep, ResultStepIsServed
    <2>3. CASE UNCHANGED vars
      BY <2>3 DEF vars, requestState
    <2>4. QED
      BY <2>2, <2>3
  <1>3. QED
    BY <1>1, <1>2, InvariantHolds, ResultsAreUnique, PTL
    DEF Spec, ServiceSpec, Service!Spec

-----------------------------------------------------------------------------
(* What leads out of defined behaviour                                      *)

\* No pointer goes stale in the step, and none is forgotten.
NothingFreed ==
    /\ misuse \subseteq misuse'
    /\ \A m \in Pending' :
          \/ ~transactions'[m].peerFreed /\ ~transactions'[m].obsFreed
          \/ /\ m \in Pending
             /\ transactions'[m].peerFreed = transactions[m].peerFreed
             /\ transactions'[m].obsFreed = transactions[m].obsFreed
    /\ \A m \in Unserialised' :
          \/ transactions'[m].op \notin MayHavePayload
          \/ "dead payload" \in misuse'
          \/ m \in Unserialised /\ transactions'[m].op = transactions[m].op

LEMMA NothingFreedExplained ==
    ASSUME UndefinedExplained, NothingFreed, phase' = "undefined" => misuse' # {}
    PROVE  UndefinedExplained'
  BY DEF UndefinedExplained, NothingFreed

LEMMA SameListExplained ==
    ASSUME UndefinedExplained, UNCHANGED transactions, misuse \subseteq misuse',
           phase' = "undefined" => misuse' # {}
    PROVE  UndefinedExplained'
  BY DEF UndefinedExplained, Unserialised, Pending

LEMMA LaunchFreesNothing ==
    ASSUME TypeOK, NEW t \in Transactions, ~GivesUp(t.timer, TRUE), NEW obs,
           ~t.peerFreed, ~t.obsFreed, Launch(t, obs)
    PROVE  NothingFreed
  <1> DEFINE v == SentAgain(t, TRUE)
  <1>1. v.peerFreed = t.peerFreed /\ v.obsFreed = t.obsFreed
    BY SentAgainType DEF SameRequest
  <1>a. ~Unsent(v.timer)
    <2>1. t.timer \in Timers /\ v.timer = Resent(t.timer, TRUE)
      BY DEF Transactions, SentAgain
    <2>2. QED
      BY <2>1, ResentType
  <1> HIDE DEF v
  <1>2. misuse \subseteq misuse'
    BY DEF Launch
  <1>3. \/ /\ transactions' = [transactions EXCEPT ![nextMID] = t]
           /\ t.op \in MayHavePayload => "dead payload" \in misuse'
        \/ transactions' = transactions
        \/ transactions' = [transactions EXCEPT ![nextMID] = v]
    BY Zenon DEF Launch, v
  <1>4. \A m \in Mids :
           \/ transactions'[m] \in {transactions[m], v}
           \/ /\ transactions'[m] = t
              /\ t.op \in MayHavePayload => "dead payload" \in misuse'
    BY <1>3 DEF TypeOK
  <1>5. QED
    BY <1>1, <1>a, <1>2, <1>4 DEF NothingFreed, Unserialised, Pending

LEMMA RequestExplained ==
    ASSUME TypeOK, UndefinedExplained,
           \/ \E op \in Ops, id \in Ids, u \in Uris, cb \in Callbacks :
                 DmRequest(op, id, u, cb)
           \/ \E id \in Ids, u \in Uris : Observe(id, u)
    PROVE  UndefinedExplained'
  <1>1. phase' = "step"
    BY DEF DmRequest, Observe
  <1>2. CASE Refuse
    BY <1>1, <1>2, SameListExplained DEF Refuse
  <1>3. ASSUME NEW op \in Operations, NEW id \in Ids, NEW o \in ObsIds \cup {None},
               NEW u \in Uris, NEW cb \in BOOLEAN, NEW obs,
               Launch(NewTransaction(op, id, o, u, cb), obs)
        PROVE  UndefinedExplained'
    <2> DEFINE t == NewTransaction(op, id, o, u, cb)
    <2>1. t \in Transactions /\ ~GivesUp(t.timer, TRUE)
      BY NewTransactionType
    <2>2. ~t.peerFreed /\ ~t.obsFreed
      BY DEF NewTransaction
    <2>3. Launch(t, obs)
      BY <1>3
    <2> HIDE DEF t
    <2>4. NothingFreed
      BY <2>1, <2>2, <2>3, LaunchFreesNothing
    <2>5. QED
      BY <1>1, <2>4, NothingFreedExplained
  <1>4. ASSUME NEW op \in Ops, NEW id \in Ids, NEW u \in Uris,
               NEW cb \in Callbacks, DmRequest(op, id, u, cb)
        PROVE  UndefinedExplained'
    <2>1. op \in Operations /\ cb \in BOOLEAN
      BY InputAssumption
    <2>2. Refuse \/ Launch(NewTransaction(op, id, None, u, cb), observations)
      BY <1>4, Zenon DEF DmRequest
    <2>3. QED
      BY <1>2, <1>3, <2>1, <2>2
  <1>5. ASSUME NEW id \in Ids, NEW u \in Uris, Observe(id, u)
        PROVE  UndefinedExplained'
    <2>1. "observe" \in Operations /\ TRUE \in BOOLEAN
      BY DEF Operations
    <2>2. \/ Refuse
          \/ \E o \in ObsIds : \E obs :
                Launch(NewTransaction("observe", id, o, u, TRUE), obs)
      BY <1>5, Zenon DEF Observe
    <2>3. QED
      BY <1>2, <1>3, <2>1, <2>2
  <1>6. QED
    BY <1>4, <1>5

LEMMA DeregisterExplained ==
    ASSUME TypeOK, UndefinedExplained,
           NEW from \in Addrs, NEW target \in Ids \cup {None, MaxClients},
           NEW block2 \in BOOLEAN, Deregister(from, 0, target, block2)
    PROVE  UndefinedExplained'
  <1> DEFINE id == IF target = None THEN 0 ELSE target
  <1>1. \/ phase' = "step" /\ UNCHANGED <<transactions, misuse>>
        \/ /\ phase' \in {"step", "undefined"}
           /\ phase' = "undefined" => block2
           /\ transactions' = [m \in Mids |->
                 IF m \in PendingWith(id)
                 THEN [transactions[m] EXCEPT !.peerFreed = TRUE,
                                              !.obsFreed = TRUE]
                 ELSE transactions[m]]
           /\ misuse' = misuse
                 \cup (IF AwaitsAnswerFrom(id) THEN {"client freed"} ELSE {})
                 \cup (IF block2 THEN {"block"} ELSE {})
    BY Zenon DEF Deregister, Answered
  <1> HIDE DEF id
  <1>a. misuse \subseteq misuse' /\ (phase' = "undefined" => misuse' # {})
    BY <1>1
  <1>2. CASE UNCHANGED transactions
    BY <1>a, <1>2, SameListExplained
  <1>3. CASE PendingWith(id) # {} /\ ~UNCHANGED transactions
    <2>1. "client freed" \in misuse'
      BY <1>1, <1>3 DEF PendingWith, AwaitsAnswerFrom
    <2>2. \A m \in PendingWith(id) :
             LET t == [transactions[m] EXCEPT !.peerFreed = TRUE, !.obsFreed = TRUE]
             IN  t.op = transactions[m].op /\ t.timer = transactions[m].timer
      BY DEF PendingWith, Pending, TypeOK, Transactions
    <2>3. \A m \in Unserialised' :
             m \in Unserialised /\ transactions'[m].op = transactions[m].op
      BY <1>1, <1>3, <2>2 DEF Unserialised, PendingWith, Pending
    <2>4. QED
      BY <1>a, <2>1, <2>3 DEF UndefinedExplained
  <1>4. CASE PendingWith(id) = {}
    <2>1. transactions' = transactions
      BY <1>1, <1>4 DEF TypeOK
    <2>2. QED
      BY <1>2, <2>1
  <1>5. QED
    BY <1>2, <1>3, <1>4

LEMMA ObserveCancelExplained ==
    ASSUME TypeOK, UndefinedExplained, NEW id \in Ids, NEW u \in Uris,
           ObserveCancel(id, u)
    PROVE  UndefinedExplained'
  <1>1. phase' = "step"
    BY DEF ObserveCancel
  <1>2. PICK o \in ObsIds :
           /\ transactions' = [m \in Mids |->
                 IF m \in Carriers(id, o)
                 THEN [transactions[m] EXCEPT !.obsFreed = TRUE]
                 ELSE transactions[m]]
           /\ misuse' = IF Carriers(id, o) = {} THEN misuse
                        ELSE misuse \cup {"observation freed"}
    BY DEF ObserveCancel
  <1>3. CASE Carriers(id, o) = {}
    <2>1. transactions' = transactions /\ misuse' = misuse
      BY <1>2, <1>3 DEF TypeOK
    <2>2. QED
      BY <1>1, <2>1, SameListExplained
  <1>4. CASE Carriers(id, o) # {}
    <2>1. misuse' = misuse \cup {"observation freed"}
      BY <1>2, <1>4
    <2>2. \A m \in Carriers(id, o) :
             /\ m \in Pending
             /\ LET t == [transactions[m] EXCEPT !.obsFreed = TRUE]
                IN  /\ t.peerFreed = transactions[m].peerFreed
                    /\ t.op = transactions[m].op
                    /\ t.timer = transactions[m].timer
      BY DEF Carriers, Pending, TypeOK, Transactions
    <2>3. \A m \in Pending' : /\ m \in Pending
                              /\ transactions'[m].peerFreed = transactions[m].peerFreed
                              /\ transactions'[m].op = transactions[m].op
                              /\ transactions'[m].timer = transactions[m].timer
      BY <1>2, <2>2 DEF Pending
    <2>4. QED
      BY <1>1, <2>1, <2>3 DEF UndefinedExplained, Unserialised
  <1>5. QED
    BY <1>3, <1>4

LEMMA ReceiveReplyExplained ==
    ASSUME IInv, UndefinedExplained, NEW msg \in Replies, ReceiveReply(msg)
    PROVE  UndefinedExplained'
  <1> DEFINE m == msg.mid
             t == transactions[m]
  <1>1. m \in Mids
    BY InputAssumption
  <1>2. CASE Notify(msg)
    BY <1>2, NotifyIdle, SameListExplained DEF Idle
  <1>3. CASE AnswerTransaction(msg)
    <2>1. t # None /\ m \in Pending /\ t \in Transactions
      BY <1>1, <1>3 DEF AnswerTransaction, AnswerWith, Pending, IInv, TypeOK
    <2>2. CASE Derails(t, msg)
      <3>1. /\ GoUndefined
            /\ misuse' = IF t.peerFreed \/ t.cb THEN misuse
                         ELSE misuse \cup {"no callback"}
        BY <1>3, <2>2 DEF AnswerTransaction, AnswerWith
      <3>2. t.peerFreed => "client freed" \in misuse
        BY <2>1 DEF UndefinedExplained
      <3>3. t.obsFreed => misuse # {}
        BY <2>1 DEF UndefinedExplained
      <3>4. t.peerFreed \/ ~t.cb \/ t.obsFreed
        BY <2>2 DEF Derails, StaleCallback
      <3>5. misuse' # {} /\ misuse \subseteq misuse'
        BY <3>1, <3>2, <3>3, <3>4
      <3>6. UNCHANGED transactions
        BY <3>1 DEF GoUndefined
      <3>7. QED
        BY <3>5, <3>6, SameListExplained
    <2>3. CASE ~Derails(t, msg)
      <3>1. /\ phase' = "step" /\ UNCHANGED misuse
            /\ UNCHANGED transactions \/ transactions' = Removed({m})
        BY <1>3, <2>3 DEF AnswerTransaction, AnswerWith
      <3>2. NothingFreed
        BY <3>1 DEF NothingFreed, Unserialised, Pending, Removed
      <3>3. QED
        BY <3>1, <3>2, NothingFreedExplained
    <2>4. QED
      BY <2>2, <2>3
  <1>4. QED
    BY <1>2, <1>3 DEF ReceiveReply

LEMMA WalkExplained ==
    ASSUME TypeOK, UndefinedExplained, Walk, misuse' = misuse
    PROVE  UndefinedExplained'
  <1>1. PICK noBuffer, noClock :
           WalkList(Touched(noBuffer), Gone(noBuffer, noClock),
                    Told(noBuffer, noClock), noBuffer, noClock)
    BY DEF Walk
  <1> DEFINE touched == Touched(noBuffer)
             gone    == Gone(noBuffer, noClock)
             told    == Told(noBuffer, noClock)
  <1>3. touched \subseteq Pending /\ told \subseteq Pending
    BY DEF Touched, Told, Gone
  <1>4. /\ \A m \in Mids : Walked(touched, gone, noClock)[m] # None =>
              /\ m \in Pending
              /\ SameRequest(Walked(touched, gone, noClock)[m], transactions[m])
    BY WalkedType
  <1> HIDE DEF touched, gone, told
  <1>5. WalkList(touched, gone, told, noBuffer, noClock)
    BY <1>1 DEF touched, gone, told
  <1>6. CASE \/ \E m \in touched : transactions[m].peerFreed
             \/ \E m \in told : StaleCallback(transactions[m])
    <2>1. misuse # {}
      BY <1>3, <1>6 DEF UndefinedExplained, StaleCallback
    <2>2. UNCHANGED transactions
      BY <1>5, <1>6 DEF WalkList, GoUndefined
    <2>3. QED
      BY <2>1, <2>2, SameListExplained
  <1>7. CASE ~(\/ \E m \in touched : transactions[m].peerFreed
               \/ \E m \in told : StaleCallback(transactions[m]))
    <2>1. phase' = "select" /\ transactions' = Walked(touched, gone, noClock)
      BY <1>5, <1>7 DEF WalkList
    <2>2. NothingFreed
      <3>1. ASSUME NEW m \in Unserialised'
            PROVE  m \in Unserialised /\ transactions'[m].op = transactions[m].op
        <4>1. /\ m \in Mids /\ transactions'[m] # None
              /\ Unsent(transactions'[m].timer)
          BY DEF Unserialised, Pending
        <4>2. m \in Pending /\ transactions'[m].op = transactions[m].op
          BY <1>4, <2>1, <4>1 DEF SameRequest
        <4>3. transactions'[m] = transactions[m]
          <5> DEFINE ok == m \notin noClock
          <5>1. m \notin gone
            BY <2>1, <4>1 DEF Walked, Removed
          <5>2. CASE m \in touched
            <6>1. ~GivesUp(transactions[m].timer, ok)
              BY <5>1, <5>2 DEF gone, Gone, touched
            <6>2. transactions[m].timer \in Timers /\ ok \in BOOLEAN
              BY <4>2 DEF TypeOK, Pending, Transactions
            <6>3. transactions'[m].timer = Resent(transactions[m].timer, ok)
              BY <2>1, <4>1, <4>2, <5>1, <5>2
              DEF Walked, SentAgain, TypeOK, Pending, Transactions
            <6> HIDE DEF ok
            <6>4. QED
              BY <4>1, <6>1, <6>2, <6>3, ResentType
          <5>3. QED
            BY <2>1, <4>1, <5>1, <5>2 DEF Walked
        <4>4. QED
          BY <4>1, <4>2, <4>3 DEF Unserialised
      <3>2. \A m \in Pending' : m \in Pending
                /\ SameRequest(transactions'[m], transactions[m])
        BY <1>4, <2>1 DEF Pending
      <3>3. QED
        BY <3>1, <3>2 DEF NothingFreed, SameRequest
    <2>3. QED
      BY <2>1, <2>2, NothingFreedExplained
  <1>8. QED
    BY <1>6, <1>7

LEMMA StepExplained ==
    ASSUME TypeOK, UndefinedExplained, Lwm2mStep
    PROVE  UndefinedExplained'
  <1>a. CASE \E m \in Unserialised : transactions[m].op \in MayHavePayload
    <2>1. misuse # {} /\ misuse' = misuse
      BY <1>a DEF UndefinedExplained, Lwm2mStep
    <2>2. CASE Walk
      BY <2>1, <2>2, WalkExplained
    <2>3. CASE ~Walk
      BY <2>1, <2>3, SameListExplained DEF Lwm2mStep, GoUndefined
    <2>4. QED
      BY <2>2, <2>3
  <1>b. CASE ~(\E m \in Unserialised : transactions[m].op \in MayHavePayload)
    <2>1. misuse' = misuse
      BY DEF Lwm2mStep
    <2>2. CASE Walk
      BY <2>1, <2>2, WalkExplained
    <2>3. CASE ~Walk
      BY <1>b, <2>1, <2>3, SameListExplained DEF Lwm2mStep
    <2>4. QED
      BY <2>2, <2>3
  <1>c. QED
    BY <1>a, <1>b

\* The engine reaches undefined behaviour only after one of the events that
\* `misuse` records: it never follows a stale pointer for another reason.
THEOREM UndefinedIsExplained == Spec => []UndefinedExplained
  <1>1. Init => UndefinedExplained
    BY DEF Init, UndefinedExplained, Unserialised, Pending
  <1>2. IInv /\ UndefinedExplained /\ [Next]_vars => UndefinedExplained'
    <2> SUFFICES ASSUME IInv, UndefinedExplained, [Next]_vars
                 PROVE  UndefinedExplained'
      OBVIOUS
    <2>0. TypeOK
      BY DEF IInv
    <2>1. ASSUME NEW from \in Addrs, NEW name \in Names \cup {None},
                 NEW block2 \in BOOLEAN, Register(from, 0, name, block2)
          PROVE  UndefinedExplained'
      <3>1. /\ UNCHANGED transactions /\ misuse \subseteq misuse'
            /\ phase' = "undefined" => misuse' # {}
        BY <2>1 DEF Register, Answered
      <3>2. QED
        BY <3>1, SameListExplained
    <2>2. ASSUME NEW from \in Addrs, NEW target \in Ids \cup {None, MaxClients},
                 NEW block2 \in BOOLEAN, Deregister(from, 0, target, block2)
          PROVE  UndefinedExplained'
      BY <2>0, <2>2, DeregisterExplained
    <2>3. CASE \/ \E op \in Ops, id \in Ids, u \in Uris, cb \in Callbacks :
                     DmRequest(op, id, u, cb)
               \/ \E id \in Ids, u \in Uris : Observe(id, u)
      BY <2>0, <2>3, RequestExplained
    <2>4. ASSUME NEW id \in Ids, NEW u \in Uris, ObserveCancel(id, u)
          PROVE  UndefinedExplained'
      BY <2>0, <2>4, ObserveCancelExplained
    <2>5. ASSUME NEW msg \in Replies, ReceiveReply(msg)
          PROVE  UndefinedExplained'
      BY <2>5, ReceiveReplyExplained
    <2>6. CASE Lwm2mStep
      BY <2>0, <2>6, StepExplained
    <2>7. CASE Wake
      BY <2>7, SameListExplained DEF Wake
    <2>8. CASE Tick
      <3>1. \A m \in Mids : transactions[m] # None =>
               SameRequest(Older(transactions[m]), transactions[m])
        BY <2>0, OlderType DEF TypeOK
      <3>2. /\ transactions' = [m \in Mids |-> IF transactions[m] = None THEN None
                                               ELSE Older(transactions[m])]
            /\ phase' = phase /\ phase \in Open /\ misuse' = misuse
        BY <2>8 DEF Tick, Open
      <3>3. ASSUME NEW m \in Unserialised'
            PROVE  m \in Unserialised /\ transactions'[m].op = transactions[m].op
        <4>1. /\ m \in Mids /\ transactions[m] # None
              /\ transactions'[m] = Older(transactions[m])
              /\ Unsent(transactions'[m].timer)
          BY <3>2 DEF Unserialised, Pending
        <4>2. Unsent(transactions[m].timer)
          BY <2>0, <4>1 DEF Older, Aged, Unsent, TypeOK, Transactions, Timers
        <4>3. QED
          BY <3>1, <4>1, <4>2 DEF Unserialised, Pending, SameRequest
      <3>5. NothingFreed
        BY <3>1, <3>2, <3>3 DEF NothingFreed, Pending, SameRequest
      <3>4. QED
        BY <3>2, <3>5, NothingFreedExplained DEF Open
    <2>9. CASE Close
      BY <2>9 DEF Close, UndefinedExplained, Unserialised, Pending
    <2>10. CASE UNCHANGED vars
      BY <2>10 DEF vars, UndefinedExplained, Unserialised, Pending
    <2>11. QED
      BY <2>1, <2>2, <2>3, <2>4, <2>5, <2>6, <2>7, <2>8, <2>9, <2>10 DEF Next
  <1>3. QED
    BY <1>1, <1>2, InvariantHolds, PTL DEF Spec

-----------------------------------------------------------------------------
(* One timer                                                                *)

\* transaction_new zeroes everything, and only transaction_send changes it.
Fresh(t) == Unsent(t) => t.wait = 0 /\ t.age = 0 /\ t.sends = 0

\* The sleep of select() ends before the next transmission is due, or, if it
\* is overdue, before the loop is later than it may be.
InTime(t, asleep, sleep) ==
    ~Unsent(t) =>
        /\ t.wait >= -MaxLate
        /\ asleep => \/ sleep <= t.wait
                     \/ sleep <= 1 /\ t.wait <= 0 /\ t.wait - sleep >= -MaxLate

Timely(t, asleep, sleep) == Fresh(t) /\ OnSchedule(t) /\ InTime(t, asleep, sleep)

TimersOK ==
    \A m \in Pending : Timely(transactions[m].timer, phase = "select", timeout)

LEMMA Deadlines ==
    Deadline(1) = 0 /\ Deadline(2) = 2 /\ Deadline(3) = 6 /\ Deadline(4) = 12
  BY DEF Deadline, COAP_RESPONSE_TIMEOUT

LEMMA NewTimerTimely ==
    ASSUME NEW b \in BOOLEAN, NEW s
    PROVE  NewTimer \in Timers /\ Timely(NewTimer, b, s)
  BY DEF NewTimer, Timers, Timely, Fresh, OnSchedule, InTime, Unsent,
         COAP_MAX_RETRANSMIT

\* What one more transmission does to a timer that is on schedule.
LEMMA ResentTimely ==
    ASSUME NEW t \in Timers, NEW ok \in BOOLEAN, ~GivesUp(t, ok),
           Fresh(t), OnSchedule(t)
    PROVE  /\ ~Unsent(Resent(t, ok))
           /\ Resent(t, ok).wait >= t.wait + 2
           /\ OnSchedule(Resent(t, ok))
  <1> DEFINE c == CounterAtSend(t, ok)
             r == Resent(t, ok)
  <1>1. /\ t.counter \in 0..4 /\ t.wait \in Int /\ t.age \in Nat /\ t.sends \in Nat
    BY DEF Timers, COAP_MAX_RETRANSMIT
  <1>2. c \in 1..3 /\ (t.counter = 0 => c = 1) /\ (t.counter # 0 => c = t.counter)
    BY <1>1 DEF GivesUp, CounterAtSend, Unsent, COAP_MAX_RETRANSMIT
  <1> HIDE DEF c
  <1>3. r = [counter |-> c + 1, wait |-> t.wait + 2 * c,
             age |-> t.age, sends |-> t.sends + 1]
    BY DEF Resent, c, COAP_RESPONSE_TIMEOUT
  <1>4. t.sends = c - 1 /\ t.age + t.wait = Deadline(c)
    <2>1. CASE t.counter = 0
      BY <1>1, <1>2, <2>1, Deadlines DEF Fresh, Unsent
    <2>2. CASE t.counter # 0
      BY <1>1, <1>2, <2>2 DEF OnSchedule, Unsent
    <2>3. QED
      BY <2>1, <2>2
  <1>5. r.counter = c + 1 /\ r.wait = t.wait + 2 * c /\ r.age = t.age
        /\ r.sends = t.sends + 1
    BY <1>3
  <1> HIDE DEF r
  <1>6. c = 1 \/ c = 2 \/ c = 3
    BY <1>2
  <1>7. r.age + r.wait = Deadline(r.counter)
    BY <1>1, <1>4, <1>5, <1>6, Deadlines
  <1>8. r.sends = r.counter - 1 /\ r.counter >= 2 /\ r.counter # 0
        /\ r.wait >= t.wait + 2
    BY <1>1, <1>4, <1>5, <1>6
  <1>9. QED
    BY <1>7, <1>8 DEF OnSchedule, Unsent, r

LEMMA FirstSendTimely ==
    ASSUME NEW s
    PROVE  Timely(Resent(NewTimer, TRUE), FALSE, s)
  <1>1. Fresh(NewTimer) /\ OnSchedule(NewTimer) /\ NewTimer \in Timers
    BY NewTimerTimely DEF Timely
  <1>2. ~GivesUp(NewTimer, TRUE) /\ NewTimer.wait = 0
    BY DEF NewTimer, GivesUp, CounterAtSend, Unsent, COAP_MAX_RETRANSMIT
  <1> DEFINE r == Resent(NewTimer, TRUE)
  <1>3. ~Unsent(r) /\ r.wait >= 2 /\ OnSchedule(r)
    <2>1. TRUE \in BOOLEAN
      OBVIOUS
    <2>2. /\ ~Unsent(r) /\ OnSchedule(r)
          /\ r.wait >= NewTimer.wait + 2
      BY <1>1, <1>2, <2>1, ResentTimely, Zenon
    <2> HIDE DEF r
    <2>3. QED
      BY <1>2, <2>2
  <1>4. r.wait \in Int
    BY <1>1, <1>2, ResentType DEF Timers
  <1> HIDE DEF r
  <1>5. r.wait >= -MaxLate
    BY <1>3, <1>4, BoundsAssumption
  <1>6. Timely(r, FALSE, s)
    BY <1>3, <1>5 DEF Timely, Fresh, InTime
  <1>7. QED
    BY <1>6 DEF r

\* A second more, in select() or on the way to lwm2m_step.
LEMMA AgedTimely ==
    ASSUME NEW t \in Timers, NEW b \in BOOLEAN, NEW s \in Int, Timely(t, b, s),
           b => s > 0, ~b => Unsent(t) \/ t.wait > -MaxLate
    PROVE  /\ b => Timely(Aged(t), b, s - 1)
           /\ ~b => Timely(Aged(t), b, s)
  <1> DEFINE a == Aged(t)
  <1>0. MaxLate \in Nat
    BY BoundsAssumption
  <1>1. t.counter \in Nat /\ t.wait \in Int /\ t.age \in Nat /\ t.sends \in Nat
    BY DEF Timers, COAP_MAX_RETRANSMIT
  <1>2. CASE Unsent(t)
    BY <1>2 DEF Aged, Timely, InTime
  <1>3. CASE ~Unsent(t)
    <2>1. a = [counter |-> t.counter, wait |-> t.wait - 1,
               age |-> t.age + 1, sends |-> t.sends]
      BY <1>3 DEF Aged
    <2>2. /\ a.counter = t.counter /\ a.wait = t.wait - 1
          /\ a.age = t.age + 1 /\ a.sends = t.sends
      BY <2>1
    <2> HIDE DEF a
    <2>3. ~Unsent(a)
      BY <1>3, <2>2 DEF Unsent
    <2>4. t.sends = t.counter - 1 /\ t.counter >= 2
          /\ t.age + t.wait = Deadline(t.counter)
      BY <1>3 DEF Timely, OnSchedule
    <2>5. a.age + a.wait = t.age + t.wait
      BY <1>1, <2>2
    <2>6. OnSchedule(a)
      BY <2>2, <2>3, <2>4, <2>5 DEF OnSchedule
    <2>7. /\ t.wait >= -MaxLate
          /\ b => \/ s <= t.wait
                  \/ s <= 1 /\ t.wait <= 0 /\ t.wait - s >= -MaxLate
      BY <1>3 DEF Timely, InTime
    <2>8. CASE b
      <3>1. /\ a.wait >= -MaxLate
            /\ \/ s - 1 <= a.wait
               \/ s - 1 <= 1 /\ a.wait <= 0 /\ a.wait - (s - 1) >= -MaxLate
        BY <1>0, <1>1, <2>2, <2>7, <2>8
      <3>2. Timely(a, TRUE, s - 1)
        BY <2>3, <2>6, <3>1 DEF Timely, InTime, Fresh
      <3>3. QED
        BY <2>8, <3>2 DEF a
    <2>9. CASE ~b
      <3>1. a.wait >= -MaxLate
        BY <1>0, <1>1, <1>3, <2>2, <2>9
      <3>2. Timely(a, FALSE, s)
        BY <2>3, <2>6, <3>1 DEF Timely, InTime, Fresh
      <3>3. QED
        BY <2>9, <3>2 DEF a
    <2>10. QED
      BY <2>8, <2>9
  <1>4. QED
    BY <1>2, <1>3

-----------------------------------------------------------------------------
(* The timers of the list                                                   *)

\* Every timer was there before, or is that of a request that was just made.
TimersKept ==
    \A m \in Pending' :
        \/ m \in Pending /\ transactions'[m].timer = transactions[m].timer
        \/ transactions'[m].timer = NewTimer
        \/ transactions'[m].timer = Resent(NewTimer, TRUE)

LEMMA KeptTimersOK ==
    ASSUME TimersOK, TimersKept, phase' # "select"
    PROVE  TimersOK'
  <1>1. ASSUME NEW t, Timely(t, phase = "select", timeout)
        PROVE  Timely(t, FALSE, timeout')
    BY <1>1 DEF Timely, InTime
  <1>2. /\ Timely(NewTimer, FALSE, timeout')
        /\ Timely(Resent(NewTimer, TRUE), FALSE, timeout')
    BY NewTimerTimely, FirstSendTimely
  <1>3. \A m \in Pending' : Timely(transactions'[m].timer, FALSE, timeout')
    BY <1>1, <1>2 DEF TimersOK, TimersKept
  <1>4. (phase' = "select") = FALSE
    OBVIOUS
  <1>5. QED
    BY <1>3, <1>4 DEF TimersOK

LEMMA LaunchTimers ==
    ASSUME TypeOK, NEW op \in Operations, NEW id \in Ids,
           NEW o \in ObsIds \cup {None}, NEW u \in Uris, NEW cb \in BOOLEAN,
           NEW obs, Launch(NewTransaction(op, id, o, u, cb), obs)
    PROVE  TimersKept
  <1> DEFINE t == NewTransaction(op, id, o, u, cb)
             v == SentAgain(t, TRUE)
  <1>1. t \in Transactions /\ t.timer = NewTimer
    BY NewTransactionType DEF NewTransaction
  <1>2. v.timer = Resent(NewTimer, TRUE)
    BY <1>1 DEF SentAgain, Transactions
  <1>3. \/ transactions' = transactions
        \/ transactions' = [transactions EXCEPT ![nextMID] = t]
        \/ transactions' = [transactions EXCEPT ![nextMID] = v]
    BY Zenon DEF Launch
  <1> HIDE DEF t, v
  <1>4. \A m \in Mids : transactions'[m] \in {transactions[m], t, v}
    BY <1>3 DEF TypeOK
  <1>5. QED
    BY <1>1, <1>2, <1>4 DEF TimersKept, Pending

LEMMA RequestTimers ==
    ASSUME TypeOK,
           \/ \E op \in Ops, id \in Ids, u \in Uris, cb \in Callbacks :
                 DmRequest(op, id, u, cb)
           \/ \E id \in Ids, u \in Uris : Observe(id, u)
    PROVE  TimersKept /\ phase' = "step"
  <1>1. phase' = "step"
    BY DEF DmRequest, Observe
  <1>2. Refuse => TimersKept
    BY DEF Refuse, TimersKept, Pending
  <1>3. ASSUME NEW op \in Ops, NEW id \in Ids, NEW u \in Uris,
               NEW cb \in Callbacks, DmRequest(op, id, u, cb)
        PROVE  TimersKept
    <2>1. op \in Operations /\ cb \in BOOLEAN
      BY InputAssumption
    <2>2. Refuse \/ Launch(NewTransaction(op, id, None, u, cb), observations)
      BY <1>3, Zenon DEF DmRequest
    <2>3. QED
      BY <1>2, <2>1, <2>2, LaunchTimers
  <1>4. ASSUME NEW id \in Ids, NEW u \in Uris, Observe(id, u)
        PROVE  TimersKept
    <2>1. "observe" \in Operations /\ TRUE \in BOOLEAN
      BY DEF Operations
    <2>2. \/ Refuse
          \/ \E o \in ObsIds : \E obs :
                Launch(NewTransaction("observe", id, o, u, TRUE), obs)
      BY <1>4, Zenon DEF Observe
    <2>3. QED
      BY <1>2, <2>1, <2>2, LaunchTimers
  <1>5. QED
    BY <1>1, <1>3, <1>4

LEMMA DeregisterTimers ==
    ASSUME TypeOK, NEW from \in Addrs, NEW target \in Ids \cup {None, MaxClients},
           NEW block2 \in BOOLEAN, Deregister(from, 0, target, block2)
    PROVE  TimersKept /\ phase' # "select"
  <1> DEFINE id == IF target = None THEN 0 ELSE target
  <1>1. /\ phase' # "select"
        /\ \/ UNCHANGED transactions
           \/ transactions' = [m \in Mids |->
                    IF m \in PendingWith(id)
                    THEN [transactions[m] EXCEPT !.peerFreed = TRUE,
                                                 !.obsFreed = TRUE]
                    ELSE transactions[m]]
    BY Zenon DEF Deregister, Answered
  <1> HIDE DEF id
  <1>2. \A m \in PendingWith(id) :
           /\ m \in Pending
           /\ [transactions[m] EXCEPT !.peerFreed = TRUE, !.obsFreed = TRUE].timer
                 = transactions[m].timer
    BY DEF PendingWith, Pending, TypeOK, Transactions
  <1>3. QED
    BY <1>1, <1>2 DEF TimersKept, Pending

LEMMA ObserveCancelTimers ==
    ASSUME TypeOK, NEW id \in Ids, NEW u \in Uris, ObserveCancel(id, u)
    PROVE  TimersKept /\ phase' = "step"
  <1>1. phase' = "step"
    BY DEF ObserveCancel
  <1>2. PICK o \in ObsIds :
           transactions' = [m \in Mids |->
                 IF m \in Carriers(id, o)
                 THEN [transactions[m] EXCEPT !.obsFreed = TRUE]
                 ELSE transactions[m]]
    BY DEF ObserveCancel
  <1>3. \A m \in Carriers(id, o) :
           /\ m \in Pending
           /\ [transactions[m] EXCEPT !.obsFreed = TRUE].timer
                 = transactions[m].timer
    BY DEF Carriers, Pending, TypeOK, Transactions
  <1>4. QED
    BY <1>1, <1>2, <1>3 DEF TimersKept, Pending

LEMMA ReceiveReplyTimers ==
    ASSUME NEW msg \in Replies, ReceiveReply(msg)
    PROVE  TimersKept /\ phase' # "select"
  <1>1. CASE Notify(msg)
    BY <1>1, NotifyIdle DEF Idle, TimersKept, Pending
  <1>2. CASE AnswerTransaction(msg)
    <2>1. transactions[msg.mid] # None
      BY <1>2 DEF AnswerTransaction, AnswerWith
    <2>2. /\ phase' \in {"step", "undefined"}
          /\ transactions' = transactions \/ transactions' = Removed({msg.mid})
      BY <1>2, <2>1, AnswerEffect DEF Idle
    <2>3. QED
      BY <2>2 DEF TimersKept, Pending, Removed
  <1>3. QED
    BY <1>1, <1>2 DEF ReceiveReply

\* One pass of lwm2m_step over the list, and the sleep it computes.
LEMMA StepTimers ==
    ASSUME TypeOK, TimersOK, Lwm2mStep
    PROVE  TimersOK'
  <1>a. CASE ~Walk
    <2>1. UNCHANGED transactions /\ phase' # "select"
      BY <1>a DEF Lwm2mStep, GoUndefined
    <2>2. TimersKept
      BY <2>1 DEF TimersKept, Pending
    <2>3. QED
      BY <2>1, <2>2, KeptTimersOK
  <1>b. SUFFICES ASSUME Walk PROVE TimersOK'
    BY <1>a
  <1>1. PICK noBuffer \in SUBSET Unserialised, noClock \in SUBSET Unserialised :
           WalkList(Touched(noBuffer), Gone(noBuffer, noClock),
                    Told(noBuffer, noClock), noBuffer, noClock)
    BY <1>b DEF Walk
  <1> DEFINE touched == Touched(noBuffer)
             gone    == Gone(noBuffer, noClock)
             told    == Told(noBuffer, noClock)
  <1>2. \A m \in Mids : /\ m \in touched <=> /\ m \in Pending
                                             /\ Due(transactions[m].timer)
                                             /\ m \notin noBuffer
                        /\ m \in gone <=> /\ m \in touched
                                          /\ GivesUp(transactions[m].timer, m \notin noClock)
    BY DEF Touched, Gone, Pending
  <1> HIDE DEF touched, gone, told
  <1>3. WalkList(touched, gone, told, noBuffer, noClock)
    BY <1>1 DEF touched, gone, told
  <1>4. CASE \/ \E m \in touched : transactions[m].peerFreed
             \/ \E m \in told : StaleCallback(transactions[m])
    <2>1. UNCHANGED transactions /\ phase' = "undefined"
      BY <1>3, <1>4 DEF WalkList, GoUndefined
    <2>2. TimersKept
      BY <2>1 DEF TimersKept, Pending
    <2>3. QED
      BY <2>1, <2>2, KeptTimersOK
  <1>5. CASE ~(\/ \E m \in touched : transactions[m].peerFreed
               \/ \E m \in told : StaleCallback(transactions[m]))
    <2>1. /\ transactions' = Walked(touched, gone, noClock)
          /\ timeout' \in 1..SelectTimeout
          /\ IsSleep(timeout', {m \in Mids \ noBuffer : transactions'[m] # None})
      BY <1>3, <1>5 DEF WalkList
    <2>2. ASSUME NEW m \in Pending'
          PROVE  Timely(transactions'[m].timer, phase' = "select", timeout')
      <3> DEFINE t == transactions[m].timer
                 r == transactions'[m].timer
      <3>1. m \in Mids /\ transactions'[m] # None
        BY DEF Pending
      <3>2. m \in Pending /\ m \notin gone
        BY <1>2, <2>1, <3>1 DEF Walked, Removed, Pending
      <3>3. t \in Timers /\ Timely(t, phase = "select", timeout)
        BY <3>2 DEF TimersOK, TypeOK, Pending, Transactions
      <3>4. m \notin noBuffer => timeout' <= Interval(r)
        BY <2>1, <3>1 DEF IsSleep
      <3>5. timeout' \in Int /\ timeout' >= 1 /\ MaxLate \in Nat
        BY <2>1, BoundsAssumption
      <3>6. CASE m \in touched
        <4> DEFINE ok == m \notin noClock
        <4>1. ok \in BOOLEAN /\ ~GivesUp(t, ok)
          BY <1>2, <3>1, <3>2, <3>6
        <4>2. transactions'[m] = SentAgain(transactions[m], ok)
          BY <2>1, <3>1, <3>2, <3>6 DEF Walked
        <4>3. m \notin noBuffer
          BY <1>2, <3>1, <3>6
        <4> HIDE DEF ok
        <4>4. r = Resent(t, ok)
          BY <3>2, <4>2 DEF SentAgain, TypeOK, Pending, Transactions
        <4> HIDE DEF t, r
        <4>5. Fresh(t) /\ OnSchedule(t)
          BY <3>3 DEF Timely
        <4>6. r \in Timers /\ ~Unsent(r) /\ r.wait >= t.wait + 2 /\ OnSchedule(r)
          BY <3>3, <4>1, <4>4, <4>5, ResentTimely, ResentType
        <4>7. t.wait \in Int /\ r.wait \in Int /\ t.wait >= -MaxLate
          BY <3>3, <3>5, <4>6 DEF Timely, InTime, Fresh, Timers
        <4>8. timeout' <= (IF r.wait > 0 THEN r.wait ELSE 1)
          BY <3>4, <4>3 DEF Interval
        <4>9. /\ r.wait >= -MaxLate
              /\ \/ timeout' <= r.wait
                 \/ timeout' <= 1 /\ r.wait <= 0 /\ r.wait - timeout' >= -MaxLate
          BY <3>5, <4>6, <4>7, <4>8
        <4>10. QED
          BY <4>6, <4>9 DEF Timely, InTime, Fresh, r
      <3>7. CASE m \notin touched
        <4>1. r = t
          BY <2>1, <3>1, <3>2, <3>7 DEF Walked
        <4>2. CASE m \in noBuffer
          <5>1. Unsent(t)
            BY <4>2 DEF Unserialised
          <5>2. QED
            BY <3>3, <4>1, <5>1 DEF Timely, InTime
        <4>3. CASE m \notin noBuffer
          <5>1. ~Due(t)
            BY <1>2, <3>1, <3>2, <3>7, <4>3
          <5>2. t.wait \in Int
            BY <3>3 DEF Timers
          <5> HIDE DEF t, r
          <5>3. t.wait > 0 /\ timeout' <= t.wait
            BY <3>4, <4>1, <4>3, <5>1, <5>2 DEF Due, Interval
          <5>4. InTime(t, phase' = "select", timeout')
            BY <3>3, <5>3 DEF InTime, Timely
          <5>5. QED
            BY <3>3, <4>1, <5>4 DEF Timely, r
        <4>4. QED
          BY <4>2, <4>3
      <3>8. QED
        BY <3>6, <3>7
    <2>3. QED
      BY <2>2 DEF TimersOK
  <1>6. QED
    BY <1>4, <1>5

LEMMA TickTimers ==
    ASSUME TypeOK, TimersOK, Tick
    PROVE  TimersOK'
  <1>1. timeout \in Int
    BY DEF TypeOK
  <1>2. transactions' = [m \in Mids |-> IF transactions[m] = None THEN None
                                        ELSE Older(transactions[m])]
        /\ phase' = phase
    BY DEF Tick
  <1> DEFINE b == phase = "select"
  <1>3. /\ b => timeout > 0 /\ timeout' = timeout - 1
        /\ ~b => /\ timeout' = timeout
                 /\ \A m \in Pending : transactions[m].timer.wait > -MaxLate
    BY DEF Tick
  <1>4. ASSUME NEW m \in Pending'
        PROVE  Timely(transactions'[m].timer, phase' = "select", timeout')
    <2>1. m \in Mids /\ transactions[m] # None
      BY <1>2 DEF Pending
    <2>2. m \in Pending /\ transactions[m] \in Transactions
      BY <2>1 DEF Pending, TypeOK
    <2> DEFINE t == transactions[m].timer
    <2>3. t \in Timers /\ Timely(t, b, timeout)
      BY <2>2 DEF Transactions, TimersOK
    <2>4. transactions'[m].timer = Aged(t)
      BY <1>2, <2>1, <2>2 DEF Older, Transactions
    <2>5. /\ b \in BOOLEAN
          /\ b => timeout > 0
          /\ ~b => Unsent(t) \/ t.wait > -MaxLate
      BY <1>3, <2>2
    <2> HIDE DEF b, t
    <2>6. /\ b => Timely(Aged(t), b, timeout - 1)
          /\ ~b => Timely(Aged(t), b, timeout)
      BY <1>1, <2>3, <2>5, AgedTimely, Zenon
    <2>7. timeout' = IF b THEN timeout - 1 ELSE timeout
      BY <1>3
    <2>8. Timely(Aged(t), b, timeout')
      BY <2>6, <2>7
    <2>9. QED
      BY <1>2, <2>4, <2>8 DEF b
  <1>5. QED
    BY <1>4 DEF TimersOK

LEMMA NextTimersOK == TypeOK /\ TimersOK /\ [Next]_vars => TimersOK'
  <1> SUFFICES ASSUME TypeOK, TimersOK, [Next]_vars PROVE TimersOK'
    OBVIOUS
  <1>1. ASSUME NEW from \in Addrs, NEW name \in Names \cup {None},
               NEW block2 \in BOOLEAN, Register(from, 0, name, block2)
        PROVE  TimersOK'
    <2>1. UNCHANGED transactions /\ phase' # "select"
      BY <1>1 DEF Register, Answered
    <2>2. TimersKept
      BY <2>1 DEF TimersKept, Pending
    <2>3. QED
      BY <2>1, <2>2, KeptTimersOK
  <1>2. ASSUME NEW from \in Addrs, NEW target \in Ids \cup {None, MaxClients},
               NEW block2 \in BOOLEAN, Deregister(from, 0, target, block2)
        PROVE  TimersOK'
    BY <1>2, DeregisterTimers, KeptTimersOK
  <1>3. CASE \/ \E op \in Ops, id \in Ids, u \in Uris, cb \in Callbacks :
                   DmRequest(op, id, u, cb)
             \/ \E id \in Ids, u \in Uris : Observe(id, u)
    BY <1>3, RequestTimers, KeptTimersOK
  <1>4. ASSUME NEW id \in Ids, NEW u \in Uris, ObserveCancel(id, u)
        PROVE  TimersOK'
    BY <1>4, ObserveCancelTimers, KeptTimersOK
  <1>5. ASSUME NEW msg \in Replies, ReceiveReply(msg)
        PROVE  TimersOK'
    BY <1>5, ReceiveReplyTimers, KeptTimersOK
  <1>6. CASE Lwm2mStep
    BY <1>6, StepTimers
  <1>7. CASE Wake
    <2>1. UNCHANGED transactions /\ phase' = "step"
      BY <1>7 DEF Wake
    <2>2. TimersKept
      BY <2>1 DEF TimersKept, Pending
    <2>3. QED
      BY <2>1, <2>2, KeptTimersOK
  <1>8. CASE Tick
    BY <1>8, TickTimers
  <1>9. CASE Close
    BY <1>9 DEF Close, TimersOK, Pending
  <1>10. CASE UNCHANGED vars
    BY <1>10 DEF vars, TimersOK, Pending
  <1>11. QED
    BY <1>1, <1>2, <1>3, <1>4, <1>5, <1>6, <1>7, <1>8, <1>9, <1>10 DEF Next

\* Every timer of the list is on schedule and in time, in every reachable
\* state: what the properties of the timers follow from.
THEOREM TimersHold == Spec => []TimersOK
  <1>1. Init => TimersOK
    BY DEF Init, TimersOK, Pending
  <1>2. QED
    BY <1>1, NextTimersOK, TypeCorrect, PTL DEF Spec

\* A request is sent for the second, third and fourth time 2, 6 and 12
\* seconds after the first, by a loop that is late by any amount.
THEOREM ScheduleHolds == Spec => []Schedule
  <1>1. TimersOK => Schedule
    BY DEF TimersOK, Timely, Schedule
  <1>2. QED
    BY <1>1, TimersHold, PTL

\* The sleep of select() never carries the loop past a transmission: its
\* lateness is that of the machine alone, however many transactions there are.
THEOREM PunctualHolds == Spec => []Punctual
  <1>1. TimersOK => Punctual
    <2> SUFFICES ASSUME TimersOK, NEW m \in Pending,
                        ~Unsent(transactions[m].timer)
                 PROVE  /\ transactions[m].timer.wait >= -MaxLate
                        /\ phase = "select" =>
                              \/ timeout <= transactions[m].timer.wait
                              \/ timeout <= 1 /\ transactions[m].timer.wait <= 0
      BY DEF Punctual
    <2>1. InTime(transactions[m].timer, phase = "select", timeout)
      BY DEF TimersOK, Timely
    <2>2. QED
      BY <2>1 DEF InTime
  <1>2. QED
    BY <1>1, TimersHold, PTL

\* What a transaction that lwm2m_step gives up on went through.
LEMMA GivenUpTimer ==
    ASSUME NEW t \in Timers, OnSchedule(t), Due(t), GivesUp(t, TRUE)
    PROVE  /\ t.sends = COAP_MAX_RETRANSMIT - 1
           /\ t.age >= Deadline(COAP_MAX_RETRANSMIT)
  <1>1. t.counter = 4 /\ t.wait \in Int /\ t.age \in Nat
    BY DEF Timers, GivesUp, CounterAtSend, Unsent, COAP_MAX_RETRANSMIT
  <1>2. /\ t.sends = t.counter - 1
        /\ t.age + t.wait = Deadline(t.counter)
        /\ t.wait <= 0
    BY <1>1 DEF OnSchedule, Due, Unsent
  <1>3. t.sends = 3 /\ t.age >= 12
    BY <1>1, <1>2, Deadlines
  <1>4. QED
    BY <1>3, Deadlines DEF COAP_MAX_RETRANSMIT

GivenUpLate ==
    \A c \in calls' : c.status = "5.03" /\ "clock" \notin Faults =>
        /\ transactions[c.mid].timer.sends = COAP_MAX_RETRANSMIT - 1
        /\ transactions[c.mid].timer.age >= Deadline(COAP_MAX_RETRANSMIT)

LEMMA StepGivesUpLate ==
    ASSUME TypeOK, TimersOK, "clock" \notin Faults, Lwm2mStep
    PROVE  GivenUpLate
  <1>a. CASE ~Walk
    BY <1>a DEF Lwm2mStep, GoUndefined, GivenUpLate
  <1>b. SUFFICES ASSUME Walk PROVE GivenUpLate
    BY <1>a
  <1>1. PICK noBuffer \in SUBSET Unserialised, noClock \in SUBSET Unserialised :
           /\ noClock # {} => "clock" \in Faults
           /\ WalkList(Touched(noBuffer), Gone(noBuffer, noClock),
                       Told(noBuffer, noClock), noBuffer, noClock)
    BY <1>b DEF Walk
  <1> DEFINE told == Told(noBuffer, noClock)
  <1>2. noClock = {}
    BY <1>1
  <1>3. ASSUME NEW m \in told
        PROVE  /\ transactions[m].timer.sends = COAP_MAX_RETRANSMIT - 1
               /\ transactions[m].timer.age >= Deadline(COAP_MAX_RETRANSMIT)
    <2> DEFINE t == transactions[m].timer
               ok == m \notin noClock
    <2>1. m \in Pending /\ Due(t) /\ GivesUp(t, ok)
      BY <1>3 DEF Told, Gone, Touched
    <2>2. ok = TRUE
      BY <1>2
    <2>3. t \in Timers /\ OnSchedule(t)
      BY <2>1 DEF TypeOK, Pending, Transactions, TimersOK, Timely
    <2> HIDE DEF t, ok
    <2>4. GivesUp(t, TRUE)
      BY <2>1, <2>2
    <2>5. t.sends = COAP_MAX_RETRANSMIT - 1 /\ t.age >= Deadline(COAP_MAX_RETRANSMIT)
      BY <2>1, <2>3, <2>4, GivenUpTimer
    <2>6. QED
      BY <2>5 DEF t
  <1>4. calls' = {} \/ calls' = {Call(m, transactions[m], "5.03", None) : m \in told}
    BY <1>1, Zenon DEF WalkList, GoUndefined
  <1> HIDE DEF told
  <1>5. \A c \in calls' : c.mid \in told
    BY <1>4 DEF Call
  <1>6. QED
    BY <1>3, <1>5 DEF GivenUpLate

LEMMA ReplyGivesUpLate ==
    ASSUME \A r \in Replies : r.code # "5.03",
           NEW msg \in Replies, ReceiveReply(msg)
    PROVE  GivenUpLate
  <1>1. CASE Notify(msg)
    BY <1>1 DEF Notify, GivenUpLate
  <1>2. CASE AnswerTransaction(msg)
    <2> DEFINE t == transactions[msg.mid]
    <2>1. \/ calls' = {} \/ DeliverAnswer(msg.mid, t, msg)
      BY <1>2, Zenon DEF AnswerTransaction, AnswerWith, GoUndefined
    <2> HIDE DEF t
    <2>2. msg.code # "5.03" /\ ObserveStatus(msg) # "5.03"
      BY DEF ObserveStatus
    <2>3. \/ calls' = {}
          \/ \E s, d : s # "5.03" /\ calls' = {Call(msg.mid, t, s, d)}
      BY <2>1, <2>2, Zenon DEF DeliverAnswer
    <2>4. \A s, d : Call(msg.mid, t, s, d).status = s
      BY DEF Call
    <2>5. \A c \in calls' : c.status # "5.03"
      BY <2>3, <2>4
    <2>6. QED
      BY <2>5 DEF GivenUpLate
  <1>3. QED
    BY <1>1, <1>2 DEF ReceiveReply

\* If no peer answers 5.03 of its own, the application hears 5.03 only of a
\* request that was sent four times over 12 seconds or more.
THEOREM GivingUpIsPatient ==
    ASSUME \A r \in Replies : r.code # "5.03"
    PROVE  Spec => PatientGiveUp
  <1>1. TypeOK /\ TimersOK /\ [Next]_vars => [GivenUpLate]_vars
    <2> SUFFICES ASSUME TypeOK, TimersOK, Next PROVE GivenUpLate
      OBVIOUS
    <2>1. CASE Lwm2mStep
      BY <2>1, StepGivesUpLate DEF GivenUpLate
    <2>2. ASSUME NEW msg \in Replies, ReceiveReply(msg)
          PROVE  GivenUpLate
      BY <2>2, ReplyGivesUpLate
    <2>3. ASSUME calls' = {} PROVE GivenUpLate
      BY <2>3 DEF GivenUpLate
    <2>4. ASSUME "clock" \in Faults PROVE GivenUpLate
      BY <2>4 DEF GivenUpLate
    <2>5. ASSUME NEW op \in Ops, NEW id \in Ids, NEW u \in Uris,
                 NEW cb \in Callbacks, DmRequest(op, id, u, cb)
          PROVE  calls' = {} \/ "clock" \in Faults
      BY <2>5 DEF DmRequest, Launch, Refuse
    <2>6. ASSUME NEW id \in Ids, NEW u \in Uris, Observe(id, u) \/ ObserveCancel(id, u)
          PROVE  calls' = {} \/ "clock" \in Faults
      BY <2>6 DEF Observe, ObserveCancel, Launch, Refuse
    <2>7. ASSUME NEW from \in Addrs, NEW name \in Names \cup {None},
                 NEW block2 \in BOOLEAN, Register(from, 0, name, block2)
          PROVE  calls' = {}
      BY <2>7 DEF Register
    <2>8. ASSUME NEW from \in Addrs, NEW target \in Ids \cup {None, MaxClients},
                 NEW block2 \in BOOLEAN, Deregister(from, 0, target, block2)
          PROVE  calls' = {}
      BY <2>8 DEF Deregister
    <2>9. CASE Wake \/ Tick \/ Close
      BY <2>9, <2>3 DEF Wake, Tick, Close
    <2>10. QED
      BY <2>1, <2>2, <2>3, <2>4, <2>5, <2>6, <2>7, <2>8, <2>9 DEF Next
  <1>2. [][GivenUpLate]_vars => PatientGiveUp
    BY PTL DEF PatientGiveUp, GivenUpLate
  <1>3. QED
    BY <1>1, <1>2, TypeCorrect, TimersHold, PTL DEF Spec
=============================================================================
