-------------------------- MODULE Lwm2mClientProofs --------------------------
(***************************************************************************)
(* Safety of the client engine for every number of servers, resources and  *)
(* message IDs, and whatever the servers and strangers send: its pending   *)
(* registrations, what it does to the watchers of its resources, when it   *)
(* leaves defined behaviour, and that it implements Registration.          *)
(***************************************************************************)
EXTENDS Lwm2mClient, TLAPS, FiniteSetTheorems

-----------------------------------------------------------------------------
(* Timers and transactions                                                  *)

LEMMA SendAgain ==
    ASSUME NEW t \in Timers, NEW ok \in BOOLEAN, ~GivesUp(t, ok)
    PROVE  Resent(t, ok) \in Timers /\ ~Unsent(Resent(t, ok))
  <1> DEFINE c == CounterAtSend(t, ok)
  <1>1. c \in 1..3
    BY DEF Timers, GivesUp, CounterAtSend, Unsent, COAP_MAX_RETRANSMIT
  <1> HIDE DEF c
  <1>2. Resent(t, ok) = [counter |-> c + 1,
                         wait |-> t.wait + COAP_RESPONSE_TIMEOUT * c,
                         age |-> t.age, sends |-> t.sends + 1]
    BY DEF Resent, c
  <1>3. QED
    BY <1>1, <1>2 DEF Timers, Unsent, COAP_MAX_RETRANSMIT, COAP_RESPONSE_TIMEOUT

LEMMA FirstSend ==
    /\ NewTimer \in Timers
    /\ ~GivesUp(NewTimer, TRUE)
  BY DEF NewTimer, Timers, GivesUp, CounterAtSend, Unsent, COAP_MAX_RETRANSMIT

LEMMA Wait ==
    ASSUME NEW t \in Timers
    PROVE  Aged(t) \in Timers /\ (Unsent(Aged(t)) => Unsent(t))
  BY DEF Timers, Aged, Unsent

\* A transaction of server s that was sent.
SentTo(t, s) == t \in Transactions /\ t.server = s /\ ~Unsent(t.timer)

LEMMA SentAgainType ==
    ASSUME NEW t \in Transactions, NEW ok \in BOOLEAN, ~GivesUp(t.timer, ok)
    PROVE  SentTo(SentAgain(t, ok), t.server)
  <1>1. t.timer \in Timers
    BY DEF Transactions
  <1>2. SentAgain(t, ok) = [server |-> t.server, timer |-> Resent(t.timer, ok)]
    BY DEF SentAgain, Transactions
  <1>3. QED
    BY <1>1, <1>2, SendAgain DEF SentTo, Transactions

LEMMA NewRegistrationType ==
    ASSUME NEW s \in Servers
    PROVE  /\ NewRegistration(s) \in Transactions
           /\ NewRegistration(s).server = s
           /\ SentTo(SentAgain(NewRegistration(s), TRUE), s)
  <1> DEFINE t == NewRegistration(s)
  <1>1. t \in Transactions /\ t.server = s /\ t.timer = NewTimer
    BY FirstSend DEF NewRegistration, Transactions
  <1>2. TRUE \in BOOLEAN
    OBVIOUS
  <1> HIDE DEF t
  <1>3. SentTo(SentAgain(t, TRUE), t.server)
    BY <1>1, <1>2, FirstSend, SentAgainType
  <1>4. QED
    BY <1>1, <1>3 DEF t

LEMMA AgedType ==
    ASSUME NEW t \in Transactions
    PROVE  LET a == [t EXCEPT !.timer = Aged(@)]
           IN  a \in Transactions /\ (~Unsent(t.timer) => SentTo(a, t.server))
  <1>1. t.timer \in Timers
    BY DEF Transactions
  <1>2. QED
    BY <1>1, Wait DEF SentTo, Transactions

LEMMA SilenceType ==
    ASSUME TypeOK, NEW ss, Silence(ss)
    PROVE  status' \in [Servers -> Statuses] /\ regMid' \in [Servers -> Mids]
  <1>1. 0 \in Mids
    BY BoundsAssumption DEF Mids
  <1>2. QED
    BY <1>1 DEF Silence, TypeOK, Statuses

-----------------------------------------------------------------------------
(* The transaction list                                                     *)

\* Message IDs are handed out in increasing order.
PendingBelow == \A m \in Pending : m < nextMID

\* What lwm2m_register does, with the names of its intermediate values.
Registers(stop, noBuffer, noClock) ==
    LET asked    == 1..(stop - 1)
        launched == asked \ (noBuffer \cup noClock)
    IN  /\ noBuffer \cap noClock = {} /\ noBuffer \cup noClock \subseteq asked
        /\ transactions' = [m \in Mids |->
              IF \E s \in asked : m = nextMID + s - 1
              THEN Registration(m - nextMID + 1, noBuffer, noClock)
              ELSE transactions[m]]
        /\ status' = [s \in Servers |-> Outcome(s, launched, noClock)]
        /\ regMid' = [s \in Servers |->
              IF s \in launched THEN nextMID + s - 1
              ELSE IF s \in noClock /\ status[s] = "REG_PENDING" THEN 0
              ELSE regMid[s]]
        /\ \/ nextMID' = nextMID + (IF stop <= NServers THEN stop ELSE NServers)
           \/ stop = 1 /\ nextMID' = nextMID
        /\ unheard' = unheard \ launched
        /\ misuse' = misuse \cup DeadPayload(noBuffer)

LEMMA RegisterCases ==
    ASSUME Register
    PROVE  /\ phase \in {"start", "select"} /\ phase' \in {"step", "closed"}
           /\ nextMID + NServers <= MaxMid
           /\ UNCHANGED <<location, observed, value, timeout, accepted>>
           /\ \E stop, noBuffer, noClock :
                 /\ stop \in 1..(NServers + 1)
                 /\ Registers(stop, noBuffer, noClock)
  <1>1. /\ phase \in {"start", "select"} /\ phase' \in {"step", "closed"}
        /\ nextMID + NServers <= MaxMid
        /\ UNCHANGED <<location, observed, value, timeout, accepted>>
    BY DEF Register
  <1>2. \E stop, noBuffer, noClock :
           /\ stop \in 1..(NServers + 1)
           /\ Registers(stop, noBuffer, noClock)
    <2>1. PICK stop \in 1..(NServers + 1), noBuffer \in SUBSET Servers :
             \E noClock \in SUBSET Servers : Registers(stop, noBuffer, noClock)
      BY ZenonT(60) DEF Register, Registers
    <2>2. QED
      BY <2>1
  <1>3. QED
    BY <1>1, <1>2

\* The transaction list after lwm2m_register.
LEMMA RegisterTransactions ==
    ASSUME TypeOK, PendingBelow, nextMID + NServers <= MaxMid,
           NEW stop \in 1..(NServers + 1), NEW noBuffer, NEW noClock,
           Registers(stop, noBuffer, noClock)
    PROVE  /\ nextMID' \in 0..MaxMid /\ nextMID <= nextMID'
           /\ \A s \in Servers : nextMID + s - 1 \in Mids
           /\ transactions' \in [Mids -> Transactions \cup {None}]
           /\ \A m \in Pending : m \in Pending' /\ transactions'[m] = transactions[m]
           /\ \A m \in Pending' : m < nextMID' /\ (m \in Pending \/ nextMID <= m)
           /\ noBuffer = {} => \A m \in Pending' :
                 m \in Pending \/ ~Unsent(transactions'[m].timer)
           /\ \A s \in (1..(stop - 1)) \ (noBuffer \cup noClock) :
                 /\ s \in Servers /\ nextMID + s - 1 \in Pending'
                 /\ SentTo(transactions'[nextMID + s - 1], s)
  <1> DEFINE asked == 1..(stop - 1)
             T(s)  == Registration(s, noBuffer, noClock)
  <1>0. /\ NServers \in Nat /\ MaxMid \in Nat /\ nextMID \in Nat
        /\ Servers = 1..NServers /\ Mids = 0..(MaxMid - 1)
        /\ stop \in Nat /\ 1 <= stop /\ stop <= NServers + 1
    BY BoundsAssumption DEF TypeOK, Servers, Mids
  <1>1. asked \subseteq Servers
    BY <1>0
  <1>2. \A s \in Servers : nextMID + s - 1 \in Mids
    BY <1>0
  <1>3. \/ nextMID' = nextMID + (IF stop <= NServers THEN stop ELSE NServers)
        \/ stop = 1 /\ nextMID' = nextMID
    BY DEF Registers
  <1>4. /\ nextMID' \in 0..MaxMid /\ nextMID <= nextMID'
        /\ \A s \in asked : nextMID + s - 1 < nextMID'
    BY <1>0, <1>3
  <1>5. \A s \in Servers : T(s) \in Transactions \cup {None}
    BY NewRegistrationType DEF Registration, SentTo
  <1>6. transactions' = [m \in Mids |->
              IF \E s \in asked : m = nextMID + s - 1
              THEN T(m - nextMID + 1) ELSE transactions[m]]
    BY DEF Registers
  <1> HIDE DEF T, asked
  <1>7. \A m \in Mids, s \in asked : m = nextMID + s - 1 => m - nextMID + 1 = s
    BY <1>0, <1>1
  <1>8. /\ \A s \in asked : transactions'[nextMID + s - 1] = T(s)
        /\ \A m \in Mids : (~ \E s \in asked : m = nextMID + s - 1)
                              => transactions'[m] = transactions[m]
    BY <1>1, <1>2, <1>6, <1>7
  <1>9. transactions' \in [Mids -> Transactions \cup {None}]
    <2>1. \A m \in Mids : (\E s \in asked : m = nextMID + s - 1)
             => T(m - nextMID + 1) \in Transactions \cup {None}
      BY <1>1, <1>5, <1>7
    <2>2. \A m \in Mids : transactions[m] \in Transactions \cup {None}
      BY DEF TypeOK
    <2>3. QED
      BY <1>6, <2>1, <2>2
  <1>10. \A s \in asked : nextMID <= nextMID + s - 1
    BY <1>0, <1>1
  <1>11. \A m \in Pending : m \in Pending' /\ transactions'[m] = transactions[m]
    <2>1. \A m \in Pending : m \in Mids /\ m < nextMID
      BY DEF Pending, PendingBelow
    <2>2. \A m \in Pending : ~ \E s \in asked : m = nextMID + s - 1
      BY <1>0, <1>1, <2>1
    <2>3. QED
      BY <1>8, <2>1, <2>2 DEF Pending
  <1>12. \A m \in Pending' : m < nextMID' /\ (m \in Pending \/ nextMID <= m)
    <2>1. ASSUME NEW m \in Pending'
          PROVE  m < nextMID' /\ (m \in Pending \/ nextMID <= m)
      <3>1. m \in Mids /\ transactions'[m] # None
        BY DEF Pending
      <3>2. CASE \E s \in asked : m = nextMID + s - 1
        BY <1>4, <1>10, <3>2
      <3>3. CASE ~ \E s \in asked : m = nextMID + s - 1
        <4>1. m \in Pending
          BY <1>8, <3>1, <3>3 DEF Pending
        <4>2. m < nextMID
          BY <4>1 DEF PendingBelow
        <4>3. QED
          BY <1>0, <1>4, <3>1, <4>1, <4>2
      <3>4. QED
        BY <3>2, <3>3
    <2>2. QED
      BY <2>1
  <1>13. ASSUME NEW s \in asked \ (noBuffer \cup noClock)
         PROVE  /\ s \in Servers /\ nextMID + s - 1 \in Pending'
                /\ SentTo(transactions'[nextMID + s - 1], s)
    <2>1. s \in Servers /\ nextMID + s - 1 \in Mids
      BY <1>1, <1>2, <1>13
    <2>2. T(s) = SentAgain(NewRegistration(s), TRUE)
      BY <1>13 DEF T, Registration
    <2>3. SentTo(transactions'[nextMID + s - 1], s)
      BY <1>8, <1>13, <2>1, <2>2, NewRegistrationType
    <2>4. transactions'[nextMID + s - 1] # None
      BY <2>3, NoneAssumption DEF SentTo
    <2>5. QED
      BY <2>1, <2>3, <2>4 DEF Pending
  <1>14. ASSUME noBuffer = {}, NEW m \in Pending'
         PROVE  m \in Pending \/ ~Unsent(transactions'[m].timer)
    <2>1. m \in Mids /\ transactions'[m] # None
      BY DEF Pending
    <2>2. CASE ~ \E s \in asked : m = nextMID + s - 1
      BY <1>8, <2>1, <2>2 DEF Pending
    <2>3. ASSUME NEW s \in asked, m = nextMID + s - 1
          PROVE  ~Unsent(transactions'[m].timer)
      <3>1. transactions'[m] = T(s) /\ s \in Servers
        BY <1>1, <1>8, <2>3
      <3>2. s \notin noClock
        BY <1>14, <2>1, <3>1 DEF T, Registration
      <3>3. QED
        BY <1>13, <1>14, <2>3, <3>2 DEF SentTo
    <2>4. QED
      BY <2>2, <2>3
  <1>15. QED
    BY <1>2, <1>4, <1>9, <1>11, <1>12, <1>13, <1>14 DEF asked

-----------------------------------------------------------------------------
(* The inductive invariant                                                  *)

IInv == TypeOK /\ PendingBelow /\ PendingIsAsked /\ RegisteredAsAnswered

\* The steps that change neither a registration nor the transaction list.
Quiet == /\ UNCHANGED <<registration, transactions>>
         /\ nextMID <= nextMID'
         /\ phase # "closed"
         /\ misuse \subseteq misuse'

LEMMA QuietKeeps ==
    ASSUME IInv, TypeOK', Quiet
    PROVE  IInv'
  <1>1. PendingBelow'
    <2>1. \A m \in Pending : m \in Int /\ m < nextMID
      BY DEF IInv, PendingBelow, Pending, Mids
    <2>2. nextMID \in Int /\ nextMID' \in Int /\ nextMID <= nextMID'
      BY DEF IInv, TypeOK, Quiet
    <2>3. \A m \in Pending : m < nextMID'
      BY <2>1, <2>2
    <2>4. QED
      BY <2>3 DEF PendingBelow, Pending, Quiet
  <1>2. PendingIsAsked'
    BY DEF IInv, PendingIsAsked, Quiet, Pending, registration
  <1>3. RegisteredAsAnswered'
    BY DEF IInv, RegisteredAsAnswered, Quiet, registration
  <1>4. QED
    BY <1>1, <1>2, <1>3 DEF IInv

LEMMA RegisterKeeps ==
    ASSUME IInv, Register
    PROVE  IInv'
  <1>0. TypeOK /\ PendingBelow /\ 0 \in Mids
    BY BoundsAssumption DEF IInv, Mids
  <1>1. /\ phase \in {"start", "select"} /\ phase' \in {"step", "closed"}
        /\ nextMID + NServers <= MaxMid
        /\ UNCHANGED <<location, observed, value, timeout, accepted>>
    BY RegisterCases
  <1>2. PICK stop, noBuffer, noClock :
           /\ stop \in 1..(NServers + 1)
           /\ Registers(stop, noBuffer, noClock)
    BY RegisterCases
  <1> DEFINE launched == (1..(stop - 1)) \ (noBuffer \cup noClock)
  <1>3. /\ nextMID' \in 0..MaxMid
        /\ \A s \in Servers : nextMID + s - 1 \in Mids
        /\ transactions' \in [Mids -> Transactions \cup {None}]
        /\ \A m \in Pending : m \in Pending' /\ transactions'[m] = transactions[m]
        /\ \A m \in Pending' : m < nextMID'
        /\ \A s \in launched :
              /\ s \in Servers /\ nextMID + s - 1 \in Pending'
              /\ SentTo(transactions'[nextMID + s - 1], s)
    BY <1>0, <1>1, <1>2, RegisterTransactions
  <1>4. /\ status' = [s \in Servers |-> Outcome(s, launched, noClock)]
        /\ regMid' = [s \in Servers |->
              IF s \in launched THEN nextMID + s - 1
              ELSE IF s \in noClock /\ status[s] = "REG_PENDING" THEN 0
              ELSE regMid[s]]
        /\ unheard' = unheard \ launched
        /\ misuse' = misuse \cup DeadPayload(noBuffer)
    BY <1>2, Zenon DEF Registers
  <1> HIDE DEF launched
  <1>5. TypeOK'
    <2>1. status' \in [Servers -> Statuses]
      BY <1>0, <1>4 DEF Outcome, TypeOK, Statuses
    <2>2. regMid' \in [Servers -> Mids]
      BY <1>0, <1>3, <1>4 DEF TypeOK
    <2>3. unheard' \subseteq Servers
      BY <1>0, <1>4 DEF TypeOK
    <2>4. misuse' \subseteq Misuses
      BY <1>0, <1>4 DEF TypeOK, Misuses, DeadPayload
    <2>5. QED
      BY <1>0, <1>1, <1>3, <2>1, <2>2, <2>3, <2>4 DEF TypeOK
  <1>6. PendingBelow'
    BY <1>3 DEF PendingBelow
  <1>7. PendingIsAsked'
    <2>1. ASSUME NEW s \in Servers, status'[s] = "REG_PENDING", s \notin unheard'
          PROVE  /\ regMid'[s] \in Pending'
                 /\ transactions'[regMid'[s]].server = s
                 /\ ~Unsent(transactions'[regMid'[s]].timer)
      <3>1. CASE s \in launched
        BY <1>3, <1>4, <3>1 DEF SentTo
      <3>2. CASE s \notin launched
        <4>1. status[s] = "REG_PENDING" /\ s \notin noClock
          BY <1>4, <2>1, <3>2 DEF Outcome
        <4>2. s \notin unheard /\ regMid'[s] = regMid[s]
          BY <1>4, <2>1, <3>2, <4>1
        <4>3. /\ regMid[s] \in Pending
              /\ transactions[regMid[s]].server = s
              /\ ~Unsent(transactions[regMid[s]].timer)
          BY <1>1, <4>1, <4>2 DEF IInv, PendingIsAsked
        <4>4. QED
          BY <1>3, <4>2, <4>3
      <3>3. QED
        BY <3>1, <3>2
    <2>2. QED
      BY <2>1 DEF PendingIsAsked
  <1>8. RegisteredAsAnswered'
    <2>1. \A s \in Servers : status'[s] = "REGISTERED" =>
             status[s] = "REGISTERED" /\ regMid'[s] = regMid[s]
      BY <1>4 DEF Outcome
    <2>2. QED
      BY <1>1, <1>4, <2>1 DEF IInv, RegisteredAsAnswered
  <1>9. QED
    BY <1>5, <1>6, <1>7, <1>8 DEF IInv

\* Leaves the list as it was, or without some of its elements; those that
\* stay keep their server and do not become unsent.
ListShrinks ==
    /\ transactions' \in [Mids -> Transactions \cup {None}]
    /\ \A m \in Pending' :
          /\ m \in Pending
          /\ transactions'[m].server = transactions[m].server
          /\ ~Unsent(transactions[m].timer) => ~Unsent(transactions'[m].timer)

LEMMA ShrunkBelow ==
    ASSUME PendingBelow, ListShrinks, UNCHANGED nextMID
    PROVE  PendingBelow'
  BY DEF PendingBelow, ListShrinks

\* lwm2m_handle_packet on an answer to a registration.
LEMMA AnswerKeeps ==
    ASSUME IInv, NEW msg \in Replies, AnswerTransaction(msg),
           UNCHANGED <<value, nextMID, timeout>>,
           observed' \in [Uris -> {None} \cup [Servers -> Watchers \cup {None}]],
           phase \notin {"closed", "undefined"}, phase' = "step"
    PROVE  IInv'
  <1> DEFINE m == msg.mid
             s == msg.from
  <1>0. TypeOK /\ m \in Mids /\ 0 \in Mids /\ msg # None
    <2>1. 0 \in Mids
      BY BoundsAssumption DEF Mids
    <2>2. m \in Mids
      BY InputAssumption
    <2>3. msg # None
      BY NoneAssumption
    <2>4. QED
      BY <2>1, <2>2, <2>3 DEF IInv
  <1>1. CASE UNCHANGED <<registration, transactions, misuse>>
    <2>1. TypeOK'
      BY <1>0, <1>1 DEF TypeOK, registration
    <2>2. nextMID \in Int
      BY <1>0 DEF TypeOK
    <2>3. Quiet
      BY <1>1, <2>2 DEF Quiet
    <2>4. QED
      BY <2>1, <2>3, QuietKeeps
  <1>2. CASE /\ transactions[m] # None /\ transactions[m].server = s
             /\ RegistrationReply(msg, s)
             /\ transactions' = [transactions EXCEPT ![m] = None]
    <2>1. s \in Servers
      BY <1>0, <1>2 DEF TypeOK, Transactions
    <2>2. /\ transactions' \in [Mids -> Transactions \cup {None}]
          /\ \A n \in Mids : transactions'[n] = IF n = m THEN None ELSE transactions[n]
      BY <1>0, <1>2 DEF TypeOK
    <2>3. \A n \in Pending' : n \in Pending /\ transactions'[n] = transactions[n]
      BY <2>2 DEF Pending
    <2>4. ListShrinks
      BY <2>2, <2>3 DEF ListShrinks
    <2>5. PendingBelow'
      BY <2>4, ShrunkBelow DEF IInv
    <2>6. \A r \in Servers \ {s} :
             /\ status'[r] = status[r] /\ regMid'[r] = regMid[r]
             /\ location'[r] = location[r] /\ accepted'[r] = accepted[r]
             /\ r \notin unheard' => r \notin unheard
      BY <1>0, <1>2 DEF RegistrationReply, TypeOK
    <2>7. misuse \subseteq misuse'
      BY <1>2 DEF RegistrationReply
    <2>8. \A r \in Servers \ {s} : regMid[r] \in Pending
             /\ transactions[regMid[r]].server = r => regMid[r] \in Pending'
      BY <1>0, <1>2, <2>2 DEF Pending
    <2> DEFINE Asked(r) ==
                  status[r] = "REG_PENDING" /\ r \notin unheard =>
                     /\ regMid[r] \in Pending
                     /\ transactions[regMid[r]].server = r
                     /\ ~Unsent(transactions[regMid[r]].timer)
               Accepted(r) ==
                  status[r] = "REGISTERED" =>
                     /\ accepted[r] # None
                     /\ accepted[r].from = r /\ accepted[r].mid = regMid[r]
                     /\ location[r] \in {accepted[r].location, None}
                     /\ location[r] = None => "no location" \in misuse
    <2>9. \A r \in Servers \ {s} : Asked(r)'
      <3>1. \A r \in Servers : Asked(r)
        BY DEF IInv, PendingIsAsked
      <3>2. QED
        BY <2>3, <2>6, <2>8, <3>1
    <2>10. \A r \in Servers \ {s} : Accepted(r)'
      <3>1. \A r \in Servers : Accepted(r)
        BY DEF IInv, RegisteredAsAnswered
      <3>2. QED
        BY <2>6, <2>7, <3>1
    <2>11. CASE /\ CountsFor(msg, s) /\ msg.code = "2.01"
               /\ status' = [status EXCEPT ![s] = "REGISTERED"]
               /\ \/ location' = [location EXCEPT ![s] = msg.location]
                     /\ UNCHANGED misuse
                  \/ /\ location' = [location EXCEPT ![s] = None]
                     /\ misuse' = misuse \cup {"no location"}
               /\ accepted' = [accepted EXCEPT ![s] = msg]
               /\ UNCHANGED <<regMid, unheard>>
      <3>1. TypeOK'
        BY <1>0, <2>1, <2>2, <2>11, InputAssumption DEF TypeOK, Statuses, Misuses
      <3>2. /\ status'[s] = "REGISTERED" /\ accepted'[s] = msg
            /\ msg.mid = regMid'[s] /\ location'[s] \in {msg.location, None}
            /\ location'[s] = None => "no location" \in misuse'
        BY <1>0, <2>1, <2>11 DEF TypeOK, CountsFor
      <3>3. PendingIsAsked'
        BY <2>9, <3>2 DEF PendingIsAsked
      <3>4. RegisteredAsAnswered'
        <4>1. Accepted(s)'
          BY <1>0, <3>2
        <4>2. QED
          BY <2>10, <4>1 DEF RegisteredAsAnswered
      <3>5. QED
        BY <2>5, <3>1, <3>3, <3>4 DEF IInv
    <2>12. CASE /\ CountsFor(msg, s) /\ msg.code = "4.00"
                /\ status' = [status EXCEPT ![s] = "UNKNOWN"]
                /\ regMid' = [regMid EXCEPT ![s] = 0]
                /\ UNCHANGED <<location, accepted, unheard, misuse>>
      <3>1. TypeOK' /\ status'[s] = "UNKNOWN"
        BY <1>0, <2>1, <2>2, <2>12 DEF TypeOK, Statuses
      <3>2. PendingIsAsked'
        BY <2>9, <3>1 DEF PendingIsAsked
      <3>3. RegisteredAsAnswered'
        BY <2>10, <3>1 DEF RegisteredAsAnswered
      <3>4. QED
        BY <2>5, <3>1, <3>2, <3>3 DEF IInv
    <2>13. CASE /\ unheard' = IF status[s] = "REG_PENDING" /\ msg.mid = regMid[s]
                              THEN unheard \cup {s} ELSE unheard
                /\ UNCHANGED <<status, regMid, location, accepted, misuse>>
      <3>1. TypeOK'
        BY <1>0, <2>1, <2>2, <2>13 DEF TypeOK
      <3>2. \A r \in Servers : status[r] = "REG_PENDING" /\ r \notin unheard'
               => r \notin unheard /\ (r = s => regMid[r] # m)
        BY <2>13
      <3>3. \A r \in Servers :
               /\ regMid[r] \in Pending /\ transactions[regMid[r]].server = r
               /\ r = s => regMid[r] # m
               => regMid[r] \in Pending' /\ transactions'[regMid[r]] = transactions[regMid[r]]
        BY <1>2, <2>2 DEF Pending
      <3>4. PendingIsAsked'
        BY <2>13, <3>2, <3>3 DEF IInv, PendingIsAsked
      <3>5. RegisteredAsAnswered'
        BY <2>13 DEF IInv, RegisteredAsAnswered
      <3>6. QED
        BY <2>5, <3>1, <3>4, <3>5 DEF IInv
    <2>14. QED
      BY <1>2, <2>11, <2>12, <2>13, Zenon DEF RegistrationReply
  <1>3. QED
    BY <1>1, <1>2 DEF AnswerTransaction

\* lwm2m_step: what is given up is no longer pending, what is not stays asked.
LEMMA WalkKeeps ==
    ASSUME IInv, WalkList(Touched, Gone), phase' = "select",
           UNCHANGED <<location, observed, value, nextMID, accepted, unheard, misuse>>,
           phase = "step"
    PROVE  IInv'
  <1>0. TypeOK
    BY DEF IInv
  <1> DEFINE touched == Touched
             gone    == Gone
             silent  == {transactions[m].server : m \in gone}
  <1>2. /\ phase = "step" /\ phase' = "select"
        /\ UNCHANGED <<location, observed, value, nextMID, accepted, unheard, misuse>>
    OBVIOUS
  <1>3. /\ transactions' = Walked(touched, gone)
        /\ Silence(silent)
        /\ timeout' \in 1..SelectTimeout
    BY DEF WalkList
  <1>4. gone \subseteq touched /\ touched \subseteq Pending
    BY DEF Touched, Gone
  <1>5. \A m \in touched \ gone : ~GivesUp(transactions[m].timer, TRUE)
    BY DEF Gone
  <1> HIDE DEF touched, gone, silent
  <1>6. ASSUME NEW m \in touched \ gone
        PROVE  SentTo(SentAgain(transactions[m], TRUE), transactions[m].server)
    <2> DEFINE t  == transactions[m]
    <2>1. t \in Transactions /\ ~GivesUp(t.timer, TRUE)
      BY <1>0, <1>4, <1>5 DEF TypeOK, Pending
    <2> HIDE DEF t
    <2>2. TRUE \in BOOLEAN
      OBVIOUS
    <2>3. SentTo(SentAgain(t, TRUE), t.server)
      BY <2>1, <2>2, SentAgainType
    <2>4. QED
      BY <2>3 DEF t
  <1>7. \A m \in Mids :
           /\ m \in gone => transactions'[m] = None
           /\ m \in touched \ gone =>
                 SentTo(transactions'[m], transactions[m].server)
           /\ m \notin touched => transactions'[m] = transactions[m]
    BY <1>3, <1>4, <1>6 DEF Walked
  <1>8. transactions' \in [Mids -> Transactions \cup {None}]
    <2>1. \A m \in Mids : transactions'[m] \in Transactions \cup {None}
      BY <1>0, <1>7 DEF SentTo, TypeOK
    <2>2. transactions' = [m \in Mids |-> transactions'[m]]
      BY <1>3 DEF Walked
    <2>3. QED
      BY <2>1, <2>2
  <1>9. \A m \in Pending' : m \in Pending /\ m \notin gone
    BY <1>4, <1>7 DEF Pending
  <1>10. ListShrinks
    BY <1>7, <1>8, <1>9 DEF ListShrinks, SentTo, Pending
  <1>11. \A m \in Pending \ gone : m \in Pending'
    BY <1>7, NoneAssumption DEF Pending, SentTo
  <1>12. /\ status' \in [Servers -> Statuses] /\ regMid' \in [Servers -> Mids]
    BY <1>0, <1>3, SilenceType
  <1>13. \A s \in Servers :
            /\ status'[s] = "REG_PENDING" =>
                  /\ status[s] = "REG_PENDING" /\ s \notin silent
                  /\ regMid'[s] = regMid[s]
            /\ status'[s] = "REGISTERED" =>
                  status[s] = "REGISTERED" /\ regMid'[s] = regMid[s]
    BY <1>3 DEF Silence
  <1>14. TypeOK'
    <2>1. timeout' \in 0..SelectTimeout
      BY <1>3, BoundsAssumption
    <2>2. QED
      BY <1>0, <1>2, <1>8, <1>12, <2>1 DEF TypeOK
  <1>15. PendingBelow'
    BY <1>2, <1>10, ShrunkBelow DEF IInv
  <1>16. PendingIsAsked'
    <2>1. ASSUME NEW s \in Servers, status'[s] = "REG_PENDING", s \notin unheard'
          PROVE  /\ regMid'[s] \in Pending'
                 /\ transactions'[regMid'[s]].server = s
                 /\ ~Unsent(transactions'[regMid'[s]].timer)
      <3>1. /\ regMid[s] \in Pending
            /\ transactions[regMid[s]].server = s
            /\ ~Unsent(transactions[regMid[s]].timer)
        BY <1>2, <1>13, <2>1 DEF IInv, PendingIsAsked
      <3>2. regMid[s] \notin gone
        BY <1>13, <2>1, <3>1 DEF silent
      <3>3. regMid[s] \in Pending'
        BY <1>11, <3>1, <3>2
      <3>4. QED
        BY <1>10, <1>13, <2>1, <3>1, <3>3 DEF ListShrinks
    <2>2. QED
      BY <2>1 DEF PendingIsAsked
  <1>17. RegisteredAsAnswered'
    BY <1>2, <1>13 DEF IInv, RegisteredAsAnswered
  <1>18. QED
    BY <1>14, <1>15, <1>16, <1>17 DEF IInv

LEMMA StepCases ==
    ASSUME Lwm2mStep
    PROVE  /\ phase = "step" /\ misuse' = misuse
           /\ \/ Unserialised # {} /\ GoUndefined
              \/ /\ phase' = "select" /\ WalkList(Touched, Gone)
                 /\ UNCHANGED <<location, observed, value, nextMID, accepted, unheard>>
              \/ /\ phase' = "closed" /\ sent' = {}
                 /\ UNCHANGED <<registration, observed, value, transactions,
                                nextMID, timeout>>
  BY Zenon DEF Lwm2mStep

LEMMA StepKeeps ==
    ASSUME IInv, Lwm2mStep
    PROVE  IInv'
  <1>0. phase = "step" /\ misuse' = misuse
    BY StepCases
  <1>1. CASE /\ phase' \in {"undefined", "closed"}
             /\ UNCHANGED <<registration, observed, value, transactions, nextMID,
                            timeout>>
    <2>1. TypeOK' /\ nextMID \in Int
      BY <1>0, <1>1 DEF IInv, TypeOK, registration
    <2>2. Quiet
      BY <1>0, <1>1, <2>1 DEF Quiet
    <2>3. QED
      BY <2>1, <2>2, QuietKeeps
  <1>2. CASE /\ phase' = "select" /\ WalkList(Touched, Gone)
             /\ UNCHANGED <<location, observed, value, nextMID, accepted, unheard>>
    BY <1>0, <1>2, WalkKeeps
  <1>3. QED
    BY <1>1, <1>2, StepCases, Zenon DEF GoUndefined

LEMMA TickKeeps ==
    ASSUME IInv, Tick
    PROVE  IInv'
  <1>0. TypeOK
    BY DEF IInv
  <1>1. /\ UNCHANGED <<registration, observed, value, nextMID, phase, misuse>>
        /\ timeout' \in 0..SelectTimeout
        /\ phase \in {"step", "select"}
    BY BoundsAssumption DEF Tick, IInv, TypeOK
  <1>2. transactions' = [m \in Mids |->
           IF transactions[m] = None THEN None
           ELSE [transactions[m] EXCEPT !.timer = Aged(@)]]
    BY DEF Tick
  <1>3. \A m \in Mids : transactions[m] # None =>
           /\ transactions'[m] \in Transactions
           /\ ~Unsent(transactions[m].timer) =>
                 SentTo(transactions'[m], transactions[m].server)
           /\ transactions'[m].server = transactions[m].server
    BY <1>0, <1>2, AgedType DEF TypeOK, Transactions
  <1>4. transactions' \in [Mids -> Transactions \cup {None}]
    <2>1. \A m \in Mids : transactions'[m] \in Transactions \cup {None}
      BY <1>2, <1>3
    <2>2. QED
      BY <1>2, <2>1
  <1>5. Pending' = Pending
    BY <1>2, <1>3, NoneAssumption DEF Pending
  <1>6. ListShrinks
    BY <1>3, <1>4, <1>5 DEF ListShrinks, SentTo, Pending
  <1>7. TypeOK'
    BY <1>0, <1>1, <1>4 DEF TypeOK, registration
  <1>8. PendingBelow'
    BY <1>1, <1>6, ShrunkBelow DEF IInv
  <1>9. PendingIsAsked'
    <2>1. UNCHANGED <<status, regMid, unheard, phase>>
      BY <1>1 DEF registration
    <2>2. QED
      BY <1>5, <1>6, <2>1 DEF IInv, PendingIsAsked, ListShrinks
  <1>10. RegisteredAsAnswered'
    BY <1>1 DEF IInv, RegisteredAsAnswered, registration
  <1>11. QED
    BY <1>7, <1>8, <1>9, <1>10 DEF IInv

\* The end of the program, with and without lwm2m_close.
LEMMA EndKeeps ==
    ASSUME IInv, Abort \/ \E freed \in ObjectsFreed : Close(freed)
    PROVE  IInv'
  <1>0. TypeOK
    BY DEF IInv
  <1>1. CASE Abort
    BY <1>0, <1>1 DEF Abort, IInv, TypeOK, PendingBelow, PendingIsAsked,
       RegisteredAsAnswered, Pending, registration
  <1>2. ASSUME NEW freed \in ObjectsFreed, Close(freed)
        PROVE  IInv'
    <2>1. CASE GoUndefined /\ misuse' \in {misuse, misuse \cup {"objects freed"}}
      <3>1. TypeOK'
        BY <1>0, <2>1 DEF GoUndefined, TypeOK, Misuses, registration
      <3>2. phase = "select"
        BY <1>2, Zenon DEF Close
      <3>3. nextMID \in Int
        BY <1>0 DEF TypeOK
      <3>4. UNCHANGED <<registration, transactions, nextMID>>
        BY <2>1, Zenon DEF GoUndefined
      <3>5. misuse \subseteq misuse'
        BY <2>1
      <3>6. Quiet
        BY <3>2, <3>3, <3>4, <3>5 DEF Quiet
      <3>7. QED
        BY <3>1, <3>6, QuietKeeps
    <2>2. CASE /\ phase' = "closed"
               /\ status' = [s \in Servers |->
                     IF s \in {r \in Servers : status[r] = "REGISTERED"}
                     THEN "UNKNOWN" ELSE status[s]]
               /\ observed' = [u \in Uris |-> None]
               /\ transactions' = [m \in Mids |-> None]
               /\ UNCHANGED <<regMid, location, value, nextMID, timeout,
                              accepted, unheard, misuse>>
      <3>1. TypeOK'
        BY <1>0, <2>2 DEF TypeOK, Statuses
      <3>2. \A s \in Servers : status'[s] # "REGISTERED"
        BY <2>2
      <3>3. QED
        BY <2>2, <3>1, <3>2 DEF IInv, PendingBelow, PendingIsAsked,
           RegisteredAsAnswered, Pending
    <2>3. QED
      BY <1>2, <2>1, <2>2, Zenon DEF Close
  <1>3. QED
    BY <1>1, <1>2

-----------------------------------------------------------------------------
(* The observed resources                                                   *)

ObservedType == [Uris -> {None} \cup [Servers -> Watchers \cup {None}]]

LEMMA WatchedType ==
    ASSUME TypeOK, NEW w \in Watched
    PROVE  /\ w = <<w[1], w[2]>> /\ w[1] \in Uris /\ w[2] \in Servers
           /\ observed[w[1]] \in [Servers -> Watchers \cup {None}]
           /\ Watcher(w) \in Watchers
  <1>1. w \in Uris \X Servers /\ observed[w[1]] # None /\ observed[w[1]][w[2]] # None
    BY DEF Watched
  <1>2. QED
    BY <1>1 DEF TypeOK, Watcher

LEMMA WatchersOfType ==
    ASSUME TypeOK, NEW u \in Uris
    PROVE  WatchersOf(u) \in [Servers -> Watchers \cup {None}]
  BY DEF TypeOK, WatchersOf, NoWatchers

\* AddWatcher, with the names of its intermediate values.
AddsWatcher(u, s, old, w) ==
    /\ u \in Uris /\ s \in Servers /\ old = WatchersOf(u)
    /\ w \in Watchers /\ w.counter >= 1
    /\ old[s] # None => w.token = old[s].token /\ w.lastMid = old[s].lastMid
    /\ old[s] = None => w.lastMid = 0
    /\ observed' = [observed EXCEPT ![u] = [old EXCEPT ![s] = w]]

LeavesElement(u, old) ==
    /\ u \in Uris /\ old = WatchersOf(u)
    /\ observed' = [observed EXCEPT ![u] = old]
    /\ old = NoWatchers => "no watcher" \in misuse'

\* What a request makes of the observed resources.
Watches == \/ UNCHANGED observed
           \/ \E u, s, old, w : AddsWatcher(u, s, old, w)
           \/ \E u, old : LeavesElement(u, old)

\* The end of lwm2m_handle_packet.
Handled == /\ phase' \in {"step", "undefined"}
           /\ misuse \subseteq misuse' /\ misuse' \subseteq Misuses
           /\ phase' = "undefined" => misuse' # {}

LEMMA AnsweredIsHandled ==
    ASSUME TypeOK, NEW msg, NEW code, NEW counter, NEW data,
           Answered(msg, code, counter, data)
    PROVE  Handled
  <1>1. \/ phase' = "step" /\ UNCHANGED misuse
        \/ phase' = "undefined" /\ misuse' = misuse \cup {"block"}
    BY Zenon DEF Answered
  <1>2. QED
    BY <1>1 DEF Handled, TypeOK, Misuses

LEMMA RefusedIsHandled ==
    ASSUME TypeOK, NEW msg, NEW code, Refused(msg, code)
    PROVE  Handled /\ UNCHANGED observed
  BY DEF Refused, Handled, TypeOK

LEMMA AddWatcherCases ==
    ASSUME TypeOK, NEW msg \in Requests, NEW s \in Servers, AddWatcher(msg, s)
    PROVE  Watches /\ Handled
  <1> DEFINE u   == msg.uri
             old == WatchersOf(u)
             w   == IF old[s] # None THEN old[s]
                    ELSE [token |-> msg.token, counter |-> 0, lastMid |-> 0]
  <1>1. u \in Uris /\ msg.token \in Tokens
    BY InputAssumption DEF Tokens
  <1>2. old \in [Servers -> Watchers \cup {None}]
    BY <1>1, WatchersOfType
  <1>3. w \in Watchers
    BY <1>1, <1>2, BoundsAssumption DEF Watchers, Mids
  <1>4. /\ old[s] # None => w.token = old[s].token /\ w.lastMid = old[s].lastMid
        /\ old[s] = None => w.lastMid = 0
    OBVIOUS
  <1>5. \/ Refused(msg, "5.00")
        \/ /\ w.counter < MaxCounter
           /\ observed' = [observed EXCEPT
                 ![u] = [old EXCEPT ![s] = [w EXCEPT !.counter = @ + 1]]]
           /\ Answered(msg, "2.05", w.counter, value[u])
        \/ /\ observed' = [observed EXCEPT ![u] = old] /\ phase' = "step"
           /\ misuse' = IF old = NoWatchers THEN misuse \cup {"no watcher"} ELSE misuse
    BY Zenon DEF AddWatcher
  <1> HIDE DEF u, old, w
  <1>6. ASSUME w.counter < MaxCounter,
               observed' = [observed EXCEPT
                 ![u] = [old EXCEPT ![s] = [w EXCEPT !.counter = @ + 1]]]
        PROVE  Watches
    <2> DEFINE v == [w EXCEPT !.counter = @ + 1]
    <2>1. v = [token |-> w.token, counter |-> w.counter + 1, lastMid |-> w.lastMid]
      BY <1>3 DEF Watchers
    <2>2. w.counter + 1 \in 0..MaxCounter /\ w.counter + 1 >= 1
      BY <1>3, <1>6, BoundsAssumption DEF Watchers
    <2>3. /\ v.token = w.token /\ v.lastMid = w.lastMid
          /\ v.counter = w.counter + 1
      BY <2>1
    <2>4. v \in Watchers
      BY <1>3, <2>1, <2>2 DEF Watchers
    <2>5. observed' = [observed EXCEPT ![u] = [old EXCEPT ![s] = v]]
      BY <1>6
    <2>6. old = WatchersOf(u)
      BY DEF old
    <2> HIDE DEF v
    <2>7. AddsWatcher(u, s, old, v)
      BY <1>1, <1>4, <2>2, <2>3, <2>4, <2>5, <2>6 DEF AddsWatcher
    <2>8. QED
      BY <2>7 DEF Watches
  <1>7. ASSUME observed' = [observed EXCEPT ![u] = old], phase' = "step",
               misuse' = IF old = NoWatchers THEN misuse \cup {"no watcher"} ELSE misuse
        PROVE  Watches /\ Handled
    <2>1. old = WatchersOf(u)
      BY DEF old
    <2>2. LeavesElement(u, old)
      BY <1>1, <1>7, <2>1 DEF LeavesElement
    <2>3. Handled
      BY <1>7 DEF Handled, TypeOK, Misuses
    <2>4. QED
      BY <2>2, <2>3 DEF Watches
  <1>8. QED
    BY <1>5, <1>6, <1>7, AnsweredIsHandled, RefusedIsHandled DEF Watches

\* The outcomes of a request, as far as the watchers are concerned.
LEMMA HandleRequestCases ==
    ASSUME TypeOK, NEW msg \in Requests, HandleRequest(msg)
    PROVE  /\ phase = "select" /\ Handled /\ Watches
           /\ UNCHANGED <<registration, transactions, nextMID, timeout>>
           /\ value' \in [Uris -> Values]
  <1>1. /\ phase = "select"
        /\ UNCHANGED <<registration, transactions, nextMID, timeout>>
    BY Zenon DEF HandleRequest
  <1> SUFFICES Handled /\ Watches /\ value' \in [Uris -> Values]
    BY <1>1
  <1>2. ASSUME NEW code, Refused(msg, code)
        PROVE  Handled /\ Watches
    BY <1>2, RefusedIsHandled DEF Watches
  <1>3. ASSUME NEW code, NEW counter, NEW data,
               Answered(msg, code, counter, data), UNCHANGED observed
        PROVE  Handled /\ Watches
    BY <1>3, AnsweredIsHandled DEF Watches
  <1>4. CASE Strays(msg) /\ GoUndefined /\ misuse' = misuse \cup {"no value"}
    BY <1>4 DEF GoUndefined, Handled, Watches, TypeOK, Misuses
  <1>5. CASE ReadRequest(msg)
    <2>1. value' = value
      BY <1>5, Zenon DEF ReadRequest
    <2>2. Handled /\ Watches
      BY <1>2, <1>3, <1>5, Zenon DEF ReadRequest
    <2>3. QED
      BY <2>1, <2>2 DEF TypeOK
  <1>6. CASE WriteRequest(msg)
    <2>1. /\ msg.op = "write"
          /\ \/ value' = value
             \/ /\ WriteCode(msg.uri, msg.data) = "2.04"
                /\ value' = [value EXCEPT ![msg.uri] = msg.data]
      BY <1>6, Zenon DEF WriteRequest
    <2>2. WriteCode(msg.uri, msg.data) = "2.04" => msg.data # None
      BY DEF WriteCode
    <2>3. msg.data \in Values \cup {None}
      BY <2>1, InputAssumption
    <2>4. value' \in [Uris -> Values]
      BY <2>1, <2>2, <2>3 DEF TypeOK
    <2>5. Handled /\ Watches
      BY <1>2, <1>3, <1>6, Zenon DEF WriteRequest
    <2>6. QED
      BY <2>4, <2>5
  <1>7. CASE PostRequest(msg)
    <2>1. value' = value \/ value' \in [Uris -> Values]
      BY <1>7, Zenon DEF PostRequest
    <2>2. Handled /\ Watches
      BY <1>2, <1>3, <1>7, Zenon DEF PostRequest
    <2>3. QED
      BY <2>1, <2>2 DEF TypeOK
  <1>8. CASE DeleteRequest(msg)
    <2>1. value' = value /\ Refused(msg, DeleteCode(msg.uri))
      BY <1>8, Zenon DEF DeleteRequest
    <2>2. QED
      BY <1>2, <2>1 DEF TypeOK
  <1>9. CASE ObserveRequest(msg)
    <2>1. value' = value
      BY <1>9, Zenon DEF ObserveRequest
    <2>2. \/ \E code : Refused(msg, code)
          \/ \E s \in FoundServer(msg.from) : AddWatcher(msg, s)
      BY <1>9, Zenon DEF ObserveRequest
    <2>3. FoundServer(msg.from) \subseteq Servers
      BY DEF FoundServer
    <2>4. Handled /\ Watches
      BY <1>2, <2>2, <2>3, AddWatcherCases
    <2>5. QED
      BY <2>1, <2>4 DEF TypeOK
  <1>10. CASE Refused(msg, "4.00") /\ value' = value
    BY <1>2, <1>10 DEF TypeOK
  <1>11. QED
    BY <1>4, <1>5, <1>6, <1>7, <1>8, <1>9, <1>10, Zenon DEF HandleRequest

\* What cancel_observe makes of the observed resources.
CancelsOne(msg, w) ==
    /\ msg.type = "RST" /\ w \in MeantBy(msg)
    /\ observed' = Unwatched(w)

LEMMA ReceiveReplyCases ==
    ASSUME NEW msg \in Replies, ReceiveReply(msg)
    PROVE  /\ phase = "select"
           /\ \/ WalksOff(msg) /\ GoUndefined /\ UNCHANGED misuse
              \/ /\ phase' = "step" /\ UNCHANGED <<value, nextMID, timeout>>
                 /\ AnswerTransaction(msg)
                 /\ \/ UNCHANGED observed
                    \/ \E w \in MeantBy(msg) : CancelsOne(msg, w)
  <1>1. phase = "select"
    BY DEF ReceiveReply
  <1>2. CASE WalksOff(msg) /\ GoUndefined /\ UNCHANGED misuse
    BY <1>1, <1>2
  <1>3. CASE /\ IF msg.type = "RST" THEN CancelObserve(msg) ELSE UNCHANGED observed
             /\ AnswerTransaction(msg)
             /\ phase' = "step"
             /\ UNCHANGED <<value, nextMID, timeout>>
    <2>1. \/ UNCHANGED observed
          \/ \E w \in MeantBy(msg) : CancelsOne(msg, w)
      BY <1>3, Zenon DEF CancelObserve, CancelsOne
    <2>2. QED
      BY <1>1, <1>3, <2>1
  <1>4. QED
    BY <1>2, <1>3, Zenon DEF ReceiveReply

\* A watcher that cancel_observe takes out, and the list without it.
LEMMA UnwatchedIs ==
    ASSUME TypeOK, NEW w \in Watched
    PROVE  /\ Unwatched(w) \in ObservedType
           /\ \A u \in Uris : Unwatched(w)[u] # NoWatchers \/ observed[u] = NoWatchers
           /\ \A v \in Uris \X Servers : v # w /\ v \in Watched =>
                 /\ Unwatched(w)[v[1]] # None
                 /\ Unwatched(w)[v[1]][v[2]] = Watcher(v)
           /\ \A v \in Uris \X Servers :
                 Unwatched(w)[v[1]] # None /\ Unwatched(w)[v[1]][v[2]] # None
                    => v # w /\ v \in Watched
  <1> DEFINE u0   == w[1]
             rest == [observed[u0] EXCEPT ![w[2]] = None]
             new  == IF rest = NoWatchers THEN None ELSE rest
             all  == Unwatched(w)
  <1>1. /\ w = <<u0, w[2]>> /\ u0 \in Uris /\ w[2] \in Servers
        /\ observed[u0] \in [Servers -> Watchers \cup {None}]
    BY WatchedType
  <1>2. /\ rest \in [Servers -> Watchers \cup {None}] /\ rest[w[2]] = None
        /\ \A s \in Servers : s # w[2] => rest[s] = observed[u0][s]
    BY <1>1
  <1>3. observed \in [Uris -> {None} \cup [Servers -> Watchers \cup {None}]]
    BY DEF TypeOK
  <1>4. all = [observed EXCEPT ![u0] = new]
    BY DEF Unwatched
  <1>5. new \in {None} \cup [Servers -> Watchers \cup {None}] /\ new # NoWatchers
    <2>1. NoWatchers \in [Servers -> Watchers \cup {None}]
      BY DEF NoWatchers
    <2>2. None # NoWatchers
      BY <2>1, NoneAssumption
    <2> HIDE DEF rest
    <2>3. QED
      BY <1>2, <2>2
  <1>6. rest # NoWatchers => new = rest
    OBVIOUS
  <1>7. rest = NoWatchers => new = None /\ \A s \in Servers : rest[s] = None
    BY DEF NoWatchers
  <1>8. rest # None
    BY <1>2, NoneAssumption
  <1> HIDE DEF new, rest, all
  <1>9. all \in ObservedType /\ all[u0] = new
        /\ \A u \in Uris : u # u0 => all[u] = observed[u]
    BY <1>1, <1>3, <1>4, <1>5 DEF ObservedType
  <1>10. \A u \in Uris : all[u] # NoWatchers \/ observed[u] = NoWatchers
    BY <1>5, <1>9
  <1>11. ASSUME NEW v \in Uris \X Servers, v # w, v \in Watched
         PROVE  all[v[1]] # None /\ all[v[1]][v[2]] = Watcher(v)
    <2>1. /\ v = <<v[1], v[2]>> /\ v[1] \in Uris /\ v[2] \in Servers
          /\ observed[v[1]] # None /\ observed[v[1]][v[2]] # None
      BY <1>11 DEF Watched
    <2>2. CASE v[1] # u0
      BY <1>9, <2>1, <2>2 DEF Watcher
    <2>3. CASE v[1] = u0
      <3>1. v[2] # w[2]
        BY <1>1, <1>11, <2>1, <2>3
      <3>2. rest[v[2]] = observed[u0][v[2]] /\ rest[v[2]] # None
        BY <1>2, <2>1, <2>3, <3>1
      <3>3. new = rest
        BY <1>6, <1>7, <2>1, <3>2
      <3>4. QED
        BY <1>8, <1>9, <2>3, <3>2, <3>3 DEF Watcher
    <2>4. QED
      BY <2>2, <2>3
  <1>12. ASSUME NEW v \in Uris \X Servers, all[v[1]] # None, all[v[1]][v[2]] # None
         PROVE  v # w /\ v \in Watched
    <2>1. v = <<v[1], v[2]>> /\ v[1] \in Uris /\ v[2] \in Servers
      OBVIOUS
    <2>2. CASE v[1] # u0
      BY <1>1, <1>9, <1>12, <2>1, <2>2 DEF Watched
    <2>3. CASE v[1] = u0
      <3>1. new = rest
        BY <1>6, <1>7, <1>9, <1>12, <2>1, <2>3
      <3>2. v[2] # w[2] /\ observed[u0][v[2]] # None
        BY <1>2, <1>9, <1>12, <2>1, <2>3, <3>1
      <3>3. observed[u0] # None
        BY <1>1, NoneAssumption
      <3>4. QED
        BY <2>1, <2>3, <3>2, <3>3 DEF Watched
    <2>4. QED
      BY <2>2, <2>3
  <1>13. QED
    BY <1>9, <1>10, <1>11, <1>12 DEF all

\* What lwm2m_resource_value_changed does to the watchers in ws.
Notifies(ws, mid) ==
    /\ ws \subseteq Watched /\ Cardinality(ws) \in Nat
    /\ nextMID + Cardinality(ws) <= MaxMid
    /\ nextMID' = nextMID + Cardinality(ws)
    /\ \A w \in ws : /\ mid[w] \in nextMID..(nextMID + Cardinality(ws) - 1)
                     /\ Watcher(w).counter < MaxCounter
    /\ \A v, w \in ws : mid[v] = mid[w] => v = w
    /\ observed' = [t \in Uris |->
          IF observed[t] = None THEN None
          ELSE [s \in Servers |->
                  IF <<t, s>> \in ws THEN Notified(<<t, s>>, mid[<<t, s>>])
                  ELSE observed[t][s]]]

LEMMA WatchedFinite == IsFiniteSet(Watched)
  <1>1. IsFiniteSet(Servers)
    BY BoundsAssumption, FS_Interval DEF Servers
  <1>2. IsFiniteSet(Uris)
    BY InputAssumption
  <1>3. IsFiniteSet(Uris \X Servers)
    BY <1>1, <1>2, FS_Product
  <1>4. Watched \subseteq Uris \X Servers
    BY DEF Watched
  <1>5. QED
    BY <1>3, <1>4, FS_Subset

LEMMA ChangeCases ==
    ASSUME NEW u, ResourceValueChanged(u)
    PROVE  /\ phase = "select" /\ phase' = "step"
           /\ UNCHANGED <<registration, value, transactions, timeout, misuse>>
           /\ \E ws, mid : Notifies(ws, mid)
  <1>1. /\ phase = "select" /\ phase' = "step"
        /\ UNCHANGED <<registration, value, transactions, timeout, misuse>>
    BY Zenon DEF ResourceValueChanged
  <1>2. PICK ws \in SUBSET Watched :
           /\ nextMID + Cardinality(ws) <= MaxMid
           /\ \A w \in ws : Watcher(w).counter < MaxCounter
           /\ nextMID' = nextMID + Cardinality(ws)
           /\ \E mid \in NotificationMids(ws) :
                 observed' = [t \in Uris |->
                    IF observed[t] = None THEN None
                    ELSE [s \in Servers |->
                            IF <<t, s>> \in ws
                            THEN Notified(<<t, s>>, mid[<<t, s>>])
                            ELSE observed[t][s]]]
    <2>1. PICK ws \in SUBSET Watched : NotifyAll(ws)
      <3>1. PICK over :
               NotifyAll({w \in Watched : /\ Concerns(u, w[1]) /\ w[1] \notin over
                                          /\ ReadCode(w[1]) = "2.05"})
        BY Zenon DEF ResourceValueChanged
      <3> DEFINE ws == {w \in Watched : /\ Concerns(u, w[1]) /\ w[1] \notin over
                                        /\ ReadCode(w[1]) = "2.05"}
      <3>2. ws \in SUBSET Watched /\ NotifyAll(ws)
        BY <3>1
      <3> HIDE DEF ws
      <3>3. QED
        BY <3>2
    <2>2. QED
      BY <2>1, Zenon DEF NotifyAll
  <1>3. PICK mid \in NotificationMids(ws) :
           observed' = [t \in Uris |->
                    IF observed[t] = None THEN None
                    ELSE [s \in Servers |->
                            IF <<t, s>> \in ws
                            THEN Notified(<<t, s>>, mid[<<t, s>>])
                            ELSE observed[t][s]]]
    BY <1>2, Zenon
  <1>4. Cardinality(ws) \in Nat
    BY <1>2, WatchedFinite, FS_Subset, FS_CardinalityType
  <1>5. /\ \A w \in ws : mid[w] \in nextMID..(nextMID + Cardinality(ws) - 1)
        /\ \A v, w \in ws : mid[v] = mid[w] => v = w
    BY <1>3, Zenon DEF NotificationMids
  <1>6. Notifies(ws, mid)
    BY <1>2, <1>3, <1>4, <1>5, Zenon DEF Notifies
  <1>7. QED
    BY <1>1, <1>6

\* The watchers after a change: the same, some with a new message ID.
LEMMA NotifiesIs ==
    ASSUME TypeOK, NEW ws, NEW mid, Notifies(ws, mid)
    PROVE  /\ observed' \in ObservedType
           /\ nextMID' \in 0..MaxMid /\ nextMID <= nextMID'
           /\ Watched' = Watched
           /\ \A u \in Uris : observed[u] # NoWatchers => observed'[u] # NoWatchers
           /\ \A v \in Watched :
                 /\ Watcher(v)'.token = Watcher(v).token
                 /\ v \in ws => Watcher(v)'.lastMid = mid[v]
                 /\ v \notin ws => Watcher(v)' = Watcher(v)
  <1>0. /\ observed \in ObservedType /\ nextMID \in Nat
        /\ MaxMid \in Nat /\ MaxCounter \in Nat
    BY BoundsAssumption DEF TypeOK, ObservedType
  <1>1. /\ ws \subseteq Watched /\ Cardinality(ws) \in Nat
        /\ nextMID + Cardinality(ws) <= MaxMid
        /\ nextMID' = nextMID + Cardinality(ws)
        /\ \A w \in ws : /\ mid[w] \in nextMID..(nextMID + Cardinality(ws) - 1)
                         /\ Watcher(w).counter < MaxCounter
    BY DEF Notifies
  <1>2. ASSUME NEW w \in ws
        PROVE  /\ Notified(w, mid[w]) \in Watchers
               /\ Notified(w, mid[w]).token = Watcher(w).token
               /\ Notified(w, mid[w]).lastMid = mid[w]
    <2> DEFINE x == Watcher(w)
    <2>1. x \in Watchers
      BY <1>1, WatchedType
    <2>2. mid[w] \in Mids
      BY <1>0, <1>1 DEF Mids
    <2> HIDE DEF x
    <2>3. x.counter + 1 \in 0..MaxCounter
      BY <1>0, <1>1, <2>1 DEF Watchers, x
    <2>4. Notified(w, mid[w]) =
             [token |-> x.token, counter |-> x.counter + 1, lastMid |-> mid[w]]
      <3> DEFINE n == x.counter + 1
                 k == mid[w]
      <3>1. Notified(w, mid[w]) = [x EXCEPT !.lastMid = k, !.counter = n]
        BY DEF Notified, x
      <3> HIDE DEF n, k
      <3>2. Notified(w, mid[w]) = [token |-> x.token, counter |-> n, lastMid |-> k]
        BY <2>1, <3>1 DEF Watchers
      <3>3. QED
        BY <3>2 DEF n, k
    <2>5. QED
      BY <2>1, <2>2, <2>3, <2>4 DEF Watchers, x
  <1> DEFINE row(t) == [s \in Servers |->
                  IF <<t, s>> \in ws THEN Notified(<<t, s>>, mid[<<t, s>>])
                  ELSE observed[t][s]]
  <1>3. observed' = [t \in Uris |-> IF observed[t] = None THEN None ELSE row(t)]
    BY Zenon DEF Notifies
  <1>4. ASSUME NEW t \in Uris, observed[t] # None
        PROVE  /\ row(t) \in [Servers -> Watchers \cup {None}]
               /\ \A s \in Servers : row(t)[s] = None <=> observed[t][s] = None
    <2>1. observed[t] \in [Servers -> Watchers \cup {None}]
      BY <1>0, <1>4 DEF ObservedType
    <2>2. ASSUME NEW s \in Servers
          PROVE  /\ row(t)[s] \in Watchers \cup {None}
                 /\ row(t)[s] = None <=> observed[t][s] = None
      <3>1. CASE <<t, s>> \in ws
        <4>1. row(t)[s] \in Watchers
          BY <1>2, <3>1
        <4>2. observed[t][s] # None
          BY <1>1, <3>1 DEF Watched
        <4>3. QED
          BY <4>1, <4>2, NoneAssumption
      <3>2. CASE <<t, s>> \notin ws
        BY <2>1, <3>2
      <3>3. QED
        BY <3>1, <3>2
    <2>3. QED
      BY <2>2
  <1>5. \A w \in ws : /\ w[1] \in Uris /\ w[2] \in Servers /\ w = <<w[1], w[2]>>
                      /\ observed[w[1]] # None
    BY <1>1 DEF Watched
  <1>6. \A w \in ws : row(w[1])[w[2]] = Notified(w, mid[w])
    BY <1>5
  <1>7. \A t \in Uris, s \in Servers : <<t, s>> \notin ws =>
           row(t)[s] = observed[t][s]
    OBVIOUS
  <1> HIDE DEF row
  <1>8. observed' \in ObservedType
    BY <1>3, <1>4 DEF ObservedType
  <1>9. \A t \in Uris : /\ observed[t] = None => observed'[t] = None
                        /\ observed[t] # None => observed'[t] = row(t)
    BY <1>3
  <1>10. \A t \in Uris : observed[t] # None => row(t) # None
    BY <1>4, NoneAssumption
  <1>11. Watched' = Watched
    BY <1>4, <1>9, <1>10 DEF Watched
  <1>12. \A u \in Uris : observed[u] # NoWatchers => observed'[u] # NoWatchers
    <2>1. NoWatchers \in [Servers -> Watchers \cup {None}]
          /\ \A s \in Servers : NoWatchers[s] = None
      BY DEF NoWatchers
    <2>2. ASSUME NEW u \in Uris, observed'[u] = NoWatchers
          PROVE  observed[u] = NoWatchers
      <3>1. observed'[u] # None
        BY <2>1, <2>2, NoneAssumption
      <3>2. observed[u] # None /\ row(u) = NoWatchers
        BY <1>9, <2>2, <3>1
      <3>3. observed[u] \in [Servers -> Watchers \cup {None}]
        BY <1>0, <3>2 DEF ObservedType
      <3>4. \A s \in Servers : observed[u][s] = None
        BY <1>4, <2>1, <3>2
      <3>5. QED
        BY <3>3, <3>4 DEF NoWatchers
    <2>3. QED
      BY <2>2
  <1>13. ASSUME NEW v \in Watched
         PROVE  /\ Watcher(v)'.token = Watcher(v).token
                /\ v \in ws => Watcher(v)'.lastMid = mid[v]
                /\ v \notin ws => Watcher(v)' = Watcher(v)
    <2>1. /\ v[1] \in Uris /\ v[2] \in Servers /\ v = <<v[1], v[2]>>
          /\ observed[v[1]] # None
      BY DEF Watched
    <2>2. Watcher(v)' = row(v[1])[v[2]]
      BY <1>9, <2>1 DEF Watcher
    <2>3. CASE v \in ws
      BY <1>2, <1>6, <2>2, <2>3
    <2>4. CASE v \notin ws
      BY <1>7, <2>1, <2>2, <2>4 DEF Watcher
    <2>5. QED
      BY <2>3, <2>4
  <1>14. nextMID' \in 0..MaxMid /\ nextMID <= nextMID'
    BY <1>0, <1>1
  <1>15. QED
    BY <1>8, <1>11, <1>12, <1>13, <1>14

\* A step that only touches the watchers, the values and the message IDs.
LEMMA WatchersKeep ==
    ASSUME IInv, phase = "select", phase' \in {"step", "undefined"},
           UNCHANGED <<registration, transactions, timeout>>,
           observed' \in ObservedType, value' \in [Uris -> Values],
           nextMID' \in 0..MaxMid, nextMID <= nextMID',
           misuse \subseteq misuse', misuse' \subseteq Misuses
    PROVE  IInv'
  <1>1. TypeOK'
    BY DEF IInv, TypeOK, ObservedType, registration
  <1>2. Quiet
    BY DEF Quiet
  <1>3. QED
    BY <1>1, <1>2, QuietKeeps

LEMMA HandleRequestKeeps ==
    ASSUME IInv, NEW msg \in Requests, HandleRequest(msg)
    PROVE  IInv'
  <1>0. TypeOK
    BY DEF IInv
  <1>1. /\ phase = "select" /\ Handled /\ Watches
        /\ UNCHANGED <<registration, transactions, nextMID, timeout>>
        /\ value' \in [Uris -> Values]
    BY <1>0, HandleRequestCases
  <1>2. observed \in ObservedType
    BY <1>0 DEF TypeOK, ObservedType
  <1>3. ASSUME NEW u, NEW s, NEW old, NEW w, AddsWatcher(u, s, old, w)
        PROVE  observed' \in ObservedType
    <2>1. /\ u \in Uris /\ s \in Servers /\ w \in Watchers
          /\ old = WatchersOf(u)
          /\ observed' = [observed EXCEPT ![u] = [old EXCEPT ![s] = w]]
      BY <1>3 DEF AddsWatcher
    <2>2. [old EXCEPT ![s] = w] \in [Servers -> Watchers \cup {None}]
      BY <1>0, <2>1, WatchersOfType
    <2>3. QED
      BY <1>2, <2>1, <2>2 DEF ObservedType
  <1>4. ASSUME NEW u, NEW old, LeavesElement(u, old)
        PROVE  observed' \in ObservedType
    <2>1. old \in [Servers -> Watchers \cup {None}] /\ u \in Uris
      BY <1>0, <1>4, WatchersOfType DEF LeavesElement
    <2>2. observed' = [observed EXCEPT ![u] = old]
      BY <1>4 DEF LeavesElement
    <2>3. QED
      BY <1>2, <2>1, <2>2 DEF ObservedType
  <1>5. observed' \in ObservedType
    BY <1>1, <1>2, <1>3, <1>4 DEF Watches
  <1>6. nextMID' \in 0..MaxMid /\ nextMID <= nextMID'
    BY <1>0, <1>1 DEF TypeOK
  <1>7. QED
    BY <1>1, <1>5, <1>6, WatchersKeep DEF Handled

LEMMA ReceiveReplyKeeps ==
    ASSUME IInv, NEW msg \in Replies, ReceiveReply(msg)
    PROVE  IInv'
  <1>0. TypeOK
    BY DEF IInv
  <1>1. phase = "select"
    BY ReceiveReplyCases
  <1>2. CASE WalksOff(msg) /\ GoUndefined /\ UNCHANGED misuse
    <2>1. UNCHANGED <<registration, observed, value, transactions, nextMID,
                      timeout, misuse>> /\ phase' = "undefined"
      BY <1>2 DEF GoUndefined
    <2>2. TypeOK'
      BY <1>0, <2>1 DEF TypeOK, registration
    <2>3. nextMID \in Int
      BY <1>0 DEF TypeOK
    <2>4. Quiet
      BY <1>1, <2>1, <2>3 DEF Quiet
    <2>5. QED
      BY <2>2, <2>4, QuietKeeps
  <1>3. CASE /\ phase' = "step" /\ UNCHANGED <<value, nextMID, timeout>>
             /\ AnswerTransaction(msg)
             /\ \/ UNCHANGED observed
                \/ \E w \in MeantBy(msg) : CancelsOne(msg, w)
    <2>1. observed' \in ObservedType
      <3>1. CASE UNCHANGED observed
        BY <1>0, <3>1 DEF TypeOK, ObservedType
      <3>2. ASSUME NEW w \in MeantBy(msg), CancelsOne(msg, w)
            PROVE  observed' \in ObservedType
        <4>1. w \in Watched /\ observed' = Unwatched(w)
          BY <3>2 DEF CancelsOne, MeantBy
        <4>2. QED
          BY <1>0, <4>1, UnwatchedIs
      <3>3. QED
        BY <1>3, <3>1, <3>2
    <2>2. QED
      BY <1>1, <1>3, <2>1, AnswerKeeps DEF ObservedType
  <1>4. QED
    BY <1>2, <1>3, ReceiveReplyCases

LEMMA ChangeKeeps ==
    ASSUME IInv, NEW u, ResourceValueChanged(u)
    PROVE  IInv'
  <1>0. TypeOK
    BY DEF IInv
  <1>1. /\ phase = "select" /\ phase' = "step"
        /\ UNCHANGED <<registration, value, transactions, timeout, misuse>>
    BY ChangeCases
  <1>2. PICK ws, mid : Notifies(ws, mid)
    BY ChangeCases
  <1>3. observed' \in ObservedType /\ nextMID' \in 0..MaxMid /\ nextMID <= nextMID'
    BY <1>0, <1>2, NotifiesIs
  <1>4. value' \in [Uris -> Values] /\ misuse' \subseteq Misuses
    BY <1>0, <1>1 DEF TypeOK
  <1>5. QED
    BY <1>1, <1>3, <1>4, WatchersKeep

LEMMA InitIInv == Init => IInv
  <1> SUFFICES ASSUME Init PROVE IInv
    OBVIOUS
  <1>1. 0 \in Mids /\ 0 \in 0..MaxMid /\ SelectTimeout \in 0..SelectTimeout
    BY BoundsAssumption DEF Mids
  <1>2. TypeOK
    BY <1>1 DEF Init, TypeOK, Statuses
  <1>3. PendingBelow /\ PendingIsAsked /\ RegisteredAsAnswered
    BY DEF Init, PendingBelow, Pending, PendingIsAsked, RegisteredAsAnswered
  <1>4. QED
    BY <1>2, <1>3 DEF IInv

LEMMA NextIInv == IInv /\ [Next]_vars => IInv'
  <1> SUFFICES ASSUME IInv, [Next]_vars PROVE IInv'
    OBVIOUS
  <1>0. TypeOK /\ nextMID \in Int
    BY DEF IInv, TypeOK
  <1>1. CASE Register
    BY <1>1, RegisterKeeps
  <1>2. ASSUME NEW msg \in Requests, HandleRequest(msg)
        PROVE  IInv'
    BY <1>2, HandleRequestKeeps
  <1>3. ASSUME NEW msg \in Replies, ReceiveReply(msg)
        PROVE  IInv'
    BY <1>3, ReceiveReplyKeeps
  <1>4. ASSUME NEW u \in Uris, NEW d \in Values, Change(u, d)
        PROVE  IInv'
    BY <1>4, ChangeKeeps DEF Change
  <1>5. ASSUME NEW u \in Uris, NEW v \in Values, UpdateObject(u, v)
        PROVE  IInv'
    <2>1. /\ phase = "select" /\ phase' = "step"
          /\ UNCHANGED <<registration, observed, transactions, nextMID, timeout, misuse>>
          /\ value' \in [Uris -> Values]
      BY <1>0, <1>5 DEF UpdateObject, TypeOK
    <2>2. /\ observed' \in ObservedType /\ misuse' \subseteq Misuses
          /\ nextMID' \in 0..MaxMid /\ nextMID <= nextMID'
      BY <1>0, <2>1 DEF TypeOK, ObservedType
    <2>3. QED
      BY <2>1, <2>2, WatchersKeep
  <1>6. CASE Abort \/ \E freed \in ObjectsFreed : Close(freed)
    BY <1>6, EndKeeps
  <1>7. CASE Lwm2mStep
    BY <1>7, StepKeeps
  <1>8. CASE Wake
    <2>1. /\ phase = "select" /\ phase' = "step"
          /\ UNCHANGED <<registration, observed, value, transactions, nextMID,
                         timeout, misuse>>
      BY <1>8 DEF Wake
    <2>2. /\ observed' \in ObservedType /\ misuse' \subseteq Misuses
          /\ nextMID' \in 0..MaxMid /\ nextMID <= nextMID'
          /\ value' \in [Uris -> Values]
      BY <1>0, <2>1 DEF TypeOK, ObservedType
    <2>3. QED
      BY <2>1, <2>2, WatchersKeep
  <1>9. CASE Tick
    BY <1>9, TickKeeps
  <1>10. CASE UNCHANGED vars
    BY <1>0, <1>10 DEF vars, IInv, TypeOK, PendingBelow, PendingIsAsked,
       RegisteredAsAnswered, Pending
  <1>11. QED
    BY <1>1, <1>2, <1>3, <1>4, <1>5, <1>6, <1>7, <1>8, <1>9, <1>10 DEF Next

\* The inductive invariant holds in every reachable state.
THEOREM InvariantHolds == Spec => []IInv
  BY InitIInv, NextIInv, PTL DEF Spec

\* Every variable keeps its type, for every number of servers and resources.
THEOREM TypeCorrect == Spec => []TypeOK
  <1>1. IInv => TypeOK
    BY DEF IInv
  <1>2. QED
    BY <1>1, InvariantHolds, PTL

\* A server waits for no registration that was lost inside the client: its
\* request is in the transaction list until it is answered or given up, also
\* when the application registers again in between.
THEOREM PendingIsAlwaysAsked == Spec => []PendingIsAsked
  <1>1. IInv => PendingIsAsked
    BY DEF IInv
  <1>2. QED
    BY <1>1, InvariantHolds, PTL

\* A registered server holds the answer to its latest request, never a late
\* answer to an older one.
THEOREM RegisteredIsAlwaysAnswered == Spec => []RegisteredAsAnswered
  <1>1. IInv => RegisteredAsAnswered
    BY DEF IInv
  <1>2. QED
    BY <1>1, InvariantHolds, PTL

-----------------------------------------------------------------------------
(* The steps that leave the watchers alone                                  *)

Calm ==
    /\ UNCHANGED <<observed, nextMID, misuse>>
    /\ Pending' \subseteq Pending /\ Unserialised' \subseteq Unserialised
    /\ phase \in {"step", "select"}
    /\ phase' \in {"step", "select", "closed", "undefined"}
    /\ phase' = "undefined" => Unserialised # {}

LEMMA WalkSerialises ==
    ASSUME TypeOK, WalkList(Touched, Gone)
    PROVE  Pending' \subseteq Pending /\ Unserialised' \subseteq Unserialised
  <1>1. transactions' = Walked(Touched, Gone)
    BY DEF WalkList
  <1>2. Gone \subseteq Touched /\ Touched \subseteq Pending
    BY DEF Touched, Gone
  <1>3. Pending' \subseteq Pending
    BY <1>1, <1>2 DEF Walked, Pending
  <1>4. ASSUME NEW m \in Unserialised'
        PROVE  m \in Unserialised
    <2>1. /\ m \in Mids /\ m \in Pending /\ m \in Pending'
          /\ transactions'[m] # None /\ Unsent(transactions'[m].timer)
      BY <1>3, <1>4 DEF Unserialised, Pending
    <2>2. m \notin Gone
      BY <1>1, <2>1 DEF Walked
    <2>3. CASE m \notin Touched
      BY <1>1, <2>1, <2>2, <2>3 DEF Walked, Unserialised
    <2>4. CASE m \in Touched
      <3> DEFINE t == transactions[m]
      <3>1. t \in Transactions /\ ~GivesUp(t.timer, TRUE) /\ TRUE \in BOOLEAN
        BY <2>1, <2>2, <2>4 DEF TypeOK, Pending, Gone
      <3>2. transactions'[m] = SentAgain(t, TRUE)
        BY <1>1, <2>1, <2>2, <2>4 DEF Walked
      <3> HIDE DEF t
      <3>3. SentTo(transactions'[m], t.server)
        BY <3>1, <3>2, SentAgainType
      <3>4. QED
        BY <2>1, <3>3 DEF SentTo
    <2>5. QED
      BY <2>3, <2>4
  <1>5. QED
    BY <1>3, <1>4

LEMMA StepIsCalm ==
    ASSUME TypeOK, Lwm2mStep
    PROVE  Calm
  <1>1. CASE Unserialised # {} /\ GoUndefined
    BY <1>1, StepCases DEF GoUndefined, Calm, Pending, Unserialised
  <1>2. CASE /\ phase' = "select" /\ WalkList(Touched, Gone)
             /\ UNCHANGED <<location, observed, value, nextMID, accepted, unheard>>
    BY <1>2, StepCases, WalkSerialises DEF Calm
  <1>3. CASE /\ phase' = "closed"
             /\ UNCHANGED <<registration, observed, value, transactions, nextMID,
                            timeout>>
    BY <1>3, StepCases DEF Calm, Pending, Unserialised
  <1>4. QED
    BY <1>1, <1>2, <1>3, StepCases

LEMMA CalmSteps ==
    ASSUME TypeOK,
           \/ \E u \in Uris, v \in Values : UpdateObject(u, v)
           \/ Lwm2mStep \/ Wake \/ Tick \/ Abort
    PROVE  Calm
  <1>1. CASE Lwm2mStep
    BY <1>1, StepIsCalm
  <1>2. ASSUME NEW u \in Uris, NEW v \in Values, UpdateObject(u, v)
        PROVE  Calm
    BY <1>2 DEF UpdateObject, Calm, Pending, Unserialised
  <1>3. CASE Wake
    BY <1>3 DEF Wake, Calm, Pending, Unserialised
  <1>4. CASE Abort
    BY <1>4 DEF Abort, Calm, Pending, Unserialised
  <1>5. CASE Tick
    <2>1. transactions' = [m \in Mids |->
             IF transactions[m] = None THEN None
             ELSE [transactions[m] EXCEPT !.timer = Aged(@)]]
      BY <1>5 DEF Tick
    <2>2. Pending' \subseteq Pending
      BY <2>1 DEF Pending
    <2>3. \A m \in Pending : /\ transactions[m].timer \in Timers
                             /\ transactions'[m].timer = Aged(transactions[m].timer)
      BY <2>1 DEF TypeOK, Pending, Transactions
    <2>4. Unserialised' \subseteq Unserialised
      BY <2>2, <2>3, Wait DEF Unserialised
    <2>5. /\ UNCHANGED <<observed, nextMID, phase, misuse>>
          /\ phase \in {"step", "select"}
      BY <1>5 DEF Tick
    <2>6. QED
      BY <2>2, <2>4, <2>5 DEF Calm
  <1>6. QED
    BY <1>1, <1>2, <1>3, <1>4, <1>5

LEMMA AnswerShrinks ==
    ASSUME TypeOK, NEW msg \in Replies, AnswerTransaction(msg)
    PROVE  /\ Pending' \subseteq Pending /\ Unserialised' \subseteq Unserialised
           /\ misuse \subseteq misuse'
  <1>1. CASE UNCHANGED <<registration, transactions, misuse>>
    BY <1>1 DEF Pending, Unserialised
  <1>2. CASE /\ RegistrationReply(msg, msg.from)
             /\ transactions' = [transactions EXCEPT ![msg.mid] = None]
    <2>1. misuse \subseteq misuse'
      BY <1>2 DEF RegistrationReply
    <2>2. \A m \in Pending' : m \in Pending /\ transactions'[m] = transactions[m]
      BY <1>2 DEF TypeOK, Pending
    <2>3. QED
      BY <2>1, <2>2 DEF Unserialised
  <1>3. QED
    BY <1>1, <1>2, Zenon DEF AnswerTransaction

\* lwm2m_close, which forgets every watcher, unless it goes wrong.
LEMMA CloseCases ==
    ASSUME NEW freed \in BOOLEAN, Close(freed)
    PROVE  /\ phase = "select"
           /\ \/ /\ GoUndefined
                 /\ misuse' = IF freed THEN misuse \cup {"objects freed"} ELSE misuse
                 /\ freed \/ \E s \in Servers :
                                status[s] = "REGISTERED" /\ location[s] = None
              \/ /\ phase' = "closed"
                 /\ status' = [s \in Servers |->
                       IF s \in {r \in Servers : status[r] = "REGISTERED"}
                       THEN "UNKNOWN" ELSE status[s]]
                 /\ observed' = [u \in Uris |-> None]
                 /\ transactions' = [m \in Mids |-> None]
                 /\ UNCHANGED <<nextMID, misuse>>
  <1> DEFINE registered == {r \in Servers : status[r] = "REGISTERED"}
  <1>1. /\ phase = "select"
        /\ \/ /\ GoUndefined
              /\ misuse' = IF freed THEN misuse \cup {"objects freed"} ELSE misuse
              /\ freed \/ \E s \in registered : location[s] = None
           \/ /\ phase' = "closed"
              /\ status' = [s \in Servers |-> IF s \in registered THEN "UNKNOWN"
                                              ELSE status[s]]
              /\ observed' = [u \in Uris |-> None]
              /\ transactions' = [m \in Mids |-> None]
              /\ UNCHANGED <<nextMID, misuse>>
    BY Zenon DEF Close
  <1>2. QED
    BY <1>1

-----------------------------------------------------------------------------
(* Undefined behaviour                                                      *)

LEMMA NoWatchersIs ==
    /\ NoWatchers \in [Servers -> Watchers \cup {None}]
    /\ NoWatchers # None
    /\ \A s \in Servers : NoWatchers[s] = None
  <1>1. NoWatchers \in [Servers -> Watchers \cup {None}]
    BY DEF NoWatchers
  <1>2. QED
    BY <1>1, NoneAssumption DEF NoWatchers

\* What was explained stays so, when nothing is left without explanation.
LEMMA StillExplained ==
    ASSUME UndefinedExplained, misuse \subseteq misuse',
           phase' = "undefined" => misuse' # {},
           \A u \in Uris : observed'[u] = NoWatchers =>
               observed[u] = NoWatchers \/ "no watcher" \in misuse',
           Unserialised' \subseteq Unserialised
    PROVE  UndefinedExplained'
  BY DEF UndefinedExplained, NoWatchers

LEMMA HandleRequestExplained ==
    ASSUME TypeOK, UndefinedExplained, NEW msg \in Requests, HandleRequest(msg)
    PROVE  UndefinedExplained'
  <1>1. Handled /\ Watches /\ UNCHANGED transactions
    BY HandleRequestCases
  <1>2. ASSUME NEW u, NEW s, NEW old, NEW w, AddsWatcher(u, s, old, w)
        PROVE  \A t \in Uris : observed'[t] = NoWatchers => observed[t] = NoWatchers
    <2>1. /\ u \in Uris /\ s \in Servers /\ w \in Watchers
          /\ old \in [Servers -> Watchers \cup {None}]
          /\ observed' = [observed EXCEPT ![u] = [old EXCEPT ![s] = w]]
      BY <1>2, WatchersOfType DEF AddsWatcher
    <2>2. [old EXCEPT ![s] = w] # NoWatchers
      BY <2>1, NoWatchersIs, NoneAssumption
    <2>3. QED
      BY <2>1, <2>2 DEF TypeOK
  <1>3. ASSUME NEW u, NEW old, LeavesElement(u, old)
        PROVE  \A t \in Uris : observed'[t] = NoWatchers =>
                  observed[t] = NoWatchers \/ "no watcher" \in misuse'
    BY <1>3 DEF LeavesElement, TypeOK
  <1>4. \A t \in Uris : observed'[t] = NoWatchers =>
           observed[t] = NoWatchers \/ "no watcher" \in misuse'
    BY <1>1, <1>2, <1>3, Zenon DEF Watches
  <1>5. Unserialised' \subseteq Unserialised
    BY <1>1 DEF Unserialised, Pending
  <1>6. QED
    BY <1>1, <1>4, <1>5, StillExplained DEF Handled

LEMMA ReceiveReplyExplained ==
    ASSUME TypeOK, UndefinedExplained, NEW msg \in Replies, ReceiveReply(msg)
    PROVE  UndefinedExplained'
  <1>1. CASE WalksOff(msg) /\ GoUndefined /\ UNCHANGED misuse
    <2>1. "no watcher" \in misuse /\ UNCHANGED <<observed, transactions>>
      BY <1>1 DEF WalksOff, UndefinedExplained, GoUndefined
    <2>2. Unserialised' \subseteq Unserialised
      BY <2>1 DEF Unserialised, Pending
    <2>3. QED
      BY <1>1, <2>1, <2>2, StillExplained
  <1>2. CASE /\ phase' = "step" /\ AnswerTransaction(msg)
             /\ \/ UNCHANGED observed
                \/ \E w \in MeantBy(msg) : CancelsOne(msg, w)
    <2>1. misuse \subseteq misuse' /\ Unserialised' \subseteq Unserialised
      BY <1>2, AnswerShrinks
    <2>2. \A u \in Uris : observed'[u] = NoWatchers => observed[u] = NoWatchers
      <3>1. ASSUME NEW w \in MeantBy(msg), CancelsOne(msg, w), NEW u \in Uris,
                   observed'[u] = NoWatchers
            PROVE  observed[u] = NoWatchers
        <4>1. w \in Watched /\ observed' = Unwatched(w)
          BY <3>1 DEF CancelsOne, MeantBy
        <4>2. QED
          BY <3>1, <4>1, UnwatchedIs
      <3>2. QED
        BY <1>2, <3>1
    <2>3. QED
      BY <1>2, <2>1, <2>2, StillExplained
  <1>3. QED
    BY <1>1, <1>2, ReceiveReplyCases

LEMMA RegisterExplained ==
    ASSUME IInv, UndefinedExplained, Register
    PROVE  UndefinedExplained'
  <1>0. TypeOK /\ PendingBelow /\ nextMID + NServers <= MaxMid
    BY RegisterCases DEF IInv
  <1>1. PICK stop, noBuffer, noClock :
           /\ stop \in 1..(NServers + 1)
           /\ Registers(stop, noBuffer, noClock)
    BY RegisterCases
  <1>2. /\ noBuffer = {} => \A m \in Pending' :
              m \in Pending \/ ~Unsent(transactions'[m].timer)
        /\ \A m \in Pending : transactions'[m] = transactions[m]
    BY <1>0, <1>1, RegisterTransactions
  <1>7. misuse' = misuse \cup DeadPayload(noBuffer)
    BY <1>1 DEF Registers
  <1>3. misuse' = IF noBuffer = {} THEN misuse ELSE misuse \cup {"dead payload"}
    BY <1>7 DEF DeadPayload
  <1>4. phase' # "undefined" /\ UNCHANGED observed
    BY RegisterCases
  <1>5. Unserialised' # {} => "dead payload" \in misuse'
    <2>1. CASE noBuffer # {}
      BY <1>3, <2>1
    <2>2. CASE noBuffer = {}
      <3>1. Unserialised' \subseteq Unserialised
        BY <1>2, <2>2 DEF Unserialised
      <3>2. QED
        BY <1>3, <3>1 DEF UndefinedExplained
    <2>3. QED
      BY <2>1, <2>2
  <1>6. QED
    BY <1>3, <1>4, <1>5 DEF UndefinedExplained, NoWatchers

LEMMA CloseExplained ==
    ASSUME IInv, UndefinedExplained, NEW freed \in ObjectsFreed, Close(freed)
    PROVE  UndefinedExplained'
  <1>0. freed \in BOOLEAN
    BY InputAssumption
  <1>1. CASE /\ GoUndefined
             /\ misuse' = IF freed THEN misuse \cup {"objects freed"} ELSE misuse
             /\ freed \/ \E s \in Servers :
                            status[s] = "REGISTERED" /\ location[s] = None
    <2>1. /\ observed' = observed /\ misuse \subseteq misuse'
          /\ Unserialised' = Unserialised
      BY <1>1 DEF GoUndefined, Unserialised, Pending
    <2>2. misuse' # {}
      <3>1. CASE freed
        BY <1>1, <3>1
      <3>2. ASSUME NEW s \in Servers, status[s] = "REGISTERED", location[s] = None
            PROVE  misuse' # {}
        <4>1. "no location" \in misuse
          BY <3>2 DEF IInv, RegisteredAsAnswered
        <4>2. QED
          BY <2>1, <4>1
      <3>3. QED
        BY <1>1, <3>1, <3>2
    <2>3. QED
      BY <2>1, <2>2, StillExplained
  <1>2. CASE /\ phase' = "closed"
             /\ observed' = [u \in Uris |-> None]
             /\ transactions' = [m \in Mids |-> None]
             /\ UNCHANGED misuse
    <2>1. \A u \in Uris : observed'[u] # NoWatchers
      BY <1>2, NoWatchersIs DEF NoWatchers
    <2>2. Unserialised' = {}
      BY <1>2 DEF Unserialised, Pending
    <2>3. QED
      BY <1>2, <2>1, <2>2, StillExplained
  <1>3. \/ /\ GoUndefined
           /\ misuse' = IF freed THEN misuse \cup {"objects freed"} ELSE misuse
           /\ freed \/ \E s \in Servers :
                          status[s] = "REGISTERED" /\ location[s] = None
        \/ /\ phase' = "closed"
           /\ observed' = [u \in Uris |-> None]
           /\ transactions' = [m \in Mids |-> None]
           /\ UNCHANGED misuse
    BY <1>0, CloseCases
  <1>4. QED
    BY <1>1, <1>2, <1>3, Zenon

LEMMA NextExplained ==
    ASSUME IInv, UndefinedExplained, [Next]_vars
    PROVE  UndefinedExplained'
  <1>0. TypeOK
    BY DEF IInv
  <1>1. CASE Register
    BY <1>1, RegisterExplained
  <1>2. ASSUME NEW msg \in Requests, HandleRequest(msg)
        PROVE  UndefinedExplained'
    BY <1>0, <1>2, HandleRequestExplained
  <1>3. ASSUME NEW msg \in Replies, ReceiveReply(msg)
        PROVE  UndefinedExplained'
    BY <1>0, <1>3, ReceiveReplyExplained
  <1>4. ASSUME NEW u \in Uris, NEW d \in Values, Change(u, d)
        PROVE  UndefinedExplained'
    <2>1. /\ phase' = "step" /\ UNCHANGED <<misuse, transactions>>
          /\ \E ws, mid : Notifies(ws, mid)
      BY <1>4, ChangeCases DEF Change
    <2>2. \A t \in Uris : observed[t] # NoWatchers => observed'[t] # NoWatchers
      BY <1>0, <2>1, NotifiesIs
    <2>3. Unserialised' = Unserialised
      BY <2>1 DEF Unserialised, Pending
    <2>4. QED
      BY <2>1, <2>2, <2>3, StillExplained
  <1>5. ASSUME NEW freed \in ObjectsFreed, Close(freed)
        PROVE  UndefinedExplained'
    BY <1>5, CloseExplained
  <1>6. CASE \/ \E u \in Uris, v \in Values : UpdateObject(u, v)
             \/ Lwm2mStep \/ Wake \/ Tick \/ Abort
    <2>1. Calm
      BY <1>0, <1>6, CalmSteps
    <2>2. phase' = "undefined" => misuse' # {}
      BY <2>1 DEF Calm, UndefinedExplained
    <2>3. QED
      BY <2>1, <2>2, StillExplained DEF Calm
  <1>7. CASE UNCHANGED vars
    BY <1>7 DEF vars, UndefinedExplained, NoWatchers, Unserialised, Pending
  <1>8. QED
    BY <1>1, <1>2, <1>3, <1>4, <1>5, <1>6, <1>7 DEF Next

\* The engine leaves defined behaviour only after a watcher, a location or the
\* buffer of a registration found no memory, a Block2 option cut the payload
\* of an answer, a string without a value was read or written, or the program
\* freed the objects before lwm2m_close.
THEOREM UndefinedIsExplained == Spec => []UndefinedExplained
  <1>1. Init => UndefinedExplained
    BY NoWatchersIs DEF Init, UndefinedExplained, Unserialised, Pending
  <1>2. IInv /\ UndefinedExplained /\ [Next]_vars => UndefinedExplained'
    BY NextExplained
  <1>3. QED
    BY <1>1, <1>2, InvariantHolds, PTL DEF Spec

-----------------------------------------------------------------------------
(* The message IDs of the notifications                                     *)

\* A step that keeps the message IDs of the watchers that stay, the new ones
\* having none, while no request gets one that was handed out before.
NamesKept ==
    /\ nextMID \in Nat /\ nextMID' \in Nat /\ nextMID <= nextMID'
    /\ \A m \in Pending' : m \in Pending \/ nextMID <= m
    /\ \A v \in Watched' : \/ v \in Watched /\ Watcher(v)'.lastMid = Watcher(v).lastMid
                           \/ Watcher(v)'.lastMid = 0

LEMMA KeptNames ==
    ASSUME TypeOK, NotificationNames, NamesKept
    PROVE  NotificationNames'
  <1>1. \A v \in Watched : Watcher(v).lastMid \in Int
    BY WatchedType DEF Watchers, Mids
  <1>2. ASSUME NEW v \in Watched', Watcher(v)'.lastMid # 0
        PROVE  /\ v \in Watched /\ Watcher(v)'.lastMid = Watcher(v).lastMid
               /\ Watcher(v)'.lastMid < nextMID'
               /\ Watcher(v)'.lastMid \notin Pending'
    <2> DEFINE n == Watcher(v).lastMid
    <2>1. v \in Watched /\ Watcher(v)'.lastMid = n
      BY <1>2 DEF NamesKept
    <2>2. n < nextMID /\ n \notin Pending /\ n \in Int
      BY <1>1, <1>2, <2>1 DEF NotificationNames
    <2> HIDE DEF n
    <2>3. n < nextMID' /\ n \notin Pending'
      BY <2>2 DEF NamesKept
    <2>4. QED
      BY <2>1, <2>3 DEF n
  <1>3. ASSUME NEW v \in Watched', NEW w \in Watched',
               Watcher(v)'.lastMid = Watcher(w)'.lastMid, Watcher(v)'.lastMid # 0
        PROVE  v = w
    <2>1. /\ v \in Watched /\ Watcher(v)'.lastMid = Watcher(v).lastMid
          /\ w \in Watched /\ Watcher(w)'.lastMid = Watcher(w).lastMid
      BY <1>2, <1>3
    <2>2. QED
      BY <1>3, <2>1 DEF NotificationNames
  <1>4. QED
    BY <1>2, <1>3, Zenon DEF NotificationNames

LEMMA RegisterNames ==
    ASSUME IInv, NotificationNames, Register
    PROVE  NotificationNames'
  <1>1. nextMID + NServers <= MaxMid /\ observed' = observed
    BY RegisterCases
  <1>2. PICK stop, noBuffer, noClock :
           /\ stop \in 1..(NServers + 1)
           /\ Registers(stop, noBuffer, noClock)
    BY RegisterCases
  <1>3. TypeOK /\ PendingBelow
    BY DEF IInv
  <1>4. /\ nextMID' \in 0..MaxMid /\ nextMID <= nextMID'
        /\ \A m \in Pending' : m \in Pending \/ nextMID <= m
    BY <1>1, <1>2, <1>3, RegisterTransactions
  <1>5. Watched' = Watched /\ \A v \in Watched : Watcher(v)' = Watcher(v)
    BY <1>1 DEF Watched, Watcher
  <1>6. nextMID \in Nat /\ nextMID' \in Nat
    BY <1>3, <1>4, BoundsAssumption DEF TypeOK
  <1>7. NamesKept
    BY <1>4, <1>5, <1>6 DEF NamesKept
  <1>8. QED
    BY <1>3, <1>7, KeptNames

\* lwm2m_resource_value_changed gives every watcher it notifies a message ID
\* of its own, above those of the requests.
LEMMA ChangeNames ==
    ASSUME IInv, NotificationNames, NEW u, ResourceValueChanged(u)
    PROVE  NotificationNames'
  <1>0. TypeOK /\ PendingBelow
    BY DEF IInv
  <1>1. PICK ws, mid : Notifies(ws, mid)
    BY ChangeCases
  <1>2. UNCHANGED transactions
    BY ChangeCases
  <1>3. /\ nextMID' \in 0..MaxMid /\ Watched' = Watched
        /\ \A v \in Watched :
              /\ v \in ws => Watcher(v)'.lastMid = mid[v]
              /\ v \notin ws => Watcher(v)' = Watcher(v)
    BY <1>0, <1>1, NotifiesIs
  <1>4. Pending' = Pending
    BY <1>2 DEF Pending
  <1>5. nextMID \in Nat /\ nextMID' \in Nat /\ nextMID <= nextMID'
    BY <1>0, <1>1, <1>3, NotifiesIs, BoundsAssumption DEF TypeOK
  <1>6. \A v \in ws : mid[v] \in Nat /\ nextMID <= mid[v] /\ mid[v] < nextMID'
    <2>1. \A v \in ws : mid[v] \in nextMID..(nextMID + Cardinality(ws) - 1)
      BY <1>1 DEF Notifies
    <2>2. nextMID' = nextMID + Cardinality(ws) /\ Cardinality(ws) \in Nat
      BY <1>1 DEF Notifies
    <2>3. QED
      BY <1>5, <2>1, <2>2
  <1>7. \A v \in ws : mid[v] \notin Pending
    BY <1>0, <1>5, <1>6 DEF PendingBelow, Pending, Mids
  <1>8. ASSUME NEW v \in Watched, v \notin ws, Watcher(v).lastMid # 0
        PROVE  /\ Watcher(v).lastMid \in Int
               /\ Watcher(v).lastMid < nextMID
               /\ Watcher(v).lastMid < nextMID'
               /\ Watcher(v).lastMid \notin Pending
    <2> DEFINE n == Watcher(v).lastMid
    <2>1. n \in Int
      BY <1>0, WatchedType DEF Watchers, Mids
    <2>2. n < nextMID /\ n \notin Pending
      BY <1>8 DEF NotificationNames
    <2> HIDE DEF n
    <2>3. n < nextMID'
      BY <1>5, <2>1, <2>2
    <2>4. QED
      BY <2>1, <2>2, <2>3 DEF n
  <1>9. \A v \in Watched : Watcher(v)'.lastMid # 0 =>
           /\ Watcher(v)'.lastMid < nextMID'
           /\ Watcher(v)'.lastMid \notin Pending'
    BY <1>3, <1>4, <1>6, <1>7, <1>8
  <1>10. ASSUME NEW v \in Watched, NEW w \in Watched,
                Watcher(v)'.lastMid = Watcher(w)'.lastMid, Watcher(v)'.lastMid # 0
         PROVE  v = w
    <2>1. CASE v \in ws /\ w \in ws
      BY <1>1, <1>3, <1>10, <2>1 DEF Notifies
    <2>2. CASE v \in ws /\ w \notin ws
      <3>1. mid[v] = Watcher(w).lastMid /\ Watcher(w).lastMid # 0
        BY <1>3, <1>10, <2>2
      <3>2. mid[v] \in Nat /\ nextMID <= mid[v] /\ mid[v] < nextMID
        BY <1>6, <1>8, <2>2, <3>1
      <3>3. QED
        BY <1>5, <3>2
    <2>3. CASE v \notin ws /\ w \in ws
      <3>1. mid[w] = Watcher(v).lastMid /\ Watcher(v).lastMid # 0
        BY <1>3, <1>10, <2>3
      <3>2. mid[w] \in Nat /\ nextMID <= mid[w] /\ mid[w] < nextMID
        BY <1>6, <1>8, <2>3, <3>1
      <3>3. QED
        BY <1>5, <3>2
    <2>4. CASE v \notin ws /\ w \notin ws
      BY <1>3, <1>10, <2>4 DEF NotificationNames
    <2>5. QED
      BY <2>1, <2>2, <2>3, <2>4
  <1>11. QED
    BY <1>3, <1>9, <1>10, Zenon DEF NotificationNames

LEMMA HandleRequestNames ==
    ASSUME IInv, NotificationNames, NEW msg \in Requests, HandleRequest(msg)
    PROVE  NotificationNames'
  <1>0. TypeOK /\ nextMID \in Nat
    BY BoundsAssumption DEF IInv, TypeOK
  <1>1. Watches /\ UNCHANGED <<transactions, nextMID>>
    BY <1>0, HandleRequestCases
  <1>2. /\ nextMID' \in Nat /\ nextMID <= nextMID'
        /\ \A m \in Pending' : m \in Pending
    BY <1>0, <1>1 DEF Pending
  <1>3. \A v \in Watched' : \/ v \in Watched /\ Watcher(v)'.lastMid = Watcher(v).lastMid
                            \/ Watcher(v)'.lastMid = 0
    <2>1. CASE UNCHANGED observed
      BY <2>1 DEF Watched, Watcher
    <2>2. ASSUME NEW u, NEW s, NEW old, NEW w, AddsWatcher(u, s, old, w),
                 NEW v \in Watched'
          PROVE  \/ v \in Watched /\ Watcher(v)'.lastMid = Watcher(v).lastMid
                 \/ Watcher(v)'.lastMid = 0
      <3>1. /\ u \in Uris /\ s \in Servers
            /\ old = WatchersOf(u) /\ old \in [Servers -> Watchers \cup {None}]
            /\ old[s] # None => w.lastMid = old[s].lastMid
            /\ old[s] = None => w.lastMid = 0
            /\ observed' = [observed EXCEPT ![u] = [old EXCEPT ![s] = w]]
        BY <1>0, <2>2, WatchersOfType DEF AddsWatcher
      <3>2. v \in Uris \X Servers /\ v = <<v[1], v[2]>>
            /\ observed'[v[1]] # None /\ observed'[v[1]][v[2]] # None
        BY <2>2 DEF Watched
      <3>3. CASE v[1] # u
        <4>1. observed'[v[1]] = observed[v[1]]
          BY <1>0, <3>1, <3>2, <3>3 DEF TypeOK
        <4>2. QED
          BY <3>2, <4>1 DEF Watched, Watcher
      <3>4. CASE v[1] = u
        <4>1. observed'[u] = [old EXCEPT ![s] = w]
          BY <1>0, <3>1 DEF TypeOK
        <4>2. observed[u] = None => \A r \in Servers : old[r] = None
          BY <3>1, NoWatchersIs DEF WatchersOf
        <4>3. observed[u] # None => old = observed[u]
          BY <3>1 DEF WatchersOf
        <4>4. CASE v[2] = s
          <5>0. observed'[u][s] = w
            BY <3>1, <4>1
          <5>1. Watcher(v)' = w
            BY <3>4, <4>4, <5>0 DEF Watcher
          <5>2. CASE old[s] = None
            BY <3>1, <5>1, <5>2
          <5>3. CASE old[s] # None
            <6>1. v \in Watched /\ Watcher(v) = old[s]
              BY <3>1, <3>2, <3>4, <4>2, <4>3, <4>4, <5>3 DEF Watched, Watcher
            <6>2. QED
              BY <3>1, <5>1, <5>3, <6>1
          <5>4. QED
            BY <5>2, <5>3
        <4>5. CASE v[2] # s
          <5>0. \A r \in Servers : r # s => [old EXCEPT ![s] = w][r] = old[r]
            BY <3>1
          <5>1. observed'[u][v[2]] = old[v[2]]
            <6>1. v[2] \in Servers
              BY <3>2
            <6>2. QED
              BY <4>1, <4>5, <5>0, <6>1
          <5>2. v \in Watched /\ Watcher(v)' = Watcher(v)
            BY <3>2, <3>4, <4>2, <4>3, <5>1 DEF Watched, Watcher
          <5>3. QED
            BY <5>2
        <4>6. QED
          BY <4>4, <4>5
      <3>5. QED
        BY <3>3, <3>4
    <2>3. ASSUME NEW u, NEW old, LeavesElement(u, old), NEW v \in Watched'
          PROVE  v \in Watched /\ Watcher(v)'.lastMid = Watcher(v).lastMid
      <3>1. /\ u \in Uris /\ old = WatchersOf(u)
            /\ observed' = [observed EXCEPT ![u] = old]
        BY <2>3 DEF LeavesElement
      <3>2. v \in Uris \X Servers /\ v = <<v[1], v[2]>>
            /\ observed'[v[1]] # None /\ observed'[v[1]][v[2]] # None
        BY <2>3 DEF Watched
      <3>3. observed'[v[1]] = IF v[1] = u THEN old ELSE observed[v[1]]
        BY <1>0, <3>1, <3>2 DEF TypeOK
      <3>4. observed[v[1]] # None
        BY <3>1, <3>2, <3>3, NoWatchersIs DEF WatchersOf
      <3>5. observed'[v[1]] = observed[v[1]]
        BY <3>1, <3>3, <3>4 DEF WatchersOf
      <3>6. QED
        BY <3>2, <3>5 DEF Watched, Watcher
    <2>4. QED
      BY <1>1, <2>1, <2>2, <2>3 DEF Watches
  <1>4. NamesKept
    BY <1>0, <1>2, <1>3 DEF NamesKept
  <1>5. QED
    BY <1>0, <1>4, KeptNames

\* The watchers after a packet that is no request: the same, but the one that
\* a reset cancelled.
LEMMA ReplyWatchers ==
    ASSUME TypeOK, NEW msg \in Replies, ReceiveReply(msg)
    PROVE  /\ nextMID' = nextMID /\ Pending' \subseteq Pending
           /\ \/ Watched' = Watched
              \/ /\ msg.type = "RST"
                 /\ \E w \in Watched : w[2] = msg.from /\ Watched' = Watched \ {w}
           /\ \A v \in Watched' : v \in Watched /\ Watcher(v)' = Watcher(v)
  <1>1. CASE GoUndefined
    BY <1>1 DEF GoUndefined, Pending, Watched, Watcher
  <1>2. CASE /\ nextMID' = nextMID /\ AnswerTransaction(msg)
             /\ \/ UNCHANGED observed
                \/ \E w \in MeantBy(msg) : CancelsOne(msg, w)
    <2>1. Pending' \subseteq Pending
      BY <1>2, AnswerShrinks
    <2>2. CASE UNCHANGED observed
      BY <1>2, <2>1, <2>2 DEF Watched, Watcher
    <2>3. ASSUME NEW w \in MeantBy(msg), CancelsOne(msg, w)
          PROVE  /\ msg.type = "RST" /\ w \in Watched /\ w[2] = msg.from
                 /\ Watched' = Watched \ {w}
                 /\ \A v \in Watched' : v \in Watched /\ Watcher(v)' = Watcher(v)
      <3>1. /\ msg.type = "RST" /\ w \in Watched /\ w[2] = msg.from
            /\ observed' = Unwatched(w)
        BY <2>3 DEF CancelsOne, MeantBy
      <3>2. \A v \in Watched' : v \in Uris \X Servers /\ v # w /\ v \in Watched
        BY <3>1, UnwatchedIs DEF Watched
      <3>3. \A v \in Watched : v # w => v \in Watched' /\ Watcher(v)' = Watcher(v)
        <4>1. \A v \in Watched : v \in Uris \X Servers /\ Watcher(v) # None
          BY DEF Watched, Watcher
        <4>2. QED
          BY <3>1, <4>1, UnwatchedIs DEF Watched, Watcher
      <3>4. QED
        BY <3>1, <3>2, <3>3
    <2>4. QED
      BY <1>2, <2>1, <2>2, <2>3
  <1>3. QED
    BY <1>1, <1>2, ReceiveReplyCases

LEMMA NextNames ==
    ASSUME IInv, NotificationNames, [Next]_vars
    PROVE  NotificationNames'
  <1>0. TypeOK /\ nextMID \in Nat
    BY BoundsAssumption DEF IInv, TypeOK
  <1>1. CASE Register
    BY <1>1, RegisterNames
  <1>2. ASSUME NEW msg \in Requests, HandleRequest(msg)
        PROVE  NotificationNames'
    BY <1>2, HandleRequestNames
  <1>3. ASSUME NEW msg \in Replies, ReceiveReply(msg)
        PROVE  NotificationNames'
    <2>1. /\ nextMID' = nextMID /\ Pending' \subseteq Pending
          /\ \A v \in Watched' : v \in Watched /\ Watcher(v)' = Watcher(v)
      BY <1>0, <1>3, ReplyWatchers
    <2>2. NamesKept
      BY <1>0, <2>1 DEF NamesKept
    <2>3. QED
      BY <1>0, <2>2, KeptNames
  <1>4. ASSUME NEW u \in Uris, NEW d \in Values, Change(u, d)
        PROVE  NotificationNames'
    BY <1>4, ChangeNames DEF Change
  <1>5. ASSUME NEW freed \in ObjectsFreed, Close(freed)
        PROVE  NotificationNames'
    <2>0. freed \in BOOLEAN
      BY InputAssumption
    <2>1. \/ UNCHANGED <<observed, transactions, nextMID>>
          \/ observed' = [u \in Uris |-> None]
      BY <1>5, <2>0, CloseCases DEF GoUndefined
    <2>2. CASE UNCHANGED <<observed, transactions, nextMID>>
      BY <2>2 DEF NotificationNames, Watched, Watcher, Pending
    <2>3. CASE observed' = [u \in Uris |-> None]
      <3>1. Watched' = {}
        BY <2>3 DEF Watched
      <3>2. QED
        BY <3>1 DEF NotificationNames
    <2>4. QED
      BY <2>1, <2>2, <2>3
  <1>6. CASE \/ \E u \in Uris, v \in Values : UpdateObject(u, v)
             \/ Lwm2mStep \/ Wake \/ Tick \/ Abort
    <2>1. UNCHANGED <<observed, nextMID>> /\ Pending' \subseteq Pending
      BY <1>0, <1>6, CalmSteps DEF Calm
    <2>2. Watched' = Watched /\ \A v \in Watched : Watcher(v)' = Watcher(v)
      BY <2>1 DEF Watched, Watcher
    <2>3. NamesKept
      BY <1>0, <2>1, <2>2 DEF NamesKept
    <2>4. QED
      BY <1>0, <2>3, KeptNames
  <1>7. CASE UNCHANGED vars
    BY <1>7 DEF vars, NotificationNames, Watched, Watcher, Pending
  <1>8. QED
    BY <1>1, <1>2, <1>3, <1>4, <1>5, <1>6, <1>7 DEF Next

\* The message ID of a notification, which a reset names, belongs to one
\* watcher and to no request in the transaction list, however often the
\* application registers between two changes.
THEOREM NotificationsAreNamed == Spec => []NotificationNames
  <1>1. Init => NotificationNames
    BY DEF Init, NotificationNames, Watched
  <1>2. IInv /\ NotificationNames /\ [Next]_vars => NotificationNames'
    BY NextNames
  <1>3. QED
    BY <1>1, <1>2, InvariantHolds, PTL DEF Spec

-----------------------------------------------------------------------------
(* Resets                                                                   *)

LEMMA OnlyResetsEnd ==
    ASSUME IInv, [Next]_vars, phase' # "closed", ~(Watched \subseteq Watched')
    PROVE  \E msg \in Replies :
              /\ msg.type = "RST" /\ ReceiveReply(msg)
              /\ \E w \in Watched : w[2] = msg.from /\ Watched' = Watched \ {w}
  <1>0. TypeOK
    BY DEF IInv
  <1>1. CASE UNCHANGED observed
    BY <1>1 DEF Watched
  <1>2. ASSUME NEW msg \in Requests, HandleRequest(msg)
        PROVE  FALSE
    <2>1. Watches
      BY <1>0, <1>2, HandleRequestCases
    <2>2. PICK v \in Watched : v \notin Watched'
      OBVIOUS
    <2>3. /\ v \in Uris \X Servers /\ v = <<v[1], v[2]>>
          /\ v[1] \in Uris /\ v[2] \in Servers
          /\ observed[v[1]] # None /\ observed[v[1]][v[2]] # None
      BY DEF Watched
    <2>4. observed'[v[1]] = None \/ observed'[v[1]][v[2]] = None
      BY <2>2, <2>3 DEF Watched
    <2>5. ASSUME NEW u, NEW s, NEW old, NEW w, AddsWatcher(u, s, old, w)
          PROVE  FALSE
      <3>1. /\ u \in Uris /\ s \in Servers /\ w \in Watchers
            /\ old = WatchersOf(u) /\ old \in [Servers -> Watchers \cup {None}]
            /\ observed' = [observed EXCEPT ![u] = [old EXCEPT ![s] = w]]
        BY <1>0, <2>5, WatchersOfType DEF AddsWatcher
      <3>2. CASE v[1] # u
        BY <1>0, <2>3, <2>4, <3>1, <3>2 DEF TypeOK
      <3>3. CASE v[1] = u
        <4>1. old = observed[u]
          BY <2>3, <3>1, <3>3 DEF WatchersOf
        <4>2. observed'[u] = [old EXCEPT ![s] = w]
          BY <1>0, <3>1 DEF TypeOK
        <4>3. observed'[u] \in [Servers -> Watchers \cup {None}]
              /\ observed'[u][v[2]] # None
          BY <2>3, <3>1, <3>3, <4>1, <4>2, NoneAssumption
        <4>4. QED
          BY <2>4, <3>3, <4>3, NoneAssumption
      <3>4. QED
        BY <3>2, <3>3
    <2>6. ASSUME NEW u, NEW old, LeavesElement(u, old)
          PROVE  FALSE
      <3>1. /\ u \in Uris /\ old = WatchersOf(u)
            /\ observed' = [observed EXCEPT ![u] = old]
        BY <2>6 DEF LeavesElement
      <3>2. observed'[v[1]] = observed[v[1]]
        BY <1>0, <2>3, <3>1 DEF WatchersOf, TypeOK
      <3>3. QED
        BY <2>3, <2>4, <3>2
    <2>7. QED
      BY <1>1, <2>1, <2>5, <2>6 DEF Watched, Watches
  <1>3. ASSUME NEW msg \in Replies, ReceiveReply(msg)
        PROVE  \E m \in Replies :
                  /\ m.type = "RST" /\ ReceiveReply(m)
                  /\ \E w \in Watched : w[2] = m.from /\ Watched' = Watched \ {w}
    BY <1>0, <1>3, ReplyWatchers
  <1>4. ASSUME NEW u, ResourceValueChanged(u)
        PROVE  FALSE
    BY <1>0, <1>4, ChangeCases, NotifiesIs
  <1>5. ASSUME NEW freed \in ObjectsFreed, Close(freed)
        PROVE  UNCHANGED observed
    <2>1. freed \in BOOLEAN
      BY InputAssumption
    <2>2. QED
      BY <1>5, <2>1, CloseCases DEF GoUndefined
  <1>6. Register => UNCHANGED observed
    BY RegisterCases
  <1>7. (\/ \E u \in Uris, v \in Values : UpdateObject(u, v)
         \/ Lwm2mStep \/ Wake \/ Tick \/ Abort) => UNCHANGED observed
    BY <1>0, CalmSteps DEF Calm
  <1>8. UNCHANGED vars => UNCHANGED observed
    BY DEF vars
  <1>9. QED
    BY <1>1, <1>2, <1>3, <1>4, <1>5, <1>6, <1>7, <1>8, Zenon DEF Next, Change

\* While the program runs, an observation ends by a reset only, of the server
\* that made it, and a reset ends no other.
THEOREM ResetsCancelOne == Spec => ResetCancelsOne
  <1>1. ASSUME IInv, [Next]_vars
        PROVE  [phase' # "closed" /\ Watched \ Watched' # {} =>
                  /\ Cardinality(Watched \ Watched') = 1
                  /\ \E msg \in Replies :
                        /\ msg.type = "RST" /\ ReceiveReply(msg)
                        /\ \A w \in Watched \ Watched' : w[2] = msg.from]_vars
    <2>1. SUFFICES ASSUME phase' # "closed", Watched \ Watched' # {}
                   PROVE  /\ Cardinality(Watched \ Watched') = 1
                          /\ \E msg \in Replies :
                                /\ msg.type = "RST" /\ ReceiveReply(msg)
                                /\ \A w \in Watched \ Watched' : w[2] = msg.from
      OBVIOUS
    <2>2. ~(Watched \subseteq Watched')
      BY <2>1
    <2>3. PICK msg \in Replies :
             /\ msg.type = "RST" /\ ReceiveReply(msg)
             /\ \E w \in Watched : w[2] = msg.from /\ Watched' = Watched \ {w}
      BY <1>1, <2>1, <2>2, OnlyResetsEnd
    <2>4. PICK w \in Watched : w[2] = msg.from /\ Watched' = Watched \ {w}
      BY <2>3
    <2>5. Watched \ Watched' = {w}
      BY <2>4
    <2>6. Cardinality({w}) = 1
      BY FS_Singleton
    <2>7. \A v \in Watched \ Watched' : v[2] = msg.from
      BY <2>4, <2>5
    <2>8. QED
      BY <2>3, <2>5, <2>6, <2>7
  <1>2. QED
    BY <1>1, InvariantHolds, PTL DEF Spec, ResetCancelsOne

-----------------------------------------------------------------------------
(* The refinement of Registration                                           *)

\* A step that moves every status as Registration allows.
Moved == \A s \in Servers : status'[s] \in Abstract!Moves(status[s])

LEMMA MovedIsStep ==
    ASSUME TypeOK, TypeOK', Moved, isOpen
    PROVE  Abstract!Move \/ Abstract!Leave
  <1>1. status' = [s \in Servers |-> status'[s]]
    BY DEF TypeOK
  <1>2. CASE isOpen'
    BY <1>1, <1>2, Zenon DEF Moved, Abstract!Move
  <1>3. CASE ~isOpen'
    <2>1. isOpen' = FALSE
      BY <1>3 DEF isOpen
    <2>2. \A s \in Servers : status'[s] \in Abstract!Moves(status[s]) \cup {"UNKNOWN"}
      BY Zenon DEF Moved
    <2>3. QED
      BY <1>1, <2>1, <2>2, Zenon DEF Abstract!Leave
  <1>4. QED
    BY <1>2, <1>3

LEMMA StatusTypes ==
    ASSUME TypeOK, NEW s \in Servers
    PROVE  /\ status[s] \in Statuses
           /\ status[s] \in Abstract!Moves(status[s])
           /\ "REG_PENDING" \in Abstract!Moves(status[s])
           /\ status[s] = "REG_PENDING" => /\ "UNKNOWN" \in Abstract!Moves(status[s])
                                           /\ "REGISTERED" \in Abstract!Moves(status[s])
  <1>1. status[s] \in Statuses
    BY DEF TypeOK
  <1>2. QED
    BY <1>1 DEF Statuses, Abstract!Moves

\* Every step but the end of the program moves the statuses.
LEMMA StepsMove ==
    ASSUME TypeOK, isOpen, [Next]_vars,
           ~ \E freed \in ObjectsFreed : Close(freed)
    PROVE  Moved
  <1>1. UNCHANGED status => Moved
    BY StatusTypes DEF Moved
  <1>2. CASE Register
    <2>1. PICK stop, noBuffer, noClock : Registers(stop, noBuffer, noClock)
      BY <1>2, RegisterCases
    <2>2. \A s \in Servers : status'[s] =
             Outcome(s, (1..(stop - 1)) \ (noBuffer \cup noClock), noClock)
      BY <2>1 DEF Registers
    <2>3. \A s \in Servers :
             \/ status'[s] \in {status[s], "REG_PENDING"}
             \/ status[s] = "REG_PENDING" /\ status'[s] = "UNKNOWN"
      BY <2>2 DEF Outcome
    <2>4. QED
      BY <2>3, StatusTypes DEF Moved
  <1>3. ASSUME NEW msg \in Requests, HandleRequest(msg)
        PROVE  Moved
    BY <1>1, <1>3, HandleRequestCases DEF registration
  <1>4. ASSUME NEW msg \in Replies, ReceiveReply(msg)
        PROVE  Moved
    <2>1. \/ GoUndefined \/ UNCHANGED registration
          \/ RegistrationReply(msg, msg.from)
      BY <1>4, ReceiveReplyCases DEF AnswerTransaction
    <2>2. \/ UNCHANGED status
          \/ /\ status[msg.from] = "REG_PENDING"
             /\ \/ status' = [status EXCEPT ![msg.from] = "REGISTERED"]
                \/ status' = [status EXCEPT ![msg.from] = "UNKNOWN"]
      BY <2>1, Zenon DEF GoUndefined, RegistrationReply, CountsFor, registration
    <2>3. \A s \in Servers :
             \/ status'[s] = status[s]
             \/ status[s] = "REG_PENDING" /\ status'[s] \in {"REGISTERED", "UNKNOWN"}
      BY <2>2 DEF TypeOK
    <2>4. QED
      BY <2>3, StatusTypes DEF Moved
  <1>5. ASSUME NEW u \in Uris, NEW d \in Values, Change(u, d)
        PROVE  Moved
    BY <1>1, <1>5, ChangeCases DEF Change, registration
  <1>6. CASE Lwm2mStep
    <2>0. UNCHANGED status \/ \E ss : Silence(ss)
      BY <1>6, StepCases, Zenon DEF GoUndefined, registration, WalkList
    <2>1. SUFFICES ASSUME NEW ss, Silence(ss) PROVE Moved
      BY <1>1, <2>0
    <2>2. \A s \in Servers :
             \/ status'[s] = status[s]
             \/ status[s] = "REG_PENDING" /\ status'[s] = "UNKNOWN"
      BY <2>1 DEF Silence
    <2>3. QED
      BY <2>2, StatusTypes DEF Moved
  <1>7. CASE (\E u \in Uris, v \in Values : UpdateObject(u, v)) \/ Wake \/ Tick \/ Abort
    BY <1>1, <1>7 DEF UpdateObject, Wake, Tick, Abort, registration
  <1>8. CASE UNCHANGED vars
    BY <1>1, <1>8 DEF vars
  <1>9. QED
    BY <1>2, <1>3, <1>4, <1>5, <1>6, <1>7, <1>8, Zenon DEF Next

\* A closed context stays closed.
LEMMA ClosedStays ==
    ASSUME TypeOK, ~isOpen, [Next]_vars
    PROVE  UNCHANGED <<status, isOpen>>
  <1>1. phase \in {"closed", "undefined"}
    BY DEF TypeOK, isOpen
  <1>2. UNCHANGED vars
    <2>1. ~Register
      BY <1>1, RegisterCases
    <2>2. ASSUME NEW msg \in Requests, HandleRequest(msg)
          PROVE  FALSE
      BY <1>1, <2>2, HandleRequestCases
    <2>3. ASSUME NEW msg \in Replies, ReceiveReply(msg)
          PROVE  FALSE
      BY <1>1, <2>3, ReceiveReplyCases
    <2>4. ASSUME NEW u \in Uris, NEW d \in Values, Change(u, d)
          PROVE  FALSE
      BY <1>1, <2>4, ChangeCases DEF Change
    <2>5. ASSUME NEW freed \in ObjectsFreed, Close(freed)
          PROVE  FALSE
      <3>1. freed \in BOOLEAN
        BY InputAssumption
      <3>2. QED
        BY <1>1, <2>5, <3>1, CloseCases
    <2>6. ~ (\/ \E u \in Uris, v \in Values : UpdateObject(u, v)
             \/ Lwm2mStep \/ Wake \/ Tick \/ Abort)
      BY <1>1, CalmSteps DEF Calm
    <2>7. QED
      BY <2>1, <2>2, <2>3, <2>4, <2>5, <2>6, Zenon DEF Next
  <1>3. QED
    BY <1>2 DEF vars, isOpen

LEMMA CloseLeaves ==
    ASSUME TypeOK, TypeOK', NEW freed \in ObjectsFreed, Close(freed)
    PROVE  Abstract!Leave
  <1>1. freed \in BOOLEAN
    BY InputAssumption
  <1>2. /\ phase = "select" /\ phase' \in {"closed", "undefined"}
        /\ \A s \in Servers : status'[s] \in {status[s], "UNKNOWN"}
    BY <1>1, CloseCases DEF GoUndefined, registration
  <1>3. isOpen /\ isOpen' = FALSE
    BY <1>2 DEF isOpen
  <1>4. \A s \in Servers : status'[s] \in Abstract!Moves(status[s]) \cup {"UNKNOWN"}
    BY <1>2, StatusTypes
  <1>5. status' = [s \in Servers |-> status'[s]]
    BY DEF TypeOK
  <1>6. QED
    BY <1>3, <1>4, <1>5, Zenon DEF Abstract!Leave

\* The engine implements Registration: a server is registered only out of a
\* pending registration, and stays so until the application registers again
\* or the context is closed.
THEOREM EngineRegisters == Spec => RegistrationSpec
  <1>1. Init => Abstract!Init
    BY DEF Init, Abstract!Init, isOpen
  <1>2. ASSUME TypeOK, TypeOK', [Next]_vars
        PROVE  [Abstract!Move \/ Abstract!Leave]_<<status, isOpen>>
    <2>1. CASE \E freed \in ObjectsFreed : Close(freed)
      BY <1>2, <2>1, CloseLeaves
    <2>2. CASE isOpen /\ ~ \E freed \in ObjectsFreed : Close(freed)
      BY <1>2, <2>2, StepsMove, MovedIsStep
    <2>3. CASE ~isOpen
      BY <1>2, <2>3, ClosedStays
    <2>4. QED
      BY <2>1, <2>2, <2>3
  <1>3. QED
    BY <1>1, <1>2, TypeCorrect, PTL DEF Spec, RegistrationSpec, Abstract!Spec

-----------------------------------------------------------------------------
(* Who asked                                                                *)

\* The packets of a request that was carried out, unless the answer was cut.
Told == phase' # "undefined" =>
            \A r \in sent' : \/ r.code \in {"2.04", "2.05"}
                             \/ r.code = "5.00" /\ "send" \in Faults

LEMMA AnsweredTells ==
    ASSUME NEW msg, NEW code, NEW counter, NEW data,
           Answered(msg, code, counter, data), code \in {"2.04", "2.05"}
    PROVE  Told
  <1>1. \/ sent' = {Response(msg, code, counter, data)}
        \/ "send" \in Faults /\ sent' = {Failure(msg, "5.00")}
        \/ phase' = "undefined"
    BY Zenon DEF Answered
  <1>2. /\ Response(msg, code, counter, data).code = code
        /\ Failure(msg, "5.00").code = "5.00"
    BY DEF Response, Failure
  <1>3. CASE sent' = {Response(msg, code, counter, data)}
    BY <1>2, <1>3 DEF Told
  <1>4. CASE "send" \in Faults /\ sent' = {Failure(msg, "5.00")}
    BY <1>2, <1>4 DEF Told
  <1>5. QED
    BY <1>1, <1>3, <1>4 DEF Told

\* prv_findWatcher found the watcher of server s, or made a new one.
WatcherMade(msg, s, old, w) ==
    /\ msg.op = "observe" /\ s \in FoundServer(msg.from)
    /\ status[s] = "REGISTERED"
    /\ old = WatchersOf(msg.uri)
    /\ old[s] = None => w.token = msg.token
    /\ observed' = [observed EXCEPT ![msg.uri] = [old EXCEPT ![s] = w]]
    /\ Told
    /\ UNCHANGED value

\* A request that adds no watcher, and takes effect only if it succeeds, unless
\* it is an execute.
NoWatcherMade(msg) ==
    /\ Watched' = Watched
    /\ value' = value \/ msg.op = "post" \/ Told

LEMMA FoundOne ==
    ASSUME NEW from, NEW r \in FoundServer(from), NEW s \in FoundServer(from)
    PROVE  r = s
  <1>1. /\ r \in Int /\ s \in Int /\ Family[r] = Family[s]
        /\ ~ r < s /\ ~ s < r
    BY DEF FoundServer, Servers
  <1>2. QED
    BY <1>1

LEMMA WatcherMadeOrNot ==
    ASSUME TypeOK, NEW msg \in Requests, HandleRequest(msg)
    PROVE  \/ \E s, old, w : WatcherMade(msg, s, old, w)
           \/ NoWatcherMade(msg)
  <1>0. msg.uri \in Uris
    BY InputAssumption
  <1>1. ASSUME UNCHANGED observed, value' = value \/ msg.op = "post" \/ Told
        PROVE  NoWatcherMade(msg)
    BY <1>1 DEF NoWatcherMade, Watched
  <1>2. CASE Strays(msg) /\ GoUndefined
    BY <1>1, <1>2, Zenon DEF GoUndefined
  <1>3. CASE WriteRequest(msg)
    <2>1. \/ value' = value /\ \E code : Refused(msg, code)
          \/ UNCHANGED observed /\ Answered(msg, "2.04", None, None)
      BY <1>3, Zenon DEF WriteRequest
    <2>2. QED
      BY <1>1, <2>1, AnsweredTells, Zenon DEF Refused
  <1>4. CASE ReadRequest(msg) \/ PostRequest(msg) \/ DeleteRequest(msg)
    <2>1. UNCHANGED observed /\ (value' = value \/ msg.op = "post")
      BY <1>4, Zenon DEF ReadRequest, PostRequest, DeleteRequest, Refused
    <2>2. QED
      BY <1>1, <2>1
  <1>5. CASE ObserveRequest(msg)
    <2>1. msg.op = "observe" /\ value' = value
      BY <1>5, Zenon DEF ObserveRequest
    <2>2. \/ UNCHANGED observed
          \/ /\ \E s \in FoundServer(msg.from) : status[s] = "REGISTERED"
             /\ \E s \in FoundServer(msg.from) : AddWatcher(msg, s)
      BY <1>5, Zenon DEF ObserveRequest, Refused
    <2>3. ASSUME NEW s \in FoundServer(msg.from), AddWatcher(msg, s),
                 status[s] = "REGISTERED"
          PROVE  \/ \E r, old, w : WatcherMade(msg, r, old, w)
                 \/ NoWatcherMade(msg)
      <3> DEFINE old == WatchersOf(msg.uri)
                 w   == IF old[s] # None THEN old[s]
                        ELSE [token |-> msg.token, counter |-> 0, lastMid |-> 0]
                 v   == [w EXCEPT !.counter = @ + 1]
      <3>1. \/ /\ observed' = [observed EXCEPT ![msg.uri] = [old EXCEPT ![s] = v]]
               /\ Answered(msg, "2.05", w.counter, value[msg.uri])
            \/ UNCHANGED observed
            \/ observed' = [observed EXCEPT ![msg.uri] = old]
        BY <2>3, Zenon DEF AddWatcher, Refused
      <3>2. CASE UNCHANGED observed
        BY <1>1, <2>1, <3>2
      <3>3. CASE observed' = [observed EXCEPT ![msg.uri] = old]
        <4>1. \A u \in Uris : observed'[u] = IF u = msg.uri THEN old ELSE observed[u]
          BY <1>0, <3>3 DEF TypeOK
        <4>2. observed[msg.uri] = None => \A r \in Servers : old[r] = None
          BY NoWatchersIs DEF WatchersOf
        <4>3. observed[msg.uri] # None => old = observed[msg.uri]
          BY DEF WatchersOf
        <4> HIDE DEF old
        <4>4. Watched' = Watched
          BY <4>1, <4>2, <4>3 DEF Watched
        <4>5. QED
          BY <2>1, <4>4 DEF NoWatcherMade
      <3>4. CASE /\ observed' = [observed EXCEPT ![msg.uri] = [old EXCEPT ![s] = v]]
                 /\ Answered(msg, "2.05", w.counter, value[msg.uri])
        <4>1. old[s] = None => v.token = msg.token
          OBVIOUS
        <4> HIDE DEF v, w
        <4>2. Told
          BY <3>4, AnsweredTells
        <4>3. WatcherMade(msg, s, old, v)
          BY <2>1, <2>3, <3>4, <4>1, <4>2, Zenon DEF WatcherMade
        <4>4. QED
          BY <4>3
      <3>5. QED
        BY <3>1, <3>2, <3>3, <3>4
    <2>4. QED
      BY <1>1, <2>1, <2>2, <2>3, FoundOne
  <1>6. CASE Refused(msg, "4.00") /\ UNCHANGED value
    BY <1>1, <1>6 DEF Refused
  <1>7. QED
    BY <1>2, <1>3, <1>4, <1>5, <1>6, Zenon DEF HandleRequest

\* The watcher x is that of the first server of the family of the sender.
WatchesFor(x, msg) ==
    /\ HandleRequest(msg)
    /\ msg.op = "observe" /\ msg.uri = x[1]
    /\ msg.token = observed'[x[1]][x[2]].token
    /\ status[x[2]] = "REGISTERED"
    /\ Family[x[2]] = Family[msg.from]
    /\ \A s \in Servers : Family[s] = Family[msg.from] => x[2] <= s

FamilyWatches ==
    \A w \in Watched' \ Watched : \E msg \in Requests : WatchesFor(w, msg)

\* Whoever asks, the watcher is that of the first server whose address is as
\* long, which is registered: with the token and for the path of the request,
\* but it need not be the sender's.
THEOREM WatcherIsAlwaysOfTheFamily == Spec => WatcherIsOfTheFamily
  <1>1. ASSUME IInv, [Next]_vars, NEW x \in Watched' \ Watched
        PROVE  \E msg \in Requests : WatchesFor(x, msg)
    <2>0. TypeOK
      BY <1>1 DEF IInv
    <2>1. ~ UNCHANGED observed
      BY <1>1 DEF Watched
    <2>2. ASSUME NEW msg \in Requests, HandleRequest(msg)
          PROVE  WatchesFor(x, msg)
      <3>1. PICK s, old, w : WatcherMade(msg, s, old, w)
        BY <1>1, <2>0, <2>2, WatcherMadeOrNot DEF NoWatcherMade
      <3>2. /\ msg.uri \in Uris /\ s \in Servers /\ status[s] = "REGISTERED"
            /\ Family[s] = Family[msg.from]
            /\ \A r \in Servers : r < s => Family[r] # Family[msg.from]
        BY <3>1, InputAssumption DEF WatcherMade, FoundServer
      <3>3. \A r \in Servers : Family[r] = Family[msg.from] => s <= r
        BY <3>2 DEF Servers
      <3>4. /\ x \in Uris \X Servers /\ x = <<x[1], x[2]>>
            /\ observed'[x[1]] # None /\ observed'[x[1]][x[2]] # None
            /\ observed[x[1]] = None \/ observed[x[1]][x[2]] = None
        BY <1>1 DEF Watched
      <3>5. /\ old \in [Servers -> Watchers \cup {None}]
            /\ old = WatchersOf(msg.uri) /\ msg.op = "observe"
            /\ old[s] = None => w.token = msg.token
            /\ observed' = [observed EXCEPT ![msg.uri] = [old EXCEPT ![s] = w]]
        BY <2>0, <3>1, <3>2, WatchersOfType DEF WatcherMade
      <3>6. x[1] = msg.uri
        BY <2>0, <3>2, <3>4, <3>5 DEF TypeOK
      <3>7. observed'[msg.uri] = [old EXCEPT ![s] = w]
        BY <2>0, <3>2, <3>5 DEF TypeOK
      <3>8. old[x[2]] = None
        BY <3>4, <3>5, <3>6, NoWatchersIs DEF WatchersOf
      <3>9. x[2] = s
        BY <3>4, <3>5, <3>6, <3>7, <3>8
      <3>10. observed'[msg.uri][s] = w
        BY <3>2, <3>5, <3>7
      <3>11. QED
        BY <2>2, <3>2, <3>3, <3>5, <3>6, <3>8, <3>9, <3>10 DEF WatchesFor
    <2>3. ASSUME NEW msg \in Replies, ReceiveReply(msg)
          PROVE  FALSE
      BY <1>1, <2>0, <2>3, ReplyWatchers
    <2>4. ASSUME NEW u, ResourceValueChanged(u)
          PROVE  FALSE
      BY <1>1, <2>0, <2>4, ChangeCases, NotifiesIs
    <2>5. ASSUME NEW freed \in ObjectsFreed, Close(freed)
          PROVE  FALSE
      <3>1. freed \in BOOLEAN
        BY InputAssumption
      <3>2. CASE observed' = [u \in Uris |-> None]
        BY <1>1, <3>2 DEF Watched
      <3>3. QED
        BY <2>1, <2>5, <3>1, <3>2, CloseCases DEF GoUndefined
    <2>6. Register => UNCHANGED observed
      BY RegisterCases
    <2>7. (\/ \E u \in Uris, v \in Values : UpdateObject(u, v)
           \/ Lwm2mStep \/ Wake \/ Tick \/ Abort) => UNCHANGED observed
      BY <2>0, CalmSteps DEF Calm
    <2>8. UNCHANGED vars => UNCHANGED observed
      BY DEF vars
    <2>9. \E msg \in Requests : HandleRequest(msg)
      BY <1>1, <2>1, <2>3, <2>4, <2>5, <2>6, <2>7, <2>8, Zenon DEF Next, Change
    <2>10. QED
      BY <2>2, <2>9
  <1>2. IInv /\ [Next]_vars => [FamilyWatches]_vars
    BY <1>1 DEF FamilyWatches
  <1>3. QED
    BY <1>2, InvariantHolds, PTL
       DEF Spec, WatcherIsOfTheFamily, FamilyWatches, WatchesFor

-----------------------------------------------------------------------------
(* Errors                                                                   *)

\* No packet is an error message.
NoError == \A r \in sent' : "code" \in DOMAIN r =>
                               r.code \in {"2.04", "2.05"}

RefusedOrDone ==
    /\ value' # value \/ Watched' # Watched
    /\ phase' # "undefined"
    /\ \E r \in sent' : /\ "code" \in DOMAIN r
                        /\ r.code \notin {"2.04", "2.05"}
                        /\ r.code = "5.00" => "send" \notin Faults
    => \E msg \in Requests : msg.op = "post" /\ HandleRequest(msg)

LEMMA OnlyRequestsFail ==
    ASSUME Next
    PROVE  NoError \/ \E msg \in Requests : HandleRequest(msg)
  <1>1. ASSUME \A r \in sent' : \E m, s : r = RegisterRequest(m, s)
        PROVE  NoError
    BY <1>1 DEF NoError, RegisterRequest
  <1>2. CASE Register
    <2>1. \E S : \E h : sent' = {RegisterRequest(h[s], s) : s \in S}
      <3>1. PICK stop, noBuffer :
               sent' = {RegisterRequest(nextMID + s - 1, s) :
                           s \in (1..(stop - 1)) \ noBuffer}
        BY <1>2, ZenonT(60) DEF Register
      <3> DEFINE S == (1..(stop - 1)) \ noBuffer
                 h == [s \in S |-> nextMID + s - 1]
      <3>2. sent' = {RegisterRequest(h[s], s) : s \in S}
        BY <3>1
      <3>3. QED
        BY <3>2
    <2>2. QED
      BY <1>1, <2>1
  <1>3. CASE Lwm2mStep
    <2>1. \/ sent' = {}
          \/ sent' = {RegisterRequest(m, transactions[m].server) : m \in Touched}
      BY <1>3, StepCases, Zenon DEF GoUndefined, WalkList
    <2>2. QED
      BY <1>1, <2>1
  <1>4. ASSUME NEW u, ResourceValueChanged(u)
        PROVE  NoError
    <2>1. PICK ws, mid : sent' = {Notification(w, mid[w]) : w \in ws}
      <3>1. PICK ws : NotifyAll(ws)
        BY <1>4, Zenon DEF ResourceValueChanged
      <3>2. PICK mid \in NotificationMids(ws) :
               sent' = {Notification(w, mid[w]) : w \in ws}
        BY <3>1, Zenon DEF NotifyAll
      <3>3. QED
        BY <3>2
    <2>2. QED
      BY <2>1 DEF NoError, Notification
  <1>5. ASSUME NEW freed \in ObjectsFreed, Close(freed)
        PROVE  NoError
    <2>1. sent' = {} \/ \E ss : sent' = Farewells(ss)
      BY <1>5, Zenon DEF Close, GoUndefined
    <2>2. ASSUME NEW ss, NEW r \in Farewells(ss)
          PROVE  DOMAIN r = {"to", "op", "location", "mid"}
      <3>1. PICK s, n :
               r = [to |-> s, op |-> "deregister", location |-> location[s], mid |-> n]
        BY Zenon DEF Farewells
      <3>2. QED
        BY <3>1
    <2>3. QED
      BY <2>1, <2>2 DEF NoError
  <1>6. ASSUME NEW msg \in Replies, ReceiveReply(msg)
        PROVE  NoError
    BY <1>6 DEF ReceiveReply, GoUndefined, NoError
  <1>7. CASE (\E u \in Uris, v \in Values : UpdateObject(u, v)) \/ Wake \/ Tick \/ Abort
    BY <1>7 DEF UpdateObject, Wake, Tick, Abort, NoError
  <1>8. QED
    BY <1>2, <1>3, <1>4, <1>5, <1>6, <1>7, Zenon DEF Next, Change

\* A request answered with an error left the resources and the observations
\* alone, but for an execute whose function failed half-way, and for the 5.00
\* that follows an answer that could not be sent.
THEOREM RefusedNeverTakesEffect == Spec => RefusedHasNoEffect
  <1>1. ASSUME IInv, Next
        PROVE  RefusedOrDone
    <2>0. TypeOK
      BY <1>1 DEF IInv
    <2>1. CASE NoError
      BY <2>1 DEF NoError, RefusedOrDone
    <2>2. ASSUME NEW msg \in Requests, HandleRequest(msg)
          PROVE  RefusedOrDone
      <3>1. CASE NoWatcherMade(msg)
        BY <2>2, <3>1 DEF NoWatcherMade, RefusedOrDone, Told
      <3>2. ASSUME NEW s, NEW old, NEW w, WatcherMade(msg, s, old, w)
            PROVE  RefusedOrDone
        BY <3>2 DEF WatcherMade, RefusedOrDone, Told
      <3>3. QED
        BY <2>0, <2>2, <3>1, <3>2, WatcherMadeOrNot
    <2>3. QED
      BY <1>1, <2>1, <2>2, OnlyRequestsFail
  <1>2. IInv /\ [Next]_vars => [RefusedOrDone]_vars
    BY <1>1
  <1>3. QED
    BY <1>2, InvariantHolds, PTL DEF Spec, RefusedHasNoEffect, RefusedOrDone
=============================================================================
