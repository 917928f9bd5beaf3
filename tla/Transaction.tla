----------------------------- MODULE Transaction -----------------------------
(***************************************************************************)
(* The retransmission schedule of one confirmable message, as the two     *)
(* engines (client and server) run it: core/transaction.c.                *)
(*                                                                         *)
(* A transaction is kept by its timer: `counter` is retrans_counter and    *)
(* `wait` is retrans_time minus the current time, so that it counts down   *)
(* and goes negative when lwm2m_step is late.  Two fields are not in the   *)
(* code, they record what the schedule did: `age` (seconds since the first *)
(* transmission) and `sends` (transmissions made).                         *)
(***************************************************************************)
EXTENDS Integers

COAP_RESPONSE_TIMEOUT == 2
COAP_MAX_RETRANSMIT   == 4

Timers == [counter : 0..COAP_MAX_RETRANSMIT, wait : Int, age : Nat, sends : Nat]

\* transaction_new: everything is zeroed, no buffer, nothing sent.
NewTimer == [counter |-> 0, wait |-> 0, age |-> 0, sends |-> 0]

\* No buffer yet: transaction_send serialises the message first, and may fail.
Unsent(t) == t.counter = 0

\* retrans_time <= now; an unsent transaction has retrans_time 0.
Due(t) == Unsent(t) \/ t.wait <= 0

\* The counter transaction_send works with: the first transmission starts it
\* at 1, or straight at the limit when the clock cannot be read.
CounterAtSend(t, clockOk) ==
    IF ~Unsent(t) THEN t.counter
    ELSE IF clockOk THEN 1 ELSE COAP_MAX_RETRANSMIT

\* Variants: one transmission too many, one too few.
GivesUpLate(t, clockOk)  == CounterAtSend(t, clockOk) > COAP_MAX_RETRANSMIT
GivesUpEarly(t, clockOk) == CounterAtSend(t, clockOk) >= COAP_MAX_RETRANSMIT - 1

\* This transmission is the last one: the callback gets NULL and the
\* transaction is removed at once.
GivesUp(t, clockOk) == CounterAtSend(t, clockOk) >= COAP_MAX_RETRANSMIT

\* Variant: the interval does not grow.
ResentAtOnce(t, clockOk) ==
    [counter |-> CounterAtSend(t, clockOk) + 1,
     wait    |-> t.wait + COAP_RESPONSE_TIMEOUT,
     age     |-> t.age,
     sends   |-> t.sends + 1]

\* The timer after a transmission that is not the last one.
Resent(t, clockOk) ==
    LET c == CounterAtSend(t, clockOk)
    IN  [counter |-> c + 1,
         wait    |-> t.wait + COAP_RESPONSE_TIMEOUT * c,
         age     |-> t.age,
         sends   |-> t.sends + 1]

\* Variant: the time of day is read once and kept.
AgedNever(t) == t

\* A second passes.
Aged(t) == IF Unsent(t) THEN t
           ELSE [counter |-> t.counter, wait |-> t.wait - 1,
                 age |-> t.age + 1, sends |-> t.sends]

\* Variant: the whole interval, not what is left of it.
IntervalWhole(t) == COAP_RESPONSE_TIMEOUT * (t.counter - 1)

\* What lwm2m_step may sleep for because of this transaction.
Interval(t) == IF t.wait > 0 THEN t.wait ELSE 1

-----------------------------------------------------------------------------
(* Transmissions are due 0, 2, 6 and 12 seconds after the first one: before *)
(* transmission c the transaction is due at Deadline(c).                     *)
Deadline(c) == COAP_RESPONSE_TIMEOUT * ((c * (c - 1)) \div 2)

OnSchedule(t) ==
    IF Unsent(t) THEN t.sends = 0
    ELSE /\ t.sends = t.counter - 1
         /\ t.counter >= 2
         /\ t.age + t.wait = Deadline(t.counter)
=============================================================================
