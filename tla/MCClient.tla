------------------------------ MODULE MCClient ------------------------------
(* Small instances of Lwm2mClient.                                          *)
EXTENDS Lwm2mClient, TLC

CONSTANTS v1, v2, l1, t1, t2

rw   == [obj |-> 1, inst |-> 0, res |-> 0]
ex   == [obj |-> 1, inst |-> 0, res |-> 1]
inst == [obj |-> 1, inst |-> 0, res |-> None]
none == [obj |-> 1, inst |-> 1, res |-> 0]

OneUri   == {rw}
TwoUris  == {rw, inst}
AllUris  == {rw, ex, inst, none}
NoUris   == {}

\* The object does not fit in a packet; a string has no second instance.
TooLong == {inst}
Missing == {none}
MCAccess == [u \in Uris |-> IF u = ex THEN "E" ELSE "RW"]

\* Server 2 and the others: IPv4 and IPv6.
TwoFamilies == [a \in Addrs |-> IF a = 2 THEN "inet" ELSE "inet6"]

NoRequests == {}

Observes(us, toks) ==
    {[from |-> a, mid |-> 0, con |-> TRUE, op |-> "observe", uri |-> u,
      token |-> t, data |-> None, block2 |-> "none"] :
        a \in Addrs, u \in us, t \in toks}

\* Observation of every path, by servers and strangers, under two tokens.
ObserveRequests == Observes(Uris, {t1, t2})

FewObserveRequests == Observes(Uris, {t1})

\* Everything a server may ask for; writes also blockwise and unconfirmed.
AnyRequests ==
    Observes(Uris, {t1, None})
    \cup {[from |-> a, mid |-> 0, con |-> TRUE, op |-> op, uri |-> u, token |-> t1,
           data |-> d, block2 |-> "none"] :
             a \in Addrs, op \in {"read", "post", "delete"}, u \in Uris,
             d \in {None, v1}}
    \cup {[from |-> a, mid |-> 0, con |-> c, op |-> "write", uri |-> u, token |-> t1,
           data |-> d, block2 |-> IF c THEN "none" ELSE "later"] :
             a \in Addrs, c \in BOOLEAN, u \in Uris, d \in Values \cup {None}}

\* Answers to registrations, good and bad, acknowledged or not.
Answers ==
    {[from |-> a, mid |-> m, type |-> "ACK", code |-> c, location |-> l] :
        a \in Addrs, m \in Mids, c \in {"2.01", "4.00"}, l \in {None, l1}}
    \cup {[from |-> a, mid |-> m, type |-> "NON", code |-> "2.01", location |-> l1] :
            a \in Addrs, m \in Mids}

Resets ==
    {[from |-> a, mid |-> m, type |-> "RST", code |-> "0.00", location |-> None] :
        a \in Addrs, m \in Mids}

AnyReplies == Answers \cup Resets

\* The answers that register, and resets.
GoodReplies ==
    {r \in AnyReplies : r.type = "RST" \/ (r.type = "ACK" /\ r.code = "2.01")}
=============================================================================
