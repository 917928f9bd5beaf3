------------------------------ MODULE MCServer ------------------------------
(* Small instances of Lwm2mServer.                                          *)
EXTENDS Lwm2mServer, TLC

CONSTANTS n1, n2, a1, a2, d1

MCUris == {[obj |-> 1, inst |-> 0, res |-> 0]}
TwoUris == {[obj |-> 1, inst |-> 0, res |-> None],
            [obj |-> 1, inst |-> 0, res |-> 0]}

\* Answers and notifications with any message ID and any token, and answers
\* without the Observe option, whose token nobody looks at.
MCReplies ==
    {[from |-> a, mid |-> m, code |-> "2.05", observe |-> TRUE, token |-> tk, data |-> d1] :
        a \in Addrs, m \in Mids, tk \in {None} \cup (Ids \X ObsIds)}
    \cup
    {[from |-> a, mid |-> m, code |-> c, observe |-> FALSE, token |-> None,
      data |-> d1] : a \in Addrs, m \in Mids, c \in {"2.05", "4.04"}}

\* Endpoint names and addresses are interchangeable.
MCSymmetry == Permutations({n1, n2}) \cup Permutations({a1, a2})

\* What the next steps depend on: not the packets and calls of the last one.
MCView == <<clients, observations, transactions, nextMID, phase, timeout, fate,
            misuse>>
=============================================================================
