--------------------------- MODULE RequestService ---------------------------
(***************************************************************************)
(* What the server engine promises the application about its requests,     *)
(* whatever the network does: a request that was accepted is pending until *)
(* its result callback is called, which happens once; only closing the     *)
(* context (or the end of defined behaviour) drops requests.               *)
(***************************************************************************)
CONSTANT Requests

VARIABLE request

States == {"unused", "pending", "reported", "dropped"}

Init == request = [r \in Requests |-> "unused"]

\* A request is made; it may be refused, or resolved within the call.
Issue(r) ==
    /\ request[r] = "unused"
    /\ \E s \in States \ {"unused"} : request' = [request EXCEPT ![r] = s]

\* The results of some pending requests are reported, or known not to be
\* wanted; all of them are dropped when the context is closed.
Resolve ==
    /\ request' \in [Requests -> States]
    /\ \A r \in Requests : request'[r] # request[r] =>
          request[r] = "pending" /\ request'[r] \in {"reported", "dropped"}

Next == Resolve \/ \E r \in Requests : Issue(r)

Spec == Init /\ [][Next]_request

\* Every pending request gets its result or is dropped with the context.
Settles == \A r \in Requests : request[r] = "pending" ~> request[r] # "pending"
=============================================================================
