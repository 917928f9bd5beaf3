---------------------------- MODULE Registration ----------------------------
(***************************************************************************)
(* What the client engine promises about its registration with each        *)
(* server: a server is registered only out of a pending registration, and  *)
(* once registered it stays so until the application registers again or    *)
(* the context is closed; no late answer and no timeout takes it back.     *)
(***************************************************************************)
CONSTANT Servers

VARIABLES status, open

Init == status = [s \in Servers |-> "UNKNOWN"] /\ open = TRUE

\* Where a server's status may go in one step of the engine.
Moves(from) ==
    CASE from = "UNKNOWN"     -> {"UNKNOWN", "REG_PENDING"}
      [] from = "REG_PENDING" -> {"REG_PENDING", "REGISTERED", "UNKNOWN"}
      [] from = "REGISTERED"  -> {"REGISTERED", "REG_PENDING"}

Move == /\ open /\ open' = TRUE
        /\ \A s \in Servers : status'[s] \in Moves(status[s])
        /\ status' = [s \in Servers |-> status'[s]]

\* The context is closed, or the program stops, at any point.
Leave == /\ open /\ open' = FALSE
         /\ \A s \in Servers : status'[s] \in Moves(status[s]) \cup {"UNKNOWN"}
         /\ status' = [s \in Servers |-> status'[s]]

Spec == Init /\ [][Move \/ Leave]_<<status, open>>
=============================================================================
