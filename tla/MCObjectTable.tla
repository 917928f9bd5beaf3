---------------------------- MODULE MCObjectTable ----------------------------
(* A small instance of ObjectTable: buffers of 4 characters, a table of 2   *)
(* instances of 3 values, 4 applications.                                   *)
EXTENDS ObjectTable

MCBuilt == 0 :> <<0, 1>> @@ 1 :> <<1>> @@ 2 :> <<2>> @@ 3 :> <<3>> @@ 14 :> <<4>>
           @@ 15 :> <<5>> @@ 16 :> <<6>>

\* The whole object, instances on both sides of the last one in the table,
\* and resources of both objects.
MCPaths ==
    {[inst |-> None, res |-> None]}
    \cup {[inst |-> i, res |-> r] : i \in {None, 1, 2}, r \in {0, 1, 2, 3, 4, 7, 8}}
    \cup {[inst |-> 0, res |-> r] : r \in {6, 9, 13, 14, 15, 16}}
    \cup {[inst |-> 2, res |-> 14], [inst |-> 1, res |-> 5], [inst |-> 1, res |-> 6],
          [inst |-> 4, res |-> 5]}

\* Texts with a word to cut off, with spaces before it, and as long as the
\* buffer, with a space in it or none.
MCPayloads ==
    {<<Minus, 2>>, <<1, Space, 2>>, <<Space, Space, 1>>, <<Other, 1, Space, 2>>,
     <<Other, 1, 2, Other, 3>>}
=============================================================================
