----------------------------- MODULE SocketTable -----------------------------
(***************************************************************************)
(* What the contexts need of their container of sockets: a table from the  *)
(* _Socket_ids in use to the native handles they stand for.                *)
(***************************************************************************)
CONSTANTS Ids,      \* the values a _Socket_id can have
          Handles   \* the native handles

VARIABLE table

Live == DOMAIN table

Init == table = [id \in {} |-> CHOOSE h \in Handles : TRUE]

\* A handle not in the table gets an id not in use.
Insert(id, h) ==
    /\ id \notin Live
    /\ \A i \in Live : table[i] # h
    /\ table' = [i \in Live \cup {id} |-> IF i = id THEN h ELSE table[i]]

Erase(id) ==
    /\ id \in Live
    /\ table' = [i \in Live \ {id} |-> table[i]]

Next == \/ \E id \in Ids, h \in Handles : Insert(id, h)
        \/ \E id \in Ids : Erase(id)

Spec == Init /\ [][Next]_table
=============================================================================
