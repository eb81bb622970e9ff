--------------------------- MODULE DrainThenClose ---------------------------
(***************************************************************************)
(* What the application's shutdown promises about its database, without    *)
(* timers, promises or connections: work enters while the doors are open;  *)
(* once they are shut nothing enters; the database is closed at most once, *)
(* behind shut doors and with nothing inside; or it is given up, and then  *)
(* never closed (an unfinished handler may still use it).                  *)
(***************************************************************************)
CONSTANT Work    \* the requests

VARIABLES
    inside,    \* the work that may still use the database
    doors,     \* "open" or "shut"
    db         \* "open", "closed" or "given-up"

vars == <<inside, doors, db>>

Init == inside = {} /\ doors = "open" /\ db = "open"

Enter(w) ==
    /\ doors = "open"
    /\ w \notin inside
    /\ inside' = inside \union {w}
    /\ UNCHANGED <<doors, db>>

Leave(w) ==
    /\ w \in inside
    /\ inside' = inside \ {w}
    /\ UNCHANGED <<doors, db>>

Shut ==
    /\ doors = "open"
    /\ doors' = "shut"
    /\ UNCHANGED <<inside, db>>

Close ==
    /\ db = "open"
    /\ doors = "shut"
    /\ inside = {}
    /\ db' = "closed"
    /\ UNCHANGED <<inside, doors>>

GiveUp ==
    /\ db = "open"
    /\ db' = "given-up"
    /\ UNCHANGED <<inside, doors>>

Next ==
    \/ \E w \in Work : Enter(w) \/ Leave(w)
    \/ Shut
    \/ Close
    \/ GiveUp

Spec == Init /\ [][Next]_vars
=============================================================================
