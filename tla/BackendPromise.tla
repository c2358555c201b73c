--------------------------- MODULE BackendPromise ---------------------------
(***************************************************************************)
(* What the lifecycle controller promises to whoever reads the durable     *)
(* excubitor slot (src/src/local-control/excubitor-backend.ts): there is   *)
(* at most one backend; a new one enters the slot only while the durable   *)
(* intent is "running" and none is alive; and an instance that has been in *)
(* the slot never comes back to life as a new one.                         *)
(***************************************************************************)
CONSTANTS
    Instances,
    Nobody      \* no instance

VARIABLES
    cur,    \* the live backend the slot knows of, or Nobody
    used,   \* instances the slot has known
    intent  \* the durable desired state

Intents == {"none", "running", "stopped"}

Init == cur = Nobody /\ used = {} /\ intent = "none"

\* A new backend becomes known.
Launch ==
    /\ cur = Nobody /\ intent = "running" /\ intent' \in Intents
    /\ \E i \in Instances \ used : cur' = i /\ used' = used \cup {i}

\* The backend ends, however it does.
End == cur # Nobody /\ cur' = Nobody /\ UNCHANGED <<used, intent>>

\* The slot is written without a launch: the intent may change, and an
\* instance that is already dead may be recorded.
Record ==
    /\ cur' = cur /\ intent' \in Intents
    /\ used \subseteq used' /\ used' \subseteq Instances

Next == Launch \/ End \/ Record
Spec == Init /\ [][Next]_<<cur, used, intent>>
=============================================================================
