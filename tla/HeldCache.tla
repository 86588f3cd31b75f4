------------------------------ MODULE HeldCache ------------------------------
(***************************************************************************)
(* What the shared artifact store promises the processes that use it       *)
(* (docs/storage-quota.md): an entry is complete whenever it is there, it  *)
(* is there whenever a process uses it, and only an entry that nobody uses *)
(* is evicted.                                                             *)
(***************************************************************************)
CONSTANTS Procs, Keys

VARIABLES
    present,  \* keys with a complete entry
    users     \* key -> processes that run from it

Init == present = {} /\ users = [k \in Keys |-> {}]

Publish(k) ==
    /\ k \notin present
    /\ present' = present \cup {k}
    /\ UNCHANGED users

Use(p, k) ==
    /\ k \in present
    /\ \A j \in Keys : p \notin users[j]
    /\ users' = [users EXCEPT ![k] = @ \cup {p}]
    /\ UNCHANGED present

Release(p, k) ==
    /\ p \in users[k]
    /\ users' = [users EXCEPT ![k] = @ \ {p}]
    /\ UNCHANGED present

Evict(k) ==
    /\ k \in present
    /\ users[k] = {}
    /\ present' = present \ {k}
    /\ UNCHANGED users

Next == \E k \in Keys :
            \/ Publish(k) \/ Evict(k)
            \/ \E p \in Procs : Use(p, k) \/ Release(p, k)

Spec == Init /\ [][Next]_<<present, users>>
=============================================================================
