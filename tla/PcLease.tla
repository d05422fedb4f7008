-------------------------------- MODULE PcLease --------------------------------
(***************************************************************************)
(* What the session code promises, without its goroutines: the robot is     *)
(* leased to at most one PC.  Any PC may acquire the lease at any time, the *)
(* holder then confirms it and renews it, and a lease nobody renewed for    *)
(* more than Limit units may expire.  Once, when the robot boots, the lease *)
(* may lapse: its age jumps past Limit whatever the holder did.             *)
(***************************************************************************)
EXTENDS Naturals

CONSTANTS PCs, NoPC, Limit

VARIABLES
    holder,    \* the PC that has the lease, or NoPC
    confirmed, \* the holder has confirmed it
    age,       \* the time since the holder acquired, confirmed or renewed it
    lapsed     \* the one lapse has been used up

lease == <<holder, confirmed, age, lapsed>>

Init == holder = NoPC /\ ~confirmed /\ age = 0 /\ ~lapsed

Acquire(p) ==
    /\ holder' = p /\ confirmed' = FALSE /\ age' = 0
    /\ UNCHANGED lapsed

Confirm ==
    /\ holder # NoPC /\ ~confirmed
    /\ confirmed' = TRUE /\ age' = 0
    /\ UNCHANGED <<holder, lapsed>>

Renew ==
    /\ holder # NoPC /\ confirmed
    /\ age' = 0
    /\ UNCHANGED <<holder, confirmed, lapsed>>

Expire ==
    /\ holder # NoPC /\ age > Limit
    /\ holder' = NoPC /\ confirmed' = FALSE
    /\ UNCHANGED <<age, lapsed>>

Lapse ==
    /\ ~lapsed
    /\ lapsed' = TRUE /\ age' = Limit + 1
    /\ UNCHANGED <<holder, confirmed>>

Pass ==
    /\ age <= Limit
    /\ age' = age + 1
    /\ UNCHANGED <<holder, confirmed, lapsed>>

Next == (\E p \in PCs : Acquire(p)) \/ Confirm \/ Renew \/ Expire \/ Lapse \/ Pass

Spec == Init /\ [][Next]_lease

================================================================================
