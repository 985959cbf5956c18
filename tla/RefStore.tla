------------------------------ MODULE RefStore -----------------------------
(***************************************************************************)
(* What the script heap promises its client: a store of counted objects.   *)
(* An object appears at an address nobody holds, keeps its value for as    *)
(* long as it is held, and disappears when the last reference is released. *)
(* A run-time fault stops the store for good.  There are no blocks, no     *)
(* headers and no layout here.                                             *)
(***************************************************************************)
EXTENDS Naturals

CONSTANTS Addresses, Values

VARIABLES
    store,   \* address -> [count, value], for the objects there are
    stopped

storeVars == <<store, stopped>>

StoreInit ==
    /\ DOMAIN store \subseteq Addresses
    /\ \A a \in DOMAIN store : store[a].count = 1 /\ store[a].value \in Values
    /\ stopped = FALSE

New ==
    \E a \in DOMAIN store' \ DOMAIN store :
      /\ a \in Addresses
      /\ \E v \in Values :
           store' = [b \in DOMAIN store \cup {a} |->
                       IF b = a THEN [count |-> 1, value |-> v] ELSE store[b]]

Retain(a) == store' = [store EXCEPT ![a].count = @ + 1]

Release(a) ==
    IF store[a].count = 1
    THEN store' = [b \in DOMAIN store \ {a} |-> store[b]]
    ELSE store' = [store EXCEPT ![a].count = @ - 1]

Stop == stopped' = TRUE /\ UNCHANGED store

StoreNext ==
    /\ ~stopped
    /\ \/ New /\ UNCHANGED stopped
       \/ \E a \in DOMAIN store :
            (Retain(a) \/ Release(a)) /\ UNCHANGED stopped
       \/ Stop

StoreSpec == StoreInit /\ [][StoreNext]_storeVars
=============================================================================
