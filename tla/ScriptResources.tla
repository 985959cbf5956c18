--------------------------- MODULE ScriptResources ---------------------------
(***************************************************************************)
(* The public URLs of scripts (lscript_execute/llscriptresource*.cpp): a   *)
(* pool (the parcel's) has a total and counts what is in use; a consumer   *)
(* (an object with scripts) is in one pool and moves between pools with    *)
(* the URLs it uses.                                                       *)
(*                                                                         *)
(* How many URLs a consumer uses, getUsedPublicURLs, is pure virtual: what *)
(* implements it asks its pool before it takes a URL and tells it after it *)
(* gave one back.                                                          *)
(***************************************************************************)
EXTENDS Integers, FiniteSets

CONSTANTS
    Pools,      \* all pools but the null pool
    null,       \* LLScriptResourcePool::null
    Consumers,
    MaxTotal    \* bound: the largest total a pool is given

ASSUME ResourcesAssumption == null \notin Pools /\ MaxTotal \in Nat

VARIABLES
    mTotal, mUsed,        \* per pool
    mScriptResourcePool,  \* per consumer
    urls                  \* per consumer: getUsedPublicURLs

vars == <<mTotal, mUsed, mScriptResourcePool, urls>>
AllPools == Pools \cup {null}

Init ==
    /\ mTotal = [p \in AllPools |-> 0]
    /\ mUsed = [p \in AllPools |-> 0]
    /\ mScriptResourcePool = [c \in Consumers |-> null]
    /\ urls = [c \in Consumers |-> 0]

\* Mutant: lets the last URL be taken twice.
Grants_OneMore(p, amount) == mUsed[p] + amount <= mTotal[p] + 1

\* request and release: what they return.
Grants(p, amount) == mUsed[p] + amount <= mTotal[p]
Releases(p, amount) == mUsed[p] >= amount

getAvailable(p) == IF mUsed[p] > mTotal[p] THEN 0 ELSE mTotal[p] - mUsed[p]

\* A new total, also one below what is in use: the parcel was sold.
setTotal(p, amount) ==
    /\ amount # mTotal[p]
    /\ mTotal' = [mTotal EXCEPT ![p] = amount]
    /\ UNCHANGED <<mUsed, mScriptResourcePool, urls>>

TakeURL(c) ==
    LET p == mScriptResourcePool[c] IN
    /\ Grants(p, 1)
    /\ mUsed' = [mUsed EXCEPT ![p] = @ + 1]
    /\ urls' = [urls EXCEPT ![c] = @ + 1]
    /\ UNCHANGED <<mTotal, mScriptResourcePool>>

ReturnURL(c) ==
    LET p == mScriptResourcePool[c] IN
    /\ urls[c] > 0
    /\ mUsed' = IF Releases(p, 1) THEN [mUsed EXCEPT ![p] = @ - 1] ELSE mUsed
    /\ urls' = [urls EXCEPT ![c] = @ - 1]
    /\ UNCHANGED <<mTotal, mScriptResourcePool>>

\* Mutant: the new pool is not asked.
CanUse_Always(c, p) == TRUE

canUseScriptResourcePool(c, p) ==
    p = mScriptResourcePool[c] \/ getAvailable(p) >= urls[c]

\* release from the old pool, then request from the new one; what the two
\* return is not looked at.
Moved(old, new, amount) ==
    [mUsed EXCEPT ![old] = IF Releases(old, amount) THEN @ - amount ELSE @,
                  ![new] = IF Grants(new, amount) THEN @ + amount ELSE @]

switchScriptResourcePools(c, p) ==
    /\ p # mScriptResourcePool[c]
    /\ canUseScriptResourcePool(c, p)
    /\ mUsed' = Moved(mScriptResourcePool[c], p, urls[c])
    /\ mScriptResourcePool' = [mScriptResourcePool EXCEPT ![c] = p]
    /\ UNCHANGED <<mTotal, urls>>

ResourcesNext ==
    \/ \E p \in Pools : \E n \in 0 .. MaxTotal : setTotal(p, n)
    \/ \E c \in Consumers : TakeURL(c) \/ ReturnURL(c)
    \/ \E c \in Consumers : \E p \in AllPools : switchScriptResourcePools(c, p)

Spec == Init /\ [][ResourcesNext]_vars

----------------------------------------------------------------------------
\* A pool counts exactly the URLs of the consumers that are in it, here
\* numbered for each of them.  A move ignores the results of release and
\* request, so it is right only because the pool was asked before and neither
\* of them can fail.
URLsIn(p) ==
    UNION {{c} \X (1 .. urls[c]) : c \in {d \in Consumers : mScriptResourcePool[d] = p}}
UsedIsSum == \A p \in AllPools : mUsed[p] = Cardinality(URLsIn(p))

\* Whoever is over the limit got there by a smaller total: no request and no
\* move takes a pool over its limit, or further over it.
OverOnlyByTotal ==
    [][\A p \in AllPools :
         mUsed'[p] > mTotal'[p] =>
           mUsed'[p] <= mUsed[p]]_vars
=============================================================================
