----------------------- MODULE ScriptResourcesProofs -----------------------
(***************************************************************************)
(* Proofs about pools and consumers of public URLs, for any number of      *)
(* them.  UInv is inductive: the variables are typed and each pool counts  *)
(* the URLs of its consumers, which are finitely many.                     *)
(***************************************************************************)
EXTENDS ScriptResources, FiniteSetTheorems, TLAPS

Typed ==
    /\ mTotal \in [AllPools -> Nat] /\ mUsed \in [AllPools -> Nat]
    /\ mScriptResourcePool \in [Consumers -> AllPools]
    /\ urls \in [Consumers -> Nat]

UInv == Typed /\ UsedIsSum /\ \A p \in AllPools : IsFiniteSet(URLsIn(p))

\* A pool's URLs, one by one.
LEMMA Members ==
    \A p, c, i :
      <<c, i>> \in URLsIn(p) <=>
        c \in Consumers /\ mScriptResourcePool[c] = p /\ i \in 1 .. urls[c]
BY DEF URLsIn

\* The same of the next state, and two sets of pairs that have the same pairs.
LEMMA MembersNext ==
    \A p, c, i :
      <<c, i>> \in URLsIn(p)' <=>
        c \in Consumers /\ mScriptResourcePool'[c] = p /\ i \in 1 .. urls'[c]
BY DEF URLsIn

LEMMA Pairs ==
    ASSUME NEW S, NEW T,
           \A x \in S : \E c, i : x = <<c, i>>,
           \A x \in T : \E c, i : x = <<c, i>>,
           \A c, i : <<c, i>> \in S <=> <<c, i>> \in T
    PROVE  S = T
<1>1. \A x \in S : x \in T
  OBVIOUS
<1>2. \A x \in T : x \in S
  OBVIOUS
<1> QED
  BY <1>1, <1>2

LEMMA PairsIn == \A p : /\ \A x \in URLsIn(p) : \E c, i : x = <<c, i>>
                      /\ \A x \in URLsIn(p)' : \E c, i : x = <<c, i>>
BY DEF URLsIn

\* What one consumer contributes.
LEMMA Share ==
    ASSUME NEW c, NEW n \in Nat
    PROVE  IsFiniteSet({c} \X (1 .. n)) /\ Cardinality({c} \X (1 .. n)) = n
<1>1. IsFiniteSet(1 .. n) /\ Cardinality(1 .. n) = n
  BY FS_Interval
<1>2. IsFiniteSet({c}) /\ Cardinality({c}) = 1
  BY FS_Singleton
<1> QED
  BY <1>1, <1>2, FS_Product

LEMMA UInit == Init => UInv
<1> SUFFICES ASSUME Init PROVE UInv
  OBVIOUS
<1>1. Typed
  BY DEF Init, Typed, AllPools
<1>2. ASSUME NEW p \in AllPools PROVE URLsIn(p) = {}
  BY DEF Init, URLsIn
<1> QED
  BY <1>1, <1>2, FS_EmptySet DEF Init, UInv, UsedIsSum

\* A consumer's own URLs are among those of its pool.
LEMMA OwnShare ==
    ASSUME UInv, NEW c \in Consumers
    PROVE  /\ mScriptResourcePool[c] \in AllPools /\ urls[c] \in Nat
           /\ {c} \X (1 .. urls[c]) \subseteq URLsIn(mScriptResourcePool[c])
           /\ urls[c] <= mUsed[mScriptResourcePool[c]]
<1>1. mScriptResourcePool[c] \in AllPools /\ urls[c] \in Nat
  BY DEF UInv, Typed
<1>2. {c} \X (1 .. urls[c]) \subseteq URLsIn(mScriptResourcePool[c])
  BY DEF URLsIn
<1>3. Cardinality({c} \X (1 .. urls[c])) <= Cardinality(URLsIn(mScriptResourcePool[c]))
  BY <1>1, <1>2, FS_Subset DEF UInv
<1> QED
  BY <1>1, <1>2, <1>3, Share DEF UInv, UsedIsSum

LEMMA TakeKeeps ==
    ASSUME UInv, NEW c \in Consumers, TakeURL(c)
    PROVE  UInv'
<1>1. PICK q \in AllPools : q = mScriptResourcePool[c]
  BY OwnShare
<1>2. PICK n \in Nat : n = urls[c]
  BY OwnShare
<1>3. /\ mUsed' = [mUsed EXCEPT ![q] = @ + 1]
      /\ urls' = [urls EXCEPT ![c] = n + 1]
      /\ UNCHANGED <<mTotal, mScriptResourcePool>>
  BY <1>1, <1>2 DEF TakeURL
<1>4. Typed'
  BY <1>1, <1>2, <1>3 DEF UInv, Typed
<1>5. URLsIn(q)' = URLsIn(q) \cup {<<c, n + 1>>}
  <2>1. urls'[c] = n + 1 /\ \A d \in Consumers : d # c => urls'[d] = urls[d]
    BY <1>3 DEF UInv, Typed
  <2>2. ASSUME NEW d, NEW i
        PROVE  <<d, i>> \in URLsIn(q)' <=> <<d, i>> \in URLsIn(q) \cup {<<c, n + 1>>}
    <3>1. CASE d = c
      BY <1>1, <1>2, <1>3, <2>1, <3>1, Members, MembersNext
    <3>2. CASE d # c
      BY <1>3, <2>1, <3>2, Members, MembersNext
    <3> QED
      BY <3>1, <3>2
  <2>3. \A x \in URLsIn(q) \cup {<<c, n + 1>>} : \E d, i : x = <<d, i>>
    BY PairsIn
  <2> QED
    BY <2>2, <2>3, PairsIn, Pairs
<1>6. <<c, n + 1>> \notin URLsIn(q)
  BY <1>1, <1>2, Members
<1>7. ASSUME NEW p \in AllPools, p # q PROVE URLsIn(p)' = URLsIn(p)
  BY <1>1, <1>3, <1>7 DEF URLsIn, UInv, Typed
<1>8. IsFiniteSet(URLsIn(q)) /\ mUsed[q] = Cardinality(URLsIn(q))
  BY DEF UInv, UsedIsSum
<1>9. IsFiniteSet(URLsIn(q)') /\ Cardinality(URLsIn(q)') = mUsed[q] + 1
  BY <1>5, <1>6, <1>8, FS_AddElement
<1> QED
  BY <1>3, <1>4, <1>7, <1>9 DEF UInv, UsedIsSum, Typed, AllPools

LEMMA ReturnKeeps ==
    ASSUME UInv, NEW c \in Consumers, ReturnURL(c)
    PROVE  UInv'
<1>1. PICK q \in AllPools : q = mScriptResourcePool[c]
  BY OwnShare
<1>2. PICK n \in Nat : n = urls[c] /\ n > 0 /\ n <= mUsed[q]
  BY <1>1, OwnShare DEF ReturnURL
<1>3. /\ mUsed' = [mUsed EXCEPT ![q] = @ - 1]
      /\ urls' = [urls EXCEPT ![c] = n - 1]
      /\ UNCHANGED <<mTotal, mScriptResourcePool>>
  BY <1>1, <1>2 DEF ReturnURL, Releases, UInv, Typed
<1>4. Typed'
  BY <1>1, <1>2, <1>3 DEF UInv, Typed
<1>5. URLsIn(q)' = URLsIn(q) \ {<<c, n>>}
  <2>1. urls'[c] = n - 1 /\ \A d \in Consumers : d # c => urls'[d] = urls[d]
    BY <1>3 DEF UInv, Typed
  <2>2. ASSUME NEW d, NEW i
        PROVE  <<d, i>> \in URLsIn(q)' <=> <<d, i>> \in URLsIn(q) \ {<<c, n>>}
    <3>1. CASE d = c
      BY <1>1, <1>2, <1>3, <2>1, <3>1, Members, MembersNext
    <3>2. CASE d # c
      BY <1>3, <2>1, <3>2, Members, MembersNext
    <3> QED
      BY <3>1, <3>2
  <2>3. \A x \in URLsIn(q) \ {<<c, n>>} : \E d, i : x = <<d, i>>
    BY PairsIn
  <2> QED
    BY <2>2, <2>3, PairsIn, Pairs
<1>6. <<c, n>> \in URLsIn(q)
  BY <1>1, <1>2, Members
<1>7. ASSUME NEW p \in AllPools, p # q PROVE URLsIn(p)' = URLsIn(p)
  BY <1>1, <1>3, <1>7 DEF URLsIn, UInv, Typed
<1>8. IsFiniteSet(URLsIn(q)) /\ mUsed[q] = Cardinality(URLsIn(q))
  BY DEF UInv, UsedIsSum
<1>9. IsFiniteSet(URLsIn(q)') /\ Cardinality(URLsIn(q)') = mUsed[q] - 1
  BY <1>5, <1>6, <1>8, FS_RemoveElement
<1> QED
  BY <1>3, <1>4, <1>7, <1>9 DEF UInv, UsedIsSum, Typed, AllPools

\* A move neither loses what release gives back nor is refused by request.
LEMMA MoveKeeps ==
    ASSUME UInv, NEW c \in Consumers, NEW p \in AllPools, switchScriptResourcePools(c, p)
    PROVE  UInv'
<1>1. PICK q \in AllPools : q = mScriptResourcePool[c] /\ q # p
  BY OwnShare DEF switchScriptResourcePools
<1>2. PICK n \in Nat : n = urls[c] /\ n <= mUsed[q]
  BY <1>1, OwnShare
<1>3. mUsed[p] \in Nat /\ mTotal[p] \in Nat /\ mUsed[q] \in Nat
  BY DEF UInv, Typed
<1>4. n = 0 \/ Grants(p, n)
  BY <1>1, <1>2, <1>3 DEF switchScriptResourcePools, canUseScriptResourcePool,
                         getAvailable, Grants
<1>5. /\ mUsed' = [mUsed EXCEPT ![q] = @ - n, ![p] = @ + n]
      /\ mScriptResourcePool' = [mScriptResourcePool EXCEPT ![c] = p]
      /\ UNCHANGED <<mTotal, urls>>
  <2>1. mUsed' = [mUsed EXCEPT ![q] = IF Releases(q, n) THEN @ - n ELSE @,
                              ![p] = IF Grants(p, n) THEN @ + n ELSE @]
    BY <1>1, <1>2 DEF switchScriptResourcePools, Moved
  <2>2. Releases(q, n)
    BY <1>2 DEF Releases
  <2>3. mUsed' = [mUsed EXCEPT ![q] = @ - n, ![p] = IF Grants(p, n) THEN @ + n ELSE @]
    BY <2>1, <2>2
  <2>4. n = 0 => mUsed[p] + n = mUsed[p]
    BY <1>3
  <2>5. mUsed' = [mUsed EXCEPT ![q] = @ - n, ![p] = @ + n]
    <3>1. CASE Grants(p, n)
      BY <2>3, <3>1
    <3>2. CASE ~Grants(p, n)
      BY <1>1, <1>3, <1>4, <2>3, <2>4, <3>2 DEF UInv, Typed
    <3> QED
      BY <3>1, <3>2
  <2> QED
    BY <2>5 DEF switchScriptResourcePools
<1>6. Typed'
  BY <1>1, <1>2, <1>3, <1>5 DEF UInv, Typed
<1>7. URLsIn(q)' = URLsIn(q) \ ({c} \X (1 .. n))
  <2>1. ASSUME NEW d, NEW i
        PROVE  <<d, i>> \in URLsIn(q)' <=> <<d, i>> \in URLsIn(q) \ ({c} \X (1 .. n))
    BY <1>1, <1>2, <1>5, Members, MembersNext DEF UInv, Typed
  <2>2. \A x \in URLsIn(q) \ ({c} \X (1 .. n)) : \E d, i : x = <<d, i>>
    BY PairsIn
  <2> QED
    BY <2>1, <2>2, PairsIn, Pairs
<1>8. URLsIn(p)' = URLsIn(p) \cup ({c} \X (1 .. n))
  BY <1>1, <1>2, <1>5, Zenon DEF URLsIn, UInv, Typed
<1>9. ASSUME NEW r \in AllPools, r # q, r # p PROVE URLsIn(r)' = URLsIn(r)
  BY <1>1, <1>5, <1>9 DEF URLsIn, UInv, Typed
<1>10. /\ IsFiniteSet(URLsIn(q)) /\ mUsed[q] = Cardinality(URLsIn(q))
       /\ IsFiniteSet(URLsIn(p)) /\ mUsed[p] = Cardinality(URLsIn(p))
       /\ IsFiniteSet({c} \X (1 .. n)) /\ Cardinality({c} \X (1 .. n)) = n
  BY Share DEF UInv, UsedIsSum
<1>11. /\ URLsIn(q) \cap ({c} \X (1 .. n)) = {c} \X (1 .. n)
       /\ URLsIn(p) \cap ({c} \X (1 .. n)) = {}
  BY <1>1, <1>2 DEF URLsIn
<1>12. IsFiniteSet(URLsIn(q)') /\ Cardinality(URLsIn(q)') = mUsed[q] - n
  <2>1. IsFiniteSet(URLsIn(q) \ ({c} \X (1 .. n)))
        /\ Cardinality(URLsIn(q) \ ({c} \X (1 .. n))) =
             Cardinality(URLsIn(q)) - Cardinality(URLsIn(q) \cap ({c} \X (1 .. n)))
    BY <1>10, FS_Difference
  <2> QED
    BY <1>7, <1>10, <1>11, <2>1, Zenon
<1>13. IsFiniteSet(URLsIn(p)') /\ Cardinality(URLsIn(p)') = mUsed[p] + n
  <2>1. IsFiniteSet(URLsIn(p) \cup ({c} \X (1 .. n)))
        /\ Cardinality(URLsIn(p) \cup ({c} \X (1 .. n))) =
             Cardinality(URLsIn(p)) + Cardinality({c} \X (1 .. n))
               - Cardinality(URLsIn(p) \cap ({c} \X (1 .. n)))
    BY <1>10, FS_Union
  <2>2. Cardinality(URLsIn(p) \cap ({c} \X (1 .. n))) = 0
    BY <1>11, FS_EmptySet, Zenon
  <2>3. Cardinality(URLsIn(p) \cup ({c} \X (1 .. n))) = mUsed[p] + n - 0
    BY <1>10, <2>1, <2>2, Zenon
  <2>4. mUsed[p] + n - 0 = mUsed[p] + n
    BY <1>3
  <2> QED
    BY <1>8, <2>1, <2>3, <2>4, Zenon
<1> QED
  BY <1>1, <1>5, <1>6, <1>9, <1>12, <1>13 DEF UInv, UsedIsSum, Typed

LEMMA UNext == UInv /\ [ResourcesNext]_vars => UInv'
<1> SUFFICES ASSUME UInv, [ResourcesNext]_vars PROVE UInv'
  OBVIOUS
<1>1. ASSUME NEW p \in Pools, NEW n \in 0 .. MaxTotal, setTotal(p, n) PROVE UInv'
  <2>1. Typed'
    BY <1>1, ResourcesAssumption DEF setTotal, UInv, Typed, AllPools
  <2>2. \A r \in AllPools : URLsIn(r)' = URLsIn(r) /\ mUsed'[r] = mUsed[r]
    BY <1>1 DEF setTotal, URLsIn
  <2> QED
    BY <2>1, <2>2 DEF UInv, UsedIsSum
<1>2. CASE UNCHANGED vars
  BY <1>2 DEF vars, UInv, Typed, UsedIsSum, URLsIn
<1> QED
  BY <1>1, <1>2, TakeKeeps, ReturnKeeps, MoveKeeps DEF ResourcesNext

LEMMA AlwaysUInv == Spec => []UInv
BY UInit, UNext, PTL DEF Spec

\* A pool counts exactly the URLs of the consumers in it, after any number of
\* moves between any pools.
THEOREM CountsItsConsumers == Spec => []UsedIsSum
<1>1. UInv => UsedIsSum
  BY DEF UInv
<1> QED
  BY AlwaysUInv, <1>1, PTL

\* Only a smaller total takes a pool over its limit.
THEOREM WithinLimit == Spec => OverOnlyByTotal
<1>1. UInv /\ [ResourcesNext]_vars =>
        [\A p \in AllPools : mUsed'[p] > mTotal'[p] => mUsed'[p] <= mUsed[p]]_vars
  <2> SUFFICES ASSUME UInv, ResourcesNext, NEW p \in AllPools, mUsed'[p] > mTotal'[p]
               PROVE  mUsed'[p] <= mUsed[p]
    OBVIOUS
  <2>1. mUsed[p] \in Nat /\ mTotal[p] \in Nat /\ mUsed \in [AllPools -> Nat]
    BY DEF UInv, Typed
  <2>2. ASSUME NEW q \in Pools, NEW n \in 0 .. MaxTotal, setTotal(q, n)
        PROVE  mUsed'[p] <= mUsed[p]
    BY <2>1, <2>2 DEF setTotal
  <2>3. ASSUME NEW c \in Consumers, TakeURL(c)
        PROVE  mUsed'[p] <= mUsed[p]
    BY <2>1, <2>3 DEF TakeURL, Grants
  <2>4. ASSUME NEW c \in Consumers, ReturnURL(c)
        PROVE  mUsed'[p] <= mUsed[p]
    BY <2>1, <2>4 DEF ReturnURL
  <2>5. ASSUME NEW c \in Consumers, NEW q \in AllPools, switchScriptResourcePools(c, q)
        PROVE  mUsed'[p] <= mUsed[p]
    <3>1. urls[c] \in Nat
      BY DEF UInv, Typed
    <3> QED
      BY <2>1, <2>5, <3>1 DEF switchScriptResourcePools, Moved, Grants, Releases
  <2> QED
    BY <2>2, <2>3, <2>4, <2>5 DEF ResourcesNext
<1> QED
  BY AlwaysUInv, <1>1, PTL DEF Spec, OverOnlyByTotal
=============================================================================
