--------------------------- MODULE LSAHeapProofs ---------------------------
(***************************************************************************)
(* Proofs about the script heap, for every memory size, every compiled     *)
(* heap and every set of requests that meets HeapAssumption.               *)
(*                                                                         *)
(* IInv is inductive: TypeOK, the tiling of the heap by its blocks, and    *)
(* Layout, which says how far headers and blocks reach.  Tiling alone is   *)
(* not: that the walk finds a header behind every block needs the size of  *)
(* the sentinel, and that a reused block stays below HP needs the header   *)
(* behind it to be below HP.                                               *)
(*                                                                         *)
(* RInv, inductive together with IInv, says who refers to what: a block in *)
(* use is held by the script as often as its count says, or is an entry of *)
(* exactly one list, or is the list being filled.  CountsExact alone is    *)
(* not inductive: a release frees the right blocks only because no entry   *)
(* is listed twice and nothing held is listed.                             *)
(*                                                                         *)
(* ListLengths, preserved with both, says how many elements of a list are  *)
(* still to come; the value of a list in the abstract store needs it.      *)
(*                                                                         *)
(* NoneBehind says that the walk has passed no place that would hold the   *)
(* data, a run of free blocks that starts behind it included.              *)
(*                                                                         *)
(* StepsLeft bounds the steps an operation still takes, for the heap it    *)
(* works on as it is.                                                      *)
(***************************************************************************)
EXTENDS LSAHeap, TLAPS

IInv == TypeOK /\ Tiling /\ Layout

\* What the assumptions say of the requests.
LEMMA RequestFacts ==
    /\ \A n \in RequestSizes :
         n \in Nat /\ n + SIZEOF_SCRIPT_ALLOC_ENTRY + MinRest <= TM
    /\ ScalarSizes \subseteq RequestSizes
    /\ \A shape \in ListShapes :
         shape \in Seq(ScalarSizes) /\ ListSize(Len(shape)) \in RequestSizes
<1>1. ASSUME NEW shape \in ListShapes
      PROVE  shape \in Seq(ScalarSizes) /\ ListSize(Len(shape)) \in Nat
  <2>1. shape \in Seq(ScalarSizes)
    BY HeapAssumption
  <2>2. Len(shape) \in Nat
    BY <2>1
  <2> QED
    BY <2>1, <2>2 DEF ListSize
<1>2. ScalarSizes \subseteq Nat
  BY HeapAssumption
<1> QED
  BY <1>1, <1>2, HeapAssumption DEF RequestSizes

\* Constants as the arithmetic needs them.
LEMMA ConstantFacts ==
    /\ HR \in Nat /\ HR > 0 /\ TM \in Nat /\ SentinelAt \in Nat
    /\ HR <= SentinelAt /\ SentinelAt + 7 < TM - 1
    /\ HeapEnd = SentinelAt + 7 + TM /\ HeapEnd \in Nat
    /\ RefHalf \in Nat /\ RefHalf > 2
    /\ SIZEOF_SCRIPT_ALLOC_ENTRY = 7 /\ MinRest = 4
BY HeapAssumption DEF HeapEnd, MAX_HEAP_SIZE, SIZEOF_SCRIPT_ALLOC_ENTRY, MinRest

\* A header read from a legal heap, and a new one, are typed.
LEMMA BlockTyped ==
    ASSUME NEW type \in Kinds, NEW size \in Nat, NEW count \in Counts
    PROVE  /\ Block(type, size, count) \in Blocks
           /\ Block(type, size, count).mSize = size
           /\ Block(type, size, count).mType = type
BY DEF Block, Blocks

\* A compiled heap: the static blocks, then the sentinel, HP behind its header
\* (LLScriptScriptCodeChunk::build).
THEOREM InitIInv == Init => IInv
<1> SUFFICES ASSUME Init PROVE IInv
  OBVIOUS
<1> USE ConstantFacts
<1>1. 0 \in Counts /\ 1 \in Counts
  BY DEF Counts
<1>2. ASSUME NEW o \in DOMAIN Statics
      PROVE  /\ o \in HR .. SentinelAt - 1
             /\ Statics[o] \in Blocks
             /\ Statics[o].mSize \in Nat
             /\ Statics[o].mType # "LST_NULL"
  BY <1>1, StaticsAssumption DEF Blocks, Kinds
<1>3. /\ DOMAIN blk = DOMAIN Statics \cup {SentinelAt}
      /\ blk[SentinelAt] = Block("LST_NULL", TM, 0)
      /\ \A o \in DOMAIN Statics : blk[o] = Statics[o]
  BY <1>2 DEF Init, MAX_HEAP_SIZE
<1>4. blk[SentinelAt] \in Blocks /\ blk[SentinelAt].mSize = TM
        /\ blk[SentinelAt].mType = "LST_NULL"
  BY <1>1, <1>3, BlockTyped DEF Kinds
<1>5. TypeOK
  <2>1. DOMAIN blk \subseteq HR .. HeapEnd
    BY <1>2, <1>3
  <2>2. blk \in [DOMAIN blk -> Blocks]
    BY <1>2, <1>3, <1>4 DEF Init
  <2>3. held \in [Addresses -> Nat]
    BY DEF Init
  <2>4. want \in [mType : Kinds, mSize : Nat]
    BY DEF Init, Nothing, Kinds
  <2>5. left \in Seq(ScalarSizes)
    BY DEF Init
  <2>6. /\ hp \in 0 .. TM /\ sp \in 0 .. TM - 1 /\ cur \in HR .. HeapEnd
        /\ list \in Nat
    BY DEF Init
  <2>7. fr \in Faults /\ pc \in {"idle", "walk", "fill", "drop"}
        /\ split \in BOOLEAN
    BY DEF Init, Faults
  <2> QED
    BY <2>1, <2>2, <2>3, <2>4, <2>5, <2>6, <2>7 DEF TypeOK
<1>6. ASSUME NEW o \in DOMAIN Statics
      PROVE  Next(o) = StaticEnd(o) /\ Next(o) \in DOMAIN Statics \cup {SentinelAt}
  BY <1>3, StaticsAssumption DEF Next, StaticEnd
<1>7. Next(SentinelAt) = HeapEnd
  BY <1>4 DEF Next
<1>8. Tiling
  <2>1. HR \in DOMAIN blk
    BY <1>3, StaticsAssumption
  <2>2. \A o \in DOMAIN blk : Next(o) \in DOMAIN blk \cup {HeapEnd}
    BY <1>3, <1>6, <1>7
  <2>3. ASSUME NEW o \in DOMAIN blk, NEW p \in DOMAIN blk, o < p
        PROVE  Next(o) <= p
    <3>1. o \in DOMAIN Statics
      BY <1>2, <1>3, <2>3
    <3>2. CASE p \in DOMAIN Statics
      BY <1>6, <2>3, <3>1, <3>2, StaticsAssumption
    <3>3. CASE p = SentinelAt
      BY <1>2, <1>6, <3>1, <3>3
    <3> QED
      BY <1>3, <3>2, <3>3
  <2> QED
    BY <2>1, <2>2, <2>3 DEF Tiling
<1>9. Layout
  <2>1. ASSUME NEW o \in DOMAIN blk
        PROVE  /\ Live(o) => Next(o) # HeapEnd
               /\ o + SIZEOF_SCRIPT_ALLOC_ENTRY <= hp
               /\ Live(o) => Next(o) <= hp
    <3>1. CASE o \in DOMAIN Statics
      BY <1>2, <1>6, <3>1 DEF Init
    <3>2. CASE o = SentinelAt
      BY <1>4, <3>2 DEF Init, Live
    <3> QED
      BY <1>3, <3>1, <3>2
  <2> QED
    BY <2>1 DEF Layout, Init, Building, Nothing
<1> QED
  BY <1>5, <1>8, <1>9 DEF IInv

----------------------------------------------------------------------------
\* A fault ends the operation; all that is left to show is that the blocks it
\* leaves behind are typed.
LEMMA FaultStep ==
    ASSUME IInv, NEW f \in Faults \ {"OK"}, Fault(f),
           DOMAIN blk' \subseteq HR .. HeapEnd, blk' \in [DOMAIN blk' -> Blocks],
           sp' = sp, held' \in [Addresses -> Nat]
    PROVE  IInv'
<1> USE ConstantFacts
<1>1. TypeOK'
  <2>1. /\ hp' \in 0 .. TM /\ sp' \in 0 .. TM - 1 /\ cur' \in HR .. HeapEnd
        /\ list' = 0 /\ split' \in BOOLEAN /\ pc' = "idle" /\ fr' \in Faults
    <3>1. sp \in 0 .. TM - 1
      BY DEF IInv, TypeOK
    <3>2. /\ hp' = TM /\ sp' = sp /\ cur' = HR /\ fr' = f
          /\ list' = 0 /\ split' = FALSE /\ pc' = "idle"
      BY DEF Fault, BackToIdle
    <3>3. TM \in 0 .. TM /\ HR \in HR .. HeapEnd
      OBVIOUS
    <3>4. sp' \in 0 .. TM - 1
      BY <3>1, <3>2
    <3> QED
      BY <3>2, <3>3, <3>4
  <2>2. want' \in [mType : Kinds, mSize : Nat] /\ left' \in Seq(ScalarSizes)
    BY DEF Fault, BackToIdle, Nothing, Kinds
  <2> QED
    BY <2>1, <2>2 DEF TypeOK
<1>2. Tiling'
  BY DEF Fault, Tiling
<1>3. Layout'
  BY DEF Fault, BackToIdle, Layout, Building, Nothing
<1> QED
  BY <1>1, <1>2, <1>3 DEF IInv

\* A header of a legal heap, and where the next one is.
LEMMA HeaderFacts ==
    ASSUME IInv, NEW o \in DOMAIN blk
    PROVE  /\ o \in Nat /\ HR <= o /\ o <= HeapEnd
           /\ blk[o] \in Blocks /\ blk[o].mSize \in Nat
           /\ Next(o) = o + 7 + blk[o].mSize /\ Next(o) \in Nat
<1> USE ConstantFacts
<1>1. o \in Nat /\ HR <= o /\ o <= HeapEnd
  BY DEF IInv, TypeOK
<1>2. blk[o] \in Blocks
  BY DEF IInv, TypeOK
<1>3. blk[o].mSize \in Nat
  BY <1>2 DEF Blocks
<1> QED
  BY <1>1, <1>2, <1>3 DEF Next

\* Steps that write counts, types or elements but no size, and put no free
\* block to use, keep the layout as long as no list is being filled.
LEMMA SameSizes ==
    ASSUME IInv, ~Building, ~Building',
           DOMAIN blk' = DOMAIN blk,
           \A o \in DOMAIN blk :
             /\ blk'[o].mSize = blk[o].mSize
             /\ blk'[o].mType # "LST_NULL" => blk[o].mType # "LST_NULL",
           fr = "OK", hp' = hp, sp' > hp
    PROVE  /\ Tiling'
           /\ hp' < sp'
           /\ \A o \in DOMAIN blk' :
                /\ Live(o)' => Next(o)' # HeapEnd
                /\ o + SIZEOF_SCRIPT_ALLOC_ENTRY <= hp'
                /\ Live(o)' => Next(o)' <= hp'
<1> USE ConstantFacts
<1>1. hp \in Nat /\ hp < sp
  BY DEF IInv, TypeOK, Layout
<1>2. ASSUME NEW o \in DOMAIN blk
      PROVE  Next(o)' = Next(o) /\ (Live(o)' => Live(o))
  BY <1>2 DEF Next, Live
<1>3. Tiling'
  BY <1>2 DEF IInv, Tiling
<1>4. hp' < sp'
  BY <1>1 
<1>5. ASSUME NEW o \in DOMAIN blk'
      PROVE  /\ Live(o)' => Next(o)' # HeapEnd
             /\ o + SIZEOF_SCRIPT_ALLOC_ENTRY <= hp'
             /\ Live(o)' => Next(o)' <= hp'
  BY <1>2, <1>5 DEF IInv, Layout, HeaderDue
<1> QED
  BY <1>3, <1>4, <1>5

----------------------------------------------------------------------------
\* Reference counts.

\* A count written back as S16 stays within 16 bits.
LEMMA S16Typed ==
    ASSUME NEW n \in Int, -RefHalf - 1 <= n, n <= RefHalf
    PROVE  S16(n) \in Counts
BY ConstantFacts DEF S16, Counts

\* A decreased header keeps its size and elements; it can only become free.
LEMMA DecreasedTyped ==
    ASSUME NEW b \in Blocks
    PROVE  /\ Decreased(b) \in Blocks
           /\ Decreased(b).mSize = b.mSize
           /\ Decreased(b).elems = b.elems
           /\ Decreased(b).mType # "LST_NULL" => b.mType = Decreased(b).mType
<1> DEFINE count == S16(b.mReferenceCount - 1)
<1>1. b.mReferenceCount \in Int
        /\ -RefHalf <= b.mReferenceCount /\ b.mReferenceCount < RefHalf
  BY ConstantFacts DEF Blocks, Counts
<1>2. count \in Counts
  BY <1>1, S16Typed, ConstantFacts
<1>3. 0 \in Counts /\ count \in Int
  BY <1>2, ConstantFacts DEF Counts
<1> HIDE DEF count
<1>4. \/ count < 0 /\ Decreased(b) = [b EXCEPT !.mReferenceCount = 0]
      \/ count = 0 /\ Decreased(b) = [b EXCEPT !.mReferenceCount = 0,
                                               !.mType = "LST_NULL"]
      \/ count > 0 /\ Decreased(b) = [b EXCEPT !.mReferenceCount = count]
  BY <1>3 DEF Decreased, count
<1> QED
  BY <1>2, <1>3, <1>4 DEF Blocks, Kinds

\* What the invariant says in the states the client's operations start in.
LEMMA IdleFacts ==
    ASSUME IInv, Idle
    PROVE  /\ ~Building /\ list = 0 /\ fr = "OK" /\ pc = "idle"
           /\ hp \in 0 .. TM /\ sp \in 0 .. TM - 1 /\ hp < sp
           /\ HR \in DOMAIN blk /\ DOMAIN blk \subseteq HR .. HeapEnd
           /\ blk \in [DOMAIN blk -> Blocks]
           /\ held \in [Addresses -> Nat]
           /\ want.mType # "LST_LIST"
BY DEF IInv, Idle, Layout, Building, TypeOK, Tiling

\* A step outside a walk that changes neither sizes nor HP.
LEMMA QuietStep ==
    ASSUME IInv, fr = "OK", pc \in {"idle", "drop"},
           blk' \in [DOMAIN blk -> Blocks],
           \A o \in DOMAIN blk :
             /\ blk'[o].mSize = blk[o].mSize
             /\ blk'[o].mType # "LST_NULL" => blk[o].mType # "LST_NULL",
           hp' = hp, fr' = fr, sp' \in 0 .. TM - 1, hp < sp',
           held' \in [Addresses -> Nat],
           \/ UNCHANGED workVars
           \/ BackToIdle
           \/ /\ pc' = "drop" /\ list' \in Nat
              /\ UNCHANGED <<cur, want, left, split>>,
           pc' = "drop" => held'[AddressOf(list')] > 0
    PROVE  IInv'
<1> USE ConstantFacts
<1>1. /\ pc' \in {"idle", "drop"} /\ cur' \in HR .. HeapEnd
      /\ want' \in [mType : Kinds, mSize : Nat] /\ want'.mType # "LST_LIST"
      /\ list' \in Nat /\ (pc' = "idle" => list' = 0)
      /\ left' \in Seq(ScalarSizes) /\ split' \in BOOLEAN
  <2>1. /\ cur \in HR .. HeapEnd /\ list \in Nat /\ split \in BOOLEAN
        /\ want \in [mType : Kinds, mSize : Nat] /\ want.mType # "LST_LIST"
        /\ left \in Seq(ScalarSizes)
        /\ pc = "idle" => list = 0
    BY DEF IInv, TypeOK, Layout
  <2>2. CASE UNCHANGED workVars
    BY <2>1, <2>2 DEF workVars
  <2>3. CASE BackToIdle
    <3>1. /\ pc' = "idle" /\ cur' = HR /\ want' = Nothing /\ list' = 0
          /\ left' = <<>> /\ split' = FALSE
      BY <2>3 DEF BackToIdle
    <3>2. Nothing \in [mType : Kinds, mSize : Nat] /\ Nothing.mType = "LST_NULL"
      BY DEF Nothing, Kinds
    <3>3. HR \in HR .. HeapEnd /\ <<>> \in Seq(ScalarSizes)
      OBVIOUS
    <3> QED
      BY <3>1, <3>2, <3>3
  <2>4. CASE /\ pc' = "drop" /\ list' \in Nat
             /\ UNCHANGED <<cur, want, left, split>>
    BY <2>1, <2>4
  <2> QED
    BY <2>2, <2>3, <2>4
<1>2. ~Building /\ ~Building'
  BY <1>1 DEF Building
<1>3. DOMAIN blk' = DOMAIN blk
  OBVIOUS
<1>4. Tiling' /\ hp' < sp'
        /\ \A x \in DOMAIN blk' :
             /\ Live(x)' => Next(x)' # HeapEnd
             /\ x + SIZEOF_SCRIPT_ALLOC_ENTRY <= hp'
             /\ Live(x)' => Next(x)' <= hp'
  BY <1>2, <1>3, SameSizes
<1>5. TypeOK'
  BY <1>1, <1>3 DEF IInv, TypeOK
<1>6. Layout'
  BY <1>1, <1>2, <1>4 DEF Layout
<1> QED
  BY <1>4, <1>5, <1>6 DEF IInv

\* lsa_increase_ref_count changes one count and no size.
LEMMA IncreaseStep ==
    ASSUME IInv, NEW a \in Addresses \cup {0}, IncreaseRefCount(a)
    PROVE  IInv'
<1> USE ConstantFacts, IdleFacts
<1>1. Idle
  BY DEF IncreaseRefCount
<1>2. CASE ~InHeap(a)
  <2>1. Fault("LSRF_BOUND_CHECK_ERROR") /\ UNCHANGED <<blk, sp, held>>
    BY <1>2 DEF IncreaseRefCount
  <2>2. "LSRF_BOUND_CHECK_ERROR" \in Faults \ {"OK"}
    BY DEF Faults
  <2> QED
    BY <1>1, <2>1, <2>2, FaultStep
<1>3. CASE InHeap(a)
  <2> DEFINE o == OffsetOf(a)
             b == blk[o]
  <2>1. /\ blk' = [blk EXCEPT ![o].mReferenceCount = S16(@ + 1)]
        /\ held' = [held EXCEPT ![a] = @ + 1]
        /\ UNCHANGED <<hp, sp, fr, workVars>>
    BY <1>3 DEF IncreaseRefCount
  <2>2. a \in Addresses
    BY <1>3 DEF InHeap, OffsetOf
  <2>3. held' \in [Addresses -> Nat]
    BY <1>1, <2>1, <2>2
  <2>4. ASSUME NEW x \in DOMAIN blk
        PROVE  /\ blk'[x] \in Blocks
               /\ blk'[x].mSize = blk[x].mSize
               /\ blk'[x].mType = blk[x].mType
    <3>1. blk[x] \in Blocks
      BY <1>1
    <3> DEFINE c == blk[x].mReferenceCount
    <3>2. S16(c + 1) \in Counts
      <4>1. c \in Int /\ -RefHalf <= c /\ c < RefHalf
        BY <3>1 DEF Blocks, Counts
      <4> HIDE DEF c
      <4>2. c + 1 \in Int /\ -RefHalf - 1 <= c + 1 /\ c + 1 <= RefHalf
        BY <4>1
      <4> QED
        BY <4>2, S16Typed
    <3>3. blk'[x] = IF x = o THEN [blk[x] EXCEPT !.mReferenceCount = S16(@ + 1)]
                             ELSE blk[x]
      BY <2>1
    <3> QED
      BY <3>1, <3>2, <3>3 DEF Blocks
  <2>5. blk' \in [DOMAIN blk -> Blocks]
    BY <2>1, <2>4
  <2> QED
    BY <1>1, <2>1, <2>3, <2>4, <2>5, QuietStep DEF workVars
<1> QED
  BY <1>2, <1>3

\* lsa_decrease_ref_count on a block without elements may free it, in place.
LEMMA DecreaseStep ==
    ASSUME IInv, NEW a \in Addresses, DecreaseRefCount(a)
    PROVE  IInv'
<1> USE ConstantFacts, IdleFacts
<1> DEFINE o == OffsetOf(a)
<1>1. /\ Idle /\ DecreaseLeaf(a) /\ sp' = sp
      /\ held[a] > 0 /\ held' = [held EXCEPT ![a] = @ - 1]
  BY DEF DecreaseRefCount
<1>2. held' \in [Addresses -> Nat]
  BY <1>1
<1>3. "LSRF_BOUND_CHECK_ERROR" \in Faults \ {"OK"}
        /\ "LSRF_HEAP_ERROR" \in Faults \ {"OK"}
  BY DEF Faults
<1>4. CASE ~InHeap(a)
  BY <1>1, <1>2, <1>3, <1>4, FaultStep DEF DecreaseLeaf
<1>5. CASE InHeap(a)
  <2>1. blk' = [blk EXCEPT ![o] = Decreased(@)]
    BY <1>1, <1>5 DEF DecreaseLeaf, DecreasedAt
  <2>2. ASSUME NEW x \in DOMAIN blk
        PROVE  /\ blk'[x] \in Blocks
               /\ blk'[x].mSize = blk[x].mSize
               /\ blk'[x].mType # "LST_NULL" => blk[x].mType # "LST_NULL"
    BY <1>1, <2>1, DecreasedTyped
  <2>3. blk' \in [DOMAIN blk -> Blocks]
    BY <2>1, <2>2
  <2>4. CASE Fault("LSRF_HEAP_ERROR")
    BY <1>1, <1>2, <1>3, <2>3, <2>4, FaultStep
  <2>5. CASE UNCHANGED <<hp, fr, workVars>>
    BY <1>1, <1>2, <2>2, <2>3, <2>5, QuietStep DEF workVars
  <2> QED
    BY <1>1, <1>5, <2>4, <2>5 DEF DecreaseLeaf
<1> QED
  BY <1>4, <1>5

\* Starting to drop a list changes no block.
LEMMA DropListStep ==
    ASSUME IInv, NEW a \in Addresses, DropList(a)
    PROVE  IInv'
<1> USE IdleFacts
<1>1. /\ Idle /\ LastRefToList(a) /\ pc' = "drop" /\ list' = OffsetOf(a)
      /\ UNCHANGED <<heapVars, cur, want, left, split, held>> /\ held[a] > 0
  BY DEF DropList
<1>2. OffsetOf(a) \in Nat /\ AddressOf(OffsetOf(a)) = a
  BY ConstantFacts DEF OffsetOf, AddressOf, Addresses
<1>3. UNCHANGED <<blk, hp, sp, fr>>
  BY <1>1 DEF heapVars
<1> QED
  BY <1>1, <1>2, <1>3, QuietStep

\* An element dropped: its header changes, and the list's entries.
LEMMA DropElementStep ==
    ASSUME IInv, DropElement
    PROVE  IInv'
<1> DEFINE a == Head(blk[list].elems)
           o == OffsetOf(a)
           b == DecreasedAt(a)
<1>1. /\ pc = "drop" /\ fr = "OK" /\ hp < sp /\ sp \in 0 .. TM - 1
      /\ blk \in [DOMAIN blk -> Blocks] /\ DOMAIN blk \subseteq HR .. HeapEnd
      /\ held \in [Addresses -> Nat]
      /\ blk[list].elems # <<>> /\ UNCHANGED <<sp, held>>
      /\ held[AddressOf(list)] > 0
  BY DEF DropElement, IInv, Layout, TypeOK
<1>2. "LSRF_BOUND_CHECK_ERROR" \in Faults \ {"OK"}
        /\ "LSRF_HEAP_ERROR" \in Faults \ {"OK"}
  BY DEF Faults
<1>3. CASE ~InHeap(a)
  BY <1>1, <1>2, <1>3, FaultStep DEF DropElement
<1>4. CASE InHeap(a)
  <2>1. blk' = [b EXCEPT ![list].elems = Tail(@)]
    BY <1>4 DEF DropElement
  <2>2. ASSUME NEW x \in DOMAIN blk
        PROVE  /\ b[x] \in Blocks
               /\ b[x].mSize = blk[x].mSize
               /\ b[x].elems = blk[x].elems
               /\ b[x].mType # "LST_NULL" => blk[x].mType # "LST_NULL"
    BY <1>1, DecreasedTyped DEF DecreasedAt
  <2>3. DOMAIN b = DOMAIN blk
    BY DEF DecreasedAt
  <2> HIDE DEF b
  <2>5. ASSUME NEW x \in DOMAIN blk
        PROVE  /\ blk'[x] \in Blocks
               /\ blk'[x].mSize = blk[x].mSize
               /\ blk'[x].mType # "LST_NULL" => blk[x].mType # "LST_NULL"
    <3>1. CASE x # list
      BY <2>2, <2>1, <2>3, <3>1
    <3>2. CASE x = list
      <4>1. blk'[x] = [b[x] EXCEPT !.elems = Tail(@)]
        BY <2>1, <2>3, <3>2
      <4>2. b[x].elems \in Seq(Addresses) /\ b[x].elems # <<>>
        BY <1>1, <2>2, <3>2 DEF Blocks
      <4>3. Tail(b[x].elems) \in Seq(Addresses)
        BY <4>2
      <4> QED
        BY <2>2, <4>1, <4>3 DEF Blocks
    <3> QED
      BY <3>1, <3>2
  <2>6. blk' \in [DOMAIN blk -> Blocks]
    BY <2>1, <2>3, <2>5
  <2>7. CASE Fault("LSRF_HEAP_ERROR")
    BY <1>1, <1>2, <2>6, <2>7, FaultStep
  <2>8. CASE UNCHANGED <<hp, fr, workVars>>
    BY <1>1, <2>5, <2>6, <2>8, QuietStep DEF workVars
  <2> QED
    BY <1>4, <2>7, <2>8 DEF DropElement
<1> QED
  BY <1>3, <1>4

\* The list's own header, after its elements.
LEMMA FinishDropStep ==
    ASSUME IInv, FinishDrop
    PROVE  IInv'
<1>1. /\ pc = "drop" /\ fr = "OK" /\ hp < sp /\ sp \in 0 .. TM - 1
      /\ blk \in [DOMAIN blk -> Blocks]
      /\ held \in [Addresses -> Nat]
      /\ blk' = [blk EXCEPT ![list] = Decreased(@)]
      /\ held' = [held EXCEPT ![AddressOf(list)] = @ - 1]
      /\ BackToIdle /\ UNCHANGED <<hp, sp, fr>>
  BY DEF FinishDrop, IInv, Layout, TypeOK
<1>2. ASSUME NEW x \in DOMAIN blk
      PROVE  /\ blk'[x] \in Blocks
             /\ blk'[x].mSize = blk[x].mSize
             /\ blk'[x].mType # "LST_NULL" => blk[x].mType # "LST_NULL"
  BY <1>1, DecreasedTyped
<1>3. blk' \in [DOMAIN blk -> Blocks]
  BY <1>1, <1>2
<1>4. held[AddressOf(list)] > 0
  BY <1>1 DEF IInv, Layout
<1>5. held' \in [Addresses -> Nat]
  <2>1. ASSUME NEW x \in Addresses PROVE held'[x] \in Nat
    BY <1>1, <1>4
  <2> QED
    BY <1>1, <2>1
<1>6. pc' = "idle"
  BY <1>1 DEF BackToIdle
<1> QED
  BY <1>1, <1>2, <1>3, <1>5, <1>6, QuietStep

\* The stack pointer stays above HP, or faults.
LEMMA SetSPStep ==
    ASSUME IInv, NEW s \in StackTops, SetSP(s)
    PROVE  IInv'
<1> USE IdleFacts, ConstantFacts
<1>1. Idle
  BY DEF SetSP
<1>2. s \in 0 .. TM - 1
  BY HeapAssumption
<1>3. "LSRF_STACK_HEAP_COLLISION" \in Faults \ {"OK"}
  BY DEF Faults
<1>4. CASE s <= hp
  <2>1. Fault("LSRF_STACK_HEAP_COLLISION") /\ UNCHANGED <<blk, sp, held>>
    BY <1>4 DEF SetSP
  <2> QED
    BY <1>1, <1>3, <2>1, FaultStep
<1>5. CASE ~(s <= hp)
  <2>1. sp' = s /\ UNCHANGED <<blk, hp, fr, workVars, held>> /\ hp < s
    BY <1>1, <1>2, <1>5 DEF SetSP
  <2> QED
    BY <1>1, <1>2, <2>1, QuietStep DEF workVars
<1> QED
  BY <1>4, <1>5

----------------------------------------------------------------------------
\* lsa_heap_add_data.

\* A walk starts on the first block, whatever it is for.
LEMMA StartWalkStep ==
    ASSUME IInv, pc \in {"idle", "fill"}, fr = "OK",
           NEW type \in {"LST_DATA", "LST_LIST"}, NEW size \in RequestSizes,
           StartWalk(type, size), UNCHANGED <<heapVars, list, split, held>>,
           left' \in Seq(ScalarSizes), type = "LST_LIST" => list = 0
    PROVE  IInv'
<1> USE ConstantFacts
<1>1. /\ pc' = "walk" /\ cur' = HR /\ want' = [mType |-> type, mSize |-> size]
      /\ blk' = blk /\ hp' = hp /\ sp' = sp /\ fr' = fr
      /\ list' = list /\ split' = split /\ held' = held
  BY DEF StartWalk, heapVars
<1>2. /\ want' \in [mType : Kinds, mSize : Nat]
      /\ want'.mType = type /\ want'.mSize = size
  BY <1>1, RequestFacts DEF Kinds
<1>3. HR \in HR .. HeapEnd
  OBVIOUS
<1>4. TypeOK'
  BY <1>1, <1>2, <1>3 DEF IInv, TypeOK
<1>5. (Building' <=> Building) /\ (pc = "idle" => list = 0)
  BY <1>1 DEF IInv, Layout, Building
<1>6. ASSUME NEW o \in DOMAIN blk
      PROVE  Next(o)' = Next(o) /\ (Live(o)' <=> Live(o))
               /\ (HeaderDue(o)' <=> HeaderDue(o))
  BY <1>1, <1>5 DEF Next, Live, HeaderDue
<1>7. Tiling'
  BY <1>1, <1>6 DEF IInv, Tiling
<1>8. HR \in DOMAIN blk
  BY DEF IInv, Tiling
<1>9. ASSUME NEW o \in DOMAIN blk'
      PROVE  /\ Live(o)' => Next(o)' # HeapEnd
             /\ o + SIZEOF_SCRIPT_ALLOC_ENTRY <= hp' \/ HeaderDue(o)'
             /\ Live(o)' => Next(o)' <= hp' \/ (Building' /\ split' /\ o = list')
  BY <1>1, <1>5, <1>6, <1>9 DEF IInv, Layout
<1>10. hp' < sp' /\ (Building' => list' \in DOMAIN blk' /\ blk'[list'].mType = "LST_LIST")
  BY <1>1, <1>5 DEF IInv, Layout
<1>11. Layout'
  BY <1>1, <1>2, <1>8, <1>9, <1>10 DEF Layout
<1> QED
  BY <1>4, <1>7, <1>11 DEF IInv

\* An allocation starts its walk at HR.
LEMMA AddScalarStep ==
    ASSUME IInv, NEW n \in ScalarSizes, AddScalar(n)
    PROVE  IInv'
<1>1. /\ Idle /\ StartWalk("LST_DATA", n)
      /\ UNCHANGED <<heapVars, list, split, held>> /\ left' = left
  BY DEF AddScalar
<1>2. left \in Seq(ScalarSizes) /\ n \in RequestSizes
  BY RequestFacts DEF IInv, TypeOK
<1> QED
  BY <1>1, <1>2, IdleFacts, StartWalkStep

\* So does a list's.
LEMMA AddListStep ==
    ASSUME IInv, NEW shape \in ListShapes, AddList(shape)
    PROVE  IInv'
<1>1. /\ Idle /\ StartWalk("LST_LIST", ListSize(Len(shape)))
      /\ UNCHANGED <<heapVars, list, split, held>> /\ left' = shape
  BY DEF AddList
<1>2. shape \in Seq(ScalarSizes) /\ ListSize(Len(shape)) \in RequestSizes
  BY RequestFacts
<1> QED
  BY <1>1, <1>2, IdleFacts, StartWalkStep

\* And that of each element.
LEMMA AddElementStep ==
    ASSUME IInv, AddElement
    PROVE  IInv'
<1>1. /\ pc = "fill" /\ left # <<>> /\ StartWalk("LST_DATA", Head(left))
      /\ UNCHANGED <<heapVars, list, split, held>> /\ left' = Tail(left)
  BY DEF AddElement
<1>2. left \in Seq(ScalarSizes) /\ fr = "OK"
  BY <1>1 DEF IInv, TypeOK, Layout
<1>3. Head(left) \in ScalarSizes /\ Tail(left) \in Seq(ScalarSizes)
  BY <1>1, <1>2
<1>4. Head(left) \in RequestSizes
  BY <1>3, RequestFacts
<1> QED
  BY <1>1, <1>2, <1>3, <1>4, StartWalkStep

\* HP is brought behind a list that was carved out: the header behind it is
\* below HP now, and the list itself too.
LEMMA FinishListStep ==
    ASSUME IInv, FinishList
    PROVE  IInv'
<1> USE ConstantFacts
<1> DEFINE newHP == NewHP(list, blk[list].mSize)
<1>1. /\ pc = "fill" /\ fr = "OK" /\ list # 0 /\ Building
      /\ list \in DOMAIN blk /\ DOMAIN blk \subseteq HR .. HeapEnd
      /\ blk \in [DOMAIN blk -> Blocks] /\ blk[list].mType = "LST_LIST"
      /\ hp \in 0 .. TM /\ sp \in 0 .. TM - 1 /\ hp < sp
      /\ held \in [Addresses -> Nat] /\ left \in Seq(ScalarSizes)
      /\ split \in BOOLEAN
      /\ blk' = blk /\ sp' = sp
  BY DEF FinishList, IInv, TypeOK, Layout, Building
<1>2. "LSRF_STACK_HEAP_COLLISION" \in Faults \ {"OK"}
  BY DEF Faults
<1>3. CASE split /\ Full(newHP)
  <2>1. Fault("LSRF_STACK_HEAP_COLLISION") /\ UNCHANGED held
    BY <1>3 DEF FinishList
  <2> QED
    BY <1>1, <1>2, <2>1, FaultStep
<1>4. CASE ~(split /\ Full(newHP))
  <2>1. /\ hp' = IF split THEN Max2(hp, newHP) ELSE hp
        /\ held' = [held EXCEPT ![AddressOf(list)] = @ + 1]
        /\ BackToIdle /\ fr' = fr
    BY <1>4 DEF FinishList
  <2>2. newHP \in Nat /\ newHP = Next(list) + 7 /\ (split => newHP < sp)
    <3>1. /\ list \in Nat /\ blk[list].mSize \in Nat /\ sp \in Int
          /\ Next(list) = list + 7 + blk[list].mSize
      BY <1>1, HeaderFacts
    <3>2. newHP = list + blk[list].mSize + 14
      BY <3>1 DEF NewHP
    <3>3. split => ~(newHP >= sp)
      BY <1>4 DEF Full
    <3> HIDE DEF newHP
    <3> QED
      BY <3>1, <3>2, <3>3
  <2>3. /\ hp' \in 0 .. TM /\ hp' < sp /\ hp <= hp' /\ (split => newHP <= hp')
    BY <1>1, <2>1, <2>2 DEF Max2
  <2>4. /\ pc' = "idle" /\ cur' = HR /\ want' = Nothing /\ list' = 0
        /\ left' = <<>> /\ split' = FALSE
    BY <2>1 DEF BackToIdle
  <2>5. held' \in [Addresses -> Nat]
    <3>1. ASSUME NEW a \in Addresses PROVE held'[a] \in Nat
      BY <1>1, <2>1
    <3> QED
      BY <1>1, <2>1, <3>1
  <2>6. Nothing \in [mType : Kinds, mSize : Nat] /\ Nothing.mType = "LST_NULL"
          /\ <<>> \in Seq(ScalarSizes) /\ HR \in HR .. HeapEnd
    BY DEF Nothing, Kinds
  <2>7. TypeOK'
    BY <1>1, <2>1, <2>3, <2>4, <2>5, <2>6 DEF IInv, TypeOK
  <2>8. ASSUME NEW o \in DOMAIN blk
        PROVE  Next(o)' = Next(o) /\ (Live(o)' <=> Live(o)) /\ Next(o) \in Nat
    BY <1>1, HeaderFacts DEF Next, Live
  <2>9. Tiling'
    BY <1>1, <2>8 DEF IInv, Tiling
  <2>10. ASSUME NEW o \in DOMAIN blk'
         PROVE  /\ Live(o)' => Next(o)' # HeapEnd
                /\ o + SIZEOF_SCRIPT_ALLOC_ENTRY <= hp'
                /\ Live(o)' => Next(o)' <= hp'
    <3>1. o \in DOMAIN blk /\ o \in Nat /\ Next(o) \in Nat /\ hp \in Nat
      BY <1>1, HeaderFacts
    <3>2. /\ Live(o) => Next(o) # HeapEnd
          /\ o + 7 <= hp \/ (split /\ o = Next(list))
          /\ Live(o) => Next(o) <= hp \/ (split /\ o = list)
      BY <1>1, <3>1 DEF IInv, Layout, HeaderDue
    <3>3. hp \in Nat /\ hp' \in Nat /\ hp <= hp' /\ Next(o)' = Next(o)
          /\ (Live(o)' <=> Live(o))
          /\ (split => Next(list) + 7 <= hp') /\ Next(list) \in Nat
      BY <1>1, <2>2, <2>3, <2>8, <3>1
    <3>4. o + 7 <= hp'
      BY <3>1, <3>2, <3>3
    <3>5. Live(o)' => Next(o)' <= hp'
      BY <3>1, <3>2, <3>3
    <3> QED
      BY <3>2, <3>3, <3>4, <3>5
  <2>11. ~Building'
    BY <2>4 DEF Building
  <2>12. Layout'
    BY <1>1, <2>1, <2>3, <2>4, <2>6, <2>10, <2>11 DEF Layout
  <2> QED
    BY <2>7, <2>9, <2>12 DEF IInv
<1> QED
  BY <1>3, <1>4

\* What the invariant says in the middle of a walk.
LEMMA WalkFacts ==
    ASSUME IInv, pc = "walk"
    PROVE  /\ fr = "OK" /\ hp < sp /\ hp \in 0 .. TM /\ sp \in 0 .. TM - 1
           /\ HR \in DOMAIN blk /\ cur \in DOMAIN blk
           /\ DOMAIN blk \subseteq HR .. HeapEnd
           /\ blk \in [DOMAIN blk -> Blocks]
           /\ want.mType \in {"LST_DATA", "LST_LIST"} /\ want.mSize \in Nat
           /\ want.mSize + 11 <= TM
           /\ cur = HR \/ cur + want.mSize + 14 < sp
           /\ want.mType = "LST_LIST" => list = 0
           /\ Building <=> list # 0
           /\ list # 0 => list \in DOMAIN blk /\ Live(list)
           /\ held \in [Addresses -> Nat] /\ left \in Seq(ScalarSizes)
           /\ split \in BOOLEAN
<1> USE ConstantFacts
<1>1. /\ fr = "OK" /\ hp < sp /\ cur \in DOMAIN blk
      /\ want.mType # "LST_NULL" /\ want.mSize \in RequestSizes
      /\ cur = HR \/ NewHP(cur, want.mSize) < sp
      /\ want.mType = "LST_LIST" => list = 0
      /\ Building => list \in DOMAIN blk /\ blk[list].mType = "LST_LIST"
  BY DEF IInv, Layout
<1>2. /\ hp \in 0 .. TM /\ sp \in 0 .. TM - 1 /\ want.mType \in Kinds
      /\ DOMAIN blk \subseteq HR .. HeapEnd /\ blk \in [DOMAIN blk -> Blocks]
      /\ held \in [Addresses -> Nat] /\ left \in Seq(ScalarSizes)
      /\ split \in BOOLEAN
  BY DEF IInv, TypeOK
<1>3. want.mSize \in Nat /\ want.mSize + 11 <= TM
  BY <1>1, RequestFacts
<1>4. cur \in Nat /\ NewHP(cur, want.mSize) = cur + want.mSize + 14
  BY <1>1, <1>3, HeaderFacts DEF NewHP
<1>5. Building <=> list # 0
  BY DEF Building
<1>6. HR \in DOMAIN blk
  BY <1>1 DEF IInv, Tiling
<1> QED
  BY <1>1, <1>2, <1>3, <1>4, <1>5, <1>6 DEF Kinds, Live

\* The tiling and the headers' reach, for a state that is not at fault.
HeadersWithin ==
    \A o \in DOMAIN blk :
      /\ Live(o) => Next(o) # HeapEnd
      /\ o + SIZEOF_SCRIPT_ALLOC_ENTRY <= hp \/ HeaderDue(o)
      /\ Live(o) => Next(o) <= hp \/ (Building /\ split /\ o = list)

\* Merging cur with the free block behind it keeps the tiling.
LEMMA MergeStep ==
    ASSUME IInv, pc = "walk", NEW next, next = Next(cur), next < sp,
           Mergeable(next), blk' = Merged(next),
           hp' \in Nat, hp <= hp', cur' = cur, list' = list, split' = split, pc' = "walk"
    PROVE  /\ next \in DOMAIN blk
           /\ DOMAIN blk' \subseteq DOMAIN blk
           /\ blk' \in [DOMAIN blk' -> Blocks]
           /\ cur \in DOMAIN blk' /\ Tiling' /\ HeadersWithin'
           /\ list # 0 => list \in DOMAIN blk' /\ blk'[list] = blk[list]
<1> USE ConstantFacts
<1>0. /\ fr = "OK" /\ hp \in 0 .. TM /\ sp \in 0 .. TM - 1
      /\ HR \in DOMAIN blk /\ cur \in DOMAIN blk
      /\ blk \in [DOMAIN blk -> Blocks]
      /\ Building <=> list # 0
      /\ list # 0 => list \in DOMAIN blk /\ Live(list)
  BY WalkFacts
<1>9. ASSUME NEW o \in DOMAIN blk
      PROVE  /\ Next(o) \in DOMAIN blk \cup {HeapEnd}
             /\ \A p \in DOMAIN blk : o < p => Next(o) <= p
             /\ o \in Nat /\ Next(o) \in Nat /\ o < Next(o) /\ HR <= o
             /\ Next(o) = o + 7 + blk[o].mSize /\ blk[o].mSize \in Nat
             /\ blk[o] \in Blocks
  <2>1. /\ Next(o) \in DOMAIN blk \cup {HeapEnd}
        /\ \A p \in DOMAIN blk : o < p => Next(o) <= p
    BY <1>0 DEF IInv, Tiling
  <2>2. /\ o \in Nat /\ Next(o) = o + 7 + blk[o].mSize /\ blk[o].mSize \in Nat
        /\ blk[o] \in Blocks /\ HR <= o
    BY HeaderFacts
  <2> QED
    BY <2>1, <2>2
<1>1. next \in DOMAIN blk /\ next \in Nat /\ cur \in Nat /\ cur < next
  <2>1. next \in DOMAIN blk \cup {HeapEnd} /\ cur \in Nat /\ next \in Nat /\ cur < next
    BY <1>0, <1>9
  <2>2. next # HeapEnd
    BY <1>0
  <2> QED
    BY <2>1, <2>2
<1>2. ~Live(cur) /\ ~Live(next)
  BY DEF Mergeable
<1>3. DOMAIN blk' = DOMAIN blk \ {next} /\ cur \in DOMAIN blk'
  BY <1>0, <1>1 DEF Merged
<1>4. ASSUME NEW o \in DOMAIN blk', o # cur
      PROVE  blk'[o] = blk[o] /\ o \in DOMAIN blk
  BY <1>3, <1>4 DEF Merged
<1>5. /\ blk'[cur] \in Blocks
      /\ blk'[cur].mSize = blk[cur].mSize + blk[next].mSize + 7
      /\ blk'[cur].mType = "LST_NULL"
  <2>1. blk'[cur] = [blk[cur] EXCEPT !.mSize =
                       @ + blk[next].mSize + SIZEOF_SCRIPT_ALLOC_ENTRY]
    BY <1>1, <1>3 DEF Merged
  <2>2. blk[cur] \in Blocks /\ blk[next].mSize \in Nat /\ blk[cur].mSize \in Nat
    BY <1>0, <1>1, <1>9
  <2>3. blk[cur].mSize + blk[next].mSize + 7 \in Nat
    BY <2>2
  <2> QED
    BY <1>2, <2>1, <2>2, <2>3 DEF Blocks, Live
<1>6. blk' \in [DOMAIN blk' -> Blocks]
  <2>1. ASSUME NEW o \in DOMAIN blk' PROVE blk'[o] \in Blocks
    BY <1>4, <1>5, <1>9
  <2>2. blk' = [o \in DOMAIN blk' |-> blk'[o]]
    BY <1>3 DEF Merged
  <2> QED
    BY <2>1, <2>2
<1>7. ASSUME NEW o \in DOMAIN blk', o # cur
      PROVE  Next(o)' = Next(o) /\ (Live(o)' <=> Live(o))
  BY <1>4, <1>7 DEF Next, Live
<1>8. Next(cur)' = Next(next) /\ ~Live(cur)'
  <2>1. Next(cur)' = cur + 7 + blk'[cur].mSize
    BY DEF Next
  <2>2. Next(next) = next + 7 + blk[next].mSize /\ next = cur + 7 + blk[cur].mSize
          /\ blk[cur].mSize \in Nat /\ blk[next].mSize \in Nat
    BY <1>0, <1>1, <1>9
  <2> QED
    BY <1>1, <1>5, <2>1, <2>2 DEF Live
<1>10. ASSUME NEW o \in DOMAIN blk'
       PROVE  /\ Next(o)' \in DOMAIN blk' \cup {HeapEnd}
              /\ \A p \in DOMAIN blk' : o < p => Next(o)' <= p
  <2>1. CASE o = cur
    <3>1. Next(next) # next
      BY <1>1, <1>9
    <3>2. ASSUME NEW p \in DOMAIN blk', cur < p PROVE Next(next) <= p
      <4>1. p \in DOMAIN blk /\ p # next /\ next <= p /\ p \in Nat
        BY <1>3, <1>9, <3>2
      <4> QED
        BY <1>1, <1>9, <4>1
    <3> QED
      BY <1>1, <1>3, <1>8, <1>9, <2>1, <3>1, <3>2
  <2>2. CASE o # cur
    <3>1. o \in DOMAIN blk /\ o # next /\ o \in Nat
      BY <1>3, <1>9
    <3>2. Next(o) # next
      <4>1. CASE o < cur
        BY <1>0, <1>1, <1>9, <3>1, <4>1
      <4>2. CASE cur < o
        BY <1>0, <1>1, <1>9, <3>1, <4>2
      <4> QED
        BY <1>1, <2>2, <3>1, <4>1, <4>2
    <3> QED
      BY <1>3, <1>7, <1>9, <2>2, <3>1, <3>2
  <2> QED
    BY <2>1, <2>2
<1>11. HR \in DOMAIN blk'
  BY <1>0, <1>1, <1>3, <1>9
<1>12. Tiling'
  BY <1>10, <1>11 DEF Tiling
<1>13. list # 0 => list \in DOMAIN blk' /\ list # cur /\ blk'[list] = blk[list]
                     /\ Next(list)' = Next(list)
  BY <1>0, <1>2, <1>3, <1>4, <1>7
<1>14. HeadersWithin'
  <2>1. ASSUME NEW o \in DOMAIN blk'
        PROVE  /\ Live(o)' => Next(o)' # HeapEnd
               /\ o + SIZEOF_SCRIPT_ALLOC_ENTRY <= hp' \/ HeaderDue(o)'
               /\ Live(o)' => Next(o)' <= hp' \/ (Building' /\ split' /\ o = list')
    <3>1. /\ o \in DOMAIN blk /\ o \in Nat /\ Next(o) \in Nat /\ hp \in Nat
          /\ Live(o) => Next(o) # HeapEnd
          /\ o + 7 <= hp \/ HeaderDue(o)
          /\ Live(o) => Next(o) <= hp \/ (Building /\ split /\ o = list)
      BY <1>0, <1>3, <1>9 DEF IInv, Layout
    <3>2. (Building' <=> Building) /\ (HeaderDue(o) => HeaderDue(o)')
      BY <1>0, <1>13 DEF Building, HeaderDue
    <3>3. o + 7 <= hp' \/ HeaderDue(o)'
      BY <3>1, <3>2
    <3>4. Live(o)' => o # cur /\ Live(o) /\ Next(o)' = Next(o)
      BY <1>7, <1>8
    <3> QED
      BY <3>1, <3>2, <3>3, <3>4
  <2> QED
    BY <2>1 DEF HeadersWithin
<1> QED
  BY <1>1, <1>3, <1>6, <1>12, <1>13, <1>14

\* The walk goes on: it merges two free blocks or moves to the next header.
LEMMA AdvanceStep ==
    ASSUME IInv, Advance
    PROVE  IInv'
<1> USE ConstantFacts
<1> DEFINE n == Next(cur)
           newHP == NewHP(NextCur(n), want.mSize)
<1>1. /\ pc = "walk" /\ sp' = sp /\ held' = held
  BY DEF Advance
<1>2. /\ fr = "OK" /\ hp \in 0 .. TM /\ hp < sp /\ sp \in 0 .. TM - 1
      /\ HR \in DOMAIN blk /\ cur \in DOMAIN blk
      /\ DOMAIN blk \subseteq HR .. HeapEnd /\ blk \in [DOMAIN blk -> Blocks]
      /\ want.mSize \in Nat /\ held \in [Addresses -> Nat]
      /\ left \in Seq(ScalarSizes) /\ Building <=> list # 0
      /\ list # 0 => list \in DOMAIN blk /\ Live(list)
  BY <1>1, WalkFacts
<1>3. "LSRF_STACK_HEAP_COLLISION" \in Faults \ {"OK"}
  BY DEF Faults
<1>4. CASE n >= sp
  <2>1. Fault("LSRF_STACK_HEAP_COLLISION") /\ UNCHANGED blk
    BY <1>4 DEF Advance
  <2> QED
    BY <1>1, <1>2, <1>3, <2>1, FaultStep
<1>5. CASE ~(n >= sp)
  <2>1. /\ blk' = IF Mergeable(n) THEN Merged(n) ELSE blk
        /\ IF Full(newHP)
           THEN Fault("LSRF_STACK_HEAP_COLLISION")
           ELSE /\ cur' = NextCur(n) /\ hp' = Max2(hp, newHP)
                /\ UNCHANGED <<fr, pc, want, list, left, split>>
    BY <1>5 DEF Advance
  <2>2. n \in Nat /\ n < sp /\ n \in DOMAIN blk /\ cur \in Nat
    <3>1. n \in DOMAIN blk \cup {HeapEnd} /\ cur \in Nat /\ n \in Nat
      BY <1>2, HeaderFacts DEF IInv, Tiling
    <3> QED
      BY <1>2, <1>5, <3>1
  <2>3. NextCur(n) \in DOMAIN blk /\ newHP = NextCur(n) + want.mSize + 14
          /\ newHP \in Nat
    <3>1. NextCur(n) = cur \/ NextCur(n) = n
      BY DEF NextCur
    <3>2. NextCur(n) \in DOMAIN blk /\ NextCur(n) \in Nat
      <4>1. CASE NextCur(n) = cur
        BY <1>2, <2>2, <4>1
      <4>2. CASE NextCur(n) = n
        BY <2>2, <4>2
      <4> QED
        BY <3>1, <4>1, <4>2
    <3>3. newHP = NextCur(n) + want.mSize + 14
      <4> DEFINE o == NextCur(n)
      <4>1. o \in Nat /\ want.mSize \in Nat
        BY <1>2, <3>2
      <4> HIDE DEF o
      <4>2. NewHP(o, want.mSize) = o + want.mSize + 14
        BY <4>1 DEF NewHP
      <4> QED
        BY <4>2 DEF o
    <3>4. want.mSize \in Nat
      BY <1>2
    <3> QED
      BY <3>2, <3>3, <3>4
  <2>4. /\ DOMAIN blk' \subseteq HR .. HeapEnd /\ blk' \in [DOMAIN blk' -> Blocks]
    <3>1. ASSUME NEW o \in DOMAIN blk PROVE blk[o] \in Blocks /\ blk[o].mSize \in Nat
      BY HeaderFacts
    <3>2. CASE Mergeable(n)
      <4>1. blk' = Merged(n) /\ DOMAIN blk' = DOMAIN blk \ {n}
        BY <2>1, <3>2 DEF Merged
      <4>2. blk[cur].mSize + blk[n].mSize + 7 \in Nat
        <5>1. blk[cur].mSize \in Nat /\ blk[n].mSize \in Nat
          BY <1>2, <2>2, <3>1
        <5> QED
          BY <5>1
      <4>3. ASSUME NEW o \in DOMAIN blk' PROVE blk'[o] \in Blocks
        <5>1. CASE o = cur
          <6>1. blk'[o] = [blk[cur] EXCEPT !.mSize =
                             @ + blk[n].mSize + SIZEOF_SCRIPT_ALLOC_ENTRY]
            BY <4>1, <5>1 DEF Merged
          <6> QED
            BY <1>2, <3>1, <4>2, <6>1 DEF Blocks
        <5>2. CASE o # cur
          BY <3>1, <4>1, <5>2 DEF Merged
        <5> QED
          BY <5>1, <5>2
      <4>4. blk' = [o \in DOMAIN blk' |-> blk'[o]]
        BY <4>1 DEF Merged
      <4> QED
        BY <1>2, <4>1, <4>3, <4>4
    <3>3. CASE ~Mergeable(n)
      BY <1>2, <2>1, <3>3
    <3> QED
      BY <3>2, <3>3
  <2>5. CASE Full(newHP)
    BY <1>1, <1>2, <1>3, <2>1, <2>4, <2>5, FaultStep
  <2>6. CASE ~Full(newHP)
    <3>1. /\ cur' = NextCur(n) /\ hp' = Max2(hp, newHP)
          /\ fr' = fr /\ pc' = pc /\ want' = want /\ list' = list
          /\ left' = left /\ split' = split
      BY <2>1, <2>6
    <3>2. hp' \in 0 .. TM /\ hp <= hp' /\ hp' < sp /\ newHP < sp
      <4>1. newHP < sp
        BY <1>2, <2>3, <2>6 DEF Full
      <4>2. hp' = Max2(hp, newHP) /\ newHP \in Nat
        BY <2>3, <3>1
      <4> HIDE DEF newHP
      <4> QED
        BY <1>2, <4>1, <4>2 DEF Max2
    <3>3. /\ Tiling' /\ HeadersWithin' /\ cur' \in DOMAIN blk'
          /\ list # 0 => list \in DOMAIN blk' /\ blk'[list] = blk[list]
      <4>1. CASE Mergeable(n)
        <5>1. PICK next \in Nat : next = n
          BY <2>2
        <5>2. cur' = cur /\ blk' = Merged(next) /\ Mergeable(next)
          BY <2>1, <3>1, <4>1, <5>1 DEF NextCur
        <5> QED
          BY <1>1, <2>2, <3>1, <3>2, <5>1, <5>2, MergeStep
      <4>2. CASE ~Mergeable(n)
        <5>1. blk' = blk /\ cur' = n
          BY <2>1, <3>1, <4>2 DEF NextCur
        <5>2. ASSUME NEW o \in DOMAIN blk
              PROVE  Next(o)' = Next(o) /\ (Live(o)' <=> Live(o))
                       /\ (HeaderDue(o)' <=> HeaderDue(o)) /\ o \in Nat
                       /\ Next(o) \in Nat
          BY <1>1, <3>1, <5>1, HeaderFacts DEF Next, Live, HeaderDue, Building
        <5>3. Tiling'
          BY <3>1, <5>1, <5>2 DEF IInv, Tiling
        <5>4. HeadersWithin'
          <6>1. ASSUME NEW o \in DOMAIN blk'
                PROVE  /\ Live(o)' => Next(o)' # HeapEnd
                       /\ o + SIZEOF_SCRIPT_ALLOC_ENTRY <= hp' \/ HeaderDue(o)'
                       /\ Live(o)' => Next(o)' <= hp'
                                        \/ (Building' /\ split' /\ o = list')
            <7>1. /\ o \in DOMAIN blk
                  /\ Live(o) => Next(o) # HeapEnd
                  /\ o + 7 <= hp \/ HeaderDue(o)
                  /\ Live(o) => Next(o) <= hp \/ (Building /\ split /\ o = list)
              BY <1>2, <5>1 DEF IInv, Layout
            <7>2. Building' <=> Building
              BY <3>1 DEF Building
            <7>3. hp \in Nat /\ hp' \in Nat /\ hp <= hp'
              BY <1>2, <3>2
            <7> QED
              BY <3>1, <5>2, <7>1, <7>2, <7>3
          <6> QED
            BY <6>1 DEF HeadersWithin
        <5> QED
          BY <1>2, <2>2, <5>1, <5>3, <5>4
      <4> QED
        BY <4>1, <4>2
    <3>4. cur' \in HR .. HeapEnd
      BY <2>4, <3>3
    <3>5. TypeOK'
      BY <1>1, <1>2, <2>4, <3>1, <3>2, <3>4 DEF IInv, TypeOK
    <3>6. NewHP(cur', want'.mSize) < sp'
      BY <1>1, <3>1, <3>2
    <3>7. Building' => list' \in DOMAIN blk' /\ blk'[list'].mType = "LST_LIST"
      BY <1>2, <3>1, <3>3 DEF IInv, Layout, Building
    <3>8. Layout'
      BY <1>1, <1>2, <3>1, <3>2, <3>3, <3>6, <3>7
         DEF IInv, Layout, HeadersWithin
    <3> QED
      BY <3>3, <3>5, <3>8 DEF IInv
  <2> QED
    BY <2>5, <2>6
<1> QED
  BY <1>4, <1>5

\* A script that is given one more reference to a block.
LEMMA OneMoreHeld ==
    ASSUME NEW h \in [Addresses -> Nat], NEW a \in Addresses
    PROVE  [h EXCEPT ![a] = @ + 1] \in [Addresses -> Nat]
<1>1. h[a] + 1 \in Nat
  OBVIOUS
<1> QED
  BY <1>1

\* Delivering a placed block writes no size and no type, and leaves the
\* machine filling the list or idle.
LEMMA DeliverStep ==
    ASSUME IInv, pc = "walk", NEW b, NEW carved \in BOOLEAN,
           DOMAIN b \subseteq HR .. HeapEnd, b \in [DOMAIN b -> Blocks],
           cur \in DOMAIN b, b[cur].mType = want.mType,
           list # 0 => list \in DOMAIN b /\ b[list].mType = "LST_LIST",
           Deliver(b, carved), hp' \in 0 .. TM, sp' = sp, fr' = fr
    PROVE  /\ TypeOK'
           /\ DOMAIN blk' = DOMAIN b
           /\ \A o \in DOMAIN b : /\ blk'[o].mSize = b[o].mSize
                                  /\ blk'[o].mType = b[o].mType
           /\ pc' \in {"fill", "idle"} /\ want'.mType = "LST_NULL"
           /\ pc' = "fill" => /\ list' # 0 /\ list' \in DOMAIN blk'
                              /\ blk'[list'].mType = "LST_LIST"
           /\ \/ list = 0 /\ pc' = "fill" /\ list' = cur /\ split' = carved
              \/ list # 0 /\ pc' = "fill" /\ list' = list /\ split' = split
              \/ list = 0 /\ pc' = "idle" /\ list' = 0
<1> USE ConstantFacts
<1>1. /\ sp \in 0 .. TM - 1 /\ fr = "OK" /\ want.mType \in {"LST_DATA", "LST_LIST"}
      /\ want.mSize \in Nat
      /\ cur = HR \/ cur + want.mSize + 14 < sp
      /\ want.mType = "LST_LIST" => list = 0
      /\ held \in [Addresses -> Nat] /\ left \in Seq(ScalarSizes)
      /\ split \in BOOLEAN /\ cur \in DOMAIN blk
  BY WalkFacts
<1>2. cur \in Nat /\ HR <= cur /\ cur # 0
  BY <1>1, HeaderFacts
<1>3. AddressOf(cur) \in Addresses
  <2>1. sp \in Int /\ sp <= TM - 1
    <3>1. sp \in 0 .. TM - 1
      BY <1>1
    <3> QED
      BY <3>1
  <2>2. cur < TM
    <3>1. CASE cur = HR
      BY <3>1
    <3>2. CASE cur + want.mSize + 14 < sp
      <4>1. want.mSize \in Nat
        BY WalkFacts
      <4> QED
        BY <1>2, <2>1, <3>2, <4>1
    <3> QED
      BY <1>1, <3>1, <3>2
  <2>3. cur - HR + 1 \in 1 .. TM - HR
    BY <1>2, <2>2
  <2> QED
    BY <2>3 DEF AddressOf, Addresses
<1>4. /\ Nothing \in [mType : Kinds, mSize : Nat] /\ Nothing.mType = "LST_NULL"
      /\ <<>> \in Seq(ScalarSizes) /\ HR \in HR .. HeapEnd
  BY DEF Nothing, Kinds
<1>5. sp' \in 0 .. TM - 1 /\ fr' \in Faults
  BY <1>1 DEF Faults
<1>6. CASE DeliverList(b, carved)
  <2>1. /\ want.mType = "LST_LIST" /\ blk' = b /\ pc' = "fill" /\ list' = cur
        /\ split' = carved /\ cur' = HR /\ want' = Nothing
        /\ left' = left /\ held' = held
    BY <1>6 DEF DeliverList
  <2>2. TypeOK'
    BY <1>1, <1>2, <1>4, <1>5, <2>1 DEF TypeOK
  <2> QED
    BY <1>1, <1>2, <1>4, <2>1, <2>2
<1>7. CASE DeliverElement(b)
  <2>1. /\ want.mType = "LST_DATA" /\ list # 0
        /\ blk' = [b EXCEPT ![list].elems = Append(@, AddressOf(cur))]
        /\ pc' = "fill" /\ cur' = HR /\ want' = Nothing
        /\ list' = list /\ left' = left /\ split' = split /\ held' = held
    BY <1>7 DEF DeliverElement
  <2>2. ASSUME NEW o \in DOMAIN b
        PROVE  /\ blk'[o] \in Blocks
               /\ blk'[o].mSize = b[o].mSize
               /\ blk'[o].mType = b[o].mType
    <3>1. b[o] \in Blocks
      OBVIOUS
    <3>2. CASE o = list
      <4>1. blk'[o] = [b[o] EXCEPT !.elems = Append(@, AddressOf(cur))]
        BY <2>1, <3>2
      <4>2. Append(b[o].elems, AddressOf(cur)) \in Seq(Addresses)
        <5>1. b[o].elems \in Seq(Addresses)
          BY <3>1 DEF Blocks
        <5> QED
          BY <1>3, <5>1
      <4> QED
        BY <3>1, <4>1, <4>2 DEF Blocks
    <3>3. CASE o # list
      BY <2>1, <3>1, <3>3
    <3> QED
      BY <3>2, <3>3
  <2>3. DOMAIN blk' = DOMAIN b /\ blk' \in [DOMAIN blk' -> Blocks]
    BY <2>1, <2>2
  <2>4. list' \in Nat
    BY <2>1
  <2>5. TypeOK'
    BY <1>1, <1>4, <1>5, <2>1, <2>3, <2>4 DEF TypeOK
  <2> QED
    BY <1>4, <2>1, <2>2, <2>3, <2>5
<1>8. CASE DeliverValue(b)
  <2>1. /\ want.mType = "LST_DATA" /\ list = 0 /\ blk' = b
        /\ held' = [held EXCEPT ![AddressOf(cur)] = @ + 1]
        /\ pc' = "idle" /\ cur' = HR /\ want' = Nothing /\ list' = 0
        /\ left' = <<>> /\ split' = FALSE
    BY <1>8 DEF DeliverValue, BackToIdle
  <2>2. held' \in [Addresses -> Nat]
    <3>1. held \in [Addresses -> Nat] /\ AddressOf(cur) \in Addresses
      BY <1>1, <1>3
    <3> QED
      BY <2>1, <3>1, OneMoreHeld
  <2>3. TypeOK'
    BY <1>4, <1>5, <2>1, <2>2 DEF TypeOK
  <2> QED
    BY <1>4, <2>1, <2>3
<1> QED
  BY <1>6, <1>7, <1>8 DEF Deliver

\* The invariant's parts put together again.
LEMMA Reassemble ==
    ASSUME TypeOK', Tiling', HeadersWithin', pc' \in {"fill", "idle"},
           fr' = "OK", hp' < sp', want'.mType = "LST_NULL",
           pc' = "idle" => list' = 0,
           pc' = "fill" => /\ list' # 0 /\ list' \in DOMAIN blk'
                           /\ blk'[list'].mType = "LST_LIST"
    PROVE  IInv'
BY DEF IInv, Layout, HeadersWithin, Building

\* A free block is taken whole.  It is not the sentinel, which is too large
\* for that, so the header behind it bounds it.
LEMMA PlaceWholeStep ==
    ASSUME IInv, PlaceWhole
    PROVE  IInv'
<1> USE ConstantFacts
<1>1. /\ pc = "walk" /\ ~Live(cur) /\ ~SplitFits(cur) /\ WholeFits(cur)
      /\ Deliver(Taken, FALSE) /\ hp' = hp /\ sp' = sp /\ fr' = fr
  BY DEF PlaceWhole
<1>2. /\ fr = "OK" /\ hp < sp /\ hp \in 0 .. TM /\ sp \in 0 .. TM - 1
      /\ HR \in DOMAIN blk /\ cur \in DOMAIN blk
      /\ DOMAIN blk \subseteq HR .. HeapEnd /\ blk \in [DOMAIN blk -> Blocks]
      /\ want.mType \in {"LST_DATA", "LST_LIST"} /\ want.mSize \in Nat
      /\ want.mSize + 11 <= TM
      /\ cur = HR \/ cur + want.mSize + 14 < sp
      /\ Building <=> list # 0
      /\ list # 0 => list \in DOMAIN blk /\ Live(list)
      /\ want.mType = "LST_LIST" => list = 0
  BY <1>1, WalkFacts
<1>3. PICK c \in Nat : c = cur
  BY <1>2, HeaderFacts
<1>4. PICK b : b = Taken
  OBVIOUS
<1>5. /\ c \in DOMAIN blk /\ blk[c].mSize \in Nat /\ Next(c) = c + 7 + blk[c].mSize
      /\ blk[c].mSize < want.mSize + 11
  BY <1>1, <1>2, <1>3, HeaderFacts DEF SplitFits
<1>6. /\ DOMAIN b = DOMAIN blk
      /\ b[c] = Block(want.mType, blk[c].mSize, 1)
      /\ \A o \in DOMAIN blk : o # c => b[o] = blk[o]
  BY <1>3, <1>4, <1>5 DEF Taken, PutBlock
<1>7. b[c] \in Blocks /\ b[c].mSize = blk[c].mSize /\ b[c].mType = want.mType
  BY <1>2, <1>5, <1>6, BlockTyped DEF Kinds, Counts
<1>8. b \in [DOMAIN b -> Blocks]
  BY <1>2, <1>4, <1>6, <1>7 DEF Taken, PutBlock
<1>9. list # 0 => list \in DOMAIN b /\ list # c /\ b[list].mType = "LST_LIST"
  BY <1>1, <1>2, <1>3, <1>6 DEF IInv, Layout
<1>10. /\ TypeOK'
       /\ DOMAIN blk' = DOMAIN b
       /\ \A o \in DOMAIN b : /\ blk'[o].mSize = b[o].mSize
                              /\ blk'[o].mType = b[o].mType
       /\ pc' \in {"fill", "idle"} /\ want'.mType = "LST_NULL"
       /\ pc' = "fill" => /\ list' # 0 /\ list' \in DOMAIN blk'
                          /\ blk'[list'].mType = "LST_LIST"
       /\ \/ list = 0 /\ pc' = "fill" /\ list' = c /\ split' = FALSE
          \/ list # 0 /\ pc' = "fill" /\ list' = list /\ split' = split
          \/ list = 0 /\ pc' = "idle" /\ list' = 0
  BY <1>1, <1>2, <1>3, <1>4, <1>6, <1>7, <1>8, <1>9, DeliverStep
<1>11. ASSUME NEW o \in DOMAIN blk
       PROVE  /\ Next(o)' = Next(o) /\ o \in Nat /\ Next(o) \in Nat
              /\ o # c => (Live(o)' <=> Live(o))
  <2>1. blk'[o].mSize = blk[o].mSize /\ (o # c => blk'[o].mType = blk[o].mType)
    BY <1>6, <1>7, <1>10
  <2> QED
    BY <2>1, HeaderFacts DEF Next, Live
<1>12. Tiling'
  BY <1>6, <1>10, <1>11, <1>2 DEF IInv, Tiling
<1>13. Next(c) # HeapEnd
  BY <1>2, <1>3, <1>5
<1>14. Next(c) <= hp
  <2>1. Next(c) \in DOMAIN blk
    BY <1>2, <1>5, <1>13 DEF IInv, Tiling
  <2>2. Next(c) + 7 <= hp \/ HeaderDue(Next(c))
    BY <1>2, <2>1 DEF IInv, Layout
  <2>3. ASSUME HeaderDue(Next(c)) PROVE FALSE
    <3>1. list \in DOMAIN blk /\ list # c /\ Next(c) = Next(list)
      BY <1>2, <1>9, <2>3 DEF HeaderDue
    <3>2. /\ list < c => Next(list) <= c
          /\ c < list => Next(c) <= list
      BY <1>2, <1>5, <3>1 DEF IInv, Tiling
    <3>3. list \in Nat /\ list < Next(list) /\ c < Next(c) /\ Next(c) \in Nat
      BY <1>5, <3>1, HeaderFacts
    <3> QED
      BY <3>1, <3>2, <3>3
  <2> QED
    BY <1>2, <1>5, <2>2, <2>3
<1>15. HeadersWithin'
  <2>1. ASSUME NEW o \in DOMAIN blk'
        PROVE  /\ Live(o)' => Next(o)' # HeapEnd
               /\ o + SIZEOF_SCRIPT_ALLOC_ENTRY <= hp' \/ HeaderDue(o)'
               /\ Live(o)' => Next(o)' <= hp' \/ (Building' /\ split' /\ o = list')
    <3>1. /\ o \in DOMAIN blk /\ o \in Nat
          /\ Live(o) => Next(o) # HeapEnd
          /\ o + 7 <= hp \/ HeaderDue(o)
          /\ Live(o) => Next(o) <= hp \/ (Building /\ split /\ o = list)
      BY <1>2, <1>6, <1>10, <1>11 DEF IInv, Layout
    <3>2. Building => Building' /\ list' = list /\ split' = split
      BY <1>2, <1>10 DEF Building
    <3>3. HeaderDue(o) => HeaderDue(o)'
      BY <1>2, <1>11, <3>2 DEF HeaderDue
    <3> QED
      BY <1>1, <1>11, <1>13, <1>14, <3>1, <3>2, <3>3
  <2> QED
    BY <2>1 DEF HeadersWithin
<1> QED
  BY <1>1, <1>2, <1>10, <1>12, <1>15, Reassemble

\* What lsa_split_block leaves: the data's block and, between it and the old
\* block's end, a free one with a header where no header was.
LEMMA CarvedFacts ==
    ASSUME IInv, pc = "walk", ~Live(cur), SplitFits(cur)
    PROVE  /\ RestOf(cur) \in Nat /\ RestOf(cur) = cur + 7 + want.mSize
           /\ RestOf(cur) + 11 <= Next(cur) /\ RestOf(cur) < HeapEnd
           /\ RestOf(cur) \notin DOMAIN blk
           /\ DOMAIN Carved = DOMAIN blk \cup {RestOf(cur)}
           /\ DOMAIN Carved \subseteq HR .. HeapEnd
           /\ Carved \in [DOMAIN Carved -> Blocks]
           /\ Carved[cur].mSize = want.mSize
           /\ Carved[cur].mType = want.mType
           /\ Carved[RestOf(cur)].mSize = blk[cur].mSize - 7 - want.mSize
           /\ Carved[RestOf(cur)].mType = "LST_NULL"
           /\ \A o \in DOMAIN blk \ {cur} : Carved[o] = blk[o]
<1> USE ConstantFacts
<1>1. /\ fr = "OK" /\ cur \in DOMAIN blk
      /\ DOMAIN blk \subseteq HR .. HeapEnd /\ blk \in [DOMAIN blk -> Blocks]
      /\ want.mType \in {"LST_DATA", "LST_LIST"} /\ want.mSize \in Nat
  BY WalkFacts
<1>2. /\ cur \in Nat /\ HR <= cur /\ blk[cur].mSize \in Nat
      /\ Next(cur) \in Nat /\ Next(cur) = cur + 7 + blk[cur].mSize
      /\ blk[cur].mSize >= want.mSize + 11
  BY <1>1, HeaderFacts DEF SplitFits
<1>3. PICK r \in Nat : r = RestOf(cur) /\ r = cur + 7 + want.mSize
  BY <1>1, <1>2 DEF RestOf
<1>4. r + 11 <= Next(cur) /\ cur < r
  BY <1>1, <1>2, <1>3
<1>5. r < HeapEnd
  <2>1. Next(cur) \in DOMAIN blk \cup {HeapEnd}
    BY <1>1 DEF IInv, Tiling
  <2>2. Next(cur) <= HeapEnd
    BY <1>1, <2>1
  <2> QED
    BY <1>2, <1>4, <2>2
<1>6. r \notin DOMAIN blk
  <2>1. \A o \in DOMAIN blk : cur < o => Next(cur) <= o
    BY <1>1 DEF IInv, Tiling
  <2> QED
    BY <1>2, <1>3, <1>4, <2>1
<1>7. DOMAIN Carved = DOMAIN blk \cup {r}
  BY <1>3 DEF Carved
<1>8. DOMAIN Carved \subseteq HR .. HeapEnd
  BY <1>1, <1>2, <1>4, <1>5, <1>7
<1>9. /\ Carved[cur] = Block(want.mType, want.mSize, 1)
      /\ Carved[r] = Block("LST_NULL", blk[cur].mSize - 7 - want.mSize, 0)
      /\ \A o \in DOMAIN blk \ {cur} : Carved[o] = blk[o]
  <2>1. r # cur
    BY <1>2, <1>4
  <2> QED
    BY <1>1, <1>3, <1>6, <2>1 DEF Carved
<1>10. /\ want.mType \in Kinds /\ "LST_NULL" \in Kinds
       /\ 0 \in Counts /\ 1 \in Counts
       /\ blk[cur].mSize - 7 - want.mSize \in Nat
  BY <1>1, <1>2 DEF Kinds, Counts
<1>11. /\ Carved[cur] \in Blocks /\ Carved[cur].mSize = want.mSize
       /\ Carved[cur].mType = want.mType
  BY <1>1, <1>9, <1>10, BlockTyped
<1>12. /\ Carved[r] \in Blocks
       /\ Carved[r].mSize = blk[cur].mSize - 7 - want.mSize
       /\ Carved[r].mType = "LST_NULL"
  BY <1>9, <1>10, BlockTyped
<1>13. Carved \in [DOMAIN Carved -> Blocks]
  <2>1. ASSUME NEW o \in DOMAIN Carved PROVE Carved[o] \in Blocks
    BY <1>1, <1>7, <1>9, <1>11, <1>12
  <2>2. Carved = [o \in DOMAIN Carved |-> Carved[o]]
    BY DEF Carved
  <2> QED
    BY <2>1, <2>2
<1> QED
  BY <1>3, <1>4, <1>5, <1>6, <1>7, <1>8, <1>9, <1>11, <1>12, <1>13

\* Where the headers are after a block was carved and delivered: the block
\* ends at the rest, the rest where the block used to end, and no other moves.
LEMMA CarvedOrder ==
    ASSUME IInv, pc = "walk", ~Live(cur), SplitFits(cur),
           NEW c \in Nat, c = cur, NEW r \in Nat, r = RestOf(cur),
           DOMAIN blk' = DOMAIN Carved,
           \A o \in DOMAIN Carved : /\ blk'[o].mSize = Carved[o].mSize
                                    /\ blk'[o].mType = Carved[o].mType
    PROVE  /\ Next(c)' = r /\ Next(r)' = Next(c) /\ ~Live(r)'
           /\ \A o \in DOMAIN blk \ {c} :
                Next(o)' = Next(o) /\ (Live(o)' <=> Live(o))
           /\ Tiling'
<1> USE ConstantFacts
<1>1. /\ r = c + 7 + want.mSize /\ r + 11 <= Next(c) /\ r < HeapEnd
      /\ r \notin DOMAIN blk /\ DOMAIN blk' = DOMAIN blk \cup {r}
      /\ Carved[c].mSize = want.mSize
      /\ Carved[r].mSize = blk[c].mSize - 7 - want.mSize
      /\ Carved[r].mType = "LST_NULL"
      /\ \A o \in DOMAIN blk \ {c} : Carved[o] = blk[o]
  BY CarvedFacts
<1>2. fr = "OK" /\ HR \in DOMAIN blk /\ c \in DOMAIN blk /\ want.mSize \in Nat
  BY WalkFacts
<1>3. ASSUME NEW o \in DOMAIN blk
      PROVE  /\ Next(o) \in DOMAIN blk \cup {HeapEnd}
             /\ \A p \in DOMAIN blk : o < p => Next(o) <= p
             /\ o \in Nat /\ Next(o) \in Nat /\ o < Next(o)
             /\ Next(o) = o + 7 + blk[o].mSize /\ blk[o].mSize \in Nat
  <2>1. /\ Next(o) \in DOMAIN blk \cup {HeapEnd}
        /\ \A p \in DOMAIN blk : o < p => Next(o) <= p
    BY <1>2 DEF IInv, Tiling
  <2> QED
    BY <2>1, HeaderFacts
<1>4. Next(c)' = r
  BY <1>1, <1>2 DEF Next
<1>5. Next(r)' = Next(c) /\ ~Live(r)'
  <2>1. blk'[r].mSize = blk[c].mSize - 7 - want.mSize /\ blk'[r].mType = "LST_NULL"
    BY <1>1
  <2>2. Next(r)' = r + 7 + blk'[r].mSize
    BY DEF Next
  <2> QED
    BY <1>1, <1>2, <1>3, <2>1, <2>2 DEF Live
<1>6. ASSUME NEW o \in DOMAIN blk \ {c}
      PROVE  Next(o)' = Next(o) /\ (Live(o)' <=> Live(o))
  <2>1. blk'[o].mSize = blk[o].mSize /\ blk'[o].mType = blk[o].mType
    BY <1>1
  <2> QED
    BY <2>1 DEF Next, Live
<1>7. ASSUME NEW o \in DOMAIN blk'
      PROVE  /\ Next(o)' \in DOMAIN blk' \cup {HeapEnd}
             /\ \A p \in DOMAIN blk' : o < p => Next(o)' <= p
  <2>1. CASE o = c
    BY <1>1, <1>2, <1>3, <1>4, <2>1
  <2>2. CASE o = r
    <3>1. ASSUME NEW p \in DOMAIN blk', r < p PROVE Next(c) <= p
      BY <1>1, <1>2, <1>3, <3>1
    <3> QED
      BY <1>1, <1>2, <1>3, <1>5, <2>2, <3>1
  <2>3. CASE o # c /\ o # r
    <3>1. o \in DOMAIN blk \ {c} /\ Next(o)' = Next(o)
      BY <1>1, <1>6, <2>3
    <3>2. o < r => Next(o) <= r
      BY <1>1, <1>2, <1>3, <3>1
    <3> QED
      BY <1>1, <1>3, <3>1, <3>2
  <2> QED
    BY <2>1, <2>2, <2>3
<1>8. Tiling'
  <2>1. HR \in DOMAIN blk'
    BY <1>1, <1>2
  <2> QED
    BY <1>7, <2>1 DEF Tiling
<1> QED
  BY <1>4, <1>5, <1>6, <1>8

\* A block carved out of a larger one is delivered, or the heap is full.  The
\* header of the rest lies below HP, unless the data is a list: its HP check
\* is due when its elements are in.
LEMMA PlaceSplitStep ==
    ASSUME IInv, PlaceSplit
    PROVE  IInv'
<1> USE ConstantFacts
<1>1. /\ pc = "walk" /\ ~Live(cur) /\ SplitFits(cur) /\ sp' = sp
  BY DEF PlaceSplit
<1>2. /\ fr = "OK" /\ hp < sp /\ hp \in 0 .. TM /\ sp \in 0 .. TM - 1
      /\ cur \in DOMAIN blk
      /\ want.mType \in {"LST_DATA", "LST_LIST"} /\ want.mSize \in Nat
      /\ Building <=> list # 0
      /\ list # 0 => list \in DOMAIN blk /\ Live(list)
      /\ want.mType = "LST_LIST" => list = 0
      /\ held \in [Addresses -> Nat]
  BY <1>1, WalkFacts
<1>3. PICK c \in Nat : c = cur
  BY <1>2, HeaderFacts
<1>4. PICK r \in Nat : r = RestOf(cur)
  BY <1>1, CarvedFacts
<1>5. PICK b : b = Carved
  OBVIOUS
<1>6. /\ r = c + 7 + want.mSize /\ r + 11 <= Next(c) /\ r < HeapEnd
      /\ r \notin DOMAIN blk /\ DOMAIN b = DOMAIN blk \cup {r}
      /\ DOMAIN b \subseteq HR .. HeapEnd /\ b \in [DOMAIN b -> Blocks]
      /\ b[c].mType = want.mType
      /\ \A o \in DOMAIN blk \ {c} : b[o] = blk[o]
  BY <1>1, <1>3, <1>4, <1>5, CarvedFacts
<1>7. NewHP(cur, want.mSize) = r + 7
  BY <1>2, <1>3, <1>6 DEF NewHP
<1>8. list # 0 => list \in DOMAIN b /\ list # c /\ b[list].mType = "LST_LIST"
  BY <1>1, <1>2, <1>3, <1>6 DEF IInv, Layout
<1>0. CASE RestIsOutside
  <2>1. /\ blk' = PutBlock(cur, Block(want.mType, want.mSize, 1))
        /\ Fault("LSRF_BOUND_CHECK_ERROR") /\ held' = held
    BY <1>0 DEF PlaceSplit, SplitOutside
  <2>2. "LSRF_BOUND_CHECK_ERROR" \in Faults \ {"OK"}
    BY DEF Faults
  <2>3. Block(want.mType, want.mSize, 1) \in Blocks
    BY <1>2, ConstantFacts DEF Block, Blocks, Kinds, Counts
  <2>4. /\ DOMAIN blk' \subseteq HR .. HeapEnd /\ blk' \in [DOMAIN blk' -> Blocks]
    <3>1. DOMAIN blk \subseteq HR .. HeapEnd /\ blk \in [DOMAIN blk -> Blocks]
      BY <1>1, WalkFacts
    <3> QED
      BY <1>2, <2>1, <2>3, <3>1 DEF PutBlock
  <2> QED
    BY <1>1, <1>2, <2>1, <2>2, <2>4, FaultStep
<1>9. CASE ~RestIsOutside /\ want.mType # "LST_LIST" /\ Full(NewHP(cur, want.mSize))
  <2>1. blk' = b /\ Fault("LSRF_STACK_HEAP_COLLISION") /\ held' = held
    BY <1>5, <1>9 DEF PlaceSplit, SplitInside
  <2>2. "LSRF_STACK_HEAP_COLLISION" \in Faults \ {"OK"}
    BY DEF Faults
  <2> QED
    BY <1>1, <1>2, <1>6, <2>1, <2>2, FaultStep
<1>10. CASE ~RestIsOutside /\ ~(want.mType # "LST_LIST" /\ Full(NewHP(cur, want.mSize)))
  <2>1. PICK carved \in BOOLEAN :
          /\ carved <=> want.mType = "LST_LIST"
          /\ Deliver(b, carved) /\ fr' = fr
          /\ hp' = IF carved THEN hp ELSE Max2(hp, r + 7)
    <3>1. CASE want.mType = "LST_LIST"
      BY <1>5, <1>10, <3>1 DEF PlaceSplit, SplitInside
    <3>2. CASE want.mType # "LST_LIST"
      BY <1>5, <1>7, <1>10, <3>2 DEF PlaceSplit, SplitInside
    <3> QED
      BY <3>1, <3>2
  <2>2. /\ hp' \in 0 .. TM /\ hp <= hp' /\ hp' < sp
        /\ ~carved => r + 7 <= hp'
    <3>1. ~carved => r + 7 < sp
      BY <1>2, <1>7, <1>10, <2>1 DEF Full
    <3>2. hp \in Nat /\ sp \in Nat /\ sp <= TM - 1 /\ hp < sp
      BY <1>2
    <3> QED
      BY <2>1, <3>1, <3>2 DEF Max2
  <2>3. /\ TypeOK'
        /\ DOMAIN blk' = DOMAIN b
        /\ \A o \in DOMAIN b : /\ blk'[o].mSize = b[o].mSize
                               /\ blk'[o].mType = b[o].mType
        /\ pc' \in {"fill", "idle"} /\ want'.mType = "LST_NULL"
        /\ pc' = "fill" => /\ list' # 0 /\ list' \in DOMAIN blk'
                           /\ blk'[list'].mType = "LST_LIST"
        /\ \/ list = 0 /\ pc' = "fill" /\ list' = c /\ split' = carved
           \/ list # 0 /\ pc' = "fill" /\ list' = list /\ split' = split
           \/ list = 0 /\ pc' = "idle" /\ list' = 0
    BY <1>1, <1>2, <1>3, <1>6, <1>8, <2>1, <2>2, DeliverStep
  <2>4. carved => pc' = "fill" /\ list' = c /\ split' = TRUE /\ list = 0
    BY <1>2, <1>3, <2>1 DEF Deliver, DeliverList, DeliverElement, DeliverValue
  <2>5. /\ Next(c)' = r /\ Next(r)' = Next(c) /\ ~Live(r)'
        /\ \A o \in DOMAIN blk \ {c} :
             Next(o)' = Next(o) /\ (Live(o)' <=> Live(o))
        /\ Tiling'
    BY <1>1, <1>3, <1>4, <1>5, <2>3, CarvedOrder
  <2>6. HeadersWithin'
    <3>1. ASSUME NEW o \in DOMAIN blk'
          PROVE  /\ Live(o)' => Next(o)' # HeapEnd
                 /\ o + SIZEOF_SCRIPT_ALLOC_ENTRY <= hp' \/ HeaderDue(o)'
                 /\ Live(o)' => Next(o)' <= hp'
                                  \/ (Building' /\ split' /\ o = list')
      <4>1. Building => Building' /\ list' = list /\ split' = split /\ list # 0
        BY <1>2, <2>3 DEF Building
      <4>2. carved => Building' /\ list' = c /\ split' = TRUE
        BY <1>2, <1>3, <2>3, <2>4, HeaderFacts DEF Building
      <4>3. CASE o = r
        <5>1. carved => HeaderDue(o)'
          BY <2>5, <4>2, <4>3 DEF HeaderDue
        <5> QED
          BY <2>2, <2>5, <4>3, <5>1
      <4>4. ASSUME o # r
            PROVE  /\ o \in DOMAIN blk /\ o \in Nat
                   /\ Live(o) => Next(o) # HeapEnd
                   /\ o + 7 <= hp' \/ HeaderDue(o)'
                   /\ Live(o) => Next(o) <= hp
                                   \/ (Building /\ split /\ o = list)
        <5>1. o \in DOMAIN blk
          BY <1>6, <2>3, <4>4
        <5>2. /\ o \in Nat
              /\ Live(o) => Next(o) # HeapEnd
              /\ o + 7 <= hp \/ HeaderDue(o)
              /\ Live(o) => Next(o) <= hp
                              \/ (Building /\ split /\ o = list)
          BY <1>2, <5>1, HeaderFacts DEF IInv, Layout
        <5>3. HeaderDue(o) => HeaderDue(o)'
          <6>1. Building => Next(list)' = Next(list)
            <7>1. Building => list \in DOMAIN blk \ {c} /\ list' = list
              BY <1>2, <1>8, <4>1
            <7>2. \A p \in DOMAIN blk \ {c} : (Next(p))' = Next(p)
              BY <2>5
            <7>3. Next(list)' = (list' + SIZEOF_SCRIPT_ALLOC_ENTRY + blk'[list'].mSize)
              BY DEF Next
            <7>4. \A p \in DOMAIN blk \ {c} :
                    p + SIZEOF_SCRIPT_ALLOC_ENTRY + blk'[p].mSize = Next(p)
              BY <7>2 DEF Next
            <7> QED
              BY <7>1, <7>3, <7>4
          <6> QED
            BY <4>1, <6>1 DEF HeaderDue
        <5>4. hp \in Nat /\ hp' \in Nat
          BY <1>2, <2>2
        <5> QED
          BY <2>2, <5>1, <5>2, <5>3, <5>4
      <4>5. CASE o = c
        BY <1>6, <2>2, <2>5, <4>2, <4>4, <4>5
      <4>6. CASE o # r /\ o # c
        <5>1. Next(o)' = Next(o) /\ (Live(o)' <=> Live(o))
          BY <2>5, <4>4, <4>6
        <5>2. Next(o) \in Nat /\ hp \in Nat /\ hp' \in Nat
          BY <1>2, <2>2, <4>4, <4>6, HeaderFacts
        <5> QED
          BY <2>2, <4>1, <4>4, <4>6, <5>1, <5>2
      <4> QED
        BY <4>3, <4>5, <4>6
    <3> QED
      BY <3>1 DEF HeadersWithin
  <2> QED
    BY <1>1, <1>2, <2>1, <2>2, <2>3, <2>5, <2>6, Reassemble
<1> QED
  BY <1>0, <1>9, <1>10

----------------------------------------------------------------------------
\* The invariant and what it gives.

\* Every step of every operation on the heap preserves IInv.
THEOREM Invariance == IInv /\ [HeapNext]_vars => IInv'
<1> SUFFICES ASSUME IInv, [HeapNext]_vars PROVE IInv'
  OBVIOUS
<1>1. CASE Client
  <2>1. ASSUME NEW n \in ScalarSizes, AddScalar(n) PROVE IInv'
    BY <2>1, AddScalarStep
  <2>2. ASSUME NEW shape \in ListShapes, AddList(shape) PROVE IInv'
    BY <2>2, AddListStep
  <2>3. ASSUME NEW a \in Addresses \cup {0}, IncreaseRefCount(a) PROVE IInv'
    BY <2>3, IncreaseStep
  <2>4. ASSUME NEW a \in Addresses, DecreaseRefCount(a) PROVE IInv'
    BY <2>4, DecreaseStep
  <2>5. ASSUME NEW a \in Addresses, DropList(a) PROVE IInv'
    BY <2>5, DropListStep
  <2>6. ASSUME NEW s \in StackTops, SetSP(s) PROVE IInv'
    BY <2>6, SetSPStep
  <2> QED
    BY <1>1, <2>1, <2>2, <2>3, <2>4, <2>5, <2>6 DEF Client
<1>2. CASE Working
  BY <1>2, PlaceSplitStep, PlaceWholeStep, AdvanceStep, AddElementStep,
     FinishListStep, DropElementStep, FinishDropStep DEF Working
<1>3. CASE UNCHANGED vars
  BY <1>3 DEF vars, heapVars, workVars, IInv, TypeOK, Tiling, Layout, Next,
              Live, Building, HeaderDue, NewHP
<1> QED
  BY <1>1, <1>2, <1>3 DEF HeapNext

\* The invariant holds in every state of every script.
THEOREM AlwaysIInv == Spec => []IInv
<1>1. Init => IInv
  BY InitIInv
<1>2. IInv /\ [HeapNext]_vars => IInv'
  BY Invariance
<1> QED
  BY <1>1, <1>2, PTL DEF Spec

\* Every variable keeps its type: registers within memory, headers within the
\* heap, counts within 16 bits.
THEOREM TypeCorrect == Spec => []TypeOK
<1>1. IInv => TypeOK
  BY DEF IInv
<1> QED
  BY <1>1, AlwaysIInv, PTL

\* Splitting and merging in place never lose the chain of headers.
THEOREM Tiled == Spec => []Tiling
<1>1. IInv => Tiling
  BY DEF IInv
<1> QED
  BY <1>1, AlwaysIInv, PTL

\* The walk stands on a header, and headers and data stay where HP says.
THEOREM LaidOut == Spec => []Layout
<1>1. IInv => Layout
  BY DEF IInv
<1> QED
  BY <1>1, AlwaysIInv, PTL

\* No allocation writes into the stack, and no push into a block in use.
THEOREM BelowStack == Spec => []HeapBelowStack
<1>1. IInv => HeapBelowStack
  BY DEF IInv, Layout, HeapBelowStack
<1> QED
  BY <1>1, AlwaysIInv, PTL

\* Between two operations a saved state holds every header and every block in
\* use.
THEOREM SavedHeapIsWhole == Spec => []SavedWhole
<1>1. IInv => SavedWhole
  BY DEF IInv, Layout, SavedWhole, HeaderDue, Building
<1> QED
  BY <1>1, AlwaysIInv, PTL

----------------------------------------------------------------------------
\* References.

\* What the script holds is in use, has the count it is held with, and is in
\* no list.
HeldRight ==
    \A a \in Addresses : held[a] > 0 =>
      /\ OffsetOf(a) \in DOMAIN blk /\ Live(OffsetOf(a))
      /\ blk[OffsetOf(a)].mReferenceCount = held[a] /\ held[a] <= MaxRefs
      /\ ~(Building /\ OffsetOf(a) = list)
      /\ \A l \in DOMAIN blk : Live(l) =>
           \A i \in 1 .. Len(blk[l].elems) : blk[l].elems[i] # a

\* What a list in use names is in use, with one reference.
ElementsRight ==
    \A l \in DOMAIN blk : Live(l) =>
      /\ blk[l].mType = "LST_DATA" => blk[l].elems = <<>>
      /\ \A i \in 1 .. Len(blk[l].elems) :
           /\ OffsetOf(blk[l].elems[i]) \in DOMAIN blk
           /\ blk[OffsetOf(blk[l].elems[i])].mType = "LST_DATA"
           /\ blk[OffsetOf(blk[l].elems[i])].mReferenceCount = 1

\* No two entries of lists in use are the same.
OneList ==
    \A l, m \in DOMAIN blk : Live(l) /\ Live(m) =>
      \A i \in 1 .. Len(blk[l].elems), j \in 1 .. Len(blk[m].elems) :
        blk[l].elems[i] = blk[m].elems[j] => l = m /\ i = j

\* What is in use is held, in a list, or the list being filled.
NoneLost ==
    \A o \in DOMAIN blk : Live(o) =>
      /\ AddressOf(o) \in Addresses
      /\ \/ held[AddressOf(o)] > 0
         \/ \E l \in DOMAIN blk : Live(l) /\
              \E i \in 1 .. Len(blk[l].elems) : blk[l].elems[i] = AddressOf(o)
         \/ Building /\ o = list

\* The list being filled or dropped has one reference.
ListRight ==
    /\ Building => blk[list].mReferenceCount = 1
    /\ pc = "drop" => /\ list \in DOMAIN blk /\ blk[list].mType = "LST_LIST"
                      /\ blk[list].mReferenceCount = 1 /\ AddressOf(list) \in Addresses

RInv == fr = "OK" => HeldRight /\ ElementsRight /\ OneList /\ NoneLost /\ ListRight

\* Addresses and offsets.
LEMMA AddressFacts ==
    /\ \A a \in Addresses : OffsetOf(a) \in Nat /\ OffsetOf(a) >= HR
                            /\ AddressOf(OffsetOf(a)) = a
    /\ \A o \in Nat : OffsetOf(AddressOf(o)) = o
BY ConstantFacts DEF Addresses, AddressOf, OffsetOf

LEMMA CountsFollow == IInv /\ RInv => CountsExact /\ NoDangling
<1> SUFFICES ASSUME IInv, RInv, fr = "OK" PROVE CountsExact /\ NoDangling
  BY DEF CountsExact, NoDangling
<1>1. HeldRight /\ ElementsRight /\ OneList /\ NoneLost /\ ListRight
  BY DEF RInv
<1>2. held \in [Addresses -> Nat]
  BY DEF IInv, TypeOK
<1>3. ASSUME NEW o \in DOMAIN blk, Live(o)
      PROVE  blk[o].mReferenceCount = References(o) /\ References(o) > 0
  <2>1. /\ o \in Nat /\ AddressOf(o) \in Addresses /\ OffsetOf(AddressOf(o)) = o
        /\ held[AddressOf(o)] \in Nat /\ o > 0
    BY <1>1, <1>2, <1>3, HeaderFacts, AddressFacts, ConstantFacts DEF NoneLost
  <2>2. pc \in {"fill", "walk"} /\ o = list <=> Building /\ o = list
    BY <2>1 DEF Building
  <2>3. IsElement(o) <=>
          \E l \in DOMAIN blk : Live(l) /\
            \E i \in 1 .. Len(blk[l].elems) : blk[l].elems[i] = AddressOf(o)
    BY DEF IsElement, ElementsOf
  <2>4. CASE held[AddressOf(o)] > 0
    <3>1. /\ blk[o].mReferenceCount = held[AddressOf(o)]
          /\ ~(Building /\ o = list) /\ ~IsElement(o)
      BY <1>1, <2>1, <2>3, <2>4 DEF HeldRight
    <3> QED
      BY <2>1, <2>2, <2>4, <3>1 DEF References
  <2>5. CASE held[AddressOf(o)] = 0 /\ IsElement(o)
    <3>1. blk[o].mType = "LST_DATA" /\ blk[o].mReferenceCount = 1
      BY <1>1, <2>1, <2>3, <2>5 DEF ElementsRight
    <3>2. ~(Building /\ o = list)
      BY <3>1 DEF IInv, Layout
    <3> QED
      BY <2>2, <2>5, <3>1, <3>2 DEF References
  <2>6. CASE held[AddressOf(o)] = 0 /\ ~IsElement(o)
    <3>1. Building /\ o = list
      BY <1>1, <1>3, <2>3, <2>6 DEF NoneLost
    <3>2. blk[o].mReferenceCount = 1
      BY <1>1, <3>1 DEF ListRight
    <3> QED
      BY <2>2, <2>6, <3>1, <3>2 DEF References
  <2> QED
    BY <2>1, <2>4, <2>5, <2>6
<1>4. CountsExact
  BY <1>3 DEF CountsExact
<1>5. NoDangling
  BY <1>1 DEF NoDangling, HeldRight, ElementsRight, ElementsOf
<1> QED
  BY <1>4, <1>5

----------------------------------------------------------------------------
LEMMA InitRInv == Init => RInv
<1> SUFFICES ASSUME Init PROVE RInv
  OBVIOUS
<1> USE ConstantFacts
<1>1. /\ DOMAIN blk = DOMAIN Statics \cup {SentinelAt}
      /\ blk[SentinelAt].mType = "LST_NULL"
      /\ SentinelAt \notin DOMAIN Statics
      /\ \A o \in DOMAIN Statics : blk[o] = Statics[o]
      /\ pc = "idle" /\ list = 0 /\ ~Building
  <2>1. SentinelAt \notin DOMAIN Statics
    BY StaticsAssumption
  <2> QED
    BY <2>1 DEF Init, Block, Building
<1>2. ASSUME NEW o \in DOMAIN Statics
      PROVE  /\ o \in Nat /\ HR <= o /\ o < SentinelAt /\ AddressOf(o) \in Addresses
             /\ OffsetOf(AddressOf(o)) = o
             /\ Statics[o].mType \in {"LST_DATA", "LST_LIST"}
             /\ Statics[o].mReferenceCount = 1
  <2>1. o \in Nat /\ HR <= o /\ o < SentinelAt
    BY <1>2, StaticsAssumption
  <2>2. Statics[o].mType \in {"LST_DATA", "LST_LIST"} /\ Statics[o].mReferenceCount = 1
    BY StaticsAssumption
  <2> QED
    BY <2>1, <2>2 DEF AddressOf, OffsetOf, Addresses
<1>3. \A o \in DOMAIN blk : Live(o) <=> o \in DOMAIN Statics
  BY <1>1, <1>2 DEF Live
<1>4. \A a \in Addresses :
        held[a] = IF OffsetOf(a) \in DOMAIN Statics /\ a \notin StaticElements THEN 1 ELSE 0
  BY DEF Init
<1>5. \A a : a \in StaticElements <=>
        \E l \in DOMAIN Statics : \E i \in 1 .. Len(Statics[l].elems) : Statics[l].elems[i] = a
  BY DEF StaticElements
<1>6. HeldRight
  BY <1>1, <1>2, <1>3, <1>4, <1>5, HeapAssumption DEF HeldRight
<1>7. ElementsRight
  BY <1>1, <1>2, <1>3, StaticListsAssumption DEF ElementsRight
<1>8. OneList
  BY <1>1, <1>2, <1>3, StaticListsAssumption DEF OneList
<1>9. NoneLost
  <2> SUFFICES ASSUME NEW o \in DOMAIN blk, Live(o)
               PROVE  /\ AddressOf(o) \in Addresses
                      /\ \/ held[AddressOf(o)] > 0
                         \/ \E l \in DOMAIN blk : Live(l) /\
                              \E i \in 1 .. Len(blk[l].elems) :
                                blk[l].elems[i] = AddressOf(o)
    BY DEF NoneLost
  <2>1. o \in DOMAIN Statics /\ AddressOf(o) \in Addresses /\ OffsetOf(AddressOf(o)) = o
    BY <1>2, <1>3
  <2>2. CASE AddressOf(o) \in StaticElements
    BY <1>1, <1>3, <1>5, <2>1, <2>2
  <2>3. CASE AddressOf(o) \notin StaticElements
    BY <1>4, <2>1, <2>3
  <2> QED
    BY <2>1, <2>2, <2>3
<1>10. ListRight
  BY <1>1 DEF ListRight
<1> QED
  BY <1>6, <1>7, <1>8, <1>9, <1>10 DEF RInv

----------------------------------------------------------------------------
\* A step that leaves blocks in use and references as they are.
LEMMA SameLive ==
    ASSUME RInv, fr = "OK",
           \A o : o \in DOMAIN blk' /\ blk'[o].mType # "LST_NULL" <=>
                  o \in DOMAIN blk /\ blk[o].mType # "LST_NULL",
           \A o \in DOMAIN blk : blk[o].mType # "LST_NULL" => blk'[o] = blk[o],
           held' = held, list' = list, Building' <=> Building,
           Building => list \in DOMAIN blk /\ Live(list),
           pc' = "drop" <=> pc = "drop"
    PROVE  RInv'
<1>1. HeldRight /\ ElementsRight /\ OneList /\ NoneLost /\ ListRight
  BY DEF RInv
<1>2. HeldRight'
  BY <1>1 DEF HeldRight, Live
<1>3. ElementsRight'
  BY <1>1 DEF ElementsRight, Live
<1>4. OneList'
  BY <1>1 DEF OneList, Live
<1>5. NoneLost'
  BY <1>1 DEF NoneLost, Live
<1>6. ListRight'
  BY <1>1 DEF ListRight, Live
<1> QED
  BY <1>2, <1>3, <1>4, <1>5, <1>6 DEF RInv

\* The script comes to hold n references to the block at a, and the header
\* says so; the last release frees it.
Counted(a, n) ==
    /\ fr = "OK" /\ fr' = "OK" /\ ~Building /\ ~Building' /\ pc' # "drop"
    /\ held[a] > 0 /\ n <= MaxRefs /\ held' = [held EXCEPT ![a] = n]
    /\ DOMAIN blk' = DOMAIN blk
    /\ \A x \in DOMAIN blk : x # OffsetOf(a) => blk'[x] = blk[x]
    /\ blk'[OffsetOf(a)].mReferenceCount = n
    /\ blk'[OffsetOf(a)].elems = blk[OffsetOf(a)].elems
    /\ blk'[OffsetOf(a)].mSize = blk[OffsetOf(a)].mSize
    /\ n # 0 => blk'[OffsetOf(a)].mType = blk[OffsetOf(a)].mType
    /\ n = 0 => /\ blk'[OffsetOf(a)].mType = "LST_NULL"
                /\ blk[OffsetOf(a)].elems = <<>>

\* One more or one less reference to a block the script holds; the block is
\* freed with the last one, which a list in use is not, nor an element.
LEMMA CountChanges ==
    ASSUME IInv, RInv, NEW a \in Addresses, NEW n \in Nat, Counted(a, n)
    PROVE  RInv'
<1>0. /\ fr = "OK" /\ ~Building /\ ~Building' /\ pc' # "drop"
      /\ held[a] > 0 /\ n <= MaxRefs /\ held' = [held EXCEPT ![a] = n]
      /\ DOMAIN blk' = DOMAIN blk
      /\ \A x \in DOMAIN blk : x # OffsetOf(a) => blk'[x] = blk[x]
      /\ blk'[OffsetOf(a)].mReferenceCount = n
      /\ blk'[OffsetOf(a)].elems = blk[OffsetOf(a)].elems
      /\ n # 0 => blk'[OffsetOf(a)].mType = blk[OffsetOf(a)].mType
      /\ n = 0 => /\ blk'[OffsetOf(a)].mType = "LST_NULL"
                  /\ blk[OffsetOf(a)].elems = <<>>
  BY DEF Counted
<1> USE <1>0
<1>1. HeldRight /\ ElementsRight /\ OneList /\ NoneLost
  BY DEF RInv
<1>2. held \in [Addresses -> Nat] /\ \A x \in DOMAIN blk : blk[x] \in Blocks
  BY HeaderFacts DEF IInv, TypeOK
<1>3. PICK o \in Nat : o = OffsetOf(a) /\ AddressOf(o) = a
  BY AddressFacts
<1>4. /\ o \in DOMAIN blk /\ blk[o].mType # "LST_NULL"
      /\ \A l \in DOMAIN blk : Live(l) =>
           \A i \in 1 .. Len(blk[l].elems) : blk[l].elems[i] # a
  BY <1>1, <1>3 DEF HeldRight, Live
<1>5. held \in [Addresses -> Nat] /\ \A b \in Addresses : OffsetOf(b) = o => b = a
  BY <1>2, <1>3, AddressFacts
<1>6. /\ \A b \in Addresses : held'[b] = IF b = a THEN n ELSE held[b]
      /\ held' \in [Addresses -> Nat]
  BY <1>5
<1>7. /\ \A x \in DOMAIN blk : blk'[x].elems = blk[x].elems
      /\ \A x \in DOMAIN blk : blk'[x].mType # "LST_NULL" => blk'[x].mType = blk[x].mType
      /\ n = 0 => blk[o].elems = <<>>
  BY <1>1, <1>3, <1>4 DEF ElementsRight, Live
<1>8. HeldRight'
  <2> SUFFICES ASSUME NEW b \in Addresses, held'[b] > 0
               PROVE  /\ OffsetOf(b) \in DOMAIN blk' /\ Live(OffsetOf(b))'
                      /\ blk'[OffsetOf(b)].mReferenceCount = held'[b] /\ held'[b] <= MaxRefs
                      /\ \A l \in DOMAIN blk' : Live(l)' =>
                           \A i \in 1 .. Len(blk'[l].elems) : blk'[l].elems[i] # b
    BY DEF HeldRight
  <2>1. held[b] > 0
    BY <1>6
  <2>2. /\ OffsetOf(b) \in DOMAIN blk' /\ Live(OffsetOf(b))
        /\ \A l \in DOMAIN blk : Live(l) =>
             \A i \in 1 .. Len(blk[l].elems) : blk[l].elems[i] # b
    BY <1>1, <2>1 DEF HeldRight
  <2>3. \A l \in DOMAIN blk' : Live(l)' =>
          \A i \in 1 .. Len(blk'[l].elems) : blk'[l].elems[i] # b
    BY <1>7, <2>2 DEF Live
  <2>4. CASE b = a
    BY <1>3, <1>4, <1>6, <2>2, <2>3, <2>4 DEF Live
  <2>5. CASE b # a
    <3>1. OffsetOf(b) # OffsetOf(a) /\ held'[b] = held[b]
      BY <1>3, <1>5, <1>6, <2>5
    <3> QED
      BY <1>1, <2>1, <2>2, <2>3, <3>1 DEF HeldRight, Live
  <2> QED
    BY <2>4, <2>5
<1>9. ElementsRight'
  <2> SUFFICES ASSUME NEW l \in DOMAIN blk', Live(l)'
               PROVE  /\ blk'[l].mType = "LST_DATA" => blk'[l].elems = <<>>
                      /\ \A i \in 1 .. Len(blk'[l].elems) :
                           /\ OffsetOf(blk'[l].elems[i]) \in DOMAIN blk'
                           /\ blk'[OffsetOf(blk'[l].elems[i])].mType = "LST_DATA"
                           /\ blk'[OffsetOf(blk'[l].elems[i])].mReferenceCount = 1
    BY DEF ElementsRight
  <2>1. l \in DOMAIN blk /\ Live(l) /\ blk'[l].elems = blk[l].elems
        /\ blk'[l].mType = blk[l].mType /\ blk[l].elems \in Seq(Addresses)
    BY <1>2, <1>7 DEF Live, Blocks
  <2>2. ASSUME NEW i \in 1 .. Len(blk[l].elems)
        PROVE  OffsetOf(blk[l].elems[i]) # OffsetOf(a)
    <3>1. blk[l].elems[i] \in Addresses /\ blk[l].elems[i] # a
      BY <1>4, <2>1
    <3> QED
      BY <1>3, <1>5, <3>1
  <2> QED
    BY <1>1, <2>1, <2>2 DEF ElementsRight
<1>10. OneList'
  BY <1>1, <1>7 DEF OneList, Live
<1>11. NoneLost'
  <2> SUFFICES ASSUME NEW x \in DOMAIN blk', Live(x)'
               PROVE  /\ AddressOf(x) \in Addresses
                      /\ \/ held'[AddressOf(x)] > 0
                         \/ \E l \in DOMAIN blk' : Live(l)' /\
                              \E i \in 1 .. Len(blk'[l].elems) :
                                blk'[l].elems[i] = AddressOf(x)
    BY DEF NoneLost
  <2>1. x \in DOMAIN blk /\ Live(x) /\ AddressOf(x) \in Addresses
    BY <1>1, <1>7 DEF Live, NoneLost
  <2>2. CASE held[AddressOf(x)] > 0
    <3>1. CASE AddressOf(x) = a
      <4>1. x = o /\ n # 0
        BY <1>3, <1>4, <2>1, <3>1, AddressFacts, HeaderFacts DEF Live
      <4> QED
        BY <1>6, <2>1, <3>1, <4>1
    <3>2. CASE AddressOf(x) # a
      BY <1>6, <2>1, <2>2, <3>2
    <3> QED
      BY <3>1, <3>2
  <2>3. CASE \E l \in DOMAIN blk : Live(l) /\
               \E i \in 1 .. Len(blk[l].elems) : blk[l].elems[i] = AddressOf(x)
    <3>1. PICK l \in DOMAIN blk : Live(l) /\
            \E i \in 1 .. Len(blk[l].elems) : blk[l].elems[i] = AddressOf(x)
      BY <2>3
    <3>2. blk[l].elems # <<>> /\ (n = 0 => l # o)
      BY <1>7, <3>1
    <3>3. Live(l)'
      BY <1>3, <3>1, <3>2 DEF Live
    <3> QED
      BY <1>7, <2>1, <3>1, <3>3
  <2> QED
    BY <1>1, <2>1, <2>2, <2>3 DEF NoneLost
<1> QED
  BY <1>8, <1>9, <1>10, <1>11 DEF RInv, ListRight

LEMMA IncreaseCounted ==
    ASSUME IInv, RInv, NEW a \in Addresses \cup {0}, IncreaseRefCount(a), InHeap(a)
    PROVE  a \in Addresses /\ held[a] + 1 \in Nat /\ Counted(a, held[a] + 1)
<1>1. /\ Idle
      /\ blk' = [blk EXCEPT ![OffsetOf(a)].mReferenceCount = S16(@ + 1)]
      /\ held' = [held EXCEPT ![a] = @ + 1]
      /\ UNCHANGED <<hp, sp, fr, workVars>>
  BY DEF IncreaseRefCount
<1>2. a \in Addresses /\ held[a] \in 1 .. MaxRefs - 1
  BY ConstantFacts DEF InHeap, OffsetOf, IncreaseRefCount
<1>3. /\ OffsetOf(a) \in DOMAIN blk /\ blk[OffsetOf(a)].mReferenceCount = held[a]
      /\ blk \in [DOMAIN blk -> Blocks]
  BY <1>1, <1>2, IdleFacts DEF RInv, HeldRight, Idle
<1>4. S16(held[a] + 1) = held[a] + 1 /\ held[a] + 1 \in Nat /\ held[a] + 1 <= MaxRefs
      /\ held[a] > 0
  BY <1>2, HeapAssumption DEF S16
<1>5. held' = [held EXCEPT ![a] = held[a] + 1]
  BY <1>1
<1>6. /\ DOMAIN blk' = DOMAIN blk
      /\ \A x \in DOMAIN blk : x # OffsetOf(a) => blk'[x] = blk[x]
      /\ blk'[OffsetOf(a)] = [blk[OffsetOf(a)] EXCEPT !.mReferenceCount = held[a] + 1]
  BY <1>1, <1>3, <1>4
<1>7. /\ blk'[OffsetOf(a)].mReferenceCount = held[a] + 1
      /\ blk'[OffsetOf(a)].elems = blk[OffsetOf(a)].elems
      /\ blk'[OffsetOf(a)].mSize = blk[OffsetOf(a)].mSize
      /\ blk'[OffsetOf(a)].mType = blk[OffsetOf(a)].mType
  BY <1>3, <1>6 DEF Blocks
<1>8. ~Building /\ ~Building' /\ pc' # "drop" /\ fr = "OK" /\ fr' = "OK"
  BY <1>1, IdleFacts DEF Building, workVars
<1>9. held[a] + 1 # 0
  <2>1. held[a] \in Nat
    BY <1>2, HeapAssumption
  <2> QED
    BY <2>1
<1> QED
  BY <1>2, <1>4, <1>5, <1>6, <1>7, <1>8, <1>9 DEF Counted

LEMMA IncreaseR ==
    ASSUME IInv, RInv, NEW a \in Addresses \cup {0}, IncreaseRefCount(a)
    PROVE  RInv'
<1>1. CASE ~InHeap(a)
  BY <1>1 DEF IncreaseRefCount, Fault, RInv
<1>2. CASE InHeap(a)
  BY <1>2, IncreaseCounted, CountChanges
<1> QED
  BY <1>1, <1>2

\* A held block's header after one reference less.
LEMMA DecreasedHeld ==
    ASSUME NEW b \in Blocks, NEW n \in Nat, b.mReferenceCount = n, n > 0, n <= MaxRefs
    PROVE  /\ S16(n - 1) = n - 1
           /\ Decreased(b).mReferenceCount = n - 1 /\ Decreased(b).elems = b.elems
           /\ Decreased(b).mSize = b.mSize
           /\ Decreased(b).mType = IF n - 1 = 0 THEN "LST_NULL" ELSE b.mType
<1>1. n - 1 \in Nat /\ S16(n - 1) = n - 1
  BY HeapAssumption DEF S16
<1>2. \/ n - 1 = 0 /\ Decreased(b) = [b EXCEPT !.mReferenceCount = 0,
                                              !.mType = "LST_NULL"]
      \/ n - 1 > 0 /\ Decreased(b) = [b EXCEPT !.mReferenceCount = n - 1]
  BY <1>1 DEF Decreased
<1> QED
  <2>1. CASE n - 1 = 0 /\ Decreased(b) = [b EXCEPT !.mReferenceCount = 0,
                                                !.mType = "LST_NULL"]
    BY <1>1, <2>1 DEF Blocks
  <2>2. CASE n - 1 > 0 /\ Decreased(b) = [b EXCEPT !.mReferenceCount = n - 1]
    <3>1. n - 1 # 0
      BY <2>2
    <3> QED
      BY <1>1, <2>2, <3>1 DEF Blocks
  <2> QED
    BY <1>2, <2>1, <2>2

\* A block in use lies in the heap, unless it is the list being filled.
LEMMA LiveInHeap ==
    ASSUME IInv, fr = "OK", ~Building, NEW a \in Addresses,
           OffsetOf(a) \in DOMAIN blk, Live(OffsetOf(a))
    PROVE  InHeap(a)
<1> USE ConstantFacts
<1>1. PICK o \in DOMAIN blk : o = OffsetOf(a) /\ Live(o) /\ Next(o) <= hp
  BY DEF IInv, Layout
<1>2. o \in Nat /\ HR <= o /\ Next(o) = o + 7 + blk[o].mSize /\ blk[o].mSize \in Nat
  BY HeaderFacts
<1>3. hp \in 0 .. TM
  BY DEF IInv, TypeOK
<1> QED
  BY <1>1, <1>2, <1>3 DEF InHeap

LEMMA DecreaseCounted ==
    ASSUME IInv, RInv, NEW a \in Addresses, DecreaseRefCount(a)
    PROVE  held[a] - 1 \in Nat /\ Counted(a, held[a] - 1)
<1>1. /\ Idle /\ DecreaseLeaf(a) /\ ~LastRefToList(a)
      /\ held[a] > 0 /\ held' = [held EXCEPT ![a] = @ - 1]
  BY DEF DecreaseRefCount
<1>2. PICK n \in Nat : n = held[a] /\ n > 0
  BY <1>1, IdleFacts
<1>3. /\ OffsetOf(a) \in DOMAIN blk /\ blk[OffsetOf(a)].mReferenceCount = n
      /\ blk[OffsetOf(a)] \in Blocks /\ n <= MaxRefs
      /\ blk[OffsetOf(a)].mType # "LST_NULL"
  BY <1>1, <1>2, IdleFacts DEF RInv, HeldRight, Idle, Live
<1>4. InHeap(a)
  BY <1>1, <1>3, IdleFacts, LiveInHeap DEF Live
<1>5. n - 1 \in Nat /\ n - 1 <= MaxRefs /\ S16(n - 1) = n - 1
  BY <1>2, <1>3, DecreasedHeld, HeapAssumption
<1>6. UNCHANGED <<hp, fr, workVars>> /\ blk' = [blk EXCEPT ![OffsetOf(a)] = Decreased(@)]
  BY <1>1, <1>3, <1>4, <1>5 DEF DecreaseLeaf, DecreasedAt
<1>7. n - 1 = 0 => blk[OffsetOf(a)].elems = <<>>
  <2>1. n - 1 = 0 => blk[OffsetOf(a)].mType = "LST_DATA"
    BY <1>1, <1>3, <1>4, <1>5 DEF LastRefToList, Blocks, Kinds
  <2> QED
    BY <1>1, <1>3, <2>1 DEF RInv, ElementsRight, Live, Idle
<1>8. ~Building /\ ~Building' /\ pc' # "drop" /\ fr = "OK" /\ fr' = "OK"
  BY <1>1, <1>6, IdleFacts DEF Building, workVars
<1>9. /\ DOMAIN blk' = DOMAIN blk
      /\ \A x \in DOMAIN blk : x # OffsetOf(a) => blk'[x] = blk[x]
      /\ blk'[OffsetOf(a)] = Decreased(blk[OffsetOf(a)])
  BY <1>3, <1>6
<1>10. held' = [held EXCEPT ![a] = n - 1]
  BY <1>1, <1>2
<1>11. /\ blk'[OffsetOf(a)].mReferenceCount = n - 1
       /\ blk'[OffsetOf(a)].elems = blk[OffsetOf(a)].elems
       /\ blk'[OffsetOf(a)].mSize = blk[OffsetOf(a)].mSize
       /\ blk'[OffsetOf(a)].mType =
            IF n - 1 = 0 THEN "LST_NULL" ELSE blk[OffsetOf(a)].mType
  BY <1>2, <1>3, <1>9, DecreasedHeld
<1>12. Counted(a, n - 1)
  BY <1>1, <1>5, <1>7, <1>8, <1>9, <1>10, <1>11 DEF Counted
<1> QED
  BY <1>2, <1>5, <1>12

----------------------------------------------------------------------------
\* A list is released.
LEMMA DropListR ==
    ASSUME IInv, RInv, NEW a \in Addresses, DropList(a)
    PROVE  RInv'
<1>1. /\ Idle /\ held[a] > 0 /\ LastRefToList(a) /\ pc' = "drop" /\ list' = OffsetOf(a)
      /\ UNCHANGED <<blk, fr, held>>
  BY DEF DropList, heapVars
<1>2. HeldRight /\ ElementsRight /\ OneList /\ NoneLost /\ ~Building
  BY <1>1, IdleFacts DEF RInv, Idle
<1>3. ~Building'
  BY <1>1 DEF Building
<1>4. /\ OffsetOf(a) \in DOMAIN blk /\ blk[OffsetOf(a)].mType = "LST_LIST"
      /\ blk[OffsetOf(a)].mReferenceCount = 1
  <2>1. PICK n \in Nat : n = held[a] /\ n > 0
    BY <1>1, IdleFacts
  <2>2. /\ OffsetOf(a) \in DOMAIN blk /\ blk[OffsetOf(a)].mReferenceCount = n
        /\ n <= MaxRefs /\ blk[OffsetOf(a)] \in Blocks
    BY <1>1, <1>2, <2>1, IdleFacts DEF HeldRight
  <2>3. S16(n - 1) = n - 1
    BY <2>1, <2>2, DecreasedHeld
  <2>4. S16(n - 1) = 0 /\ blk[OffsetOf(a)].mType = "LST_LIST"
    BY <1>1, <2>2 DEF LastRefToList
  <2> QED
    BY <2>1, <2>2, <2>3, <2>4
<1>5. HeldRight'
  BY <1>1, <1>2, <1>3 DEF HeldRight, Live
<1>6. ElementsRight' /\ OneList'
  BY <1>1, <1>2 DEF ElementsRight, OneList, Live
<1>7. NoneLost'
  BY <1>1, <1>2, <1>3 DEF NoneLost, Live
<1>8. ListRight'
  BY <1>1, <1>3, <1>4, AddressFacts DEF ListRight
<1> QED
  BY <1>5, <1>6, <1>7, <1>8 DEF RInv

\* The first element goes: its header and the list's entry.
LEMMA DropElementR ==
    ASSUME IInv, RInv, DropElement
    PROVE  RInv'
<1>1. /\ pc = "drop" /\ blk[list].elems # <<>> /\ held' = held
      /\ fr = "OK"
  BY DEF DropElement, IInv, Layout
<1>2. HeldRight /\ ElementsRight /\ OneList /\ NoneLost /\ ListRight /\ ~Building
  BY <1>1 DEF RInv, Building
<1>3. PICK l \in DOMAIN blk : /\ l = list /\ blk[l].mType = "LST_LIST"
                              /\ blk[l].mReferenceCount = 1 /\ blk[l] \in Blocks
                              /\ blk[l].elems \in Seq(Addresses)
  BY <1>1, <1>2, HeaderFacts DEF ListRight, Blocks
<1>4. PICK a \in Addresses : a = Head(blk[l].elems) /\ a = blk[l].elems[1]
  BY <1>1, <1>3
<1>5. PICK o \in DOMAIN blk : /\ o = OffsetOf(a) /\ blk[o].mType = "LST_DATA"
                              /\ blk[o].mReferenceCount = 1 /\ blk[o] \in Blocks
                              /\ blk[o].elems = <<>> /\ o # l
  <2>1. 1 \in 1 .. Len(blk[l].elems)
    BY <1>1, <1>3
  <2>2. OffsetOf(a) \in DOMAIN blk /\ blk[OffsetOf(a)].mType = "LST_DATA"
        /\ blk[OffsetOf(a)].mReferenceCount = 1
    BY <1>2, <1>3, <1>4, <2>1 DEF ElementsRight, Live
  <2> QED
    BY <1>2, <1>3, <2>2, HeaderFacts DEF ElementsRight, Live
<1>6. CASE ~InHeap(a)
  BY <1>1, <1>3, <1>4, <1>6 DEF DropElement, Fault, RInv
<1>7. CASE InHeap(a)
  <2>1. S16(blk[o].mReferenceCount - 1) = 0 /\ MaxRefs >= 1
    BY <1>5, HeapAssumption DEF S16
  <2>2. /\ blk' = [DecreasedAt(a) EXCEPT ![l].elems = Tail(@)]
        /\ UNCHANGED <<hp, fr, workVars>>
    BY <1>3, <1>4, <1>5, <1>7, <2>1 DEF DropElement
  <2>3. Decreased(blk[o]) = [blk[o] EXCEPT !.mReferenceCount = 0, !.mType = "LST_NULL"]
    BY <1>5, <2>1 DEF Decreased
  <2>4. /\ DOMAIN blk' = DOMAIN blk
        /\ \A x \in DOMAIN blk : x # l /\ x # o => blk'[x] = blk[x]
        /\ blk'[l] = [blk[l] EXCEPT !.elems = Tail(@)]
        /\ blk'[o] = [blk[o] EXCEPT !.mReferenceCount = 0, !.mType = "LST_NULL"]
    BY <1>3, <1>5, <2>2, <2>3 DEF DecreasedAt
  <2>5. /\ blk'[l].mType = "LST_LIST" /\ blk'[l].mReferenceCount = 1
        /\ blk'[l].elems = Tail(blk[l].elems)
        /\ blk'[o].mType = "LST_NULL" /\ blk'[o].elems = <<>>
    BY <1>3, <1>5, <2>4 DEF Blocks
  <2>6. \A x \in DOMAIN blk : Live(x)' <=> Live(x) /\ x # o
    BY <1>3, <1>5, <2>4, <2>5 DEF Live
  <2>7. \A x \in DOMAIN blk : Live(x)' =>
          /\ blk'[x].mType = blk[x].mType
          /\ blk'[x].mReferenceCount = blk[x].mReferenceCount
    BY <1>3, <2>4, <2>5, <2>6
  <2>8. PICK n \in Nat : /\ n + 1 = Len(blk[l].elems) /\ Len(blk'[l].elems) = n
                         /\ \A i \in 1 .. n : blk'[l].elems[i] = blk[l].elems[i + 1]
    <3>1. PICK n \in Nat : n + 1 = Len(blk[l].elems)
      BY <1>1, <1>3
    <3> QED
      BY <1>3, <2>5, <3>1
  \* Where an entry was before.
  <2>9. ASSUME NEW x \in DOMAIN blk, Live(x)', NEW i \in 1 .. Len(blk'[x].elems)
        PROVE  \E j \in 1 .. Len(blk[x].elems) :
                 /\ blk[x].elems[j] = blk'[x].elems[i]
                 /\ j = (IF x = l THEN i + 1 ELSE i)
    <3>1. CASE x = l
      BY <2>8, <2>9, <3>1
    <3>2. CASE x # l
      BY <2>4, <2>6, <2>9, <3>2
    <3> QED
      BY <3>1, <3>2
  <2>10. ASSUME NEW x \in DOMAIN blk, Live(x)', NEW i \in 1 .. Len(blk'[x].elems)
         PROVE  blk'[x].elems[i] # a
    <3>1. PICK j \in 1 .. Len(blk[x].elems) :
            blk[x].elems[j] = blk'[x].elems[i] /\ j = (IF x = l THEN i + 1 ELSE i)
      BY <2>9, <2>10
    <3>2. blk[x].elems[j] = a => x = l /\ j = 1
      BY <1>1, <1>2, <1>3, <1>4, <2>6, <2>10 DEF OneList, Live
    <3>3. x = l => i \in 1 .. n /\ j = i + 1 /\ i + 1 # 1
      BY <2>8, <3>1
    <3> QED
      BY <3>1, <3>2, <3>3
  <2>11. ~Building' /\ pc' = "drop" /\ list' = l
    BY <1>1, <1>3, <2>2 DEF workVars, Building
  <2>12. HeldRight'
    <3> SUFFICES ASSUME NEW b \in Addresses, held[b] > 0
                 PROVE  /\ OffsetOf(b) \in DOMAIN blk' /\ Live(OffsetOf(b))'
                        /\ blk'[OffsetOf(b)].mReferenceCount = held[b]
                        /\ held[b] <= MaxRefs
                        /\ \A x \in DOMAIN blk' : Live(x)' =>
                             \A i \in 1 .. Len(blk'[x].elems) : blk'[x].elems[i] # b
      BY <1>1, <2>11 DEF HeldRight
    <3>1. /\ OffsetOf(b) \in DOMAIN blk /\ Live(OffsetOf(b))
          /\ blk[OffsetOf(b)].mReferenceCount = held[b] /\ held[b] <= MaxRefs
          /\ \A x \in DOMAIN blk : Live(x) =>
               \A i \in 1 .. Len(blk[x].elems) : blk[x].elems[i] # b
      BY <1>2 DEF HeldRight
    <3>2. b # a
      BY <1>1, <1>3, <1>4, <3>1 DEF Live
    <3>3. OffsetOf(b) # o
      BY <1>5, <3>2, AddressFacts
    <3>4. ASSUME NEW x \in DOMAIN blk, Live(x)', NEW i \in 1 .. Len(blk'[x].elems)
          PROVE  blk'[x].elems[i] # b
      <4>1. Live(x)
        BY <2>6, <3>4
      <4> QED
        BY <2>9, <3>1, <3>4, <4>1
    <3> QED
      BY <2>4, <2>6, <2>7, <3>1, <3>3, <3>4
  <2>13. ElementsRight'
    <3> SUFFICES ASSUME NEW x \in DOMAIN blk', Live(x)'
                 PROVE  /\ blk'[x].mType = "LST_DATA" => blk'[x].elems = <<>>
                        /\ \A i \in 1 .. Len(blk'[x].elems) :
                             /\ OffsetOf(blk'[x].elems[i]) \in DOMAIN blk'
                             /\ blk'[OffsetOf(blk'[x].elems[i])].mType = "LST_DATA"
                             /\ blk'[OffsetOf(blk'[x].elems[i])].mReferenceCount = 1
      BY DEF ElementsRight
    <3>1. x \in DOMAIN blk /\ Live(x) /\ blk[x] \in Blocks
      BY <2>4, <2>6, HeaderFacts
    <3>2. blk'[x].mType = "LST_DATA" => blk'[x].elems = <<>>
      <4>1. CASE x = l
        BY <2>5, <4>1
      <4>2. CASE x # l
        <5>1. blk'[x] = blk[x]
          BY <2>4, <2>6, <4>2
        <5> QED
          BY <1>2, <3>1, <5>1 DEF ElementsRight
      <4> QED
        BY <4>1, <4>2
    <3>3. ASSUME NEW i \in 1 .. Len(blk'[x].elems)
          PROVE  /\ OffsetOf(blk'[x].elems[i]) \in DOMAIN blk'
                 /\ blk'[OffsetOf(blk'[x].elems[i])].mType = "LST_DATA"
                 /\ blk'[OffsetOf(blk'[x].elems[i])].mReferenceCount = 1
      <4>1. PICK j \in 1 .. Len(blk[x].elems) : blk[x].elems[j] = blk'[x].elems[i]
        BY <2>9, <3>1
      <4>2. PICK b \in Addresses : b = blk[x].elems[j]
        BY <3>1 DEF Blocks
      <4>3. b # a
        BY <2>10, <3>1, <4>1, <4>2
      <4>4. /\ OffsetOf(b) \in DOMAIN blk /\ blk[OffsetOf(b)].mType = "LST_DATA"
            /\ blk[OffsetOf(b)].mReferenceCount = 1
        BY <1>2, <3>1, <4>2 DEF ElementsRight
      <4>5. OffsetOf(b) # o /\ OffsetOf(b) # l
        BY <1>3, <1>5, <4>3, <4>4, AddressFacts
      <4> QED
        BY <2>4, <4>1, <4>2, <4>4, <4>5
    <3> QED
      BY <3>2, <3>3
  <2>14. OneList'
    <3> SUFFICES ASSUME NEW x \in DOMAIN blk, NEW y \in DOMAIN blk, Live(x)', Live(y)',
                        NEW i \in 1 .. Len(blk'[x].elems),
                        NEW j \in 1 .. Len(blk'[y].elems),
                        blk'[x].elems[i] = blk'[y].elems[j]
                 PROVE  x = y /\ i = j
      BY <2>4 DEF OneList
    <3>1. PICK k \in 1 .. Len(blk[x].elems) :
            blk[x].elems[k] = blk'[x].elems[i] /\ k = (IF x = l THEN i + 1 ELSE i)
      BY <2>9
    <3>2. PICK m \in 1 .. Len(blk[y].elems) :
            blk[y].elems[m] = blk'[y].elems[j] /\ m = (IF y = l THEN j + 1 ELSE j)
      BY <2>9
    <3>3. x = y /\ k = m
      BY <1>2, <2>6, <3>1, <3>2 DEF OneList
    <3>4. i \in Int /\ j \in Int
      OBVIOUS
    <3> QED
      BY <3>1, <3>2, <3>3, <3>4
  <2>15. NoneLost'
    <3> SUFFICES ASSUME NEW x \in DOMAIN blk, Live(x)'
                 PROVE  /\ AddressOf(x) \in Addresses
                        /\ \/ held[AddressOf(x)] > 0
                           \/ \E y \in DOMAIN blk' : Live(y)' /\
                                \E i \in 1 .. Len(blk'[y].elems) :
                                  blk'[y].elems[i] = AddressOf(x)
      BY <1>1, <2>4 DEF NoneLost
    <3>1. AddressOf(x) \in Addresses /\ Live(x) /\ x # o /\ AddressOf(x) # a
      BY <1>2, <1>5, <2>6, AddressFacts, HeaderFacts DEF NoneLost
    <3>2. CASE held[AddressOf(x)] > 0
      BY <3>1, <3>2
    <3>3. CASE \E y \in DOMAIN blk : Live(y) /\
                 \E i \in 1 .. Len(blk[y].elems) : blk[y].elems[i] = AddressOf(x)
      <4>1. PICK y \in DOMAIN blk : Live(y) /\
              \E i \in 1 .. Len(blk[y].elems) : blk[y].elems[i] = AddressOf(x)
        BY <3>3
      <4>2. PICK i \in 1 .. Len(blk[y].elems) : blk[y].elems[i] = AddressOf(x)
        BY <4>1
      <4>3. y # o /\ Live(y)'
        BY <1>5, <2>6, <4>1, <4>2
      <4>4. CASE y = l
        <5>1. i # 1
          BY <1>4, <3>1, <4>2, <4>4
        <5>2. i - 1 \in 1 .. n /\ (i - 1) + 1 = i
          BY <2>8, <4>2, <4>4, <5>1
        <5>3. blk'[l].elems[i - 1] = AddressOf(x)
          BY <2>8, <4>2, <4>4, <5>2
        <5> QED
          BY <2>4, <2>8, <3>1, <4>3, <4>4, <5>2, <5>3
      <4>5. CASE y # l
        BY <2>4, <3>1, <4>2, <4>3, <4>5
      <4> QED
        BY <4>4, <4>5
    <3> QED
      BY <1>2, <3>1, <3>2, <3>3 DEF NoneLost
  <2>16. ListRight'
    BY <1>1, <1>2, <1>3, <2>4, <2>5, <2>11 DEF ListRight
  <2> QED
    BY <2>12, <2>13, <2>14, <2>15, <2>16 DEF RInv
<1> QED
  BY <1>6, <1>7

\* The list itself, once it has no elements left.
LEMMA FinishDropCounted ==
    ASSUME IInv, RInv, FinishDrop
    PROVE  AddressOf(list) \in Addresses /\ Counted(AddressOf(list), 0)
<1>1. /\ pc = "drop" /\ blk[list].elems = <<>> /\ fr = "OK" /\ fr' = "OK"
      /\ blk' = [blk EXCEPT ![list] = Decreased(@)]
      /\ held' = [held EXCEPT ![AddressOf(list)] = @ - 1]
      /\ pc' = "idle" /\ ~Building /\ ~Building'
  BY DEF FinishDrop, BackToIdle, IInv, Layout, Building
<1>2. HeldRight /\ ListRight
  BY <1>1 DEF RInv
<1>3. PICK l \in DOMAIN blk : /\ l = list /\ blk[l].mReferenceCount = 1 /\ blk[l] \in Blocks
                              /\ AddressOf(l) \in Addresses /\ l \in Nat
  BY <1>1, <1>2, HeaderFacts DEF ListRight
<1>4. PICK a \in Addresses : a = AddressOf(l) /\ OffsetOf(a) = l
  BY <1>3, AddressFacts
<1>5. held[a] > 0 /\ held \in [Addresses -> Nat]
  BY <1>1, <1>3, <1>4 DEF IInv, Layout, TypeOK
<1>6. held[a] = 1
  BY <1>2, <1>3, <1>4, <1>5 DEF HeldRight
<1>7. 1 <= MaxRefs /\ 0 <= MaxRefs /\ MaxRefs \in Nat
  BY HeapAssumption
<1>8. /\ Decreased(blk[l]).mReferenceCount = 0 /\ Decreased(blk[l]).elems = blk[l].elems
      /\ Decreased(blk[l]).mType = "LST_NULL" /\ Decreased(blk[l]).mSize = blk[l].mSize
  BY <1>3, <1>7, DecreasedHeld
<1>9. held' = [held EXCEPT ![a] = 0]
  BY <1>1, <1>3, <1>4, <1>6
<1>10. /\ DOMAIN blk' = DOMAIN blk
       /\ \A x \in DOMAIN blk : x # OffsetOf(a) => blk'[x] = blk[x]
       /\ blk'[OffsetOf(a)] = Decreased(blk[OffsetOf(a)])
  BY <1>1, <1>3, <1>4
<1>11. Counted(a, 0)
  BY <1>1, <1>3, <1>4, <1>5, <1>7, <1>8, <1>9, <1>10 DEF Counted
<1> QED
  BY <1>3, <1>4, <1>11

----------------------------------------------------------------------------
\* A block is put to use.

\* Where the walk stands is an address.
LEMMA CurAddress ==
    ASSUME IInv, pc = "walk"
    PROVE  AddressOf(cur) \in Addresses /\ cur \in Nat /\ cur >= HR /\ cur > 0
<1> USE ConstantFacts
<1>1. cur \in Nat /\ HR <= cur /\ want.mSize \in Nat
  BY WalkFacts, HeaderFacts
<1>2. PICK s \in 0 .. TM - 1 : s = sp
  BY WalkFacts
<1>3. cur = HR \/ cur + want.mSize + 14 < s
  BY <1>2, WalkFacts
<1>4. cur < TM
  BY <1>1, <1>2, <1>3
<1> QED
  BY <1>1, <1>4 DEF AddressOf, Addresses

\* Nobody refers to a free block.
LEMMA FreeUnknown ==
    ASSUME IInv, RInv, fr = "OK", NEW o \in DOMAIN blk, ~Live(o), AddressOf(o) \in Addresses
    PROVE  /\ held[AddressOf(o)] = 0
           /\ \A l \in DOMAIN blk : Live(l) =>
                \A i \in 1 .. Len(blk[l].elems) : blk[l].elems[i] # AddressOf(o)
<1>1. HeldRight /\ ElementsRight /\ OffsetOf(AddressOf(o)) = o
      /\ held[AddressOf(o)] \in Nat
  BY HeaderFacts, AddressFacts DEF RInv, IInv, TypeOK
<1> QED
  BY <1>1 DEF HeldRight, ElementsRight, Live

\* The blocks in b are those in use, and the one at cur with one reference.
Placed(b) ==
    /\ cur \in DOMAIN b /\ b[cur].mType = want.mType
    /\ b[cur].mReferenceCount = 1 /\ b[cur].elems = <<>>
    /\ \A o : o \in DOMAIN b /\ b[o].mType # "LST_NULL" <=>
              o = cur \/ (o \in DOMAIN blk /\ Live(o))
    /\ \A o \in DOMAIN blk : Live(o) => b[o] = blk[o]

LEMMA DeliverR ==
    ASSUME IInv, RInv, pc = "walk", ~Live(cur), NEW b, NEW carved,
           Placed(b), Deliver(b, carved)
    PROVE  RInv'
<1>1. /\ fr = "OK" /\ cur \in DOMAIN blk /\ want.mType \in {"LST_DATA", "LST_LIST"}
      /\ want.mType = "LST_LIST" => list = 0
      /\ Building <=> list # 0
      /\ list # 0 => list \in DOMAIN blk /\ Live(list)
      /\ held \in [Addresses -> Nat]
  BY WalkFacts
<1>2. HeldRight /\ ElementsRight /\ OneList /\ NoneLost /\ ListRight
  BY <1>1 DEF RInv
<1>3. PICK c \in Nat : /\ c = cur /\ c > 0 /\ AddressOf(c) \in Addresses
                       /\ OffsetOf(AddressOf(c)) = c
  BY CurAddress, AddressFacts
<1>4. PICK a \in Addresses : a = AddressOf(c) /\ OffsetOf(a) = c
  BY <1>3
<1>5. /\ held[a] = 0
      /\ \A l \in DOMAIN blk : Live(l) =>
           \A i \in 1 .. Len(blk[l].elems) : blk[l].elems[i] # a
  BY <1>1, <1>3, <1>4, FreeUnknown
<1>6. /\ c \in DOMAIN b /\ b[c].mType = want.mType
      /\ b[c].mReferenceCount = 1 /\ b[c].elems = <<>>
      /\ \A o : o \in DOMAIN b /\ b[o].mType # "LST_NULL" <=>
                o = c \/ (o \in DOMAIN blk /\ Live(o))
      /\ \A o \in DOMAIN blk : Live(o) => b[o] = blk[o] /\ o # c /\ o \in DOMAIN b
  BY <1>3 DEF Placed
<1>7. \A x \in Addresses : OffsetOf(x) = c => x = a
  BY <1>3, <1>4, AddressFacts
<1>8. CASE DeliverList(b, carved)
  <2>1. /\ blk' = b /\ pc' = "fill" /\ list' = c /\ held' = held /\ list = 0
    BY <1>1, <1>3, <1>8 DEF DeliverList
  <2>2. Building' /\ ~Building
    BY <1>3, <2>1 DEF Building
  <2>3. HeldRight'
    BY <1>2, <1>4, <1>5, <1>6, <2>1, <2>2 DEF HeldRight, Live
  <2>4. ElementsRight'
    BY <1>2, <1>6, <2>1 DEF ElementsRight, Live
  <2>5. OneList'
    BY <1>2, <1>6, <2>1 DEF OneList, Live
  <2>6. NoneLost'
    BY <1>2, <1>3, <1>6, <2>1, <2>2 DEF NoneLost, Live
  <2>7. ListRight'
    BY <1>6, <2>1 DEF ListRight
  <2> QED
    BY <2>3, <2>4, <2>5, <2>6, <2>7 DEF RInv
<1>9. CASE DeliverValue(b)
  <2>1. /\ blk' = b /\ pc' = "idle" /\ list' = 0 /\ list = 0
        /\ held' = [held EXCEPT ![a] = @ + 1] /\ want.mType = "LST_DATA"
    BY <1>3, <1>4, <1>9 DEF DeliverValue, BackToIdle
  <2>2. ~Building' /\ ~Building
    BY <2>1 DEF Building
  <2>3. held' = [held EXCEPT ![a] = 1] /\ 1 <= MaxRefs
    BY <1>1, <1>5, <2>1, HeapAssumption
  <2>4. HeldRight'
    <3> SUFFICES ASSUME NEW x \in Addresses, held'[x] > 0
                 PROVE  /\ OffsetOf(x) \in DOMAIN b /\ b[OffsetOf(x)].mType # "LST_NULL"
                        /\ b[OffsetOf(x)].mReferenceCount = held'[x] /\ held'[x] <= MaxRefs
                        /\ \A l \in DOMAIN b : b[l].mType # "LST_NULL" =>
                             \A i \in 1 .. Len(b[l].elems) : b[l].elems[i] # x
      BY <2>1, <2>2 DEF HeldRight, Live
    <3>1. CASE x = a
      BY <1>1, <1>4, <1>5, <1>6, <2>3, <3>1
    <3>2. CASE x # a
      <4>1. held'[x] = held[x]
        BY <1>1, <2>3, <3>2
      <4> QED
        BY <1>2, <1>6, <4>1 DEF HeldRight, Live
    <3> QED
      BY <3>1, <3>2
  <2>5. ElementsRight'
    BY <1>2, <1>6, <2>1 DEF ElementsRight, Live
  <2>6. OneList'
    BY <1>2, <1>6, <2>1 DEF OneList, Live
  <2>7. NoneLost'
    <3> SUFFICES ASSUME NEW x \in DOMAIN b, b[x].mType # "LST_NULL"
                 PROVE  /\ AddressOf(x) \in Addresses
                        /\ \/ held'[AddressOf(x)] > 0
                           \/ \E l \in DOMAIN b : b[l].mType # "LST_NULL" /\
                                \E i \in 1 .. Len(b[l].elems) : b[l].elems[i] = AddressOf(x)
      BY <2>1 DEF NoneLost, Live
    <3>1. CASE x = c
      BY <1>1, <1>4, <2>3, <3>1
    <3>2. CASE x # c
      <4>1. x \in DOMAIN blk /\ Live(x) /\ AddressOf(x) \in Addresses
        BY <1>2, <1>6, <3>2 DEF NoneLost
      <4>2. held[AddressOf(x)] > 0 => held'[AddressOf(x)] > 0
        BY <1>1, <2>3, <4>1
      <4>3. CASE \E l \in DOMAIN blk : Live(l) /\
                   \E i \in 1 .. Len(blk[l].elems) : blk[l].elems[i] = AddressOf(x)
        BY <1>6, <4>1, <4>3
      <4> QED
        BY <1>2, <2>2, <4>1, <4>2, <4>3 DEF NoneLost
    <3> QED
      BY <3>1, <3>2
  <2>8. ListRight'
    BY <2>1, <2>2 DEF ListRight
  <2> QED
    BY <2>4, <2>5, <2>6, <2>7, <2>8 DEF RInv
<1>10. CASE DeliverElement(b)
  <2>1. PICK l \in DOMAIN blk : /\ l = list /\ Live(l) /\ l # 0 /\ l # c
                                /\ blk[l].elems \in Seq(Addresses)
                                /\ blk[l].mType = "LST_LIST" /\ l \in DOMAIN b
    BY <1>1, <1>6, <1>10, HeaderFacts DEF DeliverElement, Blocks, IInv, Layout
  <2>2. /\ blk' = [b EXCEPT ![l].elems = Append(@, a)] /\ want.mType = "LST_DATA"
        /\ pc' = "fill" /\ list' = l /\ held' = held /\ Building /\ Building'
    BY <1>1, <1>3, <1>4, <1>10, <2>1 DEF DeliverElement, Building
  <2>3. PICK n \in Nat : n = Len(blk[l].elems)
    BY <2>1
  <2>4. /\ DOMAIN blk' = DOMAIN b
        /\ \A x \in DOMAIN b : x # l => blk'[x] = b[x]
        /\ blk'[l] = [blk[l] EXCEPT !.elems = Append(@, a)]
    BY <1>6, <2>1, <2>2
  <2>5. /\ blk'[l].mType = "LST_LIST" /\ blk'[l].mReferenceCount = blk[l].mReferenceCount
        /\ Len(blk'[l].elems) = n + 1 /\ blk'[l].elems[n + 1] = a
        /\ \A i \in 1 .. n : blk'[l].elems[i] = blk[l].elems[i]
    <3>1. blk[l] \in Blocks
      BY HeaderFacts
    <3>2. blk'[l].elems = Append(blk[l].elems, a)
      BY <2>4, <3>1 DEF Blocks
    <3> QED
      BY <2>1, <2>3, <2>4, <3>1, <3>2 DEF Blocks
  <2>6. \A x : x \in DOMAIN blk' /\ blk'[x].mType # "LST_NULL" <=>
               x = c \/ (x \in DOMAIN blk /\ Live(x))
    BY <1>6, <2>1, <2>4, <2>5
  <2>7. /\ blk'[c] = b[c]
        /\ \A x \in DOMAIN blk : Live(x) /\ x # l => blk'[x] = blk[x]
    BY <1>6, <2>1, <2>4
  \* An entry is new, or one there was.
  <2>8. ASSUME NEW x \in DOMAIN blk', Live(x)', NEW i \in 1 .. Len(blk'[x].elems)
        PROVE  \/ x = l /\ i = n + 1 /\ blk'[x].elems[i] = a
               \/ /\ x \in DOMAIN blk /\ Live(x) /\ i \in 1 .. Len(blk[x].elems)
                  /\ blk'[x].elems[i] = blk[x].elems[i]
    <3>1. x # c
      BY <1>6, <2>7, <2>8
    <3>2. x \in DOMAIN blk /\ Live(x)
      BY <2>6, <2>8, <3>1 DEF Live
    <3>3. CASE x = l
      <4>1. i \in 1 .. n + 1
        BY <2>5, <2>8, <3>3
      <4> QED
        BY <2>3, <2>5, <3>2, <3>3, <4>1
    <3>4. CASE x # l
      BY <2>7, <2>8, <3>2, <3>4
    <3> QED
      BY <3>3, <3>4
  <2>9. HeldRight'
    <3> SUFFICES ASSUME NEW x \in Addresses, held[x] > 0
                 PROVE  /\ OffsetOf(x) \in DOMAIN blk' /\ Live(OffsetOf(x))'
                        /\ blk'[OffsetOf(x)].mReferenceCount = held[x]
                        /\ held[x] <= MaxRefs /\ OffsetOf(x) # l
                        /\ \A y \in DOMAIN blk' : Live(y)' =>
                             \A i \in 1 .. Len(blk'[y].elems) : blk'[y].elems[i] # x
      BY <2>2 DEF HeldRight
    <3>1. /\ OffsetOf(x) \in DOMAIN blk /\ Live(OffsetOf(x))
          /\ blk[OffsetOf(x)].mReferenceCount = held[x] /\ held[x] <= MaxRefs
          /\ OffsetOf(x) # l /\ x # a
          /\ \A y \in DOMAIN blk : Live(y) =>
               \A i \in 1 .. Len(blk[y].elems) : blk[y].elems[i] # x
      BY <1>2, <1>5, <2>1, <2>2 DEF HeldRight
    <3>2. \A y \in DOMAIN blk' : Live(y)' =>
            \A i \in 1 .. Len(blk'[y].elems) : blk'[y].elems[i] # x
      BY <2>8, <3>1
    <3> QED
      BY <2>6, <2>7, <3>1, <3>2 DEF Live
  <2>10. ElementsRight'
    <3> SUFFICES ASSUME NEW x \in DOMAIN blk', Live(x)'
                 PROVE  /\ blk'[x].mType = "LST_DATA" => blk'[x].elems = <<>>
                        /\ \A i \in 1 .. Len(blk'[x].elems) :
                             /\ OffsetOf(blk'[x].elems[i]) \in DOMAIN blk'
                             /\ blk'[OffsetOf(blk'[x].elems[i])].mType = "LST_DATA"
                             /\ blk'[OffsetOf(blk'[x].elems[i])].mReferenceCount = 1
      BY DEF ElementsRight
    <3>1. blk'[x].mType = "LST_DATA" => blk'[x].elems = <<>>
      <4>1. CASE x = l
        BY <2>5, <4>1
      <4>2. CASE x = c
        BY <1>6, <2>7, <4>2
      <4>3. CASE x # l /\ x # c
        <5>1. x \in DOMAIN blk /\ Live(x) /\ blk'[x] = blk[x]
          BY <2>6, <2>7, <4>3 DEF Live
        <5> QED
          BY <1>2, <5>1 DEF ElementsRight
      <4> QED
        BY <4>1, <4>2, <4>3
    <3>2. ASSUME NEW i \in 1 .. Len(blk'[x].elems)
          PROVE  /\ OffsetOf(blk'[x].elems[i]) \in DOMAIN blk'
                 /\ blk'[OffsetOf(blk'[x].elems[i])].mType = "LST_DATA"
                 /\ blk'[OffsetOf(blk'[x].elems[i])].mReferenceCount = 1
      <4>1. CASE blk'[x].elems[i] = a
        BY <1>4, <1>6, <2>2, <2>4, <2>7, <4>1
      <4>2. CASE blk'[x].elems[i] # a
        <5>1. x \in DOMAIN blk /\ Live(x) /\ i \in 1 .. Len(blk[x].elems)
              /\ blk'[x].elems[i] = blk[x].elems[i]
          BY <2>8, <3>2, <4>2
        <5>2. PICK e : e = OffsetOf(blk[x].elems[i])
          OBVIOUS
        <5>3. e \in DOMAIN blk /\ blk[e].mType = "LST_DATA" /\ blk[e].mReferenceCount = 1
          BY <1>2, <5>1, <5>2 DEF ElementsRight
        <5>4. e # l /\ blk'[e] = blk[e] /\ e \in DOMAIN blk'
          BY <2>1, <2>6, <2>7, <5>3 DEF Live
        <5> QED
          BY <5>1, <5>2, <5>3, <5>4
      <4> QED
        BY <4>1, <4>2
    <3> QED
      BY <3>1, <3>2
  <2>11. OneList'
    <3> SUFFICES ASSUME NEW x \in DOMAIN blk', NEW y \in DOMAIN blk', Live(x)', Live(y)',
                        NEW i \in 1 .. Len(blk'[x].elems),
                        NEW j \in 1 .. Len(blk'[y].elems),
                        blk'[x].elems[i] = blk'[y].elems[j]
                 PROVE  x = y /\ i = j
      BY DEF OneList
    <3>1. \/ x = l /\ i = n + 1 /\ blk'[x].elems[i] = a
          \/ /\ x \in DOMAIN blk /\ Live(x) /\ i \in 1 .. Len(blk[x].elems)
             /\ blk'[x].elems[i] = blk[x].elems[i] /\ blk[x].elems[i] # a
      BY <1>5, <2>8
    <3>2. \/ y = l /\ j = n + 1 /\ blk'[y].elems[j] = a
          \/ /\ y \in DOMAIN blk /\ Live(y) /\ j \in 1 .. Len(blk[y].elems)
             /\ blk'[y].elems[j] = blk[y].elems[j] /\ blk[y].elems[j] # a
      BY <1>5, <2>8
    <3> QED
      BY <1>2, <3>1, <3>2 DEF OneList
  <2>12. NoneLost'
    <3> SUFFICES ASSUME NEW x \in DOMAIN blk', Live(x)'
                 PROVE  /\ AddressOf(x) \in Addresses
                        /\ \/ held[AddressOf(x)] > 0
                           \/ \E y \in DOMAIN blk' : Live(y)' /\
                                \E i \in 1 .. Len(blk'[y].elems) :
                                  blk'[y].elems[i] = AddressOf(x)
                           \/ x = l
      BY <2>2 DEF NoneLost
    <3>1. CASE x = c
      <4>1. Live(l)' /\ l \in DOMAIN blk' /\ n + 1 \in 1 .. Len(blk'[l].elems)
        BY <2>1, <2>4, <2>5 DEF Live
      <4> QED
        BY <1>3, <1>4, <2>5, <3>1, <4>1
    <3>2. CASE x # c
      <4>1. x \in DOMAIN blk /\ Live(x) /\ AddressOf(x) \in Addresses
        BY <1>2, <2>6, <3>2 DEF NoneLost, Live
      <4>2. CASE \E y \in DOMAIN blk : Live(y) /\
                   \E i \in 1 .. Len(blk[y].elems) : blk[y].elems[i] = AddressOf(x)
        <5>1. PICK y \in DOMAIN blk : Live(y) /\
                \E i \in 1 .. Len(blk[y].elems) : blk[y].elems[i] = AddressOf(x)
          BY <4>2
        <5>2. PICK i \in 1 .. Len(blk[y].elems) : blk[y].elems[i] = AddressOf(x)
          BY <5>1
        <5>3. y \in DOMAIN blk' /\ Live(y)'
          BY <2>6, <5>1 DEF Live
        <5>4. i \in 1 .. Len(blk'[y].elems) /\ blk'[y].elems[i] = AddressOf(x)
          <6>1. CASE y = l
            BY <2>3, <2>5, <5>2, <6>1
          <6>2. CASE y # l
            BY <2>7, <5>1, <5>2, <6>2
          <6> QED
            BY <6>1, <6>2
        <5> QED
          BY <4>1, <5>3, <5>4
      <4> QED
        BY <1>2, <2>1, <4>1, <4>2 DEF NoneLost
    <3> QED
      BY <3>1, <3>2
  <2>13. ListRight'
    BY <1>2, <2>1, <2>2, <2>5 DEF ListRight
  <2> QED
    BY <2>9, <2>10, <2>11, <2>12, <2>13 DEF RInv
<1> QED
  BY <1>8, <1>9, <1>10 DEF Deliver

\* A block carved out of a free one.
LEMMA CarvedPlaced ==
    ASSUME IInv, pc = "walk", ~Live(cur), SplitFits(cur)
    PROVE  Placed(Carved)
<1>1. cur \in DOMAIN blk /\ want.mType \in {"LST_DATA", "LST_LIST"}
  BY WalkFacts
<1>2. /\ RestOf(cur) \notin DOMAIN blk
      /\ DOMAIN Carved = DOMAIN blk \cup {RestOf(cur)}
      /\ Carved[RestOf(cur)].mType = "LST_NULL"
      /\ \A o \in DOMAIN blk \ {cur} : Carved[o] = blk[o]
  BY CarvedFacts
<1>3. Carved[cur] = Block(want.mType, want.mSize, 1)
  BY <1>1, <1>2 DEF Carved
<1>4. /\ Carved[cur].mType = want.mType /\ Carved[cur].mReferenceCount = 1
      /\ Carved[cur].elems = <<>>
  BY <1>3 DEF Block
<1>5. \A o \in DOMAIN blk : Live(o) => o # cur
  OBVIOUS
<1> QED
  BY <1>1, <1>2, <1>4, <1>5 DEF Placed, Live

\* A free block taken as it is.
LEMMA TakenPlaced ==
    ASSUME IInv, pc = "walk", ~Live(cur)
    PROVE  Placed(Taken)
<1>1. /\ cur \in DOMAIN blk /\ want.mType \in {"LST_DATA", "LST_LIST"}
  BY WalkFacts
<1>2. /\ DOMAIN Taken = DOMAIN blk
      /\ Taken[cur] = Block(want.mType, blk[cur].mSize, 1)
      /\ \A o \in DOMAIN blk \ {cur} : Taken[o] = blk[o]
  BY <1>1 DEF Taken, PutBlock
<1>3. /\ Taken[cur].mType = want.mType /\ Taken[cur].mReferenceCount = 1
      /\ Taken[cur].elems = <<>>
  BY <1>2 DEF Block
<1>4. \A o \in DOMAIN blk : Live(o) => o # cur
  OBVIOUS
<1> QED
  BY <1>1, <1>2, <1>3, <1>4 DEF Placed, Live

LEMMA PlaceSplitR ==
    ASSUME IInv, RInv, PlaceSplit
    PROVE  RInv'
<1>1. pc = "walk" /\ ~Live(cur) /\ SplitFits(cur)
  BY DEF PlaceSplit
<1>2. Placed(Carved)
  BY <1>1, CarvedPlaced
<1>3. CASE Deliver(Carved, TRUE)
  BY <1>1, <1>2, <1>3, DeliverR
<1>4. CASE Deliver(Carved, FALSE)
  BY <1>1, <1>2, <1>4, DeliverR
<1>5. CASE \E f \in Faults \ {"OK"} : Fault(f)
  BY <1>5 DEF Fault, RInv
<1> QED
  BY <1>3, <1>4, <1>5 DEF PlaceSplit, SplitOutside, SplitInside, Faults

LEMMA PlaceWholeR ==
    ASSUME IInv, RInv, PlaceWhole
    PROVE  RInv'
<1>1. pc = "walk" /\ ~Live(cur) /\ Deliver(Taken, FALSE)
  BY DEF PlaceWhole
<1>2. Placed(Taken)
  BY <1>1, TakenPlaced
<1> QED
  BY <1>1, <1>2, DeliverR

\* Merging two free blocks leaves those in use alone.
LEMMA MergeKeeps ==
    ASSUME IInv, pc = "walk", NEW next,
           blk' = IF Mergeable(next) THEN Merged(next) ELSE blk
    PROVE  /\ \A o : o \in DOMAIN blk' /\ blk'[o].mType # "LST_NULL" <=>
                     o \in DOMAIN blk /\ blk[o].mType # "LST_NULL"
           /\ \A o \in DOMAIN blk : blk[o].mType # "LST_NULL" => blk'[o] = blk[o]
<1>1. cur \in DOMAIN blk /\ blk \in [DOMAIN blk -> Blocks]
  BY WalkFacts
<1>2. CASE ~Mergeable(next)
  BY <1>2
<1>3. CASE Mergeable(next)
  <2>1. /\ DOMAIN blk' = DOMAIN blk \ {next}
        /\ \A o \in DOMAIN blk \ {next, cur} : blk'[o] = blk[o]
        /\ blk[cur].mType = "LST_NULL" /\ blk[next].mType = "LST_NULL"
    BY <1>3 DEF Merged, Mergeable, Live
  <2>2. cur # next =>
          blk'[cur] = [blk[cur] EXCEPT !.mSize =
                         @ + blk[next].mSize + SIZEOF_SCRIPT_ALLOC_ENTRY]
    BY <1>1, <1>3 DEF Merged
  <2>3. cur # next => blk'[cur].mType = "LST_NULL"
    BY <1>1, <2>1, <2>2 DEF Blocks
  <2> QED
    BY <2>1, <2>3
<1> QED
  BY <1>2, <1>3

\* The walk goes on: free blocks may merge.
LEMMA AdvanceR ==
    ASSUME IInv, RInv, Advance
    PROVE  RInv'
<1>1. pc = "walk" /\ held' = held
  BY DEF Advance
<1>2. /\ fr = "OK"
      /\ list # 0 => list \in DOMAIN blk /\ Live(list)
      /\ Building <=> list # 0
  BY <1>1, WalkFacts
<1>3. CASE Fault("LSRF_STACK_HEAP_COLLISION")
  BY <1>3 DEF Fault, RInv
<1>4. CASE /\ blk' = IF Mergeable(Next(cur)) THEN Merged(Next(cur)) ELSE blk
           /\ UNCHANGED <<fr, pc, want, list, left, split>>
  <2>1. /\ \A o : o \in DOMAIN blk' /\ blk'[o].mType # "LST_NULL" <=>
                  o \in DOMAIN blk /\ blk[o].mType # "LST_NULL"
        /\ \A o \in DOMAIN blk : blk[o].mType # "LST_NULL" => blk'[o] = blk[o]
    BY <1>1, <1>4, MergeKeeps
  <2>2. list' = list /\ pc' = pc /\ (Building' <=> Building)
    BY <1>4 DEF Building
  <2> QED
    BY <1>1, <1>2, <2>1, <2>2, SameLive
<1> QED
  BY <1>3, <1>4 DEF Advance

\* The list is complete, and the script's.
LEMMA FinishListR ==
    ASSUME IInv, RInv, FinishList
    PROVE  RInv'
<1>1. pc = "fill" /\ blk' = blk /\ fr = "OK" /\ list # 0
  BY DEF FinishList, IInv, Layout
<1>2. CASE Fault("LSRF_STACK_HEAP_COLLISION")
  BY <1>2 DEF Fault, RInv
<1>3. CASE held' = [held EXCEPT ![AddressOf(list)] = @ + 1] /\ BackToIdle
  <2>1. HeldRight /\ ElementsRight /\ OneList /\ NoneLost /\ ListRight /\ Building
    BY <1>1 DEF RInv, Building
  <2>2. PICK l \in DOMAIN blk : /\ l = list /\ blk[l].mType = "LST_LIST"
                                /\ blk[l].mReferenceCount = 1 /\ l \in Nat
                                /\ AddressOf(l) \in Addresses
    BY <2>1, HeaderFacts DEF IInv, Layout, ListRight, NoneLost, Live
  <2>3. PICK a \in Addresses : a = AddressOf(l) /\ OffsetOf(a) = l
    BY <2>2, AddressFacts
  <2>4. held \in [Addresses -> Nat] /\ 1 <= MaxRefs
    BY HeapAssumption DEF IInv, TypeOK
  <2>5. ~(held[a] > 0)
    BY <2>1, <2>2, <2>3 DEF HeldRight
  <2>6. \A b \in Addresses : held'[b] = IF b = a THEN 1 ELSE held[b]
    BY <1>3, <2>2, <2>3, <2>4, <2>5
  <2>7. ~Building' /\ pc' = "idle" /\ list' = 0
    BY <1>3 DEF BackToIdle, Building
  <2>8. \A m \in DOMAIN blk : Live(m) =>
          \A i \in 1 .. Len(blk[m].elems) : blk[m].elems[i] # a
    BY <2>1, <2>2, <2>3 DEF ElementsRight
  <2>9. HeldRight'
    <3> SUFFICES ASSUME NEW b \in Addresses, held'[b] > 0
                 PROVE  /\ OffsetOf(b) \in DOMAIN blk /\ Live(OffsetOf(b))
                        /\ blk[OffsetOf(b)].mReferenceCount = held'[b]
                        /\ held'[b] <= MaxRefs
                        /\ \A m \in DOMAIN blk : Live(m) =>
                             \A i \in 1 .. Len(blk[m].elems) : blk[m].elems[i] # b
      BY <1>1, <2>7 DEF HeldRight, Live
    <3>1. CASE b = a
      BY <2>2, <2>3, <2>4, <2>6, <2>8, <3>1 DEF Live
    <3>2. CASE b # a
      BY <2>1, <2>6, <3>2 DEF HeldRight
    <3> QED
      BY <3>1, <3>2
  <2>10. ElementsRight' /\ OneList'
    BY <1>1, <2>1 DEF ElementsRight, OneList, Live
  <2>11. NoneLost'
    <3> SUFFICES ASSUME NEW x \in DOMAIN blk, Live(x)
                 PROVE  /\ AddressOf(x) \in Addresses
                        /\ \/ held'[AddressOf(x)] > 0
                           \/ \E m \in DOMAIN blk : Live(m) /\
                                \E i \in 1 .. Len(blk[m].elems) :
                                  blk[m].elems[i] = AddressOf(x)
      BY <1>1 DEF NoneLost, Live
    <3>1. AddressOf(x) \in Addresses
      BY <2>1 DEF NoneLost
    <3>2. CASE x = l
      BY <2>3, <2>6, <3>2
    <3>3. CASE x # l
      <4>1. held[AddressOf(x)] > 0 => held'[AddressOf(x)] > 0
        BY <2>6, <3>1
      <4> QED
        BY <2>1, <2>2, <3>1, <3>3, <4>1 DEF NoneLost
    <3> QED
      BY <3>2, <3>3
  <2>12. ListRight'
    BY <2>7 DEF ListRight
  <2> QED
    BY <2>9, <2>10, <2>11, <2>12 DEF RInv
<1> QED
  BY <1>2, <1>3 DEF FinishList

\* The steps that move nothing.
LEMMA SameHeap ==
    ASSUME IInv, RInv, fr = "OK", blk' = blk, held' = held, list' = list,
           Building' <=> Building, pc # "drop", pc' # "drop"
    PROVE  RInv'
<1>1. Building => list \in DOMAIN blk /\ Live(list)
  BY DEF IInv, Layout, Live
<1> QED
  BY <1>1, SameLive

\* Every step keeps the references right.
THEOREM ReferencesKept == IInv /\ RInv /\ [HeapNext]_vars => RInv'
<1> SUFFICES ASSUME IInv, RInv, [HeapNext]_vars PROVE RInv'
  OBVIOUS
<1>1. ASSUME NEW n \in ScalarSizes, AddScalar(n) PROVE RInv'
  <2>1. /\ fr = "OK" /\ pc = "idle" /\ pc' = "walk" /\ list = 0 /\ list' = list
        /\ blk' = blk /\ held' = held
    BY <1>1 DEF AddScalar, StartWalk, Idle, heapVars, IInv, Layout
  <2> QED
    BY <2>1, SameHeap DEF Building
<1>2. ASSUME NEW shape \in ListShapes, AddList(shape) PROVE RInv'
  <2>1. /\ fr = "OK" /\ pc = "idle" /\ pc' = "walk" /\ list = 0 /\ list' = list
        /\ blk' = blk /\ held' = held
    BY <1>2 DEF AddList, StartWalk, Idle, heapVars, IInv, Layout
  <2> QED
    BY <2>1, SameHeap DEF Building
<1>3. ASSUME NEW a \in Addresses \cup {0}, IncreaseRefCount(a) PROVE RInv'
  BY <1>3, IncreaseR
<1>4. ASSUME NEW a \in Addresses, DecreaseRefCount(a) PROVE RInv'
  BY <1>4, DecreaseCounted, CountChanges
<1>5. ASSUME NEW a \in Addresses, DropList(a) PROVE RInv'
  BY <1>5, DropListR
<1>6. ASSUME NEW s \in StackTops, SetSP(s) PROVE RInv'
  <2>1. CASE Fault("LSRF_STACK_HEAP_COLLISION")
    BY <2>1 DEF Fault, RInv
  <2>2. CASE UNCHANGED <<blk, hp, fr, workVars, held>>
    <3>1. /\ fr = "OK" /\ pc = "idle" /\ pc' = pc /\ list' = list
          /\ blk' = blk /\ held' = held
      BY <1>6, <2>2 DEF SetSP, Idle, workVars
    <3> QED
      BY <3>1, SameHeap DEF Building
  <2> QED
    BY <1>6, <2>1, <2>2 DEF SetSP
<1>7. ASSUME AddElement PROVE RInv'
  <2>1. /\ fr = "OK" /\ pc = "fill" /\ pc' = "walk" /\ list' = list
        /\ blk' = blk /\ held' = held
    BY <1>7 DEF AddElement, StartWalk, heapVars, IInv, Layout
  <2> QED
    BY <2>1, SameHeap DEF Building
<1>8. CASE PlaceSplit
  BY <1>8, PlaceSplitR
<1>9. CASE PlaceWhole
  BY <1>9, PlaceWholeR
<1>10. CASE Advance
  BY <1>10, AdvanceR
<1>11. CASE FinishList
  BY <1>11, FinishListR
<1>12. CASE DropElement
  BY <1>12, DropElementR
<1>13. CASE FinishDrop
  <2>1. PICK a \in Addresses, n \in Nat : Counted(a, n)
    BY <1>13, FinishDropCounted
  <2> QED
    BY <2>1, CountChanges
<1>14. CASE UNCHANGED vars
  <2>1. CASE fr # "OK"
    BY <1>14, <2>1 DEF vars, heapVars, RInv
  <2>2. CASE fr = "OK"
    <3>1. /\ blk' = blk /\ held' = held /\ list' = list /\ pc' = pc
          /\ Building => list \in DOMAIN blk /\ Live(list)
      BY <1>14 DEF vars, heapVars, workVars, IInv, Layout, Live
    <3>2. Building' <=> Building
      BY <3>1 DEF Building
    <3> QED
      BY <2>2, <3>1, <3>2, SameLive
  <2> QED
    BY <2>1, <2>2
<1> QED
  BY <1>1, <1>2, <1>3, <1>4, <1>5, <1>6, <1>7, <1>8, <1>9, <1>10, <1>11, <1>12, <1>13,
     <1>14 DEF HeapNext, Client, Working

\* References and counts agree in every state of every script.
THEOREM AlwaysRInv == Spec => []RInv
<1>1. Init => RInv
  BY InitRInv
<1>2. IInv /\ RInv /\ [HeapNext]_vars => RInv'
  BY ReferencesKept
<1> QED
  BY <1>1, <1>2, AlwaysIInv, PTL DEF Spec

\* A stored count is the number of references there are to the block, and
\* nothing in use has none: no block is lost, none is freed early.
THEOREM CountsAreExact == Spec => []CountsExact
<1>1. IInv /\ RInv => CountsExact
  BY CountsFollow
<1> QED
  BY <1>1, AlwaysIInv, AlwaysRInv, PTL

\* What the script holds, and what a list in use names, is a block in use.
THEOREM NothingDangles == Spec => []NoDangling
<1>1. IInv /\ RInv => NoDangling
  BY CountsFollow
<1> QED
  BY <1>1, AlwaysIInv, AlwaysRInv, PTL

----------------------------------------------------------------------------
\* What a step does to the objects the script holds.

\* The elements a list has and those still to come are as many as were asked
\* for.
ListLengths ==
    /\ Building =>
         \E shape \in ListShapes :
           Len(blk[list].elems) + Len(left) + (IF pc = "walk" THEN 1 ELSE 0) = Len(shape)
    /\ pc = "walk" /\ list = 0 /\ want.mType = "LST_LIST" => left \in ListShapes

\* Blocks in use, but for the list being filled, are the same after the step.
OthersKept ==
    \A o \in DOMAIN blk : Live(o) /\ ~(Building /\ o = list) =>
      o \in DOMAIN blk' /\ blk'[o] = blk[o]

\* A step the script does not see.
Unseen == held' = held /\ pc # "drop" /\ pc' # "drop" /\ OthersKept

\* An object is handed out.
Appears(a) ==
    /\ held[a] = 0 /\ held' = [held EXCEPT ![a] = 1]
    /\ pc # "drop" /\ pc' # "drop" /\ OthersKept
    /\ OffsetOf(a) \in DOMAIN blk' /\ blk'[OffsetOf(a)].mReferenceCount = 1
    /\ blk'[OffsetOf(a)].mType \in {"LST_DATA", "LST_LIST"}
    /\ Len(blk'[OffsetOf(a)].elems) \in Lengths
    /\ fr' = "OK"

LEMMA ListLengthsInit == Init => ListLengths
BY DEF Init, ListLengths, Building

\* A block is delivered: to the list, as the list, or to the script.
LEMMA DeliverSeen ==
    ASSUME IInv, RInv, ListLengths, pc = "walk", ~Live(cur), NEW b, NEW carved,
           Placed(b), Deliver(b, carved)
    PROVE  /\ ListLengths'
           /\ Unseen \/ (fr' = "OK" => \E a \in Addresses : Appears(a))
<1>1. /\ fr = "OK" /\ cur \in DOMAIN blk /\ want.mType \in {"LST_DATA", "LST_LIST"}
      /\ want.mType = "LST_LIST" => list = 0
      /\ Building <=> list # 0
      /\ list # 0 => list \in DOMAIN blk /\ Live(list)
      /\ held \in [Addresses -> Nat] /\ left \in Seq(ScalarSizes)
  BY WalkFacts
<1>2. PICK c \in Nat : /\ c = cur /\ c > 0 /\ AddressOf(c) \in Addresses
                       /\ OffsetOf(AddressOf(c)) = c
  BY CurAddress, AddressFacts
<1>3. held[AddressOf(c)] = 0
  BY <1>1, <1>2, FreeUnknown
<1>4. /\ c \in DOMAIN b /\ b[c].mType = want.mType
      /\ b[c].mReferenceCount = 1 /\ b[c].elems = <<>>
      /\ \A o \in DOMAIN blk : Live(o) => b[o] = blk[o] /\ o # c /\ o \in DOMAIN b
  BY <1>2 DEF Placed
<1>5. CASE DeliverList(b, carved)
  <2>1. /\ blk' = b /\ pc' = "fill" /\ list' = c /\ held' = held /\ left' = left
        /\ want.mType = "LST_LIST" /\ list = 0
    BY <1>1, <1>2, <1>5 DEF DeliverList
  <2>2. left \in ListShapes /\ Len(left) \in Nat
    BY <1>1, <2>1 DEF ListLengths
  <2>3. Len(blk'[list'].elems) + Len(left') + 0 = Len(left)
    BY <1>4, <2>1, <2>2
  <2>4. ListLengths'
    BY <2>1, <2>2, <2>3 DEF ListLengths
  <2>5. Unseen
    BY <1>4, <2>1 DEF Unseen, OthersKept
  <2> QED
    BY <2>4, <2>5
<1>6. CASE DeliverElement(b)
  <2>1. PICK l \in DOMAIN blk : /\ l = list /\ Live(l) /\ l # 0 /\ Building
                                /\ blk[l].elems \in Seq(Addresses) /\ l \in DOMAIN b
                                /\ b[l] = blk[l] /\ blk[l] \in Blocks
    BY <1>1, <1>4, <1>6, HeaderFacts DEF DeliverElement, Blocks
  <2>2. /\ blk' = [b EXCEPT ![l].elems = Append(@, AddressOf(c))]
        /\ pc' = "fill" /\ list' = l /\ held' = held /\ left' = left
    BY <1>2, <1>6, <2>1 DEF DeliverElement
  <2>3. blk'[l].elems = Append(blk[l].elems, AddressOf(c))
    BY <2>1, <2>2 DEF Blocks
  <2>4. PICK n \in Nat : n = Len(blk[l].elems) /\ Len(blk'[l].elems) = n + 1
    BY <1>2, <2>1, <2>3
  <2>5. PICK m \in Nat : m = Len(left)
    BY <1>1
  <2>6. PICK shape \in ListShapes : n + m + 1 = Len(shape)
    BY <2>1, <2>4, <2>5 DEF ListLengths
  <2>7. (n + 1) + m + 0 = Len(shape)
    BY <2>6
  <2>8. ListLengths'
    BY <2>2, <2>4, <2>5, <2>7 DEF ListLengths
  <2>9. \A o \in DOMAIN blk : Live(o) /\ o # l => o \in DOMAIN blk' /\ blk'[o] = blk[o]
    BY <1>4, <2>2
  <2>10. Unseen
    BY <2>1, <2>2, <2>9 DEF Unseen, OthersKept
  <2> QED
    BY <2>8, <2>10
<1>7. CASE DeliverValue(b)
  <2>1. /\ blk' = b /\ pc' = "idle" /\ list' = 0 /\ list = 0
        /\ held' = [held EXCEPT ![AddressOf(c)] = @ + 1] /\ want.mType = "LST_DATA"
    BY <1>2, <1>7 DEF DeliverValue, BackToIdle
  <2>2. held' = [held EXCEPT ![AddressOf(c)] = 1]
    BY <1>1, <1>2, <1>3, <2>1
  <2>3. OthersKept
    BY <1>4, <2>1 DEF OthersKept
  <2>4. Len(b[c].elems) \in Lengths
    BY <1>4 DEF Lengths
  <2>5. fr' = "OK" => Appears(AddressOf(c))
    BY <1>2, <1>3, <1>4, <2>1, <2>2, <2>3, <2>4 DEF Appears
  <2>6. ListLengths'
    BY <2>1 DEF ListLengths, Building
  <2> QED
    BY <1>2, <2>5, <2>6
<1> QED
  BY <1>5, <1>6, <1>7 DEF Deliver

\* A fault in the middle of an operation, or with nothing done yet.
LEMMA FaultUnseen ==
    ASSUME NEW f, Fault(f), held' = held, pc # "drop", OthersKept
    PROVE  Unseen /\ ListLengths'
BY DEF Fault, BackToIdle, Unseen, ListLengths, Building

\* What a step of the heap does, as the script sees it.
LEMMA StepSeen ==
    ASSUME IInv, RInv, ListLengths, HeapNext
    PROVE  /\ fr = "OK" /\ ListLengths'
           /\ \/ Unseen
              \/ fr' = "OK" /\ \E a \in Addresses : Appears(a)
              \/ Idle /\ \E a \in Addresses :
                   \E n \in Nat : (n = held[a] + 1 \/ n = held[a] - 1) /\ Counted(a, n)
              \/ \E a \in Addresses : DropList(a)
              \/ DropElement
              \/ pc = "drop" /\ AddressOf(list) \in Addresses /\ Counted(AddressOf(list), 0)
<1>1. ASSUME NEW n \in ScalarSizes, AddScalar(n)
      PROVE  fr = "OK" /\ ListLengths' /\ Unseen
  <2>1. /\ fr = "OK" /\ pc = "idle" /\ pc' = "walk" /\ list' = 0
        /\ blk' = blk /\ held' = held /\ want' = [mType |-> "LST_DATA", mSize |-> n]
    BY <1>1 DEF AddScalar, StartWalk, Idle, heapVars, IInv, Layout
  <2> QED
    BY <2>1 DEF Unseen, OthersKept, ListLengths, Building
<1>2. ASSUME NEW shape \in ListShapes, AddList(shape)
      PROVE  fr = "OK" /\ ListLengths' /\ Unseen
  <2>1. /\ fr = "OK" /\ pc = "idle" /\ pc' = "walk" /\ list' = 0 /\ left' = shape
        /\ blk' = blk /\ held' = held
    BY <1>2 DEF AddList, StartWalk, Idle, heapVars, IInv, Layout
  <2> QED
    BY <2>1 DEF Unseen, OthersKept, ListLengths, Building
<1>3. ASSUME NEW a \in Addresses \cup {0}, IncreaseRefCount(a)
      PROVE  /\ fr = "OK" /\ ListLengths'
             /\ \/ Unseen
                \/ Idle /\ \E x \in Addresses :
                     \E n \in Nat : (n = held[x] + 1 \/ n = held[x] - 1) /\ Counted(x, n)
  <2>1. Idle /\ fr = "OK" /\ pc = "idle"
    BY <1>3 DEF IncreaseRefCount, Idle
  <2>2. CASE ~InHeap(a)
    <3>1. Fault("LSRF_BOUND_CHECK_ERROR") /\ blk' = blk /\ held' = held
      BY <1>3, <2>2 DEF IncreaseRefCount
    <3> QED
      BY <2>1, <3>1, FaultUnseen DEF OthersKept
  <2>3. CASE InHeap(a)
    <3>1. a \in Addresses /\ held[a] + 1 \in Nat /\ Counted(a, held[a] + 1)
      BY <1>3, <2>3, IncreaseCounted
    <3>2. pc' = "idle"
      BY <1>3, <2>1, <2>3 DEF IncreaseRefCount, workVars
    <3> QED
      BY <2>1, <3>1, <3>2 DEF ListLengths, Building
  <2> QED
    BY <2>2, <2>3
<1>4. ASSUME NEW a \in Addresses, DecreaseRefCount(a)
      PROVE  /\ fr = "OK" /\ ListLengths' /\ Idle
             /\ \E n \in Nat : n = held[a] - 1 /\ Counted(a, n)
  <2>1. held[a] - 1 \in Nat /\ Counted(a, held[a] - 1)
    BY <1>4, DecreaseCounted
  <2>2. Idle /\ fr = "OK" /\ (pc' = "idle" \/ pc' = pc) /\ pc = "idle"
    BY <1>4 DEF DecreaseRefCount, DecreaseLeaf, Fault, BackToIdle, Idle, workVars
  <2> QED
    BY <2>1, <2>2 DEF ListLengths, Building
<1>5. ASSUME NEW a \in Addresses, DropList(a)
      PROVE  fr = "OK" /\ ListLengths'
  BY <1>5 DEF DropList, Idle, ListLengths, Building
<1>6. ASSUME NEW s \in StackTops, SetSP(s)
      PROVE  fr = "OK" /\ ListLengths' /\ Unseen
  <2>1. Idle /\ fr = "OK" /\ pc = "idle" /\ blk' = blk /\ held' = held
    BY <1>6 DEF SetSP, Idle
  <2>2. CASE Fault("LSRF_STACK_HEAP_COLLISION")
    BY <2>1, <2>2, FaultUnseen DEF OthersKept
  <2>3. CASE UNCHANGED <<blk, hp, fr, workVars, held>>
    <3>1. pc' = "idle"
      BY <2>1, <2>3 DEF workVars
    <3> QED
      BY <2>1, <3>1 DEF Unseen, OthersKept, ListLengths, Building
  <2> QED
    BY <1>6, <2>2, <2>3 DEF SetSP
<1>7. ASSUME AddElement PROVE fr = "OK" /\ ListLengths' /\ Unseen
  <2>1. /\ fr = "OK" /\ pc = "fill" /\ pc' = "walk" /\ list' = list /\ list # 0
        /\ blk' = blk /\ held' = held /\ left # <<>> /\ left' = Tail(left)
        /\ left \in Seq(ScalarSizes)
    BY <1>7 DEF AddElement, StartWalk, heapVars, IInv, Layout, TypeOK
  <2>2. PICK m \in Nat : Len(left) = m + 1 /\ Len(left') = m
    <3>1. PICK m \in Nat : Len(left) = m + 1
      BY <2>1
    <3> QED
      BY <2>1, <3>1
  <2>3. Building
    BY <2>1 DEF Building
  <2>4. blk[list].elems \in Seq(Addresses)
    BY <2>3, HeaderFacts DEF IInv, Layout, Blocks
  <2>5. PICK k \in Nat : k = Len(blk[list].elems)
    BY <2>4
  <2>6. PICK shape \in ListShapes : k + (m + 1) + 0 = Len(shape)
    BY <2>1, <2>2, <2>3, <2>5 DEF ListLengths
  <2>7. k + m + 1 = Len(shape)
    BY <2>6
  <2>8. ListLengths'
    BY <2>1, <2>2, <2>5, <2>7 DEF ListLengths
  <2> QED
    BY <2>1, <2>8 DEF Unseen, OthersKept
<1>8. ASSUME PlaceSplit
      PROVE  /\ fr = "OK" /\ ListLengths'
             /\ Unseen \/ (fr' = "OK" /\ \E a \in Addresses : Appears(a))
  <2>1. pc = "walk" /\ ~Live(cur) /\ SplitFits(cur) /\ fr = "OK"
    BY <1>8, WalkFacts DEF PlaceSplit
  <2>2. Placed(Carved)
    BY <2>1, CarvedPlaced
  <2>3. CASE Deliver(Carved, TRUE) /\ fr' = fr
    BY <2>1, <2>2, <2>3, DeliverSeen
  <2>4. CASE Deliver(Carved, FALSE) /\ fr' = fr
    BY <2>1, <2>2, <2>4, DeliverSeen
  <2>5. CASE blk' = Carved /\ Fault("LSRF_STACK_HEAP_COLLISION") /\ held' = held
    <3>1. OthersKept
      BY <2>2, <2>5 DEF Placed, OthersKept
    <3> QED
      BY <2>1, <2>5, <3>1, FaultUnseen
  <2>6. CASE /\ blk' = PutBlock(cur, Block(want.mType, want.mSize, 1))
             /\ Fault("LSRF_BOUND_CHECK_ERROR") /\ held' = held
    <3>1. OthersKept
      BY <2>1, <2>6 DEF PutBlock, OthersKept
    <3> QED
      BY <2>1, <2>6, <3>1, FaultUnseen
  <2> QED
    BY <1>8, <2>3, <2>4, <2>5, <2>6 DEF PlaceSplit, SplitOutside, SplitInside
<1>9. ASSUME PlaceWhole
      PROVE  /\ fr = "OK" /\ ListLengths'
             /\ Unseen \/ (fr' = "OK" /\ \E a \in Addresses : Appears(a))
  <2>1. pc = "walk" /\ ~Live(cur) /\ Deliver(Taken, FALSE) /\ fr' = fr /\ fr = "OK"
    BY <1>9, WalkFacts DEF PlaceWhole
  <2>2. Placed(Taken)
    BY <2>1, TakenPlaced
  <2> QED
    BY <2>1, <2>2, DeliverSeen
<1>10. ASSUME Advance PROVE fr = "OK" /\ ListLengths' /\ Unseen
  <2>1. pc = "walk" /\ held' = held /\ fr = "OK"
    BY <1>10, WalkFacts DEF Advance
  <2>2. CASE Fault("LSRF_STACK_HEAP_COLLISION")
    <3>1. OthersKept
      <4>1. CASE blk' = blk
        BY <4>1 DEF OthersKept
      <4>2. CASE blk' = IF Mergeable(Next(cur)) THEN Merged(Next(cur)) ELSE blk
        BY <2>1, <4>2, MergeKeeps DEF OthersKept, Live
      <4> QED
        BY <1>10, <4>1, <4>2 DEF Advance
    <3> QED
      BY <2>1, <2>2, <3>1, FaultUnseen
  <2>3. CASE /\ blk' = IF Mergeable(Next(cur)) THEN Merged(Next(cur)) ELSE blk
             /\ UNCHANGED <<fr, pc, want, list, left, split>>
    <3>1. OthersKept
      BY <2>1, <2>3, MergeKeeps DEF OthersKept, Live
    <3>2. Building => list \in DOMAIN blk /\ Live(list) /\ blk'[list] = blk[list]
      BY <2>1, <2>3, MergeKeeps, WalkFacts DEF Live
    <3>3. ListLengths'
      BY <2>3, <3>2 DEF ListLengths, Building
    <3> QED
      BY <2>1, <2>3, <3>1, <3>3 DEF Unseen
  <2> QED
    BY <1>10, <2>2, <2>3 DEF Advance
<1>11. ASSUME FinishList
       PROVE  /\ fr = "OK" /\ ListLengths'
              /\ Unseen \/ (fr' = "OK" /\ \E a \in Addresses : Appears(a))
  <2>1. pc = "fill" /\ left = <<>> /\ blk' = blk /\ fr = "OK" /\ list # 0 /\ Building
    BY <1>11 DEF FinishList, IInv, Layout, Building
  <2>2. CASE Fault("LSRF_STACK_HEAP_COLLISION") /\ held' = held
    BY <2>1, <2>2, FaultUnseen DEF OthersKept
  <2>3. CASE /\ held' = [held EXCEPT ![AddressOf(list)] = @ + 1]
             /\ BackToIdle /\ fr' = fr
    <3>1. PICK l \in DOMAIN blk : /\ l = list /\ blk[l].mType = "LST_LIST"
                                  /\ blk[l].mReferenceCount = 1 /\ l \in Nat
                                  /\ AddressOf(l) \in Addresses
                                  /\ blk[l].elems \in Seq(Addresses)
      BY <2>1, HeaderFacts DEF IInv, Layout, RInv, ListRight, NoneLost, Live, Blocks
    <3>2. PICK a \in Addresses : a = AddressOf(l) /\ OffsetOf(a) = l
      BY <3>1, AddressFacts
    <3>3. held \in [Addresses -> Nat] /\ ~(held[a] > 0)
      BY <2>1, <3>1, <3>2 DEF RInv, HeldRight, IInv, TypeOK
    <3>4. held[a] = 0 /\ held' = [held EXCEPT ![a] = 1]
      <4>1. held[a] \in Nat /\ held[a] = 0
        BY <3>3
      <4>2. held' = [held EXCEPT ![a] = @ + 1]
        BY <2>3, <3>1, <3>2
      <4> QED
        BY <4>1, <4>2
    <3>5. PICK k \in Nat : k = Len(blk[l].elems)
      BY <3>1
    <3>6. PICK shape \in ListShapes : k + 0 + 0 = Len(shape)
      BY <2>1, <3>1, <3>5 DEF ListLengths
    <3>7. k \in Lengths
      BY <3>5, <3>6 DEF Lengths
    <3>8. pc' = "idle" /\ ListLengths'
      BY <2>3 DEF BackToIdle, ListLengths, Building
    <3>9. Appears(a)
      BY <2>1, <2>3, <3>1, <3>2, <3>4, <3>5, <3>7, <3>8 DEF Appears, OthersKept
    <3> QED
      BY <2>1, <2>3, <3>8, <3>9
  <2> QED
    BY <1>11, <2>2, <2>3 DEF FinishList
<1>12. ASSUME DropElement PROVE fr = "OK" /\ ListLengths'
  <2>1. pc = "drop" /\ fr = "OK"
    BY <1>12 DEF DropElement, IInv, Layout
  <2>2. pc' \in {"drop", "idle"}
    BY <1>12, <2>1 DEF DropElement, Fault, BackToIdle, workVars
  <2> QED
    BY <2>1, <2>2 DEF ListLengths, Building
<1>13. ASSUME FinishDrop
       PROVE  /\ fr = "OK" /\ ListLengths' /\ pc = "drop"
              /\ AddressOf(list) \in Addresses /\ Counted(AddressOf(list), 0)
  <2>1. pc' = "idle" /\ pc = "drop"
    BY <1>13 DEF FinishDrop, BackToIdle
  <2> QED
    BY <1>13, <2>1, FinishDropCounted DEF ListLengths, Building, Counted
<1> QED
  BY <1>1, <1>2, <1>3, <1>4, <1>5, <1>6, <1>7, <1>8, <1>9, <1>10, <1>11, <1>12, <1>13
     DEF HeapNext, Client, Working

\* Dropping an element touches the element and the list alone.
LEMMA DropElementSeen ==
    ASSUME IInv, RInv, DropElement
    PROVE  /\ pc = "drop" /\ pc' = "drop" /\ list' = list /\ held' = held
           /\ fr = "OK" /\ fr' = "OK" /\ DOMAIN blk' = DOMAIN blk /\ list \in DOMAIN blk
           /\ blk'[list].mType = blk[list].mType /\ blk'[list].mSize = blk[list].mSize
           /\ \A b \in Addresses : held[b] > 0 /\ OffsetOf(b) # list =>
                blk'[OffsetOf(b)] = blk[OffsetOf(b)]
<1>1. /\ pc = "drop" /\ blk[list].elems # <<>> /\ held' = held
      /\ fr = "OK" /\ ~Building
  BY DEF DropElement, IInv, Layout, Building
<1>2. HeldRight /\ ElementsRight /\ ListRight
  BY <1>1 DEF RInv
<1>3. PICK l \in DOMAIN blk : /\ l = list /\ blk[l].mType = "LST_LIST"
                              /\ blk[l] \in Blocks /\ blk[l].elems \in Seq(Addresses)
  BY <1>1, <1>2, HeaderFacts DEF ListRight, Blocks
<1>4. PICK a \in Addresses : a = Head(blk[l].elems) /\ a = blk[l].elems[1]
  BY <1>1, <1>3
<1>5. PICK o \in DOMAIN blk : /\ o = OffsetOf(a) /\ blk[o].mType = "LST_DATA"
                              /\ blk[o].mReferenceCount = 1 /\ o # l
  <2>1. 1 \in 1 .. Len(blk[l].elems)
    BY <1>1, <1>3
  <2> QED
    BY <1>2, <1>3, <1>4, <2>1 DEF ElementsRight, Live
<1>6. InHeap(a)
  BY <1>1, <1>5, LiveInHeap DEF Live
<1>7. S16(blk[o].mReferenceCount - 1) = 0
  BY <1>5, HeapAssumption DEF S16
<1>8. /\ blk' = [DecreasedAt(a) EXCEPT ![l].elems = Tail(@)]
      /\ UNCHANGED <<hp, fr, workVars>>
  BY <1>3, <1>4, <1>5, <1>6, <1>7 DEF DropElement
<1>9. /\ DOMAIN blk' = DOMAIN blk
      /\ \A x \in DOMAIN blk : x # l /\ x # o => blk'[x] = blk[x]
      /\ blk'[l] = [blk[l] EXCEPT !.elems = Tail(@)]
  BY <1>3, <1>5, <1>8 DEF DecreasedAt
<1>10. blk'[l].mType = blk[l].mType /\ blk'[l].mSize = blk[l].mSize
  BY <1>3, <1>9 DEF Blocks
<1>11. ASSUME NEW b \in Addresses, held[b] > 0
       PROVE  OffsetOf(b) \in DOMAIN blk /\ OffsetOf(b) # o
  <2>1. OffsetOf(b) \in DOMAIN blk /\ b # a
    BY <1>1, <1>2, <1>3, <1>4, <1>11 DEF HeldRight, Live
  <2> QED
    BY <1>5, <2>1, AddressFacts
<1> QED
  BY <1>1, <1>3, <1>8, <1>9, <1>10, <1>11 DEF workVars

\* A block somebody holds is not touched by what the script does not see.
LEMMA HeldKept ==
    ASSUME RInv, fr = "OK", OthersKept, NEW a \in Addresses, held[a] > 0
    PROVE  /\ OffsetOf(a) \in DOMAIN blk /\ OffsetOf(a) \in DOMAIN blk'
           /\ blk'[OffsetOf(a)] = blk[OffsetOf(a)]
BY DEF RInv, HeldRight, OthersKept

LEMMA StaysInStep ==
    ASSUME IInv, RInv, ListLengths, HeapNext, NEW a \in Addresses, held[a] > 0, held'[a] > 0
    PROVE  /\ OffsetOf(a) \in DOMAIN blk'
           /\ blk'[OffsetOf(a)].mSize = blk[OffsetOf(a)].mSize
           /\ blk'[OffsetOf(a)].mType = blk[OffsetOf(a)].mType
           /\ pc' # "drop" => blk'[OffsetOf(a)].elems = blk[OffsetOf(a)].elems
<1>1. fr = "OK" /\ OffsetOf(a) \in DOMAIN blk /\ held \in [Addresses -> Nat]
  BY StepSeen DEF RInv, HeldRight, IInv, TypeOK
<1>2. CASE OthersKept
  BY <1>1, <1>2, HeldKept
<1>3. ASSUME NEW x \in Addresses, NEW n \in Nat, Counted(x, n)
      PROVE  /\ OffsetOf(a) \in DOMAIN blk'
             /\ blk'[OffsetOf(a)].mSize = blk[OffsetOf(a)].mSize
             /\ blk'[OffsetOf(a)].mType = blk[OffsetOf(a)].mType
             /\ blk'[OffsetOf(a)].elems = blk[OffsetOf(a)].elems
  <2>1. CASE a = x
    <3>1. n # 0
      BY <1>1, <1>3, <2>1 DEF Counted
    <3> QED
      BY <1>1, <1>3, <2>1, <3>1 DEF Counted
  <2>2. CASE a # x
    <3>1. OffsetOf(a) # OffsetOf(x)
      BY <2>2, AddressFacts
    <3> QED
      BY <1>1, <1>3, <3>1 DEF Counted
  <2> QED
    BY <2>1, <2>2
<1>4. ASSUME NEW x \in Addresses, DropList(x)
      PROVE  blk' = blk
  BY <1>4 DEF DropList, heapVars
<1>5. CASE DropElement
  <2>1. CASE OffsetOf(a) = list
    BY <1>1, <1>5, <2>1, DropElementSeen
  <2>2. CASE OffsetOf(a) # list
    BY <1>1, <1>5, <2>2, DropElementSeen
  <2> QED
    BY <2>1, <2>2
<1>6. CASE pc = "drop" /\ AddressOf(list) \in Addresses /\ Counted(AddressOf(list), 0)
  <2>1. 0 \in Nat
    OBVIOUS
  <2> QED
    BY <1>3, <1>6, <2>1
<1> QED
  BY <1>1, <1>2, <1>3, <1>4, <1>5, <1>6, StepSeen DEF Unseen, Appears

\* The three invariants together.
THEOREM AlwaysListLengths == Spec => [](IInv /\ RInv /\ ListLengths)
<1>1. Init => ListLengths
  BY ListLengthsInit
<1>2. IInv /\ RInv /\ ListLengths /\ [HeapNext]_vars => ListLengths'
  <2>1. ASSUME ListLengths, UNCHANGED vars PROVE ListLengths'
    BY <2>1 DEF vars, heapVars, workVars, ListLengths, Building
  <2> QED
    BY <2>1, StepSeen
<1> QED
  BY <1>1, <1>2, AlwaysIInv, AlwaysRInv, PTL DEF Spec

\* What the script holds keeps its place, its kind, its size and its entries
\* through whatever the heap does for others.
THEOREM HeldStay == Spec => HeldBlocksStay
<1>1. ASSUME IInv /\ RInv /\ ListLengths, [HeapNext]_vars
      PROVE  [\A a \in BlockAddresses : held[a] > 0 /\ held'[a] > 0 =>
                LET o == OffsetOf(a) IN
                /\ o \in DOMAIN blk'
                /\ blk'[o].mSize = blk[o].mSize
                /\ blk'[o].mType = blk[o].mType
                /\ pc' # "drop" => blk'[o].elems = blk[o].elems]_vars
  BY <1>1, StaysInStep DEF BlockAddresses
<1> QED
  BY <1>1, AlwaysListLengths, PTL DEF Spec, HeldBlocksStay

----------------------------------------------------------------------------
\* The heap implements the store of counted objects.

\* What the heap shows of itself, as a store.
Shown == [a \in Visible |-> ObjectAt(OffsetOf(a))]

LEMMA KnownAddresses ==
    ASSUME NEW D, D \subseteq Nat
    PROVE  \A a : a \in {AddressOf(o) : o \in D} \cap Addresses <=>
                  a \in Addresses /\ OffsetOf(a) \in D
BY AddressFacts

LEMMA ShownNow ==
    ASSUME IInv
    PROVE  \A a : a \in Visible <=> /\ a \in Addresses /\ OffsetOf(a) \in DOMAIN blk
                                    /\ held[a] > 0 /\ ~(pc = "drop" /\ OffsetOf(a) = list)
<1>1. DOMAIN blk \subseteq Nat
  BY HeaderFacts
<1> QED
  BY <1>1, KnownAddresses DEF Visible, BlockAddresses

LEMMA ShownNext ==
    ASSUME IInv'
    PROVE  \A a : a \in Visible' <=> /\ a \in Addresses /\ OffsetOf(a) \in DOMAIN blk'
                                     /\ held'[a] > 0
                                     /\ ~(pc' = "drop" /\ OffsetOf(a) = list')
<1>1. DOMAIN blk' \subseteq HR .. HeapEnd
  BY DEF IInv, TypeOK
<1>2. DOMAIN blk' \subseteq Nat
  BY <1>1, ConstantFacts
<1> QED
  BY <1>2, KnownAddresses DEF Visible, BlockAddresses

\* The objects shown are the same when their blocks are.
LEMMA SameShown ==
    ASSUME Visible' = Visible,
           \A a \in Visible : ObjectAt(OffsetOf(a))' = ObjectAt(OffsetOf(a))
    PROVE  Shown' = Shown
BY DEF Shown

LEMMA UnseenShown ==
    ASSUME IInv, IInv', RInv, fr = "OK", Unseen
    PROVE  Shown' = Shown
<1>1. \A a : a \in Visible <=> a \in Visible'
  BY ShownNow, ShownNext, HeldKept DEF Unseen
<1>2. \A a \in Visible : ObjectAt(OffsetOf(a))' = ObjectAt(OffsetOf(a))
  BY ShownNow, HeldKept DEF Unseen, ObjectAt
<1>3. Visible' = Visible
  BY <1>1
<1> QED
  BY <1>2, <1>3, SameShown

LEMMA AppearsShown ==
    ASSUME IInv, IInv', RInv, fr = "OK", NEW a \in Addresses, Appears(a)
    PROVE  Store!New
<1>1. held \in [Addresses -> Nat]
  BY DEF IInv, TypeOK
<1>2. \A b \in Addresses : held'[b] = IF b = a THEN 1 ELSE held[b]
  BY <1>1 DEF Appears
<1>3. a \notin Visible /\ a \in Visible'
  BY <1>2, ShownNow, ShownNext DEF Appears
<1>4. \A b : b \in Visible' <=> b \in Visible \cup {a}
  BY <1>2, <1>3, ShownNow, ShownNext, HeldKept DEF Appears
<1>5. ASSUME NEW b \in Visible
      PROVE  ObjectAt(OffsetOf(b))' = ObjectAt(OffsetOf(b))
  BY <1>5, ShownNow, HeldKept DEF Appears, ObjectAt
<1>6. PICK v : v = [kind |-> blk'[OffsetOf(a)].mType,
                    length |-> Len(blk'[OffsetOf(a)].elems)]
  OBVIOUS
<1>7. v \in [kind : {"LST_DATA", "LST_LIST"}, length : Lengths]
  BY <1>6 DEF Appears
<1>8. ObjectAt(OffsetOf(a))' = [count |-> 1, value |-> v]
  BY <1>6 DEF Appears, ObjectAt
<1>9. Visible' = Visible \cup {a}
  BY <1>4
<1>10. /\ DOMAIN Shown = Visible /\ DOMAIN Shown' = Visible \cup {a}
       /\ Shown' = [b \in DOMAIN Shown \cup {a} |->
                      IF b = a THEN [count |-> 1, value |-> v] ELSE Shown[b]]
  BY <1>3, <1>5, <1>8, <1>9 DEF Shown
<1> QED
  BY <1>3, <1>7, <1>10 DEF Store!New, Shown

\* A reference more or less, while no list is being dropped.
LEMMA CountedShown ==
    ASSUME IInv, IInv', RInv, Idle, NEW a \in Addresses, NEW n \in Nat,
           n = held[a] + 1 \/ n = held[a] - 1, Counted(a, n)
    PROVE  \E x \in DOMAIN Shown : Store!Retain(x) \/ Store!Release(x)
<1>1. held \in [Addresses -> Nat] /\ fr = "OK" /\ pc = "idle" /\ pc' # "drop"
  BY DEF IInv, TypeOK, Idle, Counted
<1>2. PICK h \in Nat : h = held[a] /\ h > 0 /\ (n = h + 1 \/ n = h - 1)
  BY <1>1 DEF Counted
<1>3. \A b \in Addresses : held'[b] = IF b = a THEN n ELSE held[b]
  BY <1>1 DEF Counted
<1>4. OffsetOf(a) \in DOMAIN blk /\ blk[OffsetOf(a)].mReferenceCount = h
  BY <1>1, <1>2 DEF RInv, HeldRight
<1>5. a \in Visible
  BY <1>1, <1>2, <1>4, ShownNow
<1>6. \A b : b \in Visible' <=> b \in Visible /\ (b # a \/ n # 0)
  BY <1>1, <1>2, <1>3, <1>4, ShownNow, ShownNext DEF Counted
<1>7. ASSUME NEW b \in Visible, b # a
      PROVE  ObjectAt(OffsetOf(b))' = ObjectAt(OffsetOf(b))
  <2>1. OffsetOf(b) # OffsetOf(a) /\ OffsetOf(b) \in DOMAIN blk
    BY <1>7, ShownNow, AddressFacts
  <2> QED
    BY <2>1 DEF Counted, ObjectAt
<1>8. n # 0 => ObjectAt(OffsetOf(a))' = [ObjectAt(OffsetOf(a)) EXCEPT !.count = n]
  BY DEF Counted, ObjectAt
<1>9. ObjectAt(OffsetOf(a)).count = h
  BY <1>4 DEF ObjectAt
<1>10. CASE n = 0
  <2>1. h = 1
    BY <1>2, <1>10
  <2>2. Visible' = Visible \ {a}
    BY <1>6, <1>10
  <2>3. Shown' = [b \in DOMAIN Shown \ {a} |-> Shown[b]]
    BY <1>7, <2>2 DEF Shown
  <2>4. a \in DOMAIN Shown /\ Shown[a].count = 1
    BY <1>5, <1>9, <2>1 DEF Shown
  <2>5. Store!Release(a)
    BY <2>3, <2>4 DEF Store!Release, Shown
  <2> QED
    BY <2>4, <2>5
<1>11. CASE n # 0
  <2>1. Visible' = Visible
    BY <1>6, <1>11
  <2>2. Shown' = [Shown EXCEPT ![a].count = n]
    BY <1>5, <1>7, <1>8, <1>11, <2>1 DEF Shown
  <2>3. a \in DOMAIN Shown /\ Shown[a].count = h
    BY <1>5, <1>9 DEF Shown
  <2>4. CASE n = h + 1
    <3>1. Shown' = [Shown EXCEPT ![a].count = @ + 1]
      BY <2>2, <2>3, <2>4
    <3> QED
      BY <2>3, <3>1 DEF Store!Retain, Shown
  <2>5. CASE n = h - 1
    <3>1. Shown' = [Shown EXCEPT ![a].count = @ - 1] /\ h # 1
      BY <1>2, <1>11, <2>2, <2>3, <2>5
    <3> QED
      BY <2>3, <3>1 DEF Store!Release, Shown
  <2> QED
    BY <1>2, <2>4, <2>5
<1> QED
  BY <1>10, <1>11

\* A list counts as released when the drop of its elements starts.
LEMMA DropListShown ==
    ASSUME IInv, IInv', RInv, NEW a \in Addresses, DropList(a)
    PROVE  \E x \in DOMAIN Shown : Store!Release(x)
<1>1. /\ Idle /\ fr = "OK" /\ pc = "idle" /\ held[a] > 0 /\ LastRefToList(a)
      /\ pc' = "drop" /\ list' = OffsetOf(a) /\ blk' = blk /\ held' = held
  BY DEF DropList, heapVars, Idle
<1>2. OffsetOf(a) \in DOMAIN blk /\ blk[OffsetOf(a)].mReferenceCount = 1
  <2>1. ListRight'
    BY <1>1, DropListR DEF RInv, DropList, heapVars
  <2> QED
    BY <1>1, <2>1 DEF ListRight
<1>3. a \in Visible
  BY <1>1, <1>2, ShownNow
<1>4. \A b \in Addresses : OffsetOf(b) = OffsetOf(a) => b = a
  BY AddressFacts
<1>5. \A b : b \in Visible' <=> b \in Visible \ {a}
  BY <1>1, <1>4, ShownNow, ShownNext
<1>6. Visible' = Visible \ {a}
  BY <1>5
<1>7. Shown' = [b \in DOMAIN Shown \ {a} |-> Shown[b]]
  BY <1>1, <1>6 DEF Shown, ObjectAt
<1>8. a \in DOMAIN Shown /\ Shown[a].count = 1
  BY <1>2, <1>3 DEF Shown, ObjectAt
<1> QED
  BY <1>7, <1>8 DEF Store!Release, Shown

\* The rest of the drop changes nothing that is shown.
LEMMA DropElementShown ==
    ASSUME IInv, IInv', DropElement, RInv
    PROVE  Shown' = Shown
<1>1. \A a : a \in Visible' <=> a \in Visible
  BY DropElementSeen, ShownNow, ShownNext
<1>2. \A a \in Visible : blk'[OffsetOf(a)] = blk[OffsetOf(a)]
  BY DropElementSeen, ShownNow
<1>3. Visible' = Visible
  BY <1>1
<1> QED
  BY <1>2, <1>3, SameShown DEF ObjectAt

LEMMA FinishDropShown ==
    ASSUME IInv, IInv', RInv, pc = "drop", AddressOf(list) \in Addresses,
           Counted(AddressOf(list), 0)
    PROVE  Shown' = Shown
<1>1. list \in Nat
  BY DEF IInv, TypeOK
<1>2. PICK a \in Addresses : a = AddressOf(list) /\ OffsetOf(a) = list
  BY <1>1, AddressFacts
<1>3. held \in [Addresses -> Nat] /\ Counted(a, 0)
  BY <1>2 DEF IInv, TypeOK
<1>4. \A b \in Addresses : held'[b] = IF b = a THEN 0 ELSE held[b]
  BY <1>3 DEF Counted
<1>5. \A b \in Addresses : OffsetOf(b) = OffsetOf(a) <=> b = a
  BY AddressFacts
<1>6. \A b : b \in Visible' <=> b \in Visible
  BY <1>2, <1>3, <1>4, <1>5, ShownNow, ShownNext DEF Counted
<1>7. \A b \in Visible : blk'[OffsetOf(b)] = blk[OffsetOf(b)]
  BY <1>2, <1>3, <1>5, ShownNow DEF Counted
<1>8. Visible' = Visible
  BY <1>6
<1> QED
  BY <1>7, <1>8, SameShown DEF ObjectAt

\* The compiled globals are a store's initial objects.
LEMMA ShownInit == Init => Store!StoreInit
<1> SUFFICES ASSUME Init PROVE Store!StoreInit
  OBVIOUS
<1>1. IInv /\ RInv
  BY InitIInv, InitRInv
<1>2. fr = "OK" /\ DOMAIN blk = DOMAIN Statics \cup {SentinelAt}
      /\ \A o \in DOMAIN Statics : SentinelAt # o /\ blk[o] = Statics[o]
  <2>1. SentinelAt \notin DOMAIN Statics
    BY StaticsAssumption
  <2> QED
    BY <2>1 DEF Init
<1>3. \A a \in Addresses :
        held[a] = IF OffsetOf(a) \in DOMAIN Statics /\ a \notin StaticElements THEN 1 ELSE 0
  BY DEF Init
<1>4. ASSUME NEW a \in Visible
      PROVE  /\ a \in Addresses /\ ObjectAt(OffsetOf(a)).count = 1
             /\ ObjectAt(OffsetOf(a)).value \in
                  [kind : {"LST_DATA", "LST_LIST"}, length : Lengths]
  <2>1. PICK o \in DOMAIN Statics : o = OffsetOf(a) /\ a \in Addresses
    BY <1>1, <1>3, ShownNow
  <2>2. /\ blk[o].mReferenceCount = 1 /\ blk[o].mType \in {"LST_DATA", "LST_LIST"}
        /\ Len(blk[o].elems) \in Lengths
    BY <1>2, StaticsAssumption DEF Lengths
  <2> QED
    BY <2>1, <2>2 DEF ObjectAt
<1>5. DOMAIN Shown = Visible /\ \A a \in Visible : Shown[a] = ObjectAt(OffsetOf(a))
  BY DEF Shown
<1>6. DOMAIN Shown \subseteq Addresses
  BY <1>4, <1>5
<1>7. \A a \in DOMAIN Shown :
        /\ Shown[a].count = 1
        /\ Shown[a].value \in [kind : {"LST_DATA", "LST_LIST"}, length : Lengths]
  BY <1>4, <1>5
<1>8. (fr # "OK") = FALSE
  BY <1>2
<1> QED
  BY <1>6, <1>7, <1>8 DEF Store!StoreInit, Shown

\* Walks, splits, merges and element loops, together, are the store's steps
\* and stutterings: an address is handed out only when nobody holds it, an
\* object keeps its kind and length while it is held, and it goes with its
\* last reference.
THEOREM Implements == Spec => ImplementsStore
<1>1. ASSUME IInv /\ RInv /\ ListLengths, IInv', [HeapNext]_vars
      PROVE  [Store!StoreNext]_<<Shown, fr # "OK">>
  <2>1. CASE UNCHANGED vars
    <3>1. Shown' = Shown /\ fr' = fr
      BY <2>1 DEF vars, heapVars, workVars, Shown, Visible, BlockAddresses, ObjectAt
    <3> QED
      BY <3>1
  <2>2. CASE HeapNext
    <3>1. fr = "OK"
      BY <1>1, <2>2, StepSeen
    <3>2. CASE Unseen
      <4>1. Shown' = Shown
        BY <1>1, <3>1, <3>2, UnseenShown
      <4>2. CASE fr' = "OK"
        BY <3>1, <4>1, <4>2
      <4>3. CASE fr' # "OK"
        BY <3>1, <4>1, <4>3 DEF Store!StoreNext, Store!Stop, Shown
      <4> QED
        BY <4>2, <4>3
    <3>3. ASSUME NEW a \in Addresses, Appears(a), fr' = "OK"
          PROVE  Store!StoreNext
      BY <1>1, <3>1, <3>3, AppearsShown DEF Store!StoreNext
    <3>4. ASSUME NEW a \in Addresses, NEW n \in Nat, Idle,
                 n = held[a] + 1 \/ n = held[a] - 1, Counted(a, n)
          PROVE  Store!StoreNext
      <4>1. fr' = "OK"
        BY <3>4 DEF Counted
      <4> QED
        BY <1>1, <3>1, <3>4, <4>1, CountedShown DEF Store!StoreNext, Shown
    <3>5. ASSUME NEW a \in Addresses, DropList(a)
          PROVE  Store!StoreNext
      <4>1. fr' = "OK"
        BY <3>1, <3>5 DEF DropList, heapVars
      <4> QED
        BY <1>1, <3>1, <3>5, <4>1, DropListShown DEF Store!StoreNext, Shown
    <3>6. CASE DropElement
      <4>1. fr' = fr
        BY <1>1, <3>6, DropElementSeen
      <4> QED
        BY <1>1, <3>6, <4>1, DropElementShown
    <3>7. CASE pc = "drop" /\ AddressOf(list) \in Addresses /\ Counted(AddressOf(list), 0)
      <4>1. fr' = fr
        BY <3>7 DEF Counted
      <4> QED
        BY <1>1, <3>7, <4>1, FinishDropShown
    <3> QED
      BY <1>1, <2>2, <3>2, <3>3, <3>4, <3>5, <3>6, <3>7, StepSeen
  <2> QED
    BY <1>1, <2>1, <2>2
<1>2. <<Shown, fr # "OK">> = Store!storeVars
  BY DEF Shown, Store!storeVars
<1> QED
  BY AlwaysListLengths, AlwaysIInv, ShownInit, <1>1, <1>2, PTL
     DEF Spec, ImplementsStore, Store!StoreSpec, Store!storeVars, Shown
----------------------------------------------------------------------------
\* A collision is a full heap.

\* A place for n bytes of data from r to e, with the headers around it.
Place(r, e, n) ==
    FreeRun(r, e) /\ r + SIZEOF_SCRIPT_ALLOC_ENTRY + n <= e /\ NewHP(r, n) < sp

\* The walk has left no place behind.
NoneBehind ==
    pc = "walk" =>
      \A r \in DOMAIN blk : \A e \in Boundaries : r < cur => ~Place(r, e, want.mSize)

\* Headers and the end of the heap.
LEMMA BoundaryFacts ==
    ASSUME IInv, fr = "OK"
    PROVE  /\ Boundaries \subseteq Nat
           /\ \A o, p \in DOMAIN blk : o < p => Next(o) <= p
           /\ \A o \in DOMAIN blk : Next(o) \in Boundaries
           /\ \A r \in DOMAIN blk : \A e \in Boundaries : r < e => Next(r) <= e
<1>1. /\ \A o \in DOMAIN blk : Next(o) \in DOMAIN blk \cup {HeapEnd}
      /\ \A o, p \in DOMAIN blk : o < p => Next(o) <= p
  BY DEF IInv, Tiling
<1>2. HeapEnd \in Nat
  BY ConstantFacts
<1>3. \A o \in DOMAIN blk : o \in Nat /\ o <= HeapEnd /\ Next(o) \in Nat /\ Next(o) <= HeapEnd
  <2>1. \A o \in DOMAIN blk : o \in Nat /\ o <= HeapEnd /\ Next(o) \in Nat
    BY HeaderFacts
  <2> QED
    BY <1>1, <1>2, <2>1
<1> QED
  BY <1>1, <1>2, <1>3 DEF Boundaries

\* A block the walk passes by is no place, nor is a run that starts with it.
LEMMA PassedBy ==
    ASSUME IInv, pc = "walk", ~Usable(cur), ~Mergeable(Next(cur)),
           NEW e \in Boundaries
    PROVE  ~Place(cur, e, want.mSize)
<1> USE ConstantFacts
<1> SUFFICES ASSUME Place(cur, e, want.mSize) PROVE FALSE
  OBVIOUS
<1>1. fr = "OK" /\ cur \in DOMAIN blk /\ want.mSize \in Nat
  BY WalkFacts
<1>2. cur < e /\ ~Live(cur) /\ cur + 7 + want.mSize <= e
  BY <1>1, BoundaryFacts, HeaderFacts DEF Place, FreeRun, SIZEOF_SCRIPT_ALLOC_ENTRY
<1>3. ~WholeFits(cur)
  BY <1>2 DEF Usable
<1>4. Next(cur) = cur + 7 + blk[cur].mSize /\ blk[cur].mSize \in Nat /\ cur \in Nat
  BY <1>1, HeaderFacts
<1>5. e \in Nat /\ Next(cur) <= e /\ Next(cur) \in Boundaries
  BY <1>1, <1>2, BoundaryFacts
<1>6. Next(cur) < e
  BY <1>1, <1>2, <1>3, <1>4, <1>5 DEF WholeFits
<1>7. Next(cur) \in DOMAIN blk
  <2>1. HeapEnd \in Nat /\ \A x \in Boundaries : x <= HeapEnd
    BY HeaderFacts DEF Boundaries
  <2> QED
    BY <1>5, <1>6, <2>1 DEF Boundaries
<1>8. ~Live(Next(cur))
  BY <1>4, <1>6, <1>7 DEF Place, FreeRun
<1> QED
  BY <1>2, <1>8 DEF Mergeable

\* Where data would reach SP there is no place, here or further on.
LEMMA NoRoom ==
    ASSUME IInv, pc = "walk", NEW r \in DOMAIN blk, NEW c \in Nat, c <= r,
           NEW e, Full(NewHP(c, want.mSize))
    PROVE  ~Place(r, e, want.mSize)
<1>1. r \in Nat /\ want.mSize \in Nat /\ sp \in Nat
  BY WalkFacts, HeaderFacts, ConstantFacts
<1> QED
  BY <1>1 DEF Place, Full, NewHP, SIZEOF_SCRIPT_ALLOC_ENTRY

\* The whole heap, when nothing is left ahead either.
LEMMA NoneAtAll ==
    ASSUME IInv, NoneBehind, pc = "walk",
           \A r \in DOMAIN blk : \A e \in Boundaries : cur <= r => ~Place(r, e, want.mSize)
    PROVE  ~Fits(want.mSize)
<1>1. \A r \in DOMAIN blk : r \in Nat /\ cur \in Nat
  BY WalkFacts, HeaderFacts
<1>2. \A r \in DOMAIN blk : \A e \in Boundaries : ~Place(r, e, want.mSize)
  BY <1>1 DEF NoneBehind
<1> QED
  BY <1>2 DEF Fits, Place

LEMMA CollisionStep ==
    ASSUME IInv, NoneBehind, HeapNext, pc = "walk", fr' # fr
    PROVE  ~Fits(want.mSize)
<1> USE ConstantFacts
<1>1. /\ fr = "OK" /\ cur \in DOMAIN blk /\ want.mSize \in Nat
      /\ sp \in 0 .. TM - 1 /\ cur \in Nat
      /\ Next(cur) = cur + 7 + blk[cur].mSize /\ blk[cur].mSize \in Nat /\ Next(cur) \in Nat
  BY WalkFacts, HeaderFacts
<1>2. PICK next \in Nat : next = Next(cur)
  BY <1>1
<1>3. \A r \in DOMAIN blk : r \in Nat /\ (cur <= r => r = cur \/ next <= r)
  BY <1>1, <1>2, BoundaryFacts, HeaderFacts
<1>4. CASE Full(NewHP(cur, want.mSize))
  BY <1>1, <1>4, NoRoom, NoneAtAll
<1>5. CASE ~Usable(cur) /\ next >= sp
  <2>1. ASSUME NEW e \in Boundaries, Place(cur, e, want.mSize) PROVE FALSE
    <3>1. cur < e /\ e \in Nat /\ NewHP(cur, want.mSize) < sp
      BY <2>1, BoundaryFacts, <1>1 DEF Place, FreeRun
    <3>2. ~Live(cur)
      BY <1>1, <2>1, <3>1 DEF Place, FreeRun
    <3>3. ~(blk[cur].mSize >= want.mSize)
      BY <1>5, <3>2 DEF Usable, WholeFits
    <3>4. cur + want.mSize + 14 < sp
      BY <3>1 DEF NewHP, SIZEOF_SCRIPT_ALLOC_ENTRY
    <3> QED
      BY <1>1, <1>2, <1>5, <3>3, <3>4
  <2>2. ASSUME NEW r \in DOMAIN blk, NEW e, next <= r, Place(r, e, want.mSize) PROVE FALSE
    <3>1. r + want.mSize + 14 < sp /\ r \in Nat
      BY <1>3, <2>2 DEF Place, NewHP, SIZEOF_SCRIPT_ALLOC_ENTRY
    <3> QED
      BY <1>1, <1>5, <2>2, <3>1
  <2> QED
    BY <1>3, <2>1, <2>2, NoneAtAll
<1>6. CASE ~Usable(cur) /\ ~Mergeable(next) /\ Full(NewHP(next, want.mSize))
  <2>1. \A e \in Boundaries : ~Place(cur, e, want.mSize)
    BY <1>2, <1>6, PassedBy
  <2>2. \A r \in DOMAIN blk : \A e \in Boundaries : next <= r => ~Place(r, e, want.mSize)
    BY <1>2, <1>6, NoRoom
  <2> QED
    BY <1>3, <2>1, <2>2, NoneAtAll
<1>7. CASE PlaceSplit
  <2>1. ~RestIsOutside => Full(NewHP(cur, want.mSize))
    BY <1>7 DEF PlaceSplit, SplitInside
  <2>2. RestIsOutside => Full(NewHP(cur, want.mSize))
    BY <1>1, HeapAssumption DEF RestIsOutside, RestOf, MAX_HEAP_SIZE, Full, NewHP,
       SIZEOF_SCRIPT_ALLOC_ENTRY
  <2> QED
    BY <1>4, <2>1, <2>2
<1>8. CASE Advance
  <2>1. \/ next >= sp \/ Full(NewHP(NextCur(next), want.mSize))
    BY <1>2, <1>8 DEF Advance
  <2>2. ~Usable(cur)
    BY <1>8 DEF Advance
  <2> QED
    BY <1>4, <1>5, <1>6, <2>1, <2>2 DEF NextCur
<1>9. PlaceSplit \/ Advance
  BY DEF HeapNext, Client, Working, AddScalar, AddList, IncreaseRefCount, DecreaseRefCount,
         DropList, SetSP, Idle, PlaceWhole, AddElement, FinishList, DropElement, FinishDrop
<1> QED
  BY <1>7, <1>8, <1>9

\* Every walk keeps it.
LEMMA NoneBehindStep ==
    ASSUME IInv, IInv', NoneBehind, [HeapNext]_vars
    PROVE  NoneBehind'
<1> SUFFICES ASSUME pc' = "walk" PROVE NoneBehind'
  BY DEF NoneBehind
<1> USE ConstantFacts
<1>1. CASE cur' = HR
  <2>1. \A r \in DOMAIN blk' : r \in Nat /\ HR <= r
    <3>1. DOMAIN blk' \subseteq HR .. HeapEnd
      BY DEF IInv, TypeOK
    <3> QED
      BY <3>1
  <2>2. \A r \in DOMAIN blk' : ~(r < HR)
    BY <2>1
  <2> QED
    BY <1>1, <2>2 DEF NoneBehind
<1>2. CASE UNCHANGED vars
  <2>1. \A r, e, n : Place(r, e, n)' <=> Place(r, e, n)
    BY <1>2 DEF vars, heapVars, Place, FreeRun, Live, NewHP
  <2> QED
    BY <1>2, <2>1 DEF vars, heapVars, workVars, NoneBehind, Boundaries
<1>3. CASE Advance
  <2>1. /\ pc = "walk" /\ ~Usable(cur) /\ sp' = sp
        /\ blk' = IF Mergeable(Next(cur)) THEN Merged(Next(cur)) ELSE blk
        /\ cur' = NextCur(Next(cur)) /\ want' = want
    BY <1>3 DEF Advance, Fault, BackToIdle
  <2>2. fr = "OK" /\ cur \in DOMAIN blk /\ cur \in Nat /\ Next(cur) \in Nat
    BY <2>1, WalkFacts, HeaderFacts
  <2>3. CASE Mergeable(Next(cur))
    <3>1. /\ DOMAIN blk' = DOMAIN blk \ {Next(cur)} /\ ~Live(Next(cur)) /\ ~Live(cur)
          /\ \A o \in DOMAIN blk : Live(o) => o \in DOMAIN blk' /\ Live(o)'
      <4>1. ~Live(Next(cur)) /\ ~Live(cur)
        BY <2>3 DEF Mergeable
      <4>2. DOMAIN blk' = DOMAIN blk \ {Next(cur)}
        BY <2>1, <2>3 DEF Merged
      <4>3. \A o \in DOMAIN blk : Live(o) => o \in DOMAIN blk' /\ Live(o)'
        BY <2>1, MergeKeeps DEF Live
      <4> QED
        BY <4>1, <4>2, <4>3
    <3>2. ASSUME NEW r, NEW e, Place(r, e, want.mSize)'
          PROVE  Place(r, e, want.mSize)
      BY <2>1, <3>1, <3>2 DEF Place, FreeRun, NewHP
    <3>3. \A e : e \in Boundaries' => e \in Boundaries
      BY <3>1 DEF Boundaries
    <3>4. cur' = cur
      BY <2>1, <2>3 DEF NextCur
    <3> QED
      BY <2>1, <3>1, <3>2, <3>3, <3>4 DEF NoneBehind
  <2>4. CASE ~Mergeable(Next(cur))
    <3>1. blk' = blk /\ cur' = Next(cur)
      BY <2>1, <2>4 DEF NextCur
    <3>2. \A r, e, n : Place(r, e, n)' <=> Place(r, e, n)
      BY <2>1, <3>1 DEF Place, FreeRun, Live, NewHP
    <3>3. \A r \in DOMAIN blk : r < Next(cur) => r = cur \/ r < cur
      BY <2>2, BoundaryFacts, HeaderFacts
    <3>4. \A e \in Boundaries : ~Place(cur, e, want.mSize)
      BY <2>1, <2>4, PassedBy
    <3> QED
      BY <2>1, <3>1, <3>2, <3>3, <3>4 DEF NoneBehind, Boundaries
  <2> QED
    BY <2>3, <2>4
<1>4. CASE HeapNext /\ ~Advance
  <2>1. cur' = HR
    BY <1>4 DEF HeapNext, Client, Working, AddScalar, AddList, StartWalk, IncreaseRefCount,
         DecreaseRefCount, DecreaseLeaf, DropList, SetSP, Idle, PlaceSplit, SplitOutside,
         SplitInside, PlaceWhole, Deliver, DeliverList, DeliverElement, DeliverValue, Fault,
         BackToIdle, AddElement,
         FinishList, DropElement, FinishDrop, workVars
  <2> QED
    BY <1>1, <2>1
<1> QED
  BY <1>2, <1>3, <1>4

\* The walk gives up only when the data fits nowhere, however many free blocks
\* it would have to merge for it.
THEOREM FullWhenItCollides == Spec => CollisionOnlyWhenFull
<1>1. Init => NoneBehind
  BY DEF Init, NoneBehind
<1>2. IInv /\ IInv' /\ NoneBehind /\ [HeapNext]_vars => NoneBehind'
  BY NoneBehindStep
<1>3. ASSUME IInv, NoneBehind, [HeapNext]_vars
      PROVE  [pc = "walk" /\ fr' # fr => ~Fits(want.mSize)]_vars
  BY <1>3, CollisionStep
<1> QED
  BY <1>1, <1>2, <1>3, AlwaysIInv, PTL DEF Spec, CollisionOnlyWhenFull

----------------------------------------------------------------------------
\* Who is to blame for a fault.

\* A value that would go into the heap's first block, so near the top of memory
\* that the header behind it would lie past it.
FirstPastMemory == pc = "walk" /\ cur = HR /\ RestIsOutside

LEMMA FaultKinds ==
    ASSUME IInv, RInv, HeapNext, fr' # fr
    PROVE  \/ fr' = "LSRF_STACK_HEAP_COLLISION"
           \/ fr' = "LSRF_BOUND_CHECK_ERROR" /\ (IncreaseRefCount(0) \/ FirstPastMemory)
<1>1. CASE DropElement
  BY <1>1, DropElementSeen
<1>2. CASE \E a \in Addresses : DecreaseRefCount(a)
  <2>1. PICK a \in Addresses : DecreaseRefCount(a)
    BY <1>2
  <2>2. Counted(a, held[a] - 1) /\ Idle
    BY <2>1, DecreaseCounted DEF DecreaseRefCount
  <2> QED
    BY <2>2 DEF Counted, Idle
<1>3. CASE \E a \in Addresses \cup {0} : IncreaseRefCount(a)
  <2>1. PICK a \in Addresses \cup {0} : IncreaseRefCount(a)
    BY <1>3
  <2>2. fr = "OK" /\ pc = "idle" /\ ~InHeap(a) /\ fr' = "LSRF_BOUND_CHECK_ERROR"
    BY <2>1 DEF IncreaseRefCount, Idle, Fault
  <2>3. ASSUME a # 0 PROVE FALSE
    <3>1. a \in Addresses /\ held[a] > 0
      BY <2>1, <2>3, HeapAssumption DEF IncreaseRefCount
    <3>2. OffsetOf(a) \in DOMAIN blk /\ Live(OffsetOf(a)) /\ ~Building
      BY <2>2, <3>1 DEF RInv, HeldRight, Building
    <3> QED
      BY <2>2, <3>1, <3>2, LiveInHeap
  <2> QED
    BY <2>1, <2>2, <2>3
<1>4. CASE \/ \E n \in ScalarSizes : AddScalar(n)
           \/ \E shape \in ListShapes : AddList(shape)
           \/ \E a \in Addresses : DropList(a)
           \/ \E s \in StackTops : SetSP(s)
  BY <1>4 DEF AddScalar, AddList, DropList, SetSP, Fault, heapVars
<1>5. CASE PlaceWhole \/ Advance \/ AddElement \/ FinishList \/ FinishDrop
  BY <1>5 DEF PlaceWhole, Advance, AddElement, FinishList, FinishDrop, Fault, heapVars
<1>6. CASE PlaceSplit
  <2>1. CASE RestIsOutside
    <3>1. pc = "walk" /\ fr' = "LSRF_BOUND_CHECK_ERROR"
      BY <1>6, <2>1 DEF PlaceSplit, SplitOutside, Fault
    <3>2. cur \in DOMAIN blk /\ want.mSize \in Nat /\ cur \in Nat /\ sp \in 0 .. TM - 1
      BY <3>1, WalkFacts, HeaderFacts
    <3>3. cur = HR \/ NewHP(cur, want.mSize) < sp
      BY <3>1 DEF IInv, Layout
    <3>4. cur = HR
      BY <2>1, <3>2, <3>3, HeapAssumption DEF RestIsOutside, RestOf, MAX_HEAP_SIZE, NewHP,
         SIZEOF_SCRIPT_ALLOC_ENTRY
    <3> QED
      BY <2>1, <3>1, <3>4 DEF FirstPastMemory
  <2>2. CASE ~RestIsOutside
    BY <1>6, <2>2 DEF PlaceSplit, SplitInside, Fault
  <2> QED
    BY <2>1, <2>2
<1> QED
  BY <1>1, <1>2, <1>3, <1>4, <1>5, <1>6 DEF HeapNext, Client, Working

\* The checks of lsa_decrease_ref_count and lsa_increase_ref_count never
\* accuse the heap: besides a full heap there is one fault, the bound check,
\* for a variable nothing was stored in, or for a value in the first block of
\* a heap that begins so near the top of memory that the header behind the
\* value has no place.
THEOREM FaultsAreTheScripts ==
    Spec => [][fr' # fr =>
                 \/ fr' = "LSRF_STACK_HEAP_COLLISION"
                 \/ /\ fr' = "LSRF_BOUND_CHECK_ERROR"
                    /\ IncreaseRefCount(0) \/ FirstPastMemory]_vars
<1>1. IInv /\ RInv /\ [HeapNext]_vars
        => [fr' # fr =>
              \/ fr' = "LSRF_STACK_HEAP_COLLISION"
              \/ /\ fr' = "LSRF_BOUND_CHECK_ERROR"
                 /\ IncreaseRefCount(0) \/ FirstPastMemory]_vars
  BY FaultKinds
<1> QED
  BY <1>1, AlwaysIInv, AlwaysRInv, PTL DEF Spec

\* lsa_decrease_ref_count never finds a count below zero, neither for what
\* the script releases nor for an element of a list it drops, as long as a
\* block's references (MaxRefs) stay below the 2^15 its count has room for.
THEOREM NoHeapError == Spec => [](fr # "LSRF_HEAP_ERROR")
<1>1. Init => fr # "LSRF_HEAP_ERROR"
  BY DEF Init
<1>2. IInv /\ RInv /\ fr # "LSRF_HEAP_ERROR" /\ [HeapNext]_vars
        => (fr # "LSRF_HEAP_ERROR")'
  <2>1. UNCHANGED vars => fr' = fr
    BY DEF vars, heapVars
  <2> QED
    BY <2>1, FaultKinds
<1> QED
  BY <1>1, <1>2, AlwaysIInv, AlwaysRInv, PTL DEF Spec

----------------------------------------------------------------------------
\* Every operation comes to its end: the part of OperationsEnd that is not
\* about fairness.

\* A bound on what is left of the operation that runs: of a list the elements
\* still to come, each of them a walk; of a walk the heap behind the block it
\* looks at, which grows when that block is merged with the next; of a list
\* that is dropped its elements.
Walks(n) == n * (HeapEnd + 2)
StepsLeft ==
    CASE pc = "walk" -> Walks(Len(left)) + 2 + HeapEnd - Next(cur)
      [] pc = "fill" -> Walks(Len(left)) + 1
      [] pc = "drop" -> Len(blk[list].elems) + 1
      [] pc = "idle" -> 0

LEMMA WalksFacts ==
    \A n \in Nat : Walks(n) \in Nat /\ Walks(n + 1) = Walks(n) + HeapEnd + 2
<1>1. PICK w \in Nat : w = HeapEnd + 2
  BY ConstantFacts
<1>2. \A n \in Nat : n * w \in Nat /\ (n + 1) * w = n * w + w
  OBVIOUS
<1> QED
  BY <1>1, <1>2, ConstantFacts DEF Walks

\* The bound is a number.
LEMMA StepsLeftNat == IInv /\ RInv => StepsLeft \in Nat /\ (StepsLeft = 0 <=> pc = "idle")
<1> SUFFICES ASSUME IInv, RInv
             PROVE  StepsLeft \in Nat /\ (StepsLeft = 0 <=> pc = "idle")
  OBVIOUS
<1>1. pc \in {"idle", "walk", "fill", "drop"} /\ left \in Seq(ScalarSizes)
      /\ (pc # "idle" => fr = "OK")
  BY DEF IInv, TypeOK, Layout
<1>2. Len(left) \in Nat /\ Walks(Len(left)) \in Nat
  BY <1>1, WalksFacts
<1>3. CASE pc = "walk"
  <2>1. cur \in DOMAIN blk /\ Next(cur) \in Nat /\ fr = "OK"
    BY <1>3, WalkFacts, HeaderFacts
  <2>2. Next(cur) <= HeapEnd /\ HeapEnd \in Nat
    BY <2>1, ConstantFacts DEF IInv, Tiling, TypeOK
  <2>3. StepsLeft = Walks(Len(left)) + 2 + HeapEnd - Next(cur)
    BY <1>3 DEF StepsLeft
  <2> QED
    BY <1>2, <1>3, <2>1, <2>2, <2>3
<1>4. CASE pc = "drop"
  <2>1. list \in DOMAIN blk /\ blk[list].elems \in Seq(Addresses)
    BY <1>1, <1>4, HeaderFacts DEF RInv, ListRight, Blocks
  <2> QED
    BY <1>4, <2>1 DEF StepsLeft
<1>5. CASE pc \in {"idle", "fill"}
  BY <1>2, <1>5 DEF StepsLeft
<1> QED
  BY <1>1, <1>3, <1>4, <1>5

\* An iteration of the walk that does not end it leaves less heap behind the
\* block it looks at.
LEMMA AdvanceFurther ==
    ASSUME IInv, IInv', Advance, pc' = "walk"
    PROVE  Next(cur)' > Next(cur) /\ left' = left
<1>1. pc = "walk" /\ cur \in DOMAIN blk /\ cur \in Nat /\ Next(cur) \in Nat
      /\ Next(cur) = cur + 7 + blk[cur].mSize /\ blk[cur].mSize \in Nat
      /\ fr = "OK" /\ sp \in 0 .. TM - 1
  BY WalkFacts, HeaderFacts DEF Advance
<1>2. /\ Next(cur) < sp /\ blk' = IF Mergeable(Next(cur)) THEN Merged(Next(cur)) ELSE blk
      /\ cur' = NextCur(Next(cur)) /\ left' = left
  BY <1>1 DEF Advance, Fault, BackToIdle
<1>3. /\ cur' \in DOMAIN blk' /\ cur' \in Nat /\ blk'[cur'].mSize \in Nat
      /\ Next(cur)' = cur' + 7 + blk'[cur'].mSize
  <2>1. cur' \in DOMAIN blk' /\ cur' \in HR .. HeapEnd /\ blk'[cur'] \in Blocks
    BY DEF IInv, Layout, TypeOK
  <2> QED
    BY <2>1, ConstantFacts DEF Next, Blocks
<1>4. CASE Mergeable(Next(cur))
  <2>1. Next(cur) \in DOMAIN blk
    BY <1>1, <1>2, ConstantFacts DEF IInv, Tiling
  <2>2. blk[Next(cur)].mSize \in Nat /\ Next(cur) # cur
    BY <1>1, <2>1, HeaderFacts
  <2>3. cur' = cur /\ blk'[cur] = [blk[cur] EXCEPT !.mSize = @ + blk[Next(cur)].mSize + 7]
    BY <1>1, <1>2, <1>4, <2>2, ConstantFacts DEF NextCur, Merged
  <2>4. blk'[cur].mSize = blk[cur].mSize + blk[Next(cur)].mSize + 7
    <3>1. blk[cur] \in Blocks
      BY <1>1, HeaderFacts
    <3> QED
      BY <2>3, <3>1 DEF Blocks
  <2> QED
    BY <1>1, <1>2, <1>3, <2>2, <2>3, <2>4
<1>5. CASE ~Mergeable(Next(cur))
  <2>1. cur' = Next(cur)
    BY <1>2, <1>5 DEF NextCur
  <2> QED
    BY <1>1, <1>2, <1>3, <2>1
<1> QED
  BY <1>4, <1>5

\* A list that is dropped loses one element after the other.
LEMMA DropElementShortens ==
    ASSUME IInv, RInv, DropElement
    PROVE  blk'[list].elems = Tail(blk[list].elems)
<1>1. PICK l \in DOMAIN blk : l = list /\ blk[l] \in Blocks
  BY DropElementSeen, HeaderFacts
<1>2. PICK a : /\ a = Head(blk[l].elems)
               /\ blk' = [DecreasedAt(a) EXCEPT ![l].elems = Tail(@)]
  <2>1. fr' = "OK"
    BY DropElementSeen
  <2> QED
    BY <1>1, <2>1 DEF DropElement, Fault
<1>3. \A b \in Blocks : Decreased(b) \in Blocks /\ Decreased(b).elems = b.elems
  BY DecreasedTyped
<1>4. /\ l \in DOMAIN DecreasedAt(a) /\ DecreasedAt(a)[l] \in Blocks
      /\ DecreasedAt(a)[l].elems = blk[l].elems
  BY <1>1, <1>3 DEF DecreasedAt
<1>5. blk'[l] = [DecreasedAt(a)[l] EXCEPT !.elems = Tail(@)]
  BY <1>2, <1>4
<1> QED
  BY <1>1, <1>4, <1>5 DEF Blocks

\* Each step of an operation brings it nearer to its end.
LEMMA NearerStep ==
    ASSUME IInv, RInv, IInv', RInv', HeapNext, pc # "idle"
    PROVE  StepsLeft' < StepsLeft
<1>1. PICK n \in Nat : n = Len(left) /\ Walks(n) \in Nat
  <2>1. left \in Seq(ScalarSizes)
    BY DEF IInv, TypeOK
  <2> QED
    BY <2>1, WalksFacts
<1>2. StepsLeft \in Nat /\ StepsLeft > 0 /\ StepsLeft' \in Nat
      /\ (pc' = "idle" => StepsLeft' = 0)
  <2>1. (IInv /\ RInv)' => (StepsLeft \in Nat /\ (StepsLeft = 0 <=> pc = "idle"))'
    BY StepsLeftNat, PTL
  <2> QED
    BY <2>1, StepsLeftNat
<1>3. CASE pc' = "idle"
  BY <1>2, <1>3
<1>4. CASE PlaceSplit \/ PlaceWhole
  <2>1. (pc = "walk" /\ left' = left /\ pc' = "fill") \/ pc' = "idle"
    BY <1>4 DEF PlaceSplit, SplitOutside, SplitInside, PlaceWhole, Deliver, DeliverList,
                DeliverElement, DeliverValue, Fault, BackToIdle
  <2>2. CASE pc' = "fill"
    <3>1. Next(cur) <= HeapEnd /\ Next(cur) \in Nat /\ HeapEnd \in Nat
      <4>1. cur \in DOMAIN blk /\ Next(cur) \in Nat /\ fr = "OK"
        BY <2>1, <2>2, WalkFacts, HeaderFacts
      <4> QED
        BY <4>1, ConstantFacts DEF IInv, Tiling, TypeOK
    <3>2. StepsLeft = Walks(n) + 2 + HeapEnd - Next(cur) /\ StepsLeft' = Walks(n) + 1
      BY <1>1, <2>1, <2>2 DEF StepsLeft, Walks, HeapEnd
    <3> QED
      BY <1>1, <3>1, <3>2
  <2> QED
    BY <1>3, <2>1, <2>2
<1>5. CASE Advance /\ pc' = "walk"
  <2>1. Next(cur)' > Next(cur) /\ left' = left /\ pc = "walk"
    BY <1>5, AdvanceFurther DEF Advance
  <2>2. Next(cur) \in Nat /\ Next(cur)' \in Nat /\ HeapEnd \in Nat
    <3>1. cur \in DOMAIN blk /\ cur' \in DOMAIN blk'
      BY <1>5, <2>1 DEF IInv, Layout
    <3>2. cur' \in HR .. HeapEnd /\ blk'[cur'] \in Blocks
      BY <3>1 DEF IInv, TypeOK
    <3>3. Next(cur)' \in Nat
      BY <3>2, ConstantFacts DEF Next, Blocks
    <3> QED
      BY <3>1, <3>3, HeaderFacts, ConstantFacts
  <2>3. StepsLeft = Walks(n) + 2 + HeapEnd - Next(cur)
        /\ StepsLeft' = Walks(n) + 2 + HeapEnd - Next(cur)'
    BY <1>1, <1>5, <2>1 DEF StepsLeft, Walks, HeapEnd
  <2> QED
    BY <1>1, <2>1, <2>2, <2>3
<1>6. CASE Advance /\ pc' # "walk"
  <2>1. pc' = "idle"
    BY <1>6 DEF Advance, Fault, BackToIdle
  <2> QED
    BY <1>3, <2>1
<1>7. CASE AddElement
  <2>1. /\ pc = "fill" /\ pc' = "walk" /\ cur' = HR /\ left # <<>> /\ left' = Tail(left)
        /\ blk' = blk /\ left \in Seq(ScalarSizes)
    BY <1>7 DEF AddElement, StartWalk, heapVars, IInv, TypeOK
  <2>2. PICK k \in Nat : k = Len(left') /\ n = k + 1
    BY <1>1, <2>1
  <2>3. Walks(k) \in Nat /\ Walks(n) = Walks(k) + HeapEnd + 2
    BY <2>2, WalksFacts
  <2>4. Next(cur)' \in Nat /\ HeapEnd \in Nat
    <3>1. HR \in DOMAIN blk
      BY <2>1 DEF IInv, Tiling, Layout
    <3>2. Next(cur)' = Next(HR)
      BY <2>1 DEF Next
    <3> QED
      BY <3>1, <3>2, HeaderFacts, ConstantFacts
  <2>5. StepsLeft = Walks(n) + 1 /\ StepsLeft' = Walks(k) + 2 + HeapEnd - Next(cur)'
    BY <1>1, <2>1, <2>2 DEF StepsLeft, Walks, HeapEnd
  <2> QED
    BY <2>3, <2>4, <2>5
<1>8. CASE FinishList \/ FinishDrop
  <2>1. pc' = "idle"
    BY <1>8 DEF FinishList, FinishDrop, Fault, BackToIdle
  <2> QED
    BY <1>3, <2>1
<1>9. CASE DropElement
  <2>1. pc = "drop" /\ pc' = "drop" /\ list' = list /\ list \in DOMAIN blk /\ fr = "OK"
    BY <1>9, DropElementSeen
  <2>2. blk'[list].elems = Tail(blk[list].elems)
    BY <1>9, DropElementShortens
  <2>3. blk[list].elems \in Seq(Addresses) /\ blk[list].elems # <<>>
    BY <1>9, <2>1, HeaderFacts DEF DropElement, Blocks
  <2>4. Len(blk'[list'].elems) < Len(blk[list].elems)
        /\ Len(blk'[list'].elems) \in Nat /\ Len(blk[list].elems) \in Nat
    BY <2>1, <2>2, <2>3
  <2>5. StepsLeft = Len(blk[list].elems) + 1 /\ StepsLeft' = Len(blk'[list'].elems) + 1
    BY <2>1 DEF StepsLeft
  <2> QED
    BY <2>4, <2>5
<1>10. Working
  BY DEF HeapNext, Client, AddScalar, AddList, IncreaseRefCount, DecreaseRefCount,
         DropList, SetSP, Idle
<1> QED
  BY <1>4, <1>5, <1>6, <1>7, <1>8, <1>9, <1>10 DEF Working

\* An operation that has begun takes no more steps than StepsLeft says, for
\* any heap it meets: neither a merge nor an element sends it round again.
THEOREM OperationsShrink ==
    Spec => /\ [](StepsLeft \in Nat /\ (StepsLeft = 0 <=> pc = "idle"))
            /\ [][pc # "idle" => StepsLeft' < StepsLeft]_vars
<1>1. IInv /\ RInv /\ IInv' /\ RInv' /\ [HeapNext]_vars
        => [pc # "idle" => StepsLeft' < StepsLeft]_vars
  BY NearerStep
<1> QED
  BY <1>1, StepsLeftNat, AlwaysIInv, AlwaysRInv, PTL DEF Spec
=============================================================================
