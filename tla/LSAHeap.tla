------------------------------ MODULE LSAHeap ------------------------------
(***************************************************************************)
(* The heap of one LSO script (lscript_library/lscript_alloc.cpp): a first *)
(* fit allocator of reference-counted blocks that grows upwards from HR,   *)
(* while the stack grows downwards from the top of memory to SP.           *)
(*                                                                         *)
(* Every block starts with a header (4 bytes of size, 1 of type, 2 of      *)
(* reference count).  A block of type LST_NULL is free.  The last block is *)
(* a free sentinel that reaches past the top of memory.  A list block      *)
(* holds the addresses of its elements, each of them a block of its own.   *)
(*                                                                         *)
(* lsa_heap_add_data and lsa_decrease_ref_count are loops that recurse one *)
(* level for the elements of a list.  A step of this module is one         *)
(* iteration of such a loop; pc says which loop the machine is in.  The    *)
(* interpreter (the client) calls one operation at a time, so operations   *)
(* start only when pc = "idle".                                            *)
(*                                                                         *)
(* Abstracted: the bytes of scalar data (integer, float, key, string,      *)
(* vector and quaternion differ here in their size only).                  *)
(***************************************************************************)
EXTENDS Integers, Sequences

CONSTANTS
    HR,           \* register HR: offset of the first heap block
    TM,           \* register TM, TOP_OF_MEMORY
    Statics,      \* blocks the compiler emitted, a function from offsets
    SentinelAt,   \* offset of the free block behind them
    ScalarSizes,  \* data sizes of the non-list values the script makes
    ListShapes,   \* lists the script makes: sequences of element sizes
    StackTops,    \* values the stack pointer takes
    MaxRefs,      \* bound: references the script holds to one block
    RefHalf       \* S16 reference counts: 2^15 in the code

VARIABLES
    blk,    \* header offset -> [mSize, mType, mReferenceCount, elems]
    hp,     \* register HP
    sp,     \* register SP
    fr,     \* register FR: the first fault
    pc,     \* the loop that is running
    cur,    \* add: header the walk looks at
    want,   \* add: [mType, mSize] of the data to place
    list,   \* header of the list being filled or dropped, 0 if none
    left,   \* sizes of the list elements still to be added
    split,  \* the list being filled was carved out of a larger block
    held    \* address -> references held by stack and variables

heapVars == <<blk, hp, sp, fr>>
workVars == <<pc, cur, want, list, left, split>>
vars == <<heapVars, workVars, held>>

----------------------------------------------------------------------------
\* Layout.

SIZEOF_SCRIPT_ALLOC_ENTRY == 7
MinRest == 4                          \* smallest data part of a split-off rest
MAX_HEAP_SIZE == TM
HeapEnd == SentinelAt + SIZEOF_SCRIPT_ALLOC_ENTRY + MAX_HEAP_SIZE

Kinds == {"LST_NULL", "LST_DATA", "LST_LIST"}
Faults == {"OK", "LSRF_BOUND_CHECK_ERROR", "LSRF_HEAP_ERROR",
           "LSRF_STACK_HEAP_COLLISION"}

\* An address a script sees is the header's offset from HR, plus 1; 0 is
\* the value of a variable nothing was stored in yet.
AddressOf(o) == o - HR + 1
OffsetOf(a) == a + HR - 1
Addresses == 1 .. TM - HR
Nothing == [mType |-> "LST_NULL", mSize |-> 0]

ListSize(n) == 4 + 4 * n
Counts == -RefHalf .. RefHalf - 1
Blocks == [mSize : Nat, mType : Kinds, mReferenceCount : Counts,
           elems : Seq(Addresses)]
Block(type, size, count) ==
    [mSize |-> size, mType |-> type, mReferenceCount |-> count, elems |-> <<>>]

S16(n) == IF n >= RefHalf THEN n - 2 * RefHalf
          ELSE IF n < -RefHalf THEN n + 2 * RefHalf ELSE n

Max2(m, n) == IF m >= n THEN m ELSE n
Next(o) == o + SIZEOF_SCRIPT_ALLOC_ENTRY + blk[o].mSize
Live(o) == blk[o].mType # "LST_NULL"
ElementsOf(o) == {blk[o].elems[i] : i \in 1 .. Len(blk[o].elems)}

\* Mutant: leaves out the header behind the data.
NewHP_OneHeader(o, n) == o + n + SIZEOF_SCRIPT_ALLOC_ENTRY

\* Where HP must be for data of size n at o: behind the data's own header,
\* the data, and the header that follows it.
NewHP(o, n) == o + n + 2 * SIZEOF_SCRIPT_ALLOC_ENTRY

\* Mutant: lets HP reach SP.
Full_AllowsSP(newHP) == newHP > sp

\* No room left for HP to move there.
Full(newHP) == newHP >= sp

\* The compiled heap: the blocks of global strings and lists, one behind the
\* other from HR, then the sentinel.
StaticEnd(o) == o + SIZEOF_SCRIPT_ALLOC_ENTRY + Statics[o].mSize
ASSUME StaticsAssumption ==
    /\ DOMAIN Statics \subseteq HR .. SentinelAt - 1
    /\ \A o \in DOMAIN Statics :
         /\ Statics[o] \in [mSize : Nat, mType : {"LST_DATA", "LST_LIST"},
                            mReferenceCount : {1}, elems : Seq(Addresses)]
         /\ StaticEnd(o) \in DOMAIN Statics \cup {SentinelAt}
         /\ \A p \in DOMAIN Statics : o < p => StaticEnd(o) <= p
    /\ HR \in DOMAIN Statics \cup {SentinelAt}

\* A global list's elements are blocks of their own, each of one list.
ASSUME StaticListsAssumption ==
    \A o \in DOMAIN Statics :
      /\ Statics[o].mType = "LST_DATA" => Statics[o].elems = <<>>
      /\ \A i \in 1 .. Len(Statics[o].elems) :
           LET e == OffsetOf(Statics[o].elems[i]) IN
           /\ e \in DOMAIN Statics /\ Statics[e].mType = "LST_DATA"
           /\ \A p \in DOMAIN Statics : \A j \in 1 .. Len(Statics[p].elems) :
                Statics[p].elems[j] = Statics[o].elems[i] => p = o /\ j = i

\* The sizes a request has: a scalar's, a list's.
RequestSizes == ScalarSizes \cup {ListSize(Len(shape)) : shape \in ListShapes}

\* The heap lies below the top of memory, a count has room for every
\* reference memory can hold, and a single value is smaller than memory.
ASSUME HeapAssumption ==
    /\ HR \in Nat \ {0} /\ TM \in Nat
    /\ SentinelAt \in Nat /\ HR <= SentinelAt
    /\ SentinelAt + SIZEOF_SCRIPT_ALLOC_ENTRY < TM - 1
    /\ ScalarSizes \subseteq Nat /\ ListShapes \subseteq Seq(ScalarSizes)
    /\ \A n \in RequestSizes : n + SIZEOF_SCRIPT_ALLOC_ENTRY + MinRest <= TM
    /\ StackTops \subseteq 0 .. TM - 1
    /\ MaxRefs \in Nat /\ RefHalf \in Nat /\ 0 < MaxRefs /\ MaxRefs + 1 < RefHalf

StaticElements ==
    UNION {{Statics[o].elems[i] : i \in 1 .. Len(Statics[o].elems)} :
              o \in DOMAIN Statics}

Init ==
    /\ blk = [o \in DOMAIN Statics \cup {SentinelAt} |->
                IF o = SentinelAt THEN Block("LST_NULL", MAX_HEAP_SIZE, 0)
                                  ELSE Statics[o]]
    /\ hp = SentinelAt + SIZEOF_SCRIPT_ALLOC_ENTRY
    /\ sp = TM - 1
    /\ fr = "OK"
    /\ pc = "idle" /\ cur = HR /\ want = Nothing
    /\ list = 0 /\ left = <<>> /\ split = FALSE
    /\ held = [a \in Addresses |->
                 IF OffsetOf(a) \in DOMAIN Statics /\ a \notin StaticElements
                 THEN 1 ELSE 0]

----------------------------------------------------------------------------
\* Shared effects.

Idle == pc = "idle" /\ fr = "OK"

BackToIdle ==
    /\ pc' = "idle" /\ cur' = HR /\ want' = Nothing
    /\ list' = 0 /\ left' = <<>> /\ split' = FALSE

\* set_fault: the first fault stays, HP goes to the top of memory.  Every
\* later call of this file returns at once on a fault; what the running
\* operation still writes, a list's entry or the header of a list it drops,
\* is not read any more.
Fault(f) ==
    /\ fr' = f
    /\ hp' = TM
    /\ BackToIdle

PutBlock(o, b) == [x \in DOMAIN blk \cup {o} |-> IF x = o THEN b ELSE blk[x]]

----------------------------------------------------------------------------
\* lsa_heap_add_data: the call, the walk along the blocks, the placement.

StartWalk(type, size) ==
    /\ pc' = "walk"
    /\ cur' = HR
    /\ want' = [mType |-> type, mSize |-> size]

\* A scalar.
AddScalar(n) ==
    /\ Idle
    /\ StartWalk("LST_DATA", n)
    /\ UNCHANGED <<heapVars, list, left, split, held>>

\* A list; its elements follow once its own block is placed.
AddList(shape) ==
    /\ Idle
    /\ StartWalk("LST_LIST", ListSize(Len(shape)))
    /\ left' = shape
    /\ UNCHANGED <<heapVars, list, split, held>>

\* Mutant: forgets the header of the rest.
SplitFits_NoHeader(o) == blk[o].mSize >= want.mSize + MinRest

SplitFits(o) == blk[o].mSize >= want.mSize + SIZEOF_SCRIPT_ALLOC_ENTRY + MinRest
WholeFits(o) == blk[o].mSize >= want.mSize
Usable(o) == ~Live(o) /\ WholeFits(o)

\* lsa_split_block, then the new header over the first part: what it leaves
\* when both headers can be written.
RestOf(o) == o + SIZEOF_SCRIPT_ALLOC_ENTRY + want.mSize
Carved ==
    [x \in DOMAIN blk \cup {RestOf(cur)} |->
       IF x = cur THEN Block(want.mType, want.mSize, 1)
       ELSE IF x = RestOf(cur)
            THEN Block("LST_NULL",
                       blk[cur].mSize - SIZEOF_SCRIPT_ALLOC_ENTRY - want.mSize, 0)
       ELSE blk[x]]

\* alloc_entry2bytestream writes no header past MAX_HEAP_SIZE.  Only the rest
\* of the first block can lie there, in a heap compiled empty: behind it the
\* walk has compared the place with SP first.
RestIsOutside == RestOf(cur) > MAX_HEAP_SIZE

\* Mutant: a reused block keeps the count it was freed with.
Taken_KeepsCount ==
    PutBlock(cur, Block(want.mType, blk[cur].mSize, blk[cur].mReferenceCount))

\* A free block taken as it is.
Taken == PutBlock(cur, Block(want.mType, blk[cur].mSize, 1))

\* A list that was placed: its elements are next.
DeliverList(b, carved) ==
    /\ want.mType = "LST_LIST"
    /\ blk' = b
    /\ pc' = "fill" /\ list' = cur /\ split' = carved
    /\ cur' = HR /\ want' = Nothing
    /\ UNCHANGED <<left, held>>

\* An element: its address is the next entry of the list being filled.
DeliverElement(b) ==
    /\ want.mType = "LST_DATA" /\ list # 0
    /\ blk' = [b EXCEPT ![list].elems = Append(@, AddressOf(cur))]
    /\ pc' = "fill" /\ cur' = HR /\ want' = Nothing
    /\ UNCHANGED <<list, left, split, held>>

\* A value for the caller.
DeliverValue(b) ==
    /\ want.mType = "LST_DATA" /\ list = 0
    /\ blk' = b
    /\ held' = [held EXCEPT ![AddressOf(cur)] = @ + 1]
    /\ BackToIdle

Deliver(b, carved) ==
    DeliverList(b, carved) \/ DeliverElement(b) \/ DeliverValue(b)

\* A rest that cannot have a header is the first fault, and stays; only the
\* header of the data is written.
SplitOutside ==
    /\ blk' = PutBlock(cur, Block(want.mType, want.mSize, 1))
    /\ Fault("LSRF_BOUND_CHECK_ERROR")
    /\ UNCHANGED held

\* HP follows data carved out of a free block; at SP the heap is full.  For
\* a list this is checked only after its elements are in.
SplitInside ==
    IF want.mType = "LST_LIST"
    THEN Deliver(Carved, TRUE) /\ UNCHANGED <<hp, fr>>
    ELSE IF Full(NewHP(cur, want.mSize))
         THEN /\ blk' = Carved
              /\ Fault("LSRF_STACK_HEAP_COLLISION")
              /\ UNCHANGED held
         ELSE /\ Deliver(Carved, FALSE)
              /\ hp' = Max2(hp, NewHP(cur, want.mSize))
              /\ UNCHANGED fr

PlaceSplit ==
    /\ pc = "walk"
    /\ ~Live(cur) /\ SplitFits(cur)
    /\ UNCHANGED sp
    /\ IF RestIsOutside THEN SplitOutside ELSE SplitInside

PlaceWhole ==
    /\ pc = "walk"
    /\ ~Live(cur) /\ ~SplitFits(cur) /\ WholeFits(cur)
    /\ Deliver(Taken, FALSE)
    /\ UNCHANGED <<hp, sp, fr>>

\* Mutant: the header between two merged blocks is lost.
Merged_LosesHeader(next) ==
    [x \in DOMAIN blk \ {next} |->
       IF x = cur THEN [blk[cur] EXCEPT !.mSize = @ + blk[next].mSize] ELSE blk[x]]

\* Mutants: merging looks at the next block alone; free blocks never merge;
\* the walk does not move on.
Mergeable_NextOnly(next) == ~Live(next)
Mergeable_Never(next) == FALSE
NextCur_Stays(next) == cur

\* The block at cur is of no use: merge it with the next one when both are
\* free, move on otherwise, and bump HP.
Merged(next) ==
    [x \in DOMAIN blk \ {next} |->
       IF x = cur
       THEN [blk[cur] EXCEPT !.mSize =
               @ + blk[next].mSize + SIZEOF_SCRIPT_ALLOC_ENTRY]
       ELSE blk[x]]

Mergeable(next) == ~Live(cur) /\ ~Live(next)
NextCur(next) == IF Mergeable(next) THEN cur ELSE next

Advance ==
    /\ pc = "walk"
    /\ ~Usable(cur)
    /\ UNCHANGED <<sp, held>>
    /\ LET next == Next(cur) IN
       IF next >= sp
       THEN Fault("LSRF_STACK_HEAP_COLLISION") /\ UNCHANGED blk
       ELSE /\ blk' = IF Mergeable(next) THEN Merged(next) ELSE blk
            /\ IF Full(NewHP(NextCur(next), want.mSize))
               THEN Fault("LSRF_STACK_HEAP_COLLISION")
               ELSE /\ cur' = NextCur(next)
                    /\ hp' = Max2(hp, NewHP(NextCur(next), want.mSize))
                    /\ UNCHANGED <<fr, pc, want, list, left, split>>

\* lsa_insert_data for a list: the elements one by one ...
AddElement ==
    /\ pc = "fill" /\ left # <<>>
    /\ StartWalk("LST_DATA", Head(left))
    /\ left' = Tail(left)
    /\ UNCHANGED <<heapVars, list, split, held>>

\* ... and back in lsa_heap_add_data, the check of HP and the return.
FinishList ==
    /\ pc = "fill" /\ left = <<>>
    /\ UNCHANGED <<blk, sp>>
    /\ LET newHP == NewHP(list, blk[list].mSize) IN
       IF split /\ Full(newHP)
       THEN Fault("LSRF_STACK_HEAP_COLLISION") /\ UNCHANGED held
       ELSE /\ hp' = IF split THEN Max2(hp, newHP) ELSE hp
            /\ held' = [held EXCEPT ![AddressOf(list)] = @ + 1]
            /\ BackToIdle
            /\ UNCHANGED fr

----------------------------------------------------------------------------
\* Reference counts.

InHeap(a) == OffsetOf(a) >= HR /\ OffsetOf(a) < hp

\* lsa_increase_ref_count.  a is a reference in the script's hands, or 0:
\* a variable on a code path that never initialised it.
IncreaseRefCount(a) ==
    /\ Idle
    /\ a # 0 => held[a] \in 1 .. MaxRefs - 1
    /\ IF ~InHeap(a)
       THEN Fault("LSRF_BOUND_CHECK_ERROR") /\ UNCHANGED <<blk, sp, held>>
       ELSE /\ blk' = [blk EXCEPT ![OffsetOf(a)].mReferenceCount = S16(@ + 1)]
            /\ held' = [held EXCEPT ![a] = @ + 1]
            /\ UNCHANGED <<hp, sp, fr, workVars>>

\* Mutant: frees the block with the last reference still to come.
Decreased_FreesEarly(b) ==
    IF b.mReferenceCount <= 2
    THEN [b EXCEPT !.mReferenceCount = 0, !.mType = "LST_NULL"]
    ELSE [b EXCEPT !.mReferenceCount = @ - 1]

\* The header after one reference less; type and count as they are written.
Decreased(b) ==
    LET count == S16(b.mReferenceCount - 1) IN
    CASE count < 0 -> [b EXCEPT !.mReferenceCount = 0]
      [] count = 0 -> [b EXCEPT !.mReferenceCount = 0, !.mType = "LST_NULL"]
      [] count > 0 -> [b EXCEPT !.mReferenceCount = count]

DecreasedAt(a) == [blk EXCEPT ![OffsetOf(a)] = Decreased(@)]

\* One call of lsa_decrease_ref_count for a block that holds no references.
DecreaseLeaf(a) ==
    IF ~InHeap(a)
    THEN Fault("LSRF_BOUND_CHECK_ERROR") /\ UNCHANGED blk
    ELSE /\ blk' = DecreasedAt(a)
         /\ IF S16(blk[OffsetOf(a)].mReferenceCount - 1) < 0
            THEN Fault("LSRF_HEAP_ERROR")
            ELSE UNCHANGED <<hp, fr, workVars>>

LastRefToList(a) ==
    /\ InHeap(a)
    /\ blk[OffsetOf(a)].mType = "LST_LIST"
    /\ S16(blk[OffsetOf(a)].mReferenceCount - 1) = 0

DecreaseRefCount(a) ==
    /\ Idle
    /\ held[a] > 0
    /\ ~LastRefToList(a)
    /\ DecreaseLeaf(a)
    /\ held' = [held EXCEPT ![a] = @ - 1]
    /\ UNCHANGED sp

\* The last reference to a list: first its elements are decreased, then the
\* list's own header is written.
DropList(a) ==
    /\ Idle
    /\ held[a] > 0
    /\ LastRefToList(a)
    /\ pc' = "drop" /\ list' = OffsetOf(a)
    /\ UNCHANGED <<heapVars, cur, want, left, split, held>>

\* elems shrinks with the loop: it is what the list still owns.
DropElement ==
    /\ pc = "drop" /\ blk[list].elems # <<>>
    /\ UNCHANGED <<sp, held>>
    /\ LET a == Head(blk[list].elems) IN
       IF ~InHeap(a)
       THEN Fault("LSRF_BOUND_CHECK_ERROR") /\ UNCHANGED blk
       ELSE /\ blk' = [DecreasedAt(a) EXCEPT ![list].elems = Tail(@)]
            /\ IF S16(blk[OffsetOf(a)].mReferenceCount - 1) < 0
               THEN Fault("LSRF_HEAP_ERROR")
               ELSE UNCHANGED <<hp, fr, workVars>>

FinishDrop ==
    /\ pc = "drop" /\ blk[list].elems = <<>>
    /\ blk' = [blk EXCEPT ![list] = Decreased(@)]
    /\ held' = [held EXCEPT ![AddressOf(list)] = @ - 1]
    /\ BackToIdle
    /\ UNCHANGED <<hp, sp, fr>>

----------------------------------------------------------------------------
\* set_sp: the stack moves between two heap operations.
SetSP(s) ==
    /\ Idle
    /\ s # sp
    /\ IF s <= hp
       THEN Fault("LSRF_STACK_HEAP_COLLISION") /\ UNCHANGED <<blk, sp, held>>
       ELSE sp' = s /\ UNCHANGED <<blk, hp, fr, workVars, held>>

Client ==
    \/ \E n \in ScalarSizes : AddScalar(n)
    \/ \E shape \in ListShapes : AddList(shape)
    \/ \E a \in Addresses \cup {0} : IncreaseRefCount(a)
    \/ \E a \in Addresses : DecreaseRefCount(a) \/ DropList(a)
    \/ \E s \in StackTops : SetSP(s)

Working ==
    \/ PlaceSplit \/ PlaceWhole \/ Advance
    \/ AddElement \/ FinishList
    \/ DropElement \/ FinishDrop

HeapNext == Client \/ Working
Spec == Init /\ [][HeapNext]_vars
FairSpec == Spec /\ WF_vars(Working)

----------------------------------------------------------------------------
\* Properties.

\* The type invariant of the heap's variables.
TypeOK ==
    /\ DOMAIN blk \subseteq HR .. HeapEnd
    /\ blk \in [DOMAIN blk -> Blocks]
    /\ hp \in 0 .. TM /\ sp \in 0 .. TM - 1
    /\ fr \in Faults
    /\ pc \in {"idle", "walk", "fill", "drop"}
    /\ cur \in HR .. HeapEnd
    /\ want \in [mType : Kinds, mSize : Nat]
    /\ list \in Nat
    /\ left \in Seq(ScalarSizes) /\ split \in BOOLEAN
    /\ held \in [Addresses -> Nat]

\* Until a fault, the blocks tile the heap: walking from HR by the sizes in
\* the headers meets every block once and ends exactly at the end of the
\* sentinel.  lsa_heap_add_data splits and merges blocks in place; a size
\* that is off by one header would make the walk read data as a header.
Tiling ==
    fr = "OK" =>
      /\ HR \in DOMAIN blk
      /\ \A o \in DOMAIN blk : Next(o) \in DOMAIN blk \cup {HeapEnd}
      /\ \A o, p \in DOMAIN blk : o < p => Next(o) <= p

\* Until a fault, HP is below SP and every block in use lies below HP, so
\* neither a push nor an allocation writes into the other's data.  The one
\* block excepted is the list that lsa_heap_add_data is filling: its HP
\* check comes after its elements.
HeapBelowStack ==
    fr = "OK" =>
      /\ hp < sp
      /\ \A o \in DOMAIN blk : Live(o) /\ o # list => Next(o) <= hp

\* The inductive form of Tiling and HeapBelowStack.  Only a block that is not
\* the sentinel is ever in use; every header lies below HP, but for the one
\* behind a list that was carved out and whose HP check is still due; and the
\* walk stands on a header from which the data, if placed, ends below SP -
\* except on the first block, which lsa_heap_add_data takes unchecked.
Building == pc \in {"walk", "fill"} /\ list # 0
HeaderDue(o) == Building /\ split /\ o = Next(list)
Layout ==
    /\ pc # "idle" => fr = "OK"
    /\ fr = "OK" =>
         /\ hp < sp
         /\ \A o \in DOMAIN blk :
              /\ Live(o) => Next(o) # HeapEnd
              /\ o + SIZEOF_SCRIPT_ALLOC_ENTRY <= hp \/ HeaderDue(o)
              /\ Live(o) => Next(o) <= hp \/ (Building /\ split /\ o = list)
    /\ pc = "walk" =>
         /\ cur \in DOMAIN blk
         /\ cur = HR \/ NewHP(cur, want.mSize) < sp
         /\ want.mType # "LST_NULL" /\ want.mSize \in RequestSizes
         /\ want.mType = "LST_LIST" => list = 0
    /\ pc = "fill" => list # 0
    /\ pc = "idle" => list = 0
    /\ pc = "drop" => held[AddressOf(list)] > 0
    /\ Building => list \in DOMAIN blk /\ blk[list].mType = "LST_LIST"
    /\ want.mType = "LST_LIST" => pc = "walk"

\* A block's count is the number of references there are to it: those the
\* script holds plus one if it is an element of a list in use.
IsElement(o) ==
    \E l \in DOMAIN blk : Live(l) /\ AddressOf(o) \in ElementsOf(l)
References(o) ==
    held[AddressOf(o)] + (IF IsElement(o) THEN 1 ELSE 0)
      + (IF pc \in {"fill", "walk"} /\ o = list THEN 1 ELSE 0)
CountsExact ==
    fr = "OK" =>
      \A o \in DOMAIN blk : Live(o) =>
        blk[o].mReferenceCount = References(o) /\ References(o) > 0

\* What is held or listed exists: no address in the script's hands and no
\* entry of a list in use points at a free block or between two headers.
NoDangling ==
    fr = "OK" =>
      /\ \A a \in Addresses : held[a] > 0 =>
           OffsetOf(a) \in DOMAIN blk /\ Live(OffsetOf(a))
      /\ \A l \in DOMAIN blk : Live(l) =>
           \A a \in ElementsOf(l) :
             OffsetOf(a) \in DOMAIN blk /\ blk[OffsetOf(a)].mType = "LST_DATA"

\* A state saved between two opcodes is whole: writeState writes the heap
\* from HR to HP only, so every header, the free ones included, and the data
\* of every block in use must lie below HP.  A restored heap is zero from HP
\* on, and the next walk would take zeros for a header.
SavedWhole ==
    pc = "idle" /\ fr = "OK" =>
      \A o \in DOMAIN blk :
        /\ o + SIZEOF_SCRIPT_ALLOC_ENTRY <= hp
        /\ Live(o) => Next(o) <= hp

\* A block the script keeps a reference to is never resized, retyped, merged
\* away or given other elements by what other allocations and releases do.
BlockAddresses == {AddressOf(o) : o \in DOMAIN blk} \cap Addresses
HeldBlocksStay ==
    [][\A a \in BlockAddresses : held[a] > 0 /\ held'[a] > 0 =>
         LET o == OffsetOf(a) IN
         /\ o \in DOMAIN blk'
         /\ blk'[o].mSize = blk[o].mSize
         /\ blk'[o].mType = blk[o].mType
         /\ pc' # "drop" => blk'[o].elems = blk[o].elems]_vars

\* The walk gives up with a stack-heap collision only when the data really
\* fits nowhere: no run of adjacent free blocks from r to e could be merged
\* into a place for it that, with the headers around it, ends below SP.
Boundaries == DOMAIN blk \cup {HeapEnd}
FreeRun(r, e) ==
    r < e /\ \A o \in DOMAIN blk : r <= o /\ o < e => ~Live(o)
Fits(n) ==
    \E r \in DOMAIN blk : \E e \in Boundaries :
      FreeRun(r, e) /\ r + SIZEOF_SCRIPT_ALLOC_ENTRY + n <= e /\ NewHP(r, n) < sp
CollisionOnlyWhenFull ==
    [][pc = "walk" /\ fr' # fr => ~Fits(want.mSize)]_vars

\* Every heap operation comes to its end: the walk cannot go round, whatever
\* it merges on its way.
OperationsEnd == pc # "idle" ~> pc = "idle"

----------------------------------------------------------------------------
\* What the heap's headers say about a held object: its stored count, its
\* kind and, for a list, how many elements it has.  A list counts as released
\* from the moment lsa_decrease_ref_count starts on its elements.
Visible ==
    {a \in BlockAddresses : held[a] > 0 /\ ~(pc = "drop" /\ OffsetOf(a) = list)}
ObjectAt(o) ==
    [count |-> blk[o].mReferenceCount,
     value |-> [kind |-> blk[o].mType, length |-> Len(blk[o].elems)]]
Lengths == {0} \cup {Len(shape) : shape \in ListShapes}
                \cup {Len(Statics[o].elems) : o \in DOMAIN Statics}

Store == INSTANCE RefStore WITH
    Values <- [kind : {"LST_DATA", "LST_LIST"}, length : Lengths],
    store <- [a \in Visible |-> ObjectAt(OffsetOf(a))],
    stopped <- (fr # "OK")

\* The walk, the splits and merges, the element loops and the counts in the
\* headers together behave as the store of counted objects: each operation
\* takes effect in one step, an address is handed out only when nobody holds
\* it, and an object's kind and length stay as long as it is held.
ImplementsStore == Store!StoreSpec
=============================================================================
