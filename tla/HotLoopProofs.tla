--------------------------- MODULE HotLoopProofs ---------------------------
(***************************************************************************)
(* Proofs about the loop of resumeEventHandler, for all code that meets    *)
(* LoopAssumption.                                                         *)
(*                                                                         *)
(* FInv is inductive: the variables are typed, the frame at the bottom of  *)
(* the stack is the handler's and holds 0, the others hold addresses of    *)
(* code, there are frames exactly as long as the machine is in a handler,  *)
(* and it is out of the loop whenever a fault is set.                      *)
(***************************************************************************)
EXTENDS HotLoop, TLAPS

\* Where the machine is, in the loop or out of it.
At == IF pc = "loop" THEN cur_ip ELSE ip

FInv ==
    /\ TypeOK
    /\ Len(frames) = 0 <=> At = 0
    /\ \A i \in 1 .. Len(frames) : frames[i] = 0 <=> i = 1
    /\ pc = "loop" => cur_ip # 0
    /\ faulted => pc = "out"

\* What a step of the loop finds.
LEMMA InLoop ==
    ASSUME FInv, NEW ops, Executes(ops)
    PROVE  /\ pc = "loop" /\ ~faulted /\ cur_ip \in DOMAIN Code /\ cur_ip \in Nat
           /\ At = cur_ip /\ Code[cur_ip].op \in ops
           /\ Len(frames) \in 1 .. MaxFrames /\ frames \in Seq(DOMAIN Code \cup {0})
BY LoopAssumption DEF FInv, Executes, TypeOK, At

\* A round of the loop ends at next, in the loop or out of it.
LEMMA NextEnds ==
    ASSUME FInv, NEW next \in DOMAIN Code \cup {0}, NEW fault \in BOOLEAN,
           pc = "loop", Next(next, fault)
    PROVE  /\ cur_ip' \in DOMAIN Code \cup {0} /\ ip' \in DOMAIN Code \cup {0}
           /\ mInstructionCount' \in 0 .. Wrap - 1
           /\ mInstructionCount' = (mInstructionCount + 1) % Wrap
           /\ faulted' = fault /\ pc' \in {"loop", "out"} /\ At' = next
           /\ pc' = "loop" => cur_ip' # 0 /\ ~fault
<1>1. mInstructionCount \in Nat /\ Wrap \in Nat \ {0}
  BY LoopAssumption DEF FInv, TypeOK
<1>2. (mInstructionCount + 1) % Wrap \in 0 .. Wrap - 1
  BY <1>1
<1>3. cur_ip' = next /\ faulted' = fault
      /\ mInstructionCount' = (mInstructionCount + 1) % Wrap
  BY DEF Next
<1>4. CASE next = 0 \/ Interrupts(Code[cur_ip].op, cur_ip, next) \/ Stops(fault)
  <2>1. pc' = "out" /\ ip' = next
    BY <1>4 DEF Next, LeftAt
  <2> QED
    BY <1>2, <1>3, <2>1 DEF At
<1>5. CASE ~(next = 0 \/ Interrupts(Code[cur_ip].op, cur_ip, next) \/ Stops(fault))
  <2>1. pc' = pc /\ ip' = ip /\ next # 0 /\ ~fault
    BY <1>5 DEF Next, Stops
  <2> QED
    BY <1>2, <1>3, <2>1 DEF At, FInv, TypeOK
<1> QED
  BY <1>4, <1>5

\* A step that goes on in the same frame.
LEMMA SameFrame ==
    ASSUME FInv, NEW next \in DOMAIN Code, NEW fault \in BOOLEAN,
           pc = "loop", Next(next, fault), frames' = frames,
           asleep' \in BOOLEAN, pending' \in BOOLEAN
    PROVE  FInv'
<1>1. cur_ip # 0 /\ next # 0
  BY LoopAssumption DEF FInv
<1>2. Len(frames) # 0
  BY <1>1 DEF FInv, At
<1> QED
  BY <1>1, <1>2, NextEnds DEF FInv, TypeOK

\* A return, to the caller or out of the handler.
LEMMA Returned ==
    ASSUME FInv, pc = "loop", Next(Last(frames), faulted), frames' = Front(frames),
           asleep' \in BOOLEAN, pending' \in BOOLEAN
    PROVE  FInv'
<1>1. ~faulted /\ faulted \in BOOLEAN /\ MaxFrames \in Nat
  BY LoopAssumption DEF FInv, TypeOK
<1>2. PICK n \in Nat : n = Len(frames) /\ n > 0
  BY DEF FInv, TypeOK, At
<1>3. frames \in Seq(DOMAIN Code \cup {0}) /\ n <= MaxFrames
  BY <1>2 DEF FInv, TypeOK
<1>4. Last(frames) = frames[n] /\ frames[n] \in DOMAIN Code \cup {0}
  BY <1>2, <1>3 DEF Last
<1>5. frames[n] = 0 <=> n = 1
  BY <1>2 DEF FInv
<1>6. /\ frames' \in Seq(DOMAIN Code \cup {0}) /\ Len(frames') = n - 1
      /\ \A i \in 1 .. n - 1 : frames'[i] = frames[i]
  BY <1>2, <1>3 DEF Front
<1>7. At' = frames[n] /\ cur_ip' \in DOMAIN Code \cup {0} /\ ip' \in DOMAIN Code \cup {0}
      /\ mInstructionCount' \in 0 .. Wrap - 1 /\ pc' \in {"loop", "out"}
      /\ faulted' = faulted /\ (pc' = "loop" => cur_ip' # 0)
  BY <1>1, <1>4, NextEnds
<1>8. TypeOK'
  BY <1>1, <1>2, <1>3, <1>6, <1>7 DEF TypeOK
<1>9. Len(frames') = 0 <=> At' = 0
  BY <1>2, <1>5, <1>6, <1>7
<1>10. \A i \in 1 .. Len(frames') : frames'[i] = 0 <=> i = 1
  BY <1>2, <1>6 DEF FInv
<1> QED
  BY <1>1, <1>7, <1>8, <1>9, <1>10 DEF FInv

----------------------------------------------------------------------------
LEMMA InitFInv == Init => FInv
<1> SUFFICES ASSUME Init PROVE FInv
  OBVIOUS
<1>1. Wrap \in Nat \ {0} /\ MaxFrames \in Nat
  BY LoopAssumption
<1>2. <<>> \in Seq(DOMAIN Code \cup {0}) /\ Len(<<>>) = 0 /\ 0 \in 0 .. Wrap - 1
  BY <1>1
<1>3. frames \in Seq(DOMAIN Code \cup {0}) /\ Len(frames) <= MaxFrames
  BY <1>1, <1>2 DEF Init
<1>4. mInstructionCount \in 0 .. Wrap - 1
  BY <1>1 DEF Init
<1>5. TypeOK
  BY <1>3, <1>4 DEF Init, TypeOK
<1> QED
  BY <1>2, <1>5 DEF Init, FInv, At

\* Where the instruction at a goes on.
LEMMA Follows ==
    ASSUME NEW a \in DOMAIN Code
    PROVE  /\ Code[a].op \in {"LOPC_JUMP", "LOPC_JUMPIF", "LOPC_CALL"} =>
                Code[a].to \in DOMAIN Code
           /\ Code[a].op \notin {"LOPC_JUMP", "LOPC_STATE", "LOPC_RETURN"} =>
                a + 1 \in DOMAIN Code
BY LoopAssumption

LEMMA ExecuteFInv ==
    ASSUME FInv, Execute
    PROVE  FInv'
<1>1. CASE Straight
  <2>1. PICK fault \in BOOLEAN : Next(cur_ip + 1, faulted \/ fault)
    BY <1>1 DEF Straight
  <2>2. cur_ip + 1 \in DOMAIN Code /\ pc = "loop"
    BY <1>1, InLoop, Follows DEF Straight
  <2> QED
    BY <1>1, <2>1, <2>2, SameFrame DEF Straight, FInv, TypeOK
<1>2. CASE run_jump
  <2>1. Code[cur_ip].to \in DOMAIN Code /\ pc = "loop"
    BY <1>2, InLoop, Follows DEF run_jump
  <2> QED
    BY <1>2, <2>1, SameFrame DEF run_jump, FInv, TypeOK
<1>3. CASE run_jumpif
  <2>1. PICK next \in {cur_ip + 1, Code[cur_ip].to}, fault \in BOOLEAN :
          Next(next, faulted \/ fault)
    BY <1>3 DEF run_jumpif
  <2>2. next \in DOMAIN Code /\ pc = "loop"
    BY <1>3, InLoop, Follows DEF run_jumpif
  <2> QED
    BY <1>3, <2>1, <2>2, SameFrame DEF run_jumpif, FInv, TypeOK
<1>4. CASE run_call
  <2>1. /\ Code[cur_ip].to \in DOMAIN Code /\ cur_ip + 1 \in DOMAIN Code
        /\ pc = "loop" /\ asleep' \in BOOLEAN /\ pending' \in BOOLEAN
    BY <1>4, InLoop, Follows DEF run_call, FInv, TypeOK
  <2>2. CASE NoRoom
    BY <1>4, <2>1, <2>2, SameFrame DEF run_call
  <2>3. CASE ~NoRoom
    <3>1. PICK n \in Nat : n = Len(frames) /\ n > 0 /\ n < MaxFrames
      BY <1>4, <2>3, InLoop, LoopAssumption DEF run_call, NoRoom
    <3>2. Next(Code[cur_ip].to, faulted) /\ frames' = Append(frames, cur_ip + 1)
      BY <1>4, <2>3 DEF run_call
    <3>3. /\ frames' \in Seq(DOMAIN Code \cup {0}) /\ Len(frames') = n + 1
          /\ \A i \in 1 .. n : frames'[i] = frames[i]
          /\ frames'[n + 1] = cur_ip + 1
      BY <2>1, <3>1, <3>2 DEF FInv, TypeOK
    <3>4. cur_ip + 1 # 0 /\ Code[cur_ip].to # 0
      BY <2>1, LoopAssumption
    <3>5. \A i \in 1 .. n + 1 : frames'[i] = 0 <=> i = 1
      BY <3>1, <3>3, <3>4 DEF FInv
    <3>6. faulted \in BOOLEAN /\ ~faulted /\ Len(frames') <= MaxFrames
      BY <2>1, <3>1, <3>3, LoopAssumption DEF FInv, TypeOK
    <3>7. At' = Code[cur_ip].to /\ cur_ip' \in DOMAIN Code \cup {0}
          /\ ip' \in DOMAIN Code \cup {0} /\ mInstructionCount' \in 0 .. Wrap - 1
          /\ pc' \in {"loop", "out"} /\ faulted' = faulted
          /\ (pc' = "loop" => cur_ip' # 0)
      BY <2>1, <3>2, <3>6, NextEnds
    <3>8. TypeOK'
      BY <2>1, <3>3, <3>6, <3>7 DEF TypeOK
    <3> QED
      BY <3>1, <3>3, <3>4, <3>5, <3>6, <3>7, <3>8 DEF FInv
  <2> QED
    BY <2>2, <2>3
<1>5. CASE run_return
  BY <1>5, InLoop, Returned DEF run_return, FInv, TypeOK
<1>6. CASE run_state
  BY <1>6, InLoop, Returned DEF run_state, FInv, TypeOK
<1>7. CASE run_calllib_common
  <2>1. PICK fault \in BOOLEAN : Next(cur_ip + 1, faulted \/ fault)
    BY <1>7 DEF run_calllib_common
  <2>2. cur_ip + 1 \in DOMAIN Code /\ pc = "loop"
    BY <1>7, InLoop, Follows DEF run_calllib_common
  <2> QED
    BY <1>7, <2>1, <2>2, SameFrame DEF run_calllib_common, FInv, TypeOK
<1> QED
  BY <1>1, <1>2, <1>3, <1>4, <1>5, <1>6, <1>7 DEF Execute

LEMMA NextFInv == FInv /\ [LoopNext]_vars => FInv'
<1> SUFFICES ASSUME FInv, [LoopNext]_vars PROVE FInv'
  OBVIOUS
<1>1. CASE Resume
  BY <1>1 DEF Resume, ResumeAt, FInv, TypeOK, At
<1>2. CASE callEventHandler
  <2>1. /\ ip' = Entry /\ frames' = <<0>> /\ pc' = "out"
        /\ UNCHANGED <<cur_ip, mInstructionCount, faulted, asleep, pending>>
    BY <1>2 DEF callEventHandler
  <2>2. Entry \in DOMAIN Code /\ Entry # 0 /\ MaxFrames >= 1
    BY LoopAssumption
  <2> QED
    BY <2>1, <2>2 DEF FInv, TypeOK, At
<1>3. CASE Between
  BY <1>3 DEF Between, FInv, TypeOK, At
<1>4. CASE UNCHANGED vars
  BY <1>4 DEF vars, FInv, TypeOK, At
<1> QED
  BY <1>1, <1>2, <1>3, <1>4, ExecuteFInv DEF LoopNext

LEMMA AlwaysFInv == Spec => []FInv
BY InitFInv, NextFInv, PTL DEF Spec

\* Every variable of the loop is typed, and the frames never outgrow the room
\* there is for them.
THEOREM TypeCorrect == Spec => []TypeOK
<1>1. FInv => TypeOK
  BY DEF FInv
<1> QED
  BY AlwaysFInv, <1>1, PTL

----------------------------------------------------------------------------
\* No instruction runs once a fault is set.
THEOREM NothingAfterFault == Spec => FaultStops
<1>1. FInv /\ [LoopNext]_vars =>
        [faulted => UNCHANGED <<frames, cur_ip, ip, mInstructionCount>>]_vars
  <2> SUFFICES ASSUME FInv, LoopNext, faulted
               PROVE  UNCHANGED <<frames, cur_ip, ip, mInstructionCount>>
    OBVIOUS
  <2>1. pc = "out"
    BY DEF FInv
  <2>2. Between
    BY <2>1 DEF LoopNext, Execute, Straight, run_jump, run_jumpif, run_call, run_return,
                run_state, run_calllib_common, Executes, Resume, callEventHandler
  <2> QED
    BY <2>2 DEF Between
<1> QED
  BY AlwaysFInv, <1>1, PTL DEF Spec, FaultStops

----------------------------------------------------------------------------
\* An instruction is a step of the code or, with a fault, its end.
LEMMA StepOfCode ==
    ASSUME FInv, Execute
    PROVE  Codes!CodeNext
<1>1. At # 0 /\ ~faulted /\ At = cur_ip /\ pc = "loop" /\ frames \in Seq(DOMAIN Code \cup {0})
  BY InLoop DEF Execute, Straight, run_jump, run_jumpif, run_call, run_return,
                run_state, run_calllib_common, FInv, At, Executes, TypeOK
<1>2. faulted' \in BOOLEAN
  BY ExecuteFInv DEF FInv, TypeOK
<1>3. CASE faulted'
  BY <1>1, <1>2, <1>3 DEF Codes!CodeNext, Codes!Stop, At
<1>4. CASE ~faulted'
  <2>1. faulted' = faulted
    BY <1>1, <1>2, <1>4 DEF FInv, TypeOK
  <2>2. ASSUME NEW next \in DOMAIN Code \cup {0}, NEW fault \in BOOLEAN, Next(next, fault)
        PROVE  At' = next /\ mInstructionCount' = (mInstructionCount + 1) % Wrap
    BY <1>1, <2>2, NextEnds
  <2>3. CASE Straight \/ run_jump \/ run_jumpif \/ run_calllib_common
    <3>1. PICK next \in DOMAIN Code, fault \in BOOLEAN :
            /\ Next(next, fault) /\ frames' = frames
            /\ \/ next = cur_ip + 1 /\ Code[cur_ip].op # "LOPC_JUMP"
               \/ /\ Code[cur_ip].op \in {"LOPC_JUMP", "LOPC_JUMPIF"}
                  /\ next = Code[cur_ip].to
            /\ Code[cur_ip].op \notin {"LOPC_CALL", "LOPC_RETURN", "LOPC_STATE"}
      <4>1. CASE Straight
        BY <1>1, <4>1, InLoop, Follows DEF Straight, FInv, TypeOK
      <4>2. CASE run_jump
        BY <1>1, <4>2, InLoop, Follows DEF run_jump, FInv, TypeOK
      <4>3. CASE run_jumpif
        BY <1>1, <4>3, InLoop, Follows DEF run_jumpif, FInv, TypeOK
      <4>4. CASE run_calllib_common
        BY <1>1, <4>4, InLoop, Follows DEF run_calllib_common, FInv, TypeOK
      <4> QED
        BY <2>3, <4>1, <4>2, <4>3, <4>4
    <3>2. At' = next /\ mInstructionCount' = (mInstructionCount + 1) % Wrap
      BY <2>2, <3>1
    <3>3. Codes!Proceed
      BY <1>1, <3>1, <3>2 DEF Codes!Proceed, At
    <3> QED
      BY <1>1, <2>1, <3>1, <3>2, <3>3 DEF Codes!CodeNext, Codes!Step, At
  <2>4. CASE run_call
    <3>1. ~NoRoom
      BY <1>4, <2>4 DEF run_call, Next
    <3>2. /\ Next(Code[cur_ip].to, faulted) /\ frames' = Append(frames, cur_ip + 1)
          /\ Code[cur_ip].op = "LOPC_CALL" /\ Code[cur_ip].to \in DOMAIN Code
      BY <2>4, <3>1, InLoop, Follows DEF run_call
    <3>3. At' = Code[cur_ip].to /\ mInstructionCount' = (mInstructionCount + 1) % Wrap
      BY <2>2, <3>2 DEF FInv, TypeOK
    <3>4. Codes!Call
      BY <1>1, <3>2, <3>3 DEF Codes!Call, At
    <3> QED
      BY <1>1, <2>1, <3>2, <3>3, <3>4 DEF Codes!CodeNext, Codes!Step, At
  <2>5. CASE run_return \/ run_state
    <3>1. /\ Next(Last(frames), faulted) /\ frames' = Front(frames)
          /\ Code[cur_ip].op \in {"LOPC_RETURN", "LOPC_STATE"}
      BY <2>5, InLoop DEF run_return, run_state
    <3>2. Last(frames) = frames[Len(frames)] /\ Last(frames) \in DOMAIN Code \cup {0}
      BY <1>1 DEF Last, FInv, At
    <3>3. /\ At' = frames[Len(frames)]
          /\ mInstructionCount' = (mInstructionCount + 1) % Wrap
      BY <2>2, <3>1, <3>2 DEF FInv, TypeOK
    <3>4. Codes!Leave
      BY <3>1, <3>3 DEF Codes!Leave, At, Front
    <3> QED
      BY <1>1, <2>1, <3>1, <3>3, <3>4 DEF Codes!CodeNext, Codes!Step, At
  <2> QED
    BY <2>3, <2>4, <2>5 DEF Execute
<1> QED
  BY <1>3, <1>4

\* Wherever the loop is left, and however often, the handler does what its
\* code says.
THEOREM Implements == Spec => ImplementsCode
<1>1. Init => Codes!CodeInit
  BY DEF Init, Codes!CodeInit
<1>2. FInv /\ [LoopNext]_vars => [Codes!CodeNext]_Codes!codeVars
  <2> SUFFICES ASSUME FInv, [LoopNext]_vars PROVE [Codes!CodeNext]_Codes!codeVars
    OBVIOUS
  <2>1. CASE Execute
    BY <2>1, StepOfCode
  <2>2. CASE Resume
    BY <2>2 DEF Resume, ResumeAt, Codes!codeVars
  <2>3. CASE callEventHandler
    BY <2>3, LoopAssumption DEF callEventHandler, Codes!CodeNext, Codes!Begin
  <2>4. CASE Between \/ UNCHANGED vars
    BY <2>4 DEF Between, vars, Codes!codeVars
  <2> QED
    BY <2>1, <2>2, <2>3, <2>4 DEF LoopNext
<1> QED
  BY AlwaysFInv, <1>1, <1>2, PTL DEF Spec, ImplementsCode, Codes!CodeSpec
=============================================================================
