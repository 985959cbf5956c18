------------------------------- MODULE HotLoop -------------------------------
(***************************************************************************)
(* The loop of LLScriptExecuteLSL2::resumeEventHandler: it runs a          *)
(* handler's instructions one after the other and is left, for runQuanta   *)
(* to look at the timer and at sleep, reset and state change, after        *)
(* certain opcodes only.  Inside the loop the address of the next          *)
(* instruction is in cur_ip; register IP is written when the loop is left. *)
(*                                                                         *)
(* An instruction is its opcode and, for a jump or call, the address it    *)
(* leads to; addresses count instructions, and 0 is the IP of a script     *)
(* that is in no handler.  What instructions compute is left out.          *)
(***************************************************************************)
EXTENDS Integers, Sequences, SequencesExt

CONSTANTS
    Code,      \* address -> [op, to]
    Entry,     \* where the handler begins
    MaxFrames, \* room for this many return addresses between stack and heap
    Wrap       \* mInstructionCount is a U32: 2^32 in the code

\* The opcodes told apart here: the byte the compiler emits, LSCRIPTOpCodes.
\* LOPC_ADD stands for all that only go on with the next instruction.
Byte == [LOPC_ADD |-> 112, LOPC_PUSHL |-> 82, LOPC_PUSHGQ |-> 89,
         LOPC_JUMP |-> 144, LOPC_JUMPIF |-> 145, LOPC_STATE |-> 147,
         LOPC_CALL |-> 148, LOPC_RETURN |-> 149,
         LOPC_CALLLIB |-> 208, LOPC_CALLLIB_TWO_BYTE |-> 209]

\* The enumerators of the switch: their place in LSCRIPTOpCodesEnum.
Ordinal == [LOPC_JUMP |-> 79, LOPC_JUMPIF |-> 80, LOPC_JUMPNIF |-> 81,
            LOPC_STATE |-> 82, LOPC_CALL |-> 83, LOPC_RETURN |-> 84,
            LOPC_CALLLIB |-> 89, LOPC_CALLLIB_TWO_BYTE |-> 90]
Jumps == {"LOPC_JUMP", "LOPC_JUMPIF", "LOPC_JUMPNIF"}

ASSUME LoopAssumption ==
    /\ DOMAIN Code \subseteq Nat \ {0} /\ Entry \in DOMAIN Code
    /\ \A a \in DOMAIN Code :
         /\ Code[a].op \in DOMAIN Byte
         /\ Code[a].op \in {"LOPC_JUMP", "LOPC_JUMPIF", "LOPC_CALL"} =>
              Code[a].to \in DOMAIN Code
         /\ Code[a].op \notin {"LOPC_JUMP", "LOPC_STATE", "LOPC_RETURN"} =>
              a + 1 \in DOMAIN Code
    /\ MaxFrames \in Nat \ {0} /\ Wrap \in Nat \ {0}

VARIABLES
    ip,       \* register IP
    cur_ip,   \* in the loop: address of the next instruction
    frames,   \* return addresses on the stack
    mInstructionCount,
    faulted,  \* register FR is not 0
    asleep,   \* register SLR is above 0
    pending,  \* isStateChangePending
    pc        \* loop, or out

vars == <<ip, cur_ip, frames, mInstructionCount, faulted, asleep, pending, pc>>

Init ==
    /\ ip = 0 /\ cur_ip = 0 /\ frames = <<>> /\ mInstructionCount = 0
    /\ faulted = FALSE /\ asleep = FALSE /\ pending = FALSE
    /\ pc = "out"

----------------------------------------------------------------------------
\* The loop.

\* The switch behind each instruction: it compares the byte with the
\* enumerators.
Interrupts(op, start, next) ==
    \E c \in DOMAIN Ordinal :
      Ordinal[c] = Byte[op] /\ (c \in Jumps => start >= next)

\* Mutants: IP is where the last instruction began; a fault is not looked at.
LeftAt_Start(next) == cur_ip
Stops_Never(fault) == FALSE

LeftAt(next) == next
Stops(fault) == fault

\* The end of a round of the loop.
Next(next, fault) ==
    /\ cur_ip' = next
    /\ mInstructionCount' = (mInstructionCount + 1) % Wrap
    /\ faulted' = fault
    /\ IF next = 0 \/ Interrupts(Code[cur_ip].op, cur_ip, next) \/ Stops(fault)
       THEN pc' = "out" /\ ip' = LeftAt(next)
       ELSE UNCHANGED <<pc, ip>>

Executes(ops) == pc = "loop" /\ Code[cur_ip].op \in ops

\* Whatever goes on with the next instruction.
Straight ==
    /\ Executes({"LOPC_ADD", "LOPC_PUSHL", "LOPC_PUSHGQ"})
    /\ \E fault \in BOOLEAN : Next(cur_ip + 1, faulted \/ fault)
    /\ UNCHANGED <<frames, asleep, pending>>

run_jump ==
    /\ Executes({"LOPC_JUMP"})
    /\ Next(Code[cur_ip].to, faulted)
    /\ UNCHANGED <<frames, asleep, pending>>

run_jumpif ==
    /\ Executes({"LOPC_JUMPIF"})
    /\ \E next \in {cur_ip + 1, Code[cur_ip].to}, fault \in BOOLEAN :
         Next(next, faulted \/ fault)
    /\ UNCHANGED <<frames, asleep, pending>>

\* Mutant: one frame too many.
NoRoom_OffByOne == Len(frames) > MaxFrames
NoRoom == Len(frames) = MaxFrames

\* The frame of the call runs into the heap, or takes the return address.
run_call ==
    /\ Executes({"LOPC_CALL"})
    /\ IF NoRoom
       THEN Next(cur_ip + 1, TRUE) /\ UNCHANGED frames
       ELSE /\ Next(Code[cur_ip].to, faulted)
            /\ frames' = Append(frames, cur_ip + 1)
    /\ UNCHANGED <<asleep, pending>>

run_return ==
    /\ Executes({"LOPC_RETURN"})
    /\ Next(Last(frames), faulted) /\ frames' = Front(frames)
    /\ UNCHANGED <<asleep, pending>>

\* In event handlers alone, so the frame on top is the handler's.
run_state ==
    /\ Executes({"LOPC_STATE"})
    /\ Next(Last(frames), faulted) /\ frames' = Front(frames)
    /\ pending' \in {pending, TRUE}
    /\ UNCHANGED asleep

run_calllib_common ==
    /\ Executes({"LOPC_CALLLIB", "LOPC_CALLLIB_TWO_BYTE"})
    /\ \E fault \in BOOLEAN : Next(cur_ip + 1, faulted \/ fault)
    /\ asleep' \in {asleep, TRUE}
    /\ UNCHANGED <<frames, pending>>

----------------------------------------------------------------------------
\* Around the loop.

\* Mutant: takes up the handler from its beginning.
ResumeAt_Entry == Entry
ResumeAt == ip

Resume ==
    /\ pc = "out" /\ ip # 0 /\ ~faulted
    /\ pc' = "loop" /\ cur_ip' = ResumeAt
    /\ UNCHANGED <<ip, frames, mInstructionCount, faulted, asleep, pending>>

callEventHandler ==
    /\ pc = "out" /\ ip = 0 /\ ~faulted
    /\ ip' = Entry /\ frames' = <<0>>
    /\ UNCHANGED <<cur_ip, mInstructionCount, faulted, asleep, pending, pc>>

\* Between quanta: the sleep is over; the state was changed.
Between ==
    /\ pc = "out" /\ (asleep \/ pending)
    /\ asleep' = FALSE
    /\ pending' \in {pending, FALSE}
    /\ UNCHANGED <<ip, cur_ip, frames, mInstructionCount, faulted, pc>>

Execute ==
    \/ Straight \/ run_jump \/ run_jumpif \/ run_call \/ run_return
    \/ run_state \/ run_calllib_common

LoopNext == Execute \/ Resume \/ callEventHandler \/ Between
Spec == Init /\ [][LoopNext]_vars

\* The loop runs: nothing else can happen until it is left.
FairSpec == Spec /\ WF_vars(Execute)

----------------------------------------------------------------------------
\* Properties.

\* The type invariant.
TypeOK ==
    /\ ip \in DOMAIN Code \cup {0} /\ cur_ip \in DOMAIN Code \cup {0}
    /\ frames \in Seq(DOMAIN Code \cup {0}) /\ Len(frames) <= MaxFrames
    /\ mInstructionCount \in 0 .. Wrap - 1
    /\ faulted \in BOOLEAN /\ asleep \in BOOLEAN /\ pending \in BOOLEAN
    /\ pc \in {"loop", "out"}

\* No instruction runs once a fault is set, neither in the round of the loop
\* that set it nor in a later quantum.
FaultStops == [][faulted => UNCHANGED <<frames, cur_ip, ip, mInstructionCount>>]_vars

\* A handler does what its code says wherever it is interrupted and however
\* often: resuming loses no instruction and runs none twice.
Codes == INSTANCE HandlerCode WITH
    at <- IF pc = "loop" THEN cur_ip ELSE ip,
    count <- mInstructionCount,
    stopped <- faulted
ImplementsCode == Codes!CodeSpec

\* A handler that loops comes out of the loop, so that the timer can stop it:
\* what the cases of the switch for backward jumps and calls are for.
LoopIsLeft == pc = "loop" ~> pc = "out"
=============================================================================
