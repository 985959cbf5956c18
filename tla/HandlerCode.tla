----------------------------- MODULE HandlerCode -----------------------------
(***************************************************************************)
(* What a handler's code does if nobody interrupts it: one instruction     *)
(* after the other, calls and returns in last-in first-out order, until    *)
(* the handler is left or a fault stops the script.  There is no loop of   *)
(* the interpreter, no quantum and no register IP here.                    *)
(***************************************************************************)
EXTENDS Naturals, Sequences

CONSTANTS Code, Entry, Wrap

VARIABLES
    at,       \* address of the next instruction, 0 outside of handlers
    frames,   \* return addresses
    count,    \* instructions run, up to Wrap
    stopped

codeVars == <<at, frames, count, stopped>>

CodeInit == at = 0 /\ frames = <<>> /\ count = 0 /\ stopped = FALSE

Call == at' = Code[at].to /\ frames' = Append(frames, at + 1)

Leave ==
    /\ at' = frames[Len(frames)]
    /\ frames' = SubSeq(frames, 1, Len(frames) - 1)

Proceed ==
    /\ \/ at' = at + 1
       \/ Code[at].op \in {"LOPC_JUMP", "LOPC_JUMPIF"} /\ at' = Code[at].to
    /\ Code[at].op = "LOPC_JUMP" => at' = Code[at].to
    /\ UNCHANGED frames

Step ==
    /\ at # 0
    /\ CASE Code[at].op = "LOPC_CALL" -> Call
         [] Code[at].op \in {"LOPC_RETURN", "LOPC_STATE"} -> Leave
         [] OTHER -> Proceed
    /\ count' = (count + 1) % Wrap
    /\ UNCHANGED stopped

Begin ==
    /\ at = 0 /\ at' = Entry /\ frames' = <<0>>
    /\ UNCHANGED <<count, stopped>>

Stop == at # 0 /\ stopped' = TRUE

CodeNext == ~stopped /\ (Step \/ Begin \/ Stop)
CodeSpec == CodeInit /\ [][CodeNext]_codeVars
=============================================================================
