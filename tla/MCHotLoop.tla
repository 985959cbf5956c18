------------------------------ MODULE MCHotLoop ------------------------------
\* Handlers of a few instructions for TLC.
EXTENDS HotLoop

Op(op) == [op |-> op, to |-> 0]
To(op, to) == [op |-> op, to |-> to]

\* A handler that calls a recursive function in a loop and changes state.
WithFunction ==
    << To("LOPC_CALL", 8), Op("LOPC_PUSHL"), Op("LOPC_ADD"),
       To("LOPC_JUMPIF", 1), To("LOPC_JUMPIF", 7), Op("LOPC_RETURN"),
       Op("LOPC_STATE"),
       Op("LOPC_CALLLIB"), To("LOPC_JUMPIF", 11), To("LOPC_CALL", 8),
       Op("LOPC_PUSHGQ"), Op("LOPC_CALLLIB_TWO_BYTE"), To("LOPC_JUMP", 14),
       Op("LOPC_RETURN") >>

\* while (condition) { llSleep(1); }
WhileLoop ==
    << To("LOPC_JUMPIF", 4), Op("LOPC_CALLLIB"), To("LOPC_JUMP", 1),
       Op("LOPC_RETURN") >>
============================================================================
