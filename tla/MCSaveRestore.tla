--------------------------- MODULE MCSaveRestore ---------------------------
\* A script of two states that is saved, restored and reset, for TLC.
EXTENDS SaveRestore

TwoStates == {0, 1}

\* One state is rezzed and has no state_exit handler, the other has one, and
\* no state_entry handler: only its queue is used.
RezThenTouch ==
    [s \in TwoStates |->
       IF s = 0 THEN {LSTT_STATE_ENTRY, LSTT_TOUCH_START, LSTT_REZ}
                ELSE {LSTT_STATE_EXIT, LSTT_TOUCH_START}]

Rez == {LSTT_REZ}
TouchAndRez == {LSTT_TOUCH_START, LSTT_REZ}
==========================================================================
