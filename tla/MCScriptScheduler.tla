------------------------ MODULE MCScriptScheduler ------------------------
\* Scripts of two states for TLC.
EXTENDS ScriptScheduler

TwoStates == {0, 1}

\* Both states have a state_entry handler; one has a state_exit handler, the
\* other is rezzed.
WithEntry ==
    [s \in TwoStates |->
       IF s = 0 THEN {LSTT_STATE_ENTRY, LSTT_STATE_EXIT, LSTT_TOUCH_START}
                ELSE {LSTT_STATE_ENTRY, LSTT_TOUCH_START, LSTT_REZ}]

\* A state that is rezzed and has a state_exit handler, which may go back on
\* the state change.
ExitAndRez ==
    [s \in TwoStates |->
       IF s = 0 THEN {LSTT_STATE_ENTRY, LSTT_STATE_EXIT, LSTT_REZ}
                ELSE {LSTT_STATE_ENTRY}]

\* A state without a state_entry handler that is sent HTTP responses.
OnlyHttp ==
    [s \in TwoStates |->
       IF s = 0 THEN {LSTT_HTTP_RESPONSE} ELSE {LSTT_STATE_ENTRY}]

TouchAndRez == {LSTT_TOUCH_START, LSTT_REZ}
Rez == {LSTT_REZ}
Http == {LSTT_HTTP_RESPONSE}
NoEvents == {}
==========================================================================
