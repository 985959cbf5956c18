--------------------------- MODULE ScriptScheduler ---------------------------
(***************************************************************************)
(* How one LSO script is run (lscript_execute/lscript_execute.cpp): the    *)
(* event registers, the event queue, state changes and the quanta.         *)
(*                                                                         *)
(* The host hands events to the script between quanta, on one of two ways: *)
(* in the queue (mEventData) or as a bit of register CE.  runQuanta calls  *)
(* runInstructions until a yield is due or the time is up; runInstructions *)
(* resumes the handler that is running or, when there is none, switches    *)
(* states or picks the next event.                                         *)
(*                                                                         *)
(* Events are the numbers of LSCRIPTStateEventType; a 64 bit event         *)
(* register is the set of the events whose bit is set.  The code of a      *)
(* handler is abstracted to what the scheduler sees of it: that it is      *)
(* interrupted, sleeps, changes state, faults or returns.                  *)
(***************************************************************************)
EXTENDS Integers, Sequences, FiniteSets, SequencesExt

CONSTANTS
    States,         \* indices of the script's states; 0 is the default state
    Handled,        \* state -> events it has a handler for
    Queued,         \* events the host sends through the queue
    Raised,         \* events the host sends as bits of CE
    HostEvents,     \* bound: events the host sends in all
    MAX_EVENTS_IN_QUEUE,
    TimerCheckSkip  \* sTimerCheckSkip

LSTT_NULL == 0
LSTT_STATE_ENTRY == 1
LSTT_STATE_EXIT == 2
LSTT_TOUCH_START == 3
LSTT_REZ == 14
LSTT_HTTP_RESPONSE == 33
LSTT_EOF == 35
Events == 1 .. LSTT_EOF - 1

\* The host knows which events the current state handles (register ER) and
\* sends no others; state_entry and state_exit are the interpreter's own.
ASSUME SchedulerAssumption ==
    /\ 0 \in States /\ States \subseteq Nat
    /\ Handled \in [States -> SUBSET Events]
    /\ Queued \subseteq Events \ {LSTT_STATE_ENTRY, LSTT_STATE_EXIT}
    /\ Raised \subseteq Events \ {LSTT_STATE_ENTRY, LSTT_STATE_EXIT}
    /\ HostEvents \in Nat /\ TimerCheckSkip \in Nat
    /\ MAX_EVENTS_IN_QUEUE \in Nat \ {0}

VARIABLES
    code,     \* the event whose handler IP is in, 0 when IP is 0
    ie,       \* register IE: the event being handled
    ce,       \* register CE: events raised
    er,       \* register ER: events handled in the current state
    cs, ns,   \* registers CS and NS: current and next state
    faulted,  \* register FR is not 0
    asleep,   \* register SLR is above 0
    mReset,
    queue,    \* mEventDataList, front first
    pc,       \* host, pick (runInstructions), run (a handler) or check
    timer_checks,
    elapsed,  \* the quantum is used up
    budget    \* events the host may still send

registers == <<code, ie, ce, er, cs, ns, faulted, asleep>>
quantum == <<timer_checks, elapsed>>
vars == <<registers, mReset, queue, pc, quantum, budget>>

\* A compiled script, loaded.
Init ==
    /\ code = 0 /\ ie = {} /\ ce = {LSTT_STATE_ENTRY}
    /\ cs = 0 /\ ns = 0 /\ er = Handled[0]
    /\ faulted = FALSE /\ asleep = FALSE /\ mReset = FALSE
    /\ queue = <<>>
    /\ pc = "host" /\ timer_checks = 0 /\ elapsed = FALSE
    /\ budget = HostEvents

isStateChangePending == cs # ns
isFinished == code = 0 \/ faulted

----------------------------------------------------------------------------
\* The host.

\* Mutants: the queue has no limit; a full queue loses what it holds.
Queue_Unbounded(e) == Append(queue, e)
Queue_Overwrites(e) ==
    IF Len(queue) < MAX_EVENTS_IN_QUEUE THEN Append(queue, e)
    ELSE Append(Tail(queue), e)

\* addEventData: a full queue drops the new event.
WithEvent(e) ==
    IF Len(queue) < MAX_EVENTS_IN_QUEUE THEN Append(queue, e) ELSE queue

AddEvent(e) ==
    /\ pc = "host" /\ budget > 0 /\ e \in er
    /\ queue' = WithEvent(e)
    /\ budget' = budget - 1
    /\ UNCHANGED <<registers, mReset, pc, quantum>>

\* setCurrentEvents with one bit more.  on_rez takes its argument from the
\* queue, so the host raises it for an event it has queued.
Raise(e) ==
    /\ pc = "host" /\ budget > 0 /\ e \in er \ ce
    /\ e = LSTT_REZ => Contains(queue, e)
    /\ ce' = ce \cup {e}
    /\ budget' = budget - 1
    /\ UNCHANGED <<code, ie, er, cs, ns, faulted, asleep, mReset, queue, pc, quantum>>

setReset(b) ==
    /\ pc = "host" /\ b # mReset
    /\ mReset' = b
    /\ UNCHANGED <<registers, queue, pc, quantum, budget>>

\* The time the script sleeps for has passed.
WakeUp ==
    /\ pc = "host" /\ asleep
    /\ asleep' = FALSE
    /\ UNCHANGED <<code, ie, ce, er, cs, ns, faulted, mReset, queue, pc, quantum, budget>>

runQuanta ==
    /\ pc = "host"
    /\ pc' = "pick"
    /\ timer_checks' = 0 /\ elapsed' = FALSE
    /\ UNCHANGED <<registers, mReset, queue, budget>>

----------------------------------------------------------------------------
\* Calling a handler.

\* Mutant: the bits are counted from 0.
FirstEvent_FromZero(events) ==
    LET low == events \cap 1 .. 32 IN
    IF low = {} THEN LSTT_NULL ELSE Min(low) - 1

\* return_first_event takes an S32: events 33 and 34 are bits 32 and 33.
FirstEvent(events) ==
    LET low == events \cap 1 .. 32 IN
    IF low = {} THEN LSTT_NULL ELSE Min(low)

\* get_event_handler_jump_position: handlers are found by counting the
\* handled events before this one, in the jump table of the current state.
\* Beyond stands for an address read from behind the end of that table.
Beyond == -1
Position(handled, event) == Cardinality({e \in handled : e < event})
HandlerAt(state, handled, event) ==
    LET found == {e \in Handled[state] :
                    Position(Handled[state], e) = Position(handled, event)}
    IN IF found = {} THEN Beyond ELSE CHOOSE e \in found : TRUE

\* Mutant: the event stays raised.
Called_KeepsRaised(event, raised, state, handled) ==
    /\ ie' = {event} \ {LSTT_NULL}
    /\ ce' = raised
    /\ code' = HandlerAt(state, handled, event)
    /\ faulted' \in BOOLEAN

\* Mutant: on_rez stays raised when its entry left the queue.
Called_KeepsRez(event, raised, state, handled) ==
    /\ ie' = {event} \ {LSTT_NULL}
    /\ ce' = raised \ ({event} \ {LSTT_REZ})
    /\ code' = HandlerAt(state, handled, event)
    /\ faulted' \in BOOLEAN

\* callEventHandler: the registers, the frame, IP.  A push that runs into the
\* heap faults, and IP is set all the same.
Called(event, raised, state, handled) ==
    /\ ie' = {event} \ {LSTT_NULL}
    /\ ce' = raised \ {event}
    /\ code' = HandlerAt(state, handled, event)
    /\ faulted' \in BOOLEAN

\* runInstructions, with nothing to call.
NotCalled == ie' = {} /\ UNCHANGED <<code, ce, faulted>>

----------------------------------------------------------------------------
\* runInstructions.

Picked ==
    /\ pc = "pick"
    /\ pc' = "check"
    /\ UNCHANGED <<asleep, mReset, quantum, budget>>

\* A script at fault does not run.
ReportFault ==
    /\ Picked
    /\ faulted
    /\ UNCHANGED <<code, ie, ce, er, cs, ns, faulted, queue>>

resumeEventHandler ==
    /\ pc = "pick"
    /\ ~isFinished
    /\ pc' = "run"
    /\ UNCHANGED <<registers, mReset, queue, quantum, budget>>

\* A state change is pending and state_exit not called yet.
CallStateExit ==
    /\ Picked
    /\ isFinished /\ ~faulted /\ isStateChangePending
    /\ LSTT_STATE_EXIT \in ce \cap er
    /\ queue' = <<>>
    /\ Called(LSTT_STATE_EXIT, ce, cs, er)
    /\ UNCHANGED <<er, cs, ns>>

\* Mutants: the old state's queue, or its handlers, outlive it.
Discarded_Nothing == queue
NextHandled_Stale == er

\* deleteAllEvents; nextState's result.
Discarded == <<>>
NextHandled == Handled[ns]

\* The new state: only state_entry is raised, and called if it is handled.
\* IE was set to state_exit if that was raised, though nothing handled it.
SwitchState ==
    /\ Picked
    /\ isFinished /\ ~faulted /\ isStateChangePending
    /\ LSTT_STATE_EXIT \notin ce \cap er
    /\ queue' = Discarded
    /\ cs' = ns /\ ns' = ns
    /\ er' = NextHandled
    /\ IF LSTT_STATE_ENTRY \in er'
       THEN Called(LSTT_STATE_ENTRY, {LSTT_STATE_ENTRY}, ns, er')
       ELSE /\ ie' = ce \cap {LSTT_STATE_EXIT}
            /\ ce' = {LSTT_STATE_ENTRY}
            /\ UNCHANGED <<code, faulted>>

Waiting == isFinished /\ ~faulted /\ ~isStateChangePending
EntryDue == LSTT_STATE_ENTRY \in ce /\ ce \cap er # {}
RezDue == LSTT_REZ \in ce /\ ce \cap er # {}

CallStateEntry ==
    /\ Picked
    /\ Waiting /\ EntryDue
    /\ Called(LSTT_STATE_ENTRY, ce, cs, er)
    /\ UNCHANGED <<er, cs, ns, queue>>

\* Mutant: the event stays in the queue.
Removed_Stays(i) == queue

Removed(i) == RemoveAt(queue, i)

\* callQueuedEventHandler: the first on_rez of the queue, wherever it is.
CallRez ==
    /\ Picked
    /\ Waiting /\ ~EntryDue /\ RezDue
    /\ IF Contains(queue, LSTT_REZ)
       THEN \E i \in 1 .. Len(queue) :
              /\ queue[i] = LSTT_REZ
              /\ \A j \in 1 .. i - 1 : queue[j] # LSTT_REZ
              /\ Called(LSTT_REZ, ce, cs, er)
              /\ queue' = Removed(i)
       ELSE NotCalled /\ UNCHANGED queue
    /\ UNCHANGED <<er, cs, ns>>

\* callNextQueuedEventHandler: an event without a handler is dropped.
CallNextQueued ==
    /\ Picked
    /\ Waiting /\ ~EntryDue /\ ~RezDue
    /\ queue # <<>>
    /\ queue' = Removed(1)
    /\ IF Head(queue) \in er THEN Called(Head(queue), ce, cs, er) ELSE NotCalled
    /\ UNCHANGED <<er, cs, ns>>

\* "if no data waiting, do it the old way"
CallRaised ==
    /\ Picked
    /\ Waiting /\ ~EntryDue /\ ~RezDue
    /\ queue = <<>> /\ ce \cap er # {}
    /\ Called(FirstEvent(ce \cap er), ce, cs, er)
    /\ UNCHANGED <<er, cs, ns, queue>>

NothingToDo ==
    /\ Picked
    /\ Waiting /\ queue = <<>> /\ ce \cap er = {}
    /\ NotCalled
    /\ UNCHANGED <<er, cs, ns, queue>>

----------------------------------------------------------------------------
\* resumeEventHandler: what the handler's code does to the scheduler.

Running(next) ==
    /\ pc = "run"
    /\ pc' = next
    /\ UNCHANGED <<er, cs, mReset, queue, quantum, budget>>

\* An opcode that leaves the loop: the handler goes on another time.
Interrupted ==
    /\ Running("check")
    /\ UNCHANGED <<code, ie, ce, ns, faulted, asleep>>

\* run_calllib: the function's sleep time is added to SLR.
Sleep ==
    /\ ~asleep
    /\ Running("run")
    /\ asleep' = TRUE
    /\ UNCHANGED <<code, ie, ce, ns, faulted>>

\* Mutant: the state change does not raise state_exit.
StateExitRaised_Never(s) == ce

StateExitRaised(s) == IF s # cs THEN ce \cup {LSTT_STATE_EXIT} ELSE ce

\* run_state, a statement of event handlers alone: IP is popped and is 0.
run_state(s) ==
    /\ Running("check")
    /\ code' = 0
    /\ ns' = s
    /\ ce' = StateExitRaised(s)
    /\ UNCHANGED <<ie, faulted, asleep>>

run_return ==
    /\ Running("check")
    /\ code' = 0
    /\ UNCHANGED <<ie, ce, ns, faulted, asleep>>

SetFault ==
    /\ Running("check")
    /\ faulted' = TRUE
    /\ UNCHANGED <<code, ie, ce, ns, asleep>>

----------------------------------------------------------------------------
\* runQuanta, after runInstructions.

isYieldDue == mReset \/ asleep \/ isFinished \/ isStateChangePending

Yield ==
    /\ pc = "check" /\ isYieldDue
    /\ pc' = "host"
    /\ UNCHANGED <<registers, mReset, queue, quantum, budget>>

\* The timer is looked at each time the skip count is reached.
GoOn ==
    /\ pc = "check" /\ ~isYieldDue
    /\ timer_checks < TimerCheckSkip
    /\ timer_checks' = timer_checks + 1
    /\ pc' = "pick"
    /\ UNCHANGED <<registers, mReset, queue, elapsed, budget>>

\* Mutant: the timer is never looked at.
TimeUp_Never == FALSE
TimeUp == elapsed

CheckTimer ==
    /\ pc = "check" /\ ~isYieldDue
    /\ timer_checks >= TimerCheckSkip
    /\ IF TimeUp THEN pc' = "host" /\ UNCHANGED timer_checks
                 ELSE pc' = "pick" /\ timer_checks' = 0
    /\ UNCHANGED <<registers, mReset, queue, elapsed, budget>>

\* Real time passes.
Elapse ==
    /\ pc # "host" /\ ~elapsed
    /\ elapsed' = TRUE
    /\ UNCHANGED <<registers, mReset, queue, pc, timer_checks, budget>>

----------------------------------------------------------------------------
Host ==
    \/ \E e \in Queued : AddEvent(e)
    \/ \E e \in Raised : Raise(e)
    \/ \E b \in BOOLEAN : setReset(b)
    \/ WakeUp
    \/ runQuanta

Pick ==
    \/ ReportFault \/ resumeEventHandler
    \/ CallStateExit \/ SwitchState
    \/ CallStateEntry \/ CallRez \/ CallNextQueued \/ CallRaised
    \/ NothingToDo

Handler ==
    \/ Interrupted \/ Sleep \/ run_return \/ SetFault
    \/ \E s \in States : run_state(s)

Check == Yield \/ GoOn \/ CheckTimer

SchedulerNext == Host \/ Pick \/ Handler \/ Check \/ Elapse
Spec == Init /\ [][SchedulerNext]_vars

\* The interpreter's own steps are taken and time passes.  A handler need not
\* come out of the loop of resumeEventHandler: module HotLoop is about that.
QuantumSpec == Spec /\ WF_vars(Pick) /\ WF_vars(Check) /\ WF_vars(Elapse)

\* Besides, the host goes on calling runQuanta, and the script's handlers
\* come to their return in the end.  The latter is an assumption about the
\* script: one whose handler runs for ever is served nothing.
FairSpec == QuantumSpec /\ WF_vars(runQuanta) /\ SF_vars(run_return)

----------------------------------------------------------------------------
\* Properties.

\* The type invariant.
TypeOK ==
    /\ code \in Events \cup {LSTT_NULL, Beyond}
    /\ ie \subseteq Events /\ ce \subseteq Events /\ er \subseteq Events
    /\ cs \in States /\ ns \in States
    /\ faulted \in BOOLEAN /\ asleep \in BOOLEAN /\ mReset \in BOOLEAN
    /\ queue \in Seq(Events) /\ Len(queue) <= MAX_EVENTS_IN_QUEUE
    /\ pc \in {"host", "pick", "run", "check"}
    /\ timer_checks \in 0 .. TimerCheckSkip /\ elapsed \in BOOLEAN
    /\ budget \in 0 .. HostEvents

\* What is raised or queued, the current state handles, whatever states the
\* script went through since: the warning "Somehow got an event that we're
\* not registered for!" never appears.  state_entry and state_exit alone are
\* raised unasked, and state_exit only while a change of state is pending.
OnlyRegistered ==
    /\ er = Handled[cs]
    /\ \A i \in 1 .. Len(queue) : queue[i] \in er
    /\ ce \subseteq er \cup {LSTT_STATE_ENTRY, LSTT_STATE_EXIT}
    /\ LSTT_STATE_EXIT \in ce => isStateChangePending

\* A raised on_rez has its argument in the queue: runInstructions serves
\* nothing else as long as on_rez is raised, so without the argument the
\* script would be stuck.
RezHasArgument == LSTT_REZ \in ce => Contains(queue, LSTT_REZ)

\* A handler that runs is the handler of the event IE says is being handled.
\* Handlers are found by position in a table that only has the handled
\* events, so a call for any other event runs somebody else's code or reads
\* behind the table's end.
HandlerMatches == code # 0 => ie = {code}

\* While a handler runs, IE says for which event.
HandlerKnown == code # 0 => ie # {}

\* A state that has a state_exit handler is left right after that handler
\* ran, also when the handler itself asked for another state.
ExitBeforeSwitch ==
    [][cs' # cs /\ LSTT_STATE_EXIT \in Handled[cs] => ie = {LSTT_STATE_EXIT}]_vars

\* No event sent to a state is delivered in another, not even one that came
\* while state_exit ran, and no handler is cut short by the switch.
CleanSwitch ==
    [][cs' # cs => /\ queue' = <<>> /\ ce' \subseteq {LSTT_STATE_ENTRY}
                   /\ code = 0 /\ er' = Handled[cs']]_vars

\* Events leave the queue one at a time, in order but for on_rez, and only
\* into their own handlers, or all together when the state changes.
Delivered(i) ==
    /\ queue' = RemoveAt(queue, i)
    /\ i = 1 \/ queue[i] = LSTT_REZ
    /\ code = 0 /\ code' = queue[i] /\ ie' = {queue[i]}
InOrder ==
    [][queue' # queue =>
         \/ \E e \in Queued : queue' = Append(queue, e)
         \/ \E i \in 1 .. Len(queue) : Delivered(i)
         \/ isStateChangePending /\ queue' = <<>>]_vars

\* A round of runInstructions that finds a handler to go on with, a change of
\* state, something queued or something raised does one of these: no event is
\* passed over again and again with the others waiting behind it.
NoIdleRound ==
    [][( /\ pc = "pick" /\ pc' # pc /\ ~faulted
         /\ isStateChangePending \/ queue # <<>> \/ ce \cap er # {} )
       => (code' # 0 \/ cs' # cs)]_vars

\* Once the host has stopped sending, every event that is raised and handled
\* stops being raised: it is delivered, or its state is left.
EventsServed ==
    \A e \in Raised \cup {LSTT_STATE_ENTRY, LSTT_STATE_EXIT} :
      (e \in ce \cap er) ~> (e \notin ce \cap er \/ faulted)

\* A queue that is full does not stay full.
QueueDrains ==
    Len(queue) = MAX_EVENTS_IN_QUEUE
      ~> (Len(queue) < MAX_EVENTS_IN_QUEUE \/ faulted)

\* The host gets control back again and again, though no handler need ever
\* return and no yield be due, because the timer is looked at; or a handler
\* never comes out of the loop of resumeEventHandler, where nothing looks at
\* the timer (LoopIsLeft of module HotLoop is about that).  Nothing else keeps
\* a quantum from its end.
QuantumEnds == []<>(pc = "host") \/ <>[](pc = "run")
=============================================================================
