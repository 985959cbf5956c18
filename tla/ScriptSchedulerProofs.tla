----------------------- MODULE ScriptSchedulerProofs -----------------------
(***************************************************************************)
(* Proofs about the scheduler, for all scripts: any set of states, any     *)
(* handlers, any host that meets SchedulerAssumption.                      *)
(*                                                                         *)
(* SInv is inductive.  To the checked invariants it adds ExitCalled: while *)
(* a state change is pending and state_exit is not raised any more, its    *)
(* handler was the last to be called; ExitWaits: no handler runs while     *)
(* state_exit is raised; and RunsCode: what runs is some handler's code.   *)
(*                                                                         *)
(* CallsRight, inductive under WellServed, is what HandlerMatches needs:   *)
(* nothing but what someone raised is in CE.  CallsLeft bounds the calls   *)
(* of runInstructions in a quantum whose time is up.                       *)
(***************************************************************************)
EXTENDS ScriptScheduler, DataLemmas, TLAPS

ExitCalled ==
    isStateChangePending /\ LSTT_STATE_EXIT \in er \ ce => ie = {LSTT_STATE_EXIT}

ExitWaits == code # 0 => LSTT_STATE_EXIT \notin ce

RunsCode == pc = "run" => code # 0

SInv == TypeOK /\ OnlyRegistered /\ ExitCalled /\ ExitWaits /\ RunsCode

\* Handled events are events, and numbers.
LEMMA HandledTyped ==
    ASSUME NEW s \in States
    PROVE  Handled[s] \subseteq Events /\ Handled[s] \subseteq Nat
BY SchedulerAssumption DEF Events, LSTT_EOF

\* A call leads into some handler's code, or behind the jump table.
LEMMA HandlerTyped ==
    ASSUME NEW s \in States, NEW handled, NEW event
    PROVE  HandlerAt(s, handled, event) \in Events \cup {Beyond}
BY HandledTyped DEF HandlerAt

\* return_first_event gives one of the events, or none.
LEMMA FirstEventTyped ==
    ASSUME NEW S, S \subseteq Events
    PROVE  /\ FirstEvent(S) \in S \cup {LSTT_NULL}
           /\ S \cap 1 .. 32 # {} => FirstEvent(S) \in S
<1> DEFINE low == S \cap 1 .. 32
<1>1. low \subseteq Nat /\ low \subseteq S
  OBVIOUS
<1>2. FirstEvent(S) = IF low = {} THEN LSTT_NULL ELSE Min(low)
  BY DEF FirstEvent
<1>3. low # {} => Min(low) \in low
  <2> HIDE DEF low
  <2> QED
    BY <1>1, LeastOf
<1> QED
  BY <1>1, <1>2, <1>3

\* The event whose position in the jump table a handled event has is that
\* event.
LEMMA HandlerOf ==
    ASSUME NEW s \in States, NEW e \in Handled[s]
    PROVE  HandlerAt(s, Handled[s], e) = e
<1> DEFINE H == Handled[s]
           Below(x) == {y \in H : y < x}
<1>1. H \subseteq 1 .. 34
  BY HandledTyped DEF Events, LSTT_EOF
<1>2. IsFiniteSet(H)
  <2>1. H \in SUBSET Nat /\ \A x \in H : x <= 34
    BY <1>1
  <2>2. \E n \in Nat : \A x \in H : x <= n
    BY <2>1
  <2> QED
    BY <2>1, <2>2, FS_BoundedSetOfNaturals
<1>3. ASSUME NEW x \in H, NEW y \in H, x < y
      PROVE  Cardinality(Below(x)) # Cardinality(Below(y))
  <2>1. Below(x) \subseteq Below(y)
    BY <1>1, <1>3
  <2>2. x \in Below(y) /\ x \notin Below(x)
    BY <1>1, <1>3
  <2>3. IsFiniteSet(Below(y))
    BY <1>2, FS_Subset
  <2> QED
    BY <2>1, <2>2, <2>3, FS_Subset
<1>4. ASSUME NEW x \in H, Position(H, x) = Position(H, e)
      PROVE  x = e
  <2>1. ~(x < e) /\ ~(e < x)
    BY <1>3, <1>4 DEF Position
  <2> QED
    BY <1>1, <2>1
<1> QED
  BY <1>4 DEF HandlerAt

----------------------------------------------------------------------------
\* SInv holds in the initial states.
LEMMA InitSInv == Init => SInv
<1> SUFFICES ASSUME Init PROVE SInv
  OBVIOUS
<1>1. TypeOK
  <2>1. 0 \in States /\ Handled[0] \subseteq Events
    BY SchedulerAssumption, HandledTyped
  <2>2. 0 \in 0 .. TimerCheckSkip /\ HostEvents \in 0 .. HostEvents
    BY SchedulerAssumption
  <2>3. <<>> \in Seq(Events) /\ Len(<<>>) <= MAX_EVENTS_IN_QUEUE
    BY SchedulerAssumption
  <2>4. /\ code \in Events \cup {LSTT_NULL, Beyond} /\ ie \subseteq Events
        /\ ce \subseteq Events /\ er \subseteq Events
    <3>1. LSTT_STATE_ENTRY \in Events
      BY DEF Events, LSTT_EOF, LSTT_STATE_ENTRY
    <3> QED
      BY <2>1, <3>1 DEF Init, LSTT_NULL
  <2>5. /\ cs \in States /\ ns \in States
        /\ faulted \in BOOLEAN /\ asleep \in BOOLEAN /\ mReset \in BOOLEAN
    BY <2>1 DEF Init
  <2>6. queue \in Seq(Events) /\ Len(queue) <= MAX_EVENTS_IN_QUEUE
    BY <2>3 DEF Init
  <2>7. /\ pc \in {"host", "pick", "run", "check"}
        /\ timer_checks \in 0 .. TimerCheckSkip /\ elapsed \in BOOLEAN
        /\ budget \in 0 .. HostEvents
    BY <2>2 DEF Init
  <2> QED
    BY <2>4, <2>5, <2>6, <2>7 DEF TypeOK
<1>2. OnlyRegistered
  BY DEF Init, OnlyRegistered, LSTT_STATE_ENTRY, LSTT_STATE_EXIT
<1> QED
  BY <1>1, <1>2 DEF Init, SInv, ExitCalled, ExitWaits, RunsCode, isStateChangePending

\* What the host does between quanta preserves SInv.
LEMMA HostStep == SInv /\ Host => SInv'
<1> SUFFICES ASSUME SInv, Host PROVE SInv'
  OBVIOUS
<1> USE DEF SInv, TypeOK, OnlyRegistered, ExitCalled, ExitWaits, RunsCode,
            isStateChangePending, registers, quantum
<1>1. ASSUME NEW e \in Queued, AddEvent(e) PROVE SInv'
  <2>1. e \in Events /\ e \in er
    BY <1>1, SchedulerAssumption DEF AddEvent
  <2>2. CASE Len(queue) < MAX_EVENTS_IN_QUEUE
    <3>1. queue' = Append(queue, e)
      BY <1>1, <2>2 DEF AddEvent, WithEvent
    <3>2. PICK q \in Seq(Events) : q = queue
      OBVIOUS
    <3>3. /\ Append(q, e) \in Seq(Events) /\ Len(Append(q, e)) = Len(q) + 1
          /\ \A j \in 1 .. Len(q) : Append(q, e)[j] = q[j]
          /\ Append(q, e)[Len(q) + 1] = e
      BY <2>1, Longer
    <3>4. queue' \in Seq(Events) /\ Len(queue') = Len(queue) + 1
      BY <3>1, <3>2, <3>3
    <3>5. Len(queue') <= MAX_EVENTS_IN_QUEUE
      BY <2>2, <3>4, SchedulerAssumption
    <3>6. \A j \in 1 .. Len(queue') : queue'[j] \in er
      <4>1. ASSUME NEW j \in 1 .. Len(queue') PROVE queue'[j] \in er
        <5>1. j \in 1 .. Len(q) \/ j = Len(q) + 1
          BY <3>2, <3>4
        <5> QED
          BY <2>1, <3>1, <3>2, <3>3, <5>1
      <4> QED
        BY <4>1
    <3>7. /\ UNCHANGED <<code, ie, ce, er, cs, ns, faulted, asleep, mReset, pc,
                         timer_checks, elapsed>>
          /\ budget' \in 0 .. HostEvents
      BY <1>1, SchedulerAssumption DEF AddEvent
    <3> QED
      BY <3>4, <3>5, <3>6, <3>7
  <2>3. CASE ~(Len(queue) < MAX_EVENTS_IN_QUEUE)
    <3>1. UNCHANGED queue
      BY <1>1, <2>3 DEF AddEvent, WithEvent
    <3> QED
      BY <1>1, <3>1, SchedulerAssumption DEF AddEvent
  <2> QED
    BY <2>2, <2>3
<1>2. ASSUME NEW e \in Raised, Raise(e) PROVE SInv'
  <2>1. e \in Events /\ e \in er /\ e # LSTT_STATE_EXIT
    BY <1>2, SchedulerAssumption DEF Raise
  <2>2. budget' \in 0 .. HostEvents
    BY <1>2, SchedulerAssumption DEF Raise
  <2> QED
    BY <1>2, <2>1, <2>2 DEF Raise
<1>3. ASSUME NEW b \in BOOLEAN, setReset(b) PROVE SInv'
  BY <1>3 DEF setReset
<1>4. CASE WakeUp
  BY <1>4 DEF WakeUp
<1>5. CASE runQuanta
  <2>1. 0 \in 0 .. TimerCheckSkip
    BY SchedulerAssumption
  <2> QED
    BY <1>5, <2>1 DEF runQuanta
<1> QED
  BY <1>1, <1>2, <1>3, <1>4, <1>5 DEF Host

\* A call preserves SInv, whatever it calls, if it leaves the state alone and
\* a pending state change calls state_exit alone.
LEMMA CallStep ==
    ASSUME SInv, Picked, NEW event \in Events \cup {LSTT_NULL},
           Called(event, ce, cs, er), UNCHANGED <<er, cs, ns>>,
           isStateChangePending => event = LSTT_STATE_EXIT,
           queue' \in Seq(Events), Len(queue') <= MAX_EVENTS_IN_QUEUE,
           \A i \in 1 .. Len(queue') : queue'[i] \in er
    PROVE  SInv'
<1> USE DEF SInv, LSTT_NULL, LSTT_STATE_ENTRY, LSTT_STATE_EXIT
<1>1. code' \in Events \cup {Beyond}
  <2>1. HandlerAt(cs, er, event) \in Events \cup {Beyond}
    BY HandlerTyped DEF TypeOK
  <2> QED
    BY <2>1 DEF Called
<1>2. ce' = ce \ {event} /\ ie' = {event} \ {LSTT_NULL} /\ faulted' \in BOOLEAN
  BY DEF Called
<1>3. TypeOK'
  BY <1>1, <1>2 DEF TypeOK, Picked, quantum
<1>4. OnlyRegistered'
  BY <1>2 DEF OnlyRegistered, isStateChangePending
<1>5. ExitCalled' /\ ExitWaits' /\ RunsCode'
  BY <1>2 DEF ExitCalled, ExitWaits, RunsCode, Picked, OnlyRegistered, isStateChangePending
<1> QED
  BY <1>3, <1>4, <1>5

\* A round of runInstructions that calls nothing preserves SInv.
LEMMA NoCallStep ==
    ASSUME SInv, Picked, Waiting, NotCalled, UNCHANGED <<er, cs, ns>>,
           queue' \in Seq(Events), Len(queue') <= MAX_EVENTS_IN_QUEUE,
           \A i \in 1 .. Len(queue') : queue'[i] \in er
    PROVE  SInv'
BY DEF SInv, TypeOK, OnlyRegistered, ExitCalled, ExitWaits, RunsCode, Picked,
       NotCalled, Waiting, isStateChangePending, quantum

\* An event less in the queue leaves it typed and registered.
LEMMA RemovedTyped ==
    ASSUME SInv, NEW i \in 1 .. Len(queue), queue' = Removed(i)
    PROVE  /\ queue' \in Seq(Events) /\ Len(queue') <= MAX_EVENTS_IN_QUEUE
           /\ \A j \in 1 .. Len(queue') : queue'[j] \in er
<1>1. PICK q \in Seq(Events) : q = queue
  BY DEF SInv, TypeOK
<1>2. PICK k \in 1 .. Len(q) : k = i
  BY <1>1
<1>3. /\ RemoveAt(q, k) \in Seq(Events) /\ Len(RemoveAt(q, k)) = Len(q) - 1
      /\ \A j \in 1 .. Len(RemoveAt(q, k)) :
           \E l \in 1 .. Len(q) : RemoveAt(q, k)[j] = q[l]
  BY Shorter, ZenonT(30)
<1>4. queue' = RemoveAt(q, k)
  BY <1>1, <1>2 DEF Removed
<1>5. Len(q) \in Nat /\ Len(q) <= MAX_EVENTS_IN_QUEUE
      /\ \A l \in 1 .. Len(q) : q[l] \in er
  BY <1>1 DEF SInv, TypeOK, OnlyRegistered
<1>6. Len(queue') <= MAX_EVENTS_IN_QUEUE
  BY <1>3, <1>4, <1>5, SchedulerAssumption
<1>7. \A j \in 1 .. Len(queue') : queue'[j] \in er
  BY <1>3, <1>4, <1>5
<1> QED
  BY <1>3, <1>4, <1>6, <1>7

\* runInstructions preserves SInv, when it does not resume a handler.
LEMMA PickStep == SInv /\ Pick => SInv'
<1> SUFFICES ASSUME SInv, Pick PROVE SInv'
  OBVIOUS
<1> USE DEF LSTT_NULL, LSTT_STATE_ENTRY, LSTT_STATE_EXIT, LSTT_REZ
<1>a. 1 \in Events /\ 2 \in Events /\ 14 \in Events
  BY DEF Events, LSTT_EOF
<1>b. /\ queue \in Seq(Events) /\ Len(queue) <= MAX_EVENTS_IN_QUEUE
      /\ \A i \in 1 .. Len(queue) : queue[i] \in er
  BY DEF SInv, TypeOK, OnlyRegistered
<1>c. /\ <<>> \in Seq(Events) /\ Len(<<>>) <= MAX_EVENTS_IN_QUEUE
      /\ \A i \in 1 .. Len(<<>>) : <<>>[i] \in er
  BY SchedulerAssumption
<1>1. CASE ReportFault
  BY <1>1 DEF ReportFault, SInv, TypeOK, OnlyRegistered, ExitCalled, ExitWaits,
              RunsCode, Picked, isStateChangePending, quantum
<1>2. CASE resumeEventHandler
  BY <1>2 DEF resumeEventHandler, SInv, TypeOK, OnlyRegistered, ExitCalled,
              ExitWaits, RunsCode, isFinished, isStateChangePending, quantum, registers
<1>3. CASE CallStateExit
  <2>1. /\ Picked /\ Called(LSTT_STATE_EXIT, ce, cs, er)
        /\ UNCHANGED <<er, cs, ns>> /\ queue' = <<>>
    BY <1>3 DEF CallStateExit
  <2> QED
    BY <1>a, <1>c, <2>1, CallStep
<1>4. CASE SwitchState
  <2>1. /\ pc = "pick" /\ pc' = "check" /\ code = 0 /\ queue' = <<>>
        /\ cs' = ns /\ ns' = ns /\ er' = Handled[ns]
        /\ UNCHANGED <<asleep, mReset, timer_checks, elapsed, budget>>
    BY <1>4 DEF SwitchState, Picked, isFinished, Discarded, NextHandled, quantum
  <2>2. ns \in States /\ Handled[ns] \subseteq Events
    BY HandledTyped DEF SInv, TypeOK
  <2>3. /\ ce' \subseteq {LSTT_STATE_ENTRY} /\ ie' \subseteq Events
        /\ code' \in Events \cup {LSTT_NULL, Beyond} /\ faulted' \in BOOLEAN
    <3>1. CASE LSTT_STATE_ENTRY \in er'
      <4>1. Called(LSTT_STATE_ENTRY, {LSTT_STATE_ENTRY}, ns, er')
        BY <1>4, <3>1 DEF SwitchState
      <4>2. HandlerAt(ns, er', LSTT_STATE_ENTRY) \in Events \cup {Beyond}
        BY <2>2, HandlerTyped
      <4> QED
        BY <1>a, <4>1, <4>2 DEF Called
    <3>2. CASE LSTT_STATE_ENTRY \notin er'
      <4>1. ie' = ce \cap {LSTT_STATE_EXIT} /\ ce' = {LSTT_STATE_ENTRY}
            /\ UNCHANGED <<code, faulted>>
        BY <1>4, <3>2 DEF SwitchState
      <4> QED
        BY <1>a, <4>1 DEF SInv, TypeOK
    <3> QED
      BY <3>1, <3>2
  <2>4. TypeOK'
    BY <1>a, <1>c, <2>1, <2>2, <2>3 DEF SInv, TypeOK
  <2>5. OnlyRegistered'
    BY <1>c, <2>1, <2>3 DEF OnlyRegistered, isStateChangePending
  <2>6. ExitCalled' /\ ExitWaits' /\ RunsCode'
    BY <2>1, <2>3 DEF ExitCalled, ExitWaits, RunsCode, isStateChangePending
  <2> QED
    BY <2>4, <2>5, <2>6 DEF SInv
<1>5. CASE CallStateEntry
  <2>1. /\ Picked /\ Called(LSTT_STATE_ENTRY, ce, cs, er)
        /\ UNCHANGED <<er, cs, ns, queue>> /\ ~isStateChangePending
    BY <1>5 DEF CallStateEntry, Waiting
  <2> QED
    BY <1>a, <1>b, <2>1, CallStep
<1>6. CASE CallRez
  <2>1. Picked /\ UNCHANGED <<er, cs, ns>> /\ Waiting /\ ~isStateChangePending
    BY <1>6 DEF CallRez, Waiting
  <2>2. CASE Contains(queue, LSTT_REZ)
    <3>1. PICK i \in 1 .. Len(queue) :
            Called(LSTT_REZ, ce, cs, er) /\ queue' = Removed(i)
      BY <1>6, <2>2 DEF CallRez
    <3> QED
      BY <1>a, <2>1, <3>1, RemovedTyped, CallStep
  <2>3. CASE ~Contains(queue, LSTT_REZ)
    <3>1. NotCalled /\ UNCHANGED queue
      BY <1>6, <2>3 DEF CallRez
    <3> QED
      BY <1>b, <2>1, <3>1, NoCallStep
  <2> QED
    BY <2>2, <2>3
<1>7. CASE CallNextQueued
  <2>1. /\ Picked /\ UNCHANGED <<er, cs, ns>> /\ Waiting /\ ~isStateChangePending
        /\ queue # <<>> /\ queue' = Removed(1)
    BY <1>7 DEF CallNextQueued, Waiting
  <2>2. 1 \in 1 .. Len(queue)
    BY <1>b, <2>1
  <2>3. /\ queue' \in Seq(Events) /\ Len(queue') <= MAX_EVENTS_IN_QUEUE
        /\ \A j \in 1 .. Len(queue') : queue'[j] \in er
    BY <2>1, <2>2, RemovedTyped
  <2>4. PICK event \in Events : event = Head(queue)
    BY <1>b, <2>1
  <2>5. Called(event, ce, cs, er) \/ NotCalled
    BY <1>7, <2>4 DEF CallNextQueued
  <2> QED
    BY <2>1, <2>3, <2>5, CallStep, NoCallStep
<1>8. CASE CallRaised
  <2>1. /\ Picked /\ UNCHANGED <<er, cs, ns, queue>> /\ ~isStateChangePending
        /\ Called(FirstEvent(ce \cap er), ce, cs, er)
    BY <1>8 DEF CallRaised, Waiting
  <2>2. PICK event \in Events \cup {LSTT_NULL} : event = FirstEvent(ce \cap er)
    BY FirstEventTyped DEF SInv, TypeOK
  <2> QED
    BY <1>b, <2>1, <2>2, CallStep
<1>9. CASE NothingToDo
  BY <1>9, <1>b, NoCallStep DEF NothingToDo
<1> QED
  BY <1>1, <1>2, <1>3, <1>4, <1>5, <1>6, <1>7, <1>8, <1>9 DEF Pick

\* A handler's own steps preserve SInv: a state change raises state_exit, and
\* no handler runs while state_exit is raised.
LEMMA HandlerStep == SInv /\ Handler => SInv'
<1> SUFFICES ASSUME SInv, Handler PROVE SInv'
  OBVIOUS
<1> USE DEF SInv, TypeOK, OnlyRegistered, ExitCalled, ExitWaits, RunsCode,
            isStateChangePending, Running, quantum,
            LSTT_NULL, LSTT_STATE_ENTRY, LSTT_STATE_EXIT
<1>1. CASE Interrupted
  BY <1>1 DEF Interrupted
<1>2. CASE Sleep
  BY <1>2 DEF Sleep
<1>3. CASE run_return
  BY <1>3 DEF run_return
<1>4. CASE SetFault
  BY <1>4 DEF SetFault
<1>5. ASSUME NEW s \in States, run_state(s) PROVE SInv'
  <2>1. LSTT_STATE_EXIT \notin ce
    BY <1>5 DEF run_state
  <2>2. LSTT_STATE_EXIT \in Events
    BY DEF Events, LSTT_EOF
  <2>3. CASE s # cs
    <3>1. ce' = ce \cup {LSTT_STATE_EXIT}
      BY <1>5, <2>3 DEF run_state, StateExitRaised
    <3> QED
      BY <1>5, <2>2, <2>3, <3>1 DEF run_state
  <2>4. CASE s = cs
    <3>1. ce' = ce
      BY <1>5, <2>4 DEF run_state, StateExitRaised
    <3> QED
      BY <1>5, <2>1, <2>4, <3>1 DEF run_state
  <2> QED
    BY <2>3, <2>4
<1> QED
  BY <1>1, <1>2, <1>3, <1>4, <1>5 DEF Handler

\* The rest of runQuanta preserves SInv.
LEMMA CheckStep == SInv /\ (Check \/ Elapse) => SInv'
<1> SUFFICES ASSUME SInv, Check \/ Elapse PROVE SInv'
  OBVIOUS
<1> USE DEF SInv, TypeOK, OnlyRegistered, ExitCalled, ExitWaits, RunsCode,
            isStateChangePending, registers
<1>1. CASE Yield
  BY <1>1 DEF Yield, quantum
<1>2. CASE GoOn
  <2>1. timer_checks' \in 0 .. TimerCheckSkip
    BY <1>2, SchedulerAssumption DEF GoOn
  <2> QED
    BY <1>2, <2>1 DEF GoOn
<1>3. CASE CheckTimer
  <2>1. timer_checks' \in 0 .. TimerCheckSkip
    BY <1>3, SchedulerAssumption DEF CheckTimer
  <2> QED
    BY <1>3, <2>1 DEF CheckTimer
<1>4. CASE Elapse
  BY <1>4 DEF Elapse
<1> QED
  BY <1>1, <1>2, <1>3, <1>4 DEF Check

\* A step that changes nothing preserves SInv.
LEMMA StutterStep == SInv /\ UNCHANGED vars => SInv'
BY DEF SInv, TypeOK, OnlyRegistered, ExitCalled, ExitWaits, RunsCode,
       isStateChangePending, vars, registers, quantum

\* Every step preserves SInv.
LEMMA SInvStep == SInv /\ [SchedulerNext]_vars => SInv'
BY HostStep, PickStep, HandlerStep, CheckStep, StutterStep DEF SchedulerNext

\* The invariant holds in every state of every script.
LEMMA AlwaysSInv == Spec => []SInv
BY InitSInv, SInvStep, PTL DEF Spec

----------------------------------------------------------------------------
\* Every register keeps its type, the queue its limit (MAX_EVENTS_IN_QUEUE)
\* and the timer's counter its own (sTimerCheckSkip).
THEOREM TypeCorrect == Spec => []TypeOK
<1>1. SInv => TypeOK
  BY DEF SInv
<1> QED
  BY AlwaysSInv, <1>1, PTL

\* Whatever states a script goes through and whatever its handlers do, no
\* event is ever raised or queued that its state does not handle, but for
\* state_entry and a state_exit that is due (runInstructions, nextState).
THEOREM Registered == Spec => []OnlyRegistered
<1>1. SInv => OnlyRegistered
  BY DEF SInv
<1> QED
  BY AlwaysSInv, <1>1, PTL

\* State changes are made by SwitchState alone.
LEMMA OnlySwitch ==
    ASSUME SInv, [SchedulerNext]_vars, cs' # cs
    PROVE  SwitchState
BY DEF SchedulerNext, Host, Pick, Handler, Check, AddEvent, Raise, setReset, WakeUp,
       runQuanta, ReportFault, resumeEventHandler, CallStateExit, CallStateEntry,
       CallRez, CallNextQueued, CallRaised, NothingToDo, Running, Interrupted, Sleep,
       run_state, run_return, SetFault, Yield, GoOn, CheckTimer, Elapse, vars, registers

\* No state that has a state_exit handler is left without it: the handler is
\* the last that was called (runInstructions, the branch of state changes).
THEOREM ExitFirst == Spec => ExitBeforeSwitch
<1>1. SInv /\ [SchedulerNext]_vars
        => [cs' # cs /\ LSTT_STATE_EXIT \in Handled[cs] => ie = {LSTT_STATE_EXIT}]_vars
  <2> SUFFICES ASSUME SInv, [SchedulerNext]_vars, cs' # cs, LSTT_STATE_EXIT \in Handled[cs]
               PROVE  ie = {LSTT_STATE_EXIT}
    OBVIOUS
  <2>1. isStateChangePending /\ LSTT_STATE_EXIT \notin ce \cap er
    BY OnlySwitch DEF SwitchState
  <2>2. er = Handled[cs]
    BY DEF SInv, OnlyRegistered
  <2> QED
    BY <2>1, <2>2 DEF SInv, ExitCalled
<1> QED
  BY AlwaysSInv, <1>1, PTL DEF Spec, ExitBeforeSwitch

\* A new state starts with nothing of the old one's: no event queued or
\* raised, no handler running, its own handlers registered.
THEOREM SwitchIsClean == Spec => CleanSwitch
<1>1. SInv /\ [SchedulerNext]_vars
        => [cs' # cs => /\ queue' = <<>> /\ ce' \subseteq {LSTT_STATE_ENTRY}
                        /\ code = 0 /\ er' = Handled[cs']]_vars
  <2> SUFFICES ASSUME SInv, [SchedulerNext]_vars, cs' # cs
               PROVE  /\ queue' = <<>> /\ ce' \subseteq {LSTT_STATE_ENTRY}
                      /\ code = 0 /\ er' = Handled[cs']
    OBVIOUS
  <2>1. SwitchState
    BY OnlySwitch
  <2> QED
    BY <2>1 DEF SwitchState, isFinished, Discarded, NextHandled, Called
<1> QED
  BY AlwaysSInv, <1>1, PTL DEF Spec, CleanSwitch

\* An event of the queue that is called for is delivered.
LEMMA CallDelivers ==
    ASSUME SInv, Waiting, NEW i \in 1 .. Len(queue), queue' = Removed(i),
           i = 1 \/ queue[i] = LSTT_REZ, Called(queue[i], ce, cs, er)
    PROVE  Delivered(i)
<1>1. queue[i] \in er /\ er = Handled[cs] /\ cs \in States /\ queue[i] \in Events
  BY DEF SInv, TypeOK, OnlyRegistered
<1>2. HandlerAt(cs, Handled[cs], queue[i]) = queue[i]
  BY <1>1, HandlerOf
<1>3. queue[i] # LSTT_NULL /\ code = 0
  BY <1>1 DEF Events, LSTT_NULL, Waiting, isFinished
<1> QED
  BY <1>1, <1>2, <1>3 DEF Delivered, Called, Removed

\* Events leave the queue one by one and in order, but for on_rez, each into
\* its own handler, or all together when the state changes (callNextQueued-
\* EventHandler, callQueuedEventHandler, deleteAllEvents).
THEOREM ServedInOrder == Spec => InOrder
<1> DEFINE Ordered == queue' # queue =>
             \/ \E e \in Queued : queue' = Append(queue, e)
             \/ \E i \in 1 .. Len(queue) : Delivered(i)
             \/ isStateChangePending /\ queue' = <<>>
<1>1. SInv /\ [SchedulerNext]_vars => [Ordered]_vars
  <2> SUFFICES ASSUME SInv, [SchedulerNext]_vars, queue' # queue PROVE Ordered
    OBVIOUS
  <2>1. \/ \E e \in Queued : AddEvent(e)
        \/ CallStateExit \/ SwitchState \/ CallRez \/ CallNextQueued
    BY DEF SchedulerNext, Host, Pick, Handler, Check, Raise, setReset, WakeUp, runQuanta,
           ReportFault, resumeEventHandler, CallStateEntry, CallRaised, NothingToDo,
           Running, Interrupted, Sleep, run_state, run_return, SetFault, Yield, GoOn,
           CheckTimer, Elapse, vars, registers
  <2>2. CASE \E e \in Queued : AddEvent(e)
    BY <2>2 DEF AddEvent, WithEvent
  <2>3. CASE CallStateExit \/ SwitchState
    BY <2>3 DEF CallStateExit, SwitchState, Discarded
  <2>4. CASE CallRez
    <3>1. PICK i \in 1 .. Len(queue) :
            queue[i] = LSTT_REZ /\ Called(LSTT_REZ, ce, cs, er) /\ queue' = Removed(i)
      BY <2>4 DEF CallRez
    <3>2. Delivered(i)
      BY <2>4, <3>1, CallDelivers DEF CallRez
    <3> QED
      BY <3>2
  <2>5. CASE CallNextQueued
    <3>1. /\ queue # <<>> /\ queue \in Seq(Events) /\ Waiting /\ queue' = Removed(1)
      BY <2>5 DEF CallNextQueued, SInv, TypeOK
    <3>2. 1 \in 1 .. Len(queue) /\ Head(queue) = queue[1]
      BY <3>1
    <3>3. queue[1] \in er
      BY <3>2 DEF SInv, OnlyRegistered
    <3>4. Called(queue[1], ce, cs, er)
      BY <2>5, <3>2, <3>3 DEF CallNextQueued
    <3>5. Delivered(1)
      BY <3>1, <3>2, <3>4, CallDelivers
    <3> QED
      BY <3>2, <3>5
  <2> QED
    BY <2>1, <2>2, <2>3, <2>4, <2>5
<1> QED
  BY AlwaysSInv, <1>1, PTL DEF Spec, InOrder

----------------------------------------------------------------------------
\* The handler that runs is that of the event in IE, under the two conditions
\* the code does not ensure: a state without a state_entry handler is raised no
\* event it handles, and the host raises no event behind bit 31.

WellServed ==
    /\ \A s \in States :
         LSTT_STATE_ENTRY \in Handled[s] \/ Handled[s] \cap Raised = {}
    /\ Raised \subseteq 1 .. 32

\* The events that are ever raised.
Bits == Raised \cup {LSTT_STATE_ENTRY, LSTT_STATE_EXIT}

CallsRight == ce \subseteq Bits /\ HandlerMatches

\* A call for a handled event.
LEMMA CallMatches ==
    ASSUME NEW s \in States, NEW event \in Handled[s], NEW raised \in SUBSET Bits,
           Called(event, raised, s, Handled[s])
    PROVE  CallsRight'
<1>1. event # LSTT_NULL
  BY HandledTyped DEF Events, LSTT_NULL
<1>2. code' = event
  BY HandlerOf DEF Called
<1> QED
  BY <1>1, <1>2 DEF Called, CallsRight, HandlerMatches

\* Every step keeps the handler that of the event in IE: those that enter a
\* handler do so for an event the state handles.
LEMMA CallsRightStep ==
    ASSUME WellServed, SInv, CallsRight, [SchedulerNext]_vars
    PROVE  CallsRight'
<1> USE DEF LSTT_STATE_ENTRY, LSTT_STATE_EXIT
<1>1. ASSUME NEW e \in Raised, Raise(e) PROVE CallsRight'
  BY <1>1 DEF Raise, CallsRight, HandlerMatches, Bits
<1>2. ASSUME NEW s \in States, run_state(s) PROVE CallsRight'
  BY <1>2 DEF run_state, StateExitRaised, Bits, CallsRight, HandlerMatches
<1>3. CASE UNCHANGED <<code, ie, ce>>
  BY <1>3 DEF CallsRight, HandlerMatches
<1>4. CASE run_return
  BY <1>4 DEF run_return, CallsRight, HandlerMatches
<1>5. CASE Pick /\ ~UNCHANGED <<code, ie, ce>>
  <2>1. /\ cs \in States /\ ns \in States /\ er = Handled[cs]
        /\ ce \subseteq er \cup {LSTT_STATE_ENTRY, LSTT_STATE_EXIT}
        /\ ce \in SUBSET Bits
        /\ \A i \in 1 .. Len(queue) : queue[i] \in er
        /\ queue \in Seq(Events)
    BY DEF CallsRight, SInv, TypeOK, OnlyRegistered
  <2>2. Waiting /\ EntryDue => LSTT_STATE_ENTRY \in er
    <3>1. SUFFICES ASSUME Waiting, EntryDue PROVE LSTT_STATE_ENTRY \in er
      OBVIOUS
    <3>2. LSTT_STATE_EXIT \notin ce
      BY <3>1 DEF Waiting, SInv, OnlyRegistered
    <3>3. PICK e \in ce \cap er : TRUE
      BY <3>1 DEF EntryDue
    <3>4. e = LSTT_STATE_ENTRY \/ e \in Raised \cap Handled[cs]
      BY <2>1, <3>2, <3>3 DEF Bits
    <3> QED
      BY <2>1, <3>3, <3>4 DEF WellServed
  <2>3. ASSUME NEW event \in er, Called(event, ce, cs, er)
        PROVE  CallsRight'
    <3>1. PICK s \in States, r \in SUBSET Bits : s = cs /\ r = ce
      BY <2>1
    <3>2. event \in Handled[s] /\ Called(event, r, s, Handled[s])
      BY <2>1, <2>3, <3>1
    <3> QED
      BY <3>2, CallMatches
  <2>4. ASSUME NotCalled, isFinished, ~faulted
        PROVE  CallsRight'
    BY <2>1, <2>4 DEF NotCalled, isFinished, CallsRight, HandlerMatches
  <2>5. CASE CallStateExit
    BY <2>3, <2>5 DEF CallStateExit
  <2>6. CASE SwitchState
    <3>1. er' = Handled[ns] /\ code = 0
      BY <2>6 DEF SwitchState, NextHandled, isFinished
    <3>2. CASE LSTT_STATE_ENTRY \in er'
      <4>1. Called(LSTT_STATE_ENTRY, {LSTT_STATE_ENTRY}, ns, er')
        BY <2>6, <3>2 DEF SwitchState
      <4>2. PICK s \in States, r \in SUBSET Bits : s = ns /\ r = {LSTT_STATE_ENTRY}
        BY <2>1 DEF Bits
      <4>3. LSTT_STATE_ENTRY \in Handled[s] /\ Called(LSTT_STATE_ENTRY, r, s, Handled[s])
        BY <3>1, <3>2, <4>1, <4>2
      <4> QED
        BY <4>3, CallMatches
    <3>3. CASE LSTT_STATE_ENTRY \notin er'
      BY <2>6, <3>1, <3>3 DEF SwitchState, CallsRight, HandlerMatches, Bits
    <3> QED
      BY <3>2, <3>3
  <2>7. CASE CallStateEntry
    BY <2>2, <2>3, <2>7 DEF CallStateEntry, EntryDue
  <2>8. CASE CallRez
    <3>1. LSTT_REZ \in er
      BY <2>1, <2>8 DEF CallRez, RezDue, LSTT_REZ
    <3>2. isFinished /\ ~faulted /\ (Called(LSTT_REZ, ce, cs, er) \/ NotCalled)
      BY <2>8 DEF CallRez, Waiting
    <3> QED
      BY <2>3, <2>4, <3>1, <3>2
  <2>9. CASE CallNextQueued
    <3>1. isFinished /\ ~faulted
      BY <2>9 DEF CallNextQueued, Waiting
    <3> QED
      BY <2>3, <2>4, <2>9, <3>1 DEF CallNextQueued
  <2>10. CASE CallRaised
    <3>1. FirstEvent(ce \cap er) \in ce \cap er
      <4>1. ce \cap er \subseteq Events
        BY DEF SInv, TypeOK
      <4>2. Bits \subseteq 1 .. 32
        BY DEF WellServed, Bits
      <4>3. (ce \cap er) \cap 1 .. 32 # {}
        BY <2>1, <2>10, <4>2 DEF CallRaised
      <4> QED
        BY <4>1, <4>3, FirstEventTyped
    <3> QED
      BY <2>3, <2>10, <3>1 DEF CallRaised
  <2>11. CASE NothingToDo
    BY <2>4, <2>11 DEF NothingToDo, Waiting
  <2> QED
    BY <1>5, <2>5, <2>6, <2>7, <2>8, <2>9, <2>10, <2>11
    DEF Pick, ReportFault, resumeEventHandler, registers
<1> QED
  BY <1>1, <1>2, <1>3, <1>4, <1>5
  DEF SchedulerNext, Host, Handler, Check, AddEvent, setReset, WakeUp, runQuanta,
      Running, Interrupted, Sleep, SetFault, Yield, GoOn, CheckTimer, Elapse, vars,
      registers

\* callEventHandler never enters another event's handler, nor the bytes
\* behind the jump table, if a state that is raised events it handles has a
\* state_entry handler, and the host raises no event behind bit 31: the two
\* conditions the counterexamples of MCScriptSchedulerEntry and
\* MCScriptSchedulerHttp break.
THEOREM RightHandler == WellServed => (Spec => []HandlerMatches)
<1> SUFFICES ASSUME WellServed PROVE Spec => []HandlerMatches
  OBVIOUS
<1>1. Init => CallsRight
  BY DEF Init, CallsRight, HandlerMatches, Bits
<1>2. SInv /\ CallsRight /\ [SchedulerNext]_vars => CallsRight'
  BY CallsRightStep
<1>3. CallsRight => HandlerMatches
  BY DEF CallsRight
<1> QED
  BY AlwaysSInv, <1>1, <1>2, <1>3, PTL DEF Spec

----------------------------------------------------------------------------
\* An on_rez keeps its argument, if no state has both a state_exit and an
\* on_rez handler: the condition the counterexample of MCScriptSchedulerCancel
\* breaks.

ExitOrRez ==
    \A s \in States :
      ~(LSTT_STATE_EXIT \in Handled[s] /\ LSTT_REZ \in Handled[s])

\* A step that takes no event off the queue and does not raise on_rez.
LEMMA ArgumentStays ==
    ASSUME RezHasArgument, LSTT_REZ \in ce' => LSTT_REZ \in ce,
           UNCHANGED queue
    PROVE  RezHasArgument'
BY DEF RezHasArgument

LEMMA RezStep ==
    ASSUME ExitOrRez, SInv, RezHasArgument, [SchedulerNext]_vars
    PROVE  RezHasArgument'
<1> USE DEF LSTT_REZ, LSTT_STATE_ENTRY, LSTT_STATE_EXIT
<1>1. ASSUME NEW e \in Queued, AddEvent(e) PROVE RezHasArgument'
  <2>1. /\ ce' = ce /\ queue' = WithEvent(e)
    BY <1>1 DEF AddEvent, registers
  <2>2. PICK q \in Seq(Events) : q = queue
    BY DEF SInv, TypeOK
  <2>3. e \in Events
    BY SchedulerAssumption
  <2>4. /\ Len(Append(q, e)) = Len(q) + 1 /\ Len(q) \in Nat
        /\ \A j \in 1 .. Len(q) : Append(q, e)[j] = q[j]
    BY <2>3, Longer
  <2>5. Contains(q, LSTT_REZ) => Contains(Append(q, e), LSTT_REZ)
    BY <2>4 DEF Contains
  <2> QED
    BY <2>1, <2>2, <2>5 DEF WithEvent, RezHasArgument
<1>2. ASSUME NEW e \in Raised, Raise(e) PROVE RezHasArgument'
  BY <1>2 DEF Raise, RezHasArgument
<1>3. ASSUME NEW s \in States, run_state(s) PROVE RezHasArgument'
  BY <1>3, ArgumentStays DEF run_state, StateExitRaised, Running
<1>4. CASE UNCHANGED <<ce, queue>>
  BY <1>4, ArgumentStays
<1>5. CASE Pick
  <2>1. er = Handled[cs] /\ cs \in States /\ ce \subseteq er \cup {1, 2}
    BY DEF SInv, TypeOK, OnlyRegistered
  <2>2. CASE CallStateExit
    <3>1. LSTT_REZ \notin er
      BY <2>1, <2>2 DEF CallStateExit, ExitOrRez
    <3>2. ce' \subseteq ce
      BY <2>2 DEF CallStateExit, Called
    <3> QED
      BY <2>1, <3>1, <3>2 DEF RezHasArgument
  <2>3. CASE SwitchState
    BY <2>3 DEF SwitchState, Called, RezHasArgument
  <2>4. CASE CallRez
    BY <2>4, ArgumentStays DEF CallRez, Called, NotCalled, RezHasArgument
  <2>5. CASE CallNextQueued
    <3>1. LSTT_REZ \notin ce
      BY <2>1, <2>5 DEF CallNextQueued, RezDue
    <3>2. ce' \subseteq ce
      BY <2>5 DEF CallNextQueued, Called, NotCalled
    <3> QED
      BY <3>1, <3>2 DEF RezHasArgument
  <2>6. CASE CallStateEntry \/ CallRaised \/ NothingToDo
    BY <2>6, ArgumentStays DEF CallStateEntry, CallRaised, NothingToDo, Called, NotCalled
  <2>7. CASE ReportFault \/ resumeEventHandler
    BY <2>7, <1>4 DEF ReportFault, resumeEventHandler, registers
  <2> QED
    BY <1>5, <2>2, <2>3, <2>4, <2>5, <2>6, <2>7 DEF Pick
<1> QED
  BY <1>1, <1>2, <1>3, <1>4, <1>5
  DEF SchedulerNext, Host, Handler, Check, setReset, WakeUp, runQuanta,
      Running, Interrupted, Sleep, run_return, SetFault, Yield, GoOn, CheckTimer,
      Elapse, vars, registers

\* A raised on_rez is never left without its entry in the queue, which
\* runInstructions would look for again and again.
THEOREM RezServed == ExitOrRez => (Spec => []RezHasArgument)
<1> SUFFICES ASSUME ExitOrRez PROVE Spec => []RezHasArgument
  OBVIOUS
<1>1. Init => RezHasArgument
  BY DEF Init, RezHasArgument, LSTT_STATE_ENTRY, LSTT_REZ
<1>2. SInv /\ RezHasArgument /\ [SchedulerNext]_vars => RezHasArgument'
  BY RezStep
<1> QED
  BY AlwaysSInv, <1>1, <1>2, PTL DEF Spec

----------------------------------------------------------------------------
\* A call runs some code.
LEMMA CallsSomething ==
    ASSUME NEW s \in States, NEW event, NEW raised, NEW handled,
           Called(event, raised, s, handled)
    PROVE  code' # 0
<1>1. HandlerAt(s, handled, event) \in Events \cup {Beyond}
  BY HandlerTyped
<1>2. 0 \notin Events /\ Beyond # 0
  BY DEF Events, Beyond
<1> QED
  BY <1>1, <1>2 DEF Called

\* Each round that finds something due runs a handler or changes the state:
\* what EventsServed and QueueDrains rest on, besides the host's and the
\* handlers' fairness.  The condition is that of RezServed.
THEOREM NoRoundIsIdle == ExitOrRez => (Spec => NoIdleRound)
<1> SUFFICES ASSUME ExitOrRez PROVE Spec => NoIdleRound
  OBVIOUS
<1> DEFINE Idle == /\ pc = "pick" /\ pc' # pc /\ ~faulted
                   /\ isStateChangePending \/ queue # <<>> \/ ce \cap er # {}
<1>1. SInv /\ RezHasArgument /\ [SchedulerNext]_vars
        => [Idle => (code' # 0 \/ cs' # cs)]_vars
  <2> SUFFICES ASSUME SInv, RezHasArgument, [SchedulerNext]_vars, Idle
               PROVE  code' # 0 \/ cs' # cs
    OBVIOUS
  <2>1. Pick
    BY DEF SchedulerNext, Host, Handler, Check, AddEvent, Raise, setReset, WakeUp,
           runQuanta, Running, Interrupted, Sleep, run_state, run_return, SetFault,
           Yield, GoOn, CheckTimer, Elapse, vars
  <2>2. cs \in States /\ ns \in States /\ queue \in Seq(Events)
        /\ \A i \in 1 .. Len(queue) : queue[i] \in er
    BY DEF SInv, TypeOK, OnlyRegistered
  <2>3. CASE resumeEventHandler
    BY <2>3 DEF resumeEventHandler, isFinished, registers
  <2>4. CASE CallStateExit
    BY <2>2, <2>4, CallsSomething DEF CallStateExit
  <2>5. CASE SwitchState
    BY <2>5 DEF SwitchState, isStateChangePending
  <2>6. CASE CallStateEntry
    BY <2>2, <2>6, CallsSomething DEF CallStateEntry
  <2>7. CASE CallRez
    <3>1. Contains(queue, LSTT_REZ)
      BY <2>7 DEF CallRez, RezDue, RezHasArgument
    <3>2. Called(LSTT_REZ, ce, cs, er)
      BY <2>7, <3>1 DEF CallRez
    <3> QED
      BY <2>2, <3>2, CallsSomething
  <2>8. CASE CallNextQueued
    <3>1. Head(queue) \in er
      <4>1. queue # <<>>
        BY <2>8 DEF CallNextQueued
      <4>2. Head(queue) = queue[1] /\ 1 \in 1 .. Len(queue)
        BY <2>2, <4>1
      <4> QED
        BY <2>2, <4>2
    <3>2. Called(Head(queue), ce, cs, er)
      BY <2>8, <3>1 DEF CallNextQueued
    <3> QED
      BY <2>2, <3>2, CallsSomething
  <2>9. CASE CallRaised
    BY <2>2, <2>9, CallsSomething DEF CallRaised
  <2>10. CASE NothingToDo \/ ReportFault
    BY <2>10 DEF NothingToDo, ReportFault, Waiting
  <2> QED
    BY <2>1, <2>3, <2>4, <2>5, <2>6, <2>7, <2>8, <2>9, <2>10 DEF Pick
<1> QED
  BY AlwaysSInv, RezServed, <1>1, PTL DEF Spec, NoIdleRound

----------------------------------------------------------------------------
\* A quantum ends: the part of QuantumEnds that is not about fairness.

\* The calls of runInstructions that a quantum still makes once its time is
\* up: the one it is in, and those up to the next look at the timer.
CallsLeft ==
    IF pc = "host" THEN 0
    ELSE (TimerCheckSkip - timer_checks) + (IF pc = "check" THEN 0 ELSE 1)

LEMMA CallsLeftBounded == TypeOK => CallsLeft \in 0 .. TimerCheckSkip + 1
<1> SUFFICES ASSUME TypeOK PROVE CallsLeft \in 0 .. TimerCheckSkip + 1
  OBVIOUS
<1>1. timer_checks \in 0 .. TimerCheckSkip /\ TimerCheckSkip \in Nat
  BY SchedulerAssumption DEF TypeOK
<1> QED
  BY <1>1 DEF CallsLeft

\* When the time is up the timer is not wound up again.
LEMMA NearerHost ==
    ASSUME TypeOK, SchedulerNext, pc # "host", elapsed
    PROVE  CallsLeft' <= CallsLeft /\ (pc' = "check" => CallsLeft' < CallsLeft)
<1>1. /\ timer_checks \in 0 .. TimerCheckSkip /\ TimerCheckSkip \in Nat
      /\ pc \in {"pick", "run", "check"}
  BY SchedulerAssumption DEF TypeOK
<1>2. CASE Pick
  <2>1. pc = "pick" /\ pc' \in {"run", "check"} /\ timer_checks' = timer_checks
    BY <1>2 DEF Pick, ReportFault, resumeEventHandler, CallStateExit, SwitchState,
                CallStateEntry, CallRez, CallNextQueued, CallRaised, NothingToDo, Picked,
                quantum
  <2> QED
    BY <1>1, <2>1 DEF CallsLeft
<1>3. CASE Handler
  <2>1. pc = "run" /\ pc' \in {"run", "check"} /\ timer_checks' = timer_checks
    BY <1>3 DEF Handler, Interrupted, Sleep, run_return, SetFault, run_state, Running,
                quantum
  <2> QED
    BY <1>1, <2>1 DEF CallsLeft
<1>4. CASE GoOn
  <2>1. pc = "check" /\ pc' = "pick" /\ timer_checks' = timer_checks + 1
    BY <1>4 DEF GoOn
  <2> QED
    BY <1>1, <2>1 DEF CallsLeft
<1>5. CASE Yield \/ CheckTimer
  <2>1. pc = "check" /\ pc' = "host"
    BY <1>5 DEF Yield, CheckTimer, TimeUp
  <2> QED
    BY <1>1, <2>1 DEF CallsLeft
<1>6. ~Host /\ ~Elapse
  BY DEF Host, AddEvent, Raise, setReset, WakeUp, runQuanta, Elapse
<1> QED
  BY <1>2, <1>3, <1>4, <1>5, <1>6 DEF SchedulerNext, Check

\* Once the time is up, runInstructions returns at most TimerCheckSkip + 1
\* more times before the host has control again, though no handler returns and
\* no yield is due: each return uses up one of the calls left, and nothing
\* gives one back.  That a call returns at all is not said here: in the code
\* the loop of resumeEventHandler may go on for ever.
THEOREM FewCallsLeft ==
    Spec => /\ [](CallsLeft \in 0 .. TimerCheckSkip + 1)
            /\ [][pc # "host" /\ elapsed =>
                    CallsLeft' <= CallsLeft /\ (pc' = "check" => CallsLeft' < CallsLeft)]_vars
<1>1. TypeOK /\ [SchedulerNext]_vars
        => [pc # "host" /\ elapsed =>
              CallsLeft' <= CallsLeft /\ (pc' = "check" => CallsLeft' < CallsLeft)]_vars
  BY NearerHost
<1> QED
  BY <1>1, CallsLeftBounded, TypeCorrect, PTL DEF Spec
=============================================================================
