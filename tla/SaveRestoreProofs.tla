------------------------- MODULE SaveRestoreProofs -------------------------
(***************************************************************************)
(* Proofs about saving, restoring and resetting, for all scripts.          *)
(*                                                                         *)
(* VInv is inductive: the scheduler's own invariant SInv holds of a script *)
(* that is not inert and of the saved image, and an inert script is empty. *)
(* MatchInv adds what RightHandler rests on, of script and image.          *)
(***************************************************************************)
EXTENDS SaveRestore, ScriptSchedulerProofs

\* What SInv says of a script between quanta, of the image.
ImageInv ==
    /\ image.code \in Events \cup {LSTT_NULL, Beyond}
    /\ image.ie \subseteq Events /\ image.ce \subseteq Events
    /\ image.er = Handled[image.cs]
    /\ image.cs \in States /\ image.ns \in States
    /\ image.faulted \in BOOLEAN /\ image.asleep \in BOOLEAN
    /\ image.queue \in Seq(Events) /\ Len(image.queue) <= MAX_EVENTS_IN_QUEUE
    /\ \A i \in 1 .. Len(image.queue) : image.queue[i] \in image.er
    /\ image.ce \subseteq image.er \cup {LSTT_STATE_ENTRY, LSTT_STATE_EXIT}
    /\ LSTT_STATE_EXIT \in image.ce => image.cs # image.ns
    /\ image.cs # image.ns /\ LSTT_STATE_EXIT \in image.er \ image.ce
         => image.ie = {LSTT_STATE_EXIT}
    /\ image.code # 0 => LSTT_STATE_EXIT \notin image.ce

\* A script that was reset.
Empty ==
    /\ code = 0 /\ ie = {} /\ ce = {} /\ er = {} /\ cs = 0 /\ ns = 0
    /\ ~faulted /\ pc # "run"

VInv == ImageInv /\ TypeOK /\ (~inert => SInv) /\ (inert => Empty)

\* An event for an event, in the other order.
LEMMA Reversed ==
    ASSUME NEW S, NEW q \in Seq(S)
    PROVE  /\ Reverse(q) \in Seq(S) /\ Len(Reverse(q)) = Len(q)
           /\ \A j \in 1 .. Len(q) : \E k \in 1 .. Len(q) : Reverse(q)[j] = q[k]
           /\ \A e : Contains(q, e) => Contains(Reverse(q), e)
<1>1. PICK n \in Nat : n = Len(q)
  OBVIOUS
<1>2. \A j \in 1 .. n : n - j + 1 \in 1 .. n /\ n - (n - j + 1) + 1 = j
  OBVIOUS
<1>3. Reverse(q) = [j \in 1 .. n |-> q[n - j + 1]]
  BY <1>1 DEF Reverse
<1>4. \A j \in 1 .. n : q[j] \in S
  BY <1>1
<1>5. Reverse(q) \in Seq(S) /\ Len(Reverse(q)) = n
  <2>1. Reverse(q) \in [1 .. n -> S]
    BY <1>2, <1>3, <1>4
  <2> QED
    BY <2>1
<1>6. \A j \in 1 .. n : Reverse(q)[j] = q[n - j + 1]
  BY <1>3
<1>7. ASSUME NEW e, Contains(q, e) PROVE Contains(Reverse(q), e)
  <2>1. PICK j \in 1 .. n : q[j] = e
    BY <1>1, <1>7 DEF Contains
  <2>2. Reverse(q)[n - j + 1] = e
    BY <1>2, <1>6, <2>1
  <2> QED
    BY <1>2, <1>5, <2>2 DEF Contains
<1> QED
  BY <1>1, <1>2, <1>5, <1>6, <1>7

LEMMA VInit == SaveInit => VInv
<1> SUFFICES ASSUME SaveInit PROVE VInv
  OBVIOUS
<1>1. SInv
  BY InitSInv DEF SaveInit
<1>2. ImageInv
  BY <1>1 DEF SaveInit, Snapshot, ImageInv, SInv, TypeOK, OnlyRegistered, ExitCalled,
              ExitWaits, isStateChangePending
<1> QED
  BY <1>1, <1>2 DEF SaveInit, VInv, SInv

\* What is saved between quanta is in order.
LEMMA SaveKeeps ==
    ASSUME VInv, Save
    PROVE  VInv'
<1>1. SInv /\ ~inert /\ UNCHANGED vars /\ inert' = inert /\ image' = Snapshot
  BY DEF VInv, Save
<1>2. ImageInv'
  BY <1>1 DEF Snapshot, ImageInv, SInv, TypeOK, OnlyRegistered, ExitCalled,
              ExitWaits, isStateChangePending
<1>3. SInv'
  BY <1>1, StutterStep
<1> QED
  BY <1>1, <1>2, <1>3 DEF VInv, SInv

\* What is restored is what was saved, but for the order of the queue.
LEMMA LoadKeeps ==
    ASSUME VInv, Load
    PROVE  VInv'
<1>1. PICK q \in Seq(Events) : q = image.queue
  BY DEF VInv, ImageInv
<1>2. /\ queue' \in Seq(Events) /\ Len(queue') = Len(q)
      /\ \A j \in 1 .. Len(q) : \E k \in 1 .. Len(q) : queue'[j] = q[k]
  <2>1. queue' = Reverse(q)
    BY <1>1 DEF Load, RestoredQueue
  <2> QED
    BY <2>1, Reversed
<1>3. /\ code' = image.code /\ ie' = image.ie /\ ce' = image.ce
      /\ er' = image.er /\ cs' = image.cs /\ ns' = image.ns
      /\ faulted' = image.faulted /\ asleep' = image.asleep /\ mReset' = FALSE
      /\ pc' = "host" /\ timer_checks' = 0 /\ elapsed' = FALSE /\ inert' = FALSE
      /\ UNCHANGED <<image, budget>>
  BY DEF Load, RestoredIE
<1>4. ImageInv'
  BY <1>3 DEF VInv, ImageInv
<1>5. TypeOK'
  <2>1. er' \subseteq Events /\ 0 \in 0 .. TimerCheckSkip
    <3>1. PICK s \in States : s = image.cs
      BY DEF VInv, ImageInv
    <3>2. Handled[s] \subseteq Events /\ er' = Handled[s]
      BY <1>3, <3>1, HandledTyped DEF VInv, ImageInv
    <3> QED
      BY <3>2, SchedulerAssumption
  <2>2. Len(queue') <= MAX_EVENTS_IN_QUEUE
    BY <1>1, <1>2 DEF VInv, ImageInv
  <2> QED
    BY <1>2, <1>3, <2>1, <2>2 DEF VInv, ImageInv, TypeOK
<1>6. OnlyRegistered'
  <2>1. \A j \in 1 .. Len(queue') : queue'[j] \in er'
    BY <1>1, <1>2, <1>3 DEF VInv, ImageInv
  <2> QED
    BY <1>3, <2>1 DEF VInv, ImageInv, OnlyRegistered, isStateChangePending
<1>7. ExitCalled' /\ ExitWaits' /\ RunsCode'
  BY <1>3 DEF VInv, ImageInv, ExitCalled, ExitWaits, RunsCode, isStateChangePending
<1> QED
  BY <1>3, <1>4, <1>5, <1>6, <1>7 DEF VInv, SInv

LEMMA ResetKeeps ==
    ASSUME VInv, Reset
    PROVE  VInv'
<1>1. /\ inert' = TRUE /\ mReset' = FALSE /\ pc = "host"
      /\ code' = 0 /\ ie' = {} /\ er' = {} /\ ce' = {}
      /\ cs' = 0 /\ ns' = 0 /\ faulted' = FALSE /\ asleep' = FALSE
      /\ UNCHANGED <<queue, pc, timer_checks, elapsed, budget, image>>
  BY DEF Reset, EventsOf, quantum
<1>2. ImageInv'
  BY <1>1 DEF VInv, ImageInv
<1>3. TypeOK'
  BY <1>1, SchedulerAssumption DEF VInv, TypeOK, LSTT_NULL
<1> QED
  BY <1>1, <1>2, <1>3 DEF VInv, Empty

\* An inert script is called for nothing, whatever its queue holds.
LEMMA EmptyKeeps ==
    ASSUME VInv, inert, SchedulerNext, UNCHANGED saved
    PROVE  VInv'
<1>1. Empty /\ TypeOK /\ inert' = inert /\ image' = image
  BY DEF VInv, saved
<1>2. ImageInv'
  BY <1>1 DEF VInv, ImageInv
<1>3. \/ \E b \in BOOLEAN : setReset(b)
      \/ WakeUp \/ runQuanta \/ Yield \/ Elapse
      \/ CallNextQueued /\ NotCalled
      \/ NothingToDo
  <2>1. isFinished /\ ~isStateChangePending /\ pc # "run" /\ er = {} /\ ce = {} /\ ~faulted
    BY <1>1 DEF Empty, isFinished, isStateChangePending
  <2>2. ~Handler /\ ~GoOn /\ ~CheckTimer
    BY <2>1 DEF Handler, Interrupted, Sleep, run_state, run_return, SetFault, Running,
                GoOn, CheckTimer, isYieldDue
  <2>3. ~(\E e \in Queued : AddEvent(e)) /\ ~(\E e \in Raised : Raise(e))
    BY <2>1 DEF AddEvent, Raise
  <2>4. Pick => NothingToDo \/ (CallNextQueued /\ NotCalled)
    BY <2>1 DEF Pick, ReportFault, resumeEventHandler, CallStateExit, SwitchState,
                CallStateEntry, CallRez, CallNextQueued, CallRaised, EntryDue, RezDue
  <2> QED
    BY <2>2, <2>3, <2>4 DEF SchedulerNext, Host, Check
<1>4. CASE \E b \in BOOLEAN : setReset(b)
  BY <1>1, <1>2, <1>4 DEF setReset, Empty, TypeOK, registers, quantum, VInv
<1>5. CASE WakeUp
  BY <1>1, <1>2, <1>5 DEF WakeUp, Empty, TypeOK, quantum, VInv
<1>6. CASE runQuanta
  <2>1. pc' = "pick" /\ timer_checks' = 0 /\ elapsed' = FALSE
    BY <1>6 DEF runQuanta
  <2>2. UNCHANGED <<code, ie, ce, er, cs, ns, faulted, asleep, mReset, queue, budget>>
    BY <1>6 DEF runQuanta, registers
  <2>3. Empty'
    BY <1>1, <2>1, <2>2 DEF Empty
  <2>4. TypeOK'
    BY <1>1, <2>1, <2>2, SchedulerAssumption DEF TypeOK
  <2> QED
    BY <1>1, <1>2, <2>3, <2>4 DEF VInv
<1>7. CASE Yield \/ Elapse
  <2>1. /\ UNCHANGED <<code, ie, ce, er, cs, ns, faulted, asleep, mReset, queue,
                       timer_checks, budget>>
        /\ (pc' = pc /\ elapsed' = TRUE) \/ (pc' = "host" /\ elapsed' = elapsed)
    BY <1>7 DEF Yield, Elapse, registers, quantum
  <2>2. Empty'
    BY <1>1, <2>1 DEF Empty
  <2>3. TypeOK'
    BY <1>1, <2>1 DEF TypeOK
  <2> QED
    BY <1>1, <1>2, <2>2, <2>3 DEF VInv
<1>8. CASE CallNextQueued /\ NotCalled
  <2>1. /\ queue # <<>> /\ queue' = Removed(1) /\ ie' = {} /\ pc' = "check"
        /\ UNCHANGED <<code, ce, er, cs, ns, faulted, asleep, mReset, timer_checks,
                       elapsed, budget>>
    BY <1>8 DEF CallNextQueued, NotCalled, Picked, quantum
  <2>2. PICK q \in Seq(Events) : q = queue
    BY <1>1 DEF TypeOK
  <2>3. 1 \in 1 .. Len(q) /\ Len(q) \in Nat
    BY <2>1, <2>2
  <2>4. RemoveAt(q, 1) \in Seq(Events) /\ Len(RemoveAt(q, 1)) = Len(q) - 1
    BY <2>3, Shorter
  <2>5. queue' \in Seq(Events) /\ Len(queue') <= MAX_EVENTS_IN_QUEUE
    BY <1>1, <2>1, <2>2, <2>3, <2>4, SchedulerAssumption DEF TypeOK, Removed
  <2> QED
    BY <1>1, <1>2, <2>1, <2>5 DEF Empty, TypeOK, VInv
<1>9. CASE NothingToDo
  BY <1>1, <1>2, <1>9 DEF NothingToDo, NotCalled, Picked, Empty, TypeOK, quantum, VInv
<1> QED
  BY <1>3, <1>4, <1>5, <1>6, <1>7, <1>8, <1>9

LEMMA VNext == VInv /\ [SaveNext]_allVars => VInv'
<1> SUFFICES ASSUME VInv, [SaveNext]_allVars PROVE VInv'
  OBVIOUS
<1>1. CASE SchedulerNext /\ UNCHANGED saved /\ ~inert
  <2>1. SInv' /\ inert' = inert /\ image' = image
    BY <1>1, SInvStep DEF VInv, saved
  <2> QED
    BY <1>1, <2>1 DEF VInv, SInv, ImageInv
<1>2. CASE UNCHANGED allVars
  <2>1. UNCHANGED vars /\ inert' = inert /\ image' = image
    BY <1>2 DEF allVars, saved
  <2>2. SInv => SInv'
    BY <2>1, StutterStep
  <2>3. TypeOK' /\ (Empty => Empty')
    BY <2>1 DEF VInv, TypeOK, Empty, vars, registers, quantum
  <2> QED
    BY <2>1, <2>2, <2>3 DEF VInv, ImageInv
<1> QED
  BY <1>1, <1>2, SaveKeeps, LoadKeeps, ResetKeeps, EmptyKeeps DEF SaveNext, Undisturbed

LEMMA AlwaysVInv == SaveSpec => []VInv
BY VInit, VNext, PTL DEF SaveSpec

\* A script that was reset runs nothing until it is loaded anew, whatever its
\* queue still holds and the host does, and nothing is taken for its code.
THEOREM ResetIsSafe == SaveSpec => []ResetFailsSafe
<1>1. VInv => ResetFailsSafe
  BY DEF VInv, Empty, ResetFailsSafe
<1> QED
  BY AlwaysVInv, <1>1, PTL

----------------------------------------------------------------------------
\* on_rez and its argument, in the script and in the image.
RezInv ==
    /\ LSTT_REZ \in image.ce => Contains(image.queue, LSTT_REZ)
    /\ ~inert => RezHasArgument

LEMMA RezNext ==
    ASSUME ExitOrRez, VInv, RezInv, [SaveNext]_allVars
    PROVE  RezInv'
<1>1. CASE Save
  <2>1. /\ image'.ce = ce /\ image'.queue = queue /\ UNCHANGED <<ce, queue>>
        /\ ~inert /\ inert' = inert
    BY <1>1 DEF Save, Snapshot, vars, registers
  <2> QED
    BY <2>1 DEF RezInv, RezHasArgument
<1>2. CASE Load
  <2>1. /\ ce' = image.ce /\ queue' = Reverse(image.queue) /\ image' = image
    BY <1>2 DEF Load, RestoredIE, RestoredQueue
  <2>2. image.queue \in Seq(Events)
    BY DEF VInv, ImageInv
  <2>3. Contains(image.queue, LSTT_REZ) => Contains(Reverse(image.queue), LSTT_REZ)
    BY <2>2, Reversed
  <2> QED
    BY <2>1, <2>3 DEF RezInv, RezHasArgument
<1>3. CASE Reset
  BY <1>3 DEF Reset, RezInv
<1>4. CASE Undisturbed(SchedulerNext) \/ UNCHANGED allVars
  <2>1. [SchedulerNext]_vars /\ image' = image /\ inert' = inert
    BY <1>4 DEF Undisturbed, allVars, saved
  <2> QED
    BY <2>1, RezStep DEF RezInv, VInv
<1> QED
  BY <1>1, <1>2, <1>3, <1>4 DEF SaveNext

\* A restored script is in a state it could have come to by itself, although
\* registers and queue are written and read by different calls: under the
\* same condition as RezServed.
THEOREM RestoredIsSound == ExitOrRez => (SaveSpec => []RestoredSound)
<1> SUFFICES ASSUME ExitOrRez PROVE SaveSpec => []RestoredSound
  OBVIOUS
<1>1. SaveInit => RezInv
  BY DEF SaveInit, Init, Snapshot, RezInv, RezHasArgument, LSTT_STATE_ENTRY, LSTT_REZ
<1>2. VInv /\ RezInv /\ [SaveNext]_allVars => RezInv'
  BY RezNext
<1>3. VInv /\ RezInv => RestoredSound
  BY DEF VInv, SInv, RezInv, RestoredSound
<1> QED
  BY AlwaysVInv, <1>1, <1>2, <1>3, PTL DEF SaveSpec

----------------------------------------------------------------------------
\* What handler runs, in the script and in the image.
MatchInv ==
    /\ image.ce \subseteq Bits /\ (image.code # 0 => image.ie = {image.code})
    /\ CallsRight

LEMMA MatchNext ==
    ASSUME WellServed, VInv, MatchInv, [SaveNext]_allVars
    PROVE  MatchInv'
<1>1. CASE Save
  <2>1. /\ image'.ce = ce /\ image'.code = code /\ image'.ie = ie
        /\ UNCHANGED <<ce, code, ie>>
    BY <1>1 DEF Save, Snapshot, vars, registers
  <2> QED
    BY <2>1 DEF MatchInv, CallsRight, HandlerMatches
<1>2. CASE Load
  BY <1>2 DEF Load, RestoredIE, MatchInv, CallsRight, HandlerMatches
<1>3. CASE Reset
  BY <1>3 DEF Reset, EventsOf, MatchInv, CallsRight, HandlerMatches
<1>4. CASE Undisturbed(SchedulerNext) \/ UNCHANGED allVars
  <2>1. [SchedulerNext]_vars /\ image' = image /\ inert' = inert
    BY <1>4 DEF Undisturbed, allVars, saved
  <2>2. CASE ~inert
    BY <2>1, <2>2, CallsRightStep DEF MatchInv, VInv
  <2>3. CASE inert
    <3>1. VInv'
      BY VNext
    <3>2. code' = 0 /\ ce' = {}
      BY <2>1, <2>3, <3>1 DEF VInv, Empty
    <3> QED
      BY <2>1, <3>2 DEF MatchInv, CallsRight, HandlerMatches
  <2> QED
    BY <2>2, <2>3
<1> QED
  BY <1>1, <1>2, <1>3, <1>4 DEF SaveNext

\* Also of a script that was saved in the middle of a handler, restored and
\* reset, the handler that runs is that of the event IE names: IE and IP are
\* restored together.  The conditions are those of RightHandler.
THEOREM RestoredHandlerIsRight == WellServed => (SaveSpec => []HandlerMatches)
<1> SUFFICES ASSUME WellServed PROVE SaveSpec => []HandlerMatches
  OBVIOUS
<1>1. SaveInit => MatchInv
  BY DEF SaveInit, Init, Snapshot, MatchInv, CallsRight, HandlerMatches, Bits
<1>2. VInv /\ MatchInv /\ [SaveNext]_allVars => MatchInv'
  BY MatchNext
<1>3. MatchInv => HandlerMatches
  BY DEF MatchInv, CallsRight
<1> QED
  BY AlwaysVInv, <1>1, <1>2, <1>3, PTL DEF SaveSpec

----------------------------------------------------------------------------
\* The bound of FewCallsLeft also holds for a script that is saved, lost,
\* restored and reset: a crash ends its quantum, and a restored script starts
\* none by itself.
THEOREM RestoredFewCallsLeft ==
    SaveSpec => [][pc # "host" /\ elapsed =>
                     CallsLeft' <= CallsLeft /\ (pc' = "check" => CallsLeft' < CallsLeft)]_vars
<1> DEFINE Fewer == CallsLeft' <= CallsLeft /\ (pc' = "check" => CallsLeft' < CallsLeft)
<1>1. VInv /\ [SaveNext]_allVars => [pc # "host" /\ elapsed => Fewer]_vars
  <2> SUFFICES ASSUME VInv, SaveNext, pc # "host", elapsed
               PROVE  Fewer \/ UNCHANGED vars
    BY DEF allVars
  <2>1. CASE Save \/ Reset
    BY <2>1 DEF Save, Reset
  <2>2. CASE Load
    <3>1. CallsLeft \in Nat
      BY CallsLeftBounded, SchedulerAssumption DEF VInv
    <3>2. CallsLeft' = 0 /\ pc' # "check"
      BY <2>2 DEF Load, CallsLeft
    <3> QED
      BY <3>1, <3>2
  <2>3. CASE Undisturbed(SchedulerNext)
    BY <2>3, NearerHost DEF Undisturbed, VInv
  <2> QED
    BY <2>1, <2>2, <2>3 DEF SaveNext
<1> QED
  BY <1>1, AlwaysVInv, PTL DEF SaveSpec
=============================================================================
