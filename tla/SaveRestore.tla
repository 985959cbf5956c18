---------------------------- MODULE SaveRestore ----------------------------
(***************************************************************************)
(* A scheduled script that is saved, unloaded or lost in a crash, restored *)
(* and reset (writeState, writeEvents, readState, readEvents and reset of  *)
(* lscript_execute).  Saving and resetting happen between quanta; a crash  *)
(* comes at any point, and the host then reads the last saved state into a *)
(* new object.                                                             *)
(*                                                                         *)
(* The registers of a compiled script are stored in network order and      *)
(* swapped when the script is loaded.  reset copies the compiled image     *)
(* back without the swap: the version register then reads as neither       *)
(* version, so that the event registers are looked for in the old, 32 bit  *)
(* places, where the compiler leaves zero.  Such a script is called inert. *)
(* Heap and stack are saved with the registers; what of the heap is saved  *)
(* is in module LSAHeap, SavedWhole.                                       *)
(***************************************************************************)
EXTENDS ScriptScheduler

VARIABLES
    image,  \* what writeState and writeEvents last wrote
    inert   \* the registers are those reset copied, not swapped

saved == <<image, inert>>
allVars == <<vars, saved>>

\* writeState and writeEvents; the queue is written front to back.
Snapshot ==
    [code |-> code, ie |-> ie, ce |-> ce, er |-> er, cs |-> cs, ns |-> ns,
     faulted |-> faulted, asleep |-> asleep, queue |-> queue]

\* A script is saved when it is loaded for the first time.
SaveInit == Init /\ inert = FALSE /\ image = Snapshot

----------------------------------------------------------------------------
\* The size of the registers is one of them: an inert script cannot be saved.
Save ==
    /\ pc = "host" /\ ~inert
    /\ image' = Snapshot
    /\ UNCHANGED <<vars, inert>>

\* Mutant: the events are not read back.
RestoredQueue_Lost(events) == <<>>

\* readEvents puts each event it reads in front of those it read before.
RestoredQueue(events) == Reverse(events)

\* Mutant: the restored script handles no event.
RestoredIE_Zero(mask) == {}

RestoredIE(mask) == mask

\* The object is gone, in a quantum or between two, and a new one reads the
\* last saved state.
Load ==
    /\ code' = image.code /\ ie' = RestoredIE(image.ie) /\ ce' = image.ce
    /\ er' = image.er /\ cs' = image.cs /\ ns' = image.ns
    /\ faulted' = image.faulted /\ asleep' = image.asleep
    /\ queue' = RestoredQueue(image.queue)
    /\ mReset' = FALSE
    /\ pc' = "host" /\ timer_checks' = 0 /\ elapsed' = FALSE
    /\ inert' = FALSE
    /\ UNCHANGED <<image, budget>>

\* Mutant: the event handlers are read where the version registers say.
EventsOf_AnyVersion(state) == Handled[state]

\* get_event_register for neither version, of a script that was compiled for
\* the 64 bit registers.
EventsOf(state) == {}

\* reset keeps the queue.  A second one clears memory from an HR that is not
\* swapped, beyond the buffer's end: the process is lost, see Load.
Reset ==
    /\ pc = "host" /\ ~inert
    /\ inert' = TRUE /\ mReset' = FALSE
    /\ code' = 0 /\ ie' = {} /\ er' = EventsOf(0) /\ ce' = er' \cap {LSTT_STATE_ENTRY}
    /\ cs' = 0 /\ ns' = 0 /\ faulted' = FALSE /\ asleep' = FALSE
    /\ UNCHANGED <<queue, pc, quantum, budget, image>>

Undisturbed(action) == action /\ UNCHANGED saved

SaveNext == Save \/ Load \/ Reset \/ Undisturbed(SchedulerNext)

\* The interpreter's steps are fair as in QuantumSpec; nobody has to save,
\* crash, restore or reset.
SaveSpec ==
    /\ SaveInit /\ [][SaveNext]_allVars
    /\ WF_allVars(Undisturbed(Pick)) /\ WF_allVars(Undisturbed(Check))
    /\ WF_allVars(Undisturbed(Elapse))

----------------------------------------------------------------------------
\* Properties.

\* A script that was restored is in a state it could have come to by itself:
\* nothing is raised or queued that its state does not handle, and on_rez is
\* raised only with its argument queued, though registers and queue are
\* written by two calls and read back by two others.
RestoredSound == ~inert => OnlyRegistered /\ RezHasArgument

\* A reset script runs no handler, neither for what the host sends nor for
\* events its queue still holds from before, until it is loaded anew: reset
\* does not start it again, but nothing of the image is misread as code.
ResetFailsSafe == inert => code = 0 /\ ~faulted
=============================================================================
