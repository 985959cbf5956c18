---------------------------- MODULE QueuedThread ----------------------------
(***************************************************************************)
(* A worker thread with a queue of requests (llcommon/llqueuedthread.cpp   *)
(* on llthread.cpp) and the main thread that adds requests, waits for      *)
(* them, aborts them, pauses the worker and shuts it down.                 *)
(*                                                                         *)
(* A step is what one thread does between two points where it holds no     *)
(* lock.  The worker tests shouldSleep under mDataLock, lets go of it and  *)
(* then waits on mRunCondition, which has a lock of its own: a signal in   *)
(* between is lost.                                                        *)
(*                                                                         *)
(* Requests are numbers in the order of the queue: by priority, then by    *)
(* handle.  A deleted request is not used again in the model: what the     *)
(* code then does is undefined.                                            *)
(***************************************************************************)
EXTENDS Integers, FiniteSets

CONSTANTS
    Requests,     \* requests the main thread may add
    AutoComplete  \* those added with FLAG_AUTO_COMPLETE

None == 0
ASSUME RequestsAssumption ==
    /\ Requests \subseteq Nat \ {None}
    /\ IsFiniteSet(Requests) /\ AutoComplete \subseteq Requests

VARIABLES
    status,       \* request -> its status, "NEW" before it is added
    flagAbort, flagAuto,  \* requests with FLAG_ABORT, FLAG_AUTO_COMPLETE
    finished,     \* request -> calls of finishRequest
    mRequestQueue, mRequestHash,
    mStatus,      \* the thread: RUNNING, QUITTING or STOPPED
    mPaused, mIdleThread,
    worker,       \* where the worker is
    current,      \* the request it processes, or None
    main,         \* where the main thread is
    target,       \* the request waitForResult waits for, or None
    waspaused,    \* waitForResult's local
    timedOut,     \* shutdown went on without the worker
    active        \* the requests shutdown counted in active_count

requests == <<status, flagAbort, flagAuto, finished, mRequestQueue, mRequestHash>>
thread == <<mStatus, mPaused, mIdleThread, worker, current>>
caller == <<main, target, waspaused, timedOut, active>>
vars == <<requests, thread, caller>>

Init ==
    /\ status = [r \in Requests |-> "NEW"]
    /\ flagAbort = {} /\ flagAuto = AutoComplete
    /\ finished = [r \in Requests |-> 0]
    /\ mRequestQueue = {} /\ mRequestHash = {}
    /\ mStatus = "RUNNING" /\ mPaused \in BOOLEAN /\ mIdleThread = TRUE
    /\ worker = "check" /\ current = None
    /\ main = "free" /\ target = None /\ waspaused = FALSE
    /\ timedOut = FALSE /\ active = {}

----------------------------------------------------------------------------
\* Sleeping and waking (LLThread).

\* Mutant: a worker with requests but idle sleeps on.
runCondition_OnlyIdle(queue) == ~mIdleThread

runCondition(queue) == ~(queue = {} /\ mIdleThread)

ShouldSleep(queue, state, paused) ==
    state = "RUNNING" /\ (paused \/ ~runCondition(queue))

\* wake: the worker, if it waits, tests shouldSleep again.
Woken(paused) ==
    IF worker = "waiting" /\ ~ShouldSleep(mRequestQueue, mStatus, paused)
    THEN "check" ELSE worker

\* Mutant: setQuitting only sets the status.
Broadcast_None == worker

\* setQuitting: mRunCondition->broadcast().
Broadcast == IF worker = "waiting" THEN "check" ELSE worker

----------------------------------------------------------------------------
\* The worker.

Worker(from, to) ==
    /\ worker = from
    /\ worker' = to
    /\ UNCHANGED caller

\* checkPause.
CheckPause ==
    /\ Worker("check", IF ShouldSleep(mRequestQueue, mStatus, mPaused)
                       THEN "unlocked" ELSE "top")
    /\ UNCHANGED <<requests, mStatus, mPaused, mIdleThread, current>>

WaitForWake ==
    /\ Worker("unlocked", "waiting")
    /\ UNCHANGED <<requests, mStatus, mPaused, mIdleThread, current>>

SpuriousWake ==
    /\ Worker("waiting", "check")
    /\ UNCHANGED <<requests, mStatus, mPaused, mIdleThread, current>>

\* The top of run's loop.
Top ==
    /\ Worker("top", IF mStatus = "QUITTING" THEN "end" ELSE "next")
    /\ mIdleThread' = (mStatus = "QUITTING" /\ mIdleThread)
    /\ UNCHANGED <<requests, mStatus, mPaused, current>>

End ==
    /\ Worker("end", "stopped")
    /\ mStatus' = "STOPPED"
    /\ UNCHANGED <<requests, mPaused, mIdleThread, current>>

\* What processNextRequest takes off the queue to abort: everything when the
\* thread is quitting, else what stands before the first request to run.
ToAbort ==
    {r \in mRequestQueue :
       \/ mStatus = "QUITTING"
       \/ \A s \in mRequestQueue : s <= r => s \in flagAbort}

\* Finished requests that are deleted at once.
Reaped(ids) == ids \cap flagAuto

\* Mutant: a request that is aborted is not told so.
FinishedBy_NotAborted(ids) ==
    [r \in Requests |-> finished[r] + (IF r \in ids \cap {current} THEN 1 ELSE 0)]

FinishedBy(ids) ==
    [r \in Requests |-> finished[r] + (IF r \in ids THEN 1 ELSE 0)]

\* The requests in ids end: finishRequest and, for some of them, deleteRequest,
\* under the lock.
Finish(ids) ==
    /\ finished' = FinishedBy(ids)
    /\ mRequestHash' = mRequestHash \ Reaped(ids)

\* processNextRequest up to the unlock.
ProcessNextRequest ==
    LET rest == mRequestQueue \ ToAbort IN
    /\ Worker("next", IF rest = {} THEN "count" ELSE "process")
    /\ IF rest = {} THEN current' = None
       ELSE current' \in rest /\ \A r \in rest : current' <= r
    /\ mRequestQueue' = rest \ {current'}
    /\ Finish(ToAbort)
    /\ status' = [r \in Requests |->
         IF r \in Reaped(ToAbort) THEN "DELETE" ELSE IF r \in ToAbort THEN "ABORTED"
         ELSE IF r = current' THEN "INPROGRESS" ELSE status[r]]
    /\ UNCHANGED <<flagAbort, flagAuto, mStatus, mPaused, mIdleThread>>

\* processRequest returned TRUE.
Complete ==
    /\ Worker("process", "count")
    /\ status[current] # "DELETE"
    /\ Finish({current})
    /\ status' = [status EXCEPT ![current] =
                    IF current \in flagAuto THEN "DELETE" ELSE "COMPLETE"]
    /\ current' = None
    /\ UNCHANGED <<flagAbort, flagAuto, mRequestQueue, mStatus, mPaused, mIdleThread>>

\* Mutants: the status of the request is left alone, or forgotten.
Requeued_InProgress == status
Requeued_Unknown == [status EXCEPT ![current] = "UNKNOWN"]

Requeued == [status EXCEPT ![current] = "QUEUED"]

\* It returned FALSE: the request has more to do.
Requeue ==
    /\ Worker("process", "count")
    /\ status[current] # "DELETE"
    /\ status' = Requeued
    /\ mRequestQueue' = mRequestQueue \cup {current}
    /\ current' = None
    /\ UNCHANGED <<flagAbort, flagAuto, finished, mRequestHash, mStatus, mPaused, mIdleThread>>

\* The number of requests pending decides whether the thread is idle, but is
\* used after the lock is let go.
CountPending ==
    /\ Worker("count", IF mRequestQueue = {} THEN "idle" ELSE "check")
    /\ UNCHANGED <<requests, mStatus, mPaused, mIdleThread, current>>

SetIdle ==
    /\ Worker("idle", "check")
    /\ mIdleThread' = TRUE
    /\ UNCHANGED <<requests, mStatus, mPaused, current>>

----------------------------------------------------------------------------
\* The main thread.

Main(from, to) ==
    /\ main = from
    /\ main' = to

\* addRequest, then incQueue.
AddRequest(r) ==
    /\ Main("free", "wake") /\ status[r] = "NEW"
    /\ status' = [status EXCEPT ![r] = "QUEUED"]
    /\ mRequestQueue' = mRequestQueue \cup {r}
    /\ mRequestHash' = mRequestHash \cup {r}
    /\ UNCHANGED <<flagAbort, flagAuto, finished, thread, target, waspaused, timedOut, active>>

IncQueue ==
    /\ Main("wake", "free")
    /\ worker' = IF mPaused THEN worker ELSE Woken(FALSE)
    /\ UNCHANGED <<requests, mStatus, mPaused, mIdleThread, current, target, waspaused, timedOut, active>>

Pause ==
    /\ Main("free", "free") /\ ~mPaused
    /\ mPaused' = TRUE
    /\ UNCHANGED <<requests, mStatus, mIdleThread, worker, current, target, waspaused, timedOut, active>>

unpause == mPaused' = FALSE /\ worker' = Woken(FALSE)

\* update: getPending, then unpause.  waitForResult calls it, too.
Update ==
    /\ mRequestQueue # {}
    /\ Main("free", "unpause") \/ Main("update", "unpause")
    /\ UNCHANGED <<requests, thread, target, waspaused, timedOut, active>>

Unpause ==
    /\ Main("unpause", IF target = None THEN "free" ELSE "find")
    /\ unpause
    /\ UNCHANGED <<requests, mStatus, mIdleThread, current, target, waspaused, timedOut, active>>

\* abortRequest, with autocomplete or not.
AbortRequest(r, autocomplete) ==
    /\ Main("free", "free") /\ r \in mRequestHash
    /\ flagAbort' = flagAbort \cup {r}
    /\ flagAuto' = IF autocomplete THEN flagAuto \cup {r} ELSE flagAuto
    /\ UNCHANGED <<status, finished, mRequestQueue, mRequestHash, thread, target, waspaused, timedOut, active>>

\* Mutant: a request can be completed before it is over.
Over_Any(r) == status[r] \notin {"NEW", "DELETE"}

Over(r) == status[r] \in {"COMPLETE", "ABORTED"}

\* completeRequest, for a request the client has seen to be over.
CompleteRequest(r) ==
    /\ Main("free", "free") /\ r \in mRequestHash \ flagAuto
    /\ Over(r)
    /\ mRequestHash' = mRequestHash \ {r}
    /\ status' = [status EXCEPT ![r] = "DELETE"]
    /\ UNCHANGED <<flagAbort, flagAuto, finished, mRequestQueue, thread, target, waspaused, timedOut, active>>

\* waitForResult, on a request that was not aborted: the code waits for ever
\* for one that was.
WaitForResult(r) ==
    /\ Main("free", "update")
    /\ status[r] # "NEW" /\ r \notin flagAbort
    /\ target' = r /\ waspaused' = mPaused
    /\ UNCHANGED <<requests, thread, timedOut, active>>

NothingPending ==
    /\ Main("update", "find") /\ mRequestQueue = {}
    /\ UNCHANGED <<requests, thread, target, waspaused, timedOut, active>>

\* The request is gone, or over and then deleted; else the loop goes on.
FindResult ==
    /\ main = "find"
    /\ IF target \in mRequestHash /\ status[target] # "COMPLETE"
       THEN main' = "update" /\ UNCHANGED <<requests, target, mPaused>>
       ELSE /\ main' = "free" /\ target' = None
            /\ mPaused' = (mPaused \/ waspaused)
            /\ mRequestHash' = mRequestHash \ {target}
            /\ status' = [status EXCEPT ![target] = "DELETE"]
            /\ UNCHANGED <<flagAbort, flagAuto, finished, mRequestQueue>>
    /\ UNCHANGED <<mStatus, mIdleThread, worker, current, waspaused, timedOut, active>>

\* shutdown.
SetQuitting ==
    /\ Main("free", "quit")
    /\ mStatus' = "QUITTING"
    /\ worker' = Broadcast
    /\ UNCHANGED <<requests, mPaused, mIdleThread, current, target, waspaused, timedOut, active>>

UnpauseToQuit ==
    /\ Main("quit", "await")
    /\ unpause
    /\ UNCHANGED <<requests, mStatus, mIdleThread, current, target, waspaused, timedOut, active>>

\* It waits ten seconds, longer than the worker needs for any step but
\* processRequest, or a wait that nothing ends.
StopAwaiting ==
    /\ Main("await", "reap")
    /\ mStatus = "STOPPED" \/ worker \in {"waiting", "process"}
    /\ timedOut' = (mStatus # "STOPPED")
    /\ UNCHANGED <<requests, thread, target, waspaused, active>>

\* The requests left are deleted, those that are not over as if aborted.
DeleteRequests ==
    /\ Main("reap", "destroy")
    /\ mRequestHash' = {}
    /\ active' = {r \in mRequestHash : status[r] \in {"QUEUED", "INPROGRESS"}}
    /\ status' = [r \in Requests |-> IF r \in mRequestHash THEN "DELETE" ELSE status[r]]
    /\ UNCHANGED <<flagAbort, flagAuto, finished, mRequestQueue, thread, target, waspaused, timedOut>>

\* ~LLThread: setQuitting once more, and sixty seconds for the worker.
Destroy ==
    /\ Main("destroy", "gone")
    /\ worker' = Broadcast
    /\ UNCHANGED <<requests, mStatus, mPaused, mIdleThread, current, target, waspaused, timedOut, active>>

\* "Put a stake in its heart."
Cancel ==
    /\ main = "gone" /\ worker = "process"
    /\ worker' = "stopped" /\ mStatus' = "STOPPED"
    /\ UNCHANGED <<requests, mPaused, mIdleThread, current, caller>>

----------------------------------------------------------------------------
WorkerStep ==
    \/ CheckPause \/ WaitForWake \/ Top \/ End
    \/ ProcessNextRequest \/ Complete \/ Requeue \/ CountPending \/ SetIdle

\* The main thread inside a call.
Calling ==
    \/ IncQueue \/ Unpause
    \/ (main = "update" /\ Update) \/ NothingPending \/ FindResult
    \/ UnpauseToQuit \/ StopAwaiting \/ DeleteRequests \/ Destroy \/ Cancel

Call ==
    \/ \E r \in Requests :
         \/ AddRequest(r) \/ CompleteRequest(r) \/ WaitForResult(r)
         \/ \E autocomplete \in BOOLEAN : AbortRequest(r, autocomplete)
    \/ main = "free" /\ Update
    \/ Pause \/ SetQuitting

ThreadNext == WorkerStep \/ SpuriousWake \/ Calling \/ Call
Spec == Init /\ [][ThreadNext]_vars

\* Both threads run, processRequest returns TRUE in the end, and the main loop
\* goes on calling update.
FairSpec ==
    /\ Spec
    /\ WF_vars(WorkerStep) /\ SF_vars(Complete)
    /\ WF_vars(Calling) /\ SF_vars(main = "free" /\ Update)

----------------------------------------------------------------------------
\* Properties.

\* The type invariant.
TypeOK ==
    /\ status \in [Requests -> {"NEW", "QUEUED", "INPROGRESS", "COMPLETE",
                                "ABORTED", "DELETE"}]
    /\ flagAbort \subseteq Requests /\ flagAuto \subseteq Requests
    /\ finished \in [Requests -> Nat]
    /\ mRequestQueue \subseteq Requests /\ mRequestHash \subseteq Requests
    /\ mStatus \in {"RUNNING", "QUITTING", "STOPPED"}
    /\ mPaused \in BOOLEAN /\ mIdleThread \in BOOLEAN
    /\ worker \in {"check", "unlocked", "waiting", "top", "next", "process",
                   "count", "idle", "end", "stopped"}
    /\ current \in Requests \cup {None} /\ target \in Requests \cup {None}
    /\ main \in {"free", "wake", "unpause", "update", "find", "quit", "await",
                 "reap", "destroy", "gone"}
    /\ waspaused \in BOOLEAN /\ timedOut \in BOOLEAN /\ active \subseteq Requests

\* Until shutdown deletes what is left, each request has one owner: the queue,
\* the worker, the client who may complete it, or nobody once it is deleted.
\* The assertions in processNextRequest, completeRequest and deleteRequest say
\* parts of this.
OneOwner ==
    main \notin {"destroy", "gone"} =>
      \A r \in Requests :
        /\ (status[r] = "QUEUED") = (r \in mRequestQueue)
        /\ (status[r] = "INPROGRESS") = (r = current)
        /\ (status[r] \in {"NEW", "DELETE"}) = (r \notin mRequestHash)

\* Nobody comes to a request that was deleted: not the worker, on the queue,
\* and not waitForResult, abortRequest, completeRequest or shutdown, which all
\* find their request in the table.  A request that is being processed is not
\* deleted either, unless shutdown gave up waiting for processRequest: then it
\* is, under the worker.
NoUseAfterDelete ==
    /\ worker = "process" /\ status[current] = "DELETE" => timedOut
    /\ worker = "next" => \A r \in mRequestQueue : status[r] # "DELETE"
    /\ \A r \in mRequestHash : status[r] # "DELETE"

\* finishRequest is called once, when a request is completed or aborted, and
\* before the worker or the client deletes it.  It is not called at all for
\* the requests that are neither when shutdown deletes them.
FinishedOnce ==
    \A r \in Requests :
      /\ status[r] \in {"NEW", "QUEUED", "INPROGRESS"} => finished[r] = 0
      /\ status[r] \in {"COMPLETE", "ABORTED"} => finished[r] = 1
      /\ status[r] = "DELETE" => finished[r] = IF r \in active THEN 0 ELSE 1

\* What the declaration of finishRequest says: "Always called from thread
\* after request has completed or aborted".  A request that is deleted is
\* one or the other, so it was called, at least where shutdown saw the worker
\* stop.
AlwaysFinished ==
    ~timedOut => \A r \in Requests : status[r] = "DELETE" => finished[r] = 1

\* A request that was added ends, if the client pauses the worker finitely
\* often: a signal that is lost is made good by the next update.
PausesEnd == <>[][~mPaused => ~mPaused']_vars
EveryRequestEnds ==
    PausesEnd =>
      \A r \in Requests :
        status[r] = "QUEUED" ~> finished[r] = 1 \/ mStatus # "RUNNING"

\* A thread that is told to quit stops, although both signals of shutdown may
\* come between the worker's test and its wait: the destructor's broadcast
\* reaches it, after the ten seconds of shutdown.
QuitStops == mStatus = "QUITTING" ~> mStatus = "STOPPED"
=============================================================================
