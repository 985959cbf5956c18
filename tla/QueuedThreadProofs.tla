------------------------ MODULE QueuedThreadProofs ------------------------
(***************************************************************************)
(* Proofs about the worker thread and its queue, for any set of requests.  *)
(*                                                                         *)
(* QInv is inductive.  To the checked invariants it adds Positions, what   *)
(* the places of the two threads in their code say of the state: above all *)
(* that the worker takes nothing off the queue any more when shutdown      *)
(* comes to delete what is left there.                                     *)
(*                                                                         *)
(* NotAsleep and StepsLeft are about the end of the worker: once shutdown  *)
(* has stopped to wait it does not go to sleep, and after the destructor's *)
(* broadcast each step brings it nearer to its end.                        *)
(***************************************************************************)
EXTENDS QueuedThread, TLAPS

\* The main thread in shutdown, and when nobody waits for the worker's steps.
Quitting == main \in {"quit", "await", "reap", "destroy", "gone"}
GaveUp == main \in {"reap", "destroy", "gone"}

Positions ==
    /\ (mStatus # "RUNNING") = Quitting
    /\ (mStatus = "STOPPED") = (worker = "stopped")
    /\ worker = "process" => current # None
    /\ worker \notin {"process", "stopped"} => current = None
    /\ current # None => status[current] # "NEW"
    /\ worker = "end" => mStatus = "QUITTING"
    /\ GaveUp => worker # "next"
    /\ GaveUp /\ ~timedOut => mStatus = "STOPPED"
    /\ main \in {"update", "find"} => target # None
    /\ target # None => status[target] # "NEW"
    /\ main \in {"destroy", "gone"} =>
         mRequestHash = {} /\ \A r \in Requests : status[r] \in {"NEW", "DELETE"}
    /\ active # {} => main \in {"destroy", "gone"}

QInv == TypeOK /\ OneOwner /\ FinishedOnce /\ Positions

----------------------------------------------------------------------------
LEMMA QInit == Init => QInv
<1> SUFFICES ASSUME Init PROVE QInv
  OBVIOUS
<1>1. AutoComplete \subseteq Requests /\ None \notin Requests
  BY RequestsAssumption
<1>2. TypeOK
  BY <1>1 DEF Init, TypeOK
<1>3. OneOwner /\ FinishedOnce
  BY <1>1 DEF Init, OneOwner, FinishedOnce
<1>4. Positions
  BY <1>1 DEF Init, Positions, Quitting, GaveUp
<1> QED
  BY <1>2, <1>3, <1>4 DEF QInv

\* A step that leaves the requests alone.
LEMMA SameRequests ==
    ASSUME QInv, UNCHANGED <<requests, active>>,
           main' \in {"destroy", "gone"} <=> main \in {"destroy", "gone"},
           current' = current
    PROVE  OneOwner' /\ FinishedOnce'
BY DEF QInv, OneOwner, FinishedOnce, requests

\* The worker's steps that do not touch the requests.
LEMMA WorkerMoves ==
    ASSUME QInv, CheckPause \/ WaitForWake \/ SpuriousWake \/ Top \/ End
                 \/ CountPending \/ SetIdle
    PROVE  QInv'
<1>1. UNCHANGED <<requests, caller, mPaused, current>>
  BY DEF CheckPause, WaitForWake, SpuriousWake, Top, End, CountPending,
         SetIdle, Worker
<1>2. OneOwner' /\ FinishedOnce'
  BY <1>1, SameRequests DEF caller
<1>3. mIdleThread' \in BOOLEAN
  <2>1. CASE Top \/ SetIdle
    BY <2>1 DEF Top, SetIdle
  <2>2. CASE ~(Top \/ SetIdle)
    BY <2>2 DEF QInv, TypeOK, CheckPause, WaitForWake, SpuriousWake, End, CountPending
  <2> QED
    BY <2>1, <2>2
<1>4. \/ /\ End /\ worker = "end" /\ worker' = "stopped" /\ mStatus' = "STOPPED"
      \/ /\ worker \notin {"next", "process", "stopped", "end"} /\ mStatus' = mStatus
         /\ worker' \in {"check", "unlocked", "waiting", "top", "next", "idle", "end"}
         /\ worker' = "next" => mStatus # "QUITTING"
         /\ worker' = "end" => mStatus = "QUITTING"
  <2>1. CASE CheckPause
    BY <2>1 DEF CheckPause, Worker
  <2>2. CASE WaitForWake \/ SpuriousWake
    BY <2>2 DEF WaitForWake, SpuriousWake, Worker
  <2>3. CASE Top
    BY <2>3 DEF Top, Worker
  <2>4. CASE End
    BY <2>4 DEF End, Worker
  <2>5. CASE CountPending \/ SetIdle
    BY <2>5 DEF CountPending, SetIdle, Worker
  <2> QED
    BY <2>1, <2>2, <2>3, <2>4, <2>5
<1>5. TypeOK'
  BY <1>1, <1>3, <1>4 DEF QInv, TypeOK, requests, caller
<1>6. Positions'
  BY <1>1, <1>4 DEF QInv, TypeOK, Positions, Quitting, GaveUp, requests, caller
<1> QED
  BY <1>2, <1>5, <1>6 DEF QInv

LEMMA ProcessNextRequestKeeps ==
    ASSUME QInv, ProcessNextRequest
    PROVE  QInv'
<1> DEFINE rest == mRequestQueue \ ToAbort
<1>1. ToAbort \subseteq mRequestQueue /\ Reaped(ToAbort) \subseteq ToAbort
  BY DEF ToAbort, Reaped
<1>2. /\ current' \in rest \/ (rest = {} /\ current' = None)
      /\ worker' = IF rest = {} THEN "count" ELSE "process"
      /\ mRequestQueue' = rest \ {current'}
      /\ finished' = FinishedBy(ToAbort)
      /\ mRequestHash' = mRequestHash \ Reaped(ToAbort)
      /\ status' = [r \in Requests |->
           IF r \in Reaped(ToAbort) THEN "DELETE" ELSE IF r \in ToAbort THEN "ABORTED"
           ELSE IF r = current' THEN "INPROGRESS" ELSE status[r]]
      /\ worker = "next"
      /\ UNCHANGED <<flagAbort, flagAuto, mStatus, mPaused, mIdleThread, caller>>
  BY DEF ProcessNextRequest, Worker, Finish
<1> HIDE DEF rest
<1>3. rest \subseteq mRequestQueue /\ rest \cap ToAbort = {} /\ mRequestQueue \ rest = ToAbort
  BY <1>1 DEF rest
<1>4. mRequestQueue \subseteq Requests /\ None \notin Requests
  BY RequestsAssumption DEF QInv, TypeOK
<1>5. main \notin {"reap", "destroy", "gone"} /\ current = None /\ active = {}
  BY <1>2 DEF QInv, Positions, GaveUp
<1>6. \A r \in mRequestQueue : status[r] = "QUEUED" /\ r \in mRequestHash /\ finished[r] = 0
  BY <1>4, <1>5 DEF QInv, OneOwner, FinishedOnce
<1>7. main' = main /\ active' = active
  BY <1>2 DEF caller
<1>8. TypeOK'
  BY <1>1, <1>2, <1>3, <1>4 DEF QInv, TypeOK, FinishedBy, caller
<1>9. OneOwner'
  BY <1>1, <1>2, <1>3, <1>4, <1>5, <1>6, <1>7 DEF QInv, TypeOK, OneOwner
<1>10. FinishedOnce'
  BY <1>1, <1>2, <1>3, <1>4, <1>5, <1>6, <1>7
     DEF QInv, TypeOK, FinishedOnce, FinishedBy
<1>11. Positions'
  BY <1>1, <1>2, <1>3, <1>4, <1>5, <1>6, <1>7
     DEF QInv, TypeOK, Positions, Quitting, GaveUp, caller
<1> QED
  BY <1>8, <1>9, <1>10, <1>11 DEF QInv

\* What is known of the request the worker processes, when it is not deleted.
LEMMA Processing ==
    ASSUME QInv, worker = "process", status[current] # "DELETE"
    PROVE  /\ current \in Requests /\ main \notin {"destroy", "gone"}
           /\ status[current] = "INPROGRESS" /\ finished[current] = 0
           /\ current \in mRequestHash /\ current \notin mRequestQueue
           /\ None \notin Requests /\ mStatus # "STOPPED"
<1>1. current \in Requests /\ None \notin Requests
  BY RequestsAssumption DEF QInv, TypeOK, Positions
<1>2. main \notin {"destroy", "gone"}
  BY <1>1 DEF QInv, Positions
<1> QED
  BY <1>1, <1>2 DEF QInv, OneOwner, FinishedOnce, Positions

LEMMA CompleteKeeps ==
    ASSUME QInv, Complete
    PROVE  QInv'
<1>1. /\ worker = "process" /\ worker' = "count" /\ status[current] # "DELETE"
      /\ finished' = FinishedBy({current})
      /\ mRequestHash' = mRequestHash \ Reaped({current})
      /\ status' = [status EXCEPT ![current] =
                      IF current \in flagAuto THEN "DELETE" ELSE "COMPLETE"]
      /\ current' = None
      /\ UNCHANGED <<flagAbort, flagAuto, mRequestQueue, mStatus, mPaused, mIdleThread>>
      /\ UNCHANGED <<main, target, waspaused, timedOut, active>>
  BY DEF Complete, Worker, Finish, caller
<1>2. /\ current \in Requests /\ main \notin {"destroy", "gone"}
      /\ status[current] = "INPROGRESS" /\ finished[current] = 0
      /\ current \in mRequestHash /\ current \notin mRequestQueue
      /\ None \notin Requests /\ mStatus # "STOPPED"
  BY <1>1, Processing
<1>3. Reaped({current}) = IF current \in flagAuto THEN {current} ELSE {}
  BY DEF Reaped
<1>4. TypeOK'
  BY <1>1, <1>2 DEF QInv, TypeOK, FinishedBy
<1>5. OneOwner'
  BY <1>1, <1>2, <1>3 DEF QInv, TypeOK, OneOwner
<1>6. FinishedOnce'
  BY <1>1, <1>2 DEF QInv, TypeOK, FinishedOnce, FinishedBy, Positions
<1>7. Positions'
  BY <1>1, <1>2 DEF QInv, TypeOK, Positions, Quitting, GaveUp
<1> QED
  BY <1>4, <1>5, <1>6, <1>7 DEF QInv

LEMMA RequeueKeeps ==
    ASSUME QInv, Requeue
    PROVE  QInv'
<1>1. /\ worker = "process" /\ worker' = "count" /\ status[current] # "DELETE"
      /\ status' = [status EXCEPT ![current] = "QUEUED"]
      /\ mRequestQueue' = mRequestQueue \cup {current}
      /\ current' = None
      /\ UNCHANGED <<flagAbort, flagAuto, finished, mRequestHash, mStatus, mPaused, mIdleThread>>
      /\ UNCHANGED <<main, target, waspaused, timedOut, active>>
  BY DEF Requeue, Requeued, Worker, caller
<1>2. /\ current \in Requests /\ main \notin {"destroy", "gone"}
      /\ status[current] = "INPROGRESS" /\ finished[current] = 0
      /\ current \in mRequestHash /\ current \notin mRequestQueue
      /\ None \notin Requests /\ mStatus # "STOPPED"
  BY <1>1, Processing
<1>3. TypeOK'
  BY <1>1, <1>2 DEF QInv, TypeOK
<1>4. OneOwner'
  BY <1>1, <1>2 DEF QInv, TypeOK, OneOwner
<1>5. FinishedOnce'
  BY <1>1, <1>2 DEF QInv, TypeOK, FinishedOnce
<1>6. Positions'
  BY <1>1, <1>2 DEF QInv, TypeOK, Positions, Quitting, GaveUp
<1> QED
  BY <1>3, <1>4, <1>5, <1>6 DEF QInv

----------------------------------------------------------------------------
\* A signal moves a worker that waits, and no other.
LEMMA Signal ==
    ASSUME QInv, NEW paused
    PROVE  \A w \in {Woken(paused), Broadcast} :
             w = worker \/ (worker = "waiting" /\ w = "check")
BY DEF Woken, Broadcast

\* The calls that do not touch the requests.
LEMMA CallsMove ==
    ASSUME QInv, IncQueue \/ Pause \/ Update \/ Unpause \/ NothingPending
                 \/ SetQuitting \/ UnpauseToQuit \/ StopAwaiting
    PROVE  QInv'
<1>1. UNCHANGED <<requests, current, target, waspaused, active, mIdleThread>>
  BY DEF IncQueue, Pause, Update, Unpause, NothingPending, SetQuitting,
         UnpauseToQuit, StopAwaiting, thread
<1>2. worker' = worker \/ (worker = "waiting" /\ worker' = "check")
  BY Signal DEF IncQueue, Pause, Update, Unpause, NothingPending, SetQuitting,
         UnpauseToQuit, StopAwaiting, unpause, thread
<1>3. mPaused' \in BOOLEAN
  BY DEF QInv, TypeOK, IncQueue, Pause, Update, Unpause, NothingPending,
         SetQuitting, UnpauseToQuit, StopAwaiting, unpause, thread
<1>4. \/ /\ main \in {"free", "wake", "unpause", "update"}
         /\ main' \in {"free", "unpause", "find"}
         /\ mStatus' = mStatus /\ timedOut' = timedOut
         /\ main' = "find" => target # None
      \/ main = "free" /\ main' = "quit" /\ mStatus' = "QUITTING" /\ timedOut' = timedOut
      \/ main = "quit" /\ main' = "await" /\ mStatus' = mStatus /\ timedOut' = timedOut
      \/ /\ main = "await" /\ main' = "reap" /\ mStatus' = mStatus
         /\ timedOut' = (mStatus # "STOPPED") /\ worker' = worker
         /\ mStatus = "STOPPED" \/ worker \in {"waiting", "process"}
  <2>1. CASE IncQueue \/ Pause
    BY <2>1 DEF IncQueue, Pause, Main
  <2>2. CASE Update \/ Unpause \/ NothingPending
    BY <2>2 DEF QInv, Positions, Update, Unpause, NothingPending, Main, thread
  <2>3. CASE SetQuitting \/ UnpauseToQuit
    BY <2>3 DEF SetQuitting, UnpauseToQuit, Main
  <2>4. CASE StopAwaiting
    BY <2>4 DEF StopAwaiting, Main, thread
  <2> QED
    BY <2>1, <2>2, <2>3, <2>4
<1>5. OneOwner' /\ FinishedOnce'
  BY <1>1, <1>4, SameRequests
<1>6. TypeOK'
  <2>1. timedOut' \in BOOLEAN
    BY <1>4 DEF QInv, TypeOK
  <2> QED
    BY <1>1, <1>2, <1>3, <1>4, <2>1 DEF QInv, TypeOK, requests
<1>7. (GaveUp /\ ~timedOut => mStatus = "STOPPED")'
  BY <1>4 DEF QInv, Positions, GaveUp
<1>8. ((mStatus = "STOPPED") = (worker = "stopped"))'
  BY <1>2, <1>4 DEF QInv, Positions, Quitting
<1>9. Positions'
  BY <1>1, <1>2, <1>4, <1>7, <1>8 DEF QInv, TypeOK, Positions, Quitting, GaveUp, requests
<1> QED
  BY <1>5, <1>6, <1>9 DEF QInv

LEMMA AddRequestKeeps ==
    ASSUME QInv, NEW r \in Requests, AddRequest(r)
    PROVE  QInv'
<1>1. /\ main = "free" /\ main' = "wake" /\ status[r] = "NEW"
      /\ status' = [status EXCEPT ![r] = "QUEUED"]
      /\ mRequestQueue' = mRequestQueue \cup {r}
      /\ mRequestHash' = mRequestHash \cup {r}
      /\ UNCHANGED <<flagAbort, flagAuto, finished, mStatus, mPaused, mIdleThread,
                     worker, current, target, waspaused, timedOut, active>>
  BY DEF AddRequest, Main, thread
<1>2. TypeOK'
  BY <1>1 DEF QInv, TypeOK
<1>3. OneOwner'
  BY <1>1 DEF QInv, TypeOK, OneOwner
<1>4. FinishedOnce'
  BY <1>1 DEF QInv, TypeOK, FinishedOnce
<1>5. Positions'
  BY <1>1 DEF QInv, TypeOK, Positions, Quitting, GaveUp
<1> QED
  BY <1>2, <1>3, <1>4, <1>5 DEF QInv

LEMMA AbortRequestKeeps ==
    ASSUME QInv, NEW r \in Requests, NEW autocomplete \in BOOLEAN,
           AbortRequest(r, autocomplete)
    PROVE  QInv'
<1>1. /\ main = "free" /\ main' = "free"
      /\ flagAbort' = flagAbort \cup {r} /\ flagAuto' \subseteq flagAuto \cup {r}
      /\ UNCHANGED <<status, finished, mRequestQueue, mRequestHash, mStatus, mPaused,
                     mIdleThread, worker, current, target, waspaused, timedOut, active>>
  BY DEF AbortRequest, Main, thread
<1>2. TypeOK'
  BY <1>1 DEF QInv, TypeOK
<1>3. OneOwner' /\ FinishedOnce'
  BY <1>1 DEF QInv, OneOwner, FinishedOnce
<1>4. Positions'
  BY <1>1 DEF QInv, Positions, Quitting, GaveUp
<1> QED
  BY <1>2, <1>3, <1>4 DEF QInv

LEMMA CompleteRequestKeeps ==
    ASSUME QInv, NEW r \in Requests, CompleteRequest(r)
    PROVE  QInv'
<1>1. /\ main = "free" /\ main' = "free" /\ status[r] \in {"COMPLETE", "ABORTED"}
      /\ status' = [status EXCEPT ![r] = "DELETE"]
      /\ mRequestHash' = mRequestHash \ {r}
      /\ UNCHANGED <<flagAbort, flagAuto, finished, mRequestQueue, mStatus, mPaused,
                     mIdleThread, worker, current, target, waspaused, timedOut, active>>
  BY DEF CompleteRequest, Over, Main, thread
<1>2. TypeOK'
  BY <1>1 DEF QInv, TypeOK
<1>3. OneOwner'
  BY <1>1 DEF QInv, TypeOK, OneOwner
<1>4. FinishedOnce'
  BY <1>1 DEF QInv, TypeOK, FinishedOnce, Positions
<1>5. Positions'
  BY <1>1 DEF QInv, TypeOK, Positions, Quitting, GaveUp
<1> QED
  BY <1>2, <1>3, <1>4, <1>5 DEF QInv

LEMMA WaitForResultKeeps ==
    ASSUME QInv, NEW r \in Requests, WaitForResult(r)
    PROVE  QInv'
<1>1. /\ main = "free" /\ main' = "update" /\ status[r] # "NEW"
      /\ target' = r /\ waspaused' = mPaused
      /\ UNCHANGED <<status, flagAbort, flagAuto, finished, mRequestQueue, mRequestHash,
                     mStatus, mPaused, mIdleThread, worker, current, timedOut, active>>
  BY DEF WaitForResult, Main, requests, thread
<1>2. r # None
  BY RequestsAssumption
<1>3. TypeOK'
  BY <1>1 DEF QInv, TypeOK
<1>4. OneOwner' /\ FinishedOnce'
  BY <1>1 DEF QInv, OneOwner, FinishedOnce
<1>5. Positions'
  BY <1>1, <1>2 DEF QInv, Positions, Quitting, GaveUp
<1> QED
  BY <1>3, <1>4, <1>5 DEF QInv

\* The request that waitForResult found is either complete or deleted before.
LEMMA FindResultKeeps ==
    ASSUME QInv, FindResult
    PROVE  QInv'
<1>1. UNCHANGED <<flagAbort, flagAuto, finished, mRequestQueue, mStatus, mIdleThread,
                  worker, current, waspaused, timedOut, active>>
  BY DEF FindResult, requests
<1>2. CASE target \in mRequestHash /\ status[target] # "COMPLETE"
  <2>1. /\ main = "find" /\ main' = "update"
        /\ UNCHANGED <<status, mRequestHash, target, mPaused>>
    BY <1>2 DEF FindResult, requests
  <2>2. TypeOK'
    BY <1>1, <2>1 DEF QInv, TypeOK
  <2>3. OneOwner' /\ FinishedOnce'
    BY <1>1, <2>1 DEF QInv, OneOwner, FinishedOnce
  <2>4. Positions'
    BY <1>1, <2>1 DEF QInv, Positions, Quitting, GaveUp
  <2> QED
    BY <2>2, <2>3, <2>4 DEF QInv
<1>3. CASE ~(target \in mRequestHash /\ status[target] # "COMPLETE")
  <2>1. /\ main = "find" /\ main' = "free" /\ target' = None
        /\ mPaused' = (mPaused \/ waspaused)
        /\ mRequestHash' = mRequestHash \ {target}
        /\ status' = [status EXCEPT ![target] = "DELETE"]
    BY <1>3 DEF FindResult
  <2>2. target \in Requests /\ status[target] \in {"COMPLETE", "DELETE"}
    BY <1>3, <2>1 DEF QInv, TypeOK, Positions, OneOwner
  <2>3. mPaused' \in BOOLEAN
    BY <2>1
  <2>4. TypeOK'
    BY <1>1, <2>1, <2>2, <2>3 DEF QInv, TypeOK
  <2>5. OneOwner'
    BY <1>1, <2>1, <2>2 DEF QInv, TypeOK, OneOwner
  <2>6. FinishedOnce'
    BY <1>1, <2>1, <2>2 DEF QInv, TypeOK, FinishedOnce, Positions
  <2>7. Positions'
    BY <1>1, <2>1, <2>2 DEF QInv, TypeOK, Positions, Quitting, GaveUp
  <2> QED
    BY <2>4, <2>5, <2>6, <2>7 DEF QInv
<1> QED
  BY <1>2, <1>3

LEMMA DeleteRequestsKeeps ==
    ASSUME QInv, DeleteRequests
    PROVE  QInv'
<1>1. /\ main = "reap" /\ main' = "destroy" /\ mRequestHash' = {}
      /\ status' = [r \in Requests |-> IF r \in mRequestHash THEN "DELETE" ELSE status[r]]
      /\ active' = {r \in mRequestHash : status[r] \in {"QUEUED", "INPROGRESS"}}
      /\ UNCHANGED <<flagAbort, flagAuto, finished, mRequestQueue, mStatus, mPaused,
                     mIdleThread, worker, current, target, waspaused, timedOut>>
  BY DEF DeleteRequests, Main, thread
<1>2. \A r \in Requests : r \notin mRequestHash => status[r] \in {"NEW", "DELETE"}
  BY <1>1 DEF QInv, OneOwner
<1>3. TypeOK'
  BY <1>1 DEF QInv, TypeOK
<1>4. OneOwner'
  BY <1>1 DEF OneOwner
<1>7. /\ active = {} /\ mRequestHash \subseteq Requests
      /\ \A r \in mRequestHash : status[r] \notin {"NEW", "DELETE"}
  BY <1>1 DEF QInv, TypeOK, Positions, OneOwner
<1>5. FinishedOnce'
  BY <1>1, <1>2, <1>7 DEF QInv, TypeOK, FinishedOnce
<1>6. Positions'
  <2>1. \A r \in Requests : status[r] # "NEW" => status'[r] # "NEW"
    BY <1>1
  <2> QED
    BY <1>1, <1>2, <2>1 DEF QInv, TypeOK, Positions, Quitting, GaveUp
<1> QED
  BY <1>3, <1>4, <1>5, <1>6 DEF QInv

LEMMA DestroyKeeps ==
    ASSUME QInv, Destroy \/ Cancel
    PROVE  QInv'
<1>1. /\ main \in {"destroy", "gone"} /\ main' = "gone"
      /\ UNCHANGED <<requests, mPaused, mIdleThread, current, target, waspaused, timedOut, active>>
  BY DEF Destroy, Cancel, Main, caller
<1>2. \/ /\ worker' = worker \/ (worker = "waiting" /\ worker' = "check")
         /\ mStatus' = mStatus
      \/ worker = "process" /\ worker' = "stopped" /\ mStatus' = "STOPPED"
  BY Signal DEF Destroy, Cancel
<1>3. OneOwner' /\ FinishedOnce'
  BY <1>1, SameRequests
<1>4. TypeOK'
  BY <1>1, <1>2 DEF QInv, TypeOK, requests
<1>5. Positions'
  BY <1>1, <1>2 DEF QInv, TypeOK, Positions, Quitting, GaveUp, requests
<1> QED
  BY <1>3, <1>4, <1>5 DEF QInv

----------------------------------------------------------------------------
LEMMA QNext == QInv /\ [ThreadNext]_vars => QInv'
<1> SUFFICES ASSUME QInv, [ThreadNext]_vars PROVE QInv'
  OBVIOUS
<1>1. CASE WorkerStep \/ SpuriousWake
  BY <1>1, WorkerMoves, ProcessNextRequestKeeps, CompleteKeeps, RequeueKeeps
     DEF WorkerStep
<1>2. CASE Calling
  BY <1>2, CallsMove, FindResultKeeps, DeleteRequestsKeeps, DestroyKeeps DEF Calling
<1>3. CASE Call
  <2>1. ASSUME NEW r \in Requests,
               AddRequest(r) \/ CompleteRequest(r) \/ WaitForResult(r)
        PROVE  QInv'
    BY <2>1, AddRequestKeeps, CompleteRequestKeeps, WaitForResultKeeps
  <2>2. ASSUME NEW r \in Requests, NEW autocomplete \in BOOLEAN,
               AbortRequest(r, autocomplete)
        PROVE  QInv'
    BY <2>2, AbortRequestKeeps
  <2>3. CASE Update \/ Pause \/ SetQuitting
    BY <2>3, CallsMove
  <2> QED
    BY <1>3, <2>1, <2>2, <2>3 DEF Call
<1>4. CASE UNCHANGED vars
  BY <1>4 DEF vars, requests, thread, caller, QInv, TypeOK, OneOwner, FinishedOnce,
              Positions, Quitting, GaveUp
<1> QED
  BY <1>1, <1>2, <1>3, <1>4 DEF ThreadNext

LEMMA AlwaysQInv == Spec => []QInv
BY QInit, QNext, PTL DEF Spec

\* Every reachable state is of the type of the class's members.
THEOREM TypeCorrect == Spec => []TypeOK
<1>1. QInv => TypeOK
  BY DEF QInv
<1> QED
  BY AlwaysQInv, <1>1, PTL

\* A request is with the queue, the worker or the client, whatever the two
\* threads do: the assertions of processNextRequest, completeRequest and
\* deleteRequest hold.
THEOREM Owned == Spec => []OneOwner
<1>1. QInv => OneOwner
  BY DEF QInv
<1> QED
  BY AlwaysQInv, <1>1, PTL

\* finishRequest is called once for each request that comes to an end, and not
\* for the others, which only shutdown deletes.
THEOREM Finished == Spec => []FinishedOnce
<1>1. QInv => FinishedOnce
  BY DEF QInv
<1> QED
  BY AlwaysQInv, <1>1, PTL

\* No thread comes to a deleted request, on the queue or in the table, and
\* the one being processed is not deleted, unless shutdown gave up waiting for
\* processRequest.
THEOREM NotUsedAfterDelete == Spec => []NoUseAfterDelete
<1>1. QInv => NoUseAfterDelete
  <2> SUFFICES ASSUME QInv PROVE NoUseAfterDelete
    OBVIOUS
  <2>1. ASSUME worker = "process", status[current] = "DELETE" PROVE timedOut
    <3>1. current \in Requests
      BY <2>1 DEF QInv, TypeOK, Positions
    <3>2. GaveUp
      BY <2>1, <3>1 DEF QInv, OneOwner, GaveUp
    <3> QED
      BY <2>1, <3>2 DEF QInv, Positions
  <2>2. ASSUME worker = "next", NEW r \in mRequestQueue PROVE status[r] # "DELETE"
    <3>1. main \notin {"destroy", "gone"}
      BY <2>2 DEF QInv, Positions, GaveUp
    <3> QED
      BY <2>2, <3>1 DEF QInv, TypeOK, OneOwner
  <2>3. ASSUME NEW r \in mRequestHash PROVE status[r] # "DELETE"
    BY DEF QInv, TypeOK, Positions, OneOwner
  <2> QED
    BY <2>1, <2>2, <2>3 DEF NoUseAfterDelete
<1> QED
  BY AlwaysQInv, <1>1, PTL

----------------------------------------------------------------------------
\* The end of the worker, the part of QuitStops that is not about fairness.

\* Once shutdown has stopped to wait, the worker is not about to sleep, and
\* after the destructor's broadcast it does not sleep either.
NotAsleep ==
    /\ GaveUp => worker # "unlocked"
    /\ main = "gone" => worker # "waiting"

\* How many steps a worker that is told to quit has before it at most.
StepsLeft ==
    [stopped |-> 0, end |-> 1, top |-> 2, check |-> 3, waiting |-> 4, idle |-> 4,
     count |-> 5, process |-> 6, next |-> 7, unlocked |-> 8][worker]

\* What the worker does of itself once shutdown has stopped to wait.
LEMMA WorkerWhenGivenUp ==
    ASSUME QInv, NotAsleep, GaveUp, WorkerStep \/ SpuriousWake
    PROVE  /\ worker' \notin {"unlocked", "waiting"}
           /\ StepsLeft' < StepsLeft /\ UNCHANGED main
<1>1. mStatus # "RUNNING" /\ worker \notin {"next", "unlocked"}
  BY DEF QInv, Positions, Quitting, GaveUp, NotAsleep
<1>2. mStatus = "STOPPED" <=> worker = "stopped"
  BY DEF QInv, Positions
<1>3. mStatus \in {"QUITTING", "STOPPED"}
  BY <1>1 DEF QInv, TypeOK
<1>4. CASE CheckPause \/ WaitForWake \/ SpuriousWake
  BY <1>1, <1>4 DEF CheckPause, WaitForWake, SpuriousWake, Worker, ShouldSleep,
                    StepsLeft, caller
<1>5. CASE Top \/ End
  BY <1>2, <1>3, <1>5 DEF Top, End, Worker, StepsLeft, caller
<1>6. CASE ProcessNextRequest
  BY <1>1, <1>6 DEF ProcessNextRequest, Worker
<1>7. CASE Complete \/ Requeue
  BY <1>7 DEF Complete, Requeue, Worker, StepsLeft, caller
<1>8. CASE CountPending \/ SetIdle
  BY <1>8 DEF CountPending, SetIdle, Worker, StepsLeft, caller
<1> QED
  BY <1>4, <1>5, <1>6, <1>7, <1>8 DEF WorkerStep

\* What the main thread does in shutdown from there on.
LEMMA CallsWhenGivenUp ==
    ASSUME QInv, NotAsleep, GaveUp, Calling \/ Call
    PROVE  /\ worker' # "unlocked" /\ (main' = "gone" => worker' # "waiting")
           /\ main = "gone" => StepsLeft' < StepsLeft
<1>1. DeleteRequests \/ Destroy \/ Cancel
  BY DEF GaveUp, Calling, Call, Main, IncQueue, Unpause, Update, NothingPending,
         FindResult, UnpauseToQuit, StopAwaiting, AddRequest, CompleteRequest,
         WaitForResult, AbortRequest, Pause, SetQuitting
<1>2. CASE DeleteRequests
  BY <1>2 DEF DeleteRequests, Main, NotAsleep, thread
<1>3. CASE Destroy
  BY <1>3 DEF Destroy, Main, Broadcast, NotAsleep
<1>4. CASE Cancel
  BY <1>4 DEF Cancel, StepsLeft
<1> QED
  BY <1>1, <1>2, <1>3, <1>4

LEMMA NotAsleepNext == QInv /\ NotAsleep /\ [ThreadNext]_vars => NotAsleep'
<1> SUFFICES ASSUME QInv, NotAsleep, [ThreadNext]_vars PROVE NotAsleep'
  OBVIOUS
<1>1. CASE UNCHANGED vars
  BY <1>1 DEF vars, thread, caller, NotAsleep, GaveUp
<1>2. CASE ThreadNext /\ GaveUp
  BY <1>2, WorkerWhenGivenUp, CallsWhenGivenUp DEF ThreadNext, NotAsleep
<1>3. CASE ThreadNext /\ ~GaveUp
  <2>1. GaveUp' => StopAwaiting
    BY <1>3 DEF GaveUp, ThreadNext, WorkerStep, CheckPause, WaitForWake, SpuriousWake,
           Top, End, ProcessNextRequest, Complete, Requeue, CountPending, SetIdle,
           Worker, caller, Calling, Call, Main, IncQueue, Unpause, Update,
           NothingPending, FindResult, UnpauseToQuit, DeleteRequests, Destroy, Cancel,
           AddRequest, CompleteRequest, WaitForResult, AbortRequest, Pause, SetQuitting
  <2>2. StopAwaiting => worker' # "unlocked" /\ main' = "reap"
    BY DEF StopAwaiting, Main, thread, QInv, Positions
  <2> QED
    BY <2>1, <2>2 DEF NotAsleep, GaveUp
<1> QED
  BY <1>1, <1>2, <1>3

\* ~LLThread relies on its broadcast: shutdown's two signals may be lost
\* between the worker's test and its wait, this one cannot, as the worker has
\* been waiting for ten seconds or is in processRequest, and does not go to
\* sleep again.
THEOREM NeverLeftAsleep == Spec => []NotAsleep
<1>1. Init => NotAsleep
  BY DEF Init, NotAsleep, GaveUp
<1> QED
  BY <1>1, AlwaysQInv, NotAsleepNext, PTL DEF Spec

\* After that broadcast every step there is, of either thread, brings the
\* worker nearer to its end: there are six at most, and QuitStops needs no
\* more than that they are taken.
THEOREM SixStepsToTheEnd ==
    Spec => /\ [](main = "gone" => StepsLeft \in 0 .. 6)
            /\ [][main = "gone" => StepsLeft' < StepsLeft]_vars
<1>1. QInv /\ NotAsleep => (main = "gone" => StepsLeft \in 0 .. 6)
  BY DEF QInv, TypeOK, Positions, NotAsleep, GaveUp, StepsLeft
<1>2. QInv /\ NotAsleep /\ [ThreadNext]_vars
        => [main = "gone" => StepsLeft' < StepsLeft]_vars
  BY WorkerWhenGivenUp, CallsWhenGivenUp DEF ThreadNext, GaveUp
<1> QED
  BY <1>1, <1>2, AlwaysQInv, NeverLeftAsleep, PTL DEF Spec
=============================================================================
