------------------------------- MODULE Kernel -------------------------------
(***************************************************************************)
(* The part of the FreeRTOS kernel the firmware runs on: the ready list of *)
(* the one priority all its tasks share, binary semaphores with the lock   *)
(* that keeps interrupts off their waiting lists, the suspended scheduler, *)
(* delays, and the timer service task above them all.                      *)
(*                                                                         *)
(* configUSE_PREEMPTION is 1 and configUSE_TIME_SLICING is 0: a task loses *)
(* the processor to its equals only when it blocks, or after the timer     *)
(* service task has run.  An action is one stretch of code an interrupt    *)
(* cannot divide, or need not; interrupts come between any two of them.    *)
(***************************************************************************)
EXTENDS Integers, Sequences, FiniteSets, SequencesExt

CONSTANTS
  Tasks,        \* the tasks of priority 0, the idle task among them
  Idle,         \* the idle task
  Daemon,       \* the timer service task, of the highest priority
  End,          \* the end marker of a list
  Sems,         \* the semaphores
  NoSem,        \* in the place of a semaphore when there is none
  TimerPeriod   \* ticks of the one software timer, spiTimer (5)

ASSUME TaskAssumption ==
  /\ Idle \in Tasks
  /\ Daemon \notin Tasks
  /\ End \notin Tasks \cup {Daemon}
  /\ IsFiniteSet(Tasks)

ASSUME SemAssumption == NoSem \notin Sems
ASSUME PeriodAssumption == TimerPeriod \in Nat \ {0}

VARIABLES
  cur,          \* pxCurrentTCB
  ring,         \* pxReadyTasksLists[0] from pxIndex on, with its end marker
  daemonReady,  \* the timer service task is in its own ready list
  suspended,    \* uxSchedulerSuspended
  tickPended,   \* xPendedTicks: one at most, see Tick
  pending,      \* xPendingReadyList
  yieldDue,     \* xYieldPendings[0]
  delayed,      \* pxDelayedTaskList: [task, left], left in ticks
  sem,          \* [count, waiting, txLock] of each semaphore
  call,         \* the call each task is in: [at, of]
  timer,        \* spiTimer: "dormant", "active" or "expired"
  command       \* xTimerQueue holds a command to start it

readyVars == <<cur, ring, daemonReady, yieldDue>>
tickVars == <<suspended, tickPended, delayed, timer>>
kernelVars == <<readyVars, tickVars, pending, sem, call, command>>

Unlocked == -1

\* The handle of a semaphore is null until it is created.
Absent == [count |-> -1, waiting |-> <<>>, txLock |-> Unlocked]
Created(n) == [Absent EXCEPT !.count = n]

\* The tasks of a list of delayed entries.
Names(d) == [i \in DOMAIN d |-> d[i].task]

\* The first position of list in S, or the one behind its end.
FirstIn(S, list) == IF S = {} THEN Len(list) + 1 ELSE Min(S)

-----------------------------------------------------------------------------
(***************************************************************************)
(* Lists.  pxIndex is at the task that runs or ran last; a new entry goes  *)
(* right before it and so has the last turn.                               *)
(***************************************************************************)
InsertEnd(r, t) == Append(r, t)

\* Removing the entry pxIndex is at moves pxIndex back.
ListRemove(r, t) ==
  IF Head(r) = t THEN <<r[Len(r)]>> \o SubSeq(r, 2, Len(r) - 1) ELSE RemoveFirst(r, t)

Rotate(r) == Append(Tail(r), Head(r))

\* listGET_OWNER_OF_NEXT_ENTRY skips the end marker.
Advance(r) == IF Head(Rotate(r)) = End THEN Rotate(Rotate(r)) ELSE Rotate(r)

\* vListInsert: by the tick to wake at, behind those of the same tick.
InsertDelayed(d, t, n) ==
  InsertAt(d, FirstIn({i \in DOMAIN d : d[i].left > n}, d), [task |-> t, left |-> n])

-----------------------------------------------------------------------------
(***************************************************************************)
(* vTaskSwitchContext, given the ready lists the step leaves behind.       *)
(***************************************************************************)
SwitchFrom(r, d) ==
  /\ yieldDue' = FALSE
  /\ daemonReady' = d
  /\ IF d THEN cur' = Daemon /\ ring' = r
          ELSE ring' = Advance(r) /\ cur' = Head(Advance(r))

GoOn(r, d) ==
  /\ daemonReady' = d
  /\ ring' = r
  /\ UNCHANGED <<cur, yieldDue>>

(***************************************************************************)
(* xTaskIncrementTick: who is ready once another tick has passed.  A task  *)
(* of priority 0 waits for its turn, the timer service task does not.      *)
(***************************************************************************)
Ticked == [i \in DOMAIN delayed |-> [delayed[i] EXCEPT !.left = @ - 1]]

\* The loop ends at the first entry that is not due.
Remaining == FirstIn({i \in DOMAIN Ticked : Ticked[i].left > 0}, Ticked)
Expired == SubSeq(Names(delayed), 1, Remaining - 1)
Woken == RemoveFirst(Expired, Daemon)
TimerExpires == Daemon \in ToSet(Expired)

\* r is the ready list the tick finds; sleeps: the running task has left it.
IncrementTick(r, sleeps) ==
  /\ delayed' = SubSeq(Ticked, Remaining, Len(Ticked))
  /\ timer' = IF TimerExpires THEN "expired" ELSE timer
  /\ IF sleeps \/ yieldDue \/ TimerExpires
       THEN SwitchFrom(r \o Woken, daemonReady \/ TimerExpires)
       ELSE GoOn(r \o Woken, daemonReady)

\* A tick that finds the scheduler suspended is counted and made up for; the
\* scheduler is never suspended for as long as two of them.
Tick ==
  /\ IF suspended
       THEN /\ ~ tickPended
            /\ tickPended' = TRUE
            /\ UNCHANGED <<readyVars, delayed, timer>>
       ELSE IncrementTick(ring, FALSE) /\ UNCHANGED tickPended
  /\ UNCHANGED <<suspended, pending, sem, call, command>>

-----------------------------------------------------------------------------
(***************************************************************************)
(* Giving a semaphore, by the running task (xQueueGenericSend) and by an   *)
(* interrupt (xQueueGiveFromISR).  One given twice is given once.  The     *)
(* first task in the queue becomes ready; it still has to take the         *)
(* semaphore when its turn comes.                                          *)
(***************************************************************************)
\* xTaskRemoveFromEventList
Wake(s) ==
  /\ sem' = [sem EXCEPT ![s].count = 1,
                        ![s].waiting = IF @ = <<>> THEN @ ELSE Tail(@)]
  /\ IF sem[s].waiting = <<>>
       THEN UNCHANGED <<ring, pending>>
       ELSE LET t == Head(sem[s].waiting) IN
            IF suspended THEN pending' = Append(pending, t) /\ UNCHANGED ring
                         ELSE ring' = InsertEnd(ring, t) /\ UNCHANGED pending

Give(s) ==
  IF sem[s].count = 0 THEN Wake(s) ELSE UNCHANGED <<sem, ring, pending>>

\* Faulty variant: an interrupt leaves no note that it found the queue locked.
CountOnly(s) == sem' = [sem EXCEPT ![s].count = 1]

\* prvIncrementQueueTxLock
CountLocked(s) ==
  sem' = [sem EXCEPT ![s].count = 1,
                     ![s].txLock = IF @ < Cardinality(Tasks) THEN @ + 1 ELSE @]

GiveFromISR(s) ==
  /\ IF sem[s].txLock = Unlocked \/ sem[s].count = 1
       THEN Give(s)
       ELSE CountLocked(s) /\ UNCHANGED <<ring, pending>>
  /\ UNCHANGED <<cur, daemonReady, yieldDue, tickVars, call, command>>

-----------------------------------------------------------------------------
(***************************************************************************)
(* Calls of the running task t.  xQueueSemaphoreTake without a timeout     *)
(* returns with the semaphore.  It is interrupted at three places: after a *)
(* first look at the count; with the queue locked, the scheduler suspended *)
(* and the count looked at again; and asleep, from where it starts again.  *)
(* Interrupts elsewhere in it come to the same as one at these places.     *)
(***************************************************************************)
At(t, where) == cur = t /\ call[t].at = where
Moves(t, where) == call' = [call EXCEPT ![t].at = where]
InNoCall(t) == At(t, "none")

Take(t, s) ==
  /\ IF sem[s].count > 0
       THEN /\ sem' = [sem EXCEPT ![s].count = @ - 1]
            /\ call' = [call EXCEPT ![t] = [at |-> "none", of |-> NoSem]]
       ELSE /\ call' = [call EXCEPT ![t] = [at |-> "lock", of |-> s]]
            /\ UNCHANGED sem
  /\ UNCHANGED <<readyVars, tickVars, pending, command>>

\* Faulty variant: the count is not read again once the queue is locked.
AssumeEmpty(s) == TRUE

\* prvIsQueueEmpty
IsEmpty(s) == sem[s].count = 0

\* vTaskSuspendAll and prvLockQueue, undone at once if the count has changed.
LockQueue(t) ==
  /\ At(t, "lock")
  /\ IF IsEmpty(call[t].of)
       THEN /\ suspended' = TRUE
            /\ sem' = [sem EXCEPT ![call[t].of].txLock = 0]
            /\ Moves(t, "place")
            /\ UNCHANGED readyVars
       ELSE /\ IF yieldDue THEN SwitchFrom(ring, daemonReady) ELSE UNCHANGED readyVars
            /\ Moves(t, "retry")
            /\ UNCHANGED <<suspended, sem>>
  /\ UNCHANGED <<tickPended, delayed, timer, pending, command>>

CatchUp(r) ==
  \/ tickPended /\ IncrementTick(r, TRUE)
  \/ ~ tickPended /\ SwitchFrom(r, daemonReady) /\ UNCHANGED <<delayed, timer>>

\* Faulty variant: who was woken meanwhile is made ready, but stays pending.
ResumeAgain(r) ==
  CatchUp(r) /\ suspended' = FALSE /\ tickPended' = FALSE /\ UNCHANGED pending

\* xTaskResumeAll, given the ready list r it leaves, and portYIELD.
ResumeAll(r) ==
  CatchUp(r) /\ suspended' = FALSE /\ tickPended' = FALSE /\ pending' = <<>>

\* vTaskPlaceOnEventList, all tasks having the same priority, and
\* prvUnlockQueue: a task leaves the queue for each time it was given.
Place(t) ==
  LET s == call[t].of
      w == Append(sem[s].waiting, t)
      n == Min({sem[s].txLock, Len(w)})
  IN  /\ At(t, "place")
      /\ sem' = [sem EXCEPT ![s].txLock = Unlocked, ![s].waiting = SubSeq(w, n + 1, Len(w))]
      /\ ResumeAll(ListRemove(ring, t) \o pending \o SubSeq(w, 1, n))
      /\ Moves(t, "retry")
      /\ UNCHANGED command

\* Faulty variant: who has been woken does not look at the count again.
RetryAsOwner(t) ==
  /\ At(t, "retry")
  /\ sem' = [sem EXCEPT ![call[t].of].count = 0]
  /\ call' = [call EXCEPT ![t] = [at |-> "none", of |-> NoSem]]
  /\ UNCHANGED <<readyVars, tickVars, pending, command>>

Retry(t) == At(t, "retry") /\ Take(t, call[t].of)

\* vTaskDelay leaves the ready list with the scheduler suspended.
Delay(t, n) ==
  /\ delayed' = InsertDelayed(delayed, t, n)
  /\ ring' = ListRemove(ring, t)
  /\ suspended' = TRUE
  /\ Moves(t, "resume")
  /\ UNCHANGED <<cur, daemonReady, yieldDue, tickPended, timer, pending, sem, command>>

Resume(t) ==
  /\ At(t, "resume")
  /\ ResumeAll(ring \o pending)
  /\ Moves(t, "none")
  /\ UNCHANGED <<sem, command>>

\* xTaskCreateStatic for each task of ts in turn, while the scheduler runs.
Create(ts) == ring' = ring \o ts

\* vTaskDelete of the running task.
Delete(t) ==
  /\ ring' = ListRemove(ring, t)
  /\ Moves(t, "yield")
  /\ UNCHANGED <<cur, daemonReady, yieldDue, tickVars, pending, sem, command>>

Yield(t) ==
  /\ At(t, "yield")
  /\ SwitchFrom(ring, daemonReady)
  /\ Moves(t, "none")
  /\ UNCHANGED <<tickVars, pending, sem, command>>

KernelStep(t) == LockQueue(t) \/ Place(t) \/ Retry(t) \/ Resume(t) \/ Yield(t)

\* prvIdleTask, with configIDLE_SHOULD_YIELD: two entries are the end and itself.
IdleYields ==
  /\ cur = Idle
  /\ Len(ring) > 2
  /\ SwitchFrom(ring, daemonReady)
  /\ UNCHANGED <<tickVars, pending, sem, call, command>>

-----------------------------------------------------------------------------
(***************************************************************************)
(* The timer service task.  xTimerStartFromISR, called with no place to    *)
(* report a woken task, leaves the switch to whoever comes next.           *)
(***************************************************************************)
StartTimer ==
  LET own == {i \in DOMAIN delayed : delayed[i].task = Daemon} IN
  /\ command' = TRUE
  /\ daemonReady' = TRUE
  /\ yieldDue' = TRUE
  /\ delayed' = IF own = {} THEN delayed ELSE RemoveAt(delayed, Min(own))

\* prvProcessExpiredTimer; the callback is the caller's.
Expire ==
  /\ cur = Daemon
  /\ timer = "expired"
  /\ timer' = "dormant"
  /\ UNCHANGED <<readyVars, suspended, tickPended, delayed, pending, sem, call, command>>

\* prvProcessReceivedCommands
StartCommand ==
  /\ cur = Daemon
  /\ timer # "expired"
  /\ command
  /\ command' = FALSE
  /\ timer' = "active"
  /\ UNCHANGED <<readyVars, suspended, tickPended, delayed, pending, sem, call>>

\* prvProcessTimerOrBlockTask
DaemonBlocks ==
  /\ cur = Daemon
  /\ timer # "expired"
  /\ ~ command
  /\ delayed' = IF timer = "active" THEN InsertDelayed(delayed, Daemon, TimerPeriod)
                                    ELSE delayed
  /\ SwitchFrom(ring, FALSE)
  /\ UNCHANGED <<suspended, tickPended, timer, pending, sem, call, command>>

\* vTaskStartScheduler, called with the one task t in the ready list: the
\* timer service task is created last and runs first.
KernelInit(t) ==
  /\ cur = Daemon
  /\ ring = <<End, t, Idle>>
  /\ daemonReady = TRUE
  /\ suspended = FALSE
  /\ tickPended = FALSE
  /\ pending = <<>>
  /\ yieldDue = FALSE
  /\ delayed = <<>>
  /\ sem = [s \in Sems |-> Absent]
  /\ call = [x \in Tasks |-> [at |-> "none", of |-> NoSem]]
  /\ timer = "dormant"
  /\ command = FALSE
=============================================================================
