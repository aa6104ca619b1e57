------------------------ MODULE LocationScreenProofs ------------------------
(***************************************************************************)
(* The safety of the location screen for any number of requests.            *)
(***************************************************************************)
EXTENDS LocationScreen, TLAPS

\* Every request leaves one task, which is waiting, running, posted or done.
Tasks ==
  /\ queue \in Nat /\ messages \in Nat /\ requests \in 1 .. Requests /\ shown \in 0 .. requests
  /\ worker \in {"idle", "wait", "post", "stop"}
  /\ queue + messages + (IF worker \in {"wait", "post"} THEN 1 ELSE 0) <= requests

Flags ==
  /\ screen \in {"open", "destroyed", "crashed"}
  /\ located \in BOOLEAN /\ started \in BOOLEAN
  /\ overlapped \in BOOLEAN /\ overtaken \in BOOLEAN

\* A screen that was left has no client and no task but the one that runs.
Left == screen = "destroyed" => ~started /\ queue = 0

\* What a task has announced is there to be shown, or the history tells.
Announcement ==
  ~overtaken =>
    /\ Announced => screen = "open" /\ located
    /\ screen = "destroyed" => ~(worker = "wait" /\ located)

\* A finishing task has its position, unless a request overlapped it.
Overlap == screen = "open" /\ Finishing => located \/ overlapped

LocationInv ==
  /\ Tasks /\ Flags /\ Left /\ Announcement /\ Overlap
  /\ TaskHasClient /\ ClientHasTask /\ CrashOnlyOvertaken

USE RequestsAssumption

LEMMA LocationStart == Init => LocationInv
<1> SUFFICES ASSUME Init PROVE LocationInv
  OBVIOUS
<1>1. Tasks
  BY DEF Init, Tasks
<1>2. Flags
  BY Zenon DEF Init, Flags
<1>3. ~Announced
  BY DEF Init, Announced
<1>4. queue > 0
  BY DEF Init
<1>6. Overlap
  BY DEF Init, Overlap, Finishing
<1>5. Left /\ Announcement /\ TaskHasClient /\ ClientHasTask /\ CrashOnlyOvertaken
  BY <1>3, <1>4, Zenon DEF Init, Left, Announcement, TaskHasClient, ClientHasTask, CrashOnlyOvertaken
<1> QED BY <1>1, <1>2, <1>5, <1>6 DEF LocationInv

\* Tasks move from the queue to the worker and on to a message.
LEMMA TasksStep == LocationInv /\ [Next]_vars => Tasks'
<1> SUFFICES ASSUME Tasks, [Next]_vars PROVE Tasks'
  BY DEF LocationInv
<1> USE DEF Tasks, history
<1>1. CASE ReceiveLocation
  BY <1>1 DEF ReceiveLocation
<1>2. CASE ReLocate
  BY <1>2 DEF ReLocate, StartLocateThread, Finishing
<1>3. CASE Refresh
  BY <1>3 DEF Refresh
<1>4. CASE OnDestroy
  BY <1>4 DEF OnDestroy
<1>5. CASE TakeTask
  BY <1>5 DEF TakeTask
<1>6. CASE FoundPosition
  BY <1>6 DEF FoundPosition, Poll
<1>7. CASE SendRefresh
  BY <1>7 DEF SendRefresh
<1>8. CASE StopClient
  BY <1>8 DEF StopClient
<1>9. CASE UNCHANGED vars
  BY <1>9 DEF vars
<1> QED
  BY <1>1, <1>2, <1>3, <1>4, <1>5, <1>6, <1>7, <1>8, <1>9 DEF Next, WorkerNext

\* Every step sets its flags to TRUE or FALSE.
LEMMA FlagsStep == LocationInv /\ [Next]_vars => Flags'
<1> SUFFICES ASSUME Flags, [Next]_vars PROVE Flags'
  BY DEF LocationInv
<1> USE DEF Flags, history
<1>1. CASE ReceiveLocation
  BY <1>1 DEF ReceiveLocation
<1>2. CASE ReLocate
  <2>1. located' \in BOOLEAN /\ started' \in BOOLEAN /\ screen' = screen
    BY <1>2 DEF ReLocate, StartLocateThread
  <2>2. overlapped' = Finishing /\ overtaken' = (overtaken \/ Announced)
    BY <1>2, Zenon DEF ReLocate
  <2>4. overlapped' = TRUE \/ overlapped' = FALSE
    BY <2>2, Zenon DEF Finishing
  <2>5. overtaken' = TRUE \/ overtaken' = FALSE
    BY <2>2, Zenon
  <2> QED BY <2>1, <2>4, <2>5
<1>3. CASE Refresh
  BY <1>3 DEF Refresh
<1>4. CASE OnDestroy
  BY <1>4 DEF OnDestroy
<1>5. CASE TakeTask
  BY <1>5 DEF TakeTask
<1>6. CASE FoundPosition
  BY <1>6 DEF FoundPosition, Poll
<1>7. CASE SendRefresh
  BY <1>7 DEF SendRefresh
<1>8. CASE StopClient
  BY <1>8 DEF StopClient
<1>9. CASE UNCHANGED vars
  BY <1>9 DEF vars
<1> QED
  BY <1>1, <1>2, <1>3, <1>4, <1>5, <1>6, <1>7, <1>8, <1>9 DEF Next, WorkerNext

\* Only an open screen starts the client and gives out tasks.
LEMMA LeftStep == LocationInv /\ [Next]_vars => Left'
<1> SUFFICES ASSUME Tasks, Left, [Next]_vars PROVE Left'
  BY DEF LocationInv
<1> USE DEF Tasks, Left, history
<1>1. CASE ReceiveLocation
  BY <1>1 DEF ReceiveLocation
<1>2. CASE ReLocate
  BY <1>2 DEF ReLocate, StartLocateThread, Finishing
<1>3. CASE Refresh
  BY <1>3 DEF Refresh
<1>4. CASE OnDestroy
  BY <1>4 DEF OnDestroy
<1>5. CASE TakeTask
  BY <1>5 DEF TakeTask
<1>6. CASE FoundPosition
  BY <1>6 DEF FoundPosition, Poll
<1>7. CASE SendRefresh
  BY <1>7 DEF SendRefresh
<1>8. CASE StopClient
  BY <1>8 DEF StopClient
<1>9. CASE UNCHANGED vars
  BY <1>9 DEF vars
<1> QED
  BY <1>1, <1>2, <1>3, <1>4, <1>5, <1>6, <1>7, <1>8, <1>9 DEF Next, WorkerNext

\* A position is forgotten only by a new request, which the history records.
LEMMA AnnouncementStep == LocationInv /\ [Next]_vars => Announcement'
<1> SUFFICES ASSUME Tasks, Flags, Left, Announcement, [Next]_vars PROVE Announcement'
  BY DEF LocationInv
<1>0. screen \in {"open", "destroyed", "crashed"}
  BY DEF Flags
<1> USE DEF Tasks, Left, Announcement, Announced, history
<1>1. CASE ReceiveLocation
  BY <1>1 DEF ReceiveLocation
<1>2. CASE ReLocate
  BY <1>2 DEF ReLocate, StartLocateThread, Finishing
<1>3. CASE Refresh
  BY <1>3 DEF Refresh
<1>4. CASE OnDestroy
  BY <1>4 DEF OnDestroy
<1>5. CASE TakeTask
  BY <1>5 DEF TakeTask
<1>6. CASE FoundPosition
  <2>1. worker = "wait" /\ worker' = "post" /\ located
        /\ UNCHANGED <<screen, located, overtaken>> /\ screen # "crashed"
    BY <1>6 DEF FoundPosition, Poll
  <2> QED BY <1>0, <2>1
<1>7. CASE SendRefresh
  BY <1>7 DEF SendRefresh
<1>8. CASE StopClient
  BY <1>8 DEF StopClient
<1>9. CASE UNCHANGED vars
  BY <1>9 DEF vars
<1> QED
  BY <1>1, <1>2, <1>3, <1>4, <1>5, <1>6, <1>7, <1>8, <1>9 DEF Next, WorkerNext

\* A request that takes the position of a finishing task overlaps it.
LEMMA OverlapStep == LocationInv /\ [Next]_vars => Overlap'
<1> SUFFICES ASSUME Tasks, Overlap, [Next]_vars PROVE Overlap'
  BY DEF LocationInv
<1> USE DEF Tasks, Overlap, Finishing, history
<1>1. CASE ReceiveLocation
  BY <1>1 DEF ReceiveLocation
<1>2. CASE ReLocate
  BY <1>2 DEF ReLocate, StartLocateThread, Finishing
<1>3. CASE Refresh
  BY <1>3 DEF Refresh
<1>4. CASE OnDestroy
  BY <1>4 DEF OnDestroy
<1>5. CASE TakeTask
  BY <1>5 DEF TakeTask
<1>6. CASE FoundPosition
  BY <1>6 DEF FoundPosition, Poll
<1>7. CASE SendRefresh
  BY <1>7 DEF SendRefresh
<1>8. CASE StopClient
  BY <1>8 DEF StopClient
<1>9. CASE UNCHANGED vars
  BY <1>9 DEF vars
<1> QED
  BY <1>1, <1>2, <1>3, <1>4, <1>5, <1>6, <1>7, <1>8, <1>9 DEF Next, WorkerNext

\* A finishing task that stops the client of a waiting one was overlapped by it.
LEMMA TaskHasClientStep == LocationInv /\ [Next]_vars => TaskHasClient'
<1> SUFFICES ASSUME Tasks, Overlap, TaskHasClient, [Next]_vars PROVE TaskHasClient'
  BY DEF LocationInv
<1> USE DEF Tasks, Overlap, Finishing, TaskHasClient, history
<1>1. CASE ReceiveLocation
  BY <1>1 DEF ReceiveLocation
<1>2. CASE ReLocate
  BY <1>2 DEF ReLocate, StartLocateThread, Finishing
<1>3. CASE Refresh
  BY <1>3 DEF Refresh
<1>4. CASE OnDestroy
  BY <1>4 DEF OnDestroy
<1>5. CASE TakeTask
  BY <1>5 DEF TakeTask
<1>6. CASE FoundPosition
  BY <1>6 DEF FoundPosition, Poll
<1>7. CASE SendRefresh
  BY <1>7 DEF SendRefresh
<1>8. CASE StopClient
  BY <1>8 DEF StopClient
<1>9. CASE UNCHANGED vars
  BY <1>9 DEF vars
<1> QED
  BY <1>1, <1>2, <1>3, <1>4, <1>5, <1>6, <1>7, <1>8, <1>9 DEF Next, WorkerNext

\* The client is started together with a task, and the last task stops it.
LEMMA ClientHasTaskStep == LocationInv /\ [Next]_vars => ClientHasTask'
<1> SUFFICES ASSUME Tasks, Left, ClientHasTask, [Next]_vars PROVE ClientHasTask'
  BY DEF LocationInv
<1> USE DEF Tasks, Left, ClientHasTask, history
<1>1. CASE ReceiveLocation
  BY <1>1 DEF ReceiveLocation
<1>2. CASE ReLocate
  BY <1>2 DEF ReLocate, StartLocateThread, Finishing
<1>3. CASE Refresh
  BY <1>3 DEF Refresh
<1>4. CASE OnDestroy
  BY <1>4 DEF OnDestroy
<1>5. CASE TakeTask
  BY <1>5 DEF TakeTask
<1>6. CASE FoundPosition
  BY <1>6 DEF FoundPosition, Poll
<1>7. CASE SendRefresh
  BY <1>7 DEF SendRefresh
<1>8. CASE StopClient
  BY <1>8 DEF StopClient
<1>9. CASE UNCHANGED vars
  BY <1>9 DEF vars
<1> QED
  BY <1>1, <1>2, <1>3, <1>4, <1>5, <1>6, <1>7, <1>8, <1>9 DEF Next, WorkerNext

\* A message is shown as it was announced unless the history says otherwise.
LEMMA CrashStep == LocationInv /\ [Next]_vars => CrashOnlyOvertaken'
<1> SUFFICES ASSUME Tasks, Announcement, CrashOnlyOvertaken, [Next]_vars PROVE CrashOnlyOvertaken'
  BY DEF LocationInv
<1> USE DEF Tasks, Announcement, Announced, CrashOnlyOvertaken, history
<1>1. CASE ReceiveLocation
  BY <1>1 DEF ReceiveLocation
<1>2. CASE ReLocate
  BY <1>2 DEF ReLocate, StartLocateThread, Finishing
<1>3. CASE Refresh
  BY <1>3 DEF Refresh
<1>4. CASE OnDestroy
  BY <1>4 DEF OnDestroy
<1>5. CASE TakeTask
  BY <1>5 DEF TakeTask
<1>6. CASE FoundPosition
  BY <1>6 DEF FoundPosition, Poll
<1>7. CASE SendRefresh
  BY <1>7 DEF SendRefresh
<1>8. CASE StopClient
  BY <1>8 DEF StopClient
<1>9. CASE UNCHANGED vars
  BY <1>9 DEF vars
<1> QED
  BY <1>1, <1>2, <1>3, <1>4, <1>5, <1>6, <1>7, <1>8, <1>9 DEF Next, WorkerNext

LEMMA LocationStep == LocationInv /\ [Next]_vars => LocationInv'
  BY TasksStep, FlagsStep, LeftStep, AnnouncementStep, OverlapStep, TaskHasClientStep, ClientHasTaskStep, CrashStep
     DEF LocationInv

LEMMA LocationInvariant == Spec => []LocationInv
  BY LocationStart, LocationStep, PTL DEF Spec

\* The variables of the location screen keep their types, and no more tasks
\* and messages are under way than requests were made.
THEOREM LocationTypeCorrect == Spec => []LocationTypeOK
<1>1. Tasks => queue + messages <= requests
  BY DEF Tasks
<1>2. LocationInv => LocationTypeOK
  BY <1>1 DEF LocationInv, Tasks, Flags, LocationTypeOK
<1> QED BY <1>2, LocationInvariant, PTL

\* A task waits without a client only if its request overlapped a finishing one.
THEOREM TaskHasClientHolds == Spec => []TaskHasClient
  BY LocationInvariant, PTL DEF LocationInv

\* The client never runs without a task that will stop it.
THEOREM ClientHasTaskHolds == Spec => []ClientHasTask
  BY LocationInvariant, PTL DEF LocationInv

\* An exception needs a position overtaken by a new request or by the end.
THEOREM CrashOnlyOvertakenHolds == Spec => []CrashOnlyOvertaken
  BY LocationInvariant, PTL DEF LocationInv
-----------------------------------------------------------------------------
(***************************************************************************)
(* A request on its way to the map.  That it arrives is checked under the   *)
(* fairness of the threads (RequestShown); what is proved here is why: a    *)
(* request that is not shown has a task or a message, whoever is to move it *)
(* can, and every move lessens what is left to do.                          *)
(***************************************************************************)

\* The request has a task that waits or runs, or a message.
OnItsWay ==
  screen = "open" /\ shown # requests => queue > 0 \/ worker \in {"wait", "post"} \/ messages > 0

\* The main thread has a message to handle, the worker a step to take, or the
\* client a position to report to the worker that waits for one.
SomeoneMoves ==
  \/ messages > 0
  \/ worker = "idle" /\ queue > 0
  \/ worker = "wait" /\ (located \/ started)
  \/ worker \in {"post", "stop"}

\* A request that did not come while the task before it was finishing is never
\* stuck on an open screen.
RequestProceeds == screen = "open" /\ shown # requests /\ ~overlapped => SomeoneMoves

\* The steps left to the worker's task, and to all tasks and messages.
TaskLeft == CASE worker = "idle" -> 0 [] worker = "stop" -> 1 [] worker = "post" -> 4 [] worker = "wait" -> 5
TasksLeft == 6 * queue + TaskLeft + 2 * messages

\* The worker and the main thread work the tasks off, a report of the client adds
\* nothing and is the position a waiting task needs; only a new request adds work.
TasksAdvance ==
  /\ WorkerNext \/ Refresh => TasksLeft' < TasksLeft
  /\ ReceiveLocation => TasksLeft' = TasksLeft /\ located'
  /\ TasksLeft' > TasksLeft => ReLocate

\* A task ends only by announcing the position it found, and a message only by
\* being shown, or by taking the screen down.
LEMMA OnItsWayStep == LocationInv /\ OnItsWay /\ [Next]_vars => OnItsWay'
<1> SUFFICES ASSUME Tasks, OnItsWay, [Next]_vars PROVE OnItsWay'
  BY DEF LocationInv
<1> USE DEF Tasks, OnItsWay, history
<1>1. CASE ReceiveLocation
  BY <1>1 DEF ReceiveLocation
<1>2. CASE ReLocate
  BY <1>2 DEF ReLocate, StartLocateThread, Finishing
<1>3. CASE Refresh
  BY <1>3 DEF Refresh
<1>4. CASE OnDestroy
  BY <1>4 DEF OnDestroy
<1>5. CASE TakeTask
  BY <1>5 DEF TakeTask
<1>6. CASE FoundPosition
  BY <1>6 DEF FoundPosition, Poll
<1>7. CASE SendRefresh
  BY <1>7 DEF SendRefresh
<1>8. CASE StopClient
  BY <1>8 DEF StopClient
<1>9. CASE UNCHANGED vars
  BY <1>9 DEF vars
<1> QED
  BY <1>1, <1>2, <1>3, <1>4, <1>5, <1>6, <1>7, <1>8, <1>9 DEF Next, WorkerNext

\* The first request is on its way from the start, and so is each until it is shown.
LEMMA OnItsWayInvariant == Spec => []OnItsWay
<1>1. Init => OnItsWay
  BY DEF Init, OnItsWay
<1> QED BY <1>1, LocationInvariant, OnItsWayStep, PTL DEF Spec

\* A request that is not shown, and did not overlap a finishing task, always has
\* someone who can move it on: the safety part of RequestShown, over every
\* interleaving of the clicks, the client, the worker and the main thread.
THEOREM RequestProceedsHolds == Spec => []RequestProceeds
<1>1. LocationInv /\ OnItsWay => RequestProceeds
  <2> SUFFICES ASSUME Tasks, TaskHasClient, OnItsWay, screen = "open", shown # requests, ~overlapped
               PROVE  SomeoneMoves
    BY DEF LocationInv, RequestProceeds
  <2>1. CASE worker = "wait"
    BY <2>1 DEF TaskHasClient, SomeoneMoves
  <2>2. CASE worker # "wait"
    BY <2>2 DEF Tasks, OnItsWay, SomeoneMoves
  <2> QED BY <2>1, <2>2
<1> QED BY <1>1, LocationInvariant, OnItsWayInvariant, PTL

\* Every step of the worker and of the main thread brings the tasks nearer to
\* their end, whatever the order, and only a new request adds work: with
\* RequestProceeds, that a request is shown rests on the fairness of the threads
\* and of the client alone.
THEOREM TasksAdvanceHolds == Spec => [][TasksAdvance]_vars
<1>1. LocationInv /\ [Next]_vars => [TasksAdvance]_vars
  <2> SUFFICES ASSUME Tasks, Next PROVE TasksAdvance
    BY DEF LocationInv
  <2> USE DEF Tasks, history, TasksLeft, TaskLeft
  <2>1. TasksLeft \in Nat
    OBVIOUS
  <2>2. ASSUME WorkerNext \/ Refresh PROVE TasksLeft' < TasksLeft /\ TasksLeft' \in Nat
    <3>1. CASE TakeTask
      BY <3>1 DEF TakeTask
    <3>2. CASE FoundPosition
      BY <3>2 DEF FoundPosition, Poll
    <3>3. CASE SendRefresh
      BY <3>3 DEF SendRefresh
    <3>4. CASE StopClient
      BY <3>4 DEF StopClient
    <3>5. CASE Refresh
      BY <3>5 DEF Refresh
    <3> QED BY <2>2, <3>1, <3>2, <3>3, <3>4, <3>5 DEF WorkerNext
  <2>3. ReceiveLocation => TasksLeft' = TasksLeft /\ located'
    BY DEF ReceiveLocation
  <2>4. OnDestroy => TasksLeft' <= TasksLeft /\ TasksLeft' \in Nat
    BY DEF OnDestroy
  <2> HIDE DEF TasksLeft
  <2> QED BY <2>1, <2>2, <2>3, <2>4 DEF Next, TasksAdvance
<1> QED BY <1>1, LocationInvariant, PTL DEF Spec
=============================================================================
