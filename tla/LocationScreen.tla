--------------------------- MODULE LocationScreen ---------------------------
(***************************************************************************)
(* The screen that finds the device's own position and shows it on a map.   *)
(* Main thread: clicks, fixes of the location client, REFRESH messages and   *)
(* onDestroy.  Worker: the only thread of the executor; each of its tasks    *)
(* polls mSelfLatLng, posts REFRESH and stops the client.  The client and    *)
(* mSelfLatLng are shared without a lock.                                    *)
(* reLocate is one step: it first forgets the position, and a step of the    *)
(* worker in the middle has the effect of one before or after the whole.     *)
(***************************************************************************)
EXTENDS Naturals

CONSTANT Requests   \* bound: requests of one screen, the one of initView first
ASSUME RequestsAssumption == Requests \in Nat \ {0}

VARIABLES
  screen,      \* "open", "destroyed", or "crashed" by an exception
  located,     \* mSelfLatLng # null
  started,     \* mLocClient is started
  queue,       \* tasks that wait in the executor
  worker,      \* where the worker is in its task
  messages,    \* MESSAGE_REFRESH in the main queue
  requests,    \* requests so far
  shown,       \* history: the request whose position the map shows
  overlapped,  \* history: the last request came while a task was finishing
  overtaken    \* history: a position was dropped, or the screen left, after a
               \* task had found it and before it was shown

history == <<requests, shown, overlapped, overtaken>>
vars == <<screen, located, started, queue, worker, messages, history>>

Finishing == worker = "post" \/ worker = "stop"
(* A REFRESH is on its way.                                                  *)
Announced == worker = "post" \/ messages > 0

(* initView: the client started, the first task given to the executor.       *)
Init ==
  /\ screen = "open" /\ located = FALSE /\ started = TRUE
  /\ queue = 1 /\ worker = "idle" /\ messages = 0
  /\ requests = 1 /\ shown = 0 /\ overlapped = FALSE /\ overtaken = FALSE

(* onReceiveLocation.                                                        *)
ReceiveLocation ==
  /\ screen = "open" /\ started
  /\ located' = TRUE
  /\ UNCHANGED <<screen, started, queue, worker, messages, history>>

TakeTask ==
  /\ screen # "crashed" /\ worker = "idle" /\ queue > 0
  /\ worker' = "wait" /\ queue' = queue - 1
  /\ UNCHANGED <<screen, located, started, messages, history>>

(* Mutant: the loop waits while there is a position.                         *)
PollInverted == worker = "wait" /\ ~located

Poll == worker = "wait" /\ located

(* Mutant: the position found is not announced.                              *)
FoundPositionQuietly ==
  /\ screen # "crashed" /\ Poll
  /\ worker' = "stop"
  /\ UNCHANGED <<screen, located, started, queue, messages, history>>

FoundPosition ==
  /\ screen # "crashed" /\ Poll
  /\ worker' = "post"
  /\ UNCHANGED <<screen, located, started, queue, messages, history>>

(* Mutant: REFRESH is sent inside the loop.                                  *)
SendRefreshInLoop ==
  /\ screen # "crashed" /\ worker = "post"
  /\ worker' = "wait" /\ messages' = messages + 1
  /\ UNCHANGED <<screen, located, started, queue, history>>

SendRefresh ==
  /\ screen # "crashed" /\ worker = "post"
  /\ worker' = "stop" /\ messages' = messages + 1
  /\ UNCHANGED <<screen, located, started, queue, history>>

(* Mutant: the client is left running.                                       *)
StopClientNot ==
  /\ screen # "crashed" /\ worker = "stop"
  /\ worker' = "idle"
  /\ UNCHANGED <<screen, located, started, queue, messages, history>>

StopClient ==
  /\ screen # "crashed" /\ worker = "stop"
  /\ worker' = "idle" /\ started' = FALSE
  /\ UNCHANGED <<screen, located, queue, messages, history>>

-----------------------------------------------------------------------------
(* Mutant: the client of the request before is taken to be running still.    *)
StartLocateThreadOnce == started' = started /\ queue' = queue + 1

(* start of a client that runs does nothing.                                 *)
StartLocateThread == started' = TRUE /\ queue' = queue + 1

ReLocate ==
  /\ screen = "open" /\ requests < Requests
  /\ located' = FALSE
  /\ StartLocateThread
  /\ requests' = requests + 1
  /\ overlapped' = Finishing
  /\ overtaken' = (overtaken \/ Announced)
  /\ UNCHANGED <<screen, worker, messages, shown>>

(* handleMessage: the marker needs a position, the map a screen.             *)
Refresh ==
  /\ screen # "crashed" /\ messages > 0
  /\ messages' = messages - 1
  /\ IF screen = "open" /\ located
       THEN shown' = requests /\ UNCHANGED screen
       ELSE screen' = "crashed" /\ UNCHANGED shown
  /\ UNCHANGED <<located, started, queue, worker, requests, overlapped, overtaken>>

(* onDestroy: shutdownNow drops the waiting tasks; the interrupt only ends    *)
(* one second of the worker's sleep.                                         *)
OnDestroy ==
  /\ screen = "open"
  /\ screen' = "destroyed" /\ started' = FALSE /\ queue' = 0
  /\ overtaken' = (overtaken \/ Announced \/ (worker = "wait" /\ located))
  /\ UNCHANGED <<located, worker, messages, requests, shown, overlapped>>

WorkerNext == TakeTask \/ FoundPosition \/ SendRefresh \/ StopClient
Next == ReceiveLocation \/ ReLocate \/ Refresh \/ OnDestroy \/ WorkerNext

(* The threads run, and a started client reports again and again (a failed   *)
(* fix too is a position for this code).                                     *)
Fairness == WF_vars(ReceiveLocation) /\ WF_vars(Refresh) /\ WF_vars(WorkerNext)
Spec == Init /\ [][Next]_vars /\ Fairness

-----------------------------------------------------------------------------
(* Types; no more messages than tasks were given out.                        *)
LocationTypeOK ==
  /\ screen \in {"open", "destroyed", "crashed"}
  /\ located \in BOOLEAN /\ started \in BOOLEAN
  /\ overlapped \in BOOLEAN /\ overtaken \in BOOLEAN
  /\ worker \in {"idle", "wait", "post", "stop"}
  /\ requests \in 1 .. Requests /\ shown \in 0 .. requests
  /\ queue \in Nat /\ messages \in Nat /\ queue + messages <= requests

(* A task that waits for a position has a client that looks for one, unless   *)
(* its request came while the task before was finishing: that task's stop     *)
(* then stops the new request's client, and the task waits for ever.          *)
TaskHasClient ==
  screen = "open" /\ (worker = "wait" \/ queue > 0) /\ ~located =>
    started \/ overlapped

(* The client does not run on, draining the battery: while it runs there is   *)
(* a task that will stop it.                                                  *)
ClientHasTask == started => worker # "idle" \/ queue > 0

(* An exception is met only where a position that a task had announced was    *)
(* forgotten, or the screen left, before the main thread came to show it.     *)
CrashOnlyOvertaken == screen = "crashed" => overtaken

(* A request that did not come while the task before it was finishing is      *)
(* shown, or replaced by another, or the screen is left.                      *)
RequestShown ==
  \A n \in 1 .. Requests :
    requests = n /\ ~overlapped ~> shown = n \/ requests > n \/ screen # "open"
=============================================================================
