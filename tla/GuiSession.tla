----------------------------- MODULE GuiSession -----------------------------
(***************************************************************************)
(* How the main window shares one scan with the thread that runs it:       *)
(* MainWindow._begin_scan, the two timers that poll the event queue and    *)
(* the callback queue, the callbacks that end a scan, Cancel, and the      *)
(* History commands that open, purge and delete runs meanwhile.            *)
(*                                                                         *)
(* Every handler of the window runs on Tk's thread, one at a time, so a    *)
(* handler is one action.  The scan thread is the only other actor; what   *)
(* it does to the run is RunLifecycle, reduced here to the run's existence *)
(* and its raw evidence.  A scan is a live scan, a checklist scan, which   *)
(* also posts a progress callback, or an offline import, which creates its *)
(* run in the thread and sends no events.  Scan k works on run k; run 0 is *)
(* an old run of the history.                                              *)
(***************************************************************************)
EXTENDS Naturals, Sequences

CONSTANTS Kinds,             \* kinds of scan the operator starts
          MaxScans,          \* bound: scans begun in one session
          MaxEvents,         \* bound: progress events waiting in the queue
          MaxFaults          \* bound: handlers and thread starts that raise

ASSUME SessionAssumption ==
  /\ Kinds \subseteq {"live", "checklist", "offline"}
  /\ MaxScans \in Nat /\ MaxEvents \in Nat /\ MaxFaults \in Nat

VARIABLES scanning,  \* _scan_in_progress
          scan,      \* the latest scan, 0 before the first
          kind,      \* and its kind
          worker,    \* its thread
          cancel,    \* _scan_cancel_event
          running,   \* set_scan_state's last argument: run buttons off, Cancel on
          polling,   \* _scan_event_polling
          timers,    \* calls of _poll_scan_events that are scheduled
          events,    \* _scan_event_queue: the scan of each PROGRESS event
          callbacks, \* _ui_callback_queue
          current,   \* {current_run_id}, {} for None
          runs,      \* runs with a record
          raw,       \* runs with raw evidence
          faults

scanVars   == <<scanning, scan, kind, worker, cancel>>
windowVars == <<running, polling, timers>>
queueVars  == <<events, callbacks>>
runVars    == <<current, runs, raw>>
vars == <<scanVars, windowVars, queueVars, runVars, faults>>

Runs      == 0..MaxScans
Finishing == {"complete", "error"}

Init ==
  /\ scanning = FALSE /\ scan = 0 /\ kind = "live" /\ worker = "idle" /\ cancel = FALSE
  /\ running = FALSE /\ polling = FALSE /\ timers = 0
  /\ events = <<>> /\ callbacks = <<>>
  /\ current = {} /\ runs = {0} /\ raw = {0}
  /\ faults = 0

MayFail == faults < MaxFaults /\ faults' = faults + 1
-----------------------------------------------------------------------------
(***************************************************************************)
(* Starting a scan.                                                        *)
(***************************************************************************)
\* Fault: a second scan may start.
BeginAnyway == scan < MaxScans

MayBegin == ~scanning /\ scan < MaxScans

\* Fault: a poll is scheduled although one is.
PollAgain == polling' = TRUE /\ timers' = timers + 1

StartPolling == polling' = TRUE /\ timers' = IF polling THEN timers ELSE timers + 1

\* Faults: the event of the last scan stays set; its events stay queued.
KeepCancel == events' = <<>> /\ UNCHANGED cancel
KeepEvents == cancel' = FALSE /\ UNCHANGED events

ClearSignals == cancel' = FALSE /\ events' = <<>>

BeginScan(k) ==
  /\ MayBegin
  /\ scan' = scan + 1 /\ kind' = k
  /\ ClearSignals /\ StartPolling

\* begin_run on Tk's thread, then the thread.
StartLive(k) ==
  /\ k \in {"live", "checklist"}
  /\ BeginScan(k)
  /\ scanning' = TRUE /\ running' = TRUE /\ worker' = "auditing"
  /\ current' = {scan'} /\ runs' = runs \cup {scan'}
  /\ UNCHANGED <<callbacks, raw, faults>>

\* begin_run or the thread's start raises: the window is back where it was,
\* and a run that was created stays, aborted.
StartLiveFails(k) ==
  /\ k \in {"live", "checklist"} /\ MayFail
  /\ BeginScan(k)
  /\ scanning' = FALSE /\ running' = FALSE /\ worker' = "idle"
  /\ \/ current' = {scan'} /\ runs' = runs \cup {scan'}
     \/ UNCHANGED <<current, runs>>
  /\ UNCHANGED <<callbacks, raw>>

\* The run of an import is created by its thread.  Nothing catches an exception
\* of the thread's start.
StartOffline(k) ==
  /\ k = "offline"
  /\ BeginScan(k)
  /\ scanning' = TRUE /\ running' = TRUE
  /\ \/ worker' = "importing" /\ UNCHANGED faults
     \/ worker' = "idle" /\ MayFail
  /\ UNCHANGED <<callbacks, runVars>>

Start == \E k \in Kinds : StartLive(k) \/ StartLiveFails(k) \/ StartOffline(k)
-----------------------------------------------------------------------------
(***************************************************************************)
(* The scan thread.                                                        *)
(***************************************************************************)
Post(c) == callbacks' = Append(callbacks, [scan |-> scan, of |-> c])

ImportBegins ==
  /\ worker = "importing"
  /\ worker' = "auditing" /\ runs' = runs \cup {scan}
  /\ UNCHANGED <<scanning, scan, kind, cancel, windowVars, queueVars, current, raw, faults>>

\* Fault: missing directories are made.
CollectMaking ==
  /\ worker = "auditing" /\ scan \notin raw
  /\ raw' = raw \cup {scan}
  /\ UNCHANGED <<scanVars, windowVars, queueVars, current, runs, faults>>

\* The evidence sink needs the run to be there.
Collect ==
  /\ worker = "auditing" /\ scan \in runs /\ scan \notin raw
  /\ raw' = raw \cup {scan}
  /\ UNCHANGED <<scanVars, windowVars, queueVars, current, runs, faults>>

EmitProgress ==
  /\ worker = "auditing" /\ kind # "offline" /\ Len(events) < MaxEvents
  /\ events' = Append(events, scan)
  /\ UNCHANGED <<scanVars, windowVars, callbacks, runVars, faults>>

\* A checklist scan announces the collected devices before it exports.
ReportCollected ==
  /\ worker = "auditing" /\ kind = "checklist" /\ scan \in runs
  /\ worker' = "exporting" /\ Post("progress")
  /\ UNCHANGED <<scanning, scan, kind, cancel, windowVars, events, runVars, faults>>

\* persist_result needs the record, too.
ThreadCompletes ==
  /\ worker = IF kind = "checklist" THEN "exporting" ELSE "auditing"
  /\ worker = "auditing" => scan \in runs
  /\ worker' = "idle" /\ Post("complete")
  /\ UNCHANGED <<scanning, scan, kind, cancel, windowVars, events, runVars, faults>>

ThreadFails ==
  /\ worker # "idle"
  /\ worker' = "idle" /\ Post("error")
  /\ UNCHANGED <<scanning, scan, kind, cancel, windowVars, events, runVars, faults>>
-----------------------------------------------------------------------------
(***************************************************************************)
(* The timers.                                                             *)
(***************************************************************************)
\* Faults: the poll that finds nothing is the last one; the chain goes on but
\* says it has stopped.
StopWhenEmpty == events = <<>>

Done == ~scanning

PollEvents ==
  /\ timers > 0
  /\ events' = <<>> /\ running' = (running \/ events # <<>>)
  /\ IF Done THEN polling' = FALSE /\ timers' = timers - 1
             ELSE UNCHANGED <<polling, timers>>
  /\ UNCHANGED <<scanVars, callbacks, runVars, faults>>

\* A widget raises while an event is shown: the poll is not scheduled again,
\* though polling says it is.
PollRaises ==
  /\ timers > 0 /\ events # <<>> /\ MayFail
  /\ events' = Tail(events) /\ timers' = timers - 1
  /\ UNCHANGED <<scanVars, running, polling, callbacks, runVars>>

\* Fault: only a completed scan is finished.
FinishesCompleteOnly == {"complete"}

Finishes == Finishing

\* A completed import shows its run before anything else.
Shown(c) == IF c.of = "complete" /\ kind = "offline" THEN {c.scan} ELSE current

RunCallback ==
  /\ callbacks # <<>>
  /\ LET c == Head(callbacks) IN
       /\ current' = Shown(c)
       /\ scanning' = (scanning /\ c.of \notin Finishes)
       /\ running' = (c.of \notin Finishes)
  /\ callbacks' = Tail(callbacks)
  /\ UNCHANGED <<scan, kind, worker, cancel, polling, timers, events, runs, raw, faults>>

\* The dispatcher swallows what a callback raises before _finish_scan_ui.
CallbackRaises ==
  /\ callbacks # <<>> /\ MayFail
  /\ current' = Shown(Head(callbacks)) /\ callbacks' = Tail(callbacks)
  /\ UNCHANGED <<scanVars, windowVars, events, runs, raw>>
-----------------------------------------------------------------------------
(***************************************************************************)
(* The operator.                                                           *)
(***************************************************************************)
CancelScan ==
  /\ scanning
  /\ cancel' = TRUE
  /\ UNCHANGED <<scanning, scan, kind, worker, windowVars, queueVars, runVars, faults>>

\* Nothing asks whether a scan is in progress.
OpenRun(r) ==
  /\ r \in runs
  /\ current' = {r}
  /\ UNCHANGED <<scanVars, windowVars, queueVars, runs, raw, faults>>

\* A run that is not in the history comes from a package, or from a sample run,
\* which begins and ends inside its handler; it becomes the current one.
AddRun ==
  /\ 0 \notin runs
  /\ current' = {0} /\ runs' = runs \cup {0} /\ raw' = raw \cup {0}
  /\ UNCHANGED <<scanVars, windowVars, queueVars, faults>>

\* Fault: no command asks whether the run is active.
Unprotected(r) == FALSE

Protected(r) == scanning /\ current = {r}

PurgeRun(r) ==
  /\ ~Protected(r) /\ r \in raw
  /\ raw' = raw \ {r}
  /\ UNCHANGED <<scanVars, windowVars, queueVars, current, runs, faults>>

DeleteRun(r) ==
  /\ ~Protected(r) /\ r \in runs
  /\ runs' = runs \ {r} /\ raw' = raw \ {r} /\ current' = current \ {r}
  /\ UNCHANGED <<scanVars, windowVars, queueVars, faults>>

History ==
  \/ \E r \in Runs : OpenRun(r) \/ PurgeRun(r) \/ DeleteRun(r)
  \/ AddRun
-----------------------------------------------------------------------------
ThreadEnds == ThreadCompletes \/ ThreadFails

Next ==
  \/ Start \/ CancelScan \/ History
  \/ ImportBegins \/ Collect \/ EmitProgress \/ ReportCollected \/ ThreadEnds
  \/ PollEvents \/ PollRaises \/ RunCallback \/ CallbackRaises

Spec == Init /\ [][Next]_vars

\* Tk's loop runs both timers again and again, and a scan thread ends, as
\* Termination of ScanOrchestrator and Finishes of RunLifecycle say.
FairSpec ==
  /\ Spec
  /\ WF_vars(PollEvents) /\ WF_vars(RunCallback)
  /\ WF_vars(ImportBegins) /\ WF_vars(ThreadEnds)
-----------------------------------------------------------------------------
(***************************************************************************)
(* Properties.                                                             *)
(***************************************************************************)
\* Variables keep their types; raw evidence belongs to a run that exists.
TypeOK ==
  /\ scanning \in BOOLEAN /\ scan \in 0..MaxScans
  /\ kind \in {"live", "checklist", "offline"}
  /\ worker \in {"idle", "importing", "auditing", "exporting"}
  /\ cancel \in BOOLEAN /\ running \in BOOLEAN /\ polling \in BOOLEAN
  /\ timers \in Nat
  /\ events \in Seq(1..MaxScans) /\ Len(events) <= MaxEvents
  /\ callbacks \in Seq([scan : 1..MaxScans, of : {"progress"} \cup Finishing])
  /\ current \subseteq Runs /\ runs \subseteq Runs /\ raw \subseteq runs
  /\ faults \in 0..MaxFaults

Ends(i) == callbacks[i].of \in Finishing

\* One scan at a time, whatever raises: while a thread works, or has posted the
\* callback that ends its scan, the flag _begin_scan tests stands, and both are
\* never there together, nor callbacks of two scans or behind the last of one.
OneScan ==
  /\ worker # "idle" => scanning
  /\ \A i \in DOMAIN callbacks :
       /\ callbacks[i].scan = scan
       /\ Ends(i) => scanning /\ worker = "idle" /\ i = Len(callbacks)

\* "A scan is already running. Cancel it or wait for it to finish."
\* (_begin_scan): while the flag stands, a thread is at work or the callback
\* that clears it is on its way.
WaitingHelps == scanning => worker # "idle" \/ \E i \in DOMAIN callbacks : Ends(i)

\* The scan table shows events of the latest scan only: what an earlier one left
\* in the shared queue is gone before the next can add to it.
OwnEvents == \A i \in DOMAIN events : events[i] = scan

\* _poll_scan_events is scheduled once at most, however scans follow each other,
\* and _scan_event_polling knows when it is.
OneChain == timers <= 1 /\ (timers = 1 => polling)

\* No event waits in a queue that nobody polls, unless a poll raised.
NothingStranded == faults = 0 /\ events # <<>> => timers = 1

\* The event queue belongs to the latest scan, has one poll chain, and is served.
QueuesServed == OwnEvents /\ OneChain /\ NothingStranded

\* A thread starts with the cancellation event clear, and a request made while
\* it works is not taken back before it ends.
CancelIsOwn ==
  [][ /\ worker = "idle" /\ worker' # "idle" => ~cancel'
      /\ worker # "idle" /\ cancel => cancel' ]_vars

Untouched(r) == /\ r \in runs => r \in runs'
                /\ r \in raw => r \in raw'

\* The guard of purge and delete does its work as long as the window's current
\* run is the one its thread writes to: from the moment the thread is there to
\* the moment it is gone, whatever raised before.
GuardProtects ==
  [][worker # "idle" /\ current = {scan} => Untouched(scan)]_vars

\* "The active audit run cannot be deleted." (delete_historical_run): no step
\* removes the run that a thread writes to, or its raw evidence.
ActiveRunUntouched == [][worker # "idle" => Untouched(scan)]_vars

\* "No scan is currently running." (cancel_scan): the window offers Cancel, and
\* refuses a new run, exactly while a scan is in progress.
ControlsAgree == running = scanning

\* A scan ends for the operator, who may start the next one, unless a handler
\* or the start of a thread raised.
Responsive == scanning ~> ~scanning \/ faults > 0
=============================================================================
