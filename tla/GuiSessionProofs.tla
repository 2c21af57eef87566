-------------------------- MODULE GuiSessionProofs --------------------------
(***************************************************************************)
(* Proofs about GuiSession for any number of scans, any length of the      *)
(* event queue, any kinds of scan, and handlers that raise any number of   *)
(* times.                                                                  *)
(***************************************************************************)
EXTENDS GuiSession, TLAPS

\* Between two scans nothing is queued that would act on the window, and unless
\* a poll raised the chain is there as long as it is needed.
Rest ==
  /\ worker # "idle" => scan > 0
  /\ ~scanning => callbacks = <<>>
  /\ faults = 0 => (scanning => polling) /\ (polling => timers = 1)

IInv == TypeOK /\ OneScan /\ OwnEvents /\ OneChain /\ NothingStranded /\ Rest
-----------------------------------------------------------------------------
\* What a queue holds after something was put at its end or its head taken.
LEMMA Appended ==
  ASSUME NEW S, NEW s \in Seq(S), NEW e \in S
  PROVE  /\ Append(s, e) \in Seq(S) /\ Len(Append(s, e)) = Len(s) + 1
         /\ DOMAIN Append(s, e) = 1..(Len(s) + 1)
         /\ \A i \in 1..Len(s) : Append(s, e)[i] = s[i]
         /\ Append(s, e)[Len(s) + 1] = e
  OBVIOUS

LEMMA Shortened ==
  ASSUME NEW S, NEW s \in Seq(S), s # <<>>
  PROVE  /\ Tail(s) \in Seq(S) /\ Len(Tail(s)) = Len(s) - 1
         /\ Head(s) \in S /\ Head(s) = s[1] /\ Len(s) >= 1
         /\ DOMAIN Tail(s) = 1..(Len(s) - 1)
         /\ \A i \in DOMAIN Tail(s) : i + 1 \in DOMAIN s /\ Tail(s)[i] = s[i + 1]
  OBVIOUS

LEMMA InitIInv == Init => IInv
<1> SUFFICES ASSUME Init PROVE IInv
  OBVIOUS
<1>1. TypeOK
  <2>1. events \in Seq(1..MaxScans) /\ Len(events) = 0
    BY DEF Init
  <2>2. callbacks \in Seq([scan : 1..MaxScans, of : {"progress"} \cup Finishing])
    BY DEF Init
  <2>3. current \subseteq Runs /\ runs \subseteq Runs /\ raw \subseteq runs
    BY SessionAssumption DEF Init, Runs
  <2>4. scanning \in BOOLEAN /\ cancel \in BOOLEAN /\ running \in BOOLEAN /\ polling \in BOOLEAN
    BY DEF Init
  <2>5. scan \in 0..MaxScans /\ timers \in Nat /\ faults \in 0..MaxFaults /\ 0 <= MaxEvents
    BY SessionAssumption DEF Init
  <2>6. kind = "live" /\ worker = "idle"
    BY DEF Init
  <2> QED
    BY <2>1, <2>2, <2>3, <2>4, <2>5, <2>6 DEF TypeOK
<1>2. DOMAIN callbacks = {} /\ DOMAIN events = {}
  BY DEF Init
<1> QED
  BY <1>1, <1>2 DEF Init, IInv, OneScan, OwnEvents, OneChain, NothingStranded, Rest

\* A scan begins between two scans: queues are cleared, the chain is there.
LEMMA BeginStep ==
  ASSUME IInv, NEW k \in Kinds, BeginScan(k)
  PROVE  /\ scan' \in 1..MaxScans /\ kind' \in {"live", "checklist", "offline"}
         /\ scan' \in Runs /\ callbacks = <<>> /\ worker = "idle"
         /\ ~cancel' /\ events' = <<>>
         /\ timers' \in Nat /\ timers' <= 1 /\ polling'
         /\ faults = 0 => timers' = 1
<1>1. ~scanning /\ scan < MaxScans /\ scan' = scan + 1 /\ kind' = k
  BY DEF BeginScan, MayBegin
<1>2. scan \in Nat /\ MaxScans \in Nat /\ Kinds \subseteq {"live", "checklist", "offline"}
  BY SessionAssumption DEF IInv, TypeOK
<1>3. callbacks = <<>> /\ worker = "idle"
  BY <1>1 DEF IInv, OneScan, Rest
<1>4. ~cancel' /\ events' = <<>> /\ polling' /\ timers' = IF polling THEN timers ELSE timers + 1
  BY DEF BeginScan, ClearSignals, StartPolling
<1>5. timers \in Nat /\ timers <= 1 /\ (timers = 1 => polling)
  BY DEF IInv, TypeOK, OneChain
<1>6. timers' \in Nat /\ timers' <= 1 /\ (faults = 0 => timers' = 1)
  BY <1>4, <1>5 DEF IInv, Rest
<1> QED
  BY <1>1, <1>2, <1>3, <1>4, <1>6 DEF Runs

LEMMA StartStep == ASSUME IInv, Start PROVE IInv'
<1> SUFFICES ASSUME NEW k \in Kinds, StartLive(k) \/ StartLiveFails(k) \/ StartOffline(k)
             PROVE  IInv'
  BY DEF Start
<1>1. BeginScan(k)
  BY DEF StartLive, StartLiveFails, StartOffline
<1>2. /\ scan' \in 1..MaxScans /\ kind' \in {"live", "checklist", "offline"}
      /\ scan' \in Runs /\ callbacks = <<>> /\ worker = "idle"
      /\ ~cancel' /\ events' = <<>>
      /\ timers' \in Nat /\ timers' <= 1 /\ polling'
      /\ faults = 0 => timers' = 1
  BY <1>1, BeginStep
<1>3. callbacks' = <<>> /\ (worker' # "idle" => scanning')
      /\ faults' \in 0..MaxFaults /\ (faults' = 0 => faults = 0)
  BY <1>2, SessionAssumption DEF StartLive, StartLiveFails, StartOffline, MayFail, IInv, TypeOK
<1>4. current' \subseteq Runs /\ runs' \subseteq Runs /\ raw' \subseteq runs'
      /\ scanning' \in BOOLEAN /\ running' \in BOOLEAN
      /\ worker' \in {"idle", "importing", "auditing", "exporting"}
  BY <1>2 DEF StartLive, StartLiveFails, StartOffline, runVars, IInv, TypeOK
<1>5. cancel' \in BOOLEAN /\ polling' \in BOOLEAN
  BY <1>1, <1>2 DEF BeginScan, ClearSignals, StartPolling
<1>6. TypeOK'
  BY <1>2, <1>3, <1>4, <1>5, SessionAssumption DEF TypeOK
<1> QED
  BY <1>2, <1>3, <1>6, SessionAssumption
  DEF IInv, OneScan, OwnEvents, OneChain, NothingStranded, Rest
-----------------------------------------------------------------------------
\* The scan thread puts its last callback behind those that do not end the scan.
LEMMA ThreadStep ==
  ASSUME IInv, ImportBegins \/ Collect \/ EmitProgress \/ ReportCollected \/ ThreadEnds
  PROVE  IInv'
<1> USE SessionAssumption
<1>1. CASE ImportBegins
  BY <1>1 DEF ImportBegins, IInv, TypeOK, OneScan, OwnEvents, OneChain, NothingStranded, Rest,
              windowVars, queueVars, Ends, Runs
<1>2. CASE Collect
  BY <1>2 DEF Collect, IInv, TypeOK, OneScan, OwnEvents, OneChain, NothingStranded, Rest,
              scanVars, windowVars, queueVars, Ends, Runs
<1>3. CASE EmitProgress
  <2>1. scan \in 1..MaxScans /\ scanning
    BY <1>3 DEF EmitProgress, IInv, TypeOK, OneScan, Rest
  <2>2. events' = Append(events, scan) /\ Len(events) < MaxEvents /\ events \in Seq(1..MaxScans)
    BY <1>3 DEF EmitProgress, IInv, TypeOK
  <2>3. /\ events' \in Seq(1..MaxScans) /\ Len(events') = Len(events) + 1
        /\ DOMAIN events' = 1..(Len(events) + 1)
        /\ \A i \in 1..Len(events) : events'[i] = events[i]
        /\ events'[Len(events) + 1] = scan
    BY <2>1, <2>2, Appended
  <2>4. UNCHANGED <<scanVars, windowVars, callbacks, runVars, faults>>
    BY <1>3 DEF EmitProgress
  <2>5. TypeOK'
    BY <2>2, <2>3, <2>4 DEF IInv, TypeOK, scanVars, windowVars, runVars
  <2>6. OwnEvents'
    BY <2>2, <2>3, <2>4 DEF IInv, OwnEvents, scanVars
  <2>7. NothingStranded'
    BY <2>1, <2>4 DEF IInv, NothingStranded, Rest, windowVars
  <2> QED
    BY <2>4, <2>5, <2>6, <2>7
    DEF IInv, OneScan, OneChain, Rest, Ends, scanVars, windowVars
<1>4. CASE ReportCollected \/ ThreadEnds
  <2> PICK c \in {"progress"} \cup Finishing, w \in {"idle", "exporting"} :
        /\ worker # "idle" /\ worker' = w /\ Post(c)
        /\ c \in Finishing => w = "idle"
        /\ UNCHANGED <<scanning, scan, kind, cancel, windowVars, events, runVars, faults>>
    BY <1>4 DEF ReportCollected, ThreadEnds, ThreadCompletes, ThreadFails, Finishing, IInv, TypeOK
  <2> DEFINE m == [scan |-> scan, of |-> c]
             S == [scan : 1..MaxScans, of : {"progress"} \cup Finishing]
  <2>1. scanning /\ m \in S /\ callbacks \in Seq(S)
    BY DEF IInv, TypeOK, OneScan, Rest
  <2>2. /\ callbacks' \in Seq(S) /\ Len(callbacks') = Len(callbacks) + 1
        /\ DOMAIN callbacks' = 1..(Len(callbacks) + 1)
        /\ \A i \in 1..Len(callbacks) : callbacks'[i] = callbacks[i]
        /\ callbacks'[Len(callbacks) + 1] = m
    <3>1. callbacks' = Append(callbacks, m)
      BY DEF Post
    <3> HIDE DEF m, S
    <3> QED
      BY <2>1, <3>1, Appended
  <2>3. DOMAIN callbacks = 1..Len(callbacks)
    BY <2>1
  <2>4. TypeOK'
    BY <2>2 DEF IInv, TypeOK, windowVars, runVars
  <2>5. OneScan'
    <3>1. worker' # "idle" => scanning'
      BY <2>1
    <3>2. \A i \in 1..Len(callbacks) :
            callbacks'[i].scan = scan /\ callbacks'[i].of \notin Finishing
      BY <2>2, <2>3 DEF IInv, OneScan, Ends
    <3>3. callbacks'[Len(callbacks) + 1].scan = scan
          /\ (callbacks'[Len(callbacks) + 1].of \in Finishing => w = "idle")
      BY <2>2
    <3>4. \A i \in DOMAIN callbacks' : i \in 1..Len(callbacks) \/ i = Len(callbacks) + 1
      BY <2>1, <2>2
    <3> QED
      BY <2>1, <2>2, <3>1, <3>2, <3>3, <3>4 DEF OneScan, Ends
  <2> QED
    BY <2>1, <2>4, <2>5
    DEF IInv, OwnEvents, OneChain, NothingStranded, Rest, windowVars
<1> QED
  BY <1>1, <1>2, <1>3, <1>4
-----------------------------------------------------------------------------
LEMMA PollStep == ASSUME IInv, PollEvents \/ PollRaises PROVE IInv'
<1> USE SessionAssumption
<1>1. CASE PollEvents
  <2>1. timers = 1 /\ polling
    BY <1>1 DEF PollEvents, IInv, OneChain, TypeOK
  <2>2. events' = <<>> /\ UNCHANGED <<scanVars, callbacks, runVars, faults>>
        /\ IF ~scanning THEN polling' = FALSE /\ timers' = 0
                        ELSE UNCHANGED <<polling, timers>>
    <3>1. timers - 1 = 0
      BY <2>1
    <3> QED
      BY <1>1, <3>1 DEF PollEvents, Done
  <2>3. running' \in BOOLEAN
    BY <1>1 DEF PollEvents, IInv, TypeOK
  <2>4. /\ timers' \in {0, 1} /\ polling' \in BOOLEAN /\ (timers' = 1 => polling')
        /\ ~polling' => ~scanning
        /\ polling' => timers' = timers
    <3>1. polling \in BOOLEAN
      BY DEF IInv, TypeOK
    <3>2. CASE scanning
      BY <2>1, <2>2, <3>1, <3>2
    <3>3. CASE ~scanning
      <4>1. polling' = FALSE /\ timers' = 0
        BY <2>2, <3>3
      <4>2. ~polling' /\ polling' \in BOOLEAN
        BY <4>1
      <4> QED
        BY <3>3, <4>1, <4>2
    <3> QED
      BY <3>2, <3>3
  <2>5. events' \in Seq(1..MaxScans) /\ Len(events') = 0 /\ DOMAIN events' = {}
    BY <2>2
  <2>6. TypeOK'
    BY <2>2, <2>3, <2>4, <2>5 DEF IInv, TypeOK, scanVars, runVars
  <2> QED
    BY <2>1, <2>2, <2>4, <2>5, <2>6
    DEF IInv, OneScan, OwnEvents, OneChain, NothingStranded, Rest, Ends, scanVars
<1>2. CASE PollRaises
  <2>1. timers = 1 /\ polling /\ events # <<>> /\ events \in Seq(1..MaxScans)
    BY <1>2 DEF PollRaises, IInv, OneChain, TypeOK
  <2>2. events' = Tail(events) /\ timers' = 0 /\ faults' = faults + 1 /\ faults < MaxFaults
        /\ UNCHANGED <<scanVars, running, polling, callbacks, runVars>>
    BY <1>2, <2>1 DEF PollRaises, MayFail
  <2>3. /\ events' \in Seq(1..MaxScans) /\ Len(events') = Len(events) - 1
        /\ \A i \in DOMAIN events' : i + 1 \in DOMAIN events /\ events'[i] = events[i + 1]
    BY <2>1, <2>2, Shortened
  <2>4. faults' \in 0..MaxFaults /\ faults' # 0 /\ Len(events') <= MaxEvents
    BY <2>1, <2>2, <2>3 DEF IInv, TypeOK
  <2>5. TypeOK'
    BY <2>2, <2>3, <2>4 DEF IInv, TypeOK, scanVars, runVars
  <2>6. OwnEvents'
    BY <2>2, <2>3 DEF IInv, OwnEvents, scanVars
  <2> QED
    BY <2>2, <2>4, <2>5, <2>6
    DEF IInv, OneScan, OneChain, NothingStranded, Rest, Ends, scanVars
<1> QED
  BY <1>1, <1>2

\* The callback that ends a scan is the last in its queue.
LEMMA CallbackStep == ASSUME IInv, RunCallback \/ CallbackRaises PROVE IInv'
<1> USE SessionAssumption
<1> DEFINE S == [scan : 1..MaxScans, of : {"progress"} \cup Finishing]
           c == Head(callbacks)
<1>1. callbacks # <<>> /\ callbacks' = Tail(callbacks) /\ current' = Shown(c)
      /\ UNCHANGED <<scan, kind, worker, cancel, polling, timers, events, runs, raw>>
  BY DEF RunCallback, CallbackRaises, scanVars, windowVars
<1>2. callbacks \in Seq(S)
  BY DEF IInv, TypeOK
<1>3. /\ callbacks' \in Seq(S) /\ Len(callbacks') = Len(callbacks) - 1
      /\ c \in S /\ c = callbacks[1] /\ Len(callbacks) >= 1
      /\ DOMAIN callbacks' = 1..(Len(callbacks) - 1)
      /\ \A i \in DOMAIN callbacks' :
           i + 1 \in DOMAIN callbacks /\ callbacks'[i] = callbacks[i + 1]
  <2> HIDE DEF S
  <2> QED
    BY <1>1, <1>2, Shortened
<1>4. scanning /\ 1 \in DOMAIN callbacks
  BY <1>1, <1>2, <1>3 DEF IInv, Rest
<1>5. c.of \in Finishing => Len(callbacks) = 1 /\ worker = "idle" /\ callbacks' = <<>>
  <2>1. c.of \in Finishing => Len(callbacks) = 1 /\ worker = "idle"
    BY <1>3, <1>4 DEF IInv, OneScan, Ends
  <2>2. Len(callbacks) = 1 => callbacks' = <<>>
    BY <1>3
  <2> QED
    BY <2>1, <2>2
<1>6. /\ scanning' \in BOOLEAN /\ running' \in BOOLEAN
      /\ faults' \in 0..MaxFaults /\ (faults' = 0 => faults = 0)
      /\ ~scanning' => c.of \in Finishing
  <2>1. CASE RunCallback
    <3>1. scanning' = (scanning /\ c.of \notin Finishing) /\ running' = (c.of \notin Finishing)
      BY <2>1 DEF RunCallback, Finishes
    <3>2. faults' = faults /\ faults \in 0..MaxFaults
      BY <2>1 DEF RunCallback, IInv, TypeOK
    <3> QED
      BY <1>4, <3>1, <3>2
  <2>2. CASE CallbackRaises
    <3>1. /\ scanning' = scanning /\ running' = running
          /\ faults < MaxFaults /\ faults' = faults + 1
      BY <2>2 DEF CallbackRaises, MayFail, scanVars, windowVars
    <3>2. scanning \in BOOLEAN /\ running \in BOOLEAN /\ faults \in 0..MaxFaults
      BY DEF IInv, TypeOK
    <3> QED
      BY <1>4, <3>1, <3>2
  <2> QED
    BY <2>1, <2>2
<1>7. current' \subseteq Runs
  <2>1. c.scan \in Runs
    BY <1>3 DEF Runs
  <2> QED
    BY <1>1, <2>1 DEF Shown, IInv, TypeOK
<1>8. TypeOK'
  BY <1>1, <1>3, <1>6, <1>7 DEF IInv, TypeOK
<1>9. OneScan'
  <2>1. worker' # "idle" => scanning'
    BY <1>1, <1>5, <1>6
  <2>2. \A i \in DOMAIN callbacks' :
          /\ callbacks'[i].scan = scan
          /\ callbacks'[i].of \in Finishing => worker = "idle" /\ i = Len(callbacks')
    BY <1>3 DEF IInv, OneScan, Ends
  <2>3. DOMAIN callbacks' # {} => scanning'
    BY <1>5, <1>6
  <2> QED
    BY <1>1, <2>1, <2>2, <2>3 DEF OneScan, Ends
<1> QED
  BY <1>1, <1>4, <1>5, <1>6, <1>8, <1>9
  DEF IInv, OwnEvents, OneChain, NothingStranded, Rest
-----------------------------------------------------------------------------
LEMMA OperatorStep == ASSUME IInv, CancelScan \/ History PROVE IInv'
<1> USE SessionAssumption DEF IInv, OneScan, OwnEvents, OneChain, NothingStranded, Rest, Ends
<1>1. CASE CancelScan
  BY <1>1 DEF CancelScan, TypeOK, windowVars, queueVars, runVars
<1>2. CASE History
  <2>1. UNCHANGED <<scanVars, windowVars, queueVars, faults>>
        /\ current' \subseteq Runs /\ runs' \subseteq Runs /\ raw' \subseteq runs'
    <3>1. current \subseteq Runs /\ runs \subseteq Runs /\ raw \subseteq runs
          /\ 0 \in Runs
      BY DEF TypeOK, Runs
    <3>2. ASSUME NEW r \in Runs, OpenRun(r) \/ PurgeRun(r) \/ DeleteRun(r)
          PROVE  UNCHANGED <<scanVars, windowVars, queueVars, faults>>
                 /\ current' \subseteq Runs /\ runs' \subseteq Runs /\ raw' \subseteq runs'
      BY <3>1, <3>2 DEF OpenRun, PurgeRun, DeleteRun
    <3>3. ASSUME AddRun
          PROVE  UNCHANGED <<scanVars, windowVars, queueVars, faults>>
                 /\ current' \subseteq Runs /\ runs' \subseteq Runs /\ raw' \subseteq runs'
      BY <3>1, <3>3 DEF AddRun
    <3> QED
      BY <1>2, <3>2, <3>3 DEF History
  <2>2. TypeOK'
    BY <2>1 DEF TypeOK, scanVars, windowVars, queueVars
  <2> QED
    BY <2>1, <2>2 DEF scanVars, windowVars, queueVars
<1> QED
  BY <1>1, <1>2

LEMMA StepIInv == IInv /\ [Next]_vars => IInv'
<1> SUFFICES ASSUME IInv, [Next]_vars PROVE IInv'
  OBVIOUS
<1>1. CASE UNCHANGED vars
  BY <1>1
  DEF vars, scanVars, windowVars, queueVars, runVars, IInv, TypeOK, OneScan, OwnEvents,
      OneChain, NothingStranded, Rest, Ends
<1> QED
  BY <1>1, StartStep, ThreadStep, PollStep, CallbackStep, OperatorStep DEF Next

\* The invariant of a session, for every number of scans and faults.
THEOREM Session == Spec => []IInv
<1> QED
  BY InitIInv, StepIInv, PTL DEF Spec

\* TypeOK of a session: flags, queues and runs keep their types.
THEOREM TypeCorrect == Spec => []TypeOK
<1>1. IInv => TypeOK
  BY DEF IInv
<1> QED
  BY <1>1, Session, PTL

\* The window never has two scans, whatever its handlers raise.
THEOREM OneScanAtATime == Spec => []OneScan
<1>1. IInv => OneScan
  BY DEF IInv
<1> QED
  BY <1>1, Session, PTL

\* The scan table never shows events of an earlier scan, one poll chain empties
\* the queue, and without faults nothing stays in it unpolled.
THEOREM QueuesAreServed == Spec => []QueuesServed
<1>1. IInv => QueuesServed
  BY DEF IInv, QueuesServed
<1> QED
  BY <1>1, Session, PTL

\* A thread never starts with a cancellation meant for an earlier scan, and a
\* request made while it works stands.
THEOREM CancellationIsOwn == Spec => CancelIsOwn
<1> DEFINE A == /\ worker = "idle" /\ worker' # "idle" => ~cancel'
                /\ worker # "idle" /\ cancel => cancel'
<1>1. IInv /\ [Next]_vars => [A]_vars
  <2> SUFFICES ASSUME IInv, Next PROVE A
    BY DEF A
  <2>1. CASE Start
    <3>1. PICK k \in Kinds : BeginScan(k)
      BY <2>1 DEF Start, StartLive, StartLiveFails, StartOffline
    <3> QED
      BY <3>1, BeginStep
  <2>2. CASE ~Start
    BY <2>2
    DEF Next, CancelScan, History, OpenRun, PurgeRun, DeleteRun, AddRun, ImportBegins,
        Collect, EmitProgress, ReportCollected, ThreadEnds, ThreadCompletes, ThreadFails,
        PollEvents, PollRaises, RunCallback, CallbackRaises, scanVars
  <2> QED
    BY <2>1, <2>2
<1> QED
  BY <1>1, Session, PTL DEF Spec, CancelIsOwn, A

\* As long as the window's current run is the active one, purge and delete leave
\* the active run and its evidence alone.
THEOREM GuardIsSound == Spec => GuardProtects
<1> DEFINE A == worker # "idle" /\ current = {scan} => Untouched(scan)
<1>1. IInv /\ [Next]_vars => [A]_vars
  <2> SUFFICES ASSUME IInv, Next, worker # "idle", current = {scan} PROVE Untouched(scan)
    BY DEF A
  <2>1. scanning
    BY DEF IInv, OneScan
  <2>2. CASE Start
    BY <2>1, <2>2 DEF Start, StartLive, StartLiveFails, StartOffline, BeginScan, MayBegin
  <2>3. CASE History
    BY <2>1, <2>3 DEF History, OpenRun, PurgeRun, DeleteRun, AddRun, Protected, Untouched, runVars
  <2>4. CASE ~Start /\ ~History
    BY <2>4
    DEF Next, CancelScan, ImportBegins, Collect, EmitProgress, ReportCollected, ThreadEnds,
        ThreadCompletes, ThreadFails, PollEvents, PollRaises, RunCallback, CallbackRaises,
        runVars, Untouched
  <2> QED
    BY <2>2, <2>3, <2>4
<1> QED
  BY <1>1, Session, PTL DEF Spec, GuardProtects, A
=============================================================================
