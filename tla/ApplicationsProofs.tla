------------------------ MODULE ApplicationsProofs ------------------------
(* What holds of an applications entry whatever the number of downloads and  *)
(* runs, and whichever way the threads, the timer and the handlers interleave *)
EXTENDS Applications, TLAPS

\* The names the proofs use: both properties, and the types they need.
IInv == TypeOK /\ Tracked /\ RunningWasStarted

LEMMA InitHolds == Init => IInv
  <1> SUFFICES ASSUME Init PROVE IInv
    OBVIOUS
  <1>1. TypeOK
    <2>1. downloads \in [Threads -> Downloads]
      BY DEF Init, Free, Downloads
    <2>2. processes \in [Pids -> {"none", "running", "stopping", "zombie", "gone"}]
      BY DEF Init
    <2>3. pid \in 0..MaxRuns /\ args \in Words /\ written \in Words
      BY BoundsAssumption DEF Init, Words
    <2>4. reaped \in BOOLEAN
      BY InputAssumption DEF Init
    <2>5. QED
      BY <2>1, <2>2, <2>3, <2>4 DEF Init, TypeOK, States, Errors
  <1>2. Tracked
    BY DEF Init, Tracked
  <1>3. RunningWasStarted
    BY DEF Init, RunningWasStarted
  <1>4. QED
    BY <1>1, <1>2, <1>3 DEF IInv

LEMMA HandlerKeeps ==
    ASSUME IInv,
           (\E n \in Words : WriteArgs(n)) \/ (\E u \in Urls : WriteUrl(u))
    PROVE  IInv'
  BY DEF IInv, TypeOK, Tracked, RunningWasStarted, WriteArgs, WriteUrl

LEMMA DownloadKeeps ==
    ASSUME IInv, Download
    PROVE  IInv'
  <1>1. /\ state' = state \/ state' = "DOWNLOADING"
        /\ error' = error \/ error' = NO_ERROR
        /\ undefined' = undefined \/ undefined' = TRUE
        /\ UNCHANGED <<pid, args, url, file, processes, failing, written, passed,
                       reaped>>
    BY DEF Download, DownloadCmd
  <1>2. downloads' \in [Threads -> Downloads]
    <2>1. CASE \E d \in Threads :
                  downloads' = [downloads EXCEPT ![d] = [pc |-> "system", ret |-> 0]]
      BY <2>1 DEF IInv, TypeOK, Downloads
    <2>2. CASE UNCHANGED downloads
      BY <2>2 DEF IInv, TypeOK
    <2>3. QED
      BY <2>1, <2>2 DEF Download, DownloadCmd
  <1>3. TypeOK'
    <2>1. state' \in States /\ error' \in Errors
      BY <1>1 DEF IInv, TypeOK, States, Errors
    <2>2. undefined' \in BOOLEAN
      BY <1>1 DEF IInv, TypeOK
    <2>3. QED
      BY <1>1, <1>2, <2>1, <2>2 DEF IInv, TypeOK
  <1>4. Tracked'
    BY <1>1 DEF IInv, Tracked
  <1>5. RunningWasStarted'
    BY <1>1 DEF IInv, RunningWasStarted
  <1>6. QED
    BY <1>3, <1>4, <1>5 DEF IInv

\* No process runs untold when pid is 0, so the new one is the only one.
LEMMA RunKeeps ==
    ASSUME IInv, Run
    PROVE  IInv'
  <1>1. WordsLeft \in Words
    BY BoundsAssumption DEF WordsLeft, Words, IInv, TypeOK
  <1>2. \A p \in Pids : processes[p] # "running"
    BY DEF IInv, Tracked, Run, NotRunning, Pids
  <1>3. ASSUME state' \in {state, "ERROR"}, error' \in {error, ERROR_RUNNING},
               args' \in {args, WordsLeft}, undefined' \in BOOLEAN,
               UNCHANGED <<processes, pid, passed>>
        PROVE  IInv'
    <2>1. state' \in States /\ error' \in Errors
      BY <1>3 DEF IInv, TypeOK, States, Errors
    <2>2. TypeOK'
      BY <1>1, <1>3, <2>1 DEF Run, IInv, TypeOK
    <2>3. QED
      BY <1>3, <2>2 DEF IInv, Tracked, RunningWasStarted
  <1>4. ASSUME NEW p \in Pids,
               processes' = [processes EXCEPT ![p] =
                  IF file = "executable" THEN "running" ELSE Dead],
               pid' = p, state' = "RUNNING", passed' = (args = written),
               args' = WordsLeft, undefined' \in BOOLEAN, UNCHANGED error
        PROVE  IInv'
    <2>1. processes' \in [Pids -> {"none", "running", "stopping", "zombie", "gone"}]
      BY <1>4 DEF IInv, TypeOK, Dead
    <2>2. passed' \in BOOLEAN
      BY <1>4
    <2>3. pid' \in 0..MaxRuns /\ state' \in States
      BY <1>4 DEF Pids, States
    <2>4. TypeOK'
      BY <1>1, <1>4, <2>1, <2>2, <2>3 DEF Run, IInv, TypeOK
    <2>5. Tracked'
      BY <1>2, <1>4 DEF Tracked, IInv, TypeOK
    <2>6. RunningWasStarted'
      BY <1>4 DEF RunningWasStarted, Pids
    <2>7. QED
      BY <2>4, <2>5, <2>6 DEF IInv
  <1>5. PidAfter(-1) = pid /\ \A p \in Pids : PidAfter(p) = p
    BY DEF PidAfter, Pids
  <1>6. undefined' \in BOOLEAN
    BY DEF Run, IInv, TypeOK
  <1>7. QED
    BY <1>3, <1>4, <1>5, <1>6, Zenon DEF Run

LEMMA KillKeeps ==
    ASSUME IInv, Kill
    PROVE  IInv'
  <1>1. pid \in Pids
    BY DEF Kill, IInv, TypeOK, Pids
  <1>2. TypeOK'
    BY <1>1, BoundsAssumption DEF Kill, AfterKill, IInv, TypeOK, States
  <1>3. Tracked'
    BY <1>1 DEF Kill, IInv, TypeOK, Tracked
  <1>4. RunningWasStarted'
    BY DEF Kill, AfterKill, RunningWasStarted
  <1>5. QED
    BY <1>2, <1>3, <1>4 DEF IInv

LEMMA UpdateKeeps ==
    ASSUME IInv, ApplicationsCheck \/ ApplicationsFail
    PROVE  IInv'
  <1>1. /\ state' \in {state, "ERROR"} /\ error' \in {error, ERROR_RUNNING}
        /\ failing' \in BOOLEAN
        /\ UNCHANGED <<pid, args, url, file, processes, downloads, written,
                       passed, reaped, undefined>>
    BY DEF ApplicationsCheck, ApplicationsFail
  <1>2. error' \in Errors /\ state' \in States
    BY <1>1 DEF IInv, TypeOK, Errors, States
  <1>3. QED
    BY <1>1, <1>2 DEF IInv, TypeOK, Tracked, RunningWasStarted

\* A thread writes any state but RUNNING.
LEMMA ThreadKeeps ==
    ASSUME IInv, NEW d \in Threads, ThreadStep(d)
    PROVE  IInv'
  <1>1. /\ UNCHANGED <<main, processes>>
        /\ state' \in {state, "DOWNLOADED", "ERROR"}
        /\ file' \in {file, "data", "executable"}
    BY DEF ThreadStep, SystemReturns, WriteError, WriteState, WriteInvalidUrl,
           Chmod, Outcome
  <1>2. error' \in Errors
    <2>1. downloads[d].ret \in {0, 1, 256, -1}
      BY DEF IInv, TypeOK, Downloads
    <2>2. error' \in {error, INVALID_URL, downloads[d].ret}
      BY DEF ThreadStep, SystemReturns, WriteError, WriteState, WriteInvalidUrl,
             Chmod
    <2>3. QED
      BY <2>1, <2>2 DEF Errors, INVALID_URL, NO_ERROR, IInv, TypeOK
  <1>3. downloads' \in [Threads -> Downloads]
    <2>1. ASSUME NEW ret \in Exits, SystemReturns(d, ret)
          PROVE  downloads' = [downloads EXCEPT ![d] = [pc |-> "error", ret |-> ret]]
      BY <2>1 DEF SystemReturns
    <2>2. \/ \E ret \in Exits :
                downloads' = [downloads EXCEPT ![d] = [pc |-> "error", ret |-> ret]]
          \/ Ends(d)
          \/ \E pc \in {"state", "invalid", "chmod"} : Goto(d, pc)
      BY <2>1 DEF ThreadStep, WriteError, WriteState, WriteInvalidUrl, Chmod
    <2>3. CASE \E ret \in Exits :
                downloads' = [downloads EXCEPT ![d] = [pc |-> "error", ret |-> ret]]
      <3>1. PICK ret \in Exits :
               downloads' = [downloads EXCEPT ![d] = [pc |-> "error", ret |-> ret]]
        BY <2>3
      <3>2. [pc |-> "error", ret |-> ret] \in Downloads
        BY InputAssumption DEF Downloads
      <3>3. QED
        BY <3>1, <3>2 DEF IInv, TypeOK
    <2>4. CASE Ends(d)
      BY <2>4 DEF Ends, Free, IInv, TypeOK, Downloads
    <2>5. CASE \E pc \in {"state", "invalid", "chmod"} : Goto(d, pc)
      BY <2>5 DEF Goto, IInv, TypeOK, Downloads
    <2>6. QED
      BY <2>2, <2>3, <2>4, <2>5
  <1>4. TypeOK'
    BY <1>1, <1>2, <1>3 DEF main, IInv, TypeOK, States
  <1>5. Tracked' /\ RunningWasStarted'
    BY <1>1 DEF main, IInv, Tracked, RunningWasStarted
  <1>6. QED
    BY <1>4, <1>5 DEF IInv

LEMMA ProcessKeeps ==
    ASSUME IInv, NEW p \in Pids, ProcessEnds(p)
    PROVE  IInv'
  <1>1. TypeOK'
    BY DEF ProcessEnds, main, Dead, IInv, TypeOK
  <1>2. Tracked'
    BY DEF ProcessEnds, main, Dead, IInv, TypeOK, Tracked
  <1>3. RunningWasStarted'
    BY DEF ProcessEnds, main, IInv, RunningWasStarted
  <1>4. QED
    BY <1>1, <1>2, <1>3 DEF IInv

LEMMA NextKeeps == IInv /\ [Next]_vars => IInv'
  <1> SUFFICES ASSUME IInv, [Next]_vars PROVE IInv'
    OBVIOUS
  <1>1. CASE UNCHANGED vars
    BY <1>1 DEF vars, IInv, TypeOK, Tracked, RunningWasStarted
  <1>2. CASE Next
    BY <1>2, HandlerKeeps, DownloadKeeps, RunKeeps, KillKeeps, UpdateKeeps,
       ThreadKeeps, ProcessKeeps DEF Next
  <1>3. QED
    BY <1>1, <1>2

THEOREM EntryInvariant == Spec => []IInv
  BY InitHolds, NextKeeps, PTL DEF Spec

\* Every variable keeps its type, whatever the threads and processes do.
THEOREM TypeCorrect == Spec => []TypeOK
  <1>1. IInv => TypeOK
    BY DEF IInv
  <1>2. QED
    BY <1>1, EntryInvariant, PTL

\* Kill can reach every application that runs and was not told to stop, for
\* every number of runs and of downloads in progress.
THEOREM NoLostApplication == Spec => []Tracked
  <1>1. IInv => Tracked
    BY DEF IInv
  <1>2. QED
    BY <1>1, EntryInvariant, PTL

\* RUNNING is never left, nor written, over an application that was not
\* started or was killed, whatever the download threads write meanwhile.
THEOREM NoPhantomRun == Spec => []RunningWasStarted
  <1>1. IInv => RunningWasStarted
    BY DEF IInv
  <1>2. QED
    BY <1>1, EntryInvariant, PTL

=============================================================================
