---------------------------- MODULE Applications ----------------------------
(* One entry of the client's applications table: its Download, Run and Kill  *)
(* resources, the download threads that write State and Error Code while the *)
(* main loop does, and the processes Run starts.  Entries share nothing.     *)
EXTENDS Integers

CONSTANTS
    Threads,      \* the downloads that can be in progress at a time
    MaxRuns,      \* the processes ever started (bound)
    MaxWords,     \* the words of Args (bound)
    Urls,         \* the kinds of URL written
    Exits,        \* what system() returns for the tftp command
    Faults,       \* "memory": malloc fails; "threads", "forks": no resources
    Reaped        \* may SIGCHLD be ignored at start: a subset of BOOLEAN

ASSUME BoundsAssumption == MaxRuns \in Nat /\ MaxWords \in Nat

ASSUME InputAssumption ==
    /\ Urls \subseteq {"tftp", "tftp without a path", "other"}
    \* an exit status s is returned as 256 * s; 1 is the tftp killed by SIGHUP
    /\ Exits \subseteq {0, 1, 256, -1}
    /\ Faults \subseteq {"memory", "threads", "forks"}
    /\ Reaped \subseteq BOOLEAN

VARIABLES
    state, error,     \* the resources State and Error Code
    pid,              \* 0 or the process of the last Run
    args, url,        \* the words in Args, the kind of URL
    file,             \* the file Name names
    processes,        \* what became of each process
    downloads,        \* the download threads
    failing,          \* applications_update is about to write ERROR
    written,          \* the words last written to Args
    passed,           \* the last Run passed all of them
    reaped,           \* SIGCHLD is ignored, so that the kernel reaps the children
    undefined

vars == <<state, error, pid, args, url, file, processes, downloads, failing,
          written, passed, reaped, undefined>>

main   == <<pid, args, url, failing, written, passed, reaped, undefined>>

States == {"IDLE", "DOWNLOADING", "DOWNLOADED", "RUNNING", "ERROR"}
NO_ERROR      == 0
ERROR_RUNNING == 6
INVALID_URL   == 7
Errors == {NO_ERROR, ERROR_RUNNING, INVALID_URL, 1, 256, -1}
Pids   == 1..MaxRuns
Words  == 0..MaxWords
Downloads == [pc : {"free", "system", "error", "state", "invalid", "chmod"},
              ret : {0, 1, 256, -1}]
Free   == [pc |-> "free", ret |-> 0]

TypeOK ==
    /\ state \in States /\ error \in Errors
    /\ pid \in 0..MaxRuns
    /\ args \in Words /\ written \in Words
    /\ url \in Urls \cup {"other"}
    /\ file \in {"absent", "data", "executable"}
    /\ processes \in [Pids -> {"none", "running", "stopping", "zombie", "gone"}]
    /\ downloads \in [Threads -> Downloads]
    /\ failing \in BOOLEAN /\ passed \in BOOLEAN
    /\ reaped \in BOOLEAN /\ undefined \in BOOLEAN

Init ==
    /\ state = "IDLE" /\ error = NO_ERROR /\ pid = 0
    /\ args = 0 /\ written = 0 /\ passed = TRUE /\ url = "other"
    /\ file \in {"absent", "executable"}
    /\ processes = [p \in Pids |-> "none"]
    /\ downloads = [d \in Threads |-> Free]
    /\ failing = FALSE /\ undefined = FALSE
    /\ reaped \in Reaped

\* The main loop handles one request, or one expiry of the timer, at a time.
MainLoop == ~failing /\ ~undefined

-----------------------------------------------------------------------------
(* The resources, as the server uses them *)

WriteArgs(n) ==
    /\ MainLoop
    /\ args' = n /\ written' = n
    /\ UNCHANGED <<state, error, pid, url, file, processes, downloads, failing,
                   passed, reaped, undefined>>

WriteUrl(u) ==
    /\ MainLoop
    /\ url' = u
    /\ UNCHANGED <<state, error, pid, args, file, processes, downloads, failing,
                   written, passed, reaped, undefined>>

\* download_cmd: a thread of its own runs the command.  pthread_create fails
\* with a positive code, which is taken for success: the thread detached then
\* is an uninitialized one.
DownloadCmd ==
    \/ /\ \E d \in Threads :
             /\ downloads[d].pc = "free"
             /\ downloads' = [downloads EXCEPT ![d] = [pc |-> "system", ret |-> 0]]
       /\ UNCHANGED undefined
    \/ "memory" \in Faults /\ UNCHANGED <<downloads, undefined>>
    \/ "threads" \in Faults /\ undefined' = TRUE /\ UNCHANGED downloads

\* exec_download.  For an address without a path, tftpFile copies the string
\* at NULL + 1 before anybody looks at what tftpHost returned; and nobody looks
\* whether there was memory for the command, which is written nonetheless.
Download ==
    /\ MainLoop
    /\ \/ /\ url = "tftp"
          /\ state' = "DOWNLOADING" /\ error' = NO_ERROR
          /\ DownloadCmd
       \/ /\ \/ url = "tftp without a path"
             \/ url = "tftp" /\ "memory" \in Faults
          /\ undefined' = TRUE
          /\ UNCHANGED <<state, error, downloads>>
       \/ \* an unknown protocol, or no memory for the parts of the address
          /\ url = "other" \/ "memory" \in Faults
          /\ UNCHANGED <<state, error, downloads, undefined>>
    /\ UNCHANGED <<pid, args, url, file, processes, failing, written, passed,
                   reaped>>

\* What a process that ended leaves behind.
Dead == IF reaped THEN "gone" ELSE "zombie"

\* Variant: a second Run does not look at pid.
Always == TRUE

\* The check of exec_run.
NotRunning == pid = 0

\* Variant: the words are copied before they are cut.
WordsKept == args

\* strtok ends the first word of Args where it lies.
WordsLeft == IF args = 0 THEN 0 ELSE 1

\* Variant: what vfork returns is stored before it is looked at.
PidStored(ret) == ret

PidAfter(ret) == IF ret > 0 THEN ret ELSE pid

\* exec_run, exec_run_fork.  A child whose exec fails calls exit in the memory
\* that vfork lets it share; vfork has succeeded all the same.
Run ==
    /\ MainLoop /\ NotRunning
    /\ \/ /\ \E p \in Pids :
                /\ processes[p] = "none"
                /\ processes' = [processes EXCEPT ![p] =
                      IF file = "executable" THEN "running" ELSE Dead]
                /\ pid' = PidAfter(p)
          /\ state' = "RUNNING" /\ args' = WordsLeft
          /\ passed' = (args = written)
          /\ undefined' \in {FALSE, file # "executable"}
          /\ UNCHANGED error
       \/ /\ "forks" \in Faults
          /\ state' = "ERROR" /\ error' = ERROR_RUNNING /\ args' = WordsLeft
          /\ pid' = PidAfter(-1)
          /\ UNCHANGED <<processes, passed, undefined>>
       \/ \* no memory for the command; or for the name of the directory,
          \* whose length is taken before anybody looks
          /\ "memory" \in Faults
          /\ undefined' \in BOOLEAN
          /\ UNCHANGED <<state, error, pid, args, processes, passed>>
    /\ UNCHANGED <<url, file, downloads, failing, written, reaped>>

\* Variant: the state is left as it was.
Kept == state

AfterKill == "IDLE"

\* exec_kill: SIGTERM reaches a process that is there, a zombie too.
Kill ==
    /\ MainLoop /\ pid > 0
    /\ processes[pid] # "gone"
    /\ processes' = [processes EXCEPT ![pid] =
                        IF @ = "running" THEN "stopping" ELSE @]
    /\ pid' = 0 /\ state' = AfterKill
    /\ UNCHANGED <<error, args, url, file, downloads, failing, written, passed,
                   reaped, undefined>>

-----------------------------------------------------------------------------
(* applications_update, on every expiry of the timer *)

\* Variant: the process is never looked for.
Nobody == FALSE

\* exec_check: kill(pid, 0) fails.
Missing == pid = 0 \/ processes[pid] = "gone"

\* The check and the write are apart: a download thread may run in between.
ApplicationsCheck ==
    /\ MainLoop /\ state = "RUNNING" /\ Missing
    /\ failing' = TRUE
    /\ UNCHANGED <<state, error, pid, args, url, file, processes, downloads,
                   written, passed, reaped, undefined>>

ApplicationsFail ==
    /\ failing
    /\ state' = "ERROR" /\ error' = ERROR_RUNNING /\ failing' = FALSE
    /\ UNCHANGED <<pid, args, url, file, processes, downloads, written, passed,
                   reaped, undefined>>

-----------------------------------------------------------------------------
(* download_thread: each of its writes is a step of its own *)

At(d, pc) == ~undefined /\ downloads[d].pc = pc

Goto(d, pc) == downloads' = [downloads EXCEPT ![d].pc = pc]

Ends(d) == downloads' = [downloads EXCEPT ![d] = Free]

\* The command ends; system() cannot tell how when its child was reaped.  When
\* it succeeds the file is there; when it is not known to have succeeded, the
\* file may be there too.
SystemReturns(d, ret) ==
    /\ At(d, "system")
    /\ reaped => ret = -1
    /\ downloads' = [downloads EXCEPT ![d] = [pc |-> "error", ret |-> ret]]
    /\ \/ file = "absent" /\ file' = "data"
       \/ ~(file = "absent" /\ ret = 0) /\ file' = file
    /\ UNCHANGED <<main, state, error, processes>>

\* Variant: a failure is not told.
FailureUntold(ret) == IF ret = 0 THEN "DOWNLOADED" ELSE state

\* The wait status is stored as it is.
WriteError(d) ==
    /\ At(d, "error")
    /\ error' = downloads[d].ret
    /\ Goto(d, "state")
    /\ UNCHANGED <<main, state, processes, file>>

Outcome(ret) == IF ret = 0 THEN "DOWNLOADED" ELSE "ERROR"

WriteState(d) ==
    LET ret == downloads[d].ret
    IN  /\ At(d, "state")
        /\ state' = Outcome(ret)
        /\ IF ret = 0 THEN Goto(d, "chmod")
           ELSE IF ret = 1 THEN Goto(d, "invalid")
           ELSE Ends(d)
        /\ UNCHANGED <<main, error, processes, file>>

WriteInvalidUrl(d) ==
    /\ At(d, "invalid")
    /\ error' = INVALID_URL
    /\ Ends(d)
    /\ UNCHANGED <<main, state, processes, file>>

\* chmod fails when Name is not the name of the file that was fetched.
Chmod(d) ==
    /\ At(d, "chmod")
    /\ file' \in {file, "executable"}
    /\ Ends(d)
    /\ UNCHANGED <<main, state, error, processes>>

-----------------------------------------------------------------------------
(* A process ends, by itself or of the SIGTERM *)

ProcessEnds(p) ==
    /\ ~undefined /\ processes[p] \in {"running", "stopping"}
    /\ processes' = [processes EXCEPT ![p] = Dead]
    /\ UNCHANGED <<main, state, error, file, downloads>>

-----------------------------------------------------------------------------

ThreadStep(d) ==
    \/ \E ret \in Exits : SystemReturns(d, ret)
    \/ WriteError(d) \/ WriteState(d) \/ WriteInvalidUrl(d) \/ Chmod(d)

Next ==
    \/ \E n \in Words : WriteArgs(n)
    \/ \E u \in Urls : WriteUrl(u)
    \/ Download \/ Run \/ Kill
    \/ ApplicationsCheck \/ ApplicationsFail
    \/ \E d \in Threads : ThreadStep(d)
    \/ \E p \in Pids : ProcessEnds(p)

Spec == Init /\ [][Next]_vars

\* The timer makes the main loop call applications_update; the system runs the
\* threads, and the tftp command ends.
FairSpec ==
    /\ Spec
    /\ WF_vars(ApplicationsCheck) /\ WF_vars(ApplicationsFail)
    /\ \A d \in Threads : WF_vars(ThreadStep(d))

-----------------------------------------------------------------------------
(* Properties *)

\* A process that runs and was not told to stop is the one pid names, so that
\* Kill can reach it: no Run, Kill or Download loses an application.
Tracked == \A p \in Pids : processes[p] = "running" => pid = p

\* State says RUNNING only of a process that was started and not killed,
\* whichever order the handlers, the timer and the threads wrote it in.
RunningWasStarted == state = "RUNNING" => pid # 0

\* A download that got its thread is not shown as in progress for ever.  (One
\* that found no memory for it is.)
DownloadSettles ==
    \A d \in Threads :
        downloads[d].pc = "system" ~> state # "DOWNLOADING" \/ undefined

\* The status timer finds a process that is gone, whatever the threads write
\* meanwhile.
EndIsNoticed ==
    (\E p \in Pids : pid = p /\ processes[p] = "gone")
        ~> state # "RUNNING" \/ undefined

\* README, "Application status is obtained by reading application Status":
\* an application that ended is not shown as RUNNING for ever.
StatusIsCurrent ==
    (\E p \in Pids : pid = p /\ processes[p] \in {"zombie", "gone"})
        ~> state # "RUNNING" \/ undefined

\* The same line: once Run has answered, State says RUNNING until Kill, another
\* Download or applications_update has written it.
RunIsShown ==
    [][state = "RUNNING" /\ state' # "RUNNING" =>
          Kill \/ Download \/ ApplicationsFail]_vars

\* README, "WRITE application args", "EXEC application Run": Run passes what
\* was last written.
ArgsPassed == passed

\* exec_download, "Invalid TFTP address": such an address is refused.
InvalidAddressRefused ==
    [][url = "tftp without a path" /\ Download => ~undefined']_vars

\* applications.h lists the values of Error Code.  They are read once the
\* download that wrote them has ended.
DocumentedError ==
    (\A d \in Threads : downloads[d].pc = "free") =>
        error \in (0..7) \ {1}

=============================================================================
