---------------------------- MODULE ManagedServer ----------------------------
(***************************************************************************)
(* The notebook a build owns: OwnedNotebook of producer.py, ManagedServer  *)
(* and _SessionStream of _remote/managed.py and _remote/windows_job.py.    *)
(*                                                                         *)
(* The owner copies the notebook, starts a server for the copy, follows    *)
(* its event stream while the kernel runs the notebook once, and stops     *)
(* everything it started.  Around it processes die and fork, the port is   *)
(* taken by a stranger, events arrive when they like, the notebook is      *)
(* edited, and any call may fail or be interrupted (a fault).  A group is  *)
(* a process group, or on Windows the part of the job.                     *)
(***************************************************************************)
EXTENDS Naturals, Sequences, FiniteSets

CONSTANTS
    Attempts,   \* _START_ATTEMPTS
    MaxFaults,  \* bound of the calls that fail
    MaxEdits,   \* bound of the edits of the notebook
    MaxOps      \* bound of the operations of the owner

ASSUME ManagedAssumption ==
    Attempts \in Nat \ {0} /\ MaxFaults \in Nat /\ MaxEdits \in Nat /\ MaxOps \in Nat

Tries == 1..Attempts

VARIABLES
    posix,  \* sys.platform # "win32"
    ow,     \* the owner: OwnedNotebook, ManagedServer and the call that runs
    procs,  \* the server of each attempt and the kernel it forked
    ss,     \* the _SessionStream and its reader thread
    wire,   \* the events sent and not yet read
    edits   \* the revision of the notebook's file

managedVars == <<posix, ow, procs, ss, wire, edits>>

NoStream == [thread |-> "none", closed |-> FALSE, ready |-> FALSE, completed |-> 0,
             generation |-> 0, active |-> FALSE, failed |-> FALSE]

ManagedInit ==
    /\ posix \in BOOLEAN
    /\ ow = [pc |-> "enter", ret |-> "none", attempt |-> 0, process |-> 0, job |-> FALSE,
             groups |-> {}, target |-> {}, known |-> FALSE, failures |-> {}, reported |-> {},
             files |-> "none", copy |-> "none", first |-> 0, copied |-> 0, late |-> FALSE,
             after |-> 0, seen |-> 0, client |-> FALSE, server |-> FALSE, closing |-> FALSE,
             ops |-> 0, faults |-> 0, refused |-> FALSE, unremoved |-> FALSE]
    /\ procs = [a \in Tries |-> [server |-> "none", kernel |-> "none", group |-> "server",
                                 port |-> "unbound", ran |-> << >>]]
    /\ ss = NoStream /\ wire = << >> /\ edits = 0

-----------------------------------------------------------------------------
(* Processes.  Both kinds of group are named by the attempt.               *)

Live(a) == procs[a].server = "live"
Members(a) == {<<a, "server">>} \cup
              (IF procs[a].kernel = "live" THEN {<<a, procs[a].group>>} ELSE {})

\* _owned_process_groups: nothing once the server itself is gone.
OwnedProcessGroups == IF posix /\ ow.process # 0 /\ Live(ow.process) THEN Members(ow.process)
                      ELSE {}

Killed(state, hit) == IF hit /\ state = "live" THEN "dead" ELSE state
KillGroups(groups) ==
    [a \in Tries |-> [procs[a] EXCEPT
        !.server = Killed(@, <<a, "server">> \in groups),
        !.kernel = Killed(@, <<a, procs[a].group>> \in groups)]]
KillTree(a) == KillGroups({<<a, "server">>, <<a, "kernel">>})

ServerRuns == ow.process # 0 /\ Live(ow.process)

OtherUnchanged == UNCHANGED <<posix, edits>>
Rest == UNCHANGED <<procs, ss, wire>> /\ OtherUnchanged
OwnerAt(pc) == ow.pc = pc
Goto(pc) == ow' = [ow EXCEPT !.pc = pc]
Fault(kind) == ow.faults < MaxFaults /\ kind \in {"error", "cancel"}

\* A call of the owner that may fail, and what the failure becomes.
Failing(o, kind) == [o EXCEPT !.faults = @ + 1, !.failures = @ \cup {kind}]

\* An exception of __init__ of the server is cleaned up there, any other closes the context.
Raised(o) ==
    [o EXCEPT !.failures = {},
              !.pc = IF o.files = "open" /\ ~o.server THEN "init_failed" ELSE "close"]
RaisedFault(o) == Raised([o EXCEPT !.faults = @ + 1])
CallFails == ow.faults < MaxFaults /\ ow' = RaisedFault(ow)

-----------------------------------------------------------------------------
(* __enter__: the copy is of the revision that was read first.             *)

Enter ==
    /\ OwnerAt("enter") /\ Rest
    /\ ow' = [ow EXCEPT !.pc = "copy", !.first = edits]

\* _copy_notebook: read again, compared, written and synced; a copy that fails is unlinked.
CopyNotebook ==
    /\ OwnerAt("copy") /\ Rest
    /\ IF edits # ow.first THEN ow' = Raised(ow)
       ELSE \/ ow' = [ow EXCEPT !.pc = "constructor", !.copy = "kept", !.copied = edits]
            \/ CallFails

\* _require_source_stable, then ManagedServer.__init__ up to its first spawn.
Constructor ==
    /\ OwnerAt("constructor") /\ Rest
    /\ IF edits # ow.first THEN ow' = Raised(ow)
       ELSE \/ ow' = [ow EXCEPT !.pc = "spawn", !.files = "open"]
            \/ ow' = Raised([ow EXCEPT !.files = "open"])    \* the lifespan policy

\* A Windows process starts suspended and resumes once the job owns it.
Spawn ==
    /\ OwnerAt("spawn") /\ UNCHANGED <<ss, wire>> /\ OtherUnchanged
    /\ LET a == ow.attempt + 1
           o == [ow EXCEPT !.attempt = a, !.process = a,
                           !.groups = IF posix THEN @ \cup {<<a, "server">>} ELSE @]
           P == [procs EXCEPT ![a].server = "live"]
       IN
       \/ CallFails /\ UNCHANGED procs
       \/ procs' = P /\ ow' = [o EXCEPT !.pc = "token", !.job = ~posix]
       \/ /\ ~posix /\ ow.faults < MaxFaults     \* create_for_process fails
          /\ ow' = RaisedFault(o)
          /\ procs' \in {P, [P EXCEPT ![a].server = "dead"]}

SendToken ==
    /\ OwnerAt("token") /\ Rest
    /\ \/ ServerRuns /\ Goto("wait_ready")
       \/ ~ServerRuns /\ Goto("lost")
       \/ ow.faults < MaxFaults /\ ow' = [ow EXCEPT !.pc = "lost", !.faults = @ + 1]
       \/ CallFails         \* an interrupt

WaitReady ==
    /\ OwnerAt("wait_ready") /\ Rest
    /\ \/ ServerRuns /\ procs[ow.process].port = "bound"
          /\ ow' = [ow EXCEPT !.pc = "stream", !.server = TRUE]
       \/ (~ServerRuns \/ ow.late) /\ Goto("lost")
       \/ CallFails

\* Only a server that exited because its port was in use is tried again.
LostPort(o) ==
    /\ o.attempt < Attempts /\ ~o.late
    /\ ~Live(o.process) /\ procs[o.process].port = "lost"

StartFailed ==
    /\ OwnerAt("lost") /\ Rest
    /\ ow' = IF LostPort(ow) THEN [ow EXCEPT !.pc = "sp_begin", !.ret = "retry"] ELSE Raised(ow)

Retry ==
    /\ OwnerAt("retry") /\ Rest
    /\ ow' = IF ow.failures # {} THEN Raised(ow) ELSE [ow EXCEPT !.pc = "spawn", !.groups = {}]

InitFailed ==
    /\ OwnerAt("init_failed") /\ Rest
    /\ ow' = [ow EXCEPT !.pc = "sp_begin", !.ret = "files"]

-----------------------------------------------------------------------------
(* activate                                                                *)

\* Mutation of WithGroups: what the kernel forked is not looked at before it runs.
NothingRecorded(o) == o

\* _record_owned_process_groups
WithGroups(o) == [o EXCEPT !.groups = @ \cup OwnedProcessGroups]

OpenStream ==
    /\ OwnerAt("stream") /\ UNCHANGED <<procs, wire>> /\ OtherUnchanged
    /\ \/ /\ ServerRuns
          /\ ss' = [ss EXCEPT !.thread = "reads"]
          /\ ow' = [ow EXCEPT !.pc = "kernel", !.seen = 0]
       \/ ~ServerRuns /\ ow' = Raised(ow) /\ UNCHANGED ss
       \/ CallFails /\ UNCHANGED ss

\* _wait: the condition, then the failure, then the clock that accepted events restart.
Wait(pc, condition, then) ==
    /\ OwnerAt(pc) /\ Rest
    /\ \/ condition /\ ow' = then
       \/ ~condition /\ ss.failed /\ ow' = Raised(ow)
       \/ ~condition /\ ~ss.failed /\ ss.generation # ow.seen
          /\ ow' = [ow EXCEPT !.seen = ss.generation]
       \/ ~condition /\ ~ss.failed /\ ss.generation = ow.seen /\ ow' = Raised(ow)

WaitForKernel ==
    Wait("kernel", ss.ready, [WithGroups(ow) EXCEPT !.pc = "instantiate", !.after = ss.completed])
RecordFails == OwnerAt("kernel") /\ ss.ready /\ posix /\ CallFails /\ Rest

\* The events of a run of one cell, which may leave it active.
Events(request) == IF request = "instantiate" THEN {<<"done">>}
                   ELSE {<<"active", "idle", "done">>, <<"active", "done">>}

Post(pc, request, next) ==
    /\ OwnerAt(pc) /\ UNCHANGED ss /\ OtherUnchanged
    /\ \/ /\ ServerRuns /\ procs[ow.process].kernel = "live"
          /\ \E es \in Events(request) : wire' = wire \o es
          /\ procs' = [procs EXCEPT ![ow.process].ran = Append(@, request)]
          /\ Goto(next)
       \/ ~(ServerRuns /\ procs[ow.process].kernel = "live")
          /\ ow' = Raised(ow) /\ UNCHANGED <<procs, wire>>
       \/ CallFails /\ UNCHANGED <<procs, wire>>

Replied(pc, next) ==
    /\ OwnerAt(pc) /\ Rest
    /\ \/ ow' = [ow EXCEPT !.pc = next, !.seen = ss.generation]
       \/ CallFails

PostInstantiate == Post("instantiate", "instantiate", "instantiating")
Instantiating == Replied("instantiating", "instantiated")

\* Mutation of CompletedAfter: any completed run ends the wait.
AnyRunCompleted(o) == ss.completed > 0

CompletedAfter(o) == ss.completed > o.after

\* wait_for_completed_run: a cell that is still active fails the run.
RunIsOver(pc, then) == Wait(pc, CompletedAfter(ow), IF ss.active THEN Raised(ow) ELSE then)

\* The kernel is instantiated and left its mark, or the wait or the mark fails.
WaitInstantiated ==
    RunIsOver("instantiated", [ow EXCEPT !.pc = "run", !.after = ss.completed])
CacheInactive == OwnerAt("instantiated") /\ CompletedAfter(ow) /\ CallFails /\ Rest

PostRun == Post("run", "run", "running")
RunReplied == Replied("running", "ran")
WaitRun == RunIsOver("ran", [ow EXCEPT !.pc = "validate"])

\* validate_baseline, the second look at the groups, and the client's session.
Validate ==
    /\ OwnerAt("validate") /\ Rest
    /\ \/ ServerRuns /\ ow' = [WithGroups(ow) EXCEPT !.pc = "before", !.client = TRUE]
       \/ ~ServerRuns /\ ow' = Raised(ow)
       \/ CallFails

\* The source is compared before and after every operation; the session's start is the first.
SourceStable(pc, next) ==
    /\ OwnerAt(pc) /\ Rest
    /\ ow' = IF edits # ow.first THEN Raised(ow) ELSE [ow EXCEPT !.pc = next]

ServerIsOpen == SourceStable("before", "open")
StartOperation == OwnerAt("open") /\ ow.ops < MaxOps /\ Rest
                  /\ ow' = [ow EXCEPT !.pc = "compare", !.ops = @ + 1]
Compare == SourceStable("compare", "operate")
Operate ==
    /\ OwnerAt("operate") /\ Rest
    /\ \/ ServerRuns /\ Goto("after")
       \/ ~ServerRuns /\ ow' = Raised(ow)
       \/ CallFails
CompareAfter == SourceStable("after", "open")
Exit == OwnerAt("open") /\ Rest /\ Goto("close")

-----------------------------------------------------------------------------
(* The reader thread, _read and _handle                                    *)

Handled(event) ==
    CASE event = "ready" -> [ss EXCEPT !.ready = TRUE, !.generation = @ + 1]
      [] event = "bad_ready" -> [ss EXCEPT !.failed = TRUE]
      [] event = "active" -> [ss EXCEPT !.active = TRUE, !.generation = @ + 1]
      [] event = "idle" -> [ss EXCEPT !.active = FALSE, !.generation = @ + 1]
      [] event = "done" -> [ss EXCEPT !.completed = @ + 1, !.generation = @ + 1]

ReadUnchanged == UNCHANGED <<ow, procs>> /\ OtherUnchanged

\* The flag is looked at before a line is read, so one event may still be handled.
ReadEvent ==
    /\ ss.thread = "reads" /\ wire # << >>
    /\ ss' = Handled(Head(wire)) /\ wire' = Tail(wire) /\ ReadUnchanged

\* The end of the stream, a failed read or its timeout.
ReadEnds ==
    /\ ss.thread = "reads" /\ wire = << >> /\ (~ServerRuns \/ ow.faults < MaxFaults)
    /\ ss' = [ss EXCEPT !.thread = "ended", !.failed = ~ss.closed \/ @]
    /\ ow' = IF ServerRuns THEN [ow EXCEPT !.faults = @ + 1] ELSE ow
    /\ UNCHANGED <<procs, wire>> /\ OtherUnchanged

ReadStops ==
    /\ ss.thread = "reads" /\ ss.closed
    /\ ss' = [ss EXCEPT !.thread = "ended"] /\ UNCHANGED wire /\ ReadUnchanged

-----------------------------------------------------------------------------
(* _stop_process; ret is where its caller goes on                          *)

StopUnchanged == UNCHANGED <<ss, wire>> /\ OtherUnchanged

StopBegins ==
    /\ OwnerAt("sp_begin") /\ UNCHANGED procs /\ StopUnchanged
    /\ \/ /\ ow.process = 0 /\ ~ow.job
          /\ Goto(ow.ret)
       \/ /\ ow.process # 0 \/ ow.job
          /\ ow' = [ow EXCEPT !.pc = IF ow.job THEN "sp_job" ELSE "sp_term",
                       !.target = IF ow.known THEN @ ELSE ow.groups \cup OwnedProcessGroups]
       \/ /\ (ow.process # 0 \/ ow.job) /\ posix /\ ~ow.known
          /\ \E kind \in {"error", "cancel"} : Fault(kind)
             /\ ow' = [Failing(ow, kind) EXCEPT !.pc = "sp_term", !.target =
                          ow.groups \cup {<<ow.process, "server">>}]

\* The job is terminated and waited for.
StopJob ==
    /\ OwnerAt("sp_job") /\ StopUnchanged
    /\ \/ procs' = KillTree(ow.attempt) /\ Goto("sp_term")
       \/ \E kind \in {"error", "cancel"} : Fault(kind)
          /\ ow' = [Failing(ow, kind) EXCEPT !.pc = "sp_term"]
          /\ procs' \in {procs, KillTree(ow.attempt)}

\* What a signal to the server's group reaches; on Windows the server alone.
SignalGroup == IF posix THEN KillGroups({<<ow.process, "server">>})
               ELSE [procs EXCEPT ![ow.process].server = Killed(@, TRUE)]

\* SIGTERM, which the server may ignore, and a wait.
StopTerm ==
    /\ OwnerAt("sp_term") /\ StopUnchanged
    /\ \/ ~ServerRuns /\ Goto("sp_kill") /\ UNCHANGED procs
       \/ ServerRuns /\ Goto("sp_kill") /\ procs' \in {procs, SignalGroup}
       \/ ServerRuns /\ \E kind \in {"error", "cancel"} : Fault(kind)
          /\ ow' = [Failing(ow, kind) EXCEPT !.pc = "sp_kill"]
          /\ procs' \in {procs, SignalGroup}

\* SIGKILL; a fault is a refused signal or a wait that is interrupted.
StopKill ==
    /\ OwnerAt("sp_kill") /\ StopUnchanged
    /\ \/ ~ServerRuns /\ Goto("sp_groups") /\ UNCHANGED procs
       \/ ServerRuns /\ Goto("sp_groups") /\ procs' = SignalGroup
       \/ ServerRuns /\ \E kind \in {"error", "cancel"} : Fault(kind)
          /\ \/ ow' = [Failing(ow, kind) EXCEPT !.pc = "sp_groups"] /\ procs' = SignalGroup
             \/ ow' = [Failing(ow, kind) EXCEPT !.pc = "sp_groups", !.refused = TRUE]
                /\ UNCHANGED procs

\* _kill_owned_process_groups goes on past a group it may not kill; a
\* cancellation is tried a second time.
StopGroups ==
    /\ OwnerAt("sp_groups") /\ StopUnchanged
    /\ \/ ~(posix /\ ow.process # 0) /\ Goto("sp_end") /\ UNCHANGED procs
       \/ posix /\ ow.process # 0 /\ Goto("sp_end") /\ procs' = KillGroups(ow.target)
       \/ /\ posix /\ ow.process # 0 /\ Fault("error")
          /\ \E g \in ow.target : procs' = KillGroups(ow.target \ {g})
          /\ ow' = [Failing(ow, "error") EXCEPT !.pc = "sp_end", !.refused = TRUE]
       \/ /\ posix /\ ow.process # 0 /\ Fault("cancel")
          /\ procs' = KillGroups(ow.target)
          /\ ow' = [Failing(ow, "cancel") EXCEPT !.pc = "sp_end"]

\* The server is let go unless it still runs; closing the job kills what is left in it.
StopEnds ==
    /\ OwnerAt("sp_end") /\ StopUnchanged
    /\ LET o == [ow EXCEPT !.pc = ow.ret, !.process = IF ServerRuns THEN @ ELSE 0,
                           !.failures = IF ServerRuns THEN @ \cup {"error"} ELSE @]
       IN
       \/ /\ ow' = [o EXCEPT !.job = FALSE]
          /\ procs' = IF ow.job THEN KillTree(ow.attempt) ELSE procs
       \/ /\ ow.job /\ ow.faults < MaxFaults
          /\ ow' = [Failing(o, "error") EXCEPT !.refused = TRUE] /\ UNCHANGED procs

-----------------------------------------------------------------------------
(* OwnedNotebook._close and ManagedServer.stop                             *)

Report(o) == [o EXCEPT !.reported = @ \cup o.failures, !.failures = {}]

Close ==
    /\ OwnerAt("close") /\ UNCHANGED <<procs, wire>> /\ OtherUnchanged
    /\ ss' = [ss EXCEPT !.closed = ow.server]
    /\ LET o == [ow EXCEPT !.closing = TRUE, !.pc = IF ow.server THEN "snapshot" ELSE "unlink",
                           !.client = FALSE]
       IN ow' = o \/ (ow.client /\ Fault("error") /\ ow' = Report(Failing(o, "error")))

\* Mutation of GoesOn: a failed look at the tree, or shutdown request, ends the stop.
SkipToFiles(o) == [o EXCEPT !.pc = "files"]

\* stop keeps a failure and goes on.
GoesOn(o) == o

SnapshotGroups ==
    /\ OwnerAt("snapshot") /\ Rest
    /\ LET o == [ow EXCEPT !.pc = "shutdown", !.known = TRUE, !.target = ow.groups] IN
       \/ ow' = [o EXCEPT !.target = @ \cup OwnedProcessGroups]
       \/ \E kind \in {"error", "cancel"} : Fault(kind) /\ posix
          /\ ow' = GoesOn(Report(Failing(o, kind)))

\* The server is asked to end its sessions; it may end itself.
Shutdown ==
    /\ OwnerAt("shutdown") /\ StopUnchanged
    /\ LET o == [ow EXCEPT !.pc = "sp_begin", !.ret = "join"] IN
       \/ ow' = o /\ UNCHANGED procs
       \/ posix /\ ServerRuns /\ ow' = o /\ procs' = [procs EXCEPT ![ow.process].kernel = Killed(@, TRUE)]
       \/ posix /\ ServerRuns /\ \E kind \in {"error", "cancel"} : Fault(kind)
          /\ ow' = GoesOn(Report(Failing(o, kind))) /\ UNCHANGED procs

\* stream.close: joined, the response closed, joined again.
Join ==
    /\ OwnerAt("join") /\ UNCHANGED <<procs, wire>> /\ OtherUnchanged
    /\ LET o == [Report(ow) EXCEPT !.pc = "files"] IN
       \/ ss.thread # "reads" /\ ow' = o /\ UNCHANGED ss
       \/ ss.thread = "reads" /\ ow' = o /\ ss' = [ss EXCEPT !.thread = "ended"]
       \/ ss.thread = "reads" /\ ow' = [o EXCEPT !.reported = @ \cup {"error"}] /\ UNCHANGED ss

CloseFiles ==
    /\ OwnerAt("files") /\ Rest
    /\ LET o == [Report(ow) EXCEPT !.pc = IF ow.closing THEN "unlink" ELSE "close"] IN
       \/ ow' = [o EXCEPT !.files = "removed"]
       \/ Fault("error") /\ ow' = [Report(Failing(o, "error")) EXCEPT !.files = "left"]

Unlink ==
    /\ OwnerAt("unlink") /\ Rest
    /\ \/ ow' = [ow EXCEPT !.pc = "over", !.copy = IF @ = "kept" THEN "removed" ELSE @]
       \/ ow.copy = "kept" /\ Fault("error")
          /\ ow' = [Report(Failing(ow, "error")) EXCEPT !.pc = "over", !.unremoved = TRUE]

-----------------------------------------------------------------------------
(* What happens around the owner                                           *)

WorldUnchanged == UNCHANGED <<posix, ow, ss>>

\* The port was free when it was chosen; the server binds it after its imports.
Bind(a) ==
    /\ Live(a) /\ procs[a].port = "unbound"
    /\ procs' \in {[procs EXCEPT ![a].port = "bound"],
                   [procs EXCEPT ![a].port = "lost", ![a].server = "dead"]}
    /\ UNCHANGED <<wire, edits>> /\ WorldUnchanged

\* A session starts a kernel, in the server's group or in its own, and says it is ready.
ForkKernel(a) ==
    /\ Live(a) /\ procs[a].port = "bound" /\ procs[a].kernel = "none" /\ ss.thread = "reads"
    /\ \E g \in {"server", "kernel"}, e \in {"ready", "bad_ready"} :
          /\ procs' = [procs EXCEPT ![a].kernel = "live", ![a].group = g]
          /\ wire' = Append(wire, e)
    /\ UNCHANGED edits /\ WorldUnchanged

\* A server dies without its kernel, or the kernel without the server.
Dies(a) ==
    /\ \/ Live(a) /\ procs' = [procs EXCEPT ![a].server = "dead"]
       \/ procs[a].kernel = "live" /\ procs' = [procs EXCEPT ![a].kernel = "dead"]
    /\ UNCHANGED <<wire, edits>> /\ WorldUnchanged

\* An edit, told apart only by where the file is read next.
Edit ==
    /\ edits < MaxEdits /\ ow.pc \in {"copy", "constructor", "before", "compare", "after"}
    /\ edits' = edits + 1
    /\ UNCHANGED <<procs, wire>> /\ WorldUnchanged

\* The deadline of the start passes.
StartTimesOut ==
    /\ ow.pc \in {"token", "wait_ready"} /\ ~ow.late
    /\ ow' = [ow EXCEPT !.late = TRUE] /\ UNCHANGED <<posix, procs, ss, wire, edits>>

Starts == Enter \/ CopyNotebook \/ Constructor \/ Spawn \/ SendToken \/ WaitReady
          \/ StartFailed \/ Retry \/ InitFailed
Activates == OpenStream \/ WaitForKernel \/ RecordFails \/ PostInstantiate \/ Instantiating
             \/ WaitInstantiated \/ CacheInactive \/ PostRun \/ RunReplied \/ WaitRun \/ Validate
Operates == ServerIsOpen \/ StartOperation \/ Compare \/ Operate \/ CompareAfter \/ Exit
Reads == ReadEvent \/ ReadEnds \/ ReadStops
Stops == StopBegins \/ StopJob \/ StopTerm \/ StopKill \/ StopGroups \/ StopEnds
Closes == Close \/ SnapshotGroups \/ Shutdown \/ Join \/ CloseFiles \/ Unlink
World == Edit \/ StartTimesOut \/ \E a \in Tries : Bind(a) \/ ForkKernel(a) \/ Dies(a)

ManagedNext == Starts \/ Activates \/ Operates \/ Reads \/ Stops \/ Closes \/ World

\* The calls of a stop all have timeouts, so that the owner takes its next step.
ManagedSpec == ManagedInit /\ [][ManagedNext]_managedVars /\ WF_managedVars(Stops \/ Closes)

-----------------------------------------------------------------------------
(* Properties                                                              *)

ManagedTypeOK ==
    /\ posix \in BOOLEAN /\ edits \in 0..MaxEdits /\ ow.faults \in 0..MaxFaults
    /\ ow.attempt \in 0..Attempts /\ ow.process \in 0..Attempts
    /\ ow.failures \cup ow.reported \subseteq {"error", "cancel"}
    /\ \A a \in Tries : procs[a].server \in {"none", "live", "dead"}
                        /\ procs[a].kernel \in {"none", "live", "dead"}
    /\ ss.thread \in {"none", "reads", "ended"} /\ Len(wire) <= 4

\* A build never has two servers, however many ports it lost.
OneServer == \A a, b \in Tries : Live(a) /\ Live(b) => a = b

\* Whatever failed on the way, the context leaves no server and no kernel that was ever asked
\* to run, no thread and no copy, unless the system refused to end them.
NothingIsLeftBehind ==
    ow.pc = "over" =>
        /\ \A a \in Tries : ~ow.refused =>
              ~Live(a) /\ (procs[a].ran # << >> => procs[a].kernel # "live")
        /\ ss.thread = "reads" => ow.reported # {}
        /\ ow.copy = "kept" => ow.unremoved
        /\ ow.files # "open"

\* An open session ran the notebook once, to its end, of the revision that was read first.
BaselineIsComplete ==
    ow.pc \in {"validate", "before", "open", "compare", "operate", "after"} =>
        /\ procs[ow.attempt].ran = <<"instantiate", "run">>
        /\ ss.completed = 2 /\ wire = << >> /\ ~ss.active
        /\ ow.copied = ow.first

\* What the build owns while it runs, and what is left of it (OwnedNotebook, ManagedServer).
ManagedNotebookIsOwned == OneServer /\ NothingIsLeftBehind /\ BaselineIsComplete

\* A context that began to close ends (the stop runs within the build timeout).
CloseEnds == ow.pc = "close" ~> ow.pc = "over"
=============================================================================
