---------------------------- MODULE RemoteCapture ----------------------------
(***************************************************************************)
(* A capture over the edit API of a running notebook: Session._capture of  *)
(* client.py, HttpKernelTransport.invoke of _remote/client.py, the kernel's *)
(* dispatch of _marimo/bridge.py and the tickets of _marimo/transfer.py.   *)
(*                                                                         *)
(* A client asks the kernel to capture, downloads the assets the reply's   *)
(* ticket keeps as virtual files, compares the document once more and      *)
(* releases the ticket.  A client that gave up on a call leaves the kernel *)
(* at work: its ticket is swept once its lease has passed, by a timer or   *)
(* by the next call.  The notebook may be edited meanwhile.                *)
(***************************************************************************)
EXTENDS Integers, Sequences, FiniteSets, FiniteSetsExt, Sums

CONSTANTS
    Captures,           \* the captures, each of a client and with its ticket
    WantedAssets,       \* [Captures -> the asset sizes of its export, by asset]
    MaxTickets,         \* _MAX_ACTIVE_TICKETS
    MaxTransferBytes,   \* _MAX_ACTIVE_TRANSFER_BYTES
    MaxStates,          \* the states of a plan
    MaxTrouble          \* bound of the edits, failures and calls given up

ASSUME RemoteAssumption ==
    /\ MaxTickets \in Nat /\ MaxTransferBytes \in Nat /\ MaxStates \in Nat \ {0}
    /\ MaxTrouble \in Nat
    /\ \A c \in Captures :
          /\ IsFiniteSet(DOMAIN WantedAssets[c]) /\ DOMAIN WantedAssets[c] \subseteq Nat
          /\ \A a \in DOMAIN WantedAssets[c] : WantedAssets[c][a] \in Nat

VARIABLES
    caller,     \* the clients
    queue,      \* the scratchpad requests the kernel has not begun
    kernel,     \* the request that runs
    replies,    \* the reply each client may still read
    leases,     \* _TICKETS
    registry,   \* the virtual files, <<capture, asset>>
    timer,      \* _SCHEDULER_TIMER and _SCHEDULER_TOKEN
    parent,     \* the document, the UI values and the implementation
    remote      \* how much trouble there was, and whether a timer was refused

remoteVars == <<caller, queue, kernel, replies, leases, registry, timer, parent, remote>>

Nothing == [op |-> "none"]
NoLease == [on |-> FALSE, files |-> {}, due |-> FALSE]
Files(c) == {<<c, a>> : a \in DOMAIN WantedAssets[c]}

RemoteInit ==
    /\ caller = [c \in Captures |->
                   [pc |-> "idle", calls |-> 0, ticket |-> FALSE, document |-> 0, live |-> 0,
                    got |-> {}]]
    /\ queue = << >> /\ kernel = Nothing
    /\ replies = [c \in Captures |-> Nothing]
    /\ leases = [c \in Captures |-> NoLease]
    /\ registry = {}
    /\ timer = [armed |-> FALSE, fired |-> "none"]
    /\ parent = [document |-> 0, ui |-> 0, implementation |-> 0]
    /\ remote = [trouble |-> 0, unscheduled |-> FALSE]

-----------------------------------------------------------------------------
(* Tickets.  An operation on them holds _LOCK and begins with a sweep.     *)

Size == [f \in UNION {Files(c) : c \in Captures} |-> WantedAssets[f[1]][f[2]]]
Bytes(files) == SumOf(Size, files)
Leased(ls) == UNION {ls[c].files : c \in Captures}
ActiveTickets(ls) == {c \in Captures : ls[c].on}

\* Mutation of Kept: files that could not be removed are forgotten.
Forgotten(lease, stuck) == NoLease

\* Files that could not be removed stay in the lease, which is tried again later.
Kept(lease, stuck) ==
    IF stuck = {} THEN NoLease ELSE [on |-> TRUE, files |-> stuck, due |-> FALSE]

\* _sweep_expired_locked, when the files of stuck cannot be removed.
Swept(ls, stuck) ==
    [c \in Captures |-> IF ls[c].due THEN Kept(ls[c], ls[c].files \cap stuck) ELSE ls[c]]
Due(ls) == UNION {ls[c].files : c \in {d \in Captures : ls[d].due}}

Spent(stuck) == IF stuck = {} THEN 0 ELSE 1
Stuck(files) == {{}} \cup (IF remote.trouble < MaxTrouble THEN {{f} : f \in files} ELSE {})

\* _schedule_locked replaces the timer; one that fired is stale from now on.
Scheduled(ls) ==
    [armed |-> ActiveTickets(ls) # {},
     fired |-> IF timer.fired = "none" THEN "none" ELSE "stale"]
Unscheduled == [Scheduled(leases) EXCEPT !.armed = FALSE]

Expires(c) ==
    /\ leases[c].on /\ ~leases[c].due
    /\ leases' = [leases EXCEPT ![c].due = TRUE]
    /\ UNCHANGED <<caller, queue, kernel, replies, registry, timer, parent, remote>>

\* The timer's thread starts and has yet to take the lock.
TimerFires ==
    /\ timer.armed /\ \E c \in Captures : leases[c].due
    /\ timer' = [armed |-> FALSE, fired |-> "current"]
    /\ UNCHANGED <<caller, queue, kernel, replies, leases, registry, parent, remote>>

\* _run_scheduler does nothing for a token that is not the current one.
RunScheduler ==
    /\ timer.fired # "none"
    /\ UNCHANGED <<caller, queue, kernel, replies, parent>>
    /\ \/ /\ timer.fired = "stale" /\ timer' = [timer EXCEPT !.fired = "none"]
          /\ UNCHANGED <<leases, registry, remote>>
       \/ /\ timer.fired = "current"
          /\ \E stuck \in Stuck(Due(leases)) :
               /\ leases' = Swept(leases, stuck)
               /\ registry' = registry \ (Due(leases) \ stuck)
               /\ \/ timer' = [Scheduled(leases') EXCEPT !.fired = "none"]
                     /\ remote' = [remote EXCEPT !.trouble = @ + Spent(stuck)]
                  \/ /\ remote.trouble + Spent(stuck) < MaxTrouble
                     /\ ActiveTickets(leases') # {}      \* the thread cannot be started
                     /\ timer' = [armed |-> FALSE, fired |-> "none"]
                     /\ remote' = [remote EXCEPT !.trouble = @ + Spent(stuck) + 1,
                                                 !.unscheduled = TRUE]

-----------------------------------------------------------------------------
(* The kernel runs one scratchpad request at a time; each first sweeps.    *)

KernelBegins ==
    /\ kernel = Nothing /\ queue # << >>
    /\ \E stuck \in Stuck(Due(leases)) :
         /\ leases' = Swept(leases, stuck) /\ registry' = registry \ (Due(leases) \ stuck)
         /\ timer' = Scheduled(leases')
         /\ remote' = [remote EXCEPT !.trouble = @ + Spent(stuck)]
    /\ kernel' = [op |-> Head(queue).op, client |-> Head(queue).client, call |-> Head(queue).call,
                  document |-> 0, ui |-> 0, states |-> 0, failed |-> FALSE, stage |-> "begun"]
    /\ queue' = Tail(queue) /\ UNCHANGED <<caller, replies, parent>>

Awaiting == {"capturing", "inspecting", "releasing", "abandoning"}

\* The reply to a call that was given up is lost with its response.
Reply(ok) ==
    LET c == kernel.client IN
    /\ kernel' = Nothing
    /\ replies' = IF caller[c].pc \in Awaiting /\ caller[c].calls = kernel.call
                  THEN [replies EXCEPT ![c] = [op |-> kernel.op, ok |-> ok, document |->
                           IF kernel.op = "capture" THEN kernel.document ELSE parent.document]]
                  ELSE replies

TicketsUnchanged == UNCHANGED <<leases, registry, timer, remote>>

\* inspect, with the implementation compared before and after the read.
Inspects ==
    /\ kernel # Nothing /\ kernel.op = "inspect"
    /\ Reply(parent.implementation = 0)
    /\ TicketsUnchanged /\ UNCHANGED <<caller, queue, parent>>

\* _capture: the baseline, with the UI values every state is compared with.
CaptureBegins ==
    /\ kernel # Nothing /\ kernel.op = "capture" /\ kernel.stage = "begun"
    /\ \/ /\ parent.implementation = 0
          /\ kernel' = [kernel EXCEPT !.stage = "states", !.document = parent.document,
                                      !.ui = parent.ui]
          /\ UNCHANGED replies
       \/ parent.implementation # 0 /\ Reply(FALSE)
    /\ TicketsUnchanged /\ UNCHANGED <<caller, queue, parent>>

\* execute_state, or its failure, which ends the loop.
ExecutesState ==
    /\ kernel # Nothing /\ kernel.op = "capture" /\ kernel.stage = "states"
    /\ ~kernel.failed /\ kernel.states < MaxStates
    /\ \/ kernel' = [kernel EXCEPT !.states = @ + 1] /\ UNCHANGED remote
       \/ /\ remote.trouble < MaxTrouble
          /\ kernel' = [kernel EXCEPT !.failed = TRUE]
          /\ remote' = [remote EXCEPT !.trouble = @ + 1]
    /\ UNCHANGED <<caller, queue, replies, leases, registry, timer, parent>>

\* The parent's consistency is checked whether or not the states ran.
ParentConsistent == ~kernel.failed /\ kernel.ui = parent.ui /\ parent.implementation = 0

StatesEnd ==
    /\ kernel # Nothing /\ kernel.op = "capture" /\ kernel.stage = "states"
    /\ kernel.failed \/ kernel.states = MaxStates
    /\ IF ParentConsistent THEN kernel' = [kernel EXCEPT !.stage = "ticket"] /\ UNCHANGED replies
       ELSE Reply(FALSE)
    /\ TicketsUnchanged /\ UNCHANGED <<caller, queue, parent>>

AtTicket == kernel # Nothing /\ kernel.op = "capture" /\ kernel.stage = "ticket"

\* _admit_ticket_locked
Admitted(ls, c) ==
    /\ Cardinality(ActiveTickets(ls)) < MaxTickets
    /\ Bytes(Files(c)) + Bytes(Leased(ls)) <= MaxTransferBytes

\* create_ticket: all files registered and the lease scheduled.
CreatesTicket ==
    /\ AtTicket
    /\ LET c == kernel.client IN
       \E stuck \in Stuck(Due(leases)) :
       LET S == Swept(leases, stuck)
           R == registry \ (Due(leases) \ stuck)
       IN
       /\ remote' = [remote EXCEPT !.trouble = @ + Spent(stuck)]
       /\ IF Admitted(S, c)
          THEN /\ leases' = [S EXCEPT ![c] = [on |-> TRUE, files |-> Files(c), due |-> FALSE]]
               /\ registry' = R \cup Files(c)
               /\ Reply(TRUE)
               /\ timer' = Scheduled(leases')
          ELSE /\ leases' = S /\ registry' = R /\ Reply(FALSE)
               /\ UNCHANGED timer      \* refused before anything is scheduled
    /\ UNCHANGED <<caller, queue, parent>>

\* Registration or scheduling fails: what was registered is removed, and what
\* cannot be removed becomes the lease of the ticket.
TicketFails ==
    /\ AtTicket /\ remote.trouble < MaxTrouble
    /\ LET c == kernel.client
           S == Swept(leases, {})
       IN
       /\ Admitted(S, c)
       /\ \E files \in SUBSET Files(c) :
          \E stuck \in {{}} \cup (IF remote.trouble + 1 < MaxTrouble
                                  THEN {{f} : f \in files} ELSE {}) :
            /\ leases' = [S EXCEPT ![c] = Kept(NoLease, stuck)]
            /\ registry' = (registry \ Due(leases)) \cup stuck
            /\ remote' = [remote EXCEPT !.trouble = @ + 1 + Spent(stuck)]
            /\ timer' = IF ActiveTickets(leases') # {} THEN Scheduled(leases') ELSE timer
    /\ Reply(FALSE)
    /\ UNCHANGED <<caller, queue, parent>>

\* release sweeps, then takes the lease out and removes its files; a ticket
\* that is gone is no failure.
Releases ==
    /\ kernel # Nothing /\ kernel.op = "release"
    /\ LET c == kernel.client
           files == Due(leases) \cup leases[c].files
       IN
       \E stuck \in Stuck(files) :
         /\ leases' = [Swept(leases, stuck) EXCEPT ![c] = Kept(@, leases[c].files \cap stuck)]
         /\ registry' = registry \ (files \ stuck)
         /\ Reply(leases[c].files \cap stuck = {})
         /\ \/ timer' = Scheduled(leases') /\ remote' = [remote EXCEPT !.trouble = @ + Spent(stuck)]
            \/ /\ stuck # {} /\ remote.trouble + 1 < MaxTrouble
               /\ timer' = Unscheduled
               /\ remote' = [remote EXCEPT !.trouble = @ + 2, !.unscheduled = TRUE]
    /\ UNCHANGED <<caller, queue, parent>>

-----------------------------------------------------------------------------
(* The client.  Every call may time out or lose its stream.                *)

KernelUnchanged == UNCHANGED <<kernel, leases, registry, timer, parent, remote>>
CallerAt(c, pc) == caller[c].pc = pc

\* invoke; a new request has its own id.
Invoke(c, C, pc, op) ==
    /\ caller' = [C EXCEPT ![c].pc = pc, ![c].calls = @ + 1]
    /\ queue' = Append(queue, [op |-> op, client |-> c, call |-> caller[c].calls + 1])
    /\ replies' = [replies EXCEPT ![c] = Nothing]
Settles(c, C, pc) == caller' = [C EXCEPT ![c].pc = pc] /\ UNCHANGED <<queue, replies>>

\* _capture's finally: a ticket that is known is released, also after a release that failed.
RemoteCallFails(c, C) ==
    IF C[c].ticket THEN Invoke(c, [C EXCEPT ![c].ticket = FALSE], "abandoning", "release")
    ELSE Settles(c, C, "failed")

CallCapture(c) ==
    CallerAt(c, "idle") /\ Invoke(c, caller, "capturing", "capture") /\ KernelUnchanged

Answered(c, pc) == CallerAt(c, pc) /\ replies[c] # Nothing

\* The ticket is known before anything else of the reply is looked at; the
\* limits of the caller may refuse its assets.
ReadsCapture(c) ==
    /\ Answered(c, "capturing") /\ KernelUnchanged
    /\ LET C == [caller EXCEPT ![c].ticket = TRUE, ![c].document = replies[c].document] IN
       \/ replies[c].ok /\ Settles(c, C, "download")
       \/ replies[c].ok /\ RemoteCallFails(c, C)
       \/ ~replies[c].ok /\ RemoteCallFails(c, caller)

AssetsLeft(c) == DOMAIN WantedAssets[c] \ caller[c].got

\* download_asset: the file is served as long as it is registered.
Downloads(c) ==
    /\ CallerAt(c, "download") /\ AssetsLeft(c) # {} /\ KernelUnchanged
    /\ LET a == Min(AssetsLeft(c)) IN
       IF <<c, a>> \in registry
       THEN Settles(c, [caller EXCEPT ![c].got = @ \cup {a}], "download")
       ELSE RemoteCallFails(c, caller)

CallInspect(c) ==
    /\ CallerAt(c, "download") /\ AssetsLeft(c) = {}
    /\ Invoke(c, caller, "inspecting", "inspect") /\ KernelUnchanged

\* Mutation of SameDocument: any answer to the inspection will do.
Inspected(c) == replies[c].ok

\* The document the capture began with is still the live one.
SameDocument(c) == replies[c].ok /\ replies[c].document = caller[c].document

ReadsInspect(c) ==
    /\ Answered(c, "inspecting") /\ KernelUnchanged
    /\ IF SameDocument(c)
       THEN Invoke(c, [caller EXCEPT ![c].live = replies[c].document], "releasing", "release")
       ELSE RemoteCallFails(c, caller)

ReadsRelease(c) ==
    /\ KernelUnchanged
    /\ \/ Answered(c, "releasing") /\ replies[c].ok
          /\ Settles(c, [caller EXCEPT ![c].ticket = FALSE], "returned")
       \/ Answered(c, "releasing") /\ ~replies[c].ok /\ RemoteCallFails(c, caller)
       \/ Answered(c, "abandoning") /\ Settles(c, caller, "failed")

\* The remote work may still be running, or may not have begun.
TimesOut(c) ==
    /\ caller[c].pc \in Awaiting /\ replies[c] = Nothing /\ remote.trouble < MaxTrouble
    /\ RemoteCallFails(c, caller)
    /\ remote' = [remote EXCEPT !.trouble = @ + 1]
    /\ UNCHANGED <<kernel, leases, registry, timer, parent>>

\* Somebody edits the notebook, moves a control, or updates the package.
Edits(what) ==
    /\ remote.trouble < MaxTrouble
    /\ parent' = [parent EXCEPT ![what] = 1 - @]
    /\ remote' = [remote EXCEPT !.trouble = @ + 1]
    /\ UNCHANGED <<caller, queue, kernel, replies, leases, registry, timer>>

KernelSteps ==
    \/ KernelBegins \/ Inspects \/ CaptureBegins \/ ExecutesState \/ StatesEnd
    \/ CreatesTicket \/ TicketFails \/ Releases
ClientSteps(c) ==
    \/ CallCapture(c) \/ ReadsCapture(c) \/ Downloads(c) \/ CallInspect(c) \/ ReadsInspect(c)
    \/ ReadsRelease(c) \/ TimesOut(c)
Sweeps == TimerFires \/ RunScheduler

RemoteNext ==
    \/ KernelSteps
    \/ Sweeps
    \/ \E c \in Captures : ClientSteps(c) \/ Expires(c)
    \/ \E what \in DOMAIN parent : Edits(what)

\* Leases run out, and a timer that is due runs.
RemoteSpec == /\ RemoteInit /\ [][RemoteNext]_remoteVars
              /\ WF_remoteVars(Sweeps) /\ \A c \in Captures : WF_remoteVars(Expires(c))

-----------------------------------------------------------------------------
(* Properties                                                              *)

RemoteTypeOK ==
    /\ \A c \in Captures : leases[c].files \subseteq Files(c) /\ caller[c].calls \in 0..4
    /\ registry \subseteq UNION {Files(c) : c \in Captures}
    /\ timer.fired \in {"none", "current", "stale"} /\ timer.armed \in BOOLEAN
    /\ remote.trouble \in 0..MaxTrouble

\* Whatever failed, was given up or timed out, each virtual file belongs to a lease, the leases
\* fit the limits, and a timer is on the way to them (_marimo/transfer.py).
FilesAreLeased ==
    /\ registry = Leased(leases)
    /\ Cardinality(ActiveTickets(leases)) <= MaxTickets
    /\ Bytes(registry) <= MaxTransferBytes
    /\ ActiveTickets(leases) # {} => timer.armed \/ timer.fired = "current" \/ remote.unscheduled

\* A capture that returned has every asset, of the document that was live after the last of
\* them was read, and left no ticket (Session._capture).
CapturesAreWhole ==
    \A c \in Captures : CallerAt(c, "returned") =>
        caller[c].live = caller[c].document /\ AssetsLeft(c) = {} /\ ~leases[c].on

RemoteCaptureIsSound == FilesAreLeased /\ CapturesAreWhole

\* A client that gives up leaves nothing in the kernel for good (_run_scheduler).
FilesLeave ==
    \A c \in Captures :
        (registry \cap Files(c) # {}) ~> (registry \cap Files(c) = {} \/ remote.unscheduled)
=============================================================================
