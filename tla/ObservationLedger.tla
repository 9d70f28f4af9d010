-------------------------- MODULE ObservationLedger --------------------------
(***************************************************************************)
(* The observation ledger of one notebook (_observations/): threads record *)
(* observed input vectors, a kernel hook records candidates whose producer *)
(* is not known yet, and one worker thread persists them.  All of them     *)
(* share one condition variable; a step is one section under its lock, or  *)
(* one call that the worker makes outside of it.                           *)
(*                                                                         *)
(* A channel is a producer, for vectors recorded directly, or a scope, for *)
(* candidates.                                                             *)
(***************************************************************************)
EXTENDS Integers, Sequences, FiniteSets, SequencesExt, Sums

CONSTANTS
    QueueProducers,          \* producer identities
    Scopes,             \* source revision and live cells of a candidate
    Vectors,             \* observed input vectors
    Recorders,          \* threads that call record
    Flushers,           \* threads that call flush
    Worker,             \* the thread of the ledger
    Nobody,
    Size,               \* bytes of each vector
    Oversized,          \* vectors above the observation_bytes of the repository
    MaxPending,         \* MAX_PENDING_OBSERVATIONS
    MaxBytes,           \* MAX_PENDING_BYTES
    MaxProducers,       \* MAX_PENDING_PRODUCERS
    MaxAttempts,        \* MAX_PERSISTENCE_ATTEMPTS
    OwnsRepository,     \* whether the worker opens the repository
    WorkerInterrupted,  \* whether a call of the worker may raise a BaseException
    MaxAccepted         \* bound: occurrences that are accepted

ASSUME LedgerAssumption ==
    /\ Worker \notin Flushers
    /\ QueueProducers \cap Scopes = {}
    /\ Nobody \notin QueueProducers \cup Scopes \cup Vectors
    /\ Size \in [Vectors -> Nat \ {0}]
    /\ \A v \in Vectors : Size[v] <= MaxBytes
    /\ Oversized \subseteq Vectors
    /\ {MaxPending, MaxBytes, MaxProducers, MaxAttempts} \subseteq Nat \ {0}
    /\ {OwnsRepository, WorkerInterrupted} \subseteq BOOLEAN
    /\ MaxAccepted \in Nat

VARIABLES
    queue,       \* _queue: the ObservationQueue
    candidates,  \* _candidates: the CandidateQueue
    worker,      \* where the worker is, and the write it has in hand
    waiters,     \* the threads that wait on _condition
    closing,     \* _closing
    failure,     \* whether there is a _failure
    repository,  \* the repository of the worker
    recorder,    \* the vector of each call of record that resolves its producer
    flusher,     \* how far each call of flush is
    closer,      \* how far the call of close is
    settled,     \* of each channel: occurrences that have been counted or refused
    accepted     \* history, of each channel: the vectors that were accepted

ledgerVars == <<queue, candidates, worker, waiters, closing, failure, repository,
          recorder, flusher, closer, settled, accepted>>
threads == <<recorder, flusher, closer>>

Channels == QueueProducers \cup Scopes

NoItem == [kind |-> "none", channel |-> Nobody, value |-> Nobody, occurrences |-> 0]
Item(kind, c, v, n) == [kind |-> kind, channel |-> c, value |-> v, occurrences |-> n]
Observations == [kind : {"observation"}, channel : QueueProducers, value : Vectors,
                 occurrences : Nat \ {0}]
Advances == [kind : {"advance"}, channel : QueueProducers, value : {Nobody},
             occurrences : Nat \ {0}]
Candidates == [kind : {"candidate"}, channel : Scopes, value : Vectors, occurrences : Nat \ {0}]

EmptyQueue == [pending |-> <<>>, bytes |-> 0,
               revisionOnly |-> [p \in QueueProducers |-> 0], producers |-> {}]
EmptyCandidates == [pending |-> <<>>, bytes |-> 0, scopes |-> {}]

LedgerTypeOK ==
    /\ queue \in [pending : Seq(Observations), bytes : Nat,
                  revisionOnly : [QueueProducers -> Nat], producers : SUBSET QueueProducers]
    /\ candidates \in [pending : Seq(Candidates), bytes : Nat, scopes : SUBSET Scopes]
    /\ worker \in [pc : {"look", "resolve", "open", "write", "advance", "settle",
                         "interrupted", "raised", "exit", "exited", "done"},
                   item : Observations \cup Advances \cup Candidates \cup {NoItem},
                   attempt : 0..MaxAttempts, ok : BOOLEAN]
    /\ waiters \subseteq Flushers \cup {Worker}
    /\ closing \in BOOLEAN
    /\ failure \in BOOLEAN
    /\ repository \in {"none", "open", "closed"}
    /\ recorder \in [Recorders -> Vectors \cup {Nobody}]
    /\ flusher \in [Flushers -> {"idle", "wait", "ok", "raised"}]
    /\ closer \in {"idle", "joining", "ok", "raised"}
    /\ settled \in [Channels -> Nat]
    /\ accepted \in [Channels -> Seq(Vectors)]

LedgerInit ==
    /\ queue = EmptyQueue
    /\ candidates = EmptyCandidates
    /\ worker = [pc |-> "look", item |-> NoItem, attempt |-> 0, ok |-> TRUE]
    /\ waiters = {}
    /\ closing = FALSE
    /\ failure = FALSE
    /\ repository = IF OwnsRepository THEN "none" ELSE "open"
    /\ recorder = [r \in Recorders |-> Nobody]
    /\ flusher = [f \in Flushers |-> "idle"]
    /\ closer = "idle"
    /\ settled = [c \in Channels |-> 0]
    /\ accepted = [c \in Channels |-> <<>>]

-----------------------------------------------------------------------------
(* The two queues *)

Bytes(items) == Total([n \in 1..Len(items) |-> Size[items[n].value]])

\* The occurrences of one channel among items, and those before the n-th item.
Counts(items, c) ==
    [n \in 1..Len(items) |-> IF items[n].channel = c THEN items[n].occurrences ELSE 0]
OccurrencesOf(items, c) == Total(Counts(items, c))
Before(items, c, n) == RunningSum(Counts(items, c))[n - 1]

\* Index of the latest item of a channel, or 0.
Latest(items, c) == SelectLastInSeq(items, LAMBDA i : i.channel = c)

\* Whether the vector is the one that the channel recorded last.
Repeats(items, c, v) == Latest(items, c) # 0 /\ items[Latest(items, c)].value = v

\* Mutation of Repeated: the occurrences start over.
RepeatedOnce(items, c) == [items EXCEPT ![Latest(items, c)].occurrences = 1]

Repeated(items, c) == [items EXCEPT ![Latest(items, c)].occurrences = @ + 1]

\* How many of the oldest items have to go (_enforce_limits): the newest fits
\* alone, and stays.
Excess(q) ==
    Min({n \in 0..Len(q.pending) - 1 :
            /\ Len(q.pending) - n <= MaxPending
            /\ q.bytes - Bytes(SubSeq(q.pending, 1, n)) <= MaxBytes})

Evict(q, n) ==
    LET evicted == SubSeq(q.pending, 1, n)
    IN  [q EXCEPT !.pending = SubSeq(@, n + 1, Len(@)),
                  !.bytes = @ - Bytes(evicted),
                  !.revisionOnly = [p \in QueueProducers |-> @[p] + OccurrencesOf(evicted, p)]]

Admits(p) == p \in queue.producers \/ Cardinality(queue.producers) < MaxProducers

\* Mutation of Add: the bytes are not added.
AddWithoutBytes(p, v) ==
    LET longer == [queue EXCEPT !.pending = Append(@, Item("observation", p, v, 1)),
                                !.producers = @ \cup {p}]
    IN  IF Repeats(queue.pending, p, v)
        THEN [queue EXCEPT !.pending = Repeated(@, p)]
        ELSE Evict(longer, Excess(longer))

\* ObservationQueue.add
Add(p, v) ==
    LET item == Item("observation", p, v, 1)
        longer == [queue EXCEPT !.pending = Append(@, item), !.bytes = @ + Size[v],
                                !.producers = @ \cup {p}]
    IN  IF Repeats(queue.pending, p, v)
        THEN [queue EXCEPT !.pending = Repeated(@, p)]
        ELSE Evict(longer, Excess(longer))

\* Mutation of Forget: the place of a producer is never given back.
ForgetNever(q, p) == q

\* _remove_producer_if_empty
Forget(q, p) ==
    IF q.revisionOnly[p] > 0 \/ Latest(q.pending, p) # 0
    THEN q ELSE [q EXCEPT !.producers = @ \ {p}]

QueueEmpty == queue.pending = <<>> /\ \A p \in QueueProducers : queue.revisionOnly[p] = 0

\* ObservationQueue.pop: what was evicted goes first.
PopAdvance(p) ==
    /\ queue.revisionOnly[p] > 0
    /\ queue' = Forget([queue EXCEPT !.revisionOnly[p] = 0], p)
    /\ worker' = [worker EXCEPT !.pc = "open",
                                !.item = Item("advance", p, Nobody, queue.revisionOnly[p])]
    /\ UNCHANGED candidates

PopObservation ==
    /\ \A p \in QueueProducers : queue.revisionOnly[p] = 0
    /\ queue.pending # <<>>
    /\ LET item == Head(queue.pending)
       IN  /\ queue' = Forget([queue EXCEPT !.pending = Tail(@), !.bytes = @ - Size[item.value]],
                              item.channel)
           /\ worker' = [worker EXCEPT !.pc = "open", !.item = item]
    /\ UNCHANGED candidates

CandidatesAdmit(s, v) ==
    /\ s \in candidates.scopes \/ Cardinality(candidates.scopes) < MaxProducers
    /\ \/ Repeats(candidates.pending, s, v)
       \/ /\ Len(candidates.pending) < MaxPending
          /\ candidates.bytes + Size[v] <= MaxBytes

\* CandidateQueue.add
AddCandidate(s, v) ==
    IF Repeats(candidates.pending, s, v)
    THEN [candidates EXCEPT !.pending = Repeated(@, s)]
    ELSE [candidates EXCEPT !.pending = Append(@, Item("candidate", s, v, 1)),
                            !.bytes = @ + Size[v], !.scopes = @ \cup {s}]

\* CandidateQueue.pop
PopCandidate ==
    /\ QueueEmpty
    /\ candidates.pending # <<>>
    /\ LET item == Head(candidates.pending)
           rest == Tail(candidates.pending)
       IN  /\ candidates' =
                  [pending |-> rest, bytes |-> candidates.bytes - Size[item.value],
                   scopes |-> candidates.scopes \
                                  (IF Latest(rest, item.channel) = 0 THEN {item.channel} ELSE {})]
           /\ worker' = [worker EXCEPT !.pc = "resolve", !.item = item]
    /\ UNCHANGED queue

\* Mutation of Discard: the candidates stay.
DiscardQueue == queue' = EmptyQueue /\ UNCHANGED candidates

Discard == queue' = EmptyQueue /\ candidates' = EmptyCandidates

-----------------------------------------------------------------------------
(* The condition variable *)

\* Mutation of NotifyAll: one thread is woken.
NotifyOne == IF waiters = {} THEN UNCHANGED waiters ELSE \E t \in waiters : waiters' = waiters \ {t}

NotifyAll == waiters' = {}

\* notify wakes one thread, and promises nothing about which.
Notify ==
    IF waiters = {} THEN UNCHANGED waiters
    ELSE \E t \in waiters : waiters' = waiters \ {t}

Recording == ~failure /\ ~closing

\* Mutation of Working: what has been taken from the queue is forgotten.
WorkingNever == FALSE

\* _working
Working == worker.pc \in {"resolve", "open", "write", "advance", "settle", "interrupted"}

Empty == QueueEmpty /\ candidates.pending = <<>>

-----------------------------------------------------------------------------
(* Threads of the application *)

Bounded == FoldFunction(LAMBDA s, n : Len(s) + n, 0, accepted) < MaxAccepted
Accept(c, v) == accepted' = [accepted EXCEPT ![c] = Append(@, v)]

\* record, until the lock is released to resolve the producer.
RecordCalled(r, v) ==
    /\ recorder[r] = Nobody
    /\ Recording
    /\ recorder' = [recorder EXCEPT ![r] = v]
    /\ UNCHANGED <<queue, candidates, worker, waiters, closing, failure, repository,
                   flusher, closer, settled, accepted>>

\* record once the producer is known, when it is still recording.
RecordAdds(r, p) ==
    /\ recorder[r] # Nobody
    /\ Recording
    /\ Bounded
    /\ Admits(p)
    /\ queue' = Add(p, recorder[r])
    /\ Accept(p, recorder[r])
    /\ Notify
    /\ recorder' = [recorder EXCEPT ![r] = Nobody]
    /\ UNCHANGED <<candidates, worker, closing, failure, repository, flusher, closer, settled>>

\* The producer cannot be read, the queue has no room for it, or the ledger
\* has been closed or has failed since.
RecordRaises(r) ==
    /\ recorder[r] # Nobody
    /\ recorder' = [recorder EXCEPT ![r] = Nobody]
    /\ UNCHANGED <<queue, candidates, worker, waiters, closing, failure, repository,
                   flusher, closer, settled, accepted>>

\* Mutation of RecordDeferred: no thread is notified.
RecordDeferredSilently(s, v) ==
    /\ Recording
    /\ Bounded
    /\ CandidatesAdmit(s, v)
    /\ candidates' = AddCandidate(s, v)
    /\ Accept(s, v)
    /\ UNCHANGED <<queue, worker, waiters, closing, failure, repository, threads, settled>>

\* _record_deferred, called by the kernel hook
RecordDeferred(s, v) ==
    /\ Recording
    /\ Bounded
    /\ CandidatesAdmit(s, v)
    /\ candidates' = AddCandidate(s, v)
    /\ Accept(s, v)
    /\ Notify
    /\ UNCHANGED <<queue, worker, closing, failure, repository, threads, settled>>

\* flush, when it is called and whenever it is woken
FlushLooks(f) ==
    /\ flusher[f] \in {"idle", "wait"}
    /\ f \notin waiters
    /\ IF Empty /\ ~Working
       THEN /\ flusher' = [flusher EXCEPT ![f] = IF failure THEN "raised" ELSE "ok"]
            /\ UNCHANGED waiters
       ELSE /\ flusher' = [flusher EXCEPT ![f] = "wait"]
            /\ waiters' = waiters \cup {f}
    /\ UNCHANGED <<queue, candidates, worker, closing, failure, repository,
                   recorder, closer, settled, accepted>>

FlushReturns(f) ==
    /\ flusher[f] \in {"ok", "raised"}
    /\ flusher' = [flusher EXCEPT ![f] = "idle"]
    /\ UNCHANGED <<queue, candidates, worker, waiters, closing, failure, repository,
                   recorder, closer, settled, accepted>>

\* Mutation of CloseCalled: no thread is notified.
CloseCalledSilently ==
    /\ closer = "idle"
    /\ closer' = "joining"
    /\ closing' = TRUE
    /\ UNCHANGED <<queue, candidates, worker, waiters, failure, repository, recorder, flusher,
                   settled, accepted>>

CloseCalled ==
    /\ closer = "idle"
    /\ closer' = "joining"
    /\ closing' = TRUE
    /\ NotifyAll
    /\ UNCHANGED <<queue, candidates, worker, failure, repository, recorder, flusher,
                   settled, accepted>>

CloseJoins ==
    /\ closer = "joining"
    /\ worker.pc = "done"
    /\ closer' = IF failure THEN "raised" ELSE "ok"
    /\ UNCHANGED <<queue, candidates, worker, waiters, closing, failure, repository,
                   recorder, flusher, settled, accepted>>

-----------------------------------------------------------------------------
(* The worker (_run) *)

WorkerWaits ==
    /\ worker.pc = "look"
    /\ Worker \notin waiters
    /\ Empty
    /\ ~closing
    /\ waiters' = waiters \cup {Worker}
    /\ UNCHANGED <<queue, candidates, worker, closing, failure, repository, threads,
                   settled, accepted>>

WorkerTakes ==
    /\ worker.pc = "look"
    /\ Worker \notin waiters
    /\ PopObservation \/ PopCandidate \/ \E p \in QueueProducers : PopAdvance(p)
    /\ UNCHANGED <<waiters, closing, failure, repository, threads, settled, accepted>>

\* Mutation of WorkerStops: what is queued is left behind.
WorkerStopsAtOnce ==
    /\ worker.pc = "look"
    /\ Worker \notin waiters
    /\ closing
    /\ worker' = [worker EXCEPT !.pc = "exit"]
    /\ UNCHANGED <<queue, candidates, waiters, closing, failure, repository, threads,
                   settled, accepted>>

\* There is nothing left, and the ledger closes.
WorkerStops ==
    /\ worker.pc = "look"
    /\ Worker \notin waiters
    /\ Empty
    /\ closing
    /\ worker' = [worker EXCEPT !.pc = "exit"]
    /\ UNCHANGED <<queue, candidates, waiters, closing, failure, repository, threads,
                   settled, accepted>>

Settles == [worker EXCEPT !.pc = "settle", !.ok = TRUE]
Fails == [worker EXCEPT !.pc = "settle", !.ok = FALSE]

\* The item in hand is counted, or refused for good.
ItemSettled ==
    settled' = [settled EXCEPT ![worker.item.channel] = @ + worker.item.occurrences]

\* The saved source matches the cells that ran.
ProducerResolved ==
    /\ worker.pc = "resolve"
    /\ worker' = [worker EXCEPT !.pc = "open"]
    /\ UNCHANGED <<queue, candidates, waiters, closing, failure, repository, threads,
                   settled, accepted>>

\* It does not: the candidate is dropped.
ProducerUnknown ==
    /\ worker.pc = "resolve"
    /\ worker' = Settles
    /\ ItemSettled
    /\ UNCHANGED <<queue, candidates, waiters, closing, failure, repository, threads, accepted>>

\* _repository_for_write; a vector that is too large for the repository only
\* advances the revision (RepositoryLimitError).
RepositoryOpened ==
    /\ worker.pc = "open"
    /\ repository' = "open"
    /\ worker' = [worker EXCEPT
           !.pc = IF worker.item.value \in Vectors \ Oversized THEN "write" ELSE "advance"]
    /\ UNCHANGED <<queue, candidates, waiters, closing, failure, threads, settled, accepted>>

\* The transaction of one attempt commits.
WriteCommits ==
    /\ worker.pc \in {"write", "advance"}
    /\ worker' = Settles
    /\ ItemSettled
    /\ UNCHANGED <<queue, candidates, waiters, closing, failure, repository, threads, accepted>>

\* It could not start or commit, and another attempt follows (_retry_write).
WriteBusy ==
    /\ worker.pc \in {"write", "advance"}
    /\ worker.attempt + 1 < MaxAttempts
    /\ worker' = [worker EXCEPT !.attempt = @ + 1]
    /\ UNCHANGED <<queue, candidates, waiters, closing, failure, repository, threads,
                   settled, accepted>>

\* The producer of a candidate cannot be resolved or is not a digest, or the
\* repository cannot be opened, is unavailable, or was busy each time.
PersistFails ==
    /\ \/ worker.pc = "open" /\ repository # "open"
       \/ worker.pc \in {"resolve", "write", "advance"}
    /\ worker' = Fails
    /\ failure' = TRUE
    /\ UNCHANGED <<queue, candidates, waiters, closing, repository, threads, settled, accepted>>

\* A call raises what "except Exception" does not catch.
WorkerIsInterrupted ==
    /\ WorkerInterrupted
    /\ worker.pc \in {"resolve", "open", "write", "advance"}
    /\ worker' = [worker EXCEPT !.pc = "interrupted"]
    /\ UNCHANGED <<queue, candidates, waiters, closing, failure, repository, threads,
                   settled, accepted>>

\* The finally clause after _persist
WorkerSettles ==
    /\ worker.pc \in {"settle", "interrupted"}
    /\ worker' = [worker EXCEPT
           !.pc = IF @ = "interrupted" THEN "raised" ELSE IF worker.ok THEN "look" ELSE "exit",
           !.item = NoItem, !.attempt = 0]
    /\ IF worker.pc = "settle" /\ ~worker.ok THEN Discard ELSE UNCHANGED <<queue, candidates>>
    /\ NotifyAll
    /\ UNCHANGED <<closing, failure, repository, threads, settled, accepted>>

\* The except clause of _run
WorkerRemembers ==
    /\ worker.pc = "raised"
    /\ worker' = [worker EXCEPT !.pc = "exit"]
    /\ failure' = TRUE
    /\ Discard
    /\ NotifyAll
    /\ UNCHANGED <<closing, repository, threads, settled, accepted>>

\* _finish_close: the owned repository is closed outside of the lock, and a
\* failure to do so is the failure of the ledger unless it has one.
WorkerClosesRepository ==
    /\ worker.pc = "exit"
    /\ IF OwnsRepository /\ repository = "open"
       THEN /\ repository' = "closed"
            /\ worker' \in {[worker EXCEPT !.pc = "exited", !.ok = closed] : closed \in BOOLEAN}
       ELSE /\ UNCHANGED repository
            /\ worker' = [worker EXCEPT !.pc = "exited", !.ok = TRUE]
    /\ UNCHANGED <<queue, candidates, waiters, closing, failure, threads, settled, accepted>>

WorkerEnds ==
    /\ worker.pc = "exited"
    /\ worker' = [worker EXCEPT !.pc = "done"]
    /\ failure' = (failure \/ ~worker.ok)
    /\ NotifyAll
    /\ UNCHANGED <<queue, candidates, closing, repository, threads, settled, accepted>>

-----------------------------------------------------------------------------
WorkerStep ==
    \/ WorkerWaits \/ WorkerTakes \/ WorkerStops
    \/ ProducerResolved \/ ProducerUnknown \/ RepositoryOpened
    \/ WriteCommits \/ WriteBusy \/ PersistFails \/ WorkerIsInterrupted
    \/ WorkerSettles \/ WorkerRemembers \/ WorkerClosesRepository \/ WorkerEnds

LedgerNext ==
    \/ WorkerStep
    \/ \E r \in Recorders, v \in Vectors : RecordCalled(r, v)
    \/ \E r \in Recorders, p \in QueueProducers : RecordAdds(r, p)
    \/ \E r \in Recorders : RecordRaises(r)
    \/ \E s \in Scopes, v \in Vectors : RecordDeferred(s, v)
    \/ \E f \in Flushers : FlushLooks(f) \/ FlushReturns(f)
    \/ CloseCalled \/ CloseJoins

LedgerSpec == LedgerInit /\ [][LedgerNext]_ledgerVars

\* Threads run, and the calls of the worker return: each transaction waits for
\* a bounded time, and resolvers only read files.
LedgerFairness ==
    /\ WF_ledgerVars(WorkerStep)
    /\ \A f \in Flushers : WF_ledgerVars(FlushLooks(f) /\ flusher[f] = "wait")
    /\ WF_ledgerVars(CloseJoins)

FairLedger == LedgerSpec /\ LedgerFairness

-----------------------------------------------------------------------------
(* Properties *)

AllCounted == \A c \in Channels : settled[c] = Len(accepted[c])

\* What the worker has taken and not counted yet, what is queued for a channel,
\* and the occurrences that were accepted before those that are queued.
InHand == IF Working /\ ~(worker.pc = "settle" /\ worker.ok) THEN worker.item ELSE NoItem
Pending(c) == IF c \in Scopes THEN candidates.pending ELSE queue.pending
Ahead(c) == settled[c] + (IF InHand.channel = c THEN InHand.occurrences ELSE 0)
                       + (IF c \in QueueProducers THEN queue.revisionOnly[c] ELSE 0)

\* An item stands for the vectors after the first n of vs: an advance for any,
\* the others for their own.
StandsFor(item, vs, n) == \A k \in 1..item.occurrences : item.value \in {Nobody, vs[n + k]}

\* So do the items of a channel, one after the other, up to the last of vs.
LinedUp(items, c, vs, n) ==
    /\ n + OccurrencesOf(items, c) = Len(vs)
    /\ \A i \in 1..Len(items) :
           items[i].channel = c => StandsFor(items[i], vs, n + Before(items, c, i))

\* "Every accepted occurrence advances the producer's monotonic revision"
\* (repository.md:168): while nothing has failed, what is queued, evicted or in
\* hand stands for the occurrences that are not counted yet, each of them once
\* and in the order in which they were accepted, so that the vector written at
\* a revision is the one observed there.
OccurrencesInOrder ==
    ~failure /\ worker.pc # "raised" =>
        \A c \in Channels :
            /\ LinedUp(Pending(c), c, accepted[c], Ahead(c))
            /\ InHand.channel = c => StandsFor(InHand, accepted[c], settled[c])

\* Room is never lost: the counters of both queues, which refuse or evict, are
\* those of what is in them, and the bounds hold between calls.
RoomIsAccounted ==
    /\ queue.bytes = Bytes(queue.pending) /\ queue.bytes <= MaxBytes
    /\ Len(queue.pending) <= MaxPending
    /\ queue.producers = {p \in QueueProducers : queue.revisionOnly[p] > 0}
                             \cup {i.channel : i \in ToSet(queue.pending)}
    /\ candidates.bytes = Bytes(candidates.pending) /\ candidates.bytes <= MaxBytes
    /\ candidates.scopes = {i.channel : i \in ToSet(candidates.pending)}

\* notify wakes one thread of several that wait for different things; still
\* the worker never sleeps over work or over a close (ledger.py:121, 141).
WorkerNeverStranded == Worker \in waiters => Empty /\ ~closing

\* No thread waits for an idle worker while it is idle (flush).
FlushNeverStranded ==
    \A f \in Flushers : f \in waiters => ~Empty \/ Working

\* "flush() waits for queued writes and surfaces a persistence failure"
\* (repository.md:172): a flush that returns has everything counted.
FlushMeansCounted ==
    [][\A f \in Flushers : flusher[f] # "ok" /\ flusher'[f] = "ok" => AllCounted]_ledgerVars

\* "close() drains the worker ... and reports the first failure".
CloseDrains == closer = "ok" => AllCounted

\* The bounded queues leak neither their room nor, at close, what is in them.
QueuesAreDrained == RoomIsAccounted /\ CloseDrains

\* Once recording pauses, a flush ends.
LedgerFlushEnds == \A f \in Flushers : flusher[f] = "wait" ~> flusher[f] # "wait"

\* A close ends.
CloseEnds == closer = "joining" ~> closer # "joining"
=============================================================================
