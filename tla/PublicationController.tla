------------------------ MODULE PublicationController ------------------------
(***************************************************************************)
(* The publication controller of one application (PublicationController-   *)
(* State in _publication.py).                                              *)
(*                                                                         *)
(* It runs on one event loop, so a step is the code between two awaits.    *)
(* Preparation callbacks and refresh predicates run in worker threads,     *)
(* admissions and callers of prepare are tasks that may be cancelled.  A   *)
(* publication is named by the token of the work that produced it.         *)
(*                                                                         *)
(* A retired publication has a deadline, later than those of all that were *)
(* retired before it.  Only their order matters, so a deadline counts how  *)
(* many distinct ones, its own included, are still to pass; 0 has passed.  *)
(***************************************************************************)
EXTENDS Integers

CONSTANTS
    Keys,            \* application keys
    Groups,          \* values of supersession_key
    Routes,          \* values of route_key
    Instances,       \* identities of prepared exports
    None,
    Group,           \* supersession_key
    Route,           \* route_key
    OwnsRepository,  \* whether the controller opens its own repository
    MaxToken         \* bound: works that are started

ASSUME PublicationAssumption ==
    /\ Group \in [Keys -> Groups]
    /\ Route \in [Keys -> Routes]
    /\ OwnsRepository \in BOOLEAN
    /\ MaxToken \in Nat
    /\ None \notin Keys \cup Instances

VARIABLES
    publication, \* of each token: the prepared export and whether it is open
    current,     \* _current: the token of the publication of each key, or 0
    deadline,    \* _retired: expires_at of each token, or NotRetired
    timer,       \* _retirement_deadline, which the timer waits for, or NoTimer
    work,        \* the _produce task of each token, and its caller
    desired,     \* _desired: the token of each group, or 0
    nextToken,   \* _next_token
    refresh,     \* _refresh_tasks: the refresh of each key
    closing,     \* how far _close has come
    awaited,     \* the works and refreshes that _close waits for
    repository   \* the repository of the controller

vars == <<publication, current, deadline, timer, work, desired, nextToken,
          refresh, closing, awaited, repository>>
published == <<publication, current, deadline, timer>>

Tokens == 1..MaxToken
TokenOrNone == 0..MaxToken
NotRetired == -1
NoTimer == -1

NoPublication == [state |-> "none", key |-> None, instance |-> None]
ClosedPublication == [NoPublication EXCEPT !.state = "closed"]
NoWork == [pc |-> "none", key |-> None, cancelled |-> FALSE, interrupted |-> FALSE,
           caller |-> "none", by |-> "none"]
Returned == [NoWork EXCEPT !.pc = "done", !.caller = "returned"]
NoRefresh == [pc |-> "none", selected |-> 0, desired |-> 0, stale |-> FALSE,
              token |-> 0, outdated |-> FALSE]

PublicationSet == [state : {"none", "open", "closed"}, key : Keys \cup {None},
                   instance : Instances \cup {None}]
WorkSet == [pc : {"none", "queued", "thread", "answered", "admission", "done"},
            key : Keys \cup {None}, cancelled : BOOLEAN, interrupted : BOOLEAN,
            caller : {"none", "waiting", "settling", "returned"},
            by : {"none", "application", "refresh"}]
RefreshSet == [pc : {"none", "queued", "predicate", "answered", "preparing", "finished"},
               selected : TokenOrNone, desired : TokenOrNone, stale : BOOLEAN,
               token : TokenOrNone, outdated : BOOLEAN]

Retired == {t \in Tokens : deadline[t] # NotRetired}

TypeOK ==
    /\ publication \in [Tokens -> PublicationSet]
    /\ current \in [Keys -> TokenOrNone]
    /\ deadline \in [Tokens -> Nat \cup {NotRetired}]
    /\ timer \in {deadline[t] : t \in Retired} \cup {NoTimer}
    /\ work \in [Tokens -> WorkSet]
    /\ desired \in [Groups -> TokenOrNone]
    /\ nextToken \in TokenOrNone
    /\ refresh \in [Keys -> RefreshSet]
    /\ closing \in {"open", "called", "gathering", "repository", "closed"}
    /\ awaited \in [work : SUBSET Tokens, refresh : SUBSET Keys]
    /\ repository \in {"none", "open", "closed"}

Init ==
    /\ publication = [t \in Tokens |-> NoPublication]
    /\ current = [k \in Keys |-> 0]
    /\ deadline = [t \in Tokens |-> NotRetired]
    /\ timer = NoTimer
    /\ work = [t \in Tokens |-> NoWork]
    /\ desired = [g \in Groups |-> 0]
    /\ nextToken = 0
    /\ refresh = [k \in Keys |-> NoRefresh]
    /\ closing = "open"
    /\ awaited = [work |-> {}, refresh |-> {}]
    /\ repository = IF OwnsRepository THEN "none" ELSE "open"

-----------------------------------------------------------------------------
(* Shared definitions *)

Closed == closing \in {"gathering", "repository", "closed"}

KeysOf(g) == {k \in Keys : Group[k] = g}
CurrentOf(g) == {current[k] : k \in KeysOf(g)} \ {0}
GroupOf(t) == Group[publication[t].key]
RouteOf(t) == Route[publication[t].key]

\* The tokens in _work: until the caller of prepare has resumed.
Working == {t \in Tokens : work[t].caller \in {"waiting", "settling"}}
WorkingOn(g) == {t \in Working : Group[work[t].key] = g}

Expired == {t \in Tokens : deadline[t] = 0}

Shown == ({current[k] : k \in Keys} \ {0}) \cup Retired

ClosedBy(tokens) ==
    [t \in Tokens |-> IF t \in tokens THEN ClosedPublication ELSE publication[t]]

\* Mutation of Cancelled: the admission goes on.
CancelledOutsideAdmission(w) == [w EXCEPT !.cancelled = TRUE]

\* _Work.cancel: the flag for the worker thread, and the pending admission.
Cancelled(w) == [w EXCEPT !.cancelled = TRUE, !.interrupted = @ \/ w.pc = "admission"]
CancelledIn(tokens) == [t \in Tokens |-> IF t \in tokens THEN Cancelled(work[t]) ELSE work[t]]

\* _schedule_retirement: the timer waits for the next deadline of those kept.
Schedule ==
    \/ /\ Closed \/ Retired' = {}
       /\ timer' = NoTimer
    \/ /\ ~Closed
       /\ \E t \in Retired' :
              /\ \A s \in Retired' : deadline'[t] <= deadline'[s]
              /\ timer' = deadline'[t]

\* The application has decided something about the group since the poll.
OutdatedIn(g) ==
    [k \in Keys |-> IF Group[k] = g /\ refresh[k].pc # "none"
                    THEN [refresh[k] EXCEPT !.outdated = TRUE] ELSE refresh[k]]

\* Mutation of Prune: the timer is not set for the publications that are kept.
PruneWithoutSchedule(deadlines, publications) ==
    /\ publication' = [t \in Tokens |-> IF deadlines[t] = 0 THEN ClosedPublication
                                        ELSE publications[t]]
    /\ deadline' = [t \in Tokens |-> IF deadlines[t] = 0 THEN NotRetired ELSE deadlines[t]]
    /\ timer' = IF timer > 0 THEN timer ELSE NoTimer

\* _prune closes retired publications whose deadline has passed.
Prune(deadlines, publications) ==
    /\ publication' = [t \in Tokens |-> IF deadlines[t] = 0 THEN ClosedPublication
                                        ELSE publications[t]]
    /\ deadline' = [t \in Tokens |-> IF deadlines[t] = 0 THEN NotRetired ELSE deadlines[t]]
    /\ Schedule

-----------------------------------------------------------------------------
(* prepare *)

\* _start_work, called by the application or by a refresh: older work of the
\* group is cancelled and the new token is the one the group desires.
StartWork(k, by) ==
    /\ nextToken < MaxToken
    /\ nextToken' = nextToken + 1
    /\ desired' = [desired EXCEPT ![Group[k]] = nextToken + 1]
    /\ work' = [CancelledIn(WorkingOn(Group[k])) EXCEPT ![nextToken + 1] =
                    [NoWork EXCEPT !.pc = "queued", !.key = k, !.caller = "waiting", !.by = by]]

Prepare(k) ==
    /\ ~Closed
    /\ StartWork(k, "application")
    /\ refresh' = OutdatedIn(Group[k])
    /\ UNCHANGED <<published, closing, awaited, repository>>

Finish(t) == work' = [work EXCEPT ![t].pc = "done"]

\* The worker thread calls _repository, which opens it once and raises when
\* the controller is closed.
WorkOpens(t) ==
    /\ work[t].pc = "queued"
    /\ ~Closed
    /\ repository' = "open"
    /\ work' = [work EXCEPT ![t].pc = "thread"]
    /\ UNCHANGED <<published, desired, nextToken, refresh, closing, awaited>>

\* The callback returns a candidate with an open prepared export.
WorkAnswers(t, instance) ==
    /\ work[t].pc = "thread"
    /\ work' = [work EXCEPT ![t].pc = "answered"]
    /\ publication' = [publication EXCEPT ![t] =
           [state |-> "open", key |-> work[t].key, instance |-> instance]]
    /\ UNCHANGED <<current, deadline, timer, desired, nextToken, refresh, closing, awaited,
                   repository>>

\* The callback fails, the repository cannot be opened, or the controller was
\* closed before.
WorkFails(t) ==
    /\ \/ work[t].pc = "thread"
       \/ work[t].pc = "queued" /\ (Closed \/ repository = "none")
    /\ Finish(t)
    /\ UNCHANGED <<published, desired, nextToken, refresh, closing, awaited, repository>>

RequireCurrent(t) ==
    /\ ~Closed
    /\ ~work[t].cancelled
    /\ desired[Group[work[t].key]] = t

\* Mutation of SameAddress: the route is not compared.
SameAddressAnyRoute(t, s) == publication[t].instance = publication[s].instance

SameAddress(t, s) ==
    /\ publication[t].instance = publication[s].instance
    /\ RouteOf(t) = RouteOf(s)

\* What the group shows is retired, unless t is served at the same address.
RetiredFor(t) == {s \in CurrentOf(GroupOf(t)) : ~SameAddress(t, s)}

Deadlines == {deadline[t] : t \in Tokens} \cup {0}

\* _commit: the deadline of what it retires comes after all others.
Commit(t) ==
    LET replaced == CurrentOf(GroupOf(t)) \ RetiredFor(t) IN
    /\ current' = [k \in Keys |-> IF k = publication[t].key THEN t
                                  ELSE IF Group[k] = GroupOf(t) THEN 0 ELSE current[k]]
    /\ \E last \in Deadlines :
           /\ \A d \in Deadlines : d <= last
           /\ Prune([s \in Tokens |-> IF s \in RetiredFor(t) THEN last + 1 ELSE deadline[s]],
                    ClosedBy(replaced))

Discard(t) ==
    /\ publication' = ClosedBy({t})
    /\ UNCHANGED <<current, deadline, timer>>

\* _produce resumes with the candidate; without an admission it commits.
StartAdmission(t) ==
    /\ work[t].pc = "answered"
    /\ RequireCurrent(t)
    /\ work' = [work EXCEPT ![t].pc = "admission"]
    /\ UNCHANGED <<published, desired, nextToken, refresh, closing, awaited, repository>>

\* Mutation of CommitWork: nothing is checked after the admission.
CommitWorkUnchecked(t) ==
    /\ work[t].pc = "admission" \/ (work[t].pc = "answered" /\ RequireCurrent(t))
    /\ Commit(t)
    /\ Finish(t)
    /\ UNCHANGED <<desired, nextToken, refresh, closing, awaited, repository>>

\* The admission may end normally although it was cancelled.
CommitWork(t) ==
    /\ work[t].pc \in {"answered", "admission"}
    /\ RequireCurrent(t)
    /\ Commit(t)
    /\ Finish(t)
    /\ UNCHANGED <<desired, nextToken, refresh, closing, awaited, repository>>

DiscardSuperseded(t) ==
    /\ work[t].pc \in {"answered", "admission"}
    /\ ~RequireCurrent(t)
    /\ Discard(t)
    /\ Finish(t)
    /\ UNCHANGED <<desired, nextToken, refresh, closing, awaited, repository>>

\* admit raises, or is cancelled.
DiscardRejected(t) ==
    /\ work[t].pc = "admission"
    /\ Discard(t)
    /\ Finish(t)
    /\ UNCHANGED <<desired, nextToken, refresh, closing, awaited, repository>>

\* Mutation of CallerCancelled: the caller does not wait for its work.
CallerCancelledReturns(t) ==
    /\ work[t].caller = "waiting"
    /\ work[t].by = "application"
    /\ work' = [work EXCEPT ![t] = [Cancelled(work[t]) EXCEPT !.caller = "returned"]]
    /\ UNCHANGED <<published, desired, nextToken, refresh, closing, awaited, repository>>

\* The task that called prepare is cancelled: it cancels the work and waits
\* until it has settled.
CallerCancelled(t) ==
    /\ work[t].caller = "waiting"
    /\ work[t].by = "application"
    /\ work' = [work EXCEPT ![t] = [Cancelled(work[t]) EXCEPT !.caller = "settling"]]
    /\ UNCHANGED <<published, desired, nextToken, refresh, closing, awaited, repository>>

\* prepare resumes after its work and takes it out of _work.
CallerReturns(t) ==
    /\ work[t].pc = "done"
    /\ work[t].caller \in {"waiting", "settling"}
    /\ work' = [work EXCEPT ![t] = Returned]
    /\ refresh' = [k \in Keys |-> IF refresh[k].pc = "preparing" /\ refresh[k].token = t
                                  THEN [refresh[k] EXCEPT !.pc = "finished"] ELSE refresh[k]]
    /\ UNCHANGED <<published, desired, nextToken, closing, awaited, repository>>

-----------------------------------------------------------------------------
(* current, asset, poll and its refresh *)

\* current, asset and poll first close what has expired.
Look ==
    /\ Prune(deadline, publication)
    /\ UNCHANGED <<current, work, desired, nextToken, refresh, closing, awaited, repository>>

Poll(k) ==
    /\ Prune(deadline, publication)
    /\ current[k] # 0
    /\ refresh[k].pc = "none"
    /\ WorkingOn(Group[k]) = {}
    /\ refresh' = [refresh EXCEPT ![k] = [NoRefresh EXCEPT !.pc = "queued",
                       !.selected = current[k], !.desired = desired[Group[k]]]]
    /\ UNCHANGED <<current, work, desired, nextToken, closing, awaited, repository>>

RefreshOpens(k) ==
    /\ refresh[k].pc = "queued"
    /\ ~Closed
    /\ repository' = "open"
    /\ refresh' = [refresh EXCEPT ![k].pc = "predicate"]
    /\ UNCHANGED <<published, work, desired, nextToken, closing, awaited>>

RefreshAnswers(k) ==
    /\ refresh[k].pc = "predicate"
    /\ \E stale \in BOOLEAN :
           refresh' = [refresh EXCEPT ![k] = [@ EXCEPT !.pc = "answered", !.stale = stale]]
    /\ UNCHANGED <<published, work, desired, nextToken, closing, awaited, repository>>

\* Mutation of StillWanted: the desired token is not compared.
StillWantedAnyToken(k) ==
    /\ ~Closed
    /\ refresh[k].stale
    /\ current[k] = refresh[k].selected

\* Nothing has happened to the publication or its group since the poll.
StillWanted(k) ==
    /\ ~Closed
    /\ refresh[k].stale
    /\ current[k] = refresh[k].selected
    /\ desired[Group[k]] = refresh[k].desired

RefreshPrepares(k) ==
    /\ refresh[k].pc = "answered"
    /\ StillWanted(k)
    /\ StartWork(k, "refresh")
    /\ refresh' = [refresh EXCEPT ![k] = [@ EXCEPT !.pc = "preparing", !.token = nextToken + 1]]
    /\ UNCHANGED <<published, closing, awaited, repository>>

\* The predicate failed or said no, the controller is closed, or something
\* newer was decided.
RefreshEnds(k) ==
    /\ \/ refresh[k].pc = "queued" /\ Closed
       \/ refresh[k].pc = "predicate"
       \/ refresh[k].pc = "answered" /\ ~StillWanted(k)
    /\ refresh' = [refresh EXCEPT ![k].pc = "finished"]
    /\ UNCHANGED <<published, work, desired, nextToken, closing, awaited, repository>>

\* The done callback of the task
RefreshFinished(k) ==
    /\ refresh[k].pc = "finished"
    /\ refresh' = [refresh EXCEPT ![k] = NoRefresh]
    /\ awaited' = [awaited EXCEPT !.refresh = @ \ {k}]
    /\ UNCHANGED <<published, work, desired, nextToken, closing, repository>>

-----------------------------------------------------------------------------
(* release, the retirement timer and close *)

RetiredOf(g) == {t \in Retired : GroupOf(t) = g}

\* Mutation of ReleasedBy: the retired publications of the group are dropped.
ReleasedByCurrent(g) == CurrentOf(g)

ReleasedBy(g) == CurrentOf(g) \cup RetiredOf(g)

\* Mutation of Release: the timer is left as it is.
ReleaseKeepsTimer(k) ==
    LET g == Group[k] IN
    /\ work' = CancelledIn(WorkingOn(g))
    /\ publication' = ClosedBy(ReleasedBy(g))
    /\ current' = [j \in Keys |-> IF Group[j] = g THEN 0 ELSE current[j]]
    /\ deadline' = [t \in Tokens |-> IF t \in RetiredOf(g) THEN NotRetired ELSE deadline[t]]
    /\ desired' = [desired EXCEPT ![g] = 0]
    /\ refresh' = OutdatedIn(g)
    /\ UNCHANGED <<timer, nextToken, closing, awaited, repository>>

Release(k) ==
    LET g == Group[k] IN
    /\ work' = CancelledIn(WorkingOn(g))
    /\ publication' = ClosedBy(ReleasedBy(g))
    /\ current' = [j \in Keys |-> IF Group[j] = g THEN 0 ELSE current[j]]
    /\ deadline' = [t \in Tokens |-> IF t \in RetiredOf(g) THEN NotRetired ELSE deadline[t]]
    /\ desired' = [desired EXCEPT ![g] = 0]
    /\ Schedule
    /\ refresh' = OutdatedIn(g)
    /\ UNCHANGED <<nextToken, closing, awaited, repository>>

Sooner(d) == IF d > 0 THEN d - 1 ELSE d

\* Time passes the next deadline.
GracePasses ==
    /\ \E t \in Tokens : deadline[t] > 0
    /\ deadline' = [t \in Tokens |-> Sooner(deadline[t])]
    /\ timer' = Sooner(timer)
    /\ UNCHANGED <<publication, current, work, desired, nextToken, refresh, closing, awaited,
                   repository>>

RetirementDue ==
    /\ timer = 0
    /\ Prune(deadline, publication)
    /\ UNCHANGED <<current, work, desired, nextToken, refresh, closing, awaited, repository>>

\* close starts a task that runs _close.
CloseCalled ==
    /\ closing = "open"
    /\ closing' = "called"
    /\ UNCHANGED <<published, work, desired, nextToken, refresh, awaited, repository>>

CloseStarts ==
    /\ closing = "called"
    /\ closing' = "gathering"
    /\ timer' = NoTimer
    /\ awaited' = [work |-> Working, refresh |-> {k \in Keys : refresh[k].pc # "none"}]
    /\ work' = CancelledIn(Working)
    /\ UNCHANGED <<publication, current, deadline, desired, nextToken, refresh, repository>>

Gathered ==
    /\ \A t \in awaited.work : work[t].pc = "done"
    /\ \A k \in awaited.refresh : refresh[k].pc = "finished"

\* Everything that it knew of has ended; the publications are closed.
CloseGathered ==
    /\ closing = "gathering"
    /\ Gathered
    /\ publication' = ClosedBy(Shown)
    /\ current' = [k \in Keys |-> 0]
    /\ deadline' = [t \in Tokens |-> NotRetired]
    /\ desired' = [g \in Groups |-> 0]
    /\ refresh' = [k \in Keys |-> NoRefresh]
    /\ awaited' = [work |-> {}, refresh |-> {}]
    /\ closing' = IF OwnsRepository /\ repository = "open" THEN "repository" ELSE "closed"
    /\ UNCHANGED <<timer, work, nextToken, repository>>

\* An owned repository is closed in a worker thread.
CloseRepository ==
    /\ closing = "repository"
    /\ repository' = "closed"
    /\ closing' = "closed"
    /\ UNCHANGED <<published, work, desired, nextToken, refresh, awaited>>

-----------------------------------------------------------------------------
(* Specification *)

Work(t) ==
    \/ WorkOpens(t) \/ (\E instance \in Instances : WorkAnswers(t, instance)) \/ WorkFails(t)
    \/ StartAdmission(t) \/ CommitWork(t) \/ DiscardSuperseded(t) \/ DiscardRejected(t)
    \/ CallerCancelled(t) \/ CallerReturns(t)

Refresh(k) ==
    \/ Poll(k) \/ RefreshOpens(k) \/ RefreshAnswers(k) \/ RefreshPrepares(k)
    \/ RefreshEnds(k) \/ RefreshFinished(k)

Close == CloseCalled \/ CloseStarts \/ CloseGathered \/ CloseRepository

Next ==
    \/ \E t \in Tokens : Work(t)
    \/ \E k \in Keys : Prepare(k) \/ Refresh(k) \/ Release(k)
    \/ Look
    \/ GracePasses
    \/ RetirementDue
    \/ Close

Spec == Init /\ [][Next]_vars

\* The loop and the worker threads run, callbacks of the application return,
\* an admission ends when it is cancelled, and time passes.
WorkFairness(t) ==
    /\ WF_vars(WorkOpens(t))
    /\ WF_vars((\E instance \in Instances : WorkAnswers(t, instance)) \/ WorkFails(t))
    /\ WF_vars(work[t].pc = "answered" /\ (StartAdmission(t) \/ CommitWork(t)))
    /\ WF_vars(work[t].pc = "answered" /\ DiscardSuperseded(t))
    /\ WF_vars(work[t].interrupted /\ (DiscardSuperseded(t) \/ DiscardRejected(t)))
    /\ WF_vars(CallerReturns(t))

RefreshFairness(k) ==
    /\ WF_vars(RefreshOpens(k))
    /\ WF_vars(RefreshAnswers(k) \/ RefreshEnds(k))
    /\ WF_vars(RefreshPrepares(k))
    /\ WF_vars(RefreshFinished(k))

Fairness ==
    /\ \A t \in Tokens : WorkFairness(t)
    /\ \A k \in Keys : RefreshFairness(k)
    /\ WF_vars(GracePasses)
    /\ WF_vars(RetirementDue)
    /\ WF_vars(CloseStarts)
    /\ WF_vars(CloseGathered)
    /\ WF_vars(CloseRepository)

FairSpec == Spec /\ Fairness

-----------------------------------------------------------------------------
(* Properties *)

Candidates == {t \in Tokens : work[t].pc \in {"answered", "admission"}}

\* Every prepared export is open exactly as long as it is shown, in route
\* grace or waiting for its admission: none is closed under a reader, and none
\* is left open, whatever supersedes, fails, is cancelled or released.
PublicationsAccounted ==
    {t \in Tokens : publication[t].state = "open"} = Shown \cup Candidates

\* The owned repository is closed after everything that uses it: worker
\* threads, refresh predicates and prepared exports (close, _publication.py:321).
RepositoryClosesLast ==
    repository = "closed" =>
        /\ \A t \in Tokens : work[t].pc # "thread" /\ publication[t].state # "open"
        /\ \A k \in Keys : refresh[k].pc # "predicate"

\* Nothing is closed under its user and nothing is left open, exports and the
\* repository they read alike.
ResourcesAccounted == PublicationsAccounted /\ RepositoryClosesLast

\* "New preparation and release supersede outstanding checks" (application-
\* publication-and-delivery.md): a refresh never starts work over a decision
\* that the application took after the poll.
RefreshYieldsToIntent ==
    [][\A k \in Keys : refresh[k].pc = "answered" /\ refresh'[k].pc = "preparing"
           => ~refresh[k].outdated /\ current[k] = refresh[k].selected]_vars

\* Addresses that requests can be served at
Served(tokens, publications) ==
    {<<Route[publications[t].key], publications[t].instance>> : t \in tokens}

\* A replacement takes no address away: only release, close and the end of its
\* route grace do ("Route grace keeps the older instance path live").
ReplacementKeepsAddresses ==
    [][(\E t \in Tokens : work[t].pc # "done" /\ work'[t].pc = "done") =>
           Served(Shown \ Expired, publication) \subseteq Served(Shown', publication')]_vars

\* A publication in route grace is closed sooner or later, without any request.
RetiredAreClosed ==
    \A t \in Tokens : t \in Retired ~> publication[t].state = "closed"

\* close ends when the callbacks of the application do.
CloseEnds == closing # "open" ~> closing = "closed"

\* What was given up ends: a retired publication and a controller that closes.
GivenUpEnds == RetiredAreClosed /\ CloseEnds

GroupShows(g) == IF CurrentOf(g) = {} THEN 0 ELSE CHOOSE t \in CurrentOf(g) : TRUE

LastGood == INSTANCE LastGood WITH
    wanted <- desired, shown <- [g \in Groups |-> GroupShows(g)]

\* A group shows the result of the latest intent or else what it showed before;
\* failure and cancellation change nothing (_require_current, _commit).
ImplementsLastGood == LastGood!Spec
=============================================================================
