--------------------------- MODULE LeaderSelector ---------------------------
(***************************************************************************)
(* Instances of a service that elect a leader through a Lease object, as   *)
(* LeaderSelector.Start does with client-go's leaderelection, and run the  *)
(* work of the leader between the callbacks Start and Stop. Requests to    *)
(* the API server and their responses may be lost; instances crash and     *)
(* start again. Time is discrete and passes for all instances alike: no    *)
(* instance is paused past its own timeouts.                               *)
(***************************************************************************)
EXTENDS Integers, FiniteSets, FiniteSetsExt

CONSTANTS
    Instances,
    LeaseDuration, RenewDeadline, RetryPeriod,  \* K8S_LEASE_..., in ticks
    Latency,    \* how long an Update of acquire takes that counts as prompt
    MaxPending  \* a bound of the goroutines of OnStartedLeading that have not run yet

(* What NewLeaderElector checks, with JitterFactor = 1.2.                  *)
ASSUME DurationsAssumption ==
    /\ {LeaseDuration, RenewDeadline, RetryPeriod, Latency, MaxPending} \subseteq Nat \ {0}
    /\ LeaseDuration > RenewDeadline
    /\ 5 * RenewDeadline > 6 * RetryPeriod

(* A lease that outlives the time from an Update to the end of the next    *)
(* window of renewals. The code does not check it; the defaults 60, 15 and *)
(* 5 satisfy it with a Latency below 45.                                   *)
LongLease ==
    /\ LeaseDuration > RenewDeadline + RetryPeriod + RenewDeadline
    /\ LeaseDuration > Latency + RenewDeadline

(* An identity is a random UUID; the empty one of a free lease and that of *)
(* a process that died are no instance's.                                  *)
ASSUME IdentityAssumption == {"none", "dead"} \cap Instances = {}

VARIABLES
    holder,     \* HolderIdentity of the Lease: an instance, "none", or "dead"
    pc,         \* where Run of the elector stands
    req,        \* the Update of tryAcquireOrRenew
    timer,      \* the time spent in the window, the pause or the call
    observed,   \* the holder in observedRecord
    age,        \* the time since observedTime
    raw,        \* observedRawRecord is the current record
    known,      \* the resourceVersion the lock holds is the current one
    start,      \* the goroutines of OnStartedLeading that have not run yet
    since,      \* the time since the last Update of the Lease
    slow        \* i leads by an Update of acquire that took longer than Latency

vars == <<holder, pc, req, timer, observed, age, raw, known, start, since, slow>>

Leading == {"renew", "pause"}
cluster == <<holder, raw, known, since>>
view == <<observed, age>>

Init ==
    /\ holder = "none"
    /\ pc = [i \in Instances |-> "off"]
    /\ req = [i \in Instances |-> "none"]
    /\ timer = [i \in Instances |-> 0]
    /\ observed = [i \in Instances |-> "none"]
    /\ age = [i \in Instances |-> 0]
    /\ raw = [i \in Instances |-> FALSE]
    /\ known = [i \in Instances |-> FALSE]
    /\ start = [i \in Instances |-> 0]
    /\ since = 0
    /\ slow = [i \in Instances |-> FALSE]

Goto(i, to) ==
    /\ pc' = [pc EXCEPT ![i] = to]
    /\ timer' = [timer EXCEPT ![i] = 0]

(* Run of the elector ends, and its state is gone.                         *)
Drop(i) ==
    /\ observed' = [observed EXCEPT ![i] = "none"]
    /\ age' = [age EXCEPT ![i] = 0]
    /\ raw' = [raw EXCEPT ![i] = FALSE]
    /\ slow' = [slow EXCEPT ![i] = FALSE]

(* Start(ctx): a new elector, with the lock and the identity of before.    *)
Start(i) ==
    /\ pc[i] \in {"off", "done"}
    /\ Goto(i, "acquire")
    /\ UNCHANGED <<req, cluster, view, start, slow>>

-----------------------------------------------------------------------------
(* tryAcquireOrRenew, from acquire and from renew.                         *)

IsLeader(i) == observed[i] = i

BugIsLeaseValid(i) == age'[i] < RenewDeadline

IsLeaseValid(i) == age'[i] < LeaseDuration

(* The fast path: the leader updates the record it knows.                  *)
TryFast(i) ==
    /\ pc[i] = "renew" /\ req[i] = "none"
    /\ IsLeader(i) /\ age[i] < LeaseDuration
    /\ req' = [req EXCEPT ![i] = "sent"]
    /\ UNCHANGED <<pc, timer, cluster, view, start, slow>>

BugObserve(i) ==
    /\ observed' = [observed EXCEPT ![i] = holder]
    /\ age' = [age EXCEPT ![i] = 0]

(* A record is observed, and its age counted, from its first Get on.       *)
Observe(i) ==
    /\ observed' = IF raw[i] THEN observed ELSE [observed EXCEPT ![i] = holder]
    /\ age' = IF raw[i] THEN age ELSE [age EXCEPT ![i] = 0]

(* The slow path: Get the record and go on to Update unless another holds  *)
(* a lease that is valid.                                                  *)
TrySlow(i) ==
    /\ pc[i] \in {"acquire", "renew"} /\ req[i] = "none"
    /\ Observe(i)
    /\ raw' = [raw EXCEPT ![i] = TRUE]
    /\ known' = [known EXCEPT ![i] = TRUE]
    /\ IF holder # "none" /\ IsLeaseValid(i) /\ observed'[i] # i
       THEN UNCHANGED <<req, timer>>
       ELSE /\ req' = [req EXCEPT ![i] = "sent"]
            /\ timer' = IF pc[i] = "acquire" THEN [timer EXCEPT ![i] = 0] ELSE timer
    /\ UNCHANGED <<holder, since, pc, start, slow>>

BugWrite(i, h) ==
    /\ holder' = h
    /\ known' = [j \in Instances |-> j = i]
    /\ raw' = [j \in Instances |-> FALSE]
    /\ since' = 0

(* The API server accepts a write of the current version only.             *)
Write(i, h) ==
    /\ known[i]
    /\ holder' = h
    /\ known' = [j \in Instances |-> j = i]
    /\ raw' = [j \in Instances |-> FALSE]
    /\ since' = 0

Apply(i) ==
    /\ req[i] = "sent"
    /\ Write(i, i)
    /\ req' = [req EXCEPT ![i] = "applied"]
    /\ UNCHANGED <<pc, timer, view, start, slow>>

Pending == MapThenSumSet(LAMBDA j : start[j], Instances)

(* The answer arrives. The one that acquires starts OnStartedLeading in a  *)
(* goroutine and its first window; the leader pauses for RetryPeriod.      *)
Reply(i) ==
    /\ req[i] = "applied"
    /\ req' = [req EXCEPT ![i] = "none"]
    /\ observed' = [observed EXCEPT ![i] = i]
    /\ age' = [age EXCEPT ![i] = 0]
    /\ Goto(i, IF pc[i] = "acquire" THEN "renew" ELSE "pause")
    /\ IF pc[i] = "acquire"
       THEN Pending < MaxPending /\ start' = [start EXCEPT ![i] = @ + 1]
       ELSE UNCHANGED start
    /\ slow' = [slow EXCEPT ![i] = pc[i] = "acquire" /\ timer[i] > Latency]
    /\ UNCHANGED cluster

(* The lock does not learn the version of a write whose answer is lost.    *)
Forget(i) ==
    /\ req' = [req EXCEPT ![i] = "none"]
    /\ known' = [known EXCEPT ![i] = @ /\ req[i] # "applied"]

(* Update returns an error: a conflict, a lost request, a lost answer.     *)
UpdateFails(i) ==
    /\ req[i] # "none"
    /\ Forget(i)
    /\ UNCHANGED <<holder, since, pc, timer, raw, view, start, slow>>

-----------------------------------------------------------------------------
(* The next window of renewals begins.                                     *)
Renew(i) ==
    /\ pc[i] = "pause"
    /\ timer[i] = RetryPeriod
    /\ Goto(i, "renew")
    /\ UNCHANGED <<req, cluster, view, start, slow>>

(* RenewDeadline is over, or the context was cancelled: renew returns and, *)
(* with ReleaseOnCancel, releases the lease it believes to hold.           *)
LeaveRenew(i) ==
    /\ pc[i] \in Leading
    /\ Forget(i)
    /\ Goto(i, IF IsLeader(i) THEN "release" ELSE "stopping")
    /\ Drop(i)
    /\ UNCHANGED <<holder, since, start>>

(* The context is cancelled before the lease is acquired.                  *)
LeaveAcquire(i) ==
    /\ pc[i] = "acquire"
    /\ Forget(i)
    /\ Goto(i, "stopping")
    /\ Drop(i)
    /\ UNCHANGED <<holder, since, start>>

(* release: an Update without a deadline, which may fail.                  *)
Release(i) ==
    /\ pc[i] = "release"
    /\ Goto(i, "stopping")
    /\ Write(i, "none") \/ UNCHANGED cluster
    /\ UNCHANGED <<req, view, start, slow>>

(* The deferred OnStoppedLeading calls Stop, also if Start never was.      *)
OnStoppedLeading(i) ==
    /\ pc[i] = "stopping"
    /\ Goto(i, "done")
    /\ UNCHANGED <<req, cluster, view, start, slow>>

(* OnStartedLeading calls Start, whatever has happened since.              *)
OnStartedLeading(i) ==
    /\ start[i] > 0
    /\ start' = [start EXCEPT ![i] = @ - 1]
    /\ UNCHANGED <<pc, req, timer, cluster, view, slow>>

-----------------------------------------------------------------------------
(* The process dies; the next one has a new random identity.               *)
Crash(i) ==
    /\ pc[i] # "off"
    /\ Goto(i, "off")
    /\ holder' = IF holder = i THEN "dead" ELSE holder
    /\ req' = [req EXCEPT ![i] = "none"]
    /\ Drop(i)
    /\ known' = [known EXCEPT ![i] = FALSE]
    /\ start' = [start EXCEPT ![i] = 0]
    /\ UNCHANGED since

(* What is due happens before time passes. The calls of acquire and of     *)
(* release have no deadline.                                               *)
Due(i) ==
    \/ pc[i] = "renew" /\ timer[i] = RenewDeadline
    \/ pc[i] = "pause" /\ timer[i] = RetryPeriod

Acquiring(i) == pc[i] = "acquire" /\ req[i] # "none"

(* The age of a record is read again before the next one is observed.      *)
Ages(i) == pc[i] \in Leading \/ (pc[i] = "acquire" /\ raw[i])

Later(t, bound) == IF t < bound THEN t + 1 ELSE t

Tick ==
    /\ \A i \in Instances : ~Due(i)
    /\ timer' = [i \in Instances |->
            IF pc[i] \in Leading THEN timer[i] + 1
            ELSE IF Acquiring(i) THEN Later(timer[i], Latency + 1) ELSE 0]
    /\ age' = [i \in Instances |-> IF Ages(i) THEN Later(age[i], LeaseDuration) ELSE 0]
    /\ since' = IF holder \in Instances THEN Later(since, LeaseDuration) ELSE 0
    /\ UNCHANGED <<pc, req, holder, raw, known, observed, start, slow>>

-----------------------------------------------------------------------------
Try(i) == TryFast(i) \/ TrySlow(i)
GoOn(i) == (Due(i) /\ (Renew(i) \/ LeaveRenew(i))) \/ Release(i) \/ OnStoppedLeading(i)

Next ==
    \/ Tick
    \/ \E i \in Instances :
        \/ Start(i) \/ Try(i) \/ Apply(i) \/ Reply(i) \/ UpdateFails(i)
        \/ Renew(i) \/ LeaveRenew(i) \/ LeaveAcquire(i) \/ Release(i)
        \/ OnStoppedLeading(i) \/ OnStartedLeading(i) \/ Crash(i)

(* Time passes, instances do what is due, retry and call back; every call  *)
(* ends, and one that is repeated often enough succeeds.                   *)
Fairness ==
    /\ WF_vars(Tick)
    /\ \A i \in Instances :
        /\ WF_vars(Try(i)) /\ SF_vars(Apply(i)) /\ SF_vars(Reply(i))
        /\ WF_vars(Reply(i) \/ UpdateFails(i))
        /\ WF_vars(GoOn(i)) /\ WF_vars(OnStartedLeading(i))

Spec == Init /\ [][Next]_vars /\ Fairness

-----------------------------------------------------------------------------
(* Properties                                                              *)

(* Whatever the durations and the delays, the lease of an instance that    *)
(* has not died is taken only when LeaseDuration has passed since its last *)
(* Update, and given up only by itself: a lease that looks expired to      *)
(* tryAcquireOrRenew is not renewed between its Get and its Update.        *)
LeaseRespected ==
    [][holder' # holder /\ holder \in Instances =>
        /\ holder' \in Instances => since >= LeaseDuration
        /\ holder' = "none" => pc[holder] = "release" /\ pc'[holder] = "stopping"]_vars

(* If the lease is long enough, at most one instance believes to lead, not *)
(* counting one that acquired the lease by a slow call and has not renewed *)
(* it: the renew loop of the old leader has ended before another acquires. *)
LeaseExcludes ==
    LongLease => Cardinality({ i \in Instances : pc[i] \in Leading /\ ~slow[i] }) <= 1

(* No instance tries for ever to acquire the lease while nobody leads,     *)
(* although leaders crash, fail to release the lease and lose answers.     *)
NoLeaderlessWait ==
    \A i \in Instances :
        ~<>[](pc[i] = "acquire" /\ \A j \in Instances : pc[j] \notin Leading)
=============================================================================
