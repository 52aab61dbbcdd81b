------------------------ MODULE LeaderSelectorProofs ------------------------
(***************************************************************************)
(* The lease of an instance is taken only when it has expired, for all     *)
(* durations the elector accepts; and at most one instance leads, if the   *)
(* lease is long enough. Both for any number of instances.                 *)
(***************************************************************************)
EXTENDS LeaderSelector, FiniteSetTheorems, TLAPS

(* The types that the proof needs.                                         *)
Types ==
    /\ pc \in [Instances -> {"off", "acquire", "renew", "pause", "release", "stopping", "done"}]
    /\ req \in [Instances -> {"none", "sent", "applied"}]
    /\ timer \in [Instances -> Nat]
    /\ age \in [Instances -> Nat]
    /\ DOMAIN observed = Instances
    /\ raw \in [Instances -> BOOLEAN]
    /\ known \in [Instances -> BOOLEAN]
    /\ slow \in [Instances -> BOOLEAN]
    /\ since \in Nat

(* Who calls, and how long the windows and the pauses last.                *)
Timers ==
    \A i \in Instances :
        /\ req[i] # "none" => pc[i] \in {"acquire", "renew"}
        /\ pc[i] = "renew" => timer[i] <= RenewDeadline
        /\ pc[i] = "pause" => timer[i] <= RetryPeriod

(* The lease belongs to i, or to no instance that is alive.                *)
Mine(i) == holder = i \/ holder \notin Instances

(* Who has seen the current record knows its holder, unless it has died,   *)
(* and has not watched it for longer than it exists.                       *)
RecordSeen ==
    \A j \in Instances : raw[j] =>
        /\ observed[j] = holder \/ holder = "dead"
        /\ holder \in Instances => age[j] <= since

(* An instance that believes to hold the lease, and whose version of it is *)
(* the current one, does hold it.                                          *)
OwnRecord ==
    \A i \in Instances :
        /\ req[i] = "applied" => ~raw[i]
        /\ known[i] /\ (observed[i] = i \/ req[i] = "applied" \/ pc[i] = "release") => Mine(i)

(* An Update that the API server would accept takes a lease that is over.  *)
Expired ==
    \A i \in Instances :
        req[i] = "sent" /\ known[i] => Mine(i) \/ since >= LeaseDuration

(* i leads, or the API server has its Update and the answer will be prompt *)
(* if it comes now.                                                        *)
Sure(i) ==
    \/ pc[i] \in Leading /\ ~slow[i]
    \/ req[i] = "applied" /\ (pc[i] = "acquire" => timer[i] <= Latency)

(* The longest time from an Update of the leader to the beginning of its   *)
(* next window of renewals.                                                *)
Old == IF RenewDeadline + RetryPeriod > Latency THEN RenewDeadline + RetryPeriod ELSE Latency

(* Such an instance holds the lease, by an Update that its timer dates.    *)
Recent ==
    LongLease => \A i \in Instances : Sure(i) =>
        /\ holder = i
        /\ req[i] = "applied" => since <= timer[i]
        /\ pc[i] = "renew" => since <= Old + timer[i]
        /\ pc[i] = "pause" => since <= RenewDeadline + timer[i]

IInv == Types /\ Timers /\ RecordSeen /\ OwnRecord /\ Expired /\ Recent

-----------------------------------------------------------------------------
(* The initial states satisfy the invariant: nobody holds the lease.       *)
LEMMA InitIInv == Init => IInv
  <1> SUFFICES ASSUME Init PROVE IInv
    OBVIOUS
  <1> USE DEF Init
  <1>1. Types
    BY DEF Types
  <1>2. Timers /\ RecordSeen /\ OwnRecord /\ Expired
    BY DEF Timers, RecordSeen, OwnRecord, Expired
  <1>3. Recent
    BY DEF Recent, Sure, Leading
  <1> QED BY <1>1, <1>2, <1>3 DEF IInv

(* Steps keep the types.                                                   *)
LEMMA TypesStep == Types /\ [Next]_vars => Types'
  <1> SUFFICES ASSUME Types, [Next]_vars PROVE Types'
    OBVIOUS
  <1> USE DurationsAssumption DEF Types, Goto, cluster, view
  <1>1. ASSUME NEW i \in Instances, Start(i) PROVE Types'
    BY <1>1 DEF Start
  <1>2. ASSUME NEW i \in Instances, TryFast(i) PROVE Types'
    BY <1>2 DEF TryFast
  <1>3. ASSUME NEW i \in Instances, TrySlow(i) PROVE Types'
    BY <1>3 DEF TrySlow, Observe
  <1>4. ASSUME NEW i \in Instances, Apply(i) PROVE Types'
    <2>1. known' \in [Instances -> BOOLEAN] /\ raw' \in [Instances -> BOOLEAN] /\ since' \in Nat
      BY <1>4 DEF Apply, Write
    <2> QED BY <1>4, <2>1 DEF Apply
  <1>5. ASSUME NEW i \in Instances, Reply(i) PROVE Types'
    <2>1. slow' \in [Instances -> BOOLEAN]
      BY <1>5 DEF Reply
    <2> QED BY <1>5, <2>1 DEF Reply
  <1>6. ASSUME NEW i \in Instances, Forget(i)
        PROVE  req' \in [Instances -> {"none", "sent", "applied"}] /\ known' \in [Instances -> BOOLEAN]
    BY <1>6 DEF Forget
  <1>7. ASSUME NEW i \in Instances, UpdateFails(i) PROVE Types'
    BY <1>6, <1>7 DEF UpdateFails
  <1>8. ASSUME NEW i \in Instances, Drop(i)
        PROVE  /\ DOMAIN observed' = Instances /\ age' \in [Instances -> Nat]
               /\ raw' \in [Instances -> BOOLEAN] /\ slow' \in [Instances -> BOOLEAN]
    BY <1>8 DEF Drop
  <1>9. ASSUME NEW i \in Instances, LeaveRenew(i) \/ LeaveAcquire(i) PROVE Types'
    BY <1>6, <1>8, <1>9 DEF LeaveRenew, LeaveAcquire
  <1>10. ASSUME NEW i \in Instances, Renew(i) \/ OnStoppedLeading(i) \/ OnStartedLeading(i) PROVE Types'
    BY <1>10 DEF Renew, OnStoppedLeading, OnStartedLeading
  <1>11. ASSUME NEW i \in Instances, Release(i) PROVE Types'
    <2>1. CASE Write(i, "none")
      <3>1. known' \in [Instances -> BOOLEAN] /\ raw' \in [Instances -> BOOLEAN] /\ since' \in Nat
        BY <2>1 DEF Write
      <3> QED BY <1>11, <3>1 DEF Release
    <2>2. CASE UNCHANGED cluster
      BY <1>11, <2>2 DEF Release
    <2> QED BY <1>11, <2>1, <2>2 DEF Release
  <1>12. ASSUME NEW i \in Instances, Crash(i) PROVE Types'
    BY <1>8, <1>12 DEF Crash
  <1>13. ASSUME Tick PROVE Types'
    <2>1. timer' \in [Instances -> Nat] /\ age' \in [Instances -> Nat] /\ since' \in Nat
      BY <1>13 DEF Tick, Later
    <2> QED BY <1>13, <2>1 DEF Tick
  <1>14. ASSUME UNCHANGED vars PROVE Types'
    BY <1>14 DEF vars
  <1> QED
    BY <1>1, <1>2, <1>3, <1>4, <1>5, <1>7, <1>9, <1>10, <1>11, <1>12, <1>13, <1>14 DEF Next, Try

(* Steps keep the timers bounded: what is due happens before time passes.  *)
LEMMA TimersStep == IInv /\ [Next]_vars => Timers'
  <1> SUFFICES ASSUME IInv, [Next]_vars PROVE Timers'
    OBVIOUS
  <1> USE DurationsAssumption DEF IInv, Types, Timers, Goto, cluster, view
  <1>1. ASSUME NEW i \in Instances, Start(i) PROVE Timers'
    BY <1>1 DEF Start
  <1>2. ASSUME NEW i \in Instances, TryFast(i) PROVE Timers'
    BY <1>2 DEF TryFast
  <1>3. ASSUME NEW i \in Instances, TrySlow(i) PROVE Timers'
    BY <1>3 DEF TrySlow
  <1>4. ASSUME NEW i \in Instances, Apply(i) PROVE Timers'
    BY <1>4 DEF Apply
  <1>5. ASSUME NEW i \in Instances, Reply(i) PROVE Timers'
    BY <1>5 DEF Reply
  <1>6. ASSUME NEW i \in Instances, UpdateFails(i) PROVE Timers'
    BY <1>6 DEF UpdateFails, Forget
  <1>7. ASSUME NEW i \in Instances, LeaveRenew(i) \/ LeaveAcquire(i) PROVE Timers'
    BY <1>7 DEF LeaveRenew, LeaveAcquire, Forget
  <1>8. ASSUME NEW i \in Instances, Renew(i) \/ OnStoppedLeading(i) PROVE Timers'
    BY <1>8 DEF Renew, OnStoppedLeading
  <1>9. ASSUME NEW i \in Instances, OnStartedLeading(i) PROVE Timers'
    BY <1>9 DEF OnStartedLeading
  <1>10. ASSUME NEW i \in Instances, Release(i) PROVE Timers'
    BY <1>10 DEF Release
  <1>11. ASSUME NEW i \in Instances, Crash(i) PROVE Timers'
    BY <1>11 DEF Crash
  <1>12. ASSUME Tick PROVE Timers'
    <2>1. pc' = pc /\ req' = req
      BY <1>12 DEF Tick
    <2>2. \A i \in Instances : pc[i] \in Leading => timer'[i] = timer[i] + 1
      BY <1>12 DEF Tick
    <2>3. \A i \in Instances : ~Due(i)
      BY <1>12 DEF Tick
    <2> QED BY <2>1, <2>2, <2>3 DEF Due, Leading
  <1>13. ASSUME UNCHANGED vars PROVE Timers'
    BY <1>13 DEF vars
  <1> QED
    BY <1>1, <1>2, <1>3, <1>4, <1>5, <1>6, <1>7, <1>8, <1>9, <1>10, <1>11, <1>12, <1>13 DEF Next, Try
-----------------------------------------------------------------------------
(* Nobody else than the holder's instance can take its lease: what a Write *)
(* does to the others.                                                     *)
LEMMA WriteEffect ==
  ASSUME NEW i \in Instances, NEW h, Write(i, h)
  PROVE  /\ holder' = h /\ since' = 0 /\ known[i]
         /\ \A j \in Instances : ~raw'[j] /\ (known'[j] <=> j = i)
  BY DEF Write

(* Steps keep what has been seen of the current record.                    *)
LEMMA RecordSeenStep == IInv /\ [Next]_vars => RecordSeen'
  <1> SUFFICES ASSUME IInv, [Next]_vars PROVE RecordSeen'
    OBVIOUS
  <1> USE DEF IInv, Types, RecordSeen, cluster, view
  <1>1. ASSUME NEW i \in Instances, TrySlow(i) PROVE RecordSeen'
    BY <1>1 DEF TrySlow, Observe
  <1>2. ASSUME NEW i \in Instances, NEW h, Write(i, h) PROVE RecordSeen'
    BY <1>2, WriteEffect
  <1>3. ASSUME NEW i \in Instances, Reply(i) PROVE RecordSeen'
    BY <1>3 DEF Reply, OwnRecord
  <1>4. ASSUME NEW i \in Instances, Drop(i), UNCHANGED <<holder, since>> PROVE RecordSeen'
    BY <1>4 DEF Drop
  <1>5. ASSUME NEW i \in Instances, Crash(i) PROVE RecordSeen'
    BY <1>5, IdentityAssumption DEF Crash, Drop
  <1>6. ASSUME Tick PROVE RecordSeen'
    <2>1. holder' = holder /\ raw' = raw /\ observed' = observed
      BY <1>6 DEF Tick
    <2>2. \A j \in Instances : age'[j] = IF Ages(j) THEN Later(age[j], LeaseDuration) ELSE 0
      BY <1>6 DEF Tick
    <2>3. holder \in Instances => since' = Later(since, LeaseDuration)
      BY <1>6 DEF Tick
    <2> QED BY <2>1, <2>2, <2>3, DurationsAssumption DEF Later
  <1>7. ASSUME UNCHANGED <<cluster, view>> PROVE RecordSeen'
    BY <1>7
  <1> QED
    BY <1>1, <1>2, <1>3, <1>4, <1>5, <1>6, <1>7
       DEF Next, Try, Start, TryFast, Apply, UpdateFails, Renew, LeaveRenew, LeaveAcquire, Release,
           OnStoppedLeading, OnStartedLeading, vars

(* Steps keep the belief of whoever has the current version true.          *)
LEMMA OwnRecordStep == IInv /\ [Next]_vars => OwnRecord'
  <1> SUFFICES ASSUME IInv, [Next]_vars PROVE OwnRecord'
    OBVIOUS
  <1> USE DEF IInv, Types, OwnRecord, Mine, Goto, cluster, view
  <1>1. ASSUME NEW i \in Instances, Start(i) PROVE OwnRecord'
    BY <1>1 DEF Start
  <1>2. ASSUME NEW i \in Instances, TryFast(i) PROVE OwnRecord'
    BY <1>2 DEF TryFast
  <1>3. ASSUME NEW i \in Instances, TrySlow(i) PROVE OwnRecord'
    <2>1. /\ pc' = pc /\ holder' = holder /\ pc[i] # "release" /\ req'[i] # "applied"
          /\ \A k \in Instances : k # i => req'[k] = req[k] /\ known'[k] = known[k]
                                           /\ raw'[k] = raw[k] /\ observed'[k] = observed[k]
      BY <1>3 DEF TrySlow, Observe
    <2>2. observed'[i] = holder \/ holder = "dead"
      BY <1>3 DEF TrySlow, Observe, RecordSeen
    <2> QED BY <2>1, <2>2, IdentityAssumption
  <1>4. ASSUME NEW i \in Instances, Apply(i) PROVE OwnRecord'
    <2>1. /\ holder' = i /\ \A j \in Instances : ~raw'[j] /\ (known'[j] <=> j = i)
      BY <1>4, WriteEffect DEF Apply
    <2> QED BY <2>1
  <1>5. ASSUME NEW i \in Instances, Reply(i) PROVE OwnRecord'
    BY <1>5 DEF Reply
  <1>6. ASSUME NEW i \in Instances, Forget(i)
        PROVE  /\ req'[i] = "none" /\ (known'[i] => known[i])
               /\ \A k \in Instances : k # i => req'[k] = req[k] /\ known'[k] = known[k]
    BY <1>6 DEF Forget
  <1>7. ASSUME NEW i \in Instances, Drop(i)
        PROVE  /\ observed'[i] = "none" /\ ~raw'[i]
               /\ \A k \in Instances : k # i => observed'[k] = observed[k] /\ raw'[k] = raw[k]
    BY <1>7 DEF Drop
  <1>8. ASSUME NEW i \in Instances, UpdateFails(i) PROVE OwnRecord'
    BY <1>6, <1>8 DEF UpdateFails
  <1>9. ASSUME NEW i \in Instances, LeaveRenew(i) PROVE OwnRecord'
    <2>1. /\ holder' = holder
          /\ \A k \in Instances : k # i => pc'[k] = pc[k]
          /\ pc'[i] = "release" => observed[i] = i
      BY <1>9 DEF LeaveRenew, IsLeader
    <2>2. Forget(i) /\ Drop(i)
      BY <1>9 DEF LeaveRenew
    <2> QED BY <1>6, <1>7, <2>1, <2>2, IdentityAssumption
  <1>10. ASSUME NEW i \in Instances, LeaveAcquire(i) PROVE OwnRecord'
    BY <1>6, <1>7, <1>10, IdentityAssumption DEF LeaveAcquire
  <1>11. ASSUME NEW i \in Instances, Release(i) PROVE OwnRecord'
    <2>1. CASE Write(i, "none")
      <3>1. /\ holder' = "none" /\ \A j \in Instances : ~raw'[j]
        BY <2>1, WriteEffect
      <3> QED BY <3>1, IdentityAssumption
    <2>2. CASE UNCHANGED cluster
      BY <1>11, <2>2 DEF Release
    <2> QED BY <1>11, <2>1, <2>2 DEF Release
  <1>12. ASSUME NEW i \in Instances, Crash(i) PROVE OwnRecord'
    <2>1. /\ holder' = IF holder = i THEN "dead" ELSE holder
          /\ ~known'[i] /\ req'[i] = "none"
          /\ \A k \in Instances : k # i => pc'[k] = pc[k] /\ req'[k] = req[k] /\ known'[k] = known[k]
      BY <1>12 DEF Crash
    <2>2. Drop(i)
      BY <1>12 DEF Crash
    <2> QED BY <1>7, <2>1, <2>2, IdentityAssumption
  <1>13. ASSUME NEW i \in Instances, Renew(i) \/ OnStoppedLeading(i) PROVE OwnRecord'
    BY <1>13 DEF Renew, OnStoppedLeading
  <1>14. ASSUME UNCHANGED <<pc, req, holder, raw, known, observed>> PROVE OwnRecord'
    BY <1>14
  <1> QED
    BY <1>1, <1>2, <1>3, <1>4, <1>5, <1>8, <1>9, <1>10, <1>11, <1>12, <1>13, <1>14
       DEF Next, Try, OnStartedLeading, Tick, vars
(* Steps keep the Updates that would be accepted behind the end of the     *)
(* lease they take.                                                        *)
LEMMA ExpiredStep == IInv /\ [Next]_vars => Expired'
  <1> SUFFICES ASSUME IInv, [Next]_vars PROVE Expired'
    OBVIOUS
  <1> USE DEF IInv, Types, Expired, Mine, cluster, view
  <1>1. ASSUME NEW i \in Instances, TryFast(i) PROVE Expired'
    BY <1>1 DEF TryFast, IsLeader, OwnRecord
  <1>2. ASSUME NEW i \in Instances, TrySlow(i) PROVE Expired'
    <2>1. /\ holder' = holder /\ since' = since /\ req[i] = "none"
          /\ \A k \in Instances : k # i => req'[k] = req[k] /\ known'[k] = known[k]
      BY <1>2 DEF TrySlow
    <2>2. ASSUME req'[i] = "sent", holder \in Instances, holder # i PROVE since >= LeaseDuration
      <3>1. holder # "none" /\ holder # "dead"
        BY <2>2, IdentityAssumption
      <3>2. observed'[i] = holder
        BY <1>2, <3>1 DEF TrySlow, Observe, RecordSeen
      <3>3. ~(age'[i] < LeaseDuration)
        BY <1>2, <2>1, <2>2, <3>1, <3>2 DEF TrySlow, IsLeaseValid
      <3>4. CASE ~raw[i]
        <4>1. age'[i] = 0
          BY <1>2, <3>4 DEF TrySlow, Observe
        <4> QED BY <3>3, <4>1, DurationsAssumption
      <3>5. CASE raw[i]
        <4>1. age'[i] = age[i] /\ age[i] <= since
          BY <1>2, <2>2, <3>5 DEF TrySlow, Observe, RecordSeen
        <4> QED BY <3>3, <4>1, DurationsAssumption
      <3> QED BY <3>4, <3>5
    <2> QED BY <2>1, <2>2
  <1>3. ASSUME NEW i \in Instances, Apply(i) PROVE Expired'
    <2>1. \A j \in Instances : known'[j] <=> j = i
      BY <1>3, WriteEffect DEF Apply
    <2> QED BY <1>3, <2>1 DEF Apply
  <1>4. ASSUME NEW i \in Instances, Reply(i) PROVE Expired'
    BY <1>4 DEF Reply
  <1>5. ASSUME NEW i \in Instances, Forget(i), UNCHANGED <<holder, since>> PROVE Expired'
    BY <1>5 DEF Forget
  <1>6. ASSUME NEW i \in Instances, Release(i) PROVE Expired'
    <2>1. CASE Write(i, "none")
      BY <2>1, WriteEffect, IdentityAssumption
    <2>2. CASE UNCHANGED cluster
      BY <1>6, <2>2 DEF Release
    <2> QED BY <1>6, <2>1, <2>2 DEF Release
  <1>7. ASSUME NEW i \in Instances, Crash(i) PROVE Expired'
    BY <1>7, IdentityAssumption DEF Crash
  <1>8. ASSUME Tick PROVE Expired'
    <2>1. holder \in Instances => since' = Later(since, LeaseDuration)
      BY <1>8 DEF Tick
    <2>2. req' = req /\ known' = known /\ holder' = holder
      BY <1>8 DEF Tick
    <2> QED BY <2>1, <2>2, DurationsAssumption DEF Later
  <1>9. ASSUME UNCHANGED <<req, cluster>> PROVE Expired'
    BY <1>9
  <1> QED
    BY <1>1, <1>2, <1>3, <1>4, <1>5, <1>6, <1>7, <1>8, <1>9
       DEF Next, Try, Start, UpdateFails, Renew, LeaveRenew, LeaveAcquire,
           OnStoppedLeading, OnStartedLeading, vars

-----------------------------------------------------------------------------
(* Time since the last Update of an instance that surely leads: less than  *)
(* LeaseDuration, if the lease is long enough.                             *)
LEMMA SureIsRecent ==
  ASSUME IInv, LongLease, NEW i \in Instances, Sure(i)
  PROVE  holder = i /\ since < LeaseDuration
  <1> USE DEF IInv
  <1>1. /\ holder = i
        /\ req[i] = "applied" => since <= timer[i]
        /\ pc[i] = "renew" => since <= Old + timer[i]
        /\ pc[i] = "pause" => since <= RenewDeadline + timer[i]
    BY DEF Recent
  <1>2. /\ req[i] # "none" => pc[i] \in {"acquire", "renew"}
        /\ pc[i] = "renew" => timer[i] <= RenewDeadline
        /\ pc[i] = "pause" => timer[i] <= RetryPeriod
    BY DEF Timers
  <1>3. since \in Nat /\ timer[i] \in Nat
    BY DEF Types
  <1>4. Old + RenewDeadline < LeaseDuration /\ Old \in Nat
    BY DurationsAssumption DEF Old, LongLease
  <1>5. CASE pc[i] = "renew"
    <2>1. since <= Old + RenewDeadline \/ since <= RenewDeadline
      BY <1>1, <1>2, <1>3, <1>4, <1>5, DurationsAssumption
    <2> QED BY <1>1, <1>3, <1>4, <2>1, DurationsAssumption
  <1>6. CASE pc[i] = "pause"
    BY <1>1, <1>2, <1>3, <1>6, DurationsAssumption DEF LongLease
  <1>7. CASE req[i] = "applied" /\ pc[i] = "acquire" /\ timer[i] <= Latency
    BY <1>1, <1>3, <1>7, DurationsAssumption DEF LongLease
  <1> QED BY <1>2, <1>5, <1>6, <1>7 DEF Sure, Leading

(* Steps keep the lease with whoever surely leads, and its Update recent.  *)
LEMMA RecentStep == IInv /\ [Next]_vars => Recent'
  <1> SUFFICES ASSUME IInv, [Next]_vars, LongLease PROVE Recent'
    BY DEF Recent, LongLease
  <1>0. Old \in Nat /\ Latency <= Old /\ RenewDeadline + RetryPeriod <= Old
    BY DurationsAssumption DEF Old
  <1> USE DurationsAssumption DEF IInv, Types, Recent, Sure, Leading, Goto, cluster, view
  <1>1. ASSUME NEW i \in Instances, Start(i) PROVE Recent'
    BY <1>1 DEF Start, Timers
  <1>2. ASSUME NEW i \in Instances, TryFast(i) PROVE Recent'
    BY <1>2 DEF TryFast
  <1>3. ASSUME NEW i \in Instances, TrySlow(i) PROVE Recent'
    <2>1. /\ pc' = pc /\ slow' = slow /\ holder' = holder /\ since' = since
          /\ req[i] = "none" /\ req'[i] # "applied"
          /\ pc[i] # "acquire" => timer'[i] = timer[i]
          /\ \A k \in Instances : k # i => req'[k] = req[k] /\ timer'[k] = timer[k]
      BY <1>3 DEF TrySlow
    <2> QED BY <2>1
  <1>4. ASSUME NEW i \in Instances, Apply(i) PROVE Recent'
    <2>1. holder' = i /\ since' = 0 /\ known[i] /\ req[i] = "sent"
      BY <1>4, WriteEffect DEF Apply
    <2>2. ASSUME NEW k \in Instances, k # i, Sure(k) PROVE FALSE
      <3>1. holder = k /\ since < LeaseDuration
        BY <2>2, SureIsRecent
      <3> QED BY <2>1, <2>2, <3>1 DEF Expired, Mine
    <2>3. /\ pc' = pc /\ slow' = slow /\ timer' = timer
          /\ \A k \in Instances : k # i => req'[k] = req[k]
      BY <1>4 DEF Apply
    <2> QED BY <1>0, <2>1, <2>2, <2>3
  <1>5. ASSUME NEW i \in Instances, Reply(i) PROVE Recent'
    <2>1. /\ holder' = holder /\ since' = since
          /\ \A k \in Instances : k # i => req'[k] = req[k] /\ pc'[k] = pc[k] /\ timer'[k] = timer[k]
                                           /\ slow'[k] = slow[k]
      BY <1>5 DEF Reply
    <2>2. /\ req'[i] = "none" /\ timer'[i] = 0 /\ req[i] = "applied"
          /\ pc'[i] = IF pc[i] = "acquire" THEN "renew" ELSE "pause"
          /\ slow'[i] <=> pc[i] = "acquire" /\ timer[i] > Latency
      BY <1>5 DEF Reply
    <2>3. timer[i] <= RenewDeadline \/ pc[i] = "acquire"
      BY <2>2 DEF Timers
    <2>4. CASE pc[i] = "acquire" /\ timer[i] > Latency
      BY <2>1, <2>2, <2>4
    <2>5. CASE ~(pc[i] = "acquire" /\ timer[i] > Latency)
      <3>1. Sure(i)
        BY <2>2, <2>5
      <3>2. holder = i /\ since <= timer[i]
        BY <2>2, <3>1
      <3>3. pc[i] = "acquire" => since <= Old
        BY <1>0, <2>5, <3>2
      <3>4. pc[i] # "acquire" => since <= RenewDeadline
        BY <2>3, <3>2
      <3> QED BY <1>0, <2>1, <2>2, <3>2, <3>3, <3>4
    <2> QED BY <2>4, <2>5
  <1>6. ASSUME NEW i \in Instances, UpdateFails(i) PROVE Recent'
    BY <1>6 DEF UpdateFails, Forget
  <1>7. ASSUME NEW i \in Instances, LeaveRenew(i) \/ LeaveAcquire(i) PROVE Recent'
    BY <1>7 DEF LeaveRenew, LeaveAcquire, Forget, Drop
  <1>8. ASSUME NEW i \in Instances, Renew(i) PROVE Recent'
    <2>1. req[i] = "none"
      BY <1>8 DEF Renew, Timers
    <2> QED BY <1>0, <1>8, <2>1 DEF Renew
  <1>9. ASSUME NEW i \in Instances, OnStoppedLeading(i) PROVE Recent'
    BY <1>9 DEF OnStoppedLeading, Timers
  <1>10. ASSUME NEW i \in Instances, OnStartedLeading(i) PROVE Recent'
    BY <1>10 DEF OnStartedLeading
  <1>11. ASSUME NEW i \in Instances, Release(i) PROVE Recent'
    <2>1. /\ pc[i] = "release" /\ req[i] = "none" /\ req' = req /\ slow' = slow /\ pc'[i] = "stopping"
          /\ \A k \in Instances : k # i => pc'[k] = pc[k] /\ timer'[k] = timer[k]
      BY <1>11 DEF Release, Timers
    <2>2. CASE Write(i, "none")
      <3>1. holder = i \/ holder \notin Instances
        BY <2>1, <2>2, WriteEffect DEF OwnRecord, Mine
      <3>2. \A k \in Instances : k # i => ~Sure(k)
        BY <3>1
      <3> QED BY <2>1, <3>2
    <2>3. CASE UNCHANGED cluster
      BY <2>1, <2>3
    <2> QED BY <1>11, <2>2, <2>3 DEF Release
  <1>12. ASSUME NEW i \in Instances, Crash(i) PROVE Recent'
    BY <1>12 DEF Crash, Drop
  <1>13. ASSUME Tick PROVE Recent'
    <2>1. pc' = pc /\ req' = req /\ slow' = slow /\ holder' = holder
      BY <1>13 DEF Tick
    <2>2. holder \in Instances => since' <= since + 1 /\ since' \in Nat
      BY <1>13 DEF Tick, Later
    <2>3. \A k \in Instances : pc[k] \in Leading => timer'[k] = timer[k] + 1
      BY <1>13 DEF Tick
    <2>4. \A k \in Instances :
              pc[k] = "acquire" /\ req[k] = "applied" /\ timer'[k] <= Latency => timer'[k] = timer[k] + 1
      BY <1>13 DEF Tick, Acquiring, Later
    <2>5. ASSUME NEW k \in Instances, Sure(k)' PROVE Sure(k)
      BY <2>1, <2>4, <2>5
    <2> QED BY <1>0, <2>1, <2>2, <2>3, <2>4, <2>5 DEF Timers
  <1>14. ASSUME UNCHANGED vars PROVE Recent'
    BY <1>14 DEF vars
  <1> QED
    BY <1>1, <1>2, <1>3, <1>4, <1>5, <1>6, <1>7, <1>8, <1>9, <1>10, <1>11, <1>12, <1>13, <1>14
       DEF Next, Try

-----------------------------------------------------------------------------
(* The invariant holds in every state of every behaviour.                  *)
LEMMA Invariance == Spec => []IInv
  <1>1. Init => IInv
    BY InitIInv
  <1>2. IInv /\ [Next]_vars => IInv'
    BY TypesStep, TimersStep, RecordSeenStep, OwnRecordStep, ExpiredStep, RecentStep DEF IInv
  <1> QED BY <1>1, <1>2, PTL DEF Spec

(* Whatever durations the elector accepts and however long its calls take, *)
(* the lease of an instance is taken only after LeaseDuration without an   *)
(* Update, and given up only by the instance itself.                       *)
THEOREM TakenWhenExpired == Spec => LeaseRespected
  <1> DEFINE Step ==
        holder' # holder /\ holder \in Instances =>
            /\ holder' \in Instances => since >= LeaseDuration
            /\ holder' = "none" => pc[holder] = "release" /\ pc'[holder] = "stopping"
  <1>1. IInv /\ [Next]_vars => [Step]_vars
    <2> SUFFICES ASSUME IInv, [Next]_vars, holder' # holder, holder \in Instances PROVE Step
      OBVIOUS
    <2>1. ASSUME NEW i \in Instances, Apply(i) PROVE Step
      <3>1. holder' = i /\ known[i] /\ req[i] = "sent"
        BY <2>1, WriteEffect DEF Apply
      <3> QED BY <3>1, IdentityAssumption DEF IInv, Expired, Mine
    <2>2. ASSUME NEW i \in Instances, Release(i) PROVE Step
      <3>1. Write(i, "none")
        BY <2>2 DEF Release, cluster
      <3>2. holder' = "none" /\ known[i] /\ pc[i] = "release" /\ pc' = [pc EXCEPT ![i] = "stopping"]
        BY <2>2, <3>1, WriteEffect DEF Release, Goto
      <3> QED BY <3>2, IdentityAssumption DEF IInv, Types, OwnRecord, Mine
    <2>3. ASSUME NEW i \in Instances, Crash(i) PROVE Step
      <3>1. holder' = "dead"
        BY <2>3 DEF Crash
      <3> QED BY <3>1, IdentityAssumption
    <2> QED
      BY <2>1, <2>2, <2>3
         DEF Next, Try, Start, TryFast, TrySlow, Reply, UpdateFails, Renew, LeaveRenew, LeaveAcquire,
             OnStoppedLeading, OnStartedLeading, Tick, cluster, vars
  <1> QED BY <1>1, Invariance, PTL DEF Spec, LeaseRespected

(* With a lease that outlives the windows of renewals the renew loop of a  *)
(* leader ends before another instance acquires the lease: two instances   *)
(* never lead at once, although requests and answers are lost, writes      *)
(* conflict and instances crash, unless the answer to one that acquired    *)
(* the lease came late.                                                    *)
THEOREM OneLeader == Spec => []LeaseExcludes
  <1>1. IInv => LeaseExcludes
    <2> SUFFICES ASSUME IInv, LongLease
                 PROVE  Cardinality({ i \in Instances : pc[i] \in Leading /\ ~slow[i] }) <= 1
      BY DEF LeaseExcludes
    <2> DEFINE L == { i \in Instances : pc[i] \in Leading /\ ~slow[i] }
    <2>1. \A i, j \in L : i = j
      BY DEF IInv, Recent, Sure
    <2>2. CASE L = {}
      BY <2>2, FS_EmptySet
    <2>3. ASSUME NEW i \in L PROVE Cardinality(L) <= 1
      <3>1. L = {i}
        BY <2>1
      <3>2. Cardinality(L) = 1
        BY <3>1, FS_Singleton
      <3> QED BY <3>2
    <2> QED BY <2>2, <2>3
  <1> QED BY <1>1, Invariance, PTL
=============================================================================
