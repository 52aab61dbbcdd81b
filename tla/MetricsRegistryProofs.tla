----------------------- MODULE MetricsRegistryProofs -----------------------
(***************************************************************************)
(* The safety properties of MetricsRegistry, proved for every set of       *)
(* prefixes and names, every HasPrefix and FQName, and every number of     *)
(* registrations.                                                          *)
(***************************************************************************)
EXTENDS MetricsRegistry, TLAPS

(* A config that was not created yet has no gauges, a gauge belongs to a   *)
(* metric of the registry, and every name in the Prometheus registry is    *)
(* that of a gauge some config has, or had while it was registered.        *)
GaugesKnown ==
    /\ \A c \in Configs : c > made => gauges[c] = {}
    /\ \A c \in Configs : gauges[c] \subseteq source[c]
    /\ \A x \in prom : \E c \in Configs : x \in Exported(c)

One(c, S) == IF c \in S THEN 1 ELSE 0

(* The ticks that are on their way count as updates to come.               *)
LateBounded ==
    \A c \in Configs :
        /\ c \in active \/ c > made => late[c] = 0
        /\ late[c] + One(c, tick) + One(c, woken) <= 2

IInv ==
    /\ TypeOK /\ GaugesKnown /\ LateBounded
    /\ PrefixesDisjoint /\ GaugesStayExported /\ CrashNeedsCollision

-----------------------------------------------------------------------------
(* A name is exported by a config iff the config has a gauge for it.       *)
LEMMA ExportedNames ==
  ASSUME NEW c, NEW x
  PROVE  x \in Exported(c) <=> \E n \in gauges[c] : x = Name(c, n)
  BY DEF Exported

(* The initial states satisfy the invariant.                               *)
LEMMA InitIInv == Init => IInv
  <1> SUFFICES ASSUME Init PROVE IInv
    OBVIOUS
  <1>1. made \in 0..MaxConfigs /\ prefix \in [Configs -> Prefixes]
    BY BoundAssumption, PrefixAssumption DEF Init
  <1>2. /\ source \in [Configs -> SUBSET Names] /\ gauges \in [Configs -> SUBSET Names]
        /\ late \in [Configs -> Nat]
    BY DEF Init
  <1>3. TypeOK
    BY <1>1, <1>2 DEF Init, TypeOK
  <1>4. GaugesKnown /\ LateBounded
    BY DEF Init, GaugesKnown, LateBounded, One
  <1>5. PrefixesDisjoint /\ GaugesStayExported /\ CrashNeedsCollision
    BY DEF Init, PrefixesDisjoint, GaugesStayExported, CrashNeedsCollision
  <1> QED BY <1>3, <1>4, <1>5 DEF IInv

(* A new config with a prefix that isAlreadyDefined accepts keeps the      *)
(* invariant: CrossRegister, and the second registration of a constructor. *)
LEMMA AddConfigKeeps ==
  ASSUME IInv, NEW p \in Prefixes, AddConfig(p), ~IsAlreadyDefined(p), ~crashed,
         replacing' \subseteq replacing,
         UNCHANGED <<source, tick, woken, late, prom, gauges, crashed>>
  PROVE  IInv'
  <1> USE BoundAssumption DEF IInv
  <1> DEFINE new == made + 1
  <1>1. /\ new \in Configs /\ made' \in 0..MaxConfigs /\ made' = new
        /\ prefix' \in [Configs -> Prefixes]
        /\ prefix'[new] = p /\ gauges[new] = {}
        /\ \A c \in Configs : c # new => prefix'[c] = prefix[c]
        /\ active' = active \cup {new}
        /\ 1..made' = (1..made) \cup {new} /\ new \notin 1..made /\ 1..made \subseteq Configs
    BY DEF AddConfig, TypeOK, GaugesKnown, Configs
  <1>2. TypeOK'
    BY <1>1 DEF TypeOK, AddConfig
  <1>3. \A c \in Configs : Exported(c)' = Exported(c)
    <2> SUFFICES ASSUME NEW c \in Configs PROVE Exported(c)' = Exported(c)
      OBVIOUS
    <2>1. CASE c = new
      BY <1>1, <2>1 DEF Exported
    <2>2. CASE c # new
      BY <1>1, <2>2 DEF Exported, Name
    <2> QED BY <2>1, <2>2
  <1>4. GaugesKnown'
    BY <1>1, <1>3 DEF GaugesKnown, TypeOK, Configs
  <1>5. LateBounded'
    <2> SUFFICES ASSUME NEW c \in Configs
                 PROVE  /\ c \in active' \/ c > made' => late[c] = 0
                        /\ late[c] + One(c, tick) + One(c, woken) <= 2
      BY DEF LateBounded, One
    <2>1. c \in active' \/ c > made' => c \in active \/ c > made
      BY <1>1 DEF TypeOK, Configs
    <2> QED BY <2>1 DEF LateBounded
  <1>6. PrefixesDisjoint'
    <2>1. \A c \in active : p # Anonymous /\ prefix[c] # Anonymous =>
            <<p, prefix[c]>> \notin HasPrefix /\ <<prefix[c], p>> \notin HasPrefix
      BY DEF IsAlreadyDefined
    <2> QED BY <1>1, <2>1 DEF PrefixesDisjoint, TypeOK
  <1>7. GaugesStayExported'
    <2> SUFFICES ASSUME NEW c \in active', NEW n \in gauges[c],
                        \A d \in 1..made' : \A m \in gauges[d] :
                            d # c => Name(d, m)' # Name(c, n)'
                 PROVE  Name(c, n)' \in prom
      BY DEF GaugesStayExported
    <2>1. c \in active /\ c \in 1..made
      BY <1>1 DEF TypeOK
    <2>2. \A d \in 1..made : \A m : Name(d, m)' = Name(d, m)
      BY <1>1 DEF Name
    <2> QED BY <1>1, <2>1, <2>2 DEF GaugesStayExported
  <1>8. CrashNeedsCollision'
    BY DEF CrashNeedsCollision
  <1> QED BY <1>2, <1>4, <1>5, <1>6, <1>7, <1>8

(* Unregistering some configs keeps the invariant: Unregister,             *)
(* ReplaceUnregisters and UnregisterMetrics.                               *)
LEMMA RemoveKeeps ==
  ASSUME IInv, NEW gone \in SUBSET active, ~crashed,
         active' = active \ gone, ticker' = ticker \ gone,
         prom' = prom \ UNION {Exported(c) : c \in gone},
         replacing' \subseteq {"unregister", "register"} \X Prefixes,
         UNCHANGED <<made, prefix, source, tick, woken, late, gauges, crashed>>
  PROVE  IInv'
  <1> USE DEF IInv
  <1>1. TypeOK'
    BY DEF TypeOK
  <1>2. LateBounded' /\ PrefixesDisjoint' /\ CrashNeedsCollision'
    BY DEF LateBounded, PrefixesDisjoint, CrashNeedsCollision
  <1>3. /\ \A c : Exported(c)' = Exported(c)
        /\ \A c, n : Name(c, n)' = Name(c, n)
    BY DEF Exported, Name
  <1>4. GaugesKnown'
    BY <1>3 DEF GaugesKnown
  <1>5. GaugesStayExported'
    <2> SUFFICES ASSUME NEW c \in active', NEW n \in gauges[c],
                        \A d \in 1..made : \A m \in gauges[d] : d # c => Name(d, m) # Name(c, n)
                 PROVE  Name(c, n) \in prom'
      BY <1>3 DEF GaugesStayExported
    <2>1. c \in active /\ c \notin gone /\ Name(c, n) \in prom
      BY DEF GaugesStayExported
    <2>2. ASSUME NEW d \in gone, Name(c, n) \in Exported(d) PROVE FALSE
      <3>1. d \in 1..made /\ d # c
        BY <2>1 DEF TypeOK
      <3> QED BY <2>2, <3>1, ExportedNames
    <2> QED BY <2>1, <2>2
  <1> QED BY <1>1, <1>2, <1>4, <1>5

(* An update that panics has met an invalid name or a collision.           *)
LEMMA PanicHasReason ==
  ASSUME IInv, NEW c \in 1..made, Panics(c, source[c] \ gauges[c])
  PROVE  \E a, b \in 1..made : \E n \in source[a], m \in source[b] :
            \/ Name(a, n) \in Invalid
            \/ /\ Name(a, n) = Name(b, m)
               /\ \/ <<prefix[a], n>> # <<prefix[b], m>>
                  \/ a # b /\ prefix[a] = Anonymous
                  \/ a # b /\ a \notin active
  <1> DEFINE Goal == \E a, b \in 1..made : \E n \in source[a], m \in source[b] :
                        \/ Name(a, n) \in Invalid
                        \/ /\ Name(a, n) = Name(b, m)
                           /\ \/ <<prefix[a], n>> # <<prefix[b], m>>
                              \/ a # b /\ prefix[a] = Anonymous
                              \/ a # b /\ a \notin active
  <1> HIDE DEF Goal
  <1> SUFFICES Goal
    BY DEF Goal
  <1> USE DEF IInv
  <1>1. 1..made \subseteq Configs
    BY BoundAssumption DEF TypeOK, Configs
  <1>2. ASSUME NEW d \in Configs, NEW m \in gauges[d]
        PROVE  d \in 1..made /\ m \in source[d]
    BY <1>2, BoundAssumption DEF GaugesKnown, TypeOK, Configs
  <1>3. ASSUME NEW n \in source[c] \ gauges[c], Name(c, n) \in Invalid
        PROVE  Goal
    BY <1>3 DEF Goal
  <1>4. ASSUME NEW n \in source[c], NEW m \in source[c], m # n, Name(c, m) = Name(c, n)
        PROVE  Goal
    <2>1. <<prefix[c], m>> # <<prefix[c], n>>
      BY <1>4
    <2> QED BY <1>4, <2>1 DEF Goal
  <1>5. ASSUME NEW n \in source[c] \ gauges[c], NEW d \in Configs, NEW m \in gauges[d],
               Name(d, m) = Name(c, n)
        PROVE  Goal
    <2>1. d \in 1..made /\ m \in source[d]
      BY <1>2
    <2>2. CASE <<prefix[c], n>> # <<prefix[d], m>>
      BY <1>5, <2>1, <2>2 DEF Goal
    <2>3. CASE <<prefix[c], n>> = <<prefix[d], m>>
      <3>1. prefix[c] = prefix[d] /\ m = n
        BY <2>3
      <3>2. c # d
        BY <3>1
      <3>3. CASE prefix[c] = Anonymous
        BY <1>5, <2>1, <3>2, <3>3 DEF Goal
      <3>4. CASE prefix[c] # Anonymous
        <4>1. <<prefix[c], prefix[d]>> \in HasPrefix
          BY <1>1, <3>1, PrefixAssumption DEF TypeOK
        <4>2. c \notin active \/ d \notin active
          BY <3>1, <3>2, <3>4, <4>1 DEF PrefixesDisjoint
        <4> QED BY <1>5, <2>1, <3>2, <4>2 DEF Goal
      <3> QED BY <3>3, <3>4
    <2> QED BY <2>2, <2>3
  <1>6. ASSUME NEW n \in source[c] \ gauges[c], Name(c, n) \in prom
        PROVE  Goal
    <2>1. PICK d \in Configs : Name(c, n) \in Exported(d)
      BY <1>6 DEF GaugesKnown
    <2>2. PICK m \in gauges[d] : Name(c, n) = Name(d, m)
      BY <2>1, ExportedNames
    <2> QED BY <1>5, <2>2
  <1> QED BY <1>3, <1>4, <1>5, <1>6 DEF Panics, Rejected

(* An update keeps the invariant, whether it registers gauges or panics.   *)
LEMMA UpdateKeeps ==
  ASSUME IInv, NEW c \in Configs, UpdateOnce(c)
  PROVE  IInv'
  <1> USE BoundAssumption DEF IInv
  <1> DEFINE new == source[c] \ gauges[c]
             names == {Name(c, n) : n \in new}
  <1>1. c \in 1..made /\ new \subseteq Names /\ ~crashed
    BY DEF UpdateOnce, TypeOK
  <1>2. /\ woken' = woken \ {c} /\ c \in woken
        /\ late' = IF c \in active THEN late ELSE [late EXCEPT ![c] = @ + 1]
        /\ UNCHANGED <<made, prefix, active, source, ticker, tick, replacing>>
    BY DEF UpdateOnce
  <1>3. late' \in [Configs -> Nat]
    BY <1>2 DEF TypeOK
  <1>4. LateBounded'
    BY <1>1, <1>2 DEF LateBounded, TypeOK, One, Configs
  <1>5. PrefixesDisjoint'
    BY <1>2 DEF PrefixesDisjoint
  <1>6. \A d, n : Name(d, n)' = Name(d, n)
    BY <1>2 DEF Name
  <1>7. CASE ~Panics(c, new)
    <2>1. /\ prom' = prom \cup names /\ crashed' = crashed
          /\ gauges' = [gauges EXCEPT ![c] = @ \cup new]
      BY <1>7 DEF UpdateOnce
    <2>2. names \subseteq FullNames
      BY <1>1 DEF Name, TypeOK, FullNames
    <2>3. gauges' \in [Configs -> SUBSET Names]
      BY <1>1, <2>1 DEF TypeOK
    <2>4. TypeOK'
      BY <1>2, <1>3, <2>1, <2>2, <2>3 DEF TypeOK
    <2>5. gauges'[c] = gauges[c] \cup new /\ \A d \in Configs : d # c => gauges'[d] = gauges[d]
      BY <2>1 DEF TypeOK
    <2>6. Exported(c)' = Exported(c) \cup names
      BY <1>6, <2>5 DEF Exported
    <2>7. \A d \in Configs : d # c => Exported(d)' = Exported(d)
      BY <1>6, <2>5 DEF Exported
    <2>8. GaugesKnown'
      <3>1. \A d \in Configs : d > made => d # c
        BY <1>1 DEF TypeOK
      <3> QED BY <1>2, <2>1, <2>5, <2>6, <2>7, <3>1 DEF GaugesKnown
    <2>9. GaugesStayExported'
      <3> SUFFICES ASSUME NEW d \in active, NEW n \in gauges'[d],
                          \A e \in 1..made : \A m \in gauges'[e] : e # d => Name(e, m) # Name(d, n)
                   PROVE  Name(d, n) \in prom'
        BY <1>2, <1>6 DEF GaugesStayExported
      <3>1. d \in Configs /\ 1..made \subseteq Configs
        BY DEF TypeOK, Configs
      <3>2. \A e \in Configs : gauges[e] \subseteq gauges'[e]
        BY <2>5
      <3>3. CASE n \in gauges[d]
        BY <2>1, <3>1, <3>2, <3>3 DEF GaugesStayExported
      <3>4. CASE n \notin gauges[d]
        BY <2>1, <2>5, <3>1, <3>4
      <3> QED BY <3>3, <3>4
    <2>10. CrashNeedsCollision'
      BY <1>1, <2>1 DEF CrashNeedsCollision
    <2> QED BY <1>4, <1>5, <2>4, <2>8, <2>9, <2>10
  <1>8. CASE Panics(c, new)
    <2>1. crashed' = TRUE /\ UNCHANGED <<prom, gauges>>
      BY <1>8 DEF UpdateOnce
    <2>2. \A d : Exported(d)' = Exported(d)
      BY <1>6, <2>1 DEF Exported
    <2>3. crashed' \in BOOLEAN
      BY <2>1
    <2>4. TypeOK'
      BY <1>2, <1>3, <2>1, <2>3 DEF TypeOK
    <2>5. GaugesKnown' /\ GaugesStayExported'
      BY <1>2, <1>6, <2>1, <2>2 DEF GaugesKnown, GaugesStayExported
    <2>6. CrashNeedsCollision'
      BY <1>1, <1>2, <1>6, <1>8, PanicHasReason DEF CrashNeedsCollision
    <2> QED BY <1>4, <1>5, <2>4, <2>5, <2>6
  <1> QED BY <1>7, <1>8

(* The steps that leave the registrations and the gauges alone.            *)
LEMMA QuietKeeps ==
  ASSUME IInv, UNCHANGED <<made, prefix, active, ticker, late, prom, gauges, crashed>>,
         TypeOK', LateBounded',
         \A c \in Configs : source[c] \subseteq source'[c]
  PROVE  IInv'
  <1> USE DEF IInv
  <1>1. /\ \A c : Exported(c)' = Exported(c)
        /\ \A c, n : Name(c, n)' = Name(c, n)
    BY DEF Exported, Name
  <1>2. PrefixesDisjoint'
    BY DEF PrefixesDisjoint
  <1>3. GaugesKnown' /\ GaugesStayExported'
    BY <1>1 DEF GaugesKnown, GaugesStayExported
  <1>4. CrashNeedsCollision'
    <2>1. 1..made \subseteq Configs
      BY BoundAssumption DEF TypeOK, Configs
    <2> QED BY <1>1, <2>1 DEF CrashNeedsCollision
  <1> QED BY <1>2, <1>3, <1>4

(* Every step of Next keeps the invariant: one step per action.            *)
LEMMA NextIInv == IInv /\ [Next]_vars => IInv'
  <1> SUFFICES ASSUME IInv, [Next]_vars PROVE IInv'
    OBVIOUS
  <1> USE BoundAssumption, PrefixAssumption DEF loopVars
  <1>1. ASSUME NEW p \in Prefixes, CrossRegister(p) PROVE IInv'
    BY <1>1, AddConfigKeeps DEF CrossRegister
  <1>2. CASE UnregisterMetrics
    <2>1. active' = active \ active /\ prom' = prom \ UNION {Exported(c) : c \in active}
      BY <1>2 DEF UnregisterMetrics
    <2>2. replacing' \subseteq {"unregister", "register"} \X Prefixes
      BY <1>2 DEF UnregisterMetrics, IInv, TypeOK
    <2> QED BY <1>2, <2>1, <2>2, RemoveKeeps DEF UnregisterMetrics
  <1>3. ASSUME NEW c \in Configs, Unregister(c) \/ ReplaceUnregisters(c) PROVE IInv'
    <2>1. c \in active /\ ~crashed /\ Remove(c)
      BY <1>3 DEF Unregister, ReplaceUnregisters
    <2>2. prom' = prom \ UNION {Exported(d) : d \in {c}} /\ {c} \subseteq active
      BY <2>1 DEF Remove
    <2>3. replacing' \subseteq {"unregister", "register"} \X Prefixes
      BY <1>3 DEF Unregister, ReplaceUnregisters, IInv, TypeOK
    <2> QED BY <2>1, <2>2, <2>3, RemoveKeeps DEF Remove
  <1>4. ASSUME NEW p \in Prefixes, ReplaceRegisters(p), ~IsAlreadyDefined(p) PROVE IInv'
    BY <1>4, AddConfigKeeps DEF ReplaceRegisters
  <1>5. ASSUME NEW p \in Prefixes,
               \/ ReplaceRefused(p) \/ ReplacePanics(p)
               \/ ReplaceRegisters(p) /\ IsAlreadyDefined(p)
        PROVE  IInv'
    <2>1. /\ UNCHANGED <<made, prefix, active, source, ticker, tick, woken, late, prom, gauges,
                         crashed>>
          /\ replacing' \subseteq {"unregister", "register"} \X Prefixes
      BY <1>5 DEF ReplaceRefused, ReplacePanics, ReplaceRegisters, IInv, TypeOK
    <2>2. TypeOK' /\ LateBounded'
      BY <2>1 DEF IInv, TypeOK, LateBounded
    <2> QED BY <2>1, <2>2, QuietKeeps
  <1>6. ASSUME NEW c \in Configs, UpdateOnce(c) PROVE IInv'
    BY <1>6, UpdateKeeps
  <1>7. ASSUME NEW c \in Configs, Tick(c) \/ Wake(c) PROVE IInv'
    <2>1. /\ UNCHANGED <<made, prefix, active, source, ticker, late, prom, gauges, replacing, crashed>>
          /\ tick' \subseteq 1..made /\ woken' \subseteq 1..made
      BY <1>7 DEF Tick, Wake, IInv, TypeOK
    <2>2. TypeOK'
      BY <2>1 DEF IInv, TypeOK
    <2>3. LateBounded'
      BY <1>7, <2>1 DEF Tick, Wake, IInv, TypeOK, LateBounded, One
    <2> QED BY <2>1, <2>2, <2>3, QuietKeeps
  <1>8. ASSUME NEW c \in Configs, NEW n \in Names, NewMetric(c, n) PROVE IInv'
    <2>1. /\ UNCHANGED <<made, prefix, active, ticker, tick, woken, late, prom, gauges, replacing,
                         crashed>>
          /\ source' \in [Configs -> SUBSET Names]
          /\ \A d \in Configs : source[d] \subseteq source'[d]
      BY <1>8 DEF NewMetric, IInv, TypeOK
    <2>2. TypeOK' /\ LateBounded'
      BY <2>1 DEF IInv, TypeOK, LateBounded
    <2> QED BY <2>1, <2>2, QuietKeeps
  <1>9. CASE UNCHANGED vars
    <2>1. TypeOK' /\ LateBounded'
      BY <1>9 DEF vars, IInv, TypeOK, LateBounded
    <2> QED BY <1>9, <2>1, QuietKeeps DEF vars
  <1> QED BY <1>1, <1>2, <1>3, <1>4, <1>5, <1>6, <1>7, <1>8, <1>9 DEF Next

(* IInv holds in every state of every behaviour.                           *)
LEMMA Invariance == Spec => []IInv
  BY InitIInv, NextIInv, PTL DEF Spec

-----------------------------------------------------------------------------
(* isAlreadyDefined keeps the registered prefixes disjoint, over any       *)
(* sequence of registering, replacing and unregistering.                   *)
THEOREM DisjointPrefixes == Spec => []PrefixesDisjoint
  <1>1. IInv => PrefixesDisjoint
    BY DEF IInv
  <1> QED BY Invariance, <1>1, PTL

(* After it was unregistered, a config updates at most twice.              *)
THEOREM FewLateUpdates == Spec => []LateUpdatesEnd
  <1>1. IInv => LateUpdatesEnd
    BY DEF IInv, TypeOK, LateBounded, LateUpdatesEnd, One
  <1> QED BY Invariance, <1>1, PTL

(* No other config removes a gauge of a registered config, unless it has,  *)
(* or had, a gauge of the same name.                                       *)
THEOREM StayingGauges == Spec => []GaugesStayExported
  <1>1. IInv => GaugesStayExported
    BY DEF IInv
  <1> QED BY Invariance, <1>1, PTL

(* MustRegister panics in an update only for an invalid name, for two      *)
(* metrics that flattenKey and "_" give one name, for "" registered twice, *)
(* or for a late update of a config whose prefix has a new one.            *)
THEOREM CrashesAreCollisions == Spec => []CrashNeedsCollision
  <1>1. IInv => CrashNeedsCollision
    BY DEF IInv
  <1> QED BY Invariance, <1>1, PTL
=============================================================================
