-------------------------- MODULE MetricsRegistry --------------------------
(***************************************************************************)
(* metrics/cross_register.go: go-metrics registries (one per Kafka client) *)
(* are exported to the Prometheus registry under a prefix. Each            *)
(* registration creates a PrometheusConfig with a ticker and a goroutine   *)
(* that copies the metrics at every tick; the package's mutex makes        *)
(* registering, unregistering and one update atomic.                       *)
(*                                                                         *)
(* Prefixes and metric names are abstract: what the code can see of them   *)
(* is whether one prefix begins with another (HasPrefix), and the fully    *)
(* qualified Prometheus name that flattenKey and BuildFQName make of a     *)
(* prefix and a name (FQName), which may be the same for different pairs,  *)
(* in one registry or in two, or not valid at all.                         *)
(***************************************************************************)
EXTENDS Naturals, FiniteSets

CONSTANTS
    Prefixes,   \* the prefixes in use; Anonymous stands for ""
    Anonymous,
    HasPrefix,  \* the pairs <<p, q>> such that p begins with q
    Names,      \* names of go-metrics metrics
    FQName,     \* flattenKey(prefix) + "_" + flattenKey(name), without "_" for ""
    Invalid,    \* the fully qualified names Prometheus does not accept
    MaxConfigs,  \* bound on the number of registrations
    MaxReplacing \* bound on the number of constructors replacing a prefix at a time

Configs == 1..MaxConfigs

ASSUME BoundAssumption == MaxConfigs \in Nat
ASSUME PrefixAssumption ==
    /\ Anonymous \in Prefixes
    /\ HasPrefix \subseteq Prefixes \X Prefixes
    /\ \A p \in Prefixes : <<p, p>> \in HasPrefix
ASSUME FQNameAssumption == DOMAIN FQName = Prefixes \X Names

VARIABLES
    made,     \* how many PrometheusConfigs were created
    prefix,   \* the namespace of each
    active,   \* the ones in the map configs
    source,   \* the metrics in the go-metrics registry of each that have a
              \* value to export
    gauges,   \* the map gauges of each (its keys)
    ticker,   \* the configs whose ticker runs
    tick,     \* the configs with a tick in the channel of the ticker
    woken,    \* the configs whose goroutine has received a tick
    late,     \* how often each updated after it was unregistered
    prom,     \* the fully qualified names in the Prometheus registry
    replacing,\* <<step, prefix>> for the constructors of partition consumers whose
              \* registration was refused, and that unregister or register next
    crashed   \* MustRegister panicked in an update: the process is gone

vars == <<made, prefix, active, source, gauges, ticker, tick, woken, late, prom, replacing,
          crashed>>
loopVars == <<tick, woken, late, prom, gauges, crashed>>

(* The fully qualified name of the gauge for metric n of config c.         *)
Name(c, n) == FQName[<<prefix[c], n>>]

Init ==
    /\ made = 0
    /\ prefix = [c \in Configs |-> Anonymous]
    /\ active = {} /\ ticker = {} /\ tick = {} /\ woken = {}
    /\ source = [c \in Configs |-> {}]
    /\ gauges = [c \in Configs |-> {}]
    /\ late = [c \in Configs |-> 0]
    /\ prom = {} /\ replacing = {}
    /\ crashed = FALSE

-----------------------------------------------------------------------------
BugIsAlreadyDefined(p) ==
    \E c \in active : p # Anonymous /\ prefix[c] # Anonymous /\ <<p, prefix[c]>> \in HasPrefix

(* isAlreadyDefined: the prefix begins with a registered one, or the other *)
(* way round. "" is never refused, and is stored under a random key.       *)
IsAlreadyDefined(p) ==
    \E c \in active :
        /\ p # Anonymous /\ prefix[c] # Anonymous
        /\ <<p, prefix[c]>> \in HasPrefix \/ <<prefix[c], p>> \in HasPrefix

(* NewPrometheusProvider, appendConfig and the new goroutine.              *)
AddConfig(p) ==
    /\ made < MaxConfigs
    /\ made' = made + 1
    /\ prefix' = [prefix EXCEPT ![made + 1] = p]
    /\ active' = active \cup {made + 1}
    /\ ticker' = ticker \cup {made + 1}

(* CrossRegisterMetricsWithPrefix and its Must variant, when they accept   *)
(* the prefix; a refused prefix changes nothing (error or panic).          *)
CrossRegister(p) ==
    /\ ~crashed
    /\ ~IsAlreadyDefined(p)
    /\ AddConfig(p)
    /\ UNCHANGED <<source, replacing, loopVars>>

(* The names that UnregisterPrometheusMetrics removes for config c.        *)
Exported(c) == {Name(c, n) : n \in gauges[c]}

BugUnregisterByName(c) ==
    /\ active' = active \ {c}
    /\ ticker' = ticker \ {c}
    /\ prom' = prom \ {Name(d, n) : d \in Configs, n \in gauges[c]}
    /\ UNCHANGED <<made, prefix, source, tick, woken, late, gauges, crashed>>

BugTickerRuns(c) ==
    /\ active' = active \ {c}
    /\ prom' = prom \ Exported(c)
    /\ UNCHANGED <<made, prefix, source, ticker, tick, woken, late, gauges, crashed>>

(* UnregisterPrometheusMetrics and the removal from the map: the ticker is *)
(* stopped, the gauges leave the Prometheus registry, the config leaves    *)
(* the map configs; its map gauges is kept, and the goroutine stays.       *)
Remove(c) ==
    /\ active' = active \ {c}
    /\ ticker' = ticker \ {c}
    /\ prom' = prom \ Exported(c)
    /\ UNCHANGED <<made, prefix, source, tick, woken, late, gauges, crashed>>

(* UnregisterMetricsWithPrefix for the prefix of c; a prefix that is not   *)
(* registered changes nothing (panic in the caller).                       *)
Unregister(c) ==
    /\ ~crashed /\ c \in active /\ prefix[c] # Anonymous
    /\ Remove(c)
    /\ UNCHANGED replacing

(* UnregisterMetrics: all of them.                                         *)
UnregisterMetrics ==
    /\ ~crashed /\ active # {}
    /\ active' = {}
    /\ ticker' = ticker \ active
    /\ prom' = prom \ UNION {Exported(c) : c \in active}
    /\ UNCHANGED <<made, prefix, source, tick, woken, late, gauges, replacing, crashed>>

-----------------------------------------------------------------------------
(* crossRegisterKafkaConsumerMetrics, for a prefix that is refused. Each   *)
(* of its three calls takes the mutex on its own. (Constructors with the   *)
(* same prefix at the same step are one member of replacing: a second one  *)
(* can be refused later as well.)                                          *)
ReplaceRefused(p) ==
    /\ ~crashed /\ IsAlreadyDefined(p) /\ Cardinality(replacing) < MaxReplacing
    /\ replacing' = replacing \cup {<<"unregister", p>>}
    /\ UNCHANGED <<made, prefix, active, source, ticker, loopVars>>

(* UnregisterKafkaConsumerMetricsPrefix finds the prefix registered ...    *)
ReplaceUnregisters(c) ==
    /\ ~crashed /\ c \in active /\ <<"unregister", prefix[c]>> \in replacing
    /\ Remove(c)
    /\ replacing' = (replacing \ {<<"unregister", prefix[c]>>}) \cup {<<"register", prefix[c]>>}

(* ... or panics in the constructor, because the prefix only overlaps with *)
(* a registered one, or somebody else has unregistered it.                 *)
ReplacePanics(p) ==
    /\ ~crashed /\ <<"unregister", p>> \in replacing
    /\ \A c \in active : prefix[c] # p
    /\ replacing' = replacing \ {<<"unregister", p>>}
    /\ UNCHANGED <<made, prefix, active, source, ticker, loopVars>>

(* The second registration; when it is refused too, that is only logged.   *)
ReplaceRegisters(p) ==
    /\ ~crashed /\ <<"register", p>> \in replacing
    /\ replacing' = replacing \ {<<"register", p>>}
    /\ \/ IsAlreadyDefined(p) /\ UNCHANGED <<made, prefix, active, ticker>>
       \/ ~IsAlreadyDefined(p) /\ AddConfig(p)
    /\ UNCHANGED <<source, loopVars>>

-----------------------------------------------------------------------------
(* A metric of the client gets a value to export: a counter, gauge, meter  *)
(* or timer when it is created, a histogram with its first sample; other   *)
(* metrics never do.                                                       *)
NewMetric(c, n) ==
    /\ ~crashed /\ c <= made /\ n \notin source[c]
    /\ source' = [source EXCEPT ![c] = @ \cup {n}]
    /\ UNCHANGED <<made, prefix, active, ticker, replacing, loopVars>>

(* The ticker sends; its channel holds one tick. Stop does not take it out.*)
Tick(c) ==
    /\ ~crashed /\ c \in ticker /\ c \notin tick
    /\ tick' = tick \cup {c}
    /\ UNCHANGED <<made, prefix, active, source, ticker, woken, late, prom, gauges, replacing,
                   crashed>>

(* The loop of UpdatePrometheusMetrics receives a tick, and waits for the  *)
(* mutex.                                                                  *)
Wake(c) ==
    /\ ~crashed /\ c \in tick /\ c \notin woken
    /\ tick' = tick \ {c}
    /\ woken' = woken \cup {c}
    /\ UNCHANGED <<made, prefix, active, source, ticker, late, prom, gauges, replacing, crashed>>

(* MustRegister panics for the gauge of metric n of config c: its name is  *)
(* not valid, or in the registry, or was registered, then or now, with     *)
(* another help text, which is the name of the metric: Unregister does not *)
(* forget that.                                                            *)
Rejected(c, n) ==
    \/ Name(c, n) \in Invalid
    \/ Name(c, n) \in prom
    \/ \E d \in Configs : \E m \in gauges[d] : m # n /\ Name(d, m) = Name(c, n)

(* ... also when an earlier metric of the same update has its name.        *)
Panics(c, new) ==
    \/ \E n \in new : Rejected(c, n)
    \/ \E n, m \in new : m # n /\ Name(c, m) = Name(c, n)

BugUpdateOnce(c) ==
    /\ ~crashed /\ c \in woken
    /\ LET new == source[c]
       IN \/ /\ ~Panics(c, new)
             /\ prom' = prom \cup {Name(c, n) : n \in new}
             /\ UNCHANGED <<gauges, crashed>>
          \/ /\ Panics(c, new)
             /\ crashed' = TRUE
             /\ UNCHANGED <<prom, gauges>>
    /\ woken' = woken \ {c}
    /\ late' = IF c \in active THEN late ELSE [late EXCEPT ![c] = @ + 1]
    /\ UNCHANGED <<made, prefix, active, source, ticker, tick, replacing>>

BugUpdateIfEmpty(c) ==
    /\ ~crashed /\ c \in woken
    /\ LET new == IF gauges[c] = {} THEN source[c] ELSE {}
       IN \/ /\ ~Panics(c, new)
             /\ prom' = prom \cup {Name(c, n) : n \in new}
             /\ gauges' = [gauges EXCEPT ![c] = @ \cup new]
             /\ UNCHANGED crashed
          \/ /\ Panics(c, new)
             /\ crashed' = TRUE
             /\ UNCHANGED <<prom, gauges>>
    /\ woken' = woken \ {c}
    /\ late' = IF c \in active THEN late ELSE [late EXCEPT ![c] = @ + 1]
    /\ UNCHANGED <<made, prefix, active, source, ticker, tick, replacing>>

(* UpdatePrometheusMetricsOnce: gaugeFromNameAndValue registers a gauge    *)
(* for every metric that has none; MustRegister panics in a goroutine that *)
(* nothing recovers.                                                       *)
UpdateOnce(c) ==
    /\ ~crashed /\ c \in woken
    /\ LET new == source[c] \ gauges[c]
       IN \/ /\ ~Panics(c, new)
             /\ prom' = prom \cup {Name(c, n) : n \in new}
             /\ gauges' = [gauges EXCEPT ![c] = @ \cup new]
             /\ UNCHANGED crashed
          \/ /\ Panics(c, new)
             /\ crashed' = TRUE
             /\ UNCHANGED <<prom, gauges>>
    /\ woken' = woken \ {c}
    /\ late' = IF c \in active THEN late ELSE [late EXCEPT ![c] = @ + 1]
    /\ UNCHANGED <<made, prefix, active, source, ticker, tick, replacing>>

-----------------------------------------------------------------------------
Next ==
    \/ \E p \in Prefixes :
        CrossRegister(p) \/ ReplaceRefused(p) \/ ReplacePanics(p) \/ ReplaceRegisters(p)
    \/ UnregisterMetrics
    \/ \E c \in Configs :
        \/ Unregister(c) \/ ReplaceUnregisters(c)
        \/ Tick(c) \/ Wake(c) \/ UpdateOnce(c)
        \/ \E n \in Names : NewMetric(c, n)

(* The tickers and the goroutines of the process run.                      *)
Fairness == \A c \in Configs : WF_vars(Tick(c)) /\ WF_vars(Wake(c)) /\ WF_vars(UpdateOnce(c))

Spec == Init /\ [][Next]_vars /\ Fairness

-----------------------------------------------------------------------------
(* Properties                                                              *)

(* The fully qualified names there can be.                                 *)
FullNames == {FQName[x] : x \in Prefixes \X Names}

(* The types of the state; exactly the registered configs have a ticker    *)
(* that runs.                                                              *)
TypeOK ==
    /\ made \in 0..MaxConfigs
    /\ prefix \in [Configs -> Prefixes]
    /\ active \subseteq 1..made /\ ticker = active
    /\ tick \subseteq 1..made /\ woken \subseteq 1..made
    /\ source \in [Configs -> SUBSET Names]
    /\ gauges \in [Configs -> SUBSET Names]
    /\ late \in [Configs -> Nat]
    /\ prom \subseteq FullNames
    /\ replacing \subseteq {"unregister", "register"} \X Prefixes
    /\ crashed \in BOOLEAN

(* No registered prefix begins with another registered one, in whatever    *)
(* order they were registered, replaced and unregistered.                  *)
PrefixesDisjoint ==
    \A c, d \in active :
        c # d /\ prefix[c] # Anonymous /\ prefix[d] # Anonymous
            => <<prefix[c], prefix[d]>> \notin HasPrefix

(* Unregistering ends the updates, although nothing stops the goroutine:   *)
(* it updates at most twice more, for the tick it has received and for the *)
(* one that is in the channel when the ticker is stopped.                  *)
LateUpdatesEnd == \A c \in Configs : late[c] <= 2

(* While a config is registered, its gauges are exported: whoever else is  *)
(* registered, updated or unregistered, nobody removes a gauge behind its  *)
(* back, if no other config ever had a gauge of the same name.             *)
GaugesStayExported ==
    \A c \in active : \A n \in gauges[c] :
        (\A d \in 1..made : \A m \in gauges[d] : d # c => Name(d, m) # Name(c, n))
            => Name(c, n) \in prom

(* Why MustRegister panics in an update goroutine: a name is not valid,    *)
(* flattenKey or "_" makes one name of two metrics, of one registry or of  *)
(* two, "" is registered twice, or one of two configs with the same prefix *)
(* was unregistered and its late update met the other. A registered config *)
(* with names of its own updates as often as it likes.                     *)
CrashNeedsCollision ==
    crashed =>
        \E c, d \in 1..made : \E n \in source[c], m \in source[d] :
            \/ Name(c, n) \in Invalid
            \/ /\ Name(c, n) = Name(d, m)
               /\ \/ <<prefix[c], n>> # <<prefix[d], m>>
                  \/ c # d /\ prefix[c] = Anonymous
                  \/ c # d /\ c \notin active

(* The metrics of a registered config are exported sooner or later, also   *)
(* those that appear after others were.                                    *)
MetricsGetExported ==
    \A c \in Configs : c \in active ~> (source[c] \subseteq gauges[c] \/ c \notin active \/ crashed)

(* "In case cross registered metrics uniqueness cannot be guaranteed, an   *)
(* error is returned.": valid names under different prefixes that were all *)
(* accepted do not collide.                                                *)
UniquenessGuaranteed ==
    crashed => \E c, d \in 1..made :
        \/ c # d /\ prefix[c] = prefix[d]
        \/ \E n \in source[c] : Name(c, n) \in Invalid
=============================================================================
