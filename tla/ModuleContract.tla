--------------------------- MODULE ModuleContract ---------------------------
(***************************************************************************)
(* What the application runner may rely on when it drives a module: Init,  *)
(* then Run and Close in goroutines of their own. The abstract             *)
(* specification that the Kafka consumer and the Kafka producer implement. *)
(***************************************************************************)

VARIABLES
    init,      \* "new", "ready" or "failed"
    run,       \* "idle", "waiting" or "returned"
    close,     \* "idle", "waiting" or "returned"
    active,    \* goroutines of the module are at work
    broken,    \* something the module depends on has failed
    crashed    \* the process has panicked

vars == <<init, run, close, active, broken, crashed>>

Init ==
    /\ init = "new" /\ run = "idle" /\ close = "idle"
    /\ active = FALSE /\ broken = FALSE /\ crashed = FALSE

(* Init may start the work of the module.                                  *)
InitReturns ==
    /\ init = "new"
    /\ \/ init' = "ready" /\ active' \in BOOLEAN
       \/ init' = "failed" /\ UNCHANGED active
    /\ UNCHANGED <<run, close, broken, crashed>>

(* So may Run, but not after Close has returned.                           *)
RunCalled ==
    /\ init = "ready" /\ run = "idle"
    /\ run' = "waiting"
    /\ UNCHANGED active \/ (close # "returned" /\ active' = TRUE)
    /\ UNCHANGED <<init, close, broken, crashed>>

CloseCalled ==
    /\ init = "ready" /\ close = "idle"
    /\ close' = "waiting"
    /\ UNCHANGED <<init, run, active, broken, crashed>>

Breaks ==
    /\ \/ init = "ready" /\ broken' = TRUE /\ UNCHANGED crashed
       \/ crashed' = TRUE /\ UNCHANGED broken
    /\ UNCHANGED <<init, run, close, active>>

MayEnd == close # "idle" \/ broken

(* The work ends only because of Close or a failure.                       *)
Stops ==
    /\ active /\ MayEnd
    /\ active' = FALSE
    /\ UNCHANGED <<init, run, close, broken, crashed>>

(* Run blocks until the work has ended.                                    *)
RunReturns ==
    /\ run = "waiting" /\ MayEnd /\ ~active
    /\ run' = "returned"
    /\ UNCHANGED <<init, close, active, broken, crashed>>

(* Close waits for the work to end.                                        *)
CloseReturns ==
    /\ close = "waiting" /\ ~active
    /\ close' = "returned"
    /\ UNCHANGED <<init, run, active, broken, crashed>>

Next ==
    \/ InitReturns \/ RunCalled \/ CloseCalled
    \/ Breaks \/ Stops \/ RunReturns \/ CloseReturns

(* Close and Run return once Close was called, also if it was called       *)
(* before Run; and a failure ends Run.                                     *)
Liveness ==
    /\ (close = "waiting") ~> (close = "returned" /\ run = "returned") \/ crashed
    /\ broken ~> (run = "returned") \/ crashed

(* What a module may do, without what it must get done.                    *)
Safety == Init /\ [][Next]_vars

Spec == Safety /\ Liveness

(* After Close has returned nothing of the module is at work.              *)
ClosedIsQuiet == close = "returned" => ~active
=============================================================================
