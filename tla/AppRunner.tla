----------------------------- MODULE AppRunner -----------------------------
(***************************************************************************)
(* The life cycle of an application: AppRunner.Run of runner/runner.go,    *)
(* which initialises the modules in order and hands them, followed by one  *)
(* FnRunner that waits for the context, to Run of runner/runnable.go.      *)
(*                                                                         *)
(* Actors: the goroutine that calls AppRunner.Run (pc, idx), one goroutine *)
(* per Run() call, one per Close() call, the signal that cancels r.ctx,    *)
(* and the clients of the HTTP servers.                                    *)
(*                                                                         *)
(* A module has one of four kinds: "initable" (InitializerAsModule),       *)
(* "closable" (CloserAsModule), "http" (httpmod.Server), or "generic": any *)
(* other implementation of Module, whose Run may end at any time and ends  *)
(* after Close (the contract stated at the interface).                     *)
(***************************************************************************)
EXTENDS Integers, FiniteSets

CONSTANT N      \* len(a.Modules())

Mods == 1..N
Stopper == N + 1            \* the FnRunner that AppRunner.Run appends
Runnables == 1..(N + 1)

Kinds == {"generic", "initable", "closable", "http"}

ASSUME NAssumption == N \in Nat

Outcomes == {"ok", "err"}   \* a recovered panic is an error, too

VARIABLES
    kind,      \* the kind of each module: a.Modules() never changes
    pc,        \* where AppRunner.Run stands
    idx,       \* its loop index
    stop,      \* r.ctx has been cancelled (os.Interrupt)
    appCtx,    \* cancel() of AppRunner.Run has been called
    runCtx,    \* cancel() of Run has been called
    ready,     \* the channel r.ready is closed
    run,       \* the goroutine around each Run()
    runRes,    \* what Run() returned
    close,     \* the goroutine around each Close()
    closeRes,  \* what Close() returned
    done,      \* what makes Run() end has happened: the channel done is
               \* closed, the server is in shutdown, a generic Close ran
    panicked,  \* the Closer inside a closable panicked
    busy,      \* HTTP servers that are serving a request
    errs,      \* the runnables with an error in multierror.Group
    exitCode   \* the result of AppRunner.Run, -1 before it returns

vars == <<kind, pc, idx, stop, appCtx, runCtx, ready, run, runRes, close, closeRes,
          done, panicked, busy, errs, exitCode>>

callVars == <<kind, pc, idx, ready, exitCode>>
ctxVars == <<stop, appCtx, runCtx>>
runVars == <<run, runRes>>
closeVars == <<close, closeRes, done, panicked>>

RunStates == {"none", "spawned", "running", "returned", "recorded"}
CloseStates == {"none", "called", "draining", "returned", "recorded"}

(* A module's kind; the appended FnRunner has a kind of its own.           *)
KindOf(i) == IF i = Stopper THEN "stopper" ELSE kind[i]

AppDone == stop \/ appCtx           \* <-ctx.Done() in AppRunner.Run
RunDone == AppDone \/ runCtx        \* <-ctx.Done() in Run, derived from it

Init ==
    /\ kind \in [Mods -> Kinds]
    /\ pc = "init" /\ idx = 1
    /\ stop = FALSE /\ appCtx = FALSE /\ runCtx = FALSE
    /\ ready = FALSE
    /\ run = [i \in Runnables |-> "none"]
    /\ runRes = [i \in Runnables |-> "none"]
    /\ close = [i \in Runnables |-> "none"]
    /\ closeRes = [i \in Runnables |-> "none"]
    /\ done = {} /\ panicked = {} /\ busy = {} /\ errs = {}
    /\ exitCode = -1

-----------------------------------------------------------------------------
(* AppRunner.Run: initialisation                                           *)

(* mod.Init(r.log) of the next module returns nil.                         *)
InitOk ==
    /\ pc = "init" /\ idx \in Mods
    /\ idx' = idx + 1
    /\ UNCHANGED <<kind, pc, ready, exitCode, ctxVars, runVars, closeVars, busy, errs>>

(* Init fails: ready is closed, Run returns 1, and the modules that were   *)
(* initialised before are not closed. Init of a closable never fails.      *)
InitFails ==
    /\ pc = "init" /\ idx \in Mods
    /\ kind[idx] # "closable"
    /\ ready' = TRUE
    /\ exitCode' = 1
    /\ pc' = "exited"
    /\ UNCHANGED <<kind, idx, ctxVars, runVars, closeVars, busy, errs>>

(* Init panics: nothing recovers, the panic leaves AppRunner.Run.          *)
InitPanics ==
    /\ pc = "init" /\ idx \in Mods
    /\ kind[idx] # "closable"
    /\ pc' = "panicked"
    /\ UNCHANGED <<kind, idx, ready, exitCode, ctxVars, runVars, closeVars, busy, errs>>

(* Every Init returned: append the FnRunner, close ready, call Run.        *)
Launch ==
    /\ pc = "init" /\ idx = N + 1
    /\ ready' = TRUE
    /\ pc' = "start" /\ idx' = 1
    /\ UNCHANGED <<kind, exitCode, ctxVars, runVars, closeVars, busy, errs>>

-----------------------------------------------------------------------------
(* Run: the goroutine that starts and closes the runnables                 *)

(* One iteration of the first loop. The goroutine closes started before it *)
(* calls Run(), so the loop goes on while Run() has not been called yet.   *)
Spawn ==
    /\ pc = "start" /\ idx \in Runnables
    /\ run' = [run EXCEPT ![idx] = "spawned"]
    /\ idx' = idx + 1
    /\ UNCHANGED <<kind, pc, ready, exitCode, ctxVars, runRes, closeVars, busy, errs>>

BugAwaitNothing ==
    /\ pc = "start" /\ idx = N + 2
    /\ pc' = "close" /\ idx' = N + 1
    /\ UNCHANGED <<kind, ready, exitCode, ctxVars, runVars, closeVars, busy, errs>>

BugCloseFromLen ==
    /\ pc = "start" /\ idx = N + 2
    /\ RunDone
    /\ pc' = "close" /\ idx' = N + 2
    /\ UNCHANGED <<kind, ready, exitCode, ctxVars, runVars, closeVars, busy, errs>>

(* <-ctx.Done()                                                            *)
AwaitDone ==
    /\ pc = "start" /\ idx = N + 2
    /\ RunDone
    /\ pc' = "close" /\ idx' = N + 1
    /\ UNCHANGED <<kind, ready, exitCode, ctxVars, runVars, closeVars, busy, errs>>

(* wg.Go of the second loop.                                               *)
CloseCall ==
    /\ pc = "close" /\ idx \in Runnables
    /\ close[idx] = "none"
    /\ close' = [close EXCEPT ![idx] = "called"]
    /\ UNCHANGED <<callVars, ctxVars, runVars, closeRes, done, panicked, busy, errs>>

BugCloseNextAtOnce ==
    /\ pc = "close" /\ idx \in Runnables
    /\ close[idx] # "none"
    /\ idx' = idx - 1
    /\ UNCHANGED <<kind, pc, ready, exitCode, ctxVars, runVars, closeVars, busy, errs>>

(* <-started of the second loop: the deferred close(started) runs once     *)
(* Close() is over, returned or panicked.                                  *)
CloseNext ==
    /\ pc = "close" /\ idx \in Runnables
    /\ close[idx] \in {"returned", "recorded"}
    /\ idx' = idx - 1
    /\ UNCHANGED <<kind, pc, ready, exitCode, ctxVars, runVars, closeVars, busy, errs>>

BugJoinClosersOnly ==
    /\ pc = "close" /\ idx = 0
    /\ \A i \in Runnables : close[i] = "recorded"
    /\ runCtx' = TRUE
    /\ exitCode' = IF errs = {} THEN 0 ELSE 1
    /\ pc' = "exited"
    /\ UNCHANGED <<kind, idx, ready, stop, appCtx, runVars, closeVars, busy, errs>>

BugJoinIgnoresErrors ==
    /\ pc = "close" /\ idx = 0
    /\ \A i \in Runnables : run[i] = "recorded" /\ close[i] \in {"returned", "recorded"}
    /\ runCtx' = TRUE
    /\ exitCode' = IF errs = {} THEN 0 ELSE 1
    /\ pc' = "exited"
    /\ UNCHANGED <<kind, idx, ready, stop, appCtx, runVars, closeVars, busy, errs>>

(* wg.Wait().ErrorOrNil(), the deferred cancel(), and the exit code.       *)
Join ==
    /\ pc = "close" /\ idx = 0
    /\ \A i \in Runnables : run[i] = "recorded" /\ close[i] = "recorded"
    /\ runCtx' = TRUE
    /\ exitCode' = IF errs = {} THEN 0 ELSE 1
    /\ pc' = "exited"
    /\ UNCHANGED <<kind, idx, ready, stop, appCtx, runVars, closeVars, busy, errs>>

-----------------------------------------------------------------------------
(* Run: the goroutines around Run()                                        *)

(* The goroutine calls Run().                                              *)
RunCall(i) ==
    /\ run[i] = "spawned"
    /\ run' = [run EXCEPT ![i] = "running"]
    /\ UNCHANGED <<callVars, ctxVars, runRes, closeVars, busy, errs>>

(* When Run() of each kind may return, and with what: a server's Serve     *)
(* returns ErrServerClosed once Shutdown was called (which Run turns into  *)
(* nil) and before that only an error of its listener.                     *)
MayReturn(i, o) ==
    \/ KindOf(i) = "generic"
    \/ KindOf(i) = "stopper" /\ AppDone /\ o = "ok"
    \/ KindOf(i) \in {"initable", "closable"} /\ i \in done /\ o = "ok"
    \/ KindOf(i) = "http" /\ o = (IF i \in done THEN "ok" ELSE "err")

BugRunReturnNoCancel(i, o) ==
    /\ run[i] = "running"
    /\ MayReturn(i, o)
    /\ run' = [run EXCEPT ![i] = "returned"]
    /\ runRes' = [runRes EXCEPT ![i] = o]
    /\ UNCHANGED <<callVars, ctxVars, closeVars, busy, errs>>

(* Run() returns or panics; the deferred calls recover and cancel ctx.     *)
RunReturn(i, o) ==
    /\ run[i] = "running"
    /\ MayReturn(i, o)
    /\ run' = [run EXCEPT ![i] = "returned"]
    /\ runRes' = [runRes EXCEPT ![i] = o]
    /\ runCtx' = TRUE
    /\ UNCHANGED <<callVars, stop, appCtx, closeVars, busy, errs>>

(* multierror.Group appends the error and calls Done.                      *)
RunRecorded(i) ==
    /\ run[i] = "returned"
    /\ run' = [run EXCEPT ![i] = "recorded"]
    /\ errs' = IF runRes[i] = "err" THEN errs \cup {i} ELSE errs
    /\ UNCHANGED <<callVars, ctxVars, runRes, closeVars, busy>>

-----------------------------------------------------------------------------
(* Run: the goroutines around Close()                                      *)

(* Close() of i is over, with outcome o.                                   *)
CloseReturns(i, o) ==
    /\ close' = [close EXCEPT ![i] = "returned"]
    /\ closeRes' = [closeRes EXCEPT ![i] = o]

(* The FnRunner's close function cancels the context of AppRunner.Run.     *)
CloseStopper ==
    /\ close[Stopper] = "called"
    /\ CloseReturns(Stopper, "ok")
    /\ appCtx' = TRUE
    /\ UNCHANGED <<callVars, stop, runCtx, runVars, done, panicked, busy, errs>>

CloseInitable(i) ==
    /\ KindOf(i) = "initable" /\ close[i] = "called"
    /\ CloseReturns(i, "ok")
    /\ done' = done \cup {i}
    /\ UNCHANGED <<callVars, ctxVars, runVars, panicked, busy, errs>>

(* c.c.Close() returns o, then done is closed.                             *)
CloseClosable(i, o) ==
    /\ KindOf(i) = "closable" /\ close[i] = "called"
    /\ CloseReturns(i, o)
    /\ done' = done \cup {i}
    /\ UNCHANGED <<callVars, ctxVars, runVars, panicked, busy, errs>>

(* c.c.Close() panics: close(c.done) is skipped, the runner recovers.      *)
CloserPanics(i) ==
    /\ KindOf(i) = "closable" /\ close[i] = "called"
    /\ CloseReturns(i, "err")
    /\ panicked' = panicked \cup {i}
    /\ UNCHANGED <<callVars, ctxVars, runVars, done, busy, errs>>

(* Close of any other module: fails or not, Run() is told to end.          *)
CloseGeneric(i, o) ==
    /\ KindOf(i) = "generic" /\ close[i] = "called"
    /\ CloseReturns(i, o)
    /\ done' = done \cup {i}
    /\ UNCHANGED <<callVars, ctxVars, runVars, panicked, busy, errs>>

(* Server.Close: Shutdown marks the server as shutting down and closes its *)
(* listener ...                                                            *)
ShutdownServer(i) ==
    /\ KindOf(i) = "http" /\ close[i] = "called"
    /\ close' = [close EXCEPT ![i] = "draining"]
    /\ done' = done \cup {i}
    /\ UNCHANGED <<callVars, ctxVars, runVars, closeRes, panicked, busy, errs>>

BugServerDrained(i, o) ==
    /\ close[i] = "draining"
    /\ CloseReturns(i, o)
    /\ UNCHANGED <<callVars, ctxVars, runVars, done, panicked, busy, errs>>

(* ... and waits, without a deadline (context.Background()), for the       *)
(* requests in flight; it returns the error of closing the listener.       *)
ServerDrained(i, o) ==
    /\ close[i] = "draining" /\ i \notin busy
    /\ CloseReturns(i, o)
    /\ UNCHANGED <<callVars, ctxVars, runVars, done, panicked, busy, errs>>

CloseRecorded(i) ==
    /\ close[i] = "returned"
    /\ close' = [close EXCEPT ![i] = "recorded"]
    /\ errs' = IF closeRes[i] = "err" THEN errs \cup {i} ELSE errs
    /\ UNCHANGED <<callVars, ctxVars, runVars, closeRes, done, panicked, busy>>

-----------------------------------------------------------------------------
(* The environment                                                         *)

(* os.Interrupt, or the caller of NewRunner cancels the context.           *)
Interrupt ==
    /\ ~stop
    /\ pc \notin {"exited", "panicked"}
    /\ stop' = TRUE
    /\ UNCHANGED <<callVars, appCtx, runCtx, runVars, closeVars, busy, errs>>

(* Serve accepts a connection and a handler starts.                        *)
RequestStarts(i) ==
    /\ KindOf(i) = "http" /\ run[i] = "running"
    /\ i \notin done /\ i \notin busy
    /\ busy' = busy \cup {i}
    /\ UNCHANGED <<callVars, ctxVars, runVars, closeVars, errs>>

RequestEnds(i) ==
    /\ i \in busy
    /\ busy' = busy \ {i}
    /\ UNCHANGED <<callVars, ctxVars, runVars, closeVars, errs>>

-----------------------------------------------------------------------------
Main ==
    \/ InitOk \/ InitFails \/ InitPanics \/ Launch
    \/ Spawn \/ AwaitDone \/ CloseCall \/ CloseNext \/ Join

Closing(i) ==
    \/ CloseInitable(i) \/ CloserPanics(i) \/ ShutdownServer(i) \/ CloseRecorded(i)
    \/ \E o \in Outcomes : CloseClosable(i, o) \/ CloseGeneric(i, o) \/ ServerDrained(i, o)

Running(i) ==
    \/ RunCall(i) \/ RunRecorded(i)
    \/ \E o \in Outcomes : RunReturn(i, o)

Next ==
    \/ Main \/ Interrupt \/ CloseStopper
    \/ \E i \in Runnables : Running(i) \/ Closing(i) \/ RequestStarts(i) \/ RequestEnds(i)

(* The Go scheduler runs every goroutine that can run; a request ends; a   *)
(* module's Run() ends once it was told to (the contract of Module).       *)
Fairness ==
    /\ WF_vars(Main) /\ WF_vars(CloseStopper)
    /\ \A i \in Runnables :
        /\ WF_vars(RunCall(i)) /\ WF_vars(RunRecorded(i))
        /\ WF_vars((KindOf(i) # "generic" \/ i \in done)
                     /\ (\E o \in Outcomes : RunReturn(i, o)))
        /\ WF_vars(Closing(i)) /\ WF_vars(RequestEnds(i))

Spec == Init /\ [][Next]_vars /\ Fairness

-----------------------------------------------------------------------------
(* Properties                                                              *)

(* The types of the state; the closing loop counts down from the last      *)
(* runnable.                                                               *)
TypeOK ==
    /\ kind \in [Mods -> Kinds]
    /\ pc \in {"init", "start", "close", "exited", "panicked"}
    /\ idx \in 0..(N + 2) /\ (pc = "close" => idx <= N + 1)
    /\ stop \in BOOLEAN /\ appCtx \in BOOLEAN /\ runCtx \in BOOLEAN
    /\ ready \in BOOLEAN
    /\ run \in [Runnables -> RunStates]
    /\ runRes \in [Runnables -> Outcomes \cup {"none"}]
    /\ close \in [Runnables -> CloseStates]
    /\ closeRes \in [Runnables -> Outcomes \cup {"none"}]
    /\ done \in SUBSET Runnables
    /\ panicked \in SUBSET Runnables
    /\ busy \in SUBSET Runnables
    /\ errs \in SUBSET Runnables
    /\ exitCode \in {-1, 0, 1}

(* AppRunner.Run started the modules (Init did not fail).                  *)
Launched == \E i \in Runnables : run[i] # "none"

(* The context was cancelled from outside, or the Run() of a module ended. *)
StopReason == stop \/ \E i \in Runnables : run[i] \in {"returned", "recorded"}

(* When AppRunner.Run returns after it started the modules, nothing of     *)
(* them is left: every Run() and every Close() has returned (wg.Wait       *)
(* covers both loops) and no request is in flight in a server.             *)
ExitIsQuiescent ==
    pc = "exited" /\ Launched =>
        /\ \A i \in Runnables : run[i] = "recorded" /\ close[i] = "recorded"
        /\ busy = {}

(* The exit code tells the truth: it is 0 exactly when every Run() and     *)
(* every Close() that was called ended without an error or a panic,        *)
(* although both end (cancel, close(started)) before the error is stored.  *)
ExitCodeIsTruth ==
    pc = "exited" /\ Launched =>
        (exitCode = 0 <=>
            \A i \in Runnables : runRes[i] # "err" /\ closeRes[i] # "err")

(* The modules are closed one after the other, last first: Close() of a    *)
(* module is called only when Close() of all later modules is over.        *)
ClosedInReverse ==
    \A i, j \in Runnables :
        i < j /\ close[i] # "none" => close[j] \in {"returned", "recorded"}

(* A module (a database client, say) is not closed while a server that     *)
(* comes after it in Modules() still serves a request that may use it.     *)
DependenciesOutliveRequests ==
    \A i, j \in Runnables : i < j /\ close[i] # "none" => j \notin busy

(* Nothing is closed unless there is a reason: the context was cancelled   *)
(* from outside, or the Run() of some module is over.                      *)
NoSpuriousShutdown ==
    (\E i \in Runnables : close[i] # "none") => StopReason

(* Once the context is cancelled or some module's Run() is over, the       *)
(* application exits, unless the Closer inside a CloserAsModule panics     *)
(* (see CloseEndsRun).                                                     *)
ShutdownCompletes ==
    (Launched /\ StopReason) ~> (pc = "exited" \/ panicked # {})

(* What runner.go says of closable.Close: "Close will cause run to exit."  *)
(* It does not when the wrapped Closer panics: done stays open, Run()      *)
(* blocks for ever, and so does wg.Wait.                                   *)
CloseEndsRun ==
    \A i \in Runnables : (close[i] = "recorded") ~> (run[i] = "recorded")
=============================================================================
