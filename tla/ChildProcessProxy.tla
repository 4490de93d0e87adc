------------------------- MODULE ChildProcessProxy -------------------------
(***************************************************************************)
(* child-proxy/child-process-proxy.ts and child-process-proxy-worker.ts:   *)
(* an object that lives in a forked worker process and is called through a *)
(* proxy in the main process.  Two processes exchange messages over an IPC *)
(* channel that keeps the order of what is sent in one direction.  Either  *)
(* side can stop at any time: the worker crashes or hangs, the main        *)
(* process disposes the proxy.                                             *)
(*                                                                         *)
(* An action of the main process is one callback of its event loop.        *)
(* Promise continuations run before the next event is taken: Quiet.        *)
(***************************************************************************)
EXTENDS Naturals, Sequences, FiniteSets, Functions

CONSTANT Calls          \* bound: the calls that are ever made through the proxy

VARIABLES
    (* main process *)
    counter,      \* workerTaskCounter
    workerTasks,  \* the Map of correlation ids to calls, as a set of pairs
    thens,        \* correlation ids whose continuation on initTask has not run
    outcome,      \* how the promise of a call settled
    answer,       \* for a call that got a result: the call it is the result of
    initTask,
    fatalError,
    isDisposed,
    listening,    \* handleUnexpectedExit is registered for 'close'
    disposeTask,
    errorEvent,   \* an 'error' event that node has yet to deliver
    (* channel *)
    toWorker,
    toParent,
    (* worker process *)
    worker,
    executing,    \* the call messages whose doCall is pending
    shuttingDown  \* LogConfigurator.shutdown() is pending

parentVars == <<counter, workerTasks, thens, outcome, answer, initTask,
                fatalError, isDisposed, listening, disposeTask, errorEvent>>
workerVars == <<worker, executing, shuttingDown>>
vars == <<parentVars, toWorker, toParent, workerVars>>

Ids == Nat
Errors == {"crashed", "initError", "spawnError"}
CallMessages == [kind : {"Call"}, id : Ids, call : Calls]
Replies == [kind : {"CallResult", "CallRejection"}, id : Ids, call : Calls]
WorkerMessages == CallMessages \cup [kind : {"Init", "Dispose"}]
ParentMessages ==
    Replies \cup [kind : {"Ready", "Initialized", "InitError", "DisposeCompleted"}]

TypeOK ==
    /\ counter \in Nat
    /\ workerTasks \in SUBSET (Ids \X Calls)
    /\ thens \in Seq(Ids \X Calls)
    /\ outcome \in [Calls -> {"unmade", "pending", "result", "rejected"} \cup Errors]
    /\ answer \in [Calls -> SUBSET Calls]
    /\ initTask \in {"pending", "resolved"} \cup Errors
    /\ fatalError \in {"none"} \cup Errors
    /\ isDisposed \in BOOLEAN
    /\ listening \in BOOLEAN
    /\ disposeTask \in {"none", "pending", "settled", "killed"}
    /\ errorEvent \in {"none", "crashed", "spawnError"}
    /\ toWorker \in Seq(WorkerMessages)
    /\ toParent \in Seq(ParentMessages)
    /\ worker \in {"booting", "up", "initializing", "ready", "initFailed", "hung", "dead"}
    /\ executing \in SUBSET CallMessages
    /\ shuttingDown \in BOOLEAN

Pending(c) == outcome[c] = "pending"

\* No promise continuation is left to run, so the event loop takes an event.
Quiet == initTask = "pending" \/ thens = << >>

\* Mutant: the init message does not wait for the worker to listen.
InitEager ==
    /\ counter = 0 /\ workerTasks = {} /\ thens = << >>
    /\ outcome = [c \in Calls |-> "unmade"]
    /\ answer = [c \in Calls |-> {}]
    /\ initTask = "pending" /\ fatalError = "none"
    /\ isDisposed = FALSE /\ listening = TRUE
    /\ disposeTask = "none" /\ errorEvent = "none"
    /\ toWorker = <<[kind |-> "Init"]>> /\ toParent = << >>
    /\ worker = "booting" /\ executing = {} /\ shuttingDown = FALSE

\* The constructor: the worker is forked, its messages are listened to.
Init ==
    /\ counter = 0 /\ workerTasks = {} /\ thens = << >>
    /\ outcome = [c \in Calls |-> "unmade"]
    /\ answer = [c \in Calls |-> {}]
    /\ initTask = "pending" /\ fatalError = "none"
    /\ isDisposed = FALSE /\ listening = TRUE
    /\ disposeTask = "none" /\ errorEvent = "none"
    /\ toWorker = << >> /\ toParent = << >>
    /\ worker = "booting" /\ executing = {} /\ shuttingDown = FALSE

-----------------------------------------------------------------------------
(* Helpers of the main process *)

\* worker.send(): a dead process does not get the message, and node may report
\* that with an 'error' event.
Send(m) ==
    \/ /\ worker # "dead"
       /\ toWorker' = Append(toWorker, m)
       /\ UNCHANGED errorEvent
    \/ /\ worker = "dead"
       /\ errorEvent' \in {errorEvent, "crashed"}
       /\ UNCHANGED toWorker

\* Mutant: the last one to settle the task wins.
SettleAgain(calls, how) ==
    outcome' = [c \in Calls |-> IF c \in calls THEN how ELSE outcome[c]]

\* Task.resolve and Task.reject: only the first one settles the promise.
Settle(calls, how) ==
    outcome' = [c \in Calls |-> IF c \in calls /\ Pending(c) THEN how ELSE outcome[c]]

\* Mutant: rejected tasks are removed from the map.
ReportErrorForgets(error) ==
    /\ Settle({p[2] : p \in workerTasks}, error)
    /\ initTask' = IF initTask = "pending" THEN error ELSE initTask
    /\ workerTasks' = {}

\* Mutant: initTask is rejected with fatalError, which need not be set.
ReportErrorStale(error) ==
    /\ Settle({p[2] : p \in workerTasks}, error)
    /\ initTask' = IF initTask = "pending" THEN fatalError ELSE initTask
    /\ UNCHANGED workerTasks

\* reportError(): rejects every task that is not completed, and initTask.
ReportError(error) ==
    /\ Settle({p[2] : p \in workerTasks}, error)
    /\ initTask' = IF initTask = "pending" THEN error ELSE initTask
    /\ UNCHANGED workerTasks

\* Mutant: the exit that dispose() causes is taken for a crash.
DisposeProxyListening ==
    IF isDisposed
    THEN UNCHANGED <<listening, isDisposed, disposeTask, toWorker, errorEvent>>
    ELSE /\ UNCHANGED listening
         /\ isDisposed' = TRUE
         /\ disposeTask' = "pending"
         /\ Send([kind |-> "Dispose"])

\* dispose(): the first call stops listening for the exit and asks the worker
\* to shut down; any later call returns at once.
DisposeProxy ==
    IF isDisposed
    THEN UNCHANGED <<listening, isDisposed, disposeTask, toWorker, errorEvent>>
    ELSE /\ listening' = FALSE
         /\ isDisposed' = TRUE
         /\ disposeTask' = "pending"
         /\ Send([kind |-> "Dispose"])

\* Mutant: the size of the map instead of a counter.
NextIdFromSize == Cardinality(workerTasks)

\* The correlation id of the next call.
NextId == counter

-----------------------------------------------------------------------------
(* Main process: the user of the proxy *)

\* Mutant: calls are accepted after a fatal error.
ForwardAlways(c) ==
    /\ outcome[c] = "unmade"
    /\ counter' = counter + 1
    /\ workerTasks' = workerTasks \cup {<<NextId, c>>}
    /\ thens' = Append(thens, <<NextId, c>>)
    /\ outcome' = [outcome EXCEPT ![c] = "pending"]
    /\ UNCHANGED <<answer, initTask, fatalError, isDisposed, listening, disposeTask,
                   errorEvent, toWorker, toParent, workerVars>>

\* forward(): refuse the call after a fatal error, otherwise register a task
\* and send the call when initTask has resolved.
Forward(c) ==
    /\ outcome[c] = "unmade"
    /\ \/ /\ fatalError # "none"
          /\ outcome' = [outcome EXCEPT ![c] = fatalError]
          /\ UNCHANGED <<counter, workerTasks, thens>>
       \/ /\ fatalError = "none"
          /\ counter' = counter + 1
          /\ workerTasks' = {p \in workerTasks : p[1] # NextId} \cup {<<NextId, c>>}
          /\ thens' = Append(thens, <<NextId, c>>)
          /\ outcome' = [outcome EXCEPT ![c] = "pending"]
    /\ UNCHANGED <<answer, initTask, fatalError, isDisposed, listening, disposeTask,
                   errorEvent, toWorker, toParent, workerVars>>

Dispose ==
    /\ ~isDisposed
    /\ DisposeProxy
    /\ UNCHANGED <<counter, workerTasks, thens, outcome, answer, initTask, fatalError,
                   toParent, workerVars>>

-----------------------------------------------------------------------------
(* Main process: promise continuations and timers *)

\* Mutant: calls are sent without waiting for initTask.
RunThenEager ==
    /\ thens # << >>
    /\ thens' = Tail(thens)
    /\ Send([kind |-> "Call", id |-> Head(thens)[1], call |-> Head(thens)[2]])
    /\ UNCHANGED <<counter, workerTasks, outcome, answer, initTask, fatalError, isDisposed,
                   listening, disposeTask, toParent, workerVars>>

\* The continuation that forward() put on initTask.
RunThen ==
    /\ thens # << >> /\ initTask # "pending"
    /\ thens' = Tail(thens)
    /\ LET id == Head(thens)[1]
           c  == Head(thens)[2]
       IN  \/ /\ initTask = "resolved"
              /\ Send([kind |-> "Call", id |-> id, call |-> c])
              /\ UNCHANGED outcome
           \/ /\ initTask # "resolved"
              /\ Settle({c}, initTask)
              /\ UNCHANGED <<toWorker, errorEvent>>
    /\ UNCHANGED <<counter, workerTasks, answer, initTask, fatalError, isDisposed,
                   listening, disposeTask, toParent, workerVars>>

\* Mutant: disposeTask is a task that cannot expire.
DisposeNeverExpires == FALSE /\ UNCHANGED vars

\* The worker did not answer within TIMEOUT_FOR_DISPOSE.
DisposeExpires ==
    /\ Quiet
    /\ disposeTask = "pending"
    /\ disposeTask' = "settled"
    /\ UNCHANGED <<counter, workerTasks, thens, outcome, answer, initTask, fatalError,
                   isDisposed, listening, errorEvent, toWorker, toParent, workerVars>>

\* The finally block of dispose(): the process is killed.
Kill ==
    /\ disposeTask = "settled"
    /\ disposeTask' = "killed"
    /\ worker' = "dead" /\ executing' = {} /\ shuttingDown' = FALSE
    /\ toWorker' = << >>
    /\ UNCHANGED <<counter, workerTasks, thens, outcome, answer, initTask, fatalError,
                   isDisposed, listening, errorEvent, toParent>>

-----------------------------------------------------------------------------
(* Main process: events *)

Receive(kind) ==
    /\ Quiet
    /\ toParent # << >>
    /\ Head(toParent).kind = kind
    /\ toParent' = Tail(toParent)
    /\ UNCHANGED <<counter, thens, workerVars>>

\* The worker listens: only now the init message can be sent.
OnReady ==
    /\ Receive("Ready")
    /\ Send([kind |-> "Init"])
    /\ UNCHANGED <<workerTasks, outcome, answer, initTask, fatalError, isDisposed,
                   listening, disposeTask>>

OnInitialized ==
    /\ Receive("Initialized")
    /\ initTask' = IF initTask = "pending" THEN "resolved" ELSE initTask
    /\ UNCHANGED <<workerTasks, outcome, answer, fatalError, isDisposed, listening,
                   disposeTask, errorEvent, toWorker>>

\* CallResult and CallRejection: settle the task with that id and forget it.
OnReply(kind, how) ==
    /\ Receive(kind)
    /\ LET m == Head(toParent)
           tasks == {p \in workerTasks : p[1] = m.id}
           calls == {p[2] : p \in tasks}
       IN  /\ workerTasks' = workerTasks \ tasks
           /\ Settle(calls, how)
           /\ answer' = [c \in Calls |-> IF c \in calls /\ Pending(c) THEN {m.call} ELSE answer[c]]
    /\ UNCHANGED <<initTask, fatalError, isDisposed, listening, disposeTask, errorEvent,
                   toWorker>>

OnDisposeCompleted ==
    /\ Receive("DisposeCompleted")
    /\ disposeTask' = IF disposeTask = "pending" THEN "settled" ELSE disposeTask
    /\ UNCHANGED <<workerTasks, outcome, answer, initTask, fatalError, isDisposed,
                   listening, errorEvent, toWorker>>

OnInitError ==
    /\ Receive("InitError")
    /\ fatalError' = "initError"
    /\ ReportError("initError")
    /\ DisposeProxy
    /\ UNCHANGED answer

\* Mutant: a crash is remembered but open calls are not rejected.
HandleExitSilently ==
    /\ Quiet
    /\ worker = "dead" /\ toParent = << >> /\ listening
    /\ listening' = FALSE /\ isDisposed' = TRUE /\ fatalError' = "crashed"
    /\ UNCHANGED <<counter, workerTasks, thens, outcome, answer, initTask, disposeTask,
                   errorEvent, toWorker, toParent, workerVars>>

\* Mutant: open calls are rejected but the crash is not remembered.
HandleExitForgetfully ==
    /\ Quiet
    /\ worker = "dead" /\ toParent = << >> /\ listening
    /\ listening' = FALSE /\ isDisposed' = TRUE
    /\ ReportError("crashed")
    /\ UNCHANGED <<counter, thens, answer, fatalError, disposeTask, errorEvent, toWorker,
                   toParent, workerVars>>

\* handleUnexpectedExit: 'close' comes when the process has ended and its
\* channel is drained, and only counts while the proxy listens.
HandleUnexpectedExit ==
    /\ Quiet
    /\ worker = "dead" /\ toParent = << >> /\ listening
    /\ listening' = FALSE
    /\ isDisposed' = TRUE
    /\ fatalError' = "crashed"
    /\ ReportError("crashed")
    /\ UNCHANGED <<counter, thens, answer, disposeTask, errorEvent, toWorker, toParent,
                   workerVars>>

\* handleError: the process could not be spawned or a message not be sent.
HandleError ==
    /\ Quiet
    /\ errorEvent # "none"
    /\ errorEvent' = "none"
    /\ ReportError(errorEvent)
    /\ UNCHANGED <<counter, thens, answer, fatalError, isDisposed, listening, disposeTask,
                   toWorker, toParent, workerVars>>

-----------------------------------------------------------------------------
(* Worker process *)

Running == worker \notin {"booting", "hung", "dead"}

\* The constructor of ChildProcessProxyWorker: listen, then tell so.
Boot ==
    /\ worker = "booting"
    /\ worker' = "up"
    /\ toParent' = Append(toParent, [kind |-> "Ready"])
    /\ UNCHANGED <<parentVars, toWorker, executing, shuttingDown>>

\* handleMessage.  A call to an object that was never injected is rejected.
HandleMessage ==
    /\ Running
    /\ toWorker # << >>
    /\ toWorker' = Tail(toWorker)
    /\ LET m == Head(toWorker)
       IN  \/ /\ m.kind = "Init"
              /\ worker' = "initializing"
              /\ UNCHANGED <<executing, shuttingDown, toParent>>
           \/ /\ m.kind = "Call" /\ worker = "ready"
              /\ executing' = executing \cup {m}
              /\ UNCHANGED <<worker, shuttingDown, toParent>>
           \/ /\ m.kind = "Call" /\ worker # "ready"
              /\ toParent' = Append(toParent, [m EXCEPT !.kind = "CallRejection"])
              /\ UNCHANGED workerVars
           \/ /\ m.kind = "Dispose"
              /\ shuttingDown' = TRUE
              /\ UNCHANGED <<worker, executing, toParent>>
    /\ UNCHANGED parentVars

\* handleInit ends: plugins are loaded and the object is injected, or not.
InitEnds ==
    /\ worker = "initializing"
    /\ \/ /\ worker' = "ready"
          /\ toParent' = Append(toParent, [kind |-> "Initialized"])
       \/ /\ worker' = "initFailed"
          /\ toParent' = Append(toParent, [kind |-> "InitError"])
    /\ UNCHANGED <<parentVars, toWorker, executing, shuttingDown>>

\* handleCall ends, in whatever order the calls settle.
CallEnds(m) ==
    /\ Running
    /\ m \in executing
    /\ executing' = executing \ {m}
    /\ \E kind \in {"CallResult", "CallRejection"} :
          toParent' = Append(toParent, [m EXCEPT !.kind = kind])
    /\ UNCHANGED <<parentVars, toWorker, worker, shuttingDown>>

\* LogConfigurator.shutdown() settles, either way.
ShutdownEnds ==
    /\ Running
    /\ shuttingDown
    /\ shuttingDown' = FALSE
    /\ toParent' = Append(toParent, [kind |-> "DisposeCompleted"])
    /\ UNCHANGED <<parentVars, toWorker, worker, executing>>

\* A mutant or a plugin runs into an endless loop: the event loop stops.
Hang ==
    /\ Running /\ (executing # {} \/ worker = "initializing")
    /\ worker' = "hung"
    /\ UNCHANGED <<parentVars, toWorker, toParent, executing, shuttingDown>>

\* The process ends by itself.  What it had sent stays in the channel.
Crash ==
    /\ worker # "dead"
    /\ worker' = "dead" /\ executing' = {} /\ shuttingDown' = FALSE
    /\ toWorker' = << >>
    /\ UNCHANGED <<parentVars, toParent>>

\* The process could not be spawned.
SpawnFails ==
    /\ worker = "booting" /\ errorEvent = "none"
    /\ worker' = "dead"
    /\ toWorker' = << >>
    /\ errorEvent' = "spawnError"
    /\ UNCHANGED <<counter, workerTasks, thens, outcome, answer, initTask, fatalError,
                   isDisposed, listening, disposeTask, toParent, executing, shuttingDown>>

-----------------------------------------------------------------------------

ParentStep ==
    \/ RunThen \/ DisposeExpires \/ Kill
    \/ OnReady \/ OnInitialized \/ OnInitError \/ OnDisposeCompleted
    \/ OnReply("CallResult", "result") \/ OnReply("CallRejection", "rejected")
    \/ HandleUnexpectedExit \/ HandleError

WorkerStep ==
    \/ Boot \/ HandleMessage \/ InitEnds \/ ShutdownEnds
    \/ \E m \in executing : CallEnds(m)

Next ==
    \/ \E c \in Calls : Forward(c)
    \/ Dispose
    \/ ParentStep
    \/ WorkerStep
    \/ Hang \/ Crash \/ SpawnFails

Spec == Init /\ [][Next]_vars

\* The event loops of both processes keep turning; that of the worker until it
\* hangs or dies.  A call that never ends is a hang.
FairSpec == Spec /\ WF_vars(ParentStep) /\ WF_vars(WorkerStep)
-----------------------------------------------------------------------------
(* Properties *)

\* The messages of kinds K in a channel.
InChannel(channel, K) == {m \in Range(channel) : m.kind \in K}

\* A reply the main process has yet to read belongs to a task that is still in
\* workerTasks: `workerTasks.get(correlationId)!` never misses, also after the
\* tasks were rejected because the channel broke, and no id is answered twice.
RepliesAreExpected ==
    /\ \A m \in InChannel(toParent, {"CallResult", "CallRejection"}) :
          <<m.id, m.call>> \in workerTasks
    /\ \A j, k \in DOMAIN toParent :
          /\ toParent[j].kind \in {"CallResult", "CallRejection"}
          /\ toParent[k].kind \in {"CallResult", "CallRejection"}
          /\ toParent[j].id = toParent[k].id
          => j = k

\* A call resolves with its own result, never with that of another call that is
\* open at the same time, in whatever order the worker answers.
AnswersMatch == \A c \in Calls : outcome[c] = "result" => answer[c] = {c}

\* Replies find the call they belong to and no other.
RepliesMatch == TypeOK /\ RepliesAreExpected /\ AnswersMatch

\* The worker never gets a call before the object it is meant for exists,
\* although calls may be made on the proxy right after the fork.
NoCallBeforeInit ==
    InChannel(toWorker, {"Call"}) # {} => worker \in {"ready", "hung", "dead"}

\* The init message is only sent to a worker that listens (the race of
\* child-process-proxy.ts:169), otherwise it would be lost.
InitAfterReady == InChannel(toWorker, {"Init"}) # {} => worker # "booting"

\* Nothing is sent to a worker that cannot take it yet.
WorkerIsReady == NoCallBeforeInit /\ InitAfterReady

\* After a fatal error no call is open: open calls were rejected, wherever they
\* were on their way to the worker, and new ones are refused.
FatalSettlesAll == fatalError # "none" => \A c \in Calls : ~Pending(c)

\* A call that has settled stays settled as it is, whatever comes later: a
\* reply that was on its way, the exit of the worker, a channel error.
SettlesOnce ==
    [][\A c \in Calls : outcome[c] \notin {"unmade", "pending"} =>
          outcome'[c] = outcome[c] /\ answer'[c] = answer[c]]_vars

\* Killing the worker on purpose is not reported as a crash.
NoFalseAlarm == disposeTask # "none" => fatalError # "crashed"

\* A fatal error is one, and then it reaches every call.
FatalErrors == FatalSettlesAll /\ NoFalseAlarm

\* Every call settles, unless the worker hangs (the timeout decorator's job) or
\* the proxy is disposed while the call is open.
EveryCallSettles ==
    \A c \in Calls : Pending(c) ~> ~Pending(c) \/ worker = "hung" \/ disposeTask # "none"

\* When the worker dies unexpectedly the proxy comes to know it.
CrashIsNoticed == worker = "dead" ~> fatalError = "crashed" \/ disposeTask # "none"

\* dispose() ends the process, also one that hangs or fails to initialise.
DisposeKills == disposeTask = "pending" ~> worker = "dead"

\* The end of the process, wanted or not, does not go unnoticed or undone.
ProcessEnds == CrashIsNoticed /\ DisposeKills
-----------------------------------------------------------------------------
(* The inductive invariant behind RepliesMatch, WorkerIsReady and          *)
(* FatalErrors                                                             *)

\* The kinds of the messages that carry a call or its answer.
CallKinds == {"Call", "CallResult", "CallRejection"}

\* The calls that a channel carries, with their correlation ids.
Carried(s) == {<<m.id, m.call>> : m \in InChannel(s, CallKinds)}
Executed == {<<m.id, m.call>> : m \in executing}

\* A channel carries a call once.
CarriesOnce(s) ==
    \A j, k \in DOMAIN s :
        s[j].kind \in CallKinds /\ s[k].kind \in CallKinds /\ s[j].id = s[k].id => j = k

\* Ids are not used again, a call is made once, and an open call has a task.
TasksAreCalls ==
    /\ \A p \in workerTasks : p[1] < counter /\ outcome[p[2]] # "unmade"
    /\ \A p, q \in workerTasks : p[1] = q[1] \/ p[2] = q[2] => p = q
    /\ \A c \in Calls : Pending(c) => \E p \in workerTasks : p[2] = c

\* A task waits for initTask, is on its way to the worker, is executed, or is on
\* its way back: in one of these places at most, and once.
OnePlacePerCall ==
    /\ Range(thens) \cup Carried(toWorker) \cup Executed \cup Carried(toParent) \subseteq workerTasks
    /\ Range(thens) \cap (Carried(toWorker) \cup Executed \cup Carried(toParent)) = {}
    /\ Carried(toWorker) \cap (Executed \cup Carried(toParent)) = {}
    /\ Executed \cap Carried(toParent) = {}
    /\ \A j, k \in DOMAIN thens : thens[j] = thens[k] => j = k
    /\ CarriesOnce(toWorker) /\ CarriesOnce(toParent)

Holds(s, kind) == InChannel(s, {kind}) # {}
HoldsOnce(s, kind) == \A j, k \in DOMAIN s : s[j].kind = kind /\ s[k].kind = kind => j = k

\* Ready, Init and Initialized follow each other, once, and calls follow them.
StartsOnce ==
    /\ HoldsOnce(toParent, "Ready") /\ HoldsOnce(toWorker, "Init")
    /\ Holds(toParent, "Ready") => worker \in {"up", "dead"} /\ ~Holds(toWorker, "Init")
    /\ Holds(toWorker, "Init") => worker = "up"
    /\ Holds(toWorker, "Call") \/ executing # {} => worker \in {"ready", "hung"}
    /\ Holds(toParent, "Initialized") \/ initTask = "resolved" => worker \in {"ready", "hung", "dead"}

\* dispose() was called, or the exit was noticed, and never both.
OneEnd ==
    /\ disposeTask # "none" => ~listening /\ isDisposed
    /\ fatalError = "crashed" => isDisposed

IInv == /\ TypeOK
        /\ TasksAreCalls
        /\ OnePlacePerCall
        /\ AnswersMatch
        /\ StartsOnce
        /\ OneEnd
        /\ FatalErrors
=============================================================================
