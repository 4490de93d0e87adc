--------------------------- MODULE CommandTestRunner ---------------------------
(***************************************************************************)
(* The command test runner under the decorators it gets                    *)
(* (test-runner/index.ts): RetryRejectedDecorator, TimeoutDecorator,       *)
(* CommandTestRunner.  Every run is a process of its own; the only thing   *)
(* that connects the timeout to it is the field `timeoutHandler'.          *)
(***************************************************************************)
EXTENDS Naturals, Sequences

CONSTANT Runs       \* the mutants to run

VARIABLES
  job,        \* the mutant whose run the pool awaits, or "none"
  attempts,   \* how often RetryRejectedDecorator may still try it
  procs,      \* the processes that were started: mutant, alive, exit code, kill() failed
  handler,    \* timeoutHandler: the process it belongs to, or 0 for undefined
  kill,       \* the process that objectUtils.kill is after, and for whom
  verdicts,   \* what the pool got for every mutant
  shut        \* the pool has disposed the test runner

commandVars == <<job, attempts, procs, handler, kill, verdicts, shut>>

NoKill  == [of |-> 0, by |-> "none"]
Current == Len(procs)

Init ==
  /\ job = "none" /\ attempts = 0 /\ procs = << >> /\ handler = 0 /\ kill = NoKill
  /\ verdicts = [m \in Runs |-> "none"] /\ shut = FALSE

(* exec: the process runs with the mutant in its environment, or emits      *)
(* `error' because it cannot be started.                                    *)
Exec(m) ==
  \E started \in BOOLEAN :
    /\ procs' = Append(procs, [mutant |-> m, alive |-> started, code |-> 0, stuck |-> FALSE])
    /\ handler' = Len(procs')
    /\ kill' = IF started THEN NoKill ELSE [of |-> Len(procs'), by |-> "error"]

StartRun(m) ==
  /\ job = "none" /\ ~shut /\ verdicts[m] = "none"
  /\ job' = m /\ attempts' = 2
  /\ Exec(m)
  /\ UNCHANGED <<verdicts, shut>>

Answer(verdict) == verdicts' = [verdicts EXCEPT ![job] = verdict] /\ job' = "none"

(* RetryRejectedDecorator.recover() is done: the run is tried once more, or *)
(* the answer is an error.                                                  *)
Retry ==
  IF attempts > 1
  THEN attempts' = attempts - 1 /\ Exec(job) /\ UNCHANGED <<verdicts, job>>
  ELSE attempts' = 0 /\ Answer("error") /\ handler' = 0 /\ kill' = NoKill /\ UNCHANGED procs

\* Mutant of ProcessExits: the handler stays when the run is resolved.
ProcessExitsKeepsHandler(code) ==
  /\ Current > 0 /\ procs[Current].alive
  /\ procs' = [procs EXCEPT ![Current].alive = FALSE, ![Current].code = code]
  /\ IF job # "none" /\ handler = Current
     THEN Answer(IF code = 0 THEN "survived" ELSE "killed")
     ELSE UNCHANGED <<job, verdicts>>
  /\ UNCHANGED <<handler, attempts, kill, shut>>

(* The exit event: an exit code of zero is the one test that succeeds.      *)
ProcessExits(code) ==
  /\ Current > 0 /\ procs[Current].alive
  /\ procs' = [procs EXCEPT ![Current].alive = FALSE, ![Current].code = code]
  /\ IF job # "none" /\ handler = Current
     THEN Answer(IF code = 0 THEN "survived" ELSE "killed") /\ handler' = 0
     ELSE UNCHANGED <<job, verdicts, handler>>
  /\ UNCHANGED <<attempts, kill, shut>>

(* The timer of the run fires: dispose() resolves it and kills the process. *)
TimerFires ==
  /\ job # "none" /\ handler = Current
  /\ kill' = [of |-> handler, by |-> "timeout"] /\ handler' = 0
  /\ UNCHANGED <<job, attempts, procs, verdicts, shut>>

(* The pool disposes the test runner while the run is open: the handler     *)
(* resolves it as a timeout, which asks nobody to recover.                  *)
DisposeRunner ==
  /\ ~shut /\ shut' = TRUE
  /\ IF handler # 0
     THEN kill' = [of |-> handler, by |-> "dispose"] /\ handler' = 0 /\ Answer("timeout")
     ELSE UNCHANGED <<kill, handler, job, verdicts>>
  /\ UNCHANGED <<attempts, procs>>

(* kill() is done; a process that has already ended counts as killed.       *)
Killed ==
  /\ kill.by \in {"error", "timeout", "dispose"}
  /\ procs' = [procs EXCEPT ![kill.of].alive = FALSE]
  /\ kill' = NoKill
  /\ IF kill.by = "dispose"
     THEN UNCHANGED <<job, verdicts, handler>>
     ELSE Answer(kill.by) /\ handler' = 0
  /\ UNCHANGED <<attempts, shut>>

(* kill() rejects, and with it dispose() or the run; recover() then calls   *)
(* the handler of a process that could not be started once more.            *)
KillFails ==
  /\ kill.by \in {"error", "timeout", "dispose"}
  /\ procs' = [procs EXCEPT ![kill.of].stuck = TRUE]
  /\ kill' = CASE kill.by = "dispose" -> NoKill
               [] kill.by = "timeout" -> [kill EXCEPT !.by = "retry"]
               [] kill.by = "error"   -> [kill EXCEPT !.by = "killAgain"]
  /\ handler' = IF kill.by = "error" THEN 0 ELSE handler
  /\ UNCHANGED <<job, attempts, verdicts, shut>>

Retries == kill.by \in {"retry", "killAgain"} /\ Retry /\ UNCHANGED shut

(* ... and when that fails too the pool gets the rejection.                 *)
RetryRejects ==
  /\ kill.by = "killAgain"
  /\ Answer("rejected") /\ kill' = NoKill /\ handler' = 0
  /\ UNCHANGED <<attempts, procs, shut>>

Next ==
  \/ \E m \in Runs : StartRun(m)
  \/ \E code \in {0, 1} : ProcessExits(code)
  \/ TimerFires \/ DisposeRunner \/ Killed \/ KillFails \/ Retries \/ RetryRejects

Spec == Init /\ [][Next]_commandVars
--------------------------------------------------------------------------------
(***************************************************************************)
(* A verdict is about the mutant it is given for: it is the exit code of   *)
(* the last process that was started with that mutant.                     *)
(***************************************************************************)
OwnVerdict ==
  \A m \in Runs : verdicts[m] \in {"survived", "killed"} =>
    \E p \in 1..Len(procs) :
      /\ procs[p].mutant = m /\ ~procs[p].alive
      /\ verdicts[m] = "survived" <=> procs[p].code = 0
      /\ \A q \in p+1..Len(procs) : procs[q].mutant # m

(***************************************************************************)
(* While a run is open its timeout finds its process, and only then; what  *)
(* is alive belongs to the open run, is being killed or could not be killed.  *)
(***************************************************************************)
TimeoutReachesTheProcess ==
  /\ job # "none" => \/ handler = Current /\ procs[Current].mutant = job
                     \/ kill.of = Current /\ kill.by \in {"timeout", "retry", "killAgain"}
  /\ handler # 0 => job # "none"
  /\ \A p \in 1..Current : procs[p].alive => p \in {handler, kill.of} \/ procs[p].stuck
================================================================================
