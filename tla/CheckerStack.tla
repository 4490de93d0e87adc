----------------------------- MODULE CheckerStack -----------------------------
(***************************************************************************)
(* A resource of the checker pool (checker-factory.ts): CheckerFacade,     *)
(* CheckerRetryDecorator and CheckerChildProcessProxy, and CheckerWorker   *)
(* with the configured checkers in the process that the proxy forks.       *)
(***************************************************************************)
EXTENDS Naturals, Sequences, SequencesExt

CONSTANTS Checkers,       \* options.checkers, a sequence of names
          Checked,        \* the mutants
          Stranger        \* an id that was not asked for

VARIABLES
  call,       \* the call the facade is busy with: init(), check() or group()
  tries,      \* how often tryAction has called act()
  worker,     \* the process: "init", "ready", "dead" or "gone"
  started,    \* the checkers that have been initialised in it
  crashes,    \* crashes that this call has met
  reply       \* what the caller of the last call got

checkerVars == <<call, tries, worker, started, crashes, reply>>

NoCall == [kind |-> "none"]

Calls == [kind : {"check", "group"}, checker : Range(Checkers) \cup {"unknown"},
          mutants : (SUBSET Checked) \ {{}}]

Busy == call.kind \in {"check", "group"}

Init ==
  /\ call = [kind |-> "init"] /\ tries = 0 /\ worker = "init" /\ started = << >> /\ crashes = 0
  /\ reply = [status |-> "none"]

Settle(value) == reply' = value /\ call' = NoCall

Rejected(why) == [status |-> "rejected", why |-> why]

(* CheckerWorker.init: the checkers one after the other, in their order.    *)
InitChecker ==
  /\ worker = "init" /\ Len(started) < Len(Checkers)
  /\ started' = Append(started, Checkers[Len(started) + 1])
  /\ UNCHANGED <<call, tries, worker, crashes, reply>>

\* Mutant of InitEnds: every crash is the first one.
InitEndsUncounted ==
  /\ worker = "init" /\ started = Checkers /\ worker' = "ready"
  /\ IF Busy THEN UNCHANGED <<call, reply>> ELSE Settle([status |-> "ready"])
  /\ UNCHANGED <<tries, started, crashes>>

(* init() of the pool resolves, or that of recover(), and act() is next.    *)
InitEnds ==
  /\ worker = "init" /\ started = Checkers /\ worker' = "ready"
  /\ IF Busy THEN tries' = tries + 1 /\ UNCHANGED <<call, reply>>
             ELSE Settle([status |-> "ready"]) /\ UNCHANGED tries
  /\ UNCHANGED <<started, crashes>>

(* An init that rejects or crashes, also that of recover(), goes to the     *)
(* pool, which does not use this resource again.                            *)
InitFails ==
  /\ worker = "init" /\ worker' = "gone"
  /\ Settle(Rejected("init"))
  /\ UNCHANGED <<tries, started, crashes>>

Call(c) ==
  /\ call.kind = "none" /\ worker \in {"ready", "dead"}
  /\ call' = c /\ tries' = 1 /\ crashes' = 0 /\ reply' = [status |-> "none"]
  /\ UNCHANGED <<worker, started>>

\* Mutant of Verify: missing ids are not looked for.
VerifyStrangersOnly(c, times) ==
  IF c.checker = "unknown" THEN Rejected("no such checker")
  ELSE IF times[Stranger] > 0 THEN Rejected("stranger")
  ELSE [status |-> "ok", times |-> times, call |-> c]

(* The facade looks up every id it gets, and looks for ids that are missing *)
(* only when there are too few of them.                                     *)
Verify(c, times) ==
  LET returned == {id \in DOMAIN times : times[id] > 0}
  IN  CASE c.checker = "unknown"              -> Rejected("no such checker")
        [] Stranger \in returned              -> Rejected("stranger")
        [] returned # c.mutants               -> Rejected("missing")
        [] OTHER                              -> [status |-> "ok", times |-> times, call |-> c]

(* How often the answer of the checker has an id: check() returns a record  *)
(* by id; group() may repeat one, but not the default of CheckerWorker.     *)
CheckerReturns ==
  /\ Busy /\ worker = "ready"
  /\ \E times \in [call.mutants \cup {Stranger} -> IF call.kind = "check" THEN 0..1 ELSE 0..2] :
       Settle(Verify(call, times))
  /\ UNCHANGED <<tries, worker, started, crashes>>

CheckerThrows ==
  /\ Busy /\ worker = "ready" /\ Settle(Rejected("checker"))
  /\ UNCHANGED <<tries, worker, started, crashes>>

(* The process crashes or runs out of memory, busy or not.                  *)
WorkerCrashes ==
  /\ worker = "ready" /\ worker' = "dead"
  /\ UNCHANGED <<call, tries, started, crashes, reply>>

(* tryAction: recover() and once more; the second error is not caught.      *)
CrashIsSeen ==
  /\ Busy /\ worker = "dead" /\ crashes' = crashes + 1
  /\ IF tries = 1
     THEN worker' = "init" /\ started' = << >> /\ UNCHANGED <<call, reply>>
     ELSE worker' = "gone" /\ Settle(Rejected("crash")) /\ UNCHANGED started
  /\ UNCHANGED tries

Next ==
  \/ InitChecker \/ InitEnds \/ InitFails
  \/ \E c \in Calls : Call(c)
  \/ CheckerReturns \/ CheckerThrows \/ WorkerCrashes \/ CrashIsSeen

(* A process initialises, and notices a crash; a checker answers.           *)
Fairness ==
  /\ WF_checkerVars(InitChecker) /\ WF_checkerVars(InitEnds)
  /\ WF_checkerVars(CheckerReturns) /\ WF_checkerVars(CrashIsSeen)

Spec == Init /\ [][Next]_checkerVars /\ Fairness
--------------------------------------------------------------------------------
(***************************************************************************)
(* An answer that gets through is about the mutants that were asked for,   *)
(* all of them and no other, whatever the plugin returns.                  *)
(***************************************************************************)
AnswersAreComplete ==
  reply.status = "ok" =>
    /\ \A m \in reply.call.mutants : reply.times[m] > 0
    /\ reply.times[Stranger] = 0

(***************************************************************************)
(* A call survives one crash, also one that happened before it was made,   *)
(* and is only made on a process whose checkers are all initialised.       *)
(***************************************************************************)
OneCrashIsSurvived ==
  /\ reply = Rejected("crash") => crashes = 2
  /\ crashes <= 2
  /\ Busy /\ worker = "ready" => started = Checkers /\ tries = crashes + 1

(***************************************************************************)
(* Every call settles, however the process behaves.                        *)
(***************************************************************************)
CallsSettle == Busy ~> ~Busy

(***************************************************************************)
(* A mutant is in one group, and so it is checked and run once.            *)
(***************************************************************************)
GroupsAreDisjoint ==
  reply.status = "ok" => \A m \in reply.call.mutants : reply.times[m] = 1
================================================================================
