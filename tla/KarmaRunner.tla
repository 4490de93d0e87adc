----------------------------- MODULE KarmaRunner -----------------------------
(***************************************************************************)
(* The karma runner (packages/karma-runner) between its caller, a worker   *)
(* process that asks for init, runs and dispose, and a karma server with   *)
(* one browser, which answers with the events of a karma reporter.         *)
(* StrykerReporter is the singleton between them: events settle the task   *)
(* that the caller waits for.  A browser can disconnect while it executes  *)
(* a run or between two runs; karma and the browser are modelled from the  *)
(* events that the reporter handles.                                       *)
(***************************************************************************)
EXTENDS Naturals, Sequences, FiniteSets, TLC

CONSTANTS MaxRuns,    \* runs that the caller asks for
          MaxLosses   \* times that a browser disconnects

VARIABLES
  user, config,   \* the karma configuration of the user, and the one karma gets
  init,           \* of KarmaTestRunner.init
  disposal,       \* of KarmaTestRunner.dispose
  server,         \* none, created, exited
  browsersReady,  \* how the promise of whenBrowsersReady has settled
  reporter,       \* the fields of StrykerReporter
  hooks,          \* currentTestHooks of the middleware
  scheduled,      \* karma has been asked for a run that has not started
  browser, page,  \* the browser, and the hooks and the run of its page
  fates,          \* what really happened in a run
  answers,        \* the results of the runs, in order
  losses, idleLoss, stray   \* disconnects; one was between runs; a run completed that nobody waited for

vars == <<user, config, init, disposal, server, browsersReady, reporter, hooks, scheduled,
          browser, page, fates, answers, losses, idleLoss, stray>>

Nothing == "undefined"
Unanswered == [status |-> "unanswered", tests |-> {}, coverage |-> Nothing]
Supported == {"jasmine", "mocha"}

-------------------------------------------------------------------------------
(* stryker-karma.conf.ts: defaults, the configuration file of the user, the *)
(* user's settings, and what Stryker needs.  A configuration file that is   *)
(* not found only gives an error in the log.                                *)
Given == (IF user.file = "function" THEN [frameworks |-> user.frameworks, autoWatch |-> TRUE, files |-> <<"src">>] ELSE <<>>)
           @@ [browsers |-> <<"ChromeHeadless">>, frameworks |-> <<"jasmine">>, files |-> <<>>]

Uses(framework) == \E i \in DOMAIN Given.frameworks : Given.frameworks[i] = framework

ConfigureKarma ==
  LET bail   == ~user.disableBail
      client == (IF Uses("jasmine") THEN [jasmine |-> [random |-> FALSE, failFast |-> bail]] ELSE <<>>)
                @@ (IF Uses("mocha") THEN [mocha |-> [bail |-> bail]] ELSE <<>>) @@ [clearContext |-> FALSE]
      base   == [basePath |-> IF user.file = "none" THEN "cwd" ELSE "directory of the file"]
      ours   == [autoWatch |-> FALSE, detached |-> FALSE, singleRun |-> FALSE, client |-> client,
                 files |-> <<"stryker-mutant-coverage-adapter", "test-hooks-middleware">> \o Given.files,
                 reporters |-> <<"StrykerReporter">>]
  IN  ours @@ base @@ Given

(* TestHooksMiddleware.configureTestFramework: the first that is supported. *)
TestFramework ==
  LET found == {i \in DOMAIN config.frameworks : config.frameworks[i] \in Supported}
  IN  IF found = {} THEN Nothing ELSE config.frameworks[CHOOSE i \in found : \A j \in found : i <= j]

(* TestHooksMiddleware: the script that a page loads before the user's files. *)
CoverageHooks(analysis) ==
  [coverage |-> IF analysis = "off" THEN Nothing ELSE analysis, active |-> 0, limited |-> FALSE, filtered |-> FALSE]

MutantHooks(run, limited, filtered) ==
  [CoverageHooks("off") EXCEPT !.active = run, !.limited = limited, !.filtered = filtered /\ TestFramework # Nothing]

-------------------------------------------------------------------------------
(* StrykerReporter *)

FreshReporter ==
  [initTask |-> FALSE, runTask |-> 0, tests |-> {}, coverage |-> Nothing, hitCount |-> Nothing, hitLimit |-> FALSE,
   result |-> Nothing, restarting |-> FALSE]

(* collectRunResult *)
CollectRunResult(r) ==
  [status |-> IF r.hitLimit /\ r.hitCount = "over" THEN "timeout"
              ELSE IF r.result = "disconnected" THEN "timeout"
              ELSE IF r.result = "error" THEN "error" ELSE "complete",
   tests |-> r.tests, coverage |-> r.coverage]

(* The run task resolves, if there is one; `.finally' clears it.            *)
Answered(r) ==
  IF r.runTask = 0 THEN UNCHANGED answers
  ELSE answers' = [answers EXCEPT ![r.runTask] = CollectRunResult(r)]

OnBrowsersReady(r) ==
  /\ Answered(r)
  /\ reporter' = [r EXCEPT !.initTask = FALSE, !.runTask = 0]
  /\ browsersReady' = IF r.initTask THEN "resolved" ELSE browsersReady

OnRunStart(r) == [r EXCEPT !.tests = {}, !.coverage = Nothing, !.result = Nothing, !.restarting = FALSE]

(* A mutant: a run is complete although the browser is being restarted. *)
OnRunCompleteAnyway(r, result) ==
  LET completed == [r EXCEPT !.result = result]
  IN  /\ stray' = (stray \/ r.runTask = 0)
      /\ Answered(completed)
      /\ reporter' = [completed EXCEPT !.runTask = 0]

(* No task to resolve is an error in the event handler.                     *)
OnRunComplete(r, result) ==
  LET completed == [r EXCEPT !.result = result]
  IN  IF r.restarting THEN reporter' = completed /\ UNCHANGED <<answers, stray>>
      ELSE /\ stray' = (stray \/ r.runTask = 0)
           /\ Answered(completed)
           /\ reporter' = [completed EXCEPT !.runTask = 0]

(* onBrowserError of a browser that is disconnected, after init: karma's    *)
(* launcher restarts it.                                                    *)
Disconnected(r) == [r EXCEPT !.restarting = TRUE]

(* stryker-mutant-coverage-adapter and onBrowserComplete.                   *)
OnBrowserComplete(r, fate) ==
  [r EXCEPT !.coverage = page.hooks.coverage,
            !.hitCount = IF ~page.hooks.limited THEN Nothing ELSE IF fate = "over" THEN "over" ELSE "below"]

-------------------------------------------------------------------------------
Init ==
  /\ user \in [file : {"none", "function", "missing", "broken"}, frameworks : {<<"mocha">>, <<"other">>, <<"other", "jasmine">>},
               disableBail : BOOLEAN]
  /\ (user.file # "function" => user.frameworks = <<"other">>) /\ (user.disableBail => user.file = "none")
  /\ config = Nothing /\ init = "new" /\ disposal = "no" /\ server = "none" /\ browsersReady = "pending"
  /\ reporter = FreshReporter /\ hooks = Nothing /\ scheduled = FALSE /\ browser = "none" /\ page = Nothing
  /\ fates = <<>> /\ answers = <<>> /\ losses = 0 /\ idleLoss = FALSE /\ stray = FALSE

(* KarmaTestRunner.init, up to the start of the server.                     *)
StartInit ==
  /\ init = "new" /\ disposal = "no"
  /\ init' = "starting" /\ reporter' = [reporter EXCEPT !.initTask = TRUE]
  /\ UNCHANGED <<user, config, disposal, server, browsersReady, hooks, scheduled, browser, page, fates, answers, losses, idleLoss, stray>>

(* Karma reads its configuration and creates the reporter, which gets hold  *)
(* of the server; a configuration file that throws ends init.               *)
CreateServer ==
  /\ init = "starting" /\ server = "none"
  /\ IF user.file = "broken" THEN init' = "failed" /\ UNCHANGED <<config, server>>
     ELSE config' = ConfigureKarma /\ server' = "created" /\ UNCHANGED init
  /\ UNCHANGED <<user, disposal, browsersReady, reporter, hooks, scheduled, browser, page, fates, answers, losses, idleLoss, stray>>

(* starter.start() is back: from here on its exit is known.                 *)
Started ==
  /\ init = "starting" /\ server # "none" /\ init' = "racing"
  /\ UNCHANGED <<user, config, disposal, server, browsersReady, reporter, hooks, scheduled, browser, page, fates, answers, losses, idleLoss, stray>>

Capture ==
  /\ browser = "none" /\ server = "created" /\ browsersReady = "pending"
  /\ browser' = "idle" /\ OnBrowsersReady(reporter)
  /\ UNCHANGED <<user, config, init, disposal, server, hooks, scheduled, page, fates, losses, idleLoss, stray>>

(* A browser cannot start: onBrowserError while init waits.                 *)
BrowserFails ==
  /\ browser = "none" /\ server = "created" /\ reporter.initTask
  /\ reporter' = [reporter EXCEPT !.initTask = FALSE] /\ browsersReady' = "rejected"
  /\ UNCHANGED <<user, config, init, disposal, server, hooks, scheduled, browser, page, fates, answers, losses, idleLoss, stray>>

Exit ==
  /\ server = "created" /\ (disposal = "stopping" \/ init \in {"starting", "racing"})
  /\ server' = "exited" /\ browser' = "gone"
  /\ UNCHANGED <<user, config, init, disposal, browsersReady, reporter, hooks, scheduled, page, fates, answers, losses, idleLoss, stray>>

(* The race of init: browsers that are ready come first.                    *)
EndInit ==
  /\ init = "racing" /\ (browsersReady # "pending" \/ server = "exited")
  /\ init' = CASE browsersReady = "resolved" -> "ready"
               [] browsersReady = "rejected" -> "failed"
               [] OTHER -> IF disposal = "no" THEN "exited prematurely" ELSE "disposed"
  /\ UNCHANGED <<user, config, disposal, server, browsersReady, reporter, hooks, scheduled, browser, page, fates, answers, losses, idleLoss, stray>>

Free == init = "ready" /\ disposal = "no" /\ Len(answers) < MaxRuns /\ \A k \in DOMAIN answers : answers[k] # Unanswered

(* run: wait for the run to complete, and ask karma for it.                 *)
Asked(h, limited) ==
  LET run == Len(answers) + 1
  IN  /\ hooks' = h /\ scheduled' = TRUE
      /\ reporter' = [reporter EXCEPT !.runTask = run, !.hitLimit = limited,
                                      !.hitCount = IF h.active # 0 THEN Nothing ELSE @]
      /\ answers' = Append(answers, Unanswered) /\ fates' = Append(fates, "unknown")

(* dryRun: coverage per test needs a framework that is supported.           *)
DryRun ==
  /\ Free /\ answers = <<>>
  /\ \E analysis \in {"perTest", "all", "off"} :
       IF analysis = "perTest" /\ TestFramework = Nothing
       THEN /\ answers' = <<[status |-> "throws", tests |-> {}, coverage |-> Nothing]>>
            /\ fates' = <<"throws">> /\ UNCHANGED <<hooks, scheduled, reporter>>
       ELSE Asked(CoverageHooks(analysis), FALSE)
  /\ UNCHANGED <<user, config, init, disposal, server, browsersReady, browser, page, losses, idleLoss, stray>>

MutantRun ==
  /\ Free
  /\ \E limited \in BOOLEAN, filtered \in BOOLEAN : Asked(MutantHooks(Len(answers) + 1, limited, filtered), limited)
  /\ UNCHANGED <<user, config, init, disposal, server, browsersReady, browser, page, losses, idleLoss, stray>>

(* Karma starts a run when the browser is ready; the page loads the hooks.  *)
Execute ==
  /\ scheduled /\ browser = "idle"
  /\ scheduled' = FALSE /\ browser' = "executing" /\ page' = [hooks |-> hooks, run |-> Len(answers)]
  /\ reporter' = OnRunStart(reporter)
  /\ UNCHANGED <<user, config, init, disposal, server, browsersReady, hooks, fates, answers, losses, idleLoss, stray>>

(* The specs, the browser and the run complete.                             *)
Complete ==
  /\ browser = "executing"
  /\ \E fate \in {"passes", "error"} \cup (IF page.hooks.limited THEN {"over"} ELSE {}) :
       /\ fates' = [fates EXCEPT ![page.run] = fate]
       /\ OnRunComplete(OnBrowserComplete([reporter EXCEPT !.tests = @ \cup {page.run}], fate),
                        IF fate = "error" THEN "error" ELSE "fine")
  /\ browser' = "idle"
  /\ UNCHANGED <<user, config, init, disposal, server, browsersReady, hooks, scheduled, page, losses, idleLoss>>

(* The browser disconnects in a run, some specs may be done; then karma     *)
(* completes the run without it.                                            *)
Disconnect ==
  /\ browser = "executing" /\ losses < MaxLosses /\ losses' = losses + 1
  /\ browser' = "lost" /\ fates' = [fates EXCEPT ![page.run] = "disconnect"]
  /\ \E done \in {{}, {page.run}} : reporter' = Disconnected([reporter EXCEPT !.tests = done])
  /\ UNCHANGED <<user, config, init, disposal, server, browsersReady, hooks, scheduled, page, answers, idleLoss, stray>>

CompleteWithoutBrowser ==
  /\ browser = "lost" /\ browser' = "restarting"
  /\ OnRunComplete(reporter, "disconnected")
  /\ UNCHANGED <<user, config, init, disposal, server, browsersReady, hooks, scheduled, page, fates, losses, idleLoss>>

(* The browser disconnects between two runs.                                *)
DisconnectIdle ==
  /\ browser = "idle" /\ init = "ready" /\ losses < MaxLosses /\ losses' = losses + 1
  /\ browser' = "restarting" /\ reporter' = Disconnected(reporter) /\ idleLoss' = TRUE
  /\ UNCHANGED <<user, config, init, disposal, server, browsersReady, hooks, scheduled, page, fates, answers, stray>>

Recapture ==
  /\ browser = "restarting" /\ server = "created"
  /\ browser' = "idle" /\ OnBrowsersReady(reporter)
  /\ UNCHANGED <<user, config, init, disposal, server, hooks, scheduled, page, fates, losses, idleLoss, stray>>

(* KarmaTestRunner.dispose, at any time: the server that is known stops.    *)
Dispose ==
  /\ disposal = "no" /\ init # "new"
  /\ disposal' = IF server = "none" THEN "done" ELSE "stopping"
  /\ UNCHANGED <<user, config, init, server, browsersReady, reporter, hooks, scheduled, browser, page, fates, answers, losses, idleLoss, stray>>

EndDispose ==
  /\ disposal = "stopping" /\ server = "exited" /\ disposal' = "done"
  /\ UNCHANGED <<user, config, init, server, browsersReady, reporter, hooks, scheduled, browser, page, fates, answers, losses, idleLoss, stray>>

Next ==
  \/ StartInit \/ CreateServer \/ Started \/ Capture \/ BrowserFails \/ Exit \/ EndInit
  \/ DryRun \/ MutantRun \/ Execute \/ Complete \/ Disconnect \/ CompleteWithoutBrowser \/ DisconnectIdle \/ Recapture
  \/ Dispose \/ EndDispose

Spec == Init /\ [][Next]_vars

-------------------------------------------------------------------------------
(* What a run is answered with is what happened in that run: its own tests, *)
(* or a timeout for a browser that was lost or a limit that was passed.     *)
AnswerIsRight(k) ==
  LET a == answers[k]
  IN  a # Unanswered =>
        CASE fates[k] = "passes" -> a.status = "complete" /\ a.tests = {k}
          [] fates[k] = "error"  -> a.status = "error"
          [] fates[k] \in {"over", "disconnect"} -> a.status = "timeout"
          [] fates[k] = "throws" -> a.status = "throws"
          [] OTHER -> FALSE

AnswersAreRight == \A k \in DOMAIN answers : AnswerIsRight(k)

(* ... unless a browser is lost between two runs: then the next run can be  *)
(* answered with what is left of the previous one, and completes later,     *)
(* when no task waits for it (AnswersAreRight alone is refuted).            *)
RightUntilIdleLoss == idleLoss \/ (AnswersAreRight /\ ~stray)

(* A page that executes a run has the active mutant of that run.            *)
PageIsOfTheRun ==
  browser = "executing" /\ ~idleLoss => page.run = reporter.runTask /\ page.hooks.active \in {0, page.run}

(* To dispose the runner during init is no premature exit of karma.         *)
DisposalIsNoCrash ==
  [][disposal # "no" /\ init # "exited prematurely" => init' # "exited prematurely"]_vars

(* A runner that is disposed has no server: refuted when it is disposed     *)
(* before karma has created the reporter.                                   *)
DisposedIsStopped == disposal = "done" => server # "created"
================================================================================
