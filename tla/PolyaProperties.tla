-------------------------- MODULE PolyaProperties --------------------------
(***************************************************************************)
(* What Polya.tla is checked for.                                          *)
(***************************************************************************)
EXTENDS Polya

WORKER == {"started", "idle", "continued", "running", "stopped", "exited"}

TypeOK ==
    /\ worker_states \in [Workers -> WORKER]
    /\ sigchld_flag \in [Workers -> BOOLEAN]
    /\ current_problems \in [Workers -> Addrs \cup {NULL, WILD}]
    /\ no_more_problems \in [Workers -> BOOLEAN]
    /\ mpc \in {"suspend", "handler", "pass", "assign", "count", "exited", "failed"}
    /\ mi \in 0 .. workers
    /\ ending \in BOOLEAN
    /\ problems_remaining \in 0 .. nprobs
    /\ current_problem \in Addrs \cup {NULL}
    /\ heap \in [Addrs -> Problem \cup {NULL}]
    /\ intact \in BOOLEAN
    /\ chld \in BOOLEAN
    /\ status \in [Workers -> {"none", "stopped", "continued", "exited", "killed"}]
    /\ proc \in [Workers -> {"running", "stopped", "waking", "dead"}]
    /\ sigs \in [Workers -> SUBSET {"SIGHUP", "SIGTERM"}]
    /\ problem_pipe \in [Workers -> Seq(Problem)]
    /\ result_pipe \in [Workers -> Seq(Result)]
    /\ wpc \in [Workers -> {"start", "ready", "top", "solve", "solved", "failed",
                            "done", "exited"}]
    /\ got_cont \in [Workers -> BOOLEAN]
    /\ got_cncl \in [Workers -> BOOLEAN]
    /\ got_term \in [Workers -> BOOLEAN]
    /\ solving \in [Workers -> Problem \cup {NULL}]
    /\ crashed \in BOOLEAN

-----------------------------------------------------------------------------
(***************************************************************************)
(* The master gives a problem only to a worker that has stopped after its  *)
(* last one, is not about to report anything else and has no problem left  *)
(* to read, although it learns of stops from signals that are merged.      *)
(* Only one that it has itself killed before it could stop (by a pointer   *)
(* nobody had stored) it may take for idle, and then kill() fails.         *)
(***************************************************************************)
AssignsToStoppedWorkers ==
    mpc = "assign" =>
       /\ \/ proc[mi] = "stopped" /\ wpc[mi] = "top"
          \/ proc[mi] = "dead" /\ wpc[mi] = "start"
       /\ status[mi] = "none"
       /\ problem_pipe[mi] = <<>>

(***************************************************************************)
(* No process waits for a pipe: the master reads a result only when there  *)
(* is one, and a continued worker finds its problem.  (Nobody else would   *)
(* write to the pipe, so the wait would not end.)                          *)
(***************************************************************************)
PipesNeverBlock ==
    /\ mpc = "pass" =>
          \A w \in Workers :
             worker_states[w] = "stopped" /\ current_problems[w] # NULL
                => result_pipe[w] # <<>>
    /\ \A w \in Workers :
          proc[w] \in {"waking", "running"} /\ wpc[w] = "top" /\ ~got_term[w]
             => problem_pipe[w] # <<>> \/ "SIGTERM" \in sigs[w]

(***************************************************************************)
(* While the master is suspended, or about to be, no change of a worker is *)
(* overlooked: its flags are clear, and as long as waitpid() would report  *)
(* something SIGCHLD is pending or on its way.                             *)
(***************************************************************************)
NoLostWakeup ==
    mpc = "suspend" =>
       \A w \in Workers :
          /\ status[w] # "none" => chld \/ \E v \in Workers : proc[v] = "waking"
          /\ proc[w] = "stopped" /\ worker_states[w] \in {"continued", "running"}
                => status[w] = "stopped"

(***************************************************************************)
(* A worker is terminated only between two problems, and a worker that is  *)
(* at the top of its loop and runs has been told why: so the tests of      *)
(* got_term inside the loop and the pause() of worker.c are never taken.   *)
(***************************************************************************)
WorkersRestBetweenProblems ==
    \A w \in Workers :
       /\ "SIGTERM" \in sigs[w] \/ got_term[w] =>
             wpc[w] \in {"ready", "top", "exited"} /\ solving[w] = NULL
       /\ wpc[w] = "top" /\ proc[w] = "running" => got_cont[w] \/ got_term[w]

(***************************************************************************)
(* A worker that works on a problem which has been solved by another one   *)
(* has been told to stop, or will be as soon as it runs (in a build that   *)
(* can still compare the types of the two).                                *)
(***************************************************************************)
CancelReachesSolvers ==
    intact =>
       \A w \in Workers :
          wpc[w] = "solve"
          /\ (current_problem = NULL \/ heap[current_problem].id # solving[w].id)
             => got_cncl[w]

(***************************************************************************)
(* In such a build no pointer to a problem that has been freed outlives    *)
(* the turn of the master's loop in which it was freed: when a problem is  *)
(* solved, every worker that was given it is canceled and its pointer      *)
(* cleared, so that post_result() is never called for it again.  (Within   *)
(* that turn the master does read it: post_result() has just freed what    *)
(* the loop that cancels takes the types from.)  The master crashes only   *)
(* by a pointer that nobody has stored, and only workers that have not     *)
(* been given a problem yet have one.                                      *)
(***************************************************************************)
NoStalePointers ==
    intact =>
       /\ crashed => \E w \in Workers : current_problems[w] = WILD
       /\ \A w \in Workers :
             \/ current_problems[w] \in {NULL, current_problem}
             \/ /\ current_problems[w] = WILD
                /\ ending \/ worker_states[w] \in {"started", "idle"}

(***************************************************************************)
(* The master ends its main loop only when every problem has been created  *)
(* and solved, whatever the arrays held that it never initialized.         *)
(***************************************************************************)
EndsWhenSolved ==
    ending => current_problem = NULL /\ (problems_remaining = 0 \/ Types = {})

(***************************************************************************)
(* The master takes each worker through the states of polya.h in order.  A *)
(* stop may hide that the worker ran before it, and a worker told to exit  *)
(* may be seen to run or not.  A stopped worker goes back to idle only in  *)
(* the main loop: the handler never takes its branch for a stopped one.    *)
(***************************************************************************)
WorkerStateDiagram ==
    [][\A w \in Workers :
          worker_states'[w] # worker_states[w] =>
             \/ <<worker_states[w], worker_states'[w]>> \in
                   {<<"started", "idle">>, <<"continued", "running">>,
                    <<"continued", "stopped">>, <<"running", "stopped">>}
                /\ ~ending
             \/ mpc = "pass" /\ worker_states[w] = "stopped" /\ worker_states'[w] = "idle"
             \/ mpc = "assign" /\ worker_states[w] = "idle" /\ worker_states'[w] = "continued"
             \/ ending /\ worker_states[w] \in {"idle", "running"}
                       /\ worker_states'[w] \in {"running", "exited"}]_vars

-----------------------------------------------------------------------------
\* A worker the master took for idle, or canceled, before it had first stopped: it
\* never exits as the master expects.
Lost(w) == \/ wpc[w] = "start" /\ proc[w] = "dead"
           \/ proc[w] = "stopped" /\ got_term[w]

(***************************************************************************)
(* Every problem is solved and the program ends, unless it crashes on a    *)
(* problem that is freed or a pointer nobody has stored, or has lost a     *)
(* worker through what it never initialized: a flag that made it idle too  *)
(* early, or a pointer that had it canceled before it could handle that.   *)
(***************************************************************************)
ProgramEnds == <>(mpc = "exited" \/ crashed \/ \E w \in Workers : Lost(w))

\* What the dispatcher sees of a worker (the problem it has yet to answer), of the problem
\* that is open and of those that have been posed.
Task(w) == IF problem_pipe[w] # <<>> THEN {Head(problem_pipe[w])}
           ELSE IF wpc[w] \in {"solve", "solved", "failed"} THEN {solving[w]}
           ELSE {}
Open == IF current_problem = NULL THEN {} ELSE {heap[current_problem]}
Posed == nprobs - problems_remaining
Tasks == [w \in Workers |-> Task(w)]
Sound == intact /\ \A w \in Workers : current_problems[w] # WILD
Work == INSTANCE Dispatcher WITH
            Problems <- nprobs,
            posed <- Posed,
            open <- Open,
            task <- Tasks,
            answers <- result_pipe,
            over <- ending,
            sound <- Sound,
            broken <- crashed

(***************************************************************************)
(* Whatever signals are merged or come late: problems are posed in order,  *)
(* one at a time, only to workers that have none; every problem given is   *)
(* answered once, by the worker that was given it; a good answer is never  *)
(* rejected; and when the work is over nobody has anything left to solve.  *)
(***************************************************************************)
ImplementsDispatcher == Work!Spec

(***************************************************************************)
(* "idle: worker is stopped, no result to be read" (polya.h of HW4).       *)
(***************************************************************************)
IdleMeansNoResult ==
    \A w \in Workers : worker_states[w] = "idle" => result_pipe[w] = <<>>

=============================================================================
