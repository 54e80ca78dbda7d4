------------------------------- MODULE Polya -------------------------------
(***************************************************************************)
(* The problem solver of HW4: the master process (src/master.c) with the   *)
(* problem source (src/problem.c), its worker processes (src/worker.c) and *)
(* what the kernel keeps between them: pipes, signals and the status that  *)
(* waitpid() reports of a child.                                           *)
(*                                                                         *)
(* SIGCHLD is blocked but for sigsuspend(), so the handler runs only there *)
(* and nothing interrupts a turn of the master's loops; workers run at any *)
(* time.  A step of the master is its work on one worker, one waitpid(),   *)
(* or a suspension.  A step of a worker ends where others can see it.      *)
(*                                                                         *)
(* What the program reads before it has stored anything (sigchld_flag[],   *)
(* no_more_problems[], current_problems[]) has any value in Init: a number *)
(* any number, a pointer NULL or WILD, which leads anywhere when followed. *)
(* What it reads of a freed problem depends on the build (intact).  The    *)
(* failure of system calls and of malloc() is left out, but for a kill()   *)
(* of a worker that is no more.                                            *)
(*                                                                         *)
(* A definition whose name ends in Mutant is not part of the model: it is  *)
(* a mistake the code could have made in the definition it stands before.  *)
(***************************************************************************)
EXTENDS Naturals, Sequences, FiniteSets

CONSTANTS workers,    \* how many workers the master starts
          nprobs,     \* how many problems are to be solved
          Types,      \* the types of problems that are enabled
          Addrs,      \* the addresses malloc() may give a problem
          NULL,       \* the null pointer, no problem
          WILD        \* what a pointer may be that nobody has stored

ASSUME ConstantsAssumption ==
          /\ workers \in Nat \ {0}
          /\ nprobs \in Nat
          /\ Types \subseteq {"trivial", "miner"}
          /\ Addrs # {}
          /\ NULL \notin Addrs /\ WILD \notin Addrs /\ NULL # WILD

Workers == 0 .. workers - 1

Problem == [id : 1 .. nprobs, type : Types]
Result == [id : 1 .. nprobs, failed : BOOLEAN]

VARIABLES
    \* master.c
    worker_states,      \* what the master takes each worker for
    sigchld_flag,       \* set by the handler, cleared by the main loop
    current_problems,   \* the problem each worker was given: a pointer, NULL or WILD
    no_more_problems,   \* the worker was refused a problem
    mpc,                \* where the master is
    mi,                 \* the worker its loop is at
    ending,             \* the master has left its main loop
    \* problem.c
    problems_remaining,
    current_problem,    \* a pointer or NULL
    heap,               \* the problem that was last stored at each address
    intact,             \* in this build free() leaves a problem as it was
    \* the kernel
    chld,               \* SIGCHLD is pending for the master
    status,             \* the change of each worker waitpid() has to report
    proc,               \* "running", "stopped", "waking" (continued) or "dead"
    sigs,               \* signals pending for a worker that does not run
    problem_pipe,       \* from the master to each worker
    result_pipe,        \* and back
    \* worker.c
    wpc,                \* where each worker is
    got_cont, got_cncl, got_term,
    solving,            \* the problem it has read
    crashed             \* the master has called through freed or unknown memory

sourceVars == <<problems_remaining, current_problem, heap, intact>>
masterVars == <<worker_states, sigchld_flag, current_problems, no_more_problems,
                mpc, mi, ending, crashed, sourceVars>>
flagVars == <<got_cont, got_cncl, got_term>>
procVars == <<chld, status, proc, sigs, flagVars>>
workerVars == <<procVars, wpc, solving>>
pipeVars == <<problem_pipe, result_pipe>>
vars == <<masterVars, workerVars, pipeVars>>

Init ==
    /\ worker_states = [w \in Workers |-> "started"]
    /\ sigchld_flag \in [Workers -> BOOLEAN]
    /\ current_problems \in [Workers -> {NULL, WILD}]
    /\ no_more_problems \in [Workers -> BOOLEAN]
    /\ mpc = "suspend" /\ mi = 0 /\ ending = FALSE /\ crashed = FALSE
    /\ problems_remaining = nprobs /\ current_problem = NULL
    /\ heap = [a \in Addrs |-> NULL] /\ intact \in BOOLEAN
    /\ chld = FALSE /\ status = [w \in Workers |-> "none"]
    /\ proc = [w \in Workers |-> "running"] /\ sigs = [w \in Workers |-> {}]
    /\ problem_pipe = [w \in Workers |-> <<>>]
    /\ result_pipe = [w \in Workers |-> <<>>]
    /\ wpc = [w \in Workers |-> "start"]
    /\ got_cont = [w \in Workers |-> FALSE]
    /\ got_cncl = [w \in Workers |-> FALSE]
    /\ got_term = [w \in Workers |-> FALSE]
    /\ solving = [w \in Workers |-> NULL]

\* exit() of the master ends the model, and so does a wild call.
Running == mpc \notin {"exited", "failed"} /\ ~crashed

-----------------------------------------------------------------------------
(* Workers *)

Worker(w, from, to) ==
    /\ Running
    /\ proc[w] = "running"
    /\ wpc[w] = from
    /\ wpc' = [wpc EXCEPT ![w] = to]
    /\ UNCHANGED <<masterVars, sigs>>

\* A change of worker w the kernel reports: it replaces one not yet seen.
Report(w, change, state) ==
    /\ status' = [status EXCEPT ![w] = change]
    /\ proc' = [proc EXCEPT ![w] = state]
    /\ chld' = TRUE

NoReport == UNCHANGED <<status, proc, chld>>

InstallHandlers(w) ==
    /\ Worker(w, "start", "ready")
    /\ NoReport
    /\ UNCHANGED <<flagVars, solving, pipeVars>>

\* kill(getpid(), SIGSTOP), before the main loop and after each result
StopSelf(w) ==
    /\ \E from \in {"ready", "done"} : Worker(w, from, "top")
    /\ Report(w, "stopped", "stopped")
    /\ UNCHANGED <<flagVars, solving, pipeVars>>

\* A continued worker handles what is pending before it goes on.
Wake(w) ==
    /\ Running
    /\ proc[w] = "waking"
    /\ proc' = [proc EXCEPT ![w] = "running"]
    /\ chld' = TRUE
    /\ got_cont' = [got_cont EXCEPT ![w] = TRUE]
    /\ got_cncl' = [got_cncl EXCEPT ![w] = @ \/ sigs[w] # {}]
    /\ got_term' = [got_term EXCEPT ![w] = @ \/ "SIGTERM" \in sigs[w]]
    /\ sigs' = [sigs EXCEPT ![w] = {}]
    /\ UNCHANGED <<masterVars, pipeVars, status, wpc, solving>>

\* A worker that runs always has got_cont or got_term set here, so it never
\* takes the branch that pauses (WorkersRestBetweenProblems).
Terminate(w) ==
    /\ Worker(w, "top", "exited")
    /\ got_term[w]
    /\ Report(w, "exited", "dead")
    /\ UNCHANGED <<flagVars, solving, pipeVars>>

ReadProblem(w) ==
    /\ Worker(w, "top", "solve")
    /\ ~got_term[w] /\ got_cont[w]
    /\ problem_pipe[w] # <<>>
    /\ got_cont' = [got_cont EXCEPT ![w] = FALSE]
    /\ solving' = [solving EXCEPT ![w] = Head(problem_pipe[w])]
    /\ problem_pipe' = [problem_pipe EXCEPT ![w] = Tail(@)]
    /\ NoReport
    /\ UNCHANGED <<got_cncl, got_term, result_pipe>>

\* The miner looks at the flag before each nonce, the trivial solver never.
\* A search through all 2^64 nonces is left out.
Solve(w) ==
    /\ Worker(w, "solve", "solved")
    /\ solving[w].type = "trivial" \/ ~got_cncl[w]
    /\ NoReport
    /\ UNCHANGED <<flagVars, solving, pipeVars>>

Abandon(w) ==
    /\ Worker(w, "solve", "failed")
    /\ solving[w].type = "miner" /\ got_cncl[w]
    /\ NoReport
    /\ UNCHANGED <<flagVars, solving, pipeVars>>

\* write_result or write_fail, and got_cncl = 0.  SIGTERM does not come
\* before the worker has stopped, so the tests of got_term are left out.
WriteResult(w) ==
    /\ \E from \in {"solved", "failed"} :
          /\ Worker(w, from, "done")
          /\ result_pipe' = [result_pipe EXCEPT ![w] =
                Append(@, [id |-> solving[w].id, failed |-> from = "failed"])]
    /\ got_cncl' = [got_cncl EXCEPT ![w] = FALSE]
    /\ solving' = [solving EXCEPT ![w] = NULL]
    /\ NoReport
    /\ UNCHANGED <<got_cont, got_term, problem_pipe>>

-----------------------------------------------------------------------------
(* Signals the master sends *)

\* SIGHUP to every worker in S.  It kills one that has not installed its handlers.
Cancel(S) ==
    LET killed == {w \in S : wpc[w] = "start"}
        handled == {w \in S \ killed : proc[w] = "running"}
    IN /\ got_cncl' = [w \in Workers |-> got_cncl[w] \/ w \in handled]
       /\ sigs' = [w \in Workers |-> IF w \in S \ (killed \cup handled)
                                     THEN sigs[w] \cup {"SIGHUP"} ELSE sigs[w]]
       /\ status' = [w \in Workers |-> IF w \in killed THEN "killed" ELSE status[w]]
       /\ proc' = [w \in Workers |-> IF w \in killed THEN "dead" ELSE proc[w]]
       /\ chld' = (chld \/ killed # {})
       /\ UNCHANGED <<got_cont, got_term>>

\* A worker that has died and has been waited for: kill() fails.
Reaped(w) == proc[w] = "dead" /\ status[w] = "none"

\* SIGCONT to worker w, which is stopped (AssignsToStoppedWorkers)
Continue(w) ==
    /\ status' = [status EXCEPT ![w] = "continued"]
    /\ proc' = [proc EXCEPT ![w] = "waking"]
    /\ UNCHANGED <<chld, sigs, flagVars>>

\* SIGTERM and SIGCONT to every worker.  One that has not installed its
\* handlers is killed by the first.
TerminateAll ==
    LET stopped == {w \in Workers : proc[w] = "stopped"}
        killed == {w \in Workers : wpc[w] = "start"}
        others == Workers \ (stopped \cup killed)
    IN /\ status' = [w \in Workers |-> CASE w \in stopped -> "continued"
                                         [] w \in killed  -> "killed"
                                         [] OTHER         -> status[w]]
       /\ proc' = [w \in Workers |-> CASE w \in stopped -> "waking"
                                       [] w \in killed  -> "dead"
                                       [] OTHER         -> proc[w]]
       /\ sigs' = [w \in Workers |-> IF w \in stopped THEN sigs[w] \cup {"SIGTERM"}
                                     ELSE sigs[w]]
       /\ chld' = (chld \/ killed # {})
       /\ got_term' = [w \in Workers |-> got_term[w] \/ w \in others]
       /\ got_cncl' = [w \in Workers |-> got_cncl[w] \/ w \in others]
       /\ got_cont' = [w \in Workers |-> got_cont[w] \/ w \in others]
       /\ UNCHANGED <<wpc, solving>>

-----------------------------------------------------------------------------
(* sigsuspend() and sig_master_handler *)

Master(from, to) ==
    /\ Running
    /\ mpc = from
    /\ mpc' = to

Suspend ==
    /\ Master("suspend", "handler")
    /\ chld
    /\ chld' = FALSE
    /\ UNCHANGED <<worker_states, sigchld_flag, current_problems, no_more_problems, mi,
                   ending, crashed, sourceVars, status, proc, sigs, flagVars, wpc,
                   solving, pipeVars>>

\* The state of a worker after a change has been reported; a worker killed
\* by a signal is not looked at.
StartMutant(s, change) ==
    CASE change = "exited"    -> "exited"
      [] change = "killed"    -> s
      [] change = "continued" -> "running"
      [] change = "stopped"   -> IF s \in {"idle", "stopped"} THEN "idle" ELSE "stopped"
ContinuedMutant(s, change) ==
    CASE change = "exited"    -> "exited"
      [] change = "killed"    -> s
      [] change = "continued" -> "stopped"
      [] change = "stopped"   -> IF s \in {"started", "idle", "stopped"}
                                 THEN "idle" ELSE "stopped"
NextState(s, change) ==
    CASE change = "exited"    -> "exited"
      [] change = "killed"    -> s
      [] change = "continued" -> "running"
      [] change = "stopped"   -> IF s \in {"started", "idle", "stopped"}
                                 THEN "idle" ELSE "stopped"

\* One turn of the loop around waitpid().
WaitpidMutant(w) ==
    /\ Master("handler", "pass")
    /\ status[w] # "none"
    /\ worker_states' = [worker_states EXCEPT ![w] = NextState(@, status[w])]
    /\ sigchld_flag' = [sigchld_flag EXCEPT ![w] = TRUE]
    /\ status' = [status EXCEPT ![w] = "none"]
    /\ UNCHANGED <<current_problems, no_more_problems, mi, ending, crashed, sourceVars,
                   chld, proc, sigs, flagVars, wpc, solving, pipeVars>>
Waitpid(w) ==
    /\ Master("handler", "handler")
    /\ status[w] # "none"
    /\ worker_states' = [worker_states EXCEPT ![w] = NextState(@, status[w])]
    /\ sigchld_flag' = [sigchld_flag EXCEPT ![w] = TRUE]
    /\ status' = [status EXCEPT ![w] = "none"]
    /\ UNCHANGED <<current_problems, no_more_problems, mi, ending, crashed, sourceVars,
                   chld, proc, sigs, flagVars, wpc, solving, pipeVars>>

\* waitpid() has nothing to report.
HandlerReturns ==
    /\ Master("handler", IF ending THEN "count" ELSE "pass")
    /\ \A w \in Workers : status[w] = "none"
    /\ mi' = 0
    /\ UNCHANGED <<worker_states, sigchld_flag, current_problems, no_more_problems,
                   ending, crashed, sourceVars, workerVars, pipeVars>>

-----------------------------------------------------------------------------
(* The main loop: one pass over the workers whose flag is set *)

\* The turn of the loop for worker mi, which has its flag set.
LookAt(states, to) ==
    /\ Master("pass", to)
    /\ mi < workers
    /\ sigchld_flag[mi]
    /\ worker_states[mi] \in states
    /\ sigchld_flag' = [sigchld_flag EXCEPT ![mi] = FALSE]
    /\ UNCHANGED <<no_more_problems, ending, problem_pipe>>

Skip ==
    /\ Master("pass", "pass")
    /\ mi < workers
    /\ ~sigchld_flag[mi]
    /\ mi' = mi + 1
    /\ UNCHANGED <<worker_states, sigchld_flag, current_problems, no_more_problems,
                   ending, crashed, sourceVars, workerVars, pipeVars>>

LookAtRunning ==
    /\ LookAt({"running", "continued"}, "pass")
    /\ mi' = mi + 1
    /\ UNCHANGED <<worker_states, current_problems, crashed, sourceVars, workerVars,
                   result_pipe>>

\* Only with a flag that was set before anything was stored in it.
LookAtStarted ==
    /\ LookAt({"started"}, "pass")
    /\ worker_states' = [worker_states EXCEPT ![mi] = "idle"]
    /\ mi' = mi + 1
    /\ UNCHANGED <<current_problems, crashed, sourceVars, workerVars, result_pipe>>

LookAtIdle ==
    /\ LookAt({"idle"}, "assign")
    /\ UNCHANGED <<worker_states, current_problems, mi, crashed, sourceVars, workerVars,
                   result_pipe>>

\* A worker that was canceled: what it wrote is not read.
LookAtCanceledMutant ==
    /\ LookAt({"stopped"}, "pass")
    /\ current_problems[mi] = NULL
    /\ worker_states' = [worker_states EXCEPT ![mi] = "idle"]
    /\ mi' = mi + 1
    /\ UNCHANGED <<current_problems, crashed, sourceVars, workerVars, result_pipe>>
LookAtCanceled ==
    /\ LookAt({"stopped"}, "assign")
    /\ current_problems[mi] = NULL
    /\ worker_states' = [worker_states EXCEPT ![mi] = "idle"]
    /\ UNCHANGED <<current_problems, mi, crashed, sourceVars, workerVars, result_pipe>>

\* check() of the solvers: any trivial result is good, a nonce is for one block.
SolvesMutant(res, prob) == ~res.failed
Solves(res, prob) == ~res.failed /\ (prob.type = "trivial" \/ res.id = prob.id)

\* The other workers on a problem of the same type.  Every problem but the
\* current one has been freed, and so has this one once it is solved.
ToCancelMutant(p) ==
    {w \in Workers \ {mi} : /\ intact /\ current_problems[w] \notin {NULL, WILD}
                            /\ worker_states[w] = "running"
                            /\ heap[current_problems[w]].type = heap[p].type}
ToCancel(p) ==
    {w \in Workers \ {mi} : /\ intact /\ current_problems[w] \notin {NULL, WILD}
                            /\ heap[current_problems[w]].type = heap[p].type}

\* The workers whose entry nobody has stored.  The type the master reads there is
\* that of the problem solved or another one, or the read is a fault.
Unset == {w \in Workers \ {mi} : current_problems[w] = WILD}

\* read_result() reads all there is into the buffer of a stream it then
\* forgets, so only the first result counts.  What a master that crashes has
\* done in this step is left out: no other step comes after it.
LookAtStopped ==
    LET p == current_problems[mi]
        res == Head(result_pipe[mi])
    IN /\ LookAt({"stopped"}, "assign")
       /\ p # NULL
       /\ result_pipe[mi] # <<>>
       /\ result_pipe' = [result_pipe EXCEPT ![mi] = <<>>]
       /\ worker_states' = [worker_states EXCEPT ![mi] = "idle"]
       /\ \/ /\ p = current_problem /\ Solves(res, heap[p])
             /\ current_problem' = NULL
             /\ \E hit \in SUBSET Unset :
                   /\ Cancel(ToCancel(p) \cup hit)
                   /\ current_problems' = [w \in Workers |->
                         IF w \in ToCancel(p) \cup hit \cup {mi} THEN NULL
                                                               ELSE current_problems[w]]
             /\ UNCHANGED crashed
          \/ /\ res.failed \/ (p = current_problem /\ ~Solves(res, heap[p]))
             /\ current_problems' = [current_problems EXCEPT ![mi] = NULL]
             /\ UNCHANGED <<current_problem, procVars, crashed>>
          \/ /\ \/ ~res.failed /\ p # current_problem
                \/ p = current_problem /\ Solves(res, heap[p]) /\ Unset # {}
             /\ crashed' = TRUE
             /\ UNCHANGED <<current_problem, current_problems, procVars>>
       /\ UNCHANGED <<problems_remaining, heap, intact, mi, wpc, solving>>

-----------------------------------------------------------------------------
(* assign_prob_to_worker and get_problem_variant *)

SourceMutant == current_problem = NULL /\ Types = {}
NoMore == current_problem = NULL /\ (problems_remaining = 0 \/ Types = {})

\* Worker mi is given the problem prob at address p and continued.
GiveMutant(p, prob) ==
    /\ Master("assign", "pass")
    /\ ~Reaped(mi)
    /\ mi' = mi + 1
    /\ current_problems' = [current_problems EXCEPT ![mi] = p]
    /\ no_more_problems' = [no_more_problems EXCEPT ![mi] = FALSE]
    /\ worker_states' = [worker_states EXCEPT ![mi] = "continued"]
    /\ Continue(mi)
    /\ UNCHANGED <<sigchld_flag, ending, crashed, intact, wpc, solving, pipeVars>>
Give(p, prob) ==
    /\ Master("assign", "pass")
    /\ ~Reaped(mi)
    /\ mi' = mi + 1
    /\ current_problems' = [current_problems EXCEPT ![mi] = p]
    /\ problem_pipe' = [problem_pipe EXCEPT ![mi] = Append(@, prob)]
    /\ no_more_problems' = [no_more_problems EXCEPT ![mi] = FALSE]
    /\ worker_states' = [worker_states EXCEPT ![mi] = "continued"]
    /\ Continue(mi)
    /\ UNCHANGED <<sigchld_flag, ending, crashed, intact, wpc, solving, result_pipe>>

GiveCurrent ==
    /\ current_problem # NULL
    /\ Give(current_problem, heap[current_problem])
    /\ UNCHANGED <<problems_remaining, current_problem, heap>>

\* new_problem: of a type and at an address nobody knows in advance.
GiveNew ==
    /\ current_problem = NULL /\ ~NoMore
    /\ problems_remaining' = problems_remaining - 1
    /\ \E a \in Addrs, type \in Types :
          LET prob == [id |-> nprobs - problems_remaining + 1, type |-> type]
          IN /\ current_problem' = a
             /\ heap' = [heap EXCEPT ![a] = prob]
             /\ Give(a, prob)

GiveNone ==
    /\ Master("assign", "pass")
    /\ NoMore
    /\ mi' = mi + 1
    /\ current_problems' = [current_problems EXCEPT ![mi] = NULL]
    /\ no_more_problems' = [no_more_problems EXCEPT ![mi] = TRUE]
    /\ UNCHANGED <<worker_states, sigchld_flag, ending, crashed, sourceVars, workerVars,
                   pipeVars>>

-----------------------------------------------------------------------------
(* The end of the main loop, and of the program *)

AllDoneMutant == \E w \in Workers : no_more_problems[w]
AllDone == \A w \in Workers : no_more_problems[w] /\ worker_states[w] = "idle"

EndPass ==
    /\ Master("pass", "suspend")
    /\ mi = workers
    /\ ~AllDone
    /\ UNCHANGED <<worker_states, sigchld_flag, current_problems, no_more_problems, mi,
                   ending, crashed, sourceVars, workerVars, pipeVars>>

EndWork ==
    /\ Master("pass", "suspend")
    /\ mi = workers
    /\ AllDone
    /\ \A w \in Workers : ~Reaped(w)
    /\ ending' = TRUE
    /\ TerminateAll
    /\ UNCHANGED <<worker_states, sigchld_flag, current_problems, no_more_problems, mi,
                   crashed, sourceVars, pipeVars>>

\* kill() fails for a worker that is to be continued, and the master gives up.
\* (What it has done in this step is left out: no other step comes after it.)
Fail ==
    /\ \/ Master("assign", "failed") /\ ~NoMore /\ Reaped(mi)
       \/ /\ Master("pass", "failed") /\ mi = workers /\ AllDone
          /\ \E w \in Workers : Reaped(w)
    /\ UNCHANGED <<worker_states, sigchld_flag, current_problems, no_more_problems, mi,
                   ending, crashed, sourceVars, workerVars, pipeVars>>

CountExited ==
    /\ \/ /\ Master("count", "exited")
          /\ \A w \in Workers : worker_states[w] = "exited"
       \/ /\ Master("count", "suspend")
          /\ \E w \in Workers : worker_states[w] # "exited"
    /\ UNCHANGED <<worker_states, sigchld_flag, current_problems, no_more_problems, mi,
                   ending, crashed, sourceVars, workerVars, pipeVars>>

-----------------------------------------------------------------------------

WorkerStep(w) == \/ InstallHandlers(w) \/ StopSelf(w) \/ Wake(w) \/ Terminate(w)
                 \/ ReadProblem(w) \/ Solve(w) \/ Abandon(w) \/ WriteResult(w)

MasterStep == \/ Suspend \/ (\E w \in Workers : Waitpid(w)) \/ HandlerReturns
              \/ Skip \/ LookAtRunning \/ LookAtStarted \/ LookAtIdle
              \/ LookAtCanceled \/ LookAtStopped
              \/ GiveCurrent \/ GiveNew \/ GiveNone
              \/ EndPass \/ EndWork \/ Fail \/ CountExited

Next == MasterStep \/ \E w \in Workers : WorkerStep(w)

Spec == Init /\ [][Next]_vars

\* Every process is scheduled, and the signals it waits for are delivered.
Fairness == WF_vars(MasterStep) /\ \A w \in Workers : WF_vars(WorkerStep(w))

FairSpec == Spec /\ Fairness

=============================================================================
