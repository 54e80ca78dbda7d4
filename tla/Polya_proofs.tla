---------------------------- MODULE Polya_proofs ----------------------------
(***************************************************************************)
(* Proofs about the problem solver of HW4, for every number of workers and *)
(* of problems, and whatever the flags, the refusals and the pointers held *)
(* that nobody initialized.                                                *)
(***************************************************************************)
EXTENDS PolyaProperties, TLAPS

USE ConstantsAssumption DEF Workers, masterVars, sourceVars, flagVars, procVars,
                            workerVars, pipeVars

-----------------------------------------------------------------------------
(* Where a worker is, and what the master and the kernel know of it *)

Quiet(w) == ~got_term[w] /\ "SIGTERM" \notin sigs[w]
AtTop(w) == wpc[w] = "top" /\ solving[w] = NULL

\* It has not stopped yet, or nobody has noticed.
Fresh(w) ==
    /\ Quiet(w) /\ ~got_cont[w] /\ solving[w] = NULL
    /\ problem_pipe[w] = <<>>
    /\ worker_states[w] \in {"started", "idle"}
    /\ sigchld_flag[w] => worker_states[w] = "started"
    /\ current_problems[w] \in {NULL, WILD}
    /\ \/ wpc[w] \in {"start", "ready"} /\ proc[w] = "running" /\ status[w] = "none"
       \/ wpc[w] = "top" /\ proc[w] = "stopped" /\ status[w] = "stopped"

\* It was canceled before it had installed its handlers, by a pointer nobody stored.
Slain(w) ==
    /\ Quiet(w) /\ ~got_cont[w] /\ solving[w] = NULL
    /\ problem_pipe[w] = <<>> /\ current_problems[w] = NULL
    /\ worker_states[w] \in {"started", "idle"}
    /\ wpc[w] = "start" /\ proc[w] = "dead"
    /\ \/ status[w] = "killed" /\ (sigchld_flag[w] => worker_states[w] = "started")
       \/ status[w] = "none"

\* It waits for a problem.
Resting(w) ==
    /\ Quiet(w) /\ ~got_cont[w] /\ AtTop(w)
    /\ problem_pipe[w] = <<>>
    /\ worker_states[w] = "idle" /\ proc[w] = "stopped" /\ status[w] = "none"

\* It has been given one and continued, has read it, or has written a result.
Given(w) ==
    /\ AtTop(w)
    /\ \E prob \in Problem : problem_pipe[w] = <<prob>>
    /\ \/ proc[w] = "waking" /\ ~got_cont[w]
       \/ proc[w] = "running" /\ got_cont[w]
Solving(w) ==
    /\ wpc[w] \in {"solve", "solved", "failed"} /\ solving[w] \in Problem
    /\ problem_pipe[w] = <<>> /\ proc[w] = "running" /\ ~got_cont[w]
Answered(w) ==
    /\ wpc[w] = "done" /\ solving[w] = NULL /\ result_pipe[w] # <<>>
    /\ problem_pipe[w] = <<>> /\ proc[w] = "running" /\ ~got_cont[w]
Working(w) ==
    /\ Quiet(w) /\ current_problems[w] # WILD
    /\ \/ worker_states[w] = "continued" /\ status[w] = "continued"
       \/ worker_states[w] = "running" /\ status[w] = "none"
    /\ Given(w) \/ Solving(w) \/ Answered(w)

\* It has stopped with a result, which the master has not noticed or is about
\* to read in this pass of its loop.
Ahead(w) == \/ mpc \in {"handler", "failed"}
            \/ mpc = "pass" /\ mi <= w
            \/ mpc = "assign" /\ mi < w
Finished(w) ==
    /\ Quiet(w) /\ ~got_cont[w] /\ AtTop(w) /\ current_problems[w] # WILD
    /\ problem_pipe[w] = <<>> /\ result_pipe[w] # <<>> /\ proc[w] = "stopped"
    /\ \/ worker_states[w] \in {"continued", "running"} /\ status[w] = "stopped"
       \/ /\ worker_states[w] = "stopped" /\ status[w] = "none"
          /\ sigchld_flag[w] /\ Ahead(w)

\* It was waiting when it was told to terminate, and does or has done so.
Told(w) ==
    /\ AtTop(w)
    /\ \/ proc[w] = "waking" /\ "SIGTERM" \in sigs[w]
       \/ proc[w] = "running" /\ got_term[w] /\ "SIGTERM" \notin sigs[w]
    /\ \/ worker_states[w] = "idle" /\ status[w] = "continued"
       \/ worker_states[w] = "running" /\ status[w] = "none"
Gone(w) ==
    /\ wpc[w] = "exited" /\ solving[w] = NULL /\ proc[w] = "dead"
    /\ \/ worker_states[w] \in {"idle", "running"} /\ status[w] = "exited"
       \/ worker_states[w] = "exited" /\ status[w] = "none"

\* It was told so before it had installed its handlers, or before it had stopped.
Killed(w) ==
    /\ wpc[w] = "start" /\ proc[w] = "dead" /\ Quiet(w)
    /\ worker_states[w] = "idle" /\ status[w] \in {"killed", "none"}
Missed(w) ==
    /\ got_term[w] /\ solving[w] = NULL /\ worker_states[w] = "idle"
    /\ \/ wpc[w] = "ready" /\ proc[w] = "running" /\ status[w] = "none"
       \/ wpc[w] = "top" /\ proc[w] = "stopped" /\ status[w] \in {"stopped", "none"}

Phase(w) == IF ending THEN Told(w) \/ Gone(w) \/ Killed(w) \/ Missed(w)
                      ELSE Fresh(w) \/ Slain(w) \/ Resting(w) \/ Working(w) \/ Finished(w)
Phases == \A w \in Workers : Phase(w)

\* The master takes it for one that waits.
Asking(w) == Resting(w) \/ (Slain(w) /\ status[w] = "none" /\ worker_states[w] = "idle")

\* Where the master may be, with what it has in its hands.
Place ==
    /\ ending => mpc \in {"suspend", "handler", "count", "exited"}
    /\ ~ending => mpc \in {"suspend", "handler", "pass", "assign", "failed"}
    /\ mpc = "assign" => mi < workers /\ Asking(mi)
    /\ current_problem # NULL => heap[current_problem] \in Problem

\* What waitpid() has to report has been signalled, or will be.
Wakeups ==
    mpc # "handler" =>
       \A w \in Workers : status[w] # "none" => chld \/ proc[w] = "waking"

Base == TypeOK /\ Phases /\ Place

-----------------------------------------------------------------------------
(* Types *)

LEMMA InitTypes == Init => TypeOK
  BY DEF Init, TypeOK, WORKER

LEMMA AppendIsNotEmpty ==
  ASSUME NEW S, NEW s \in Seq(S), NEW e \in S
  PROVE  Append(s, e) # <<>>
<1>1. Len(Append(s, e)) = Len(s) + 1 /\ Len(s) \in Nat /\ Len(<<>>) = 0
  OBVIOUS
<1> QED BY <1>1

\* A worker writes a result when it has read a problem, and then there is one.
LEMMA ResultWritten ==
  ASSUME TypeOK, NEW w \in Workers, Phase(w), WriteResult(w)
  PROVE  result_pipe' \in [Workers -> Seq(Result)] /\ result_pipe'[w] # <<>>
<1>1. PICK from \in {"solved", "failed"} :
         /\ Worker(w, from, "done")
         /\ result_pipe' = [result_pipe EXCEPT ![w] =
               Append(@, [id |-> solving[w].id, failed |-> from = "failed"])]
  BY DEF WriteResult
<1>2. solving[w] \in Problem
  BY <1>1 DEF Worker, Phase, Fresh, Slain, Resting, Working, Finished, Told, Gone, Killed,
              Missed, Given, Solving, Answered, AtTop
<1>3. PICK res \in Result : res = [id |-> solving[w].id, failed |-> from = "failed"]
  <2>1. [id |-> solving[w].id, failed |-> from = "failed"] \in Result
    BY <1>2 DEF Problem, Result
  <2> QED BY <2>1
<1>4. result_pipe[w] \in Seq(Result) /\ result_pipe'[w] = Append(result_pipe[w], res)
  BY <1>1, <1>3 DEF TypeOK
<1>5. Append(result_pipe[w], res) # <<>>
  BY <1>4, AppendIsNotEmpty
<1>6. result_pipe' \in [Workers -> Seq(Result)]
  BY <1>1, <1>3 DEF TypeOK
<1> QED BY <1>4, <1>5, <1>6

\* Every step of a worker keeps the types.
LEMMA WorkerTypes ==
  ASSUME TypeOK, Phases, NEW w \in Workers, WorkerStep(w)
  PROVE  TypeOK'
<1> USE DEF Worker, Report, NoReport, WORKER
<1>1. CASE InstallHandlers(w)
  BY <1>1 DEF InstallHandlers, TypeOK
<1>2. CASE StopSelf(w)
  BY <1>2 DEF StopSelf, TypeOK
<1>3. CASE Wake(w)
  BY <1>3 DEF Wake, TypeOK
<1>4. CASE Terminate(w)
  BY <1>4 DEF Terminate, TypeOK
<1>5. CASE ReadProblem(w)
  BY <1>5 DEF ReadProblem, TypeOK
<1>6. CASE Solve(w)
  BY <1>6 DEF Solve, TypeOK
<1>7. CASE Abandon(w)
  BY <1>7 DEF Abandon, TypeOK
<1>8. CASE WriteResult(w)
  <2>1. result_pipe' \in [Workers -> Seq(Result)]
    BY <1>8, ResultWritten DEF Phases
  <2>2. PICK from \in {"solved", "failed"} : Worker(w, from, "done")
    BY <1>8 DEF WriteResult
  <2> QED BY <1>8, <2>1, <2>2 DEF WriteResult, TypeOK
<1> QED BY <1>1, <1>2, <1>3, <1>4, <1>5, <1>6, <1>7, <1>8 DEF WorkerStep

\* What get_problem_variant() creates is a problem.
LEMMA NewProblem ==
  ASSUME TypeOK, GiveNew
  PROVE  /\ problems_remaining \in 1 .. nprobs
         /\ \E a \in Addrs, prob \in Problem : /\ current_problem' = a
                                              /\ heap' = [heap EXCEPT ![a] = prob]
                                              /\ Give(a, prob)
<1>1. problems_remaining \in 1 .. nprobs
  BY DEF GiveNew, NoMore, TypeOK
<1>2. PICK a \in Addrs, type \in Types :
         LET prob == [id |-> nprobs - problems_remaining + 1, type |-> type]
         IN /\ current_problem' = a
            /\ heap' = [heap EXCEPT ![a] = prob]
            /\ Give(a, prob)
  BY DEF GiveNew
<1>3. [id |-> nprobs - problems_remaining + 1, type |-> type] \in Problem
  BY <1>1 DEF Problem
<1> QED BY <1>1, <1>2, <1>3

\* The workers the master cancels when a problem is solved have a pointer, which is
\* cleared; in other cases it signals nobody.
LEMMA CancelSet ==
  ASSUME LookAtStopped
  PROVE  \/ \E S \in SUBSET (Workers \ {mi}) :
               /\ Cancel(S)
               /\ \A w \in S : current_problems[w] # NULL
               /\ current_problems' = [w \in Workers |->
                     IF w \in S \cup {mi} THEN NULL ELSE current_problems[w]]
         \/ /\ UNCHANGED procVars
            /\ \/ current_problems' = [current_problems EXCEPT ![mi] = NULL]
               \/ UNCHANGED current_problems
<1>1. ASSUME NEW hit \in SUBSET Unset, Cancel(ToCancel(current_problems[mi]) \cup hit),
             current_problems' = [w \in Workers |->
                IF w \in ToCancel(current_problems[mi]) \cup hit \cup {mi} THEN NULL
                ELSE current_problems[w]]
      PROVE  \E S \in SUBSET (Workers \ {mi}) :
               /\ Cancel(S)
               /\ \A w \in S : current_problems[w] # NULL
               /\ current_problems' = [w \in Workers |->
                     IF w \in S \cup {mi} THEN NULL ELSE current_problems[w]]
  <2> DEFINE S == ToCancel(current_problems[mi]) \cup hit
  <2>1. S \subseteq Workers \ {mi} /\ \A w \in S : current_problems[w] # NULL
    BY DEF ToCancel, Unset
  <2> HIDE DEF S
  <2>2. /\ Cancel(S)
        /\ current_problems' = [w \in Workers |->
              IF w \in S \cup {mi} THEN NULL ELSE current_problems[w]]
    BY <1>1 DEF S
  <2> QED BY <2>1, <2>2
<1>2. \/ \E hit \in SUBSET Unset :
            /\ Cancel(ToCancel(current_problems[mi]) \cup hit)
            /\ current_problems' = [w \in Workers |->
                  IF w \in ToCancel(current_problems[mi]) \cup hit \cup {mi} THEN NULL
                  ELSE current_problems[w]]
      \/ /\ UNCHANGED procVars
         /\ \/ current_problems' = [current_problems EXCEPT ![mi] = NULL]
            \/ UNCHANGED current_problems
  BY Zenon DEF LookAtStopped
<1> QED BY Zenon, <1>1, <1>2

LEMMA MasterTypes ==
  ASSUME Base, MasterStep
  PROVE  TypeOK'
<1> USE DEF Base, Master, WORKER, LookAt
<1>1. CASE Suspend
  BY <1>1 DEF Suspend, TypeOK
<1>2. ASSUME NEW w \in Workers, Waitpid(w) PROVE TypeOK'
  BY <1>2 DEF Waitpid, NextState, TypeOK
<1>3. CASE HandlerReturns
  <2>1. mpc' \in {"count", "pass"} /\ mi' \in 0 .. workers
    BY <1>3 DEF HandlerReturns
  <2> QED BY <1>3, <2>1 DEF HandlerReturns, TypeOK
<1>4. CASE Skip
  <2>1. mi + 1 \in 0 .. workers
    BY <1>4 DEF Skip, TypeOK
  <2> QED BY <1>4, <2>1 DEF Skip, TypeOK
<1>5. CASE LookAtRunning
  BY <1>5 DEF LookAtRunning, TypeOK
<1>6. CASE LookAtStarted
  BY <1>6 DEF LookAtStarted, TypeOK
<1>7. CASE LookAtIdle
  BY <1>7 DEF LookAtIdle, TypeOK
<1>8. CASE LookAtCanceled
  BY <1>8 DEF LookAtCanceled, TypeOK
<1>9. CASE LookAtStopped
  <2>1. /\ worker_states' \in [Workers -> WORKER]
        /\ sigchld_flag' \in [Workers -> BOOLEAN]
        /\ result_pipe' \in [Workers -> Seq(Result)]
        /\ mpc' = "assign"
    BY <1>9 DEF LookAtStopped, TypeOK
  <2>2. /\ current_problem' \in Addrs \cup {NULL}
        /\ crashed' \in BOOLEAN
    BY <1>9 DEF LookAtStopped, TypeOK
  <2>3. /\ chld' \in BOOLEAN
        /\ status' \in [Workers -> {"none", "stopped", "continued", "exited", "killed"}]
        /\ proc' \in [Workers -> {"running", "stopped", "waking", "dead"}]
        /\ sigs' \in [Workers -> SUBSET {"SIGHUP", "SIGTERM"}]
        /\ got_cncl' \in [Workers -> BOOLEAN]
        /\ UNCHANGED <<got_cont, got_term>>
    <3>1. CASE UNCHANGED procVars
      BY <3>1 DEF TypeOK
    <3>2. ASSUME NEW S, Cancel(S) PROVE <2>3
      <4>1. \A w \in Workers : sigs[w] \cup {"SIGHUP"} \in SUBSET {"SIGHUP", "SIGTERM"}
        BY DEF TypeOK
      <4>2. UNCHANGED <<got_cont, got_term>> /\ chld' \in BOOLEAN
        BY <3>2 DEF Cancel, TypeOK
      <4>3. got_cncl' \in [Workers -> BOOLEAN]
        BY <3>2 DEF Cancel, TypeOK
      <4>4. sigs' \in [Workers -> SUBSET {"SIGHUP", "SIGTERM"}]
        BY <3>2, <4>1 DEF Cancel, TypeOK
      <4>5. /\ status' \in [Workers -> {"none", "stopped", "continued", "exited", "killed"}]
            /\ proc' \in [Workers -> {"running", "stopped", "waking", "dead"}]
        BY <3>2 DEF Cancel, TypeOK
      <4> QED BY <4>2, <4>3, <4>4, <4>5
    <3> QED BY <1>9, <3>1, <3>2, CancelSet
  <2>4. current_problems' \in [Workers -> Addrs \cup {NULL, WILD}]
    <3>1. \/ \E S : current_problems' = [w \in Workers |->
                                       IF w \in S THEN NULL ELSE current_problems[w]]
          \/ current_problems' = [current_problems EXCEPT ![mi] = NULL]
          \/ UNCHANGED current_problems
      BY <1>9, CancelSet
    <3> QED BY <3>1 DEF TypeOK
  <2> QED BY <1>9, <2>1, <2>2, <2>3, <2>4 DEF LookAtStopped, TypeOK
<1>10. CASE GiveCurrent
  BY <1>10 DEF GiveCurrent, Give, Continue, TypeOK, Place
<1>11. CASE GiveNew
  <2>1. problems_remaining \in 1 .. nprobs /\ mi < workers
    BY <1>11, NewProblem DEF GiveNew, Give, Place
  <2>2. PICK a \in Addrs, prob \in Problem : /\ current_problem' = a
                                            /\ heap' = [heap EXCEPT ![a] = prob]
                                            /\ Give(a, prob)
    BY <1>11, NewProblem
  <2>3. /\ problems_remaining' \in 0 .. nprobs
        /\ mi' \in 0 .. workers
        /\ heap' \in [Addrs -> Problem \cup {NULL}]
        /\ problem_pipe' \in [Workers -> Seq(Problem)]
    BY <1>11, <2>1, <2>2 DEF GiveNew, Give, TypeOK
  <2> QED BY <2>2, <2>3 DEF Give, Continue, TypeOK
<1>12. CASE GiveNone
  BY <1>12 DEF GiveNone, TypeOK, Place
<1>13. CASE EndPass
  BY <1>13 DEF EndPass, TypeOK
<1>14. CASE EndWork
  BY <1>14 DEF EndWork, TerminateAll, TypeOK
<1>15. CASE Fail
  BY <1>15 DEF Fail, TypeOK
<1>16. CASE CountExited
  BY <1>16 DEF CountExited, TypeOK
<1> QED BY <1>1, <1>2, <1>3, <1>4, <1>5, <1>6, <1>7, <1>8, <1>9, <1>10, <1>11,
           <1>12, <1>13, <1>14, <1>15, <1>16 DEF MasterStep

-----------------------------------------------------------------------------
(* Phases *)

\* What a step leaves alone that does not move worker v: at most it cancels it.
Kept(v) ==
    /\ UNCHANGED <<worker_states[v], sigchld_flag[v], no_more_problems[v], status[v],
                   proc[v], wpc[v], got_cont[v], got_term[v], solving[v],
                   problem_pipe[v], result_pipe[v]>>
    /\ current_problems'[v] \in {current_problems[v], NULL}
    /\ "SIGTERM" \in sigs'[v] <=> "SIGTERM" \in sigs[v]

\* A worker that is left alone stays where it is, if the master still has to
\* look at it when it had before.
LEMMA KeptPhase ==
  ASSUME NEW v \in Workers, Phase(v), Kept(v), UNCHANGED ending,
         sigchld_flag[v] /\ Ahead(v) => Ahead(v)'
  PROVE  Phase(v)'
<1>1. /\ Fresh(v) => Fresh(v)'
      /\ Slain(v) => Slain(v)'
      /\ Resting(v) => Resting(v)'
      /\ Finished(v) => Finished(v)'
  BY DEF Kept, Fresh, Slain, Resting, Finished, Quiet, AtTop
<1>2. Working(v) => Working(v)'
  BY DEF Kept, Working, Given, Solving, Answered, Quiet, AtTop
<1>3. /\ Told(v) => Told(v)'
      /\ Gone(v) => Gone(v)'
      /\ Killed(v) => Killed(v)'
      /\ Missed(v) => Missed(v)'
  BY DEF Kept, Told, Gone, Killed, Missed, Quiet, AtTop
<1> QED BY <1>1, <1>2, <1>3 DEF Phase

\* A step of a worker moves nothing else.
LEMMA WorkerMoves ==
  ASSUME TypeOK, NEW w \in Workers, WorkerStep(w)
  PROVE  /\ UNCHANGED masterVars
         /\ chld' \/ UNCHANGED <<chld, status, proc>>
         /\ \A v \in Workers \ {w} : Kept(v)
         /\ proc[w] \in {"running", "waking"}
<1> USE DEF Worker, Report, NoReport, Kept
<1>1. CASE InstallHandlers(w)
  BY <1>1 DEF InstallHandlers, TypeOK
<1>2. CASE StopSelf(w)
  BY <1>2 DEF StopSelf, TypeOK
<1>3. CASE Wake(w)
  BY <1>3 DEF Wake, TypeOK
<1>4. CASE Terminate(w)
  BY <1>4 DEF Terminate, TypeOK
<1>5. CASE ReadProblem(w)
  BY <1>5 DEF ReadProblem, TypeOK
<1>6. CASE Solve(w)
  BY <1>6 DEF Solve, TypeOK
<1>7. CASE Abandon(w)
  BY <1>7 DEF Abandon, TypeOK
<1>8. CASE WriteResult(w)
  BY <1>8 DEF WriteResult, TypeOK
<1> QED BY <1>1, <1>2, <1>3, <1>4, <1>5, <1>6, <1>7, <1>8 DEF WorkerStep

\* It takes the worker from one phase to another.
LEMMA WorkerPhase ==
  ASSUME TypeOK, NEW w \in Workers, Phase(w), WorkerStep(w)
  PROVE  Phase(w)'
<1> USE DEF Worker, Report, NoReport, Quiet, AtTop, TypeOK
<1>1. CASE InstallHandlers(w)
  <2>1. (Fresh(w) /\ ~ending) \/ (Missed(w) /\ ending)
    BY <1>1 DEF InstallHandlers, Phase, Fresh, Slain, Resting, Working, Finished, Told, Gone,
                Killed, Missed, Given, Solving, Answered
  <2> QED BY <1>1, <2>1 DEF InstallHandlers, Phase, Fresh, Missed
<1>2. CASE StopSelf(w)
  <2>1. \/ ~ending /\ (Fresh(w) \/ (Working(w) /\ Answered(w)))
        \/ ending /\ Missed(w)
    BY <1>2 DEF StopSelf, Phase, Fresh, Slain, Resting, Working, Finished, Told, Gone,
                Killed, Missed, Given, Solving, Answered
  <2>2. CASE Fresh(w) /\ ~ending
    BY <1>2, <2>2 DEF StopSelf, Phase, Fresh
  <2>3. CASE Working(w) /\ Answered(w) /\ ~ending
    BY <1>2, <2>3 DEF StopSelf, Phase, Working, Answered, Finished
  <2>4. CASE Missed(w) /\ ending
    BY <1>2, <2>4 DEF StopSelf, Phase, Missed
  <2> QED BY <2>1, <2>2, <2>3, <2>4
<1>3. CASE Wake(w)
  <2>1. \/ ~ending /\ Working(w) /\ Given(w)
        \/ ending /\ Told(w)
    BY <1>3 DEF Wake, Phase, Fresh, Slain, Resting, Working, Finished, Told, Gone,
                Killed, Missed, Given, Solving, Answered
  <2>2. CASE Working(w) /\ Given(w) /\ ~ending
    BY <1>3, <2>2 DEF Wake, Phase, Working, Given
  <2>3. CASE Told(w) /\ ending
    BY <1>3, <2>3 DEF Wake, Phase, Told
  <2> QED BY <2>1, <2>2, <2>3
<1>4. CASE Terminate(w)
  <2>1. ending /\ Told(w)
    BY <1>4 DEF Terminate, Phase, Fresh, Slain, Resting, Working, Finished, Told, Gone,
                Killed, Missed, Given, Solving, Answered
  <2> QED BY <1>4, <2>1 DEF Terminate, Phase, Told, Gone
<1>5. CASE ReadProblem(w)
  <2>1. ~ending /\ Working(w) /\ Given(w)
    BY <1>5 DEF ReadProblem, Phase, Fresh, Slain, Resting, Working, Finished, Told, Gone,
                Killed, Missed, Given, Solving, Answered
  <2>2. PICK prob \in Problem : problem_pipe[w] = <<prob>>
    BY <2>1 DEF Given
  <2>3. Head(problem_pipe[w]) \in Problem /\ Tail(problem_pipe[w]) = <<>>
    BY <2>2
  <2>4. Solving(w)'
    BY <1>5, <2>3 DEF ReadProblem, Solving
  <2> QED BY <1>5, <2>1, <2>4 DEF ReadProblem, Phase, Working
<1>6. CASE Solve(w)
  <2>1. ~ending /\ Working(w) /\ Solving(w)
    BY <1>6 DEF Solve, Phase, Fresh, Slain, Resting, Working, Finished, Told, Gone,
                Killed, Missed, Given, Solving, Answered
  <2> QED BY <1>6, <2>1 DEF Solve, Phase, Working, Solving
<1>7. CASE Abandon(w)
  <2>1. ~ending /\ Working(w) /\ Solving(w)
    BY <1>7 DEF Abandon, Phase, Fresh, Slain, Resting, Working, Finished, Told, Gone,
                Killed, Missed, Given, Solving, Answered
  <2> QED BY <1>7, <2>1 DEF Abandon, Phase, Working, Solving
<1>8. CASE WriteResult(w)
  <2>1. ~ending /\ Working(w) /\ Solving(w)
    BY <1>8 DEF WriteResult, Phase, Fresh, Slain, Resting, Working, Finished, Told, Gone,
                Killed, Missed, Given, Solving, Answered
  <2>3. result_pipe'[w] # <<>>
    BY <1>8, ResultWritten
  <2>2. /\ wpc'[w] = "done" /\ solving'[w] = NULL
        /\ UNCHANGED <<problem_pipe, proc, got_cont>>
    BY <1>8 DEF WriteResult, NoReport, TypeOK
  <2>4. Answered(w)'
    <3> USE <2>1, <2>2, <2>3
    <3>1. problem_pipe[w] = <<>> /\ proc[w] = "running" /\ ~got_cont[w]
      BY DEF Solving
    <3> QED BY <3>1 DEF Answered
  <2> QED BY <1>8, <2>1, <2>4 DEF WriteResult, Phase, Working
<1> QED BY <1>1, <1>2, <1>3, <1>4, <1>5, <1>6, <1>7, <1>8 DEF WorkerStep

\* A turn of the master's loop leaves the workers after the one it is at to be
\* looked at.
LEMMA TurnGoesOn ==
  ASSUME TypeOK, mpc \in {"pass", "assign"},
         \/ mpc' = "assign" /\ mi' = mi
         \/ mpc' = "pass" /\ mi' = mi + 1
  PROVE  \A v \in Workers \ {mi} : Ahead(v) => Ahead(v)'
  BY DEF Ahead, TypeOK

\* Phases are kept where each worker is left alone or led from one phase to another.
LEMMA OneMoves ==
  ASSUME Phases, UNCHANGED ending, NEW w,
         \A v \in Workers \ {w} : (Kept(v) /\ (Ahead(v) => Ahead(v)')) \/ Phase(v)',
         w \in Workers => Phase(w)'
  PROVE  Phases'
  BY KeptPhase DEF Phases

\* What the master's loop knows of the worker it looks at, or gives a problem to.
LEMMA LookedAt ==
  ASSUME Base, NEW states, NEW to, LookAt(states, to)
  PROVE  /\ mi \in Workers
         /\ ~ending /\ UNCHANGED <<ending, problem_pipe>>
         /\ Fresh(mi) \/ Slain(mi) \/ Resting(mi) \/ Working(mi) \/ Finished(mi)
         /\ ~sigchld_flag'[mi]
         /\ \A v \in Workers \ {mi} : sigchld_flag'[v] = sigchld_flag[v]
  BY DEF LookAt, Master, Base, Place, Phases, Phase, TypeOK

\* A turn of the loop leaves the other workers where they are.
LEMMA TurnKeeps ==
  ASSUME Base,
         \/ LookAtRunning \/ LookAtStarted \/ LookAtIdle \/ LookAtCanceled
         \/ GiveCurrent \/ GiveNew \/ GiveNone
  PROVE  /\ mi \in Workers /\ ~ending /\ UNCHANGED ending
         /\ \A v \in Workers \ {mi} : Kept(v) /\ (Ahead(v) => Ahead(v)')
<1> USE DEF Base, Master
<1>1. CASE LookAtRunning
  BY <1>1, LookedAt, TurnGoesOn DEF LookAtRunning, LookAt, Kept
<1>2. CASE LookAtStarted
  BY <1>2, LookedAt, TurnGoesOn DEF LookAtStarted, LookAt, Kept, TypeOK
<1>3. CASE LookAtIdle
  BY <1>3, LookedAt, TurnGoesOn DEF LookAtIdle, LookAt, Kept
<1>4. CASE LookAtCanceled
  BY <1>4, LookedAt, TurnGoesOn DEF LookAtCanceled, LookAt, Kept, TypeOK
<1>6. CASE GiveCurrent \/ GiveNew
  <2>1. PICK a, prob : Give(a, prob)
    BY <1>6 DEF GiveCurrent, GiveNew
  <2>2. mi \in Workers /\ ~ending /\ UNCHANGED ending
    BY <2>1 DEF Give, Place, TypeOK
  <2>3. \A v \in Workers \ {mi} : Kept(v)
    BY <2>1, <2>2 DEF Give, Continue, Kept, TypeOK
  <2> QED BY <2>1, <2>2, <2>3, TurnGoesOn DEF Give
<1>7. CASE GiveNone
  BY <1>7, TurnGoesOn DEF GiveNone, Kept, Place, TypeOK
<1> QED BY <1>1, <1>2, <1>3, <1>4, <1>6, <1>7

\* So does one that reads a result, but that it may cancel them, and kill one that
\* has not installed its handlers.
LEMMA StoppedKeeps ==
  ASSUME Base, LookAtStopped
  PROVE  /\ mi \in Workers /\ ~ending /\ UNCHANGED <<ending, mi>>
         /\ mpc' = "assign" /\ worker_states'[mi] = "idle"
         /\ UNCHANGED <<got_cont, got_term, wpc, solving, problem_pipe, heap>>
         /\ Finished(mi) /\ status[mi] = "none" /\ Resting(mi)'
         /\ chld => chld'
         /\ \A v \in Workers \ {mi} :
               /\ Ahead(v) => Ahead(v)'
               /\ Kept(v) \/ (Fresh(v) /\ wpc[v] = "start" /\ Slain(v)' /\ chld')
<1> USE DEF Base, Master
<1>1. /\ mi \in Workers /\ ~ending /\ UNCHANGED <<ending, mi>>
      /\ mpc = "pass" /\ mpc' = "assign"
      /\ worker_states' = [worker_states EXCEPT ![mi] = "idle"]
      /\ UNCHANGED <<wpc, solving, problem_pipe, heap, no_more_problems>>
      /\ result_pipe' = [result_pipe EXCEPT ![mi] = <<>>]
      /\ ~sigchld_flag'[mi]
      /\ \A v \in Workers \ {mi} : sigchld_flag'[v] = sigchld_flag[v]
  BY LookedAt DEF LookAtStopped, LookAt
<1>2. Finished(mi) /\ status[mi] = "none"
  BY LookedAt DEF LookAtStopped, LookAt, Fresh, Slain, Resting, Working, Finished
<1>3. \A v \in Workers \ {mi} : Ahead(v) => Ahead(v)'
  BY <1>1 DEF Ahead
<1>4. ASSUME NEW S \in SUBSET (Workers \ {mi}), Cancel(S),
             \A w \in S : current_problems[w] # NULL,
             current_problems' = [w \in Workers |->
                IF w \in S \cup {mi} THEN NULL ELSE current_problems[w]],
             NEW v \in Workers
      PROVE  /\ UNCHANGED <<got_cont, got_term>>
             /\ "SIGTERM" \in sigs'[v] <=> "SIGTERM" \in sigs[v]
             /\ chld => chld'
             /\ ~(v \in S /\ wpc[v] = "start") => /\ status'[v] = status[v]
                                                 /\ proc'[v] = proc[v]
             /\ v \in S /\ wpc[v] = "start"
                   => Fresh(v) /\ Slain(v)' /\ chld'
  <2>1. /\ UNCHANGED <<got_cont, got_term>> /\ (chld => chld')
        /\ "SIGTERM" \in sigs'[v] <=> "SIGTERM" \in sigs[v]
    BY <1>4 DEF Cancel
  <2>2. ~(v \in S /\ wpc[v] = "start") => status'[v] = status[v] /\ proc'[v] = proc[v]
    BY <1>4 DEF Cancel
  <2>3. ASSUME v \in S, wpc[v] = "start" PROVE Fresh(v) /\ Slain(v)' /\ chld'
    <3>1. Fresh(v)
      BY <1>1, <1>4, <2>3 DEF Phases, Phase, Slain, Resting, Working, Finished, Given,
                              Solving, Answered, AtTop
    <3>2. status'[v] = "killed" /\ proc'[v] = "dead" /\ chld'
      BY <1>4, <2>3 DEF Cancel
    <3>3. current_problems'[v] = NULL
      BY <1>4, <2>3
    <3>4. v # mi /\ worker_states'[v] = worker_states[v]
      BY <1>1, <1>4, <2>3 DEF TypeOK
    <3>5. Slain(v)'
      BY <1>1, <2>1, <2>3, <3>1, <3>2, <3>3, <3>4 DEF Fresh, Slain, Quiet
    <3> QED BY <3>1, <3>2, <3>5
  <2> QED BY <2>1, <2>2, <2>3
<1>5. /\ UNCHANGED <<got_cont, got_term>>
      /\ \A v \in Workers : "SIGTERM" \in sigs'[v] <=> "SIGTERM" \in sigs[v]
      /\ chld => chld'
      /\ status'[mi] = status[mi] /\ proc'[mi] = proc[mi]
      /\ \A v \in Workers \ {mi} :
            \/ /\ status'[v] = status[v] /\ proc'[v] = proc[v]
               /\ current_problems'[v] \in {current_problems[v], NULL}
            \/ Fresh(v) /\ wpc[v] = "start" /\ Slain(v)' /\ chld'
  <2>1. CASE UNCHANGED procVars /\ \/ current_problems' = [current_problems EXCEPT ![mi] = NULL]
                                   \/ UNCHANGED current_problems
    BY <2>1 DEF TypeOK
  <2>2. ASSUME NEW S \in SUBSET (Workers \ {mi}), Cancel(S),
               \A w \in S : current_problems[w] # NULL,
               current_problems' = [w \in Workers |->
                  IF w \in S \cup {mi} THEN NULL ELSE current_problems[w]]
        PROVE  <1>5
    BY <1>1, <1>4, <2>2
  <2> QED BY <2>1, <2>2, CancelSet
<1>6. \A v \in Workers \ {mi} :
         Kept(v) \/ (Fresh(v) /\ wpc[v] = "start" /\ Slain(v)' /\ chld')
  BY <1>1, <1>5 DEF Kept, TypeOK
<1>7. Resting(mi)'
  BY <1>1, <1>2, <1>5 DEF Finished, Resting, Quiet, AtTop, TypeOK
<1>8. worker_states'[mi] = "idle"
  BY <1>1 DEF TypeOK
<1> QED BY <1>1, <1>2, <1>3, <1>5, <1>6, <1>7, <1>8

LEMMA MasterPhases ==
  ASSUME Base, MasterStep
  PROVE  Phases'
<1> USE DEF Base, Master
<1>1. CASE Suspend
  <2>1. \A v \in Workers : Kept(v) /\ (Ahead(v) => Ahead(v)')
    BY <1>1 DEF Suspend, Kept, Ahead
  <2> QED BY <1>1, <2>1, KeptPhase DEF Suspend, Phases
<1>2. ASSUME NEW w \in Workers, Waitpid(w) PROVE Phases'
  <2>1. \A v \in Workers \ {w} : Kept(v) /\ (Ahead(v) => Ahead(v)')
    BY <1>2 DEF Waitpid, Kept, Ahead, TypeOK
  <2>2. /\ worker_states'[w] = NextState(worker_states[w], status[w])
        /\ sigchld_flag'[w]
        /\ status'[w] = "none"
        /\ Ahead(w)'
    BY <1>2 DEF Waitpid, TypeOK, Ahead
  <2>3. Phase(w)
    BY DEF Phases
  <2>4. ~ending => Phase(w)'
    <3> SUFFICES ASSUME ~ending PROVE Phase(w)'
      OBVIOUS
    <3>1. CASE Fresh(w)
      BY <1>2, <2>2, <3>1 DEF Waitpid, NextState, Phase, Fresh, Resting, Quiet, AtTop
    <3>5. CASE Slain(w)
      BY <1>2, <2>2, <3>5 DEF Waitpid, NextState, Phase, Slain, Quiet
    <3>2. CASE Resting(w)
      BY <1>2, <3>2 DEF Waitpid, Resting
    <3>3. CASE Working(w)
      BY <1>2, <2>2, <3>3 DEF Waitpid, NextState, Phase, Working, Given, Solving,
                              Answered, Quiet, AtTop
    <3>4. CASE Finished(w)
      BY <1>2, <2>2, <3>4 DEF Waitpid, NextState, Phase, Finished, Quiet, AtTop
    <3> QED BY <2>3, <3>1, <3>2, <3>3, <3>4, <3>5 DEF Phase
  <2>5. ending => Phase(w)'
    <3> SUFFICES ASSUME ending PROVE Phase(w)'
      OBVIOUS
    <3>1. CASE Told(w)
      BY <1>2, <2>2, <3>1 DEF Waitpid, NextState, Phase, Told, Quiet, AtTop
    <3>2. CASE Gone(w)
      BY <1>2, <2>2, <3>2 DEF Waitpid, NextState, Phase, Gone
    <3>3. CASE Killed(w)
      BY <1>2, <2>2, <3>3 DEF Waitpid, NextState, Phase, Killed, Quiet
    <3>4. CASE Missed(w)
      BY <1>2, <2>2, <3>4 DEF Waitpid, NextState, Phase, Missed
    <3> QED BY <2>3, <3>1, <3>2, <3>3, <3>4 DEF Phase
  <2> QED BY <1>2, <2>1, <2>4, <2>5, OneMoves DEF Waitpid
<1>3. CASE HandlerReturns
  <2>1. \A v \in Workers : Kept(v)
    BY <1>3 DEF HandlerReturns, Kept
  <2>2. \A v \in Workers : ~ending => Ahead(v)'
    BY <1>3 DEF HandlerReturns, Ahead
  <2>3. \A v \in Workers : ~ending => Phase(v)'
    BY <1>3, <2>1, <2>2, KeptPhase DEF HandlerReturns, Phases
  <2>4. ASSUME ending, NEW v \in Workers PROVE Phase(v)'
    BY <1>3, <2>4 DEF HandlerReturns, Phases, Phase, Told, Gone, Killed, Missed, Quiet,
                      AtTop
  <2> QED BY <2>3, <2>4 DEF Phases
<1>4. CASE Skip
  <2>1. \A v \in Workers : Kept(v)
    BY <1>4 DEF Skip, Kept
  <2>2. \A v \in Workers : sigchld_flag[v] /\ Ahead(v) => Ahead(v)'
    BY <1>4, TurnGoesOn DEF Skip
  <2> QED BY <1>4, <2>1, <2>2, KeptPhase DEF Skip, Phases
<1>6. CASE LookAtRunning
  <2>1. PICK w \in Workers : w = mi
    BY <1>6, LookedAt DEF LookAtRunning
  <2>2. Working(w) \/ (Finished(w) /\ status[w] = "stopped")
    BY <1>6, <2>1, LookedAt DEF LookAtRunning, LookAt, Fresh, Slain, Resting, Working, Finished
  <2>3. ASSUME Working(w) PROVE Phase(w)'
    BY <1>6, <2>1, <2>3, LookedAt DEF LookAtRunning, Phase, Working, Given, Solving,
                                      Answered, Quiet, AtTop
  <2>4. ASSUME Finished(w), status[w] = "stopped" PROVE Phase(w)'
    BY <1>6, <2>1, <2>4, LookedAt DEF LookAtRunning, LookAt, Phase, Finished, Quiet,
                                      AtTop
  <2>5. Phase(w)'
    BY <2>2, <2>3, <2>4
  <2> QED BY <1>6, <2>1, <2>5, TurnKeeps, OneMoves
<1>7. CASE LookAtStarted
  <2>1. PICK w \in Workers : w = mi
    BY <1>7, LookedAt DEF LookAtStarted
  <2>2. Fresh(w) \/ Slain(w)
    BY <1>7, <2>1, LookedAt DEF LookAtStarted, LookAt, Fresh, Slain, Resting, Working, Finished
  <2>3. worker_states'[w] = "idle"
    BY <1>7, <2>1 DEF LookAtStarted, TypeOK
  <2>4. Fresh(w)' \/ Slain(w)'
    BY <1>7, <2>1, <2>2, <2>3, LookedAt DEF LookAtStarted, Fresh, Slain, Quiet
  <2>5. Phase(w)'
    BY <1>7, <2>4, LookedAt DEF LookAtStarted, Phase
  <2> QED BY <1>7, <2>1, <2>5, TurnKeeps, OneMoves
<1>8. CASE LookAtIdle
  <2>1. Resting(mi) \/ Slain(mi)
    BY <1>8, LookedAt DEF LookAtIdle, LookAt, Fresh, Slain, Resting, Working, Finished
  <2>2. Phase(mi)'
    BY <1>8, <2>1, LookedAt DEF LookAtIdle, Phase, Slain, Resting, Quiet, AtTop
  <2> QED BY <1>8, <2>2, TurnKeeps, OneMoves DEF LookAtIdle
<1>9. CASE LookAtCanceled
  <2>1. Finished(mi) /\ status[mi] = "none"
    BY <1>9, LookedAt DEF LookAtCanceled, LookAt, Fresh, Slain, Resting, Working, Finished
  <2>2. worker_states'[mi] = "idle"
    BY <1>9, LookedAt DEF LookAtCanceled, TypeOK
  <2>3. Phase(mi)'
    BY <1>9, <2>1, <2>2, LookedAt
       DEF LookAtCanceled, Phase, Finished, Resting, Quiet, AtTop
  <2> QED BY <1>9, <2>3, TurnKeeps, OneMoves DEF LookAtCanceled
<1>10. CASE LookAtStopped
  <2>1. Phase(mi)' /\ \A v \in Workers : Slain(v)' => Phase(v)'
    BY <1>10, StoppedKeeps DEF Phase
  <2> QED BY <1>10, <2>1, StoppedKeeps, OneMoves
<1>11. ASSUME NEW a \in Addrs, NEW prob \in Problem, Give(a, prob),
              GiveCurrent \/ GiveNew
       PROVE  Phases'
  <2>1. mi \in Workers /\ ~ending /\ Resting(mi)
    BY <1>11 DEF Give, Place, Asking, Slain, Reaped, TypeOK
  <2>2. /\ worker_states'[mi] = "continued" /\ status'[mi] = "continued"
        /\ proc'[mi] = "waking"
        /\ UNCHANGED <<sigs, flagVars, wpc, solving, ending>>
    BY <1>11, <2>1 DEF Give, Continue, TypeOK
  <2>3. problem_pipe'[mi] = <<prob>>
    BY <1>11, <2>1 DEF Give, Resting, TypeOK
  <2>4. PICK w \in Workers : w = mi
    BY <2>1
  <2>6. current_problems'[mi] = a /\ a # WILD
    BY <1>11, <2>1 DEF Give, TypeOK
  <2>5. Phase(w)'
    BY <2>1, <2>2, <2>3, <2>4, <2>6 DEF Phase, Resting, Working, Given, Quiet, AtTop
  <2> QED BY <1>11, <2>4, <2>5, TurnKeeps, OneMoves
<1>12. CASE GiveCurrent
  BY <1>11, <1>12 DEF GiveCurrent, Place, TypeOK
<1>13. CASE GiveNew
  BY <1>11, <1>13, NewProblem DEF Base
<1>14. CASE GiveNone
  <2>1. PICK w \in Workers : w = mi
    BY <1>14, TurnKeeps
  <2>2. Phase(w)'
    BY <1>14, <2>1, TurnKeeps
       DEF GiveNone, Phase, Place, Asking, Slain, Resting, Quiet, AtTop, TypeOK
  <2> QED BY <1>14, <2>1, <2>2, TurnKeeps, OneMoves
<1>15. CASE EndPass
  <2>1. \A v \in Workers : Kept(v) /\ ~Ahead(v)
    BY <1>15 DEF EndPass, Kept, Ahead
  <2> QED BY <1>15, <2>1, KeptPhase DEF EndPass, Phases
<1>16. CASE EndWork
  <2>1. ~ending /\ ending'
    BY <1>16 DEF EndWork, Place
  <2> SUFFICES ASSUME NEW w \in Workers PROVE Phase(w)'
    BY DEF Phases
  <2>2. worker_states[w] = "idle"
    BY <1>16 DEF EndWork, AllDone
  <2>3. Fresh(w) \/ (Slain(w) /\ status[w] = "killed") \/ Resting(w)
    BY <1>16, <2>1, <2>2 DEF EndWork, Reaped, Phases, Phase, Slain, Working, Finished
  <2>4. CASE proc[w] = "stopped"
    BY <1>16, <2>1, <2>2, <2>3, <2>4
       DEF EndWork, TerminateAll, Phase, Told, Fresh, Slain, Resting, AtTop
  <2>5. CASE wpc[w] = "start"
    BY <1>16, <2>1, <2>2, <2>3, <2>5
       DEF EndWork, TerminateAll, Phase, Killed, Fresh, Slain, Resting, AtTop, Quiet
  <2>6. CASE proc[w] # "stopped" /\ wpc[w] = "ready"
    BY <1>16, <2>1, <2>2, <2>3, <2>6
       DEF EndWork, TerminateAll, Phase, Missed, Fresh, Slain, Resting, AtTop
  <2> QED BY <2>3, <2>4, <2>5, <2>6 DEF Fresh, Slain, Resting
<1>17. CASE CountExited
  <2>1. \A v \in Workers : Kept(v) /\ ~Ahead(v)
    BY <1>17 DEF CountExited, Kept, Ahead
  <2> QED BY <1>17, <2>1, KeptPhase DEF CountExited, Phases
<1>18. CASE Fail
  <2>1. \A v \in Workers : Kept(v) /\ Ahead(v)'
    BY <1>18 DEF Fail, Kept, Ahead
  <2> QED BY <1>18, <2>1, KeptPhase DEF Fail, Phases
<1> QED BY <1>1, <1>2, <1>3, <1>4, <1>6, <1>7, <1>8, <1>9, <1>10, <1>12, <1>13, <1>14,
           <1>15, <1>16, <1>17, <1>18 DEF MasterStep

LEMMA MasterPlace ==
  ASSUME Base, MasterStep
  PROVE  Place'
<1> USE DEF Base, Master, Place
<1>1. CASE Suspend
  BY <1>1 DEF Suspend
<1>2. ASSUME NEW w \in Workers, Waitpid(w) PROVE Place'
  BY <1>2 DEF Waitpid
<1>3. CASE HandlerReturns
  BY <1>3 DEF HandlerReturns
<1>4. CASE Skip
  BY <1>4 DEF Skip
<1>5. ASSUME LookAtIdle \/ LookAtCanceled PROVE mi' < workers /\ Asking(mi)'
  <2>1. /\ mi \in Workers /\ Phase(mi) /\ ~ending
        /\ UNCHANGED <<mi, proc, status, sigs, got_cont, got_term, wpc, solving, problem_pipe>>
        /\ worker_states'[mi] = "idle"
        /\ current_problems'[mi] = current_problems[mi]
    BY <1>5 DEF LookAt, LookAtIdle, LookAtCanceled, Phases, TypeOK
  <2>2. \/ Resting(mi)
        \/ Finished(mi) /\ status[mi] = "none"
        \/ Slain(mi) /\ status[mi] = "none"
    BY <1>5, <2>1 DEF LookAtIdle, LookAtCanceled, LookAt, Phase, Fresh, Slain, Working,
                      Finished
  <2> QED BY <2>1, <2>2 DEF Asking, Slain, Resting, Finished, Quiet, AtTop
<1>6. CASE LookAtRunning
  BY <1>6 DEF LookAtRunning, LookAt
<1>7. CASE LookAtStarted
  BY <1>7 DEF LookAtStarted, LookAt
<1>8. CASE LookAtIdle
  BY <1>5, <1>8 DEF LookAtIdle, LookAt
<1>9. CASE LookAtCanceled
  BY <1>5, <1>9 DEF LookAtCanceled, LookAt
<1>10. CASE LookAtStopped
  <2>1. current_problem' \in {current_problem, NULL}
    BY <1>10 DEF LookAtStopped
  <2> QED BY <1>10, <2>1, StoppedKeeps DEF Asking
<1>11. CASE GiveCurrent
  BY <1>11 DEF GiveCurrent, Give
<1>12. CASE GiveNew
  <2>1. PICK a \in Addrs, prob \in Problem : /\ current_problem' = a
                                            /\ heap' = [heap EXCEPT ![a] = prob]
                                            /\ Give(a, prob)
    BY <1>12, NewProblem
  <2>2. heap'[a] = prob
    BY <2>1 DEF TypeOK
  <2> QED BY <2>1, <2>2 DEF Give
<1>13. CASE GiveNone
  BY <1>13 DEF GiveNone
<1>14. CASE EndPass
  BY <1>14 DEF EndPass
<1>15. CASE EndWork
  BY <1>15 DEF EndWork
<1>16. CASE CountExited
  BY <1>16 DEF CountExited
<1>17. CASE Fail
  BY <1>17 DEF Fail
<1> QED BY <1>1, <1>2, <1>3, <1>4, <1>6, <1>7, <1>8, <1>9, <1>10, <1>11, <1>12, <1>13,
           <1>14, <1>15, <1>16, <1>17 DEF MasterStep

\* A worker that steps is not the one the master is giving a problem to.
LEMMA WorkerPlace ==
  ASSUME Base, NEW w \in Workers, WorkerStep(w)
  PROVE  Place'
<1>1. UNCHANGED masterVars /\ \A v \in Workers \ {w} : Kept(v)
  BY WorkerMoves DEF Base
<1>2. mpc = "assign" => mi \in Workers \ {w}
  <2>1. proc[w] \in {"running", "waking"}
    BY WorkerMoves DEF Base
  <2>2. mpc = "assign" => mi \in Workers
    BY DEF Base, Place, TypeOK
  <2> QED BY <2>1, <2>2 DEF Base, Place, Asking, Slain, Resting
<1>3. mpc = "assign" => Asking(mi)'
  BY <1>1, <1>2 DEF Base, Place, Asking, Kept, Slain, Resting, Quiet, AtTop
<1> QED BY <1>1, <1>3 DEF Base, Place

LEMMA WorkerPhases ==
  ASSUME Base, NEW w \in Workers, WorkerStep(w)
  PROVE  Phases'
<1>1. /\ UNCHANGED masterVars
      /\ \A v \in Workers \ {w} : Kept(v) /\ (Ahead(v) => Ahead(v)')
  BY WorkerMoves DEF Base, Ahead
<1>2. Phase(w)'
  BY WorkerPhase DEF Base, Phases
<1> QED BY <1>1, <1>2, OneMoves DEF Base

LEMMA InitBase == Init => Base
<1> SUFFICES ASSUME Init PROVE Base
  OBVIOUS
<1>1. TypeOK
  BY InitTypes
<1>2. ~ending /\ \A w \in Workers : Fresh(w)
  BY DEF Init, Fresh, Quiet
<1>3. Place
  BY DEF Init, Place
<1> QED BY <1>1, <1>2, <1>3 DEF Base, Phases, Phase

LEMMA NextBase == Base /\ [Next]_vars => Base'
<1> SUFFICES ASSUME Base, [Next]_vars PROVE Base'
  OBVIOUS
<1>1. CASE MasterStep
  BY <1>1, MasterTypes, MasterPhases, MasterPlace DEF Base
<1>2. ASSUME NEW w \in Workers, WorkerStep(w) PROVE Base'
  BY <1>2, WorkerTypes, WorkerPhases, WorkerPlace DEF Base
<1>3. CASE UNCHANGED vars
  <2>1. TypeOK'
    BY <1>3 DEF vars, Base, TypeOK
  <2>2. \A v \in Workers : Kept(v) /\ (Ahead(v) => Ahead(v)')
    BY <1>3 DEF vars, Kept, Ahead
  <2>3. Phases'
    BY <1>3, <2>2, KeptPhase DEF vars, Base, Phases
  <2>4. Place'
    BY <1>3 DEF vars, Base, Place, Asking, Slain, Resting, Quiet, AtTop
  <2> QED BY <2>1, <2>3, <2>4 DEF Base
<1> QED BY <1>1, <1>2, <1>3 DEF Next

LEMMA BaseAlways == Spec => []Base
  BY InitBase, NextBase, PTL DEF Spec

-----------------------------------------------------------------------------
(* What follows of workers at rest *)

\* Every variable keeps its type: the master never reads a pipe that holds nothing
\* it could take, follows no null pointer and passes no end of its tables.
THEOREM TypesKept == Spec => []TypeOK
<1>1. Base => TypeOK
  BY DEF Base
<1> QED BY <1>1, BaseAlways, PTL

\* assign_prob_to_worker() is only called for a worker that has stopped itself at the
\* top of its loop, with nothing left to report or to read, although SIGCHLD
\* merges and the arrays of master() start with any value; or for one the master has
\* killed before it had installed its handlers, and then it will fail.
THEOREM AssignsWell == Spec => []AssignsToStoppedWorkers
<1>1. Base => AssignsToStoppedWorkers
  BY DEF Base, Place, Asking, Slain, Resting, AtTop, AssignsToStoppedWorkers
<1> QED BY <1>1, BaseAlways, PTL

\* read_result() finds a result and read_problem() a problem, so that neither process
\* waits for a pipe the other one will not write to.
THEOREM NobodyWaitsForAPipe == Spec => []PipesNeverBlock
<1>1. Base => PipesNeverBlock
  <2> SUFFICES ASSUME Base PROVE PipesNeverBlock
    OBVIOUS
  <2>1. ASSUME mpc = "pass", NEW w \in Workers, worker_states[w] = "stopped"
        PROVE  result_pipe[w] # <<>>
    BY <2>1 DEF Base, Place, Phases, Phase, Fresh, Slain, Resting, Working, Finished
  <2>2. ASSUME NEW w \in Workers, proc[w] \in {"waking", "running"}, wpc[w] = "top",
               ~got_term[w], problem_pipe[w] = <<>>
        PROVE  "SIGTERM" \in sigs[w]
    BY <2>2 DEF Base, Phases, Phase, Fresh, Slain, Resting, Working, Given, Solving, Answered,
                Finished, Told, Gone, Killed, Missed
  <2> QED BY <2>1, <2>2 DEF PipesNeverBlock
<1> QED BY <1>1, BaseAlways, PTL

\* SIGTERM reaches a worker only between two problems, and one that runs at the top of
\* its loop has been continued or terminated: it never takes the pause() of worker().
THEOREM TerminatedAtRest == Spec => []WorkersRestBetweenProblems
<1>1. Base => WorkersRestBetweenProblems
  BY DEF Base, Phases, Phase, Fresh, Slain, Resting, Working, Given, Solving, Answered,
         Finished, Told, Gone, Killed, Missed, Quiet, AtTop, WorkersRestBetweenProblems
<1> QED BY <1>1, BaseAlways, PTL

\* The handler and the main loop take a worker only along the arrows of polya.h.
THEOREM StatesInOrder == Spec => WorkerStateDiagram
<1> DEFINE InOrder(w) ==
             \/ /\ <<worker_states[w], worker_states'[w]>> \in
                      {<<"started", "idle">>, <<"continued", "running">>,
                       <<"continued", "stopped">>, <<"running", "stopped">>}
                /\ ~ending
             \/ mpc = "pass" /\ worker_states[w] = "stopped" /\ worker_states'[w] = "idle"
             \/ /\ mpc = "assign" /\ worker_states[w] = "idle"
                /\ worker_states'[w] = "continued"
             \/ ending /\ worker_states[w] \in {"idle", "running"}
                       /\ worker_states'[w] \in {"running", "exited"}
<1>1. ASSUME Base, [Next]_vars, NEW w \in Workers, worker_states'[w] # worker_states[w]
      PROVE  InOrder(w)
  <2> USE <1>1 DEF Master
  <2>1. ASSUME NEW v \in Workers, Waitpid(v) PROVE InOrder(w)
    <3>1. /\ v = w /\ status[w] # "none"
          /\ worker_states'[w] = NextState(worker_states[w], status[w])
      BY <2>1 DEF Waitpid, Base, TypeOK
    <3>2. CASE ending
      BY <3>1, <3>2 DEF Base, Phases, Phase, Told, Gone, Killed, Missed, NextState
    <3>3. CASE ~ending
      BY <3>1, <3>3 DEF Base, Phases, Phase, Fresh, Slain, Resting, Working, Finished, NextState
    <3> QED BY <3>2, <3>3
  <2>2. ASSUME LookAtStarted PROVE InOrder(w)
    BY <2>2 DEF LookAtStarted, LookAt, Base, TypeOK, Place
  <2>3. ASSUME LookAtCanceled \/ LookAtStopped PROVE InOrder(w)
    BY <2>3 DEF LookAtCanceled, LookAtStopped, LookAt, Base, TypeOK
  <2>4. ASSUME GiveCurrent \/ GiveNew PROVE InOrder(w)
    <3>1. \E a, prob : Give(a, prob)
      BY <2>4 DEF GiveCurrent, GiveNew
    <3> QED BY <3>1 DEF Give, Base, TypeOK, Place, Asking, Slain, Resting
  <2>5. UNCHANGED worker_states \/ LookAtStarted \/ LookAtCanceled \/ LookAtStopped
          \/ GiveCurrent \/ GiveNew \/ \E v \in Workers : Waitpid(v)
    <3>1. ASSUME NEW v \in Workers, WorkerStep(v) PROVE UNCHANGED worker_states
      BY <3>1, WorkerMoves DEF Base
    <3> QED BY <3>1 DEF Next, MasterStep, Suspend, HandlerReturns, Skip, LookAtRunning,
                        LookAtIdle, GiveNone, EndPass, EndWork, Fail, CountExited, vars
  <2> QED BY <2>1, <2>2, <2>3, <2>4, <2>5
<1>2. Base /\ [Next]_vars =>
       [\A w \in Workers :
          worker_states'[w] # worker_states[w] =>
             \/ <<worker_states[w], worker_states'[w]>> \in
                   {<<"started", "idle">>, <<"continued", "running">>,
                    <<"continued", "stopped">>, <<"running", "stopped">>}
                /\ ~ending
             \/ mpc = "pass" /\ worker_states[w] = "stopped" /\ worker_states'[w] = "idle"
             \/ mpc = "assign" /\ worker_states[w] = "idle" /\ worker_states'[w] = "continued"
             \/ ending /\ worker_states[w] \in {"idle", "running"}
                       /\ worker_states'[w] \in {"running", "exited"}]_vars
  BY <1>1
<1> QED BY <1>2, BaseAlways, PTL DEF Spec, WorkerStateDiagram

-----------------------------------------------------------------------------
(* What the master is told of *)

LEMMA MasterWakeups ==
  ASSUME Base, Wakeups, MasterStep
  PROVE  Wakeups'
<1> USE DEF Base, Wakeups, Master
<1>1. CASE Suspend
  BY <1>1 DEF Suspend
<1>2. ASSUME NEW w \in Workers, Waitpid(w) PROVE Wakeups'
  BY <1>2 DEF Waitpid
<1>3. CASE HandlerReturns
  BY <1>3 DEF HandlerReturns
<1>4. CASE Skip \/ LookAtRunning \/ LookAtStarted \/ LookAtIdle \/ LookAtCanceled
           \/ GiveNone \/ EndPass \/ Fail \/ CountExited
  BY <1>4 DEF Skip, LookAt, LookAtRunning, LookAtStarted, LookAtIdle, LookAtCanceled,
              GiveNone, EndPass, Fail, CountExited
<1>5. CASE LookAtStopped
  <2> SUFFICES ASSUME NEW w \in Workers, status'[w] # "none"
               PROVE  chld' \/ proc'[w] = "waking"
    OBVIOUS
  <2>1. w # mi => chld' \/ (status'[w] = status[w] /\ proc'[w] = proc[w])
    BY <1>5, StoppedKeeps DEF Kept
  <2>2. w = mi => FALSE
    BY <1>5, StoppedKeeps DEF Resting
  <2>3. mpc # "handler" /\ (chld => chld')
    BY <1>5, StoppedKeeps DEF LookAtStopped, LookAt
  <2> QED BY <2>1, <2>2, <2>3
<1>6. CASE GiveCurrent \/ GiveNew
  <2>1. \E a, prob : Give(a, prob)
    BY <1>6 DEF GiveCurrent, GiveNew
  <2> QED BY <2>1 DEF Give, Continue, Place, TypeOK
<1>7. CASE EndWork
  <2> SUFFICES ASSUME NEW w \in Workers, status'[w] # "none"
               PROVE  chld' \/ proc'[w] = "waking"
    OBVIOUS
  <2>1. CASE proc[w] = "stopped"
    BY <1>7, <2>1 DEF EndWork, TerminateAll
  <2>2. CASE wpc[w] = "start"
    BY <1>7, <2>2 DEF EndWork, TerminateAll
  <2>3. CASE proc[w] # "stopped" /\ wpc[w] # "start"
    BY <1>7, <2>3 DEF EndWork, TerminateAll
  <2> QED BY <2>1, <2>2, <2>3
<1> QED BY <1>1, <1>2, <1>3, <1>4, <1>5, <1>6, <1>7 DEF MasterStep

\* While the master is about to sleep, SIGCHLD is pending or on its way as long as
\* waitpid() would report something: sigsuspend() always wakes up for it.
THEOREM NoWakeupIsLost == Spec => []NoLostWakeup
<1>1. Init => Wakeups
  BY DEF Init, Wakeups
<1>2. Base /\ Wakeups /\ [Next]_vars => Wakeups'
  <2> SUFFICES ASSUME Base, Wakeups, [Next]_vars PROVE Wakeups'
    OBVIOUS
  <2>1. ASSUME NEW w \in Workers, WorkerStep(w) PROVE Wakeups'
    BY <2>1, WorkerMoves DEF Base, Wakeups
  <2>2. CASE UNCHANGED vars
    BY <2>2 DEF vars, Wakeups
  <2> QED BY <2>1, <2>2, MasterWakeups DEF Next
<1>3. Base /\ Wakeups => NoLostWakeup
  <2> SUFFICES ASSUME Base, Wakeups PROVE NoLostWakeup
    OBVIOUS
  <2>1. ASSUME mpc = "suspend", NEW w \in Workers, proc[w] = "stopped",
               worker_states[w] \in {"continued", "running"}
        PROVE  status[w] = "stopped"
    BY <2>1 DEF Base, Phases, Phase, Fresh, Slain, Resting, Working, Given, Solving, Answered,
                Finished, Told, Gone, Killed, Missed
  <2> QED BY <2>1 DEF Wakeups, NoLostWakeup
<1> QED BY <1>1, <1>2, <1>3, BaseAlways, PTL DEF Spec

-----------------------------------------------------------------------------
(* The end of the main loop *)

\* The worker is being given a problem, or will be in this pass of the loop.
Due(w) ==
    /\ Resting(w)
    /\ \/ mpc = "assign" /\ mi = w
       \/ sigchld_flag[w] /\ Ahead(w)

\* Without a refusal, a worker is taken for refused only as long as the master has not
\* looked at it, or when it was killed before that; and no pass of the loop comes before a
\* worker has stopped.
Unasked ==
    ~NoMore => \A w \in Workers : no_more_problems[w] => Fresh(w) \/ Slain(w) \/ Due(w)
Somebody ==
    chld \/ mpc # "suspend" => ending \/ \E w \in Workers : wpc[w] \notin {"start", "ready"}
SomebodyAsks ==
    mpc \in {"pass", "assign"}
       => NoMore \/ \E w \in Workers : ~no_more_problems[w] \/ Due(w)

Ends == EndsWhenSolved /\ Unasked /\ Somebody /\ SomebodyAsks

LEMMA EndsIsNoMore == EndsWhenSolved <=> (ending => NoMore)
  BY DEF EndsWhenSolved, NoMore

LEMMA KeptRest ==
  ASSUME NEW v \in Workers, Kept(v)
  PROVE  /\ Fresh(v) => Fresh(v)'
         /\ Slain(v) => Slain(v)'
         /\ Resting(v) => Resting(v)'
         /\ no_more_problems'[v] = no_more_problems[v]
         /\ sigchld_flag'[v] = sigchld_flag[v]
         /\ wpc'[v] = wpc[v]
  BY DEF Kept, Fresh, Slain, Resting, Quiet, AtTop

\* Once there are no more problems there never will be.
LEMMA NoMoreStays ==
  ASSUME TypeOK, [Next]_vars, NoMore
  PROVE  NoMore'
<1>1. UNCHANGED problems_remaining /\ current_problem' \in {current_problem, NULL}
  <2>1. ASSUME NEW w \in Workers, WorkerStep(w) PROVE UNCHANGED masterVars
    BY <2>1, WorkerMoves
  <2>2. ASSUME MasterStep PROVE <1>1
    BY <2>2 DEF MasterStep, Suspend, Waitpid, HandlerReturns, Skip, LookAtRunning,
                LookAtStarted, LookAtIdle, LookAtCanceled, LookAtStopped, GiveCurrent,
                GiveNew, GiveNone, EndPass, EndWork, Fail, CountExited, NoMore
  <2> QED BY <2>1, <2>2 DEF Next, vars
<1> QED BY <1>1 DEF NoMore

\* A worker the master has not looked at only starts and stops.
LEMMA FreshSteps ==
  ASSUME Base, NEW w \in Workers, WorkerStep(w)
  PROVE  /\ ~Resting(w) /\ ~Slain(w)
         /\ ~ending /\ Fresh(w) => Fresh(w)'
         /\ ending \/ wpc'[w] \notin {"start", "ready"} \/ UNCHANGED chld
<1>1. ~Resting(w) /\ ~Slain(w)
  BY WorkerMoves DEF Base, Slain, Resting
<1>2. ~ending /\ Fresh(w) => Fresh(w)'
  <2> SUFFICES ASSUME ~ending, Fresh(w) PROVE Fresh(w)'
    OBVIOUS
  <2>1. InstallHandlers(w) \/ (StopSelf(w) /\ wpc[w] = "ready")
    BY DEF WorkerStep, Worker, Fresh, InstallHandlers, StopSelf, Wake, Terminate,
           ReadProblem, Solve, Abandon, WriteResult
  <2>2. CASE InstallHandlers(w)
    BY <2>2 DEF InstallHandlers, Worker, NoReport, Fresh, Quiet, Base, TypeOK
  <2>3. CASE StopSelf(w)
    BY <2>3 DEF StopSelf, Worker, Report, Fresh, Quiet, Base, TypeOK
  <2> QED BY <2>1, <2>2, <2>3
<1>3. ending \/ wpc'[w] \notin {"start", "ready"} \/ UNCHANGED chld
  <2>1. CASE Wake(w)
    <3>1. ending \/ (Working(w) /\ Given(w))
      BY <2>1 DEF Wake, Base, Phases, Phase, Fresh, Slain, Resting, Working, Finished, Given,
                  Solving, Answered
    <3> QED BY <2>1, <3>1 DEF Wake, Given, AtTop
  <2>2. CASE StopSelf(w) \/ Terminate(w)
    BY <2>2 DEF StopSelf, Terminate, Worker, Base, TypeOK
  <2>3. CASE ~Wake(w) /\ ~StopSelf(w) /\ ~Terminate(w)
    BY <2>3 DEF WorkerStep, InstallHandlers, ReadProblem, Solve, Abandon, WriteResult,
                NoReport
  <2> QED BY <2>1, <2>2, <2>3
<1> QED BY <1>1, <1>2, <1>3

LEMMA KeptDue ==
  ASSUME NEW v \in Workers, Kept(v), sigchld_flag[v] /\ Ahead(v) => Ahead(v)',
         mpc = "assign" => mi # v
  PROVE  Due(v) => Due(v)'
  BY KeptRest DEF Due

LEMMA WorkerEnds ==
  ASSUME Base, Ends, NEW w \in Workers, WorkerStep(w)
  PROVE  Ends'
<1>1. /\ UNCHANGED masterVars
      /\ \A v \in Workers \ {w} : Kept(v)
  BY WorkerMoves DEF Base
<1>2. NoMore' <=> NoMore
  BY <1>1 DEF NoMore
<1>3. ~Due(w)
  BY FreshSteps DEF Due
<1>4. \A v \in Workers : Due(v) => Due(v)'
  BY <1>1, <1>3, KeptRest DEF Due, Ahead
<1>5. Unasked'
  <2> SUFFICES ASSUME ~NoMore, NEW v \in Workers, no_more_problems[v]
               PROVE  Fresh(v)' \/ Slain(v)' \/ Due(v)'
    BY <1>1, <1>2 DEF Unasked
  <2>1. ~ending /\ (Fresh(v) \/ Slain(v) \/ Due(v))
    BY EndsIsNoMore DEF Ends, Unasked
  <2> QED BY <1>1, <1>4, <2>1, KeptRest, FreshSteps
<1>6. Somebody'
  <2>1. CASE wpc'[w] \notin {"start", "ready"} \/ ending
    BY <1>1, <2>1 DEF Somebody
  <2>2. CASE wpc'[w] \in {"start", "ready"} /\ ~ending
    <3>1. UNCHANGED chld
      BY <2>2, FreshSteps
    <3>2. wpc[w] \in {"start", "ready"}
      <4>1. \/ UNCHANGED wpc
            \/ \E from, to : Worker(w, from, to) /\ from \in {"start", "ready"}
            \/ \E from, to : Worker(w, from, to) /\ to \notin {"start", "ready"}
        BY DEF WorkerStep, InstallHandlers, StopSelf, Wake, Terminate, ReadProblem,
               Solve, Abandon, WriteResult
      <4> QED BY <2>2, <4>1 DEF Worker, Base, TypeOK
    <3> QED BY <1>1, <2>2, <3>1, <3>2, KeptRest DEF Ends, Somebody
  <2> QED BY <2>1, <2>2
<1>7. EndsWhenSolved' /\ SomebodyAsks'
  BY <1>1, <1>2, <1>4 DEF Ends, EndsWhenSolved, SomebodyAsks
<1> QED BY <1>5, <1>6, <1>7 DEF Ends

\* The master does not leave its loop before every problem is solved.
LEMMA EndWorkInTime ==
  ASSUME Base, Ends, EndWork
  PROVE  NoMore
<1> SUFFICES ASSUME ~NoMore PROVE FALSE
  OBVIOUS
<1>1. PICK w \in Workers : ~no_more_problems[w] \/ Due(w)
  BY DEF Ends, SomebodyAsks, EndWork, Master
<1>2. Due(w)
  BY <1>1 DEF EndWork, AllDone
<1> QED BY <1>2 DEF Due, Ahead, EndWork, Master

\* A pass starts with somebody to look at.
LEMMA PassStarts ==
  ASSUME Base, Ends, HandlerReturns, ~ending, ~NoMore
  PROVE  \E w \in Workers : ~no_more_problems[w] \/ Due(w)
<1>1. PICK w \in Workers : wpc[w] \notin {"start", "ready"}
  BY DEF Ends, Somebody, HandlerReturns, Master
<1>2. ~Fresh(w) /\ ~Slain(w)
  BY <1>1 DEF Fresh, Slain, HandlerReturns
<1> QED BY <1>2 DEF Ends, Unasked

LEMMA MasterEnds ==
  ASSUME Base, Ends, MasterStep
  PROVE  Ends'
<1> USE DEF Base, Master
<1>1. /\ UNCHANGED wpc
      /\ ending => ending'
      /\ chld' \/ mpc' # "suspend" => ending' \/ chld \/ mpc # "suspend"
      /\ ending' => ending \/ EndWork
  <2>1. CASE Suspend \/ HandlerReturns \/ \E w \in Workers : Waitpid(w)
    BY <2>1 DEF Suspend, HandlerReturns, Waitpid
  <2>2. CASE Skip \/ LookAtRunning \/ LookAtStarted \/ LookAtIdle \/ LookAtCanceled
                  \/ GiveNone
    BY <2>2 DEF Skip, LookAt, LookAtRunning, LookAtStarted, LookAtIdle, LookAtCanceled,
                GiveNone
  <2>3. CASE LookAtStopped
    BY <2>3, StoppedKeeps DEF LookAtStopped, LookAt
  <2>4. CASE GiveCurrent \/ GiveNew
    <3>1. \E a, prob : Give(a, prob)
      BY <2>4 DEF GiveCurrent, GiveNew
    <3> QED BY <3>1 DEF Give, Continue
  <2>5. CASE EndPass \/ EndWork \/ Fail \/ CountExited
    BY <2>5 DEF EndPass, EndWork, Fail, CountExited, TerminateAll
  <2> QED BY <2>1, <2>2, <2>3, <2>4, <2>5 DEF MasterStep
<1>2. Somebody'
  BY <1>1 DEF Ends, Somebody
<1>3. NoMore => NoMore'
  BY NoMoreStays DEF Next
<1>4. EndsWhenSolved'
  <2>1. ending' => NoMore'
    BY <1>1, <1>3, EndsIsNoMore, EndWorkInTime DEF Ends
  <2> QED BY <2>1 DEF EndsWhenSolved, NoMore
<1>5. ASSUME ~NoMore' PROVE Unasked' /\ SomebodyAsks'
  <2>1. ~ending /\ ~NoMore
    BY <1>3, <1>5, EndsIsNoMore DEF Ends
  <2>2. \A v \in Workers : no_more_problems[v] => Fresh(v) \/ Slain(v) \/ Due(v)
    BY <2>1 DEF Ends, Unasked
  <2>3. ASSUME \A v \in Workers : /\ Kept(v)
                                  /\ sigchld_flag[v] /\ Ahead(v) => Ahead(v)',
               mpc # "assign"
        PROVE  Unasked'
    BY <2>2, <2>3, KeptRest, KeptDue DEF Unasked
  <2>4. CASE Suspend
    <3>1. \A v \in Workers : Kept(v) /\ Ahead(v)'
      BY <2>4 DEF Suspend, Kept, Ahead
    <3> QED BY <2>3, <2>4, <3>1 DEF Suspend, SomebodyAsks
  <2>5. ASSUME NEW w \in Workers, Waitpid(w) PROVE Unasked' /\ SomebodyAsks'
    <3>1. \A v \in Workers \ {w} : Kept(v) /\ Ahead(v)'
      BY <2>5 DEF Waitpid, Kept, Ahead
    <3>5. Slain(w) => Slain(w)'
      <4>1. worker_states'[w] = NextState(worker_states[w], status[w]) /\ status'[w] = "none"
        BY <2>5 DEF Waitpid, TypeOK
      <4> QED BY <2>5, <4>1 DEF Waitpid, NextState, Slain, Quiet
    <3>2. Fresh(w) => Due(w)'
      <4>1. /\ worker_states'[w] = NextState(worker_states[w], status[w])
            /\ sigchld_flag'[w]
            /\ status'[w] = "none"
            /\ Ahead(w)'
        BY <2>5 DEF Waitpid, TypeOK, Ahead
      <4> QED BY <2>5, <4>1 DEF Waitpid, NextState, Fresh, Due, Resting, Quiet, AtTop
    <3>3. ~Due(w)
      BY <2>5 DEF Waitpid, Due, Resting
    <3>4. Unasked'
      BY <2>2, <2>5, <3>1, <3>2, <3>3, <3>5, KeptRest, KeptDue DEF Unasked, Waitpid
    <3> QED BY <2>5, <3>4 DEF Waitpid, SomebodyAsks
  <2>6. CASE HandlerReturns
    <3>1. \A v \in Workers : Kept(v) /\ Ahead(v)'
      BY <2>1, <2>6 DEF HandlerReturns, Kept, Ahead
    <3>2. \A v \in Workers : Due(v) => Due(v)'
      BY <2>6, <3>1, KeptDue DEF HandlerReturns
    <3> QED BY <2>1, <2>3, <2>6, <3>1, <3>2, PassStarts DEF HandlerReturns, SomebodyAsks
  <2>7. CASE Skip
    <3>1. \A v \in Workers : Kept(v) /\ (sigchld_flag[v] /\ Ahead(v) => Ahead(v)')
      BY <2>7, TurnGoesOn DEF Skip, Kept
    <3>2. \A v \in Workers : Due(v) => Due(v)'
      BY <2>7, <3>1, KeptDue DEF Skip
    <3> QED BY <2>1, <2>3, <2>7, <3>1, <3>2 DEF Skip, Ends, SomebodyAsks
  <2>8. CASE LookAtRunning
    <3>1. PICK w \in Workers : w = mi
      BY <2>8, LookedAt DEF LookAtRunning
    <3>2. ~Fresh(w) /\ ~Slain(w) /\ ~Due(w) /\ ~no_more_problems'[w]
      BY <2>2, <2>8, <3>1 DEF LookAtRunning, LookAt, Fresh, Slain, Due, Resting
    <3>3. \A v \in Workers \ {w} : Kept(v) /\ (Due(v) => Due(v)')
      BY <2>8, <3>1, TurnKeeps, KeptDue
    <3> QED BY <2>2, <3>1, <3>2, <3>3, KeptRest DEF Unasked, SomebodyAsks
  <2>9. CASE LookAtStarted
    <3>1. PICK w \in Workers : w = mi
      BY <2>9, LookedAt DEF LookAtStarted
    <3>2. ~Due(w) /\ (Fresh(w)' \/ Slain(w)')
      BY <2>9, <3>1, LookedAt DEF LookAtStarted, LookAt, Fresh, Slain, Due, Resting,
                                  Working, Finished, Quiet, TypeOK
    <3>3. \A v \in Workers \ {w} : Kept(v) /\ (Due(v) => Due(v)')
      BY <2>9, <3>1, TurnKeeps, KeptDue DEF LookAtStarted, LookAt
    <3> QED BY <2>1, <2>2, <2>9, <3>1, <3>2, <3>3, KeptRest
               DEF LookAtStarted, LookAt, Ends, Unasked, SomebodyAsks
  <2>10. CASE LookAtIdle \/ LookAtCanceled
    <3>1. mi \in Workers /\ mpc = "pass" /\ mpc' = "assign" /\ mi' = mi
          /\ UNCHANGED no_more_problems
      BY <2>10, TurnKeeps DEF LookAtIdle, LookAtCanceled, LookAt
    <3>2. Due(mi)' \/ Slain(mi)'
      BY <2>10, <3>1, MasterPlace DEF MasterStep, Due, Place, Asking
    <3>3. \A v \in Workers \ {mi} : Kept(v) /\ (Due(v) => Due(v)')
      BY <2>10, <3>1, TurnKeeps, KeptDue
    <3>4. Due(mi) => Due(mi)'
      <4>1. Due(mi) => ~Slain(mi)'
        <5>1. UNCHANGED proc
          BY <2>10 DEF LookAtIdle, LookAtCanceled
        <5> QED BY <3>1, <5>1 DEF Due, Resting, Slain
      <4> QED BY <3>2, <4>1
    <3>5. Unasked'
      BY <2>2, <3>1, <3>2, <3>3, KeptRest DEF Unasked
    <3> QED BY <2>1, <3>1, <3>3, <3>4, <3>5 DEF Ends, SomebodyAsks
  <2>16. CASE LookAtStopped
    <3>1. mi \in Workers /\ mpc' = "assign" /\ mi' = mi /\ Due(mi)'
      BY <2>16, StoppedKeeps DEF Due
    <3>2. mpc # "assign" /\ UNCHANGED no_more_problems
      BY <2>16 DEF LookAtStopped, LookAt
    <3>3. \A v \in Workers \ {mi} :
             \/ Kept(v) /\ (Due(v) => Due(v)')
             \/ Slain(v)'
      BY <2>16, <3>2, StoppedKeeps, KeptDue
    <3> QED BY <2>2, <3>1, <3>2, <3>3, KeptRest DEF Unasked, SomebodyAsks
  <2>11. CASE GiveCurrent \/ GiveNew
    <3>1. PICK w \in Workers : w = mi
      BY <2>11, TurnKeeps
    <3>2. ~no_more_problems'[w]
      <4>1. \E a, prob : Give(a, prob)
        BY <2>11 DEF GiveCurrent, GiveNew
      <4> QED BY <3>1, <4>1 DEF Give, TypeOK
    <3>3. \A v \in Workers \ {w} : Kept(v) /\ (Due(v) => Due(v)')
      BY <2>11, <3>1, TurnKeeps, KeptDue
    <3> QED BY <2>2, <3>1, <3>2, <3>3, KeptRest DEF Unasked, SomebodyAsks
  <2>12. CASE GiveNone
    BY <2>1, <2>12 DEF GiveNone
  <2>13. CASE EndPass
    <3>1. \A v \in Workers : Kept(v) /\ ~Ahead(v)
      BY <2>13 DEF EndPass, Kept, Ahead
    <3> QED BY <2>3, <2>13, <3>1 DEF EndPass, SomebodyAsks
  <2>14. CASE EndWork
    BY <2>1, <2>14, EndWorkInTime
  <2>15. CASE CountExited
    BY <2>1, <2>15 DEF CountExited, Place
  <2>17. CASE Fail
    <3>1. \A v \in Workers : Kept(v) /\ Ahead(v)'
      BY <2>17 DEF Fail, Kept, Ahead
    <3>2. \A v \in Workers : Due(v) => Due(v)' \/ (mpc = "assign" /\ mi = v)
      BY <3>1, KeptRest DEF Due
    <3>3. mpc = "assign" => ~Due(mi)
      BY <2>17 DEF Fail, Reaped, Due, Resting, Place, Asking
    <3> QED BY <2>2, <2>17, <3>1, <3>2, <3>3, KeptRest DEF Fail, Unasked, SomebodyAsks
  <2> QED BY <2>4, <2>5, <2>6, <2>7, <2>8, <2>9, <2>10, <2>11, <2>12, <2>13, <2>14,
             <2>15, <2>16, <2>17 DEF MasterStep
<1> QED BY <1>2, <1>4, <1>5 DEF Ends, Unasked, SomebodyAsks

\* The end of the main loop comes when it should, from the start on.
LEMMA EndsAlways == Spec => []Ends
<1>1. Init => Ends
  <2> SUFFICES ASSUME Init PROVE Ends
    OBVIOUS
  <2>1. \A w \in Workers : Fresh(w)
    BY DEF Init, Fresh, Quiet
  <2> QED BY <2>1 DEF Init, Ends, EndsWhenSolved, Unasked, Somebody, SomebodyAsks
<1>2. Base /\ Ends /\ [Next]_vars => Ends'
  <2> SUFFICES ASSUME Base, Ends, [Next]_vars PROVE Ends'
    OBVIOUS
  <2>1. CASE UNCHANGED vars
    <3>1. \A v \in Workers : Kept(v) /\ (Due(v) => Due(v)')
      BY <2>1 DEF vars, Kept, Due, Resting, Quiet, AtTop, Ahead
    <3> QED BY <2>1, <3>1, KeptRest
               DEF vars, Ends, EndsWhenSolved, Unasked, Somebody, SomebodyAsks, NoMore
  <2> QED BY <2>1, MasterEnds, WorkerEnds DEF Next
<1> QED BY <1>1, <1>2, BaseAlways, PTL DEF Spec

\* master() leaves its main loop only when every problem has been created and solved,
\* whatever no_more_problems[], sigchld_flag[] and current_problems[] held when it started.
THEOREM EveryProblemIsSolved == Spec => []EndsWhenSolved
<1>1. Ends => EndsWhenSolved
  BY DEF Ends
<1> QED BY <1>1, EndsAlways, PTL

-----------------------------------------------------------------------------
(* Builds that can still read a problem that has been freed *)

\* The worker is at work on the current problem, or has been told to stop.
Bound(w, prob) ==
    \/ current_problems[w] = NULL /\ (got_cncl[w] \/ "SIGHUP" \in sigs[w])
    \/ current_problems[w] \notin {NULL, WILD} /\ prob = heap[current_problem]

CancelsOf(w) ==
    /\ current_problems[w] \in {NULL, WILD, current_problem}
    /\ problem_pipe[w] # <<>> => Bound(w, Head(problem_pipe[w]))
    /\ wpc[w] = "solve" => Bound(w, solving[w])
    /\ proc[w] = "running" => sigs[w] = {}
Cancels ==
    /\ crashed => ~Sound
    /\ intact => \A w \in Workers : CancelsOf(w)

LEMMA WorkerCancels ==
  ASSUME Base, Cancels, NEW w \in Workers, WorkerStep(w)
  PROVE  Cancels'
<1> SUFFICES ASSUME intact, NEW v \in Workers PROVE CancelsOf(v)'
  BY WorkerMoves DEF Base, Cancels, Sound
<1> USE DEF Base, Worker, CancelsOf, Bound
<1>1. CancelsOf(v) /\ CancelsOf(w)
  BY DEF Cancels
<1>2. UNCHANGED masterVars
  BY WorkerMoves
<1>3. CASE v # w
  <2>1. UNCHANGED <<problem_pipe[v], wpc[v], solving[v], proc[v]>>
    <3>1. Kept(v)
      BY <1>3, WorkerMoves
    <3> QED BY <3>1 DEF Kept
  <2>2. UNCHANGED <<got_cncl[v], sigs[v]>>
    BY <1>3 DEF WorkerStep, InstallHandlers, StopSelf, Wake, Terminate, ReadProblem,
                Solve, Abandon, WriteResult, TypeOK
  <2> QED BY <1>1, <1>2, <2>1, <2>2
<1>4. CASE v = w
  <2> USE <1>4
  <2>1. CASE InstallHandlers(w) \/ StopSelf(w) \/ Terminate(w) \/ Solve(w) \/ Abandon(w)
    <3>1. UNCHANGED <<problem_pipe, got_cncl, sigs>>
      BY <2>1 DEF InstallHandlers, StopSelf, Terminate, Solve, Abandon, flagVars, pipeVars
    <3>2. wpc'[w] # "solve"
      BY <2>1 DEF InstallHandlers, StopSelf, Terminate, Solve, Abandon, TypeOK
    <3>3. proc'[w] = "running" => proc[w] = "running"
      BY <2>1 DEF InstallHandlers, StopSelf, Terminate, Solve, Abandon, NoReport, Report,
                  TypeOK
    <3> QED BY <1>1, <1>2, <3>1, <3>2, <3>3
  <2>2. CASE Wake(w)
    <3>1. wpc[w] # "solve"
      BY <2>2 DEF Wake, Phases, Phase, Fresh, Slain, Resting, Working, Given, Solving,
                  Answered, Finished, Told, Gone, Killed, Missed, AtTop
    <3>2. /\ UNCHANGED <<problem_pipe, wpc>>
          /\ got_cncl'[w] = (got_cncl[w] \/ sigs[w] # {})
          /\ sigs'[w] = {}
      BY <2>2 DEF Wake, TypeOK
    <3> QED BY <1>1, <1>2, <3>1, <3>2
  <2>3. CASE ReadProblem(w)
    <3>1. /\ solving'[w] = Head(problem_pipe[w])
          /\ problem_pipe[w] # <<>>
          /\ problem_pipe'[w] = Tail(problem_pipe[w])
          /\ UNCHANGED <<got_cncl, sigs, proc>>
      BY <2>3 DEF ReadProblem, NoReport, TypeOK
    <3>2. Given(w)
      BY <2>3 DEF ReadProblem, Phases, Phase, Fresh, Slain, Resting, Working, Solving,
                  Answered, Finished, Told, Gone, Killed, Missed
    <3>3. \A prob \in Problem : Tail(<<prob>>) = <<>>
      OBVIOUS
    <3>4. Tail(problem_pipe[w]) = <<>>
      BY <3>2, <3>3 DEF Given
    <3> QED BY <1>1, <1>2, <3>1, <3>4
  <2>4. CASE WriteResult(w)
    <3>1. problem_pipe[w] = <<>>
      BY <2>4 DEF WriteResult, Phases, Phase, Fresh, Slain, Resting, Working, Given, Solving,
                  Answered, Finished, Told, Gone, Killed, Missed, AtTop
    <3>2. wpc'[w] = "done" /\ UNCHANGED <<problem_pipe, sigs, proc>>
      BY <2>4 DEF WriteResult, NoReport, TypeOK
    <3> QED BY <1>1, <1>2, <3>1, <3>2
  <2> QED BY <2>1, <2>2, <2>3, <2>4 DEF WorkerStep
<1> QED BY <1>3, <1>4

\* The first good result cancels whoever was given the same problem, and in such a
\* build it is never a result for another one.
LEMMA SolvedIsCancelled ==
  ASSUME Base, Cancels, intact, LookAtStopped
  PROVE  \A w \in Workers \ {mi} : CancelsOf(w)'
<1> USE DEF Base
<1>1. mi \in Workers /\ UNCHANGED <<wpc, solving, problem_pipe, heap>>
  BY StoppedKeeps
<1>2. \A w \in Workers : CancelsOf(w)
  BY DEF Cancels
<1>3. current_problems[mi] \in {WILD, current_problem} /\ current_problems[mi] # NULL
  BY <1>1, <1>2 DEF LookAtStopped, CancelsOf
<1>4. ASSUME NEW hit \in SUBSET Unset,
             current_problems[mi] = current_problem, current_problem' = NULL,
             Cancel(ToCancel(current_problem) \cup hit),
             current_problems' = [w \in Workers |->
                IF w \in ToCancel(current_problem) \cup hit \cup {mi} THEN NULL
                ELSE current_problems[w]],
             NEW w \in Workers \ {mi}
      PROVE  CancelsOf(w)'
  <2> DEFINE S == ToCancel(current_problem) \cup hit
  <2>1. current_problem # WILD /\ current_problem # NULL
    BY <1>3, <1>4 DEF TypeOK
  <2>2. w \in S => current_problems'[w] = NULL
    BY <1>4
  <2>3. w \notin S => current_problems'[w] = current_problems[w]
    BY <1>4
  <2>4. current_problems[w] = current_problem => w \in S
    BY <2>1 DEF ToCancel
  <2>5. current_problems'[w] \in {NULL, WILD}
    BY <1>2, <2>2, <2>3, <2>4 DEF CancelsOf
  <2> HIDE DEF S
  <2>6. Cancel(S)
    BY <1>4 DEF S
  <2>7. proc'[w] = "running" => sigs'[w] = {}
    BY <1>2, <2>6 DEF Cancel, CancelsOf
  <2>8. got_cncl[w] \/ "SIGHUP" \in sigs[w] => got_cncl'[w] \/ "SIGHUP" \in sigs'[w]
    BY <2>6 DEF Cancel
  <2>9. ASSUME NEW prob, Bound(w, prob), wpc[w] # "start"
        PROVE  current_problems'[w] = NULL /\ (got_cncl'[w] \/ "SIGHUP" \in sigs'[w])
    <3>1. CASE current_problems[w] = NULL
      BY <2>2, <2>3, <2>8, <2>9, <3>1 DEF Bound
    <3>2. CASE current_problems[w] # NULL
      <4>1. w \in S
        BY <1>2, <2>4, <2>9, <3>2 DEF Bound, CancelsOf
      <4> QED BY <2>2, <2>6, <2>9, <4>1 DEF Cancel
    <3> QED BY <3>1, <3>2
  <2>10. problem_pipe[w] # <<>> \/ wpc[w] = "solve" => wpc[w] # "start"
    <3>1. Phase(w) /\ ~ending
      BY StoppedKeeps DEF Phases
    <3> QED BY <3>1 DEF Phase, Fresh, Slain, Resting, Working, Finished, Given, Solving,
                        Answered, AtTop
  <2>11. problem_pipe[w] # <<>> \/ wpc[w] = "solve"
           => current_problems'[w] = NULL /\ (got_cncl'[w] \/ "SIGHUP" \in sigs'[w])
    BY <1>2, <2>9, <2>10 DEF CancelsOf
  <2> QED BY <1>1, <2>5, <2>7, <2>11 DEF CancelsOf, Bound
<1>5. CASE /\ \/ current_problems' = [current_problems EXCEPT ![mi] = NULL]
              \/ UNCHANGED current_problems
           /\ UNCHANGED <<current_problem, procVars>>
  <2>1. \A w \in Workers \ {mi} : current_problems'[w] = current_problems[w]
    BY <1>5 DEF TypeOK
  <2> QED BY <1>1, <1>2, <1>5, <2>1 DEF CancelsOf, Bound
<1>6. \/ /\ current_problems[mi] = current_problem /\ current_problem' = NULL
         /\ \E hit \in SUBSET Unset :
               /\ Cancel(ToCancel(current_problem) \cup hit)
               /\ current_problems' = [w \in Workers |->
                     IF w \in ToCancel(current_problem) \cup hit \cup {mi} THEN NULL
                     ELSE current_problems[w]]
      \/ /\ \/ current_problems' = [current_problems EXCEPT ![mi] = NULL]
            \/ UNCHANGED current_problems
         /\ UNCHANGED <<current_problem, procVars>>
  BY DEF LookAtStopped
<1> QED BY <1>4, <1>5, <1>6

\* The master crashes only by a problem that has been freed, or a pointer that nobody
\* has stored.
LEMMA CrashIsUnsound ==
  ASSUME Base, Cancels, LookAtStopped, crashed'
  PROVE  ~Sound /\ UNCHANGED current_problems
<1> USE DEF Base
<1>1. ~crashed /\ mi \in Workers
  BY StoppedKeeps DEF LookAtStopped, LookAt, Master, Running
<1>2. /\ UNCHANGED current_problems
      /\ current_problems[mi] # NULL
      /\ current_problems[mi] # current_problem \/ Unset # {}
  BY <1>1 DEF LookAtStopped
<1>3. CASE Unset # {}
  BY <1>2, <1>3 DEF Unset, Sound
<1>4. CASE current_problems[mi] # current_problem
  BY <1>1, <1>2, <1>4 DEF Cancels, CancelsOf, Sound
<1> QED BY <1>2, <1>3, <1>4

LEMMA MasterCancels ==
  ASSUME Base, Cancels, MasterStep
  PROVE  Cancels'
<1> USE DEF Base, Master
<1>1. intact' = intact
  BY DEF MasterStep, Suspend, Waitpid, HandlerReturns, Skip, LookAtRunning, LookAtStarted,
         LookAtIdle, LookAtCanceled, LookAtStopped, GiveCurrent, GiveNew, Give, GiveNone,
         EndPass, EndWork, Fail, CountExited
<1>11. crashed' => ~Sound'
  <2>1. crashed' => LookAtStopped
    BY DEF MasterStep, Running, Suspend, Waitpid, HandlerReturns, Skip, LookAt, LookAtRunning,
           LookAtStarted, LookAtIdle, LookAtCanceled, GiveCurrent, GiveNew, Give, GiveNone,
           EndPass, EndWork, Fail, CountExited
  <2> QED BY <1>1, <2>1, CrashIsUnsound DEF Sound
<1> SUFFICES ASSUME intact PROVE \A w \in Workers : CancelsOf(w)'
  BY <1>1, <1>11 DEF Cancels
<1>2. \A w \in Workers : CancelsOf(w)
  BY DEF Cancels
<1>3. ASSUME NEW w \in Workers, Resting(w)',
             current_problems'[w] \in {NULL, WILD, current_problem'}
      PROVE  CancelsOf(w)'
  BY <1>3 DEF Resting, AtTop, CancelsOf
<1>4. CASE \/ Suspend \/ (\E w \in Workers : Waitpid(w)) \/ HandlerReturns \/ Skip
           \/ LookAtRunning \/ LookAtStarted \/ LookAtIdle \/ LookAtCanceled
           \/ EndPass \/ Fail \/ CountExited
  <2>1. UNCHANGED <<crashed, current_problems, current_problem, heap, problem_pipe,
                    got_cncl, sigs, wpc, solving, proc>>
    BY <1>4 DEF Suspend, Waitpid, HandlerReturns, Skip, LookAt, LookAtRunning,
                LookAtStarted, LookAtIdle, LookAtCanceled, EndPass, Fail, CountExited
  <2> QED BY <1>2, <2>1 DEF CancelsOf, Bound
<1>5. CASE LookAtStopped
  <2>1. mi \in Workers /\ UNCHANGED mi /\ Resting(mi)'
    BY <1>5, StoppedKeeps
  <2>2. current_problems'[mi] \in {NULL, WILD, current_problem'}
    <3>1. \/ current_problems'[mi] = NULL
          \/ UNCHANGED <<current_problems, current_problem>>
      <4>1. CASE \E S \in SUBSET Unset :
                    current_problems' = [w \in Workers |->
                        IF w \in ToCancel(current_problems[mi]) \cup S \cup {mi} THEN NULL
                                                               ELSE current_problems[w]]
        BY <2>1, <4>1
      <4>2. CASE current_problems' = [current_problems EXCEPT ![mi] = NULL]
        BY <2>1, <4>2 DEF TypeOK
      <4> QED BY <1>5, <4>1, <4>2 DEF LookAtStopped
    <3> QED BY <1>2, <2>1, <3>1 DEF CancelsOf
  <2>3. CancelsOf(mi)'
    BY <1>3, <2>1, <2>2
  <2> QED BY <1>5, <2>1, <2>3, SolvedIsCancelled
<1>6. ASSUME NEW a \in Addrs, NEW prob \in Problem, Give(a, prob), current_problem' = a,
             heap'[a] = prob, UNCHANGED heap \/ current_problem = NULL,
             current_problem \in {a, NULL}
      PROVE  \A w \in Workers : CancelsOf(w)'
  <2>1. PICK m \in Workers : m = mi /\ Resting(m)
    BY <1>6 DEF Give, Place, Asking, Slain, Reaped, TypeOK
  <2>2. CancelsOf(m)'
    <3>1. problem_pipe'[m] = <<prob>>
      BY <1>6, <2>1 DEF Give, Resting, TypeOK
    <3>2. /\ current_problems'[m] = a
          /\ proc'[m] = "waking"
          /\ wpc'[m] = "top"
      BY <1>6, <2>1 DEF Give, Continue, Resting, AtTop, TypeOK
    <3>3. Head(problem_pipe'[m]) = prob
      BY <3>1
    <3> QED BY <1>6, <3>2, <3>3 DEF CancelsOf, Bound
  <2>3. ASSUME NEW v \in Workers \ {m} PROVE CancelsOf(v)'
    <3>1. /\ UNCHANGED <<current_problems[v], problem_pipe[v], proc[v]>>
          /\ UNCHANGED <<got_cncl, sigs, wpc, solving>>
      BY <1>6, <2>1 DEF Give, Continue, TypeOK
    <3>2. CancelsOf(v)
      BY <1>2
    <3>3. current_problems[v] \notin {NULL, WILD}
            => heap'[current_problem'] = heap[current_problem]
      BY <1>6, <3>2 DEF CancelsOf
    <3> QED BY <1>6, <3>1, <3>2, <3>3 DEF CancelsOf, Bound
  <2> QED BY <2>2, <2>3
<1>7. CASE GiveCurrent
  BY <1>6, <1>7 DEF GiveCurrent, Place, TypeOK
<1>8. CASE GiveNew
  <2>1. PICK a \in Addrs, prob \in Problem : /\ current_problem' = a
                                            /\ heap' = [heap EXCEPT ![a] = prob]
                                            /\ Give(a, prob)
    BY <1>8, NewProblem
  <2> QED BY <1>6, <1>8, <2>1 DEF GiveNew, TypeOK
<1>9. CASE GiveNone
  <2>1. PICK m \in Workers : m = mi /\ Asking(m)
    BY <1>9 DEF GiveNone, Place, TypeOK
  <2>2. UNCHANGED <<crashed, current_problem, heap, problem_pipe, got_cncl, sigs, wpc,
                    solving, proc>>
    BY <1>9 DEF GiveNone
  <2>3. CancelsOf(m)'
    BY <1>9, <2>1, <2>2 DEF GiveNone, Asking, Slain, Resting, AtTop, CancelsOf, TypeOK
  <2>4. ASSUME NEW v \in Workers \ {m} PROVE CancelsOf(v)'
    BY <1>2, <1>9, <2>1, <2>2 DEF GiveNone, CancelsOf, Bound, TypeOK
  <2> QED BY <1>2, <2>2, <2>3, <2>4
<1>10. CASE EndWork
  <2>1. UNCHANGED <<crashed, current_problems, current_problem, heap, problem_pipe, wpc,
                    solving>>
    BY <1>10 DEF EndWork, TerminateAll
  <2>2. ASSUME NEW w \in Workers PROVE CancelsOf(w)'
    <3>1. /\ got_cncl[w] \/ "SIGHUP" \in sigs[w] => got_cncl'[w] \/ "SIGHUP" \in sigs'[w]
          /\ proc'[w] = "running" => proc[w] = "running" /\ sigs'[w] = sigs[w]
      BY <1>10, <2>2 DEF EndWork, TerminateAll
    <3> QED BY <1>2, <2>1, <3>1 DEF CancelsOf, Bound
  <2> QED BY <1>2, <2>1, <2>2
<1> QED BY <1>4, <1>5, <1>7, <1>8, <1>9, <1>10 DEF MasterStep

LEMMA CancelsAlways == Spec => []Cancels
<1>1. Init => Cancels
  BY DEF Init, Cancels, CancelsOf
<1>2. Base /\ Cancels /\ [Next]_vars => Cancels'
  <2> SUFFICES ASSUME Base, Cancels, [Next]_vars PROVE Cancels'
    OBVIOUS
  <2>1. CASE UNCHANGED vars
    BY <2>1 DEF vars, Cancels, CancelsOf, Bound, Sound
  <2> QED BY <2>1, MasterCancels, WorkerCancels DEF Next
<1> QED BY <1>1, <1>2, BaseAlways, PTL DEF Spec

\* In a build in which free() leaves a problem as it was, no pointer to a freed problem is
\* left when the turn that freed it is over, and post_result() is called for the current
\* problem only: every such pointer was cleared when the problem was solved.  What else
\* current_problems[] holds nobody has stored, and the worker has no problem yet.
THEOREM PointersAreCurrent == Spec => []NoStalePointers
<1>1. Base /\ Cancels => NoStalePointers
  <2> SUFFICES ASSUME Base, Cancels, intact PROVE NoStalePointers
    BY DEF NoStalePointers
  <2>1. crashed => \E w \in Workers : current_problems[w] = WILD
    BY DEF Cancels, Sound
  <2>2. ASSUME NEW w \in Workers, current_problems[w] = WILD
        PROVE  ending \/ worker_states[w] \in {"started", "idle"}
    BY <2>2 DEF Base, Phases, Phase, Fresh, Slain, Resting, Working, Finished
  <2>3. \A w \in Workers : current_problems[w] \in {NULL, WILD, current_problem}
    BY DEF Cancels, CancelsOf
  <2> QED BY <2>1, <2>2, <2>3 DEF NoStalePointers
<1> QED BY <1>1, BaseAlways, CancelsAlways, PTL

\* In such a build, whoever still works on a problem that another one has solved
\* has been sent SIGHUP, and its flag is set.
THEOREM SolversAreCanceled == Spec => []CancelReachesSolvers
<1>1. Base /\ Cancels => CancelReachesSolvers
  <2> SUFFICES ASSUME Base, Cancels, intact, NEW w \in Workers, wpc[w] = "solve",
                      current_problem = NULL \/ heap[current_problem].id # solving[w].id
               PROVE  got_cncl[w]
    BY DEF CancelReachesSolvers
  <2>1. proc[w] = "running"
    BY DEF Base, Phases, Phase, Fresh, Slain, Resting, Working, Given, Solving, Answered,
           Finished, Told, Gone, Killed, Missed, AtTop
  <2>2. CancelsOf(w)
    BY DEF Cancels
  <2> QED BY <2>1, <2>2 DEF CancelsOf, Bound
<1> QED BY <1>1, BaseAlways, CancelsAlways, PTL

-----------------------------------------------------------------------------
(* The solver does what the abstract dispatcher does *)

\* Only a miner gives up.
Honest == \A w \in Workers : wpc[w] = "failed" => solving[w].type = "miner"

\* The master leaves to a worker what the worker is doing.
LEMMA MasterLeavesWork ==
  ASSUME MasterStep
  PROVE  ~crashed /\ UNCHANGED <<wpc, solving, intact>>
  BY DEF MasterStep, Master, Running, Suspend, Waitpid, HandlerReturns, Skip, LookAt,
         LookAtRunning, LookAtStarted, LookAtIdle, LookAtCanceled, LookAtStopped, Give,
         GiveCurrent, GiveNew, GiveNone, EndPass, EndWork, TerminateAll, Fail, CountExited

\* A pointer that has been stored, or was NULL, stays one.
LEMMA SoundStays ==
  ASSUME TypeOK, [Next]_vars
  PROVE  Sound' \in {Sound, TRUE}
<1>1. UNCHANGED intact
  <2>1. ASSUME NEW w \in Workers, WorkerStep(w) PROVE UNCHANGED masterVars
    BY <2>1, WorkerMoves
  <2> QED BY <2>1, MasterLeavesWork DEF Next, vars
<1>2. ASSUME NEW w \in Workers, current_problems[w] # WILD PROVE current_problems'[w] # WILD
  <2>1. CASE LookAtStopped
    <3>1. \/ \E S : current_problems' = [v \in Workers |->
                                       IF v \in S THEN NULL ELSE current_problems[v]]
          \/ current_problems' = [current_problems EXCEPT ![mi] = NULL]
          \/ UNCHANGED current_problems
      BY <2>1, CancelSet
    <3> QED BY <1>2, <3>1 DEF TypeOK
  <2>2. ASSUME NEW p \in Addrs, NEW prob, Give(p, prob) PROVE current_problems'[w] # WILD
    BY <1>2, <2>2 DEF Give, TypeOK
  <2>3. CASE GiveCurrent
    BY <2>2, <2>3 DEF GiveCurrent, TypeOK
  <2>4. CASE GiveNew
    BY <2>2, <2>4 DEF GiveNew
  <2>5. CASE GiveNone
    BY <1>2, <2>5 DEF GiveNone, TypeOK
  <2>6. ASSUME NEW v \in Workers, WorkerStep(v) PROVE UNCHANGED current_problems
    BY <2>6, WorkerMoves
  <2> QED BY <1>2, <2>1, <2>3, <2>4, <2>5, <2>6
          DEF Next, MasterStep, Suspend, Waitpid, HandlerReturns, Skip, LookAtRunning,
              LookAtStarted, LookAtIdle, LookAtCanceled, EndPass, EndWork, Fail,
              CountExited, vars
<1>3. Sound => Sound'
  BY <1>1, <1>2 DEF Sound
<1> QED BY <1>3 DEF Sound

\* A miner that has given up does not become another solver before it answers.
LEMMA HonestStep ==
  ASSUME TypeOK, Honest, [Next]_vars
  PROVE  Honest'
<1>1. CASE MasterStep
  BY <1>1, MasterLeavesWork DEF Honest
<1>2. ASSUME NEW w \in Workers, WorkerStep(w) PROVE Honest'
  <2>1. \A v \in Workers \ {w} : wpc'[v] = wpc[v] /\ solving'[v] = solving[v]
    <3>1. \/ UNCHANGED wpc
          \/ \E from, to : Worker(w, from, to)
      BY <1>2 DEF WorkerStep, InstallHandlers, StopSelf, Wake, Terminate, ReadProblem,
                  Solve, Abandon, WriteResult
    <3>2. \A v \in Workers \ {w} : wpc'[v] = wpc[v]
      BY <3>1 DEF TypeOK, Worker
    <3>3. \/ UNCHANGED solving
          \/ \E prob : solving' = [solving EXCEPT ![w] = prob]
      BY <1>2 DEF WorkerStep, InstallHandlers, StopSelf, Wake, Terminate, ReadProblem,
                  Solve, Abandon, WriteResult
    <3>4. \A v \in Workers \ {w} : solving'[v] = solving[v]
      BY <3>3 DEF TypeOK
    <3> QED BY <3>2, <3>4
  <2>2. wpc'[w] = "failed" => /\ solving'[w] = solving[w]
                              /\ wpc[w] = "failed" \/ solving[w].type = "miner"
    BY <1>2 DEF TypeOK, WorkerStep, Worker, InstallHandlers, StopSelf, Wake, Terminate,
                ReadProblem, Solve, Abandon, WriteResult
  <2> QED BY <2>1, <2>2 DEF Honest
<1>3. CASE UNCHANGED vars
  BY <1>3 DEF vars, Honest
<1> QED BY <1>1, <1>2, <1>3 DEF Next

\* A worker has a problem to solve only while it works on it.
LEMMA TaskOf ==
  ASSUME TypeOK, NEW w \in Workers, Phase(w)
  PROVE  /\ ~Working(w) \/ ending => wpc[w] \notin {"solve", "solved", "failed"}
         /\ ~ending /\ ~Working(w) => Task(w) = {}
         /\ Resting(w) => Task(w) = {} /\ problem_pipe[w] = <<>>
         /\ wpc[w] \in {"solve", "solved", "failed"}
               => /\ solving[w] \in Problem /\ problem_pipe[w] = <<>>
                  /\ Task(w) = {solving[w]} /\ ~ending
  BY DEF Phase, Fresh, Slain, Resting, Working, Given, Solving, Answered, Finished, Told, Gone,
         Killed, Missed, AtTop, Task

\* Task is all the dispatcher sees of a worker but its answers.
LEMMA SameTask ==
  ASSUME NEW w \in Workers, problem_pipe'[w] = problem_pipe[w], solving'[w] = solving[w],
         wpc'[w] \in {"solve", "solved", "failed"} <=> wpc[w] \in {"solve", "solved", "failed"}
  PROVE  Task(w)' = Task(w)
  BY DEF Task

\* A step that changes the task of one worker changes the function of tasks there.
LEMMA TasksFunction ==
  ASSUME NEW w \in Workers
  PROVE  /\ Tasks[w] = Task(w) /\ Tasks'[w] = Task(w)'
         /\ (\A v \in Workers \ {w} : Task(v)' = Task(v))
               => \A S : Task(w)' = S => Tasks' = [Tasks EXCEPT ![w] = S]
<1>1. Tasks[w] = Task(w) /\ Tasks'[w] = Task(w)'
  BY DEF Tasks
<1>2. ASSUME \A v \in Workers \ {w} : Task(v)' = Task(v), NEW S, Task(w)' = S
      PROVE  Tasks' = [Tasks EXCEPT ![w] = S]
  BY <1>2 DEF Tasks
<1> QED BY <1>1, <1>2

\* One that changes none leaves it.
LEMMA SameTasks ==
  ASSUME \A w \in Workers : Task(w)' = Task(w)
  PROVE  Tasks' = Tasks
  BY DEF Tasks

\* What the dispatcher does not see, but that it may be sound from then on.
LEMMA Unseen ==
  ASSUME \A w \in Workers : Task(w)' = Task(w), Sound' \in {Sound, TRUE},
         UNCHANGED <<problems_remaining, current_problem, heap, result_pipe, ending,
                     crashed>>,
         ~crashed \/ UNCHANGED Sound
  PROVE  [Work!Next]_(Work!vars)
<1>1. UNCHANGED <<Posed, Open, Tasks, result_pipe, ending, crashed>>
  BY SameTasks DEF Posed, Open
<1>2. CASE UNCHANGED Sound
  BY <1>1, <1>2 DEF Work!vars
<1>3. CASE ~crashed /\ Sound'
  BY <1>1, <1>3 DEF Work!Settle, Work!Next
<1> QED BY <1>2, <1>3

\* A worker reads the problem it was given, answers it, or does nothing the dispatcher
\* sees.
LEMMA WorkerDispatches ==
  ASSUME Base, Honest, NEW w \in Workers, WorkerStep(w)
  PROVE  [Work!Next]_(Work!vars)
<1>0. Sound' \in {Sound, TRUE}
  BY SoundStays DEF Next, Base
<1>1. TypeOK /\ Phase(w) /\ UNCHANGED masterVars /\ ~crashed
  BY DEF Base, Phases, WorkerStep, Worker, Running, InstallHandlers, StopSelf, Wake,
         Terminate, ReadProblem, Solve, Abandon, WriteResult
<1>2. \A v \in Workers \ {w} : Task(v)' = Task(v)
  <2> SUFFICES ASSUME NEW v \in Workers \ {w} PROVE Task(v)' = Task(v)
    OBVIOUS
  <2>1. wpc'[v] = wpc[v] /\ solving'[v] = solving[v] /\ problem_pipe'[v] = problem_pipe[v]
    BY <1>1 DEF TypeOK, WorkerStep, Worker, InstallHandlers, StopSelf, Wake, Terminate,
                ReadProblem, Solve, Abandon, WriteResult
  <2> QED BY <2>1, SameTask
<1>3. CASE \/ InstallHandlers(w) \/ StopSelf(w) \/ Wake(w) \/ Terminate(w)
           \/ Solve(w) \/ Abandon(w)
  <2>1. UNCHANGED <<result_pipe, problem_pipe, solving>>
    BY <1>3 DEF InstallHandlers, StopSelf, Wake, Terminate, Solve, Abandon
  <2>2. wpc'[w] \in {"solve", "solved", "failed"} <=> wpc[w] \in {"solve", "solved", "failed"}
    BY <1>1, <1>3 DEF TypeOK, Worker, InstallHandlers, StopSelf, Wake, Terminate, Solve, Abandon
  <2>3. \A v \in Workers : Task(v)' = Task(v)
    BY <1>2, <2>1, <2>2, SameTask
  <2> QED BY <1>0, <1>1, <2>1, <2>3, Unseen
<1>4. CASE ReadProblem(w)
  <2>1. /\ wpc[w] = "top" /\ wpc'[w] = "solve" /\ proc[w] = "running"
        /\ ~got_term[w] /\ problem_pipe[w] # <<>>
        /\ solving'[w] = Head(problem_pipe[w]) /\ problem_pipe'[w] = Tail(problem_pipe[w])
        /\ UNCHANGED result_pipe
    BY <1>1, <1>4 DEF ReadProblem, Worker, TypeOK
  <2>2. PICK prob \in Problem : problem_pipe[w] = <<prob>>
    BY <1>1, <2>1 DEF Phase, Fresh, Slain, Resting, Working, Given, Solving, Answered, Finished,
                      Told, Gone, Killed, Missed, AtTop
  <2>3. Head(problem_pipe[w]) = prob /\ Tail(problem_pipe[w]) = <<>>
    BY <2>2
  <2>4. Task(w)' = Task(w)
    BY <2>1, <2>3 DEF Task
  <2> QED BY <1>0, <1>1, <1>2, <2>1, <2>4, Unseen
<1>5. CASE WriteResult(w)
  <2>1. PICK from \in {"solved", "failed"} :
           /\ wpc[w] = from /\ wpc'[w] = "done" /\ problem_pipe' = problem_pipe
           /\ result_pipe' = [result_pipe EXCEPT ![w] =
                 Append(@, [id |-> solving[w].id, failed |-> from = "failed"])]
    BY <1>1, <1>5 DEF WriteResult, Worker, TypeOK
  <2>2. /\ Task(w) = {solving[w]} /\ problem_pipe[w] = <<>>
    BY <1>1, <2>1, TaskOf
  <2>3. Task(w)' = {}
    BY <2>1, <2>2 DEF Task
  <2>4. Tasks[w] = {solving[w]} /\ Tasks' = [Tasks EXCEPT ![w] = {}]
    BY <1>2, <2>2, <2>3, TasksFunction
  <2>5. (from = "failed") \in BOOLEAN /\ (from = "failed" => solving[w].type = "miner")
    BY <2>1 DEF Honest
  <2>6. UNCHANGED <<Posed, Open, ending, crashed, intact>>
    BY <1>1 DEF Posed, Open
  <2>7. Work!Answer(w)
    BY <2>1, <2>4, <2>5, <2>6 DEF Work!Answer
  <2> QED BY <1>0, <1>1, <2>6, <2>7 DEF Work!Next
<1> QED BY <1>3, <1>4, <1>5 DEF WorkerStep

\* The master accepts or rejects what a stopped worker has answered.
LEMMA AnswerRead ==
  ASSUME Base, Cancels, LookAtStopped
  PROVE  Work!Next
<1> DEFINE p == current_problems[mi]
           res == Head(result_pipe[mi])
<1>1. /\ mi \in Workers /\ worker_states[mi] = "stopped" /\ ~ending /\ ~crashed
      /\ p # NULL /\ result_pipe[mi] # <<>>
      /\ result_pipe' = [result_pipe EXCEPT ![mi] = <<>>]
      /\ UNCHANGED <<ending, problem_pipe, problems_remaining, heap, wpc, solving>>
      /\ Sound' \in {Sound, TRUE}
  BY LookedAt, SoundStays DEF LookAtStopped, LookAt, Master, Running, Next, MasterStep, Base
<1>2. Tasks[mi] = {} /\ Tasks' = Tasks
  <2>1. ~Working(mi) /\ Phase(mi) /\ TypeOK
    BY <1>1 DEF Base, Phases, Working
  <2>2. Task(mi) = {}
    BY <1>1, <2>1, TaskOf
  <2>3. \A w \in Workers : Task(w)' = Task(w)
    BY <1>1, SameTask
  <2> QED BY <1>1, <2>2, <2>3, SameTasks, TasksFunction
<1>3. Work!Read(mi)
  BY <1>1, <1>2 DEF Work!Read, Posed
<1>4. CASE /\ p = current_problem /\ Solves(res, heap[p])
           /\ current_problem' = NULL /\ UNCHANGED crashed
  <2>1. Open = {heap[p]} /\ Open' = {}
    BY <1>1, <1>4 DEF Open
  <2>2. Work!Accept(mi)
    BY <1>3, <1>4, <2>1 DEF Work!Accept, Work!Solves, Solves
  <2> QED BY <1>1, <2>2 DEF Work!Next
<1>5. CASE /\ res.failed \/ (p = current_problem /\ ~Solves(res, heap[p]))
           /\ UNCHANGED <<current_problem, crashed>>
  <2>1. UNCHANGED Open
    BY <1>1, <1>5 DEF Open
  <2>2. \A prob \in Open : ~Work!Solves(res, prob)
    BY <1>1, <1>5 DEF Open, Work!Solves, Solves
  <2>3. Work!Reject(mi)
    BY <1>3, <1>5, <2>1, <2>2 DEF Work!Reject
  <2> QED BY <1>1, <2>3 DEF Work!Next
<1>6. CASE crashed' = TRUE /\ UNCHANGED current_problem
  <2>1. UNCHANGED Open
    BY <1>1, <1>6 DEF Open
  <2>2. ~Sound
    BY <1>6, CrashIsUnsound
  <2>3. Work!Break(mi)
    BY <1>3, <1>6, <2>1, <2>2 DEF Work!Break
  <2> QED BY <1>1, <2>3 DEF Work!Next
<1>7. \/ p = current_problem /\ Solves(res, heap[p]) /\ current_problem' = NULL
         /\ UNCHANGED crashed
      \/ /\ res.failed \/ (p = current_problem /\ ~Solves(res, heap[p]))
         /\ UNCHANGED <<current_problem, crashed>>
      \/ crashed' = TRUE /\ UNCHANGED current_problem
  BY Zenon DEF LookAtStopped
<1> QED BY Zenon, <1>4, <1>5, <1>6, <1>7

\* A worker that rests is given a problem and nobody else is.
LEMMA GivesOne ==
  ASSUME Base, NEW p, NEW prob \in Problem, Give(p, prob)
  PROVE  /\ \E w \in Workers : Work!Give(w, prob)
         /\ ~crashed
<1>1. PICK w \in Workers : w = mi /\ Resting(w) /\ ~ending /\ TypeOK /\ Phase(w)
  <2>1. mpc = "assign" /\ TypeOK /\ Place
    BY DEF Base, Give, Master
  <2>2. mi < workers /\ mi \in 0 .. workers
    BY <2>1 DEF Place, TypeOK
  <2>3. mi \in Workers
    BY <2>2
  <2>4. Resting(mi)
    BY <2>1 DEF Place, Asking, Slain, Reaped, Give
  <2> QED BY <2>1, <2>3, <2>4 DEF Base, Place, Phases
<1>2. /\ ~crashed /\ UNCHANGED <<ending, crashed, intact, wpc, solving, result_pipe>>
      /\ problem_pipe' = [problem_pipe EXCEPT ![w] = Append(@, prob)]
  BY <1>1 DEF Give, Master, Running
<1>3. Task(w) = {} /\ problem_pipe[w] = <<>>
  BY <1>1, TaskOf
<1>4. Task(w)' = {prob}
  <2>1. problem_pipe'[w] = Append(problem_pipe[w], prob)
    BY <1>1, <1>2 DEF TypeOK
  <2>2. Append(<<>>, prob) # <<>> /\ Head(Append(<<>>, prob)) = prob
    OBVIOUS
  <2> QED BY <1>3, <2>1, <2>2 DEF Task
<1>5. \A v \in Workers \ {w} : Task(v)' = Task(v)
  <2> SUFFICES ASSUME NEW v \in Workers \ {w} PROVE Task(v)' = Task(v)
    OBVIOUS
  <2>1. wpc'[v] = wpc[v] /\ solving'[v] = solving[v] /\ problem_pipe'[v] = problem_pipe[v]
    BY <1>1, <1>2 DEF TypeOK
  <2> QED BY <2>1, SameTask
<1>6. Tasks[w] = {} /\ Tasks' = [Tasks EXCEPT ![w] = {prob}]
  BY <1>3, <1>4, <1>5, TasksFunction
<1> QED BY <1>1, <1>2, <1>6 DEF Work!Give

\* The master poses a problem, has one more worker solve it, reads an answer, ends the
\* work, or does nothing the dispatcher sees.
LEMMA MasterDispatches ==
  ASSUME Base, Ends, Cancels, MasterStep
  PROVE  [Work!Next]_(Work!vars)
<1>1. ~crashed /\ UNCHANGED <<wpc, solving>> /\ Sound' \in {Sound, TRUE}
  BY MasterLeavesWork, SoundStays DEF Next, Base
<1>2. CASE \/ Suspend \/ (\E w \in Workers : Waitpid(w)) \/ HandlerReturns
           \/ Skip \/ LookAtRunning \/ LookAtStarted \/ LookAtIdle
           \/ LookAtCanceled \/ GiveNone \/ EndPass \/ Fail \/ CountExited
  <2>1. UNCHANGED <<problems_remaining, current_problem, heap, result_pipe, problem_pipe,
                    ending, crashed>>
    BY <1>2 DEF Suspend, Waitpid, HandlerReturns, Skip, LookAt, LookAtRunning, LookAtStarted,
                LookAtIdle, LookAtCanceled, GiveNone, EndPass, Fail, CountExited
  <2>2. \A w \in Workers : Task(w)' = Task(w)
    BY <1>1, <2>1, SameTask
  <2> QED BY <1>1, <2>1, <2>2, Unseen
<1>3. CASE LookAtStopped
  BY <1>3, AnswerRead
<1>4. CASE GiveCurrent
  <2> DEFINE prob == heap[current_problem]
  <2>1. /\ current_problem # NULL /\ Give(current_problem, prob) /\ prob \in Problem
        /\ UNCHANGED <<problems_remaining, current_problem, heap>>
    BY <1>4 DEF GiveCurrent, Base, Place
  <2>2. PICK w \in Workers : Work!Give(w, prob)
    BY <2>1, GivesOne
  <2>3. Open = {prob} /\ UNCHANGED <<Posed, Open>>
    BY <2>1 DEF Open, Posed
  <2>4. Work!Share(w)
    BY <2>2, <2>3 DEF Work!Share
  <2> QED BY <1>1, <2>2, <2>4 DEF Work!Next
<1>5. CASE GiveNew
  <2>1. /\ current_problem = NULL /\ problems_remaining \in 1 .. nprobs
        /\ problems_remaining' = problems_remaining - 1
    BY <1>5, NewProblem DEF GiveNew, Base
  <2>2. PICK a \in Addrs, type \in Types :
           LET prob == [id |-> nprobs - problems_remaining + 1, type |-> type]
           IN  /\ current_problem' = a /\ heap' = [heap EXCEPT ![a] = prob]
               /\ Give(a, prob)
    BY <1>5 DEF GiveNew
  <2> DEFINE prob == [id |-> nprobs - problems_remaining + 1, type |-> type]
  <2>3. prob = [id |-> Posed + 1, type |-> type] /\ prob \in Problem
    BY <2>1 DEF Problem, Posed
  <2>4. Posed \in Nat /\ Posed < nprobs /\ Posed' = Posed + 1
    BY <2>1 DEF Posed
  <2>5. Open = {} /\ Open' = {prob}
    BY <2>1, <2>2 DEF Open, Base, TypeOK
  <2> HIDE DEF prob
  <2>6. PICK w \in Workers : Work!Give(w, prob)
    BY <2>2, <2>3, GivesOne DEF prob
  <2>7. Work!Pose(w)
    BY <2>3, <2>4, <2>5, <2>6 DEF Work!Pose
  <2> QED BY <1>1, <2>6, <2>7 DEF Work!Next
<1>6. CASE EndWork
  <2>1. /\ mpc = "pass" /\ AllDone /\ ending' = TRUE
        /\ UNCHANGED <<problems_remaining, current_problem, heap, crashed, problem_pipe,
                       result_pipe>>
    BY <1>6 DEF EndWork, Master
  <2>2. ~ending
    BY <2>1 DEF Base, Place
  <2>3. NoMore
    BY <1>6, EndWorkInTime
  <2>4. \A w \in Workers : Task(w) = {} /\ Task(w)' = Task(w)
    <3> SUFFICES ASSUME NEW w \in Workers PROVE Task(w) = {} /\ Task(w)' = Task(w)
      OBVIOUS
    <3>1. ~Working(w) /\ Phase(w) /\ TypeOK
      BY <2>1 DEF AllDone, Working, Base, Phases
    <3> QED BY <1>1, <2>1, <2>2, <3>1, TaskOf, SameTask
  <2>5. (\A w \in Workers : Tasks[w] = {}) /\ Tasks' = Tasks
    BY <2>4, TasksFunction, SameTasks
  <2>6. Open = {} /\ UNCHANGED <<Posed, Open>> /\ (Posed = nprobs \/ Types = {})
    BY <2>1, <2>3 DEF Open, Posed, NoMore, Base, TypeOK
  <2>7. Work!End
    BY <2>1, <2>2, <2>5, <2>6 DEF Work!End
  <2> QED BY <1>1, <2>7 DEF Work!Next
<1> QED BY <1>2, <1>3, <1>4, <1>5, <1>6 DEF MasterStep

(***************************************************************************)
(* The solver with its signals, pipes and processes implements the         *)
(* abstract dispatcher: what the master knows of its workers, late and     *)
(* merged as it is, is enough to give every problem only to a worker that  *)
(* has none, to read an answer only where there is one, to accept each     *)
(* good one once, and to stop when all is solved.                          *)
(***************************************************************************)
THEOREM SolverImplementsDispatcher == Spec => ImplementsDispatcher
<1>1. Init => Work!Init
  <2> SUFFICES ASSUME Init PROVE Work!Init
    OBVIOUS
  <2>1. Tasks = [w \in Workers |-> {}]
    BY DEF Init, Tasks, Task
  <2>2. Posed = 0 /\ Open = {}
    BY DEF Init, Posed, Open
  <2>3. Sound \in BOOLEAN
    BY DEF Init, Sound
  <2> QED BY <2>1, <2>2, <2>3 DEF Init, Work!Init
<1>2. Init => Honest
  BY DEF Init, Honest
<1>3. Base /\ Honest /\ [Next]_vars => Honest'
  BY HonestStep DEF Base
<1>4. Base /\ Ends /\ Cancels /\ Honest /\ [Next]_vars => [Work!Next]_(Work!vars)
  <2> SUFFICES ASSUME Base, Ends, Cancels, Honest, [Next]_vars
               PROVE  [Work!Next]_(Work!vars)
    OBVIOUS
  <2>1. CASE UNCHANGED vars
    <3>1. \A w \in Workers : Task(w)' = Task(w)
      BY <2>1, SameTask DEF vars
    <3>2. UNCHANGED Sound /\ Sound' \in {Sound, TRUE}
      BY <2>1 DEF vars, Sound
    <3> QED BY <2>1, <3>1, <3>2, Unseen DEF vars
  <2> QED BY <2>1, MasterDispatches, WorkerDispatches DEF Next
<1> QED BY <1>1, <1>2, <1>3, <1>4, BaseAlways, EndsAlways, CancelsAlways,
           PTL DEF Spec, ImplementsDispatcher, Work!Spec

=============================================================================
