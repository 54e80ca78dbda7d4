----------------------------- MODULE Dispatcher -----------------------------
(***************************************************************************)
(* What the problem solver of HW4 promises: problems are posed one after   *)
(* the other, each is given to workers that have nothing else to do, and   *)
(* stays open until the answer of a worker is accepted; the work is over   *)
(* when none is left.  There are no processes, pipes or signals here, and  *)
(* no states in which the master takes a worker to be.                     *)
(***************************************************************************)
EXTENDS Naturals, Sequences

CONSTANTS Workers,    \* those who solve problems
          Problems,   \* how many there are to be solved
          Types       \* the types they have

VARIABLES posed,      \* how many problems have been posed
          open,       \* the set of the one that is open, if any
          task,       \* the set of the one each worker is to solve, if any
          answers,    \* what each has answered and nobody has read
          over,       \* the work is over
          sound,      \* no problem is touched that does not exist (any more)
          broken      \* one has been

vars == <<posed, open, task, answers, over, sound, broken>>

Init ==
    /\ posed = 0 /\ open = {} /\ over = FALSE
    /\ task = [w \in Workers |-> {}]
    /\ answers = [w \in Workers |-> <<>>]
    /\ sound \in BOOLEAN /\ broken = FALSE

-----------------------------------------------------------------------------

Give(w, prob) ==
    /\ ~over /\ task[w] = {}
    /\ task' = [task EXCEPT ![w] = {prob}]
    /\ UNCHANGED <<answers, over, broken>>

Pose(w) ==
    /\ open = {} /\ posed < Problems
    /\ posed' = posed + 1
    /\ \E type \in Types :
          LET prob == [id |-> posed + 1, type |-> type]
          IN  open' = {prob} /\ Give(w, prob)

Share(w) ==
    /\ \E prob \in open : Give(w, prob)
    /\ UNCHANGED <<posed, open>>

\* Only a miner can give up.
Answer(w) ==
    /\ \E prob \in task[w], failed \in BOOLEAN :
          /\ failed => prob.type = "miner"
          /\ answers' = [answers EXCEPT ![w] =
                            Append(@, [id |-> prob.id, failed |-> failed])]
    /\ task' = [task EXCEPT ![w] = {}]
    /\ UNCHANGED <<posed, open, over, broken>>

\* Any answer but a failure solves a trivial problem, a nonce only its own block.
Solves(res, prob) == ~res.failed /\ (prob.type = "trivial" \/ res.id = prob.id)

\* Of a worker that has nothing to do the first answer is read, and what follows is lost.
Read(w) ==
    /\ ~over /\ task[w] = {} /\ answers[w] # <<>>
    /\ answers' = [answers EXCEPT ![w] = <<>>]
    /\ UNCHANGED <<posed, task, over>>

Accept(w) ==
    /\ Read(w)
    /\ \E prob \in open : Solves(Head(answers[w]), prob)
    /\ open' = {}
    /\ UNCHANGED broken

Reject(w) ==
    /\ Read(w)
    /\ \A prob \in open : ~Solves(Head(answers[w]), prob)
    /\ UNCHANGED <<open, broken>>

Break(w) ==
    /\ Read(w)
    /\ ~sound /\ broken' = TRUE
    /\ UNCHANGED open

End ==
    /\ ~over /\ over' = TRUE
    /\ open = {} /\ (posed = Problems \/ Types = {})
    /\ \A w \in Workers : task[w] = {}
    /\ UNCHANGED <<posed, open, task, answers, broken>>

\* Whoever might touch one, no longer can.
Settle == sound' /\ UNCHANGED <<posed, open, task, answers, over, broken>>

Next ==
    /\ ~broken /\ sound' \in {sound, TRUE}
    /\ \/ \E w \in Workers : \/ Pose(w) \/ Share(w) \/ Answer(w)
                             \/ Accept(w) \/ Reject(w) \/ Break(w)
       \/ End \/ Settle

Spec == Init /\ [][Next]_vars
=============================================================================
