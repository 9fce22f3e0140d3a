------------------------------ MODULE SelfTest ------------------------------
(***************************************************************************)
(* testAlert() of src/core/client.ts: it enqueues an alert of its own,     *)
(* waits in queue.flush() and tells the caller whether the notifiers took  *)
(* the alert.  It shares the queue with captured alerts and with other     *)
(* flush() and close() calls.  A test is one of the calls in Waiters; the  *)
(* number of its job is the mark of that call.  The circuit histories of   *)
(* CircuitHistory are kept beside it.                                      *)
(***************************************************************************)
EXTENDS CircuitHistory

VARIABLE test  \* call -> the status that testAlert() returns

testVars == <<vars, historyVars, test>>

TestInit == CircuitInit /\ test = [w \in Waiters |-> "none"]

\* enqueue() takes the alert, pump() leaves an active job, and flush() joins
\* the drain promise, all in one synchronous run.
TestAlert(w) ==
  /\ test[w] = "none" /\ waiter[w].status = "unused"
  /\ Enqueue
  /\ waiter' = [waiter EXCEPT ![w] =
                  [status |-> "waiting", closing |-> FALSE, mark |-> queued']]
  /\ drainWaiters' = drainWaiters \cup {w}
  /\ test' = [test EXCEPT ![w] = "waiting"]

TestRefused(w) ==
  /\ test[w] = "none" /\ waiter[w].status = "unused"
  /\ Drop
  /\ test' = [test EXCEPT ![w] = "queue-full"]

\* jobResult?.notifierFailures ?? 0, of the job that this test enqueued.
TestFailures(w) ==
  IF \E i \in DOMAIN reports : reports[i].job = waiter[w].mark
  THEN (CHOOSE r \in {reports[i] : i \in DOMAIN reports} :
          r.job = waiter[w].mark).notifierFailures
  ELSE 0

TestReturns(w) ==
  /\ test[w] = "waiting"
  /\ waiter[w].status \in {"resolved", "timedout"}
  /\ test' = [test EXCEPT ![w] =
                IF waiter[w].status = "timedout" THEN "timeout"
                ELSE IF TestFailures(w) > 0 THEN "notifier-failed" ELSE "sent"]
  /\ UNCHANGED vars

QueueStep == Next /\ UNCHANGED test

TestNext ==
  \/ QueueStep
  \/ \E w \in Waiters : TestAlert(w) \/ TestRefused(w) \/ TestReturns(w)

TestSpec == TestInit /\ [][TestNext /\ Observe]_testVars

-----------------------------------------------------------------------------

\* "delivered: true" is never a guess: when testAlert() answers "sent", its
\* own alert has been reported and every notifier took it, although jobResult
\* defaults to no failures and the drain promise is shared with other calls.
SentIsTrue ==
  \A w \in Waiters :
    test[w] = "sent" =>
      \E i \in DOMAIN reports : reports[i].job = waiter[w].mark
                                /\ reports[i].sent = NumLanes
=============================================================================
