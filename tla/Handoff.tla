------------------------------ MODULE Handoff ------------------------------
(***************************************************************************)
(* cpp-concepts: what threads hand to each other.  From parallel2.cpp the  *)
(* pipeline, the semaphore, the race, the barrier and the latch; from      *)
(* concurrency_condition_variables.cpp the queue and the distance; from    *)
(* concurrency_locks.cpp the stack.                                        *)
(***************************************************************************)
EXTENDS Threads, SequencesExt

CONSTANTS Pieces,   \* 1000000 elements go through the pipeline
          Permits,    \* 4: the first count of the semaphore
          Tasks,      \* 10 threads want it
          Workers,    \* 5 threads double the result, and as many add to it
          Distance    \* 5: the distance waited for

End == -1
Ordered == 1 .. Pieces
-----------------------------------------------------------------------------
(* Pipeline: the lock is given back before the notification.               *)
addToPipeline(t, from, element, to) ==
  \/ Goes(t, from, "notify" \o to, [mem EXCEPT !.queue = Append(@, element)])
  \/ \E m \in NotifyOne(mem) : Goes(t, "notify" \o to, to, m)

producer(t) ==
  /\ t = "producer"
  /\ \/ mem.added < Pieces /\ addToPipeline(t, "start", 1, "added")
     \/ Goes(t, "added", "start", [mem EXCEPT !.added = @ + 1])
     \/ mem.added = Pieces /\ addToPipeline(t, "start", End, "done")

\* Mutant: the consumer that meets the end keeps it to itself.
consumerKeepsEnd(t) ==
  /\ t \in {"c1", "c2"} /\ Awake(t)
  /\ \/ mem.queue = <<>> /\ Goes(t, "start", "start", Asleep(t))
     \/ /\ mem.queue # <<>>
        /\ Goes(t, "start", IF Head(mem.queue) = End THEN "done" ELSE "start",
                [mem EXCEPT !.queue = Tail(@), !.taken[t] = @ + 1])
consumer(t) ==
  /\ t \in {"c1", "c2"} /\ Awake(t)
  /\ \/ mem.queue = <<>> /\ Goes(t, "start", "start", Asleep(t))
     \/ /\ mem.queue # <<>> /\ Head(mem.queue) = End
        /\ Goes(t, "start", "last", [mem EXCEPT !.queue = Tail(@)])
     \/ addToPipeline(t, "last", End, "done")
     \/ /\ mem.queue # <<>> /\ Head(mem.queue) # End
        /\ Goes(t, "start", "start",
                [mem EXCEPT !.queue = Tail(@), !.taken[t] = @ + 1])
-----------------------------------------------------------------------------
\* Mutant: a woken thread takes the semaphore without another look.
acquireAtOnce(t) ==
  \/ mem.mCount = 0 /\ Goes(t, "start", "woken", Asleep(t))
  \/ /\ mem.mCount > 0
     /\ Goes(t, "start", "running", [mem EXCEPT !.mCount = @ - 1])
  \/ /\ Awake(t)
     /\ Goes(t, "woken", "running", [mem EXCEPT !.mCount = @ - 1])
acquire(t) ==
  \/ /\ mem.mCount = 0 /\ Awake(t)
     /\ Goes(t, "start", "start", Asleep(t))
  \/ /\ mem.mCount > 0 /\ Awake(t)
     /\ Goes(t, "start", "running", [mem EXCEPT !.mCount = @ - 1])
release(t) ==
  \/ Goes(t, "running", "notify", [mem EXCEPT !.mCount = @ + 1])
  \/ \E m \in NotifyOne(mem) : Goes(t, "notify", "done", m)
task(t) == acquire(t) \/ release(t)
-----------------------------------------------------------------------------
(* The workers: odd ones double, even ones add 3, each in one locked step. *)
worker1(t) == t % 2 = 1
Double == [mem EXCEPT !.result = @ * 2]
Add3 == [mem EXCEPT !.result = @ + 3]
race(t) == Goes(t, "start", "done", IF worker1(t) THEN Double ELSE Add3)

\* arrive_and_wait: nobody passes before all of the workers have arrived.
Arrive == [mem EXCEPT !.arrived = @ + 1]
barrier(t) ==
  \/ worker1(t) /\ Goes(t, "start", "wait", Arrive)
  \/ ~worker1(t) /\ Goes(t, "start", "arrive", Add3)
  \/ ~worker1(t) /\ Goes(t, "arrive", "wait", Arrive)
  \/ /\ mem.arrived = 2 * Workers
     /\ Goes(t, "wait", "done", IF worker1(t) THEN Double ELSE mem)

\* Only the adders count the latch down, and they do not wait for it.
latch(t) ==
  \/ ~worker1(t) /\ Goes(t, "start", "count_down", Add3)
  \/ ~worker1(t) /\ Goes(t, "count_down", "done", Arrive)
  \/ worker1(t) /\ mem.arrived = Workers /\ Goes(t, "start", "done", Double)
-----------------------------------------------------------------------------
(* ThreadSafeQueue and Stack are templates main does not use: two threads  *)
(* push numbers, one pops when there is something, one waits for its share.*)
Pushes == [p1 |-> {1, 2}, p2 |-> {3}]
push(t) ==
  /\ t \in DOMAIN Pushes
  /\ \/ \E m \in NotifyOne([mem EXCEPT !.queue = Append(@, mem.next[t]),
                                       !.next[t] = @ + 1]) :
          mem.next[t] \in Pushes[t] /\ Goes(t, "start", "start", m)
     \/ mem.next[t] \notin Pushes[t] /\ Goes(t, "start", "done", mem)
Popped(t) == [mem EXCEPT !.queue = Tail(@), !.got[t] = Append(@, Head(mem.queue))]
pop(t) ==
  t = "popper" /\ Goes(t, "start", "done",
                       IF mem.queue = <<>> THEN mem ELSE Popped(t))
waitPop(t) ==
  /\ t = "waiter" /\ Awake(t)
  /\ \/ mem.queue = <<>> /\ Goes(t, "start", "start", Asleep(t))
     \/ /\ mem.queue # <<>>
        /\ Goes(t, "start", IF Len(mem.got[t]) = 1 THEN "done" ELSE "start",
                Popped(t))

\* Of the stack, empty, top and pop; pop throws when there is nothing.
pushStack(t) ==
  /\ t \in DOMAIN Pushes
  /\ \/ mem.next[t] \in Pushes[t]
          /\ Goes(t, "start", "start", [mem EXCEPT !.next[t] = @ + 1,
                                          !.queue = <<mem.next[t]>> \o @])
     \/ mem.next[t] \notin Pushes[t] /\ Goes(t, "start", "done", mem)
popStack(t) ==
  /\ t \in {"popper", "waiter"}
  /\ \/ mem.queue # <<>> /\ Goes(t, "start", "pop", mem)   \* not empty()
     \/ Goes(t, "pop", IF mem.queue = <<>> THEN "threw" ELSE "done",
             IF mem.queue = <<>> THEN mem ELSE Popped(t))

(* keepMoving counts without the mutex, so it can notify between the look  *)
(* at the distance and the sleep; and it moves on for ever.                *)
keepMoving(t) ==
  /\ t = "mover"
  /\ \/ /\ mem.distanceCovered <= Distance
        /\ Goes(t, "start", IF mem.distanceCovered + 1 = Distance THEN "notify"
                            ELSE "start",
                [mem EXCEPT !.distanceCovered = @ + 1])
     \/ \E m \in NotifyOne(mem) : Goes(t, "notify", "start", m)
     \/ mem.distanceCovered > Distance /\ Goes(t, "start", "start", mem)
waitingForRightDistance(t) ==
  /\ t = "waiter" /\ Awake(t)
  /\ \/ Goes(t, "start", IF mem.distanceCovered = Distance THEN "done"
                         ELSE "sleep", mem)
     \/ Goes(t, "sleep", "start", Asleep(t))
-----------------------------------------------------------------------------
Shared == {"p1", "p2", "popper", "waiter"}
pipelineExample ==
  Calls("pipeline", {"producer", "c1", "c2"},
        [queue |-> <<>>, added |-> 0, taken |-> [t \in {"c1", "c2"} |-> 0]])
semaphoreDemo == Calls("semaphore", 1 .. Tasks, [mCount |-> Permits])
Result == [result |-> 1, arrived |-> 0]
raceConditionDemo == Calls("race", 1 .. 2 * Workers, Result)
barrierDemo == Calls("barrier", 1 .. 2 * Workers, Result)
latchDemo == Calls("latch", 1 .. 2 * Workers, Result)
Clients(d) ==
  Calls(d, Shared, [queue |-> <<>>, next |-> [p1 |-> 1, p2 |-> 3],
                    got |-> [t \in Shared |-> <<>>]])
distanceRun == Calls("distance", {"mover", "waiter"}, [distanceCovered |-> 0])

HandoffInit ==
  \/ pipelineExample \/ semaphoreDemo \/ distanceRun
  \/ raceConditionDemo \/ barrierDemo \/ latchDemo
  \/ \E d \in {"queue", "stack"} : Clients(d)

HandoffStep(t) ==
  \/ demo = "pipeline" /\ (producer(t) \/ consumer(t))
  \/ demo = "semaphore" /\ task(t)
  \/ demo = "race" /\ race(t)
  \/ demo = "barrier" /\ barrier(t)
  \/ demo = "latch" /\ latch(t)
  \/ demo = "queue" /\ (push(t) \/ pop(t) \/ waitPop(t))
  \/ demo = "stack" /\ (pushStack(t) \/ popStack(t))
  \/ demo = "distance" /\ (keepMoving(t) \/ waitingForRightDistance(t))

Pushed == {n \in 1 .. 3 : \E p \in DOMAIN Pushes :
                             n \in Pushes[p] /\ n < mem.next[p]}
\* What is pushed is in the queue or popped, once, and is popped in order.
HandedOver ==
  demo \in {"queue", "stack"} =>
    LET out == mem.queue \o mem.got["popper"] \o mem.got["waiter"]
    IN  /\ ToSet(out) = Pushed /\ Len(out) = Cardinality(Pushed)
        /\ demo = "queue" => mem.got["waiter"] # <<2, 1>>

\* Additions come before doublings, but for the race; nothing is lost.
Produced ==
  /\ demo = "pipeline" => mem.taken["c1"] + mem.taken["c2"] = Pieces
  /\ demo = "semaphore" => mem.mCount = Permits
  /\ demo \in {"barrier", "latch"} =>
       mem.result = (1 + 3 * Workers) * 2 ^ Workers
  /\ demo = "race" =>
       mem.result \in 2 ^ Workers + 3 * Workers
                      .. (1 + 3 * Workers) * 2 ^ Workers

\* The semaphore lets in as many tasks as it has permits.
Permitted ==
  demo = "semaphore" =>
    Cardinality({t \in DOMAIN at : at[t] = "running"}) = Permits - mem.mCount
      /\ mem.mCount >= 0
=============================================================================
