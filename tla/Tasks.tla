------------------------------- MODULE Tasks -------------------------------
(***************************************************************************)
(* cpp-concepts: results that are asked for later, of futures, promises    *)
(* and packaged tasks (concurrency_condition_variables.cpp, and futureDemo *)
(* of parallel2.cpp); and the pools of threads (thread_pools.cpp, and the  *)
(* Boost pool of parallel2.cpp).  At the end, the handles of threads that  *)
(* have to be joined or detached.                                          *)
(***************************************************************************)
EXTENDS Threads, SequencesExt

CONSTANTS Pool,       \* the worker threads
          Submitted,  \* 100 tasks
          Refused,    \* what the future holds when the task has thrown
          Work        \* 10 rounds of work the stoppable thread does at most

None == 0   \* no result yet

\* Of each function: who may compute each future, in a thread of its own or
\* in whoever asks ("deferred"); and the futures each thread gets, in order.
Ask(by, gets) == [by |-> by, gets |-> gets]
Either == {"async", "deferred"}
futures == Ask(<<Either>>, [main |-> <<1>>])
futureDemo == Ask(<<{"async"}>>, [main |-> <<1>>])
asynctask == Ask(<<{"async"}, {"deferred"}, Either>>, [main |-> <<1, 2, 3>>])
packagedtasks == Ask(<<{"deferred"}, {"async"}>>, [main |-> <<1, 2>>])
promises == Ask(<<{"async"}>>, [printThread |-> <<1>>])
promiseswithexceptions == Ask(<<{"async"}>>, [printThread |-> <<1>>])
sharedfutures == Ask(<<{"async"}>>, [thread1 |-> <<1>>, thread2 |-> <<1>>])

Asks == [futures |-> futures, future |-> futureDemo, asynctask |-> asynctask,
         packaged |-> packagedtasks, promises |-> promises,
         throwing |-> promiseswithexceptions, shared |-> sharedfutures]

\* calculateSquareRoot alone may set an exception, which the getter catches.
calculateSquareRoot == IF demo = "throwing" THEN {1, Refused} ELSE {1}
Futures == DOMAIN Asks[demo].by
Wanted(t) == Asks[demo].gets[t][1 + Len(mem.seen[t])]

\* The thread of future f, or the owner of its promise.
Computes(f) ==
  /\ mem.by[f] = "async" /\ mem.value[f] = None
  /\ \E v \in calculateSquareRoot : mem' = [mem EXCEPT !.value[f] = v]
  /\ UNCHANGED <<demo, at>>

\* get() waits for the value, or computes it here and now.
get(t) ==
  \/ /\ Len(mem.seen[t]) < Len(Asks[demo].gets[t])
     /\ mem.value[Wanted(t)] # None
     /\ Goes(t, "start", "start",
             [mem EXCEPT !.seen[t] = Append(@, mem.value[Wanted(t)])])
  \/ /\ Len(mem.seen[t]) < Len(Asks[demo].gets[t])
     /\ mem.by[Wanted(t)] = "deferred" /\ mem.value[Wanted(t)] = None
     /\ Goes(t, "start", "start", [mem EXCEPT !.value[Wanted(t)] = 1])
  \/ /\ Len(mem.seen[t]) = Len(Asks[demo].gets[t])
     /\ Goes(t, "start", "done", mem)
-----------------------------------------------------------------------------
\* ThreadPool: main submits its tasks, sleeps and destroys the pool.
submit(t) ==
  /\ t = "main" /\ mem.submitted < Submitted
  /\ Goes(t, "start", "start", [mem EXCEPT !.submitted = @ + 1,
                                  !.queue = Append(@, mem.submitted + 1)])
DestroyPool(t) ==
  t = "main" /\ mem.submitted = Submitted
             /\ Goes(t, "start", "done", [mem EXCEPT !.mDone = TRUE])

workerThread(t) ==
  /\ t \in Pool
  /\ \/ Goes(t, "start", IF mem.mDone THEN "done" ELSE "try", mem)
     \/ mem.queue = <<>> /\ Goes(t, "try", "start", mem)
     \/ /\ mem.queue # <<>>
        /\ Goes(t, "try", "run", [mem EXCEPT !.task[t] = Head(mem.queue),
                                             !.queue = Tail(@)])
     \/ Goes(t, "run", "start", [mem EXCEPT !.ran[mem.task[t]] = @ + 1])

\* The Boost pool: join waits until every task posted has run.
JoinPool(t) ==
  /\ t = "main" /\ mem.submitted = Submitted
  /\ mem.queue = <<>> /\ \A w \in Pool : at[w] # "run"
  /\ Goes(t, "start", "done", [mem EXCEPT !.mDone = TRUE])
-----------------------------------------------------------------------------
Asked(d, by) ==
  Calls(d, DOMAIN Asks[d].gets,
        [by |-> by, value |-> [f \in DOMAIN by |-> None],
         seen |-> [t \in DOMAIN Asks[d].gets |-> <<>>]])
PoolOf(d) ==
  Calls(d, {"main"} \cup Pool,
        [queue |-> <<>>, submitted |-> 0, mDone |-> FALSE,
         task |-> [w \in Pool |-> 0], ran |-> [k \in 1 .. Submitted |-> 0]])
threadPool == PoolOf("pool")
threadPoolDemo == PoolOf("boostPool")

TasksInit ==
  \/ \E d \in DOMAIN Asks : \E by \in [DOMAIN Asks[d].by -> Either] :
        (\A f \in DOMAIN by : by[f] \in Asks[d].by[f]) /\ Asked(d, by)
  \/ threadPool \/ threadPoolDemo

TasksStep(t) ==
  \/ demo \in DOMAIN Asks /\ get(t)
  \/ demo \in {"pool", "boostPool"} /\ (submit(t) \/ workerThread(t))
  \/ demo = "pool" /\ DestroyPool(t)
  \/ demo = "boostPool" /\ JoinPool(t)
TasksCompute == demo \in DOMAIN Asks /\ \E f \in Futures : Computes(f)

\* A task of a pool runs once, or is dropped with the queue it is left in;
\* the pool of Boost drops none.
RunOnce ==
  demo \in {"pool", "boostPool"} =>
    /\ \A k \in 1 .. Submitted : mem.ran[k] <= 1
    /\ Done => \A k \in 1 .. Submitted :
                 mem.ran[k] = 0 <=> \E i \in DOMAIN mem.queue : mem.queue[i] = k
    /\ Done /\ demo = "boostPool" => mem.queue = <<>>

\* Every thread gets every result it asks for; what two threads share, both.
Got ==
  demo \in DOMAIN Asks => \A t \in DOMAIN at :
    mem.seen[t] = [i \in DOMAIN Asks[demo].gets[t] |->
                     mem.value[Asks[demo].gets[t][i]]]
-----------------------------------------------------------------------------
(* cpp-concepts/src/concurrency_threads.cpp, with the life cycle and the   *)
(* daemon of parallel1.cpp and the callers of concurrency_locks.cpp: main  *)
(* starts threads through std::thread handles, which have to be joined or  *)
(* detached before they are destroyed or assigned to.                      *)

Started(hs) == [i \in DOMAIN hs |-> <<"start", hs[i]>>]
Joins(hs) == [i \in DOMAIN hs |-> <<"join", hs[i]>>]
StartAndJoin(hs) == Started(hs) \o Joins(hs)

\* What each namespace's run() does with its handles, in order.
threads == StartAndJoin(<<1, 2, 3>>)
joinability == StartAndJoin(<<1>>)
joinanddetach == Started(<<1, 2>>) \o <<<<"detach", 1>>, <<"join", 2>>>>
exceptionswithjoin == Started(<<1>>) \o <<<<"throw", 1>>>>
parameterstothreads == StartAndJoin(<<1>>)
transferringownership ==
  Started(<<1>>) \o <<<<"move", 2>>>> \o Started(<<1>>) \o Joins(<<1, 2>>)
usefulfunctions == StartAndJoin(<<1, 2, 3>>)
threadlocal == StartAndJoin(<<1, 2, 3>>)
jthread == Started(<<1>>) \o <<<<"request_stop", 1>>>> \o Joins(<<1>>)
lifeCycleMain == StartAndJoin(<<1>>)
daemonThreadDemoMain == Started(<<1>>) \o <<<<"detach", 1>>>>
mutexes == StartAndJoin(<<1, 2>>)
uniquelock == StartAndJoin(<<1, 2>>)

run ==
  [threads |-> threads, joinability |-> joinability,
   joinanddetach |-> joinanddetach, exceptionswithjoin |-> exceptionswithjoin,
   parameterstothreads |-> parameterstothreads,
   transferringownership |-> transferringownership,
   usefulfunctions |-> usefulfunctions, threadlocal |-> threadlocal,
   jthread |-> jthread, lifeCycle |-> lifeCycleMain,
   daemon |-> daemonThreadDemoMain, mutexes |-> mutexes,
   uniquelock |-> uniquelock]

main == 0
Born == 1 .. mem.born
joinable(h) == mem.handle[h] # Nobody
Now == IF mem.pc > Len(run[demo]) THEN <<"end", 1>> ELSE run[demo][mem.pc]
Next1 == [mem EXCEPT !.pc = @ + 1]
Next1Handle(h, t) == [Next1 EXCEPT !.handle[h] = t]

\* One call of main; the wrong one terminates the program.
Main(op) == demo \in DOMAIN run /\ at[main] = "start" /\ Now[1] = op
Proceeds(memory) == Goes(main, "start", "start", memory)
Terminates == Goes(main, "start", "terminated", mem)

StartThread ==
  /\ Main("start")
  /\ IF joinable(Now[2]) THEN Terminates
     ELSE Proceeds([Next1Handle(Now[2], mem.born + 1) EXCEPT !.born = @ + 1])
join ==
  /\ Main("join")
  /\ IF ~joinable(Now[2]) THEN Terminates
     ELSE at[mem.handle[Now[2]]] = "done" /\ Proceeds(Next1Handle(Now[2], Nobody))
detach == Main("detach") /\ Proceeds(Next1Handle(Now[2], Nobody))
Move ==
  Main("move") /\ Proceeds([Next1Handle(2, mem.handle[1])
                              EXCEPT !.handle[1] = Nobody])
request_stop == Main("request_stop") /\ Proceeds([Next1 EXCEPT !.stop = TRUE])

\* exceptFunc throws and run() catches it; either way ThreadGuard joins.
ThreadGuard ==
  /\ Main("throw")
  /\ joinable(1) => at[mem.handle[1]] = "done"
  /\ Proceeds(Next1Handle(1, Nobody))

\* run() returns and its handles are destroyed.
Destroy ==
  /\ Main("end")
  /\ IF \E h \in DOMAIN mem.handle : joinable(h) THEN Terminates
     ELSE Goes(main, "start", "done", mem)
-----------------------------------------------------------------------------
\* The functions of the threads, started as 1, 2, 3.
func1(t) == Goes(t, "start", "done", [mem EXCEPT !.said = @ \cup {t}])
thisIsADaemonThread(t) == Goes(t, "start", "start", mem)
threadLocalFunc1(t) == Goes(t, "start", "done", [mem EXCEPT !.i[t] = @ + 1])
addToList(t) == Goes(t, "start", "done", [mem EXCEPT !.list = <<t>> \o @])
doSomeWork(t) ==
  \/ /\ mem.i[t] < Work /\ ~mem.stop
     /\ Goes(t, "start", "start", [mem EXCEPT !.i[t] = @ + 1])
  \/ (mem.i[t] = Work \/ mem.stop) /\ Goes(t, "start", "done", mem)

\* std::lock takes both mutexes or waits for both.
transfer(t) ==
  \/ /\ Free("lockA") /\ Free("lockB")
     /\ Goes(t, "start", "both", [mem EXCEPT !.owner = [m \in Mutexes |-> t]])
  \/ Goes(t, "both", "done", [mem EXCEPT !.owner = [m \in Mutexes |-> Nobody]])
-----------------------------------------------------------------------------
HandlesInit ==
  \E d \in DOMAIN run :
    Calls(d, {main, 1, 2, 3},
          [pc |-> 1, born |-> 0, handle |-> [h \in 1 .. 3 |-> Nobody],
           i |-> [t \in 1 .. 3 |-> 0], said |-> {}, list |-> <<>>,
           stop |-> FALSE])

HandlesMain == StartThread \/ join \/ detach \/ Move \/ request_stop
               \/ ThreadGuard \/ Destroy
HandlesStep(t) ==
  /\ demo \in DOMAIN run /\ t \in Born
  /\ \/ demo \notin {"daemon", "threadlocal", "mutexes", "jthread",
                     "uniquelock"} /\ func1(t)
     \/ demo = "daemon" /\ thisIsADaemonThread(t)
     \/ demo = "threadlocal" /\ threadLocalFunc1(t)
     \/ demo = "mutexes" /\ addToList(t)
     \/ demo = "jthread" /\ doSomeWork(t)
     \/ demo = "uniquelock" /\ transfer(t)

\* The calls of main are in order, and only a detached thread outlives run().
Outlived ==
  demo \in DOMAIN run =>
    /\ at[main] # "terminated"
    /\ at[main] = "done" => {t \in Born : at[t] # "done"} \subseteq
         IF demo \in {"joinanddetach", "daemon"} THEN {1} ELSE {}
    /\ demo = "threadlocal" => \A t \in Born : mem.i[t] <= 1
    /\ demo = "mutexes" /\ at[main] = "done" => ToSet(mem.list) = {1, 2}
=============================================================================
