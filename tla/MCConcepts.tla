----------------------------- MODULE MCConcepts -----------------------------
(***************************************************************************)
(* The programs of cpp-concepts and the C++ miner, one in each behaviour:  *)
(* main calls a thread demonstration and joins its threads, or runs a      *)
(* program about data from one of its inputs.                              *)
(***************************************************************************)
EXTENDS Counters, Handoff, Tasks,
        Market, Containers, Forks, Coroutines, Mining

a == "a"
b == "b"
MCGenes == {<<a>>, <<a, b>>, <<b, a>>, <<b, a, b>>}
MCStrings == {<<a, b, a, b>>, <<b, b, a>>}
MCUnsorted == SeqOf({1, 2, 3}, 4)
\* The genesis block's, two below the lowest byte, one that ends at the
\* highest, one beyond it, and one that is too short.
MCNbits == {<<15, 15, 15, 15, 0, 0, 1, 13>>, <<5, 6, 3, 4, 1, 2, 0, 1>>,
            <<5, 6, 3, 4, 1, 2, 0, 2>>, <<5, 6, 3, 4, 1, 2, 2, 0>>,
            <<5, 6, 3, 4, 1, 2, 2, 2>>, <<5, 6, 3, 4, 1, 2, 0>>}

Threaded == CountersInit \/ InventoryInit \/ HandoffInit
            \/ TasksInit \/ OrdersInit \/ HandlesInit
Init == \/ Threaded
        \/ TreeInit \/ MarketInit \/ GenesInit \/ VectorInit \/ UniqInit
        \/ SortInit \/ FindInit \/ SumInit \/ CoroutinesInit \/ MiningInit

Do(t) == \/ CountersStep(t) \/ InventoryStep(t) \/ HandoffStep(t)
         \/ TasksStep(t) \/ OrdersStep(t) \/ HandlesStep(t)
         \/ TreeStep(t) \/ MarketStep(t) \/ GenesStep(t) \/ VectorStep(t)
         \/ UniqStep(t) \/ ForksStep(t) \/ CoroutinesStep(t) \/ MiningStep(t)

\* The threads are joined; those a handle let go may be cut off.
Ended == IF demo \in DOMAIN run THEN at[main] \in {"done", "terminated"}
         ELSE \A t \in DOMAIN at : at[t] \in {"done", "threw", "crashed"}

\* A missed notification is slept through.
Stops == /\ Ended \/ (demo = "distance" /\ mem.asleep # {})
         /\ UNCHANGED vars

Next == \/ \E t \in DOMAIN at : Do(t)
        \/ TasksCompute \/ HandlesMain \/ Spurious \/ Stops

Named == {"main", "producer", "c1", "c2", "p1", "p2", "popper", "waiter",
          "mover", "printThread", "thread1", "thread2", "writeX", "writeY",
          "writeXThenY", "readXThenY", "readYThenX"}
         \cup Readers \cup Writers \cup Pool
Numbered == demo \notin {"sharedMutex", "pipeline", "queue", "stack", "distance",
                        "pool", "boostPool", "exchange", "tree", "market", "genes",
                        "vector", "unique", "sort", "hash", "mine"}
                       \cup DOMAIN Asks \cup DOMAIN Orders \cup DOMAIN Of
Runs(t, numbered) == /\ Numbered = numbered
                     /\ t \in DOMAIN at
                     /\ Do(t)
Fairness == /\ \A t \in 0 .. 10 : WF_vars(Runs(t, TRUE))
            /\ \A t \in Named : WF_vars(Runs(t, FALSE))
            /\ WF_vars(TasksCompute) /\ WF_vars(HandlesMain)
Spec == Init /\ [][Next]_vars /\ Fairness
-----------------------------------------------------------------------------
\* What a demonstration prints once its threads are joined is what its
\* comments promise, for every interleaving (parallel1.cpp:135, 252, 345;
\* parallel2.cpp:152, 284; atomic.cpp:207; concurrency_condition_variables.cpp:120).
Results == Done => Counted /\ Emptied /\ Produced /\ Visible /\ Got

\* At no time do the threads share what they must not: the calendar, the
\* permits, an element of the queue, a task of the pool, a thread's handle
\* (parallel1.cpp:284, parallel2.cpp:202, thread_pools.cpp:37, thread_guard.h:12).
Exclusive == WriterAlone /\ Permitted /\ HandedOver /\ RunOnce /\ Outlived

\* What the programs about data compute, on every input of the instance and
\* in every interleaving: the search tree's pointers agree and its walks go up
\* and miss nothing (binary_search_tree.cpp:243); the orders of a book stand
\* where they belong, and executeTrade leaves none that could be traded
\* (buy_sell.cpp:225); the vector, the trie and unique hold what was put in
\* (vector.cpp:140); the sorts and sums are right, and parallelFind answers the
\* end of its range (quick_sort.cpp:38, parallel_find.cpp:8); the coroutines'
\* messages come in the order of their numbers; a hash is padded and a nonce
\* valid (sha256.cpp:68, miner.cpp:45).  It is silent where the code goes wrong
\* or has no answer: the book that executeTrade2 leaves, push_back of an
\* element of a full vector, parallelAccumulate of fewer elements than a block,
\* which divides by zero, a tree that its walk's own program clears, and nbits
\* that do not fit their threshold.
Computed == /\ WellFormed /\ InOrderWalk /\ BookKept /\ Contents
            /\ Reunited /\ Narrated /\ HashedAndMined

\* Every program comes to its end, by the scheduler's fairness to each thread
\* alone, but for the ones that spin, move on for ever, wait for a
\* notification that may be missed, or are stopped with the program, and for
\* the search for a nonce when no nonce is good enough (parallel1.cpp:342,
\* parallel2.cpp:160, miner.cpp:45).
Spinning == {"scheduler", "livelock", "busyWait", "distance", "daemon"}
Endless == demo = "mine" /\ \A n \in Nonces : mem.grades[n] # "below"
Ends == demo \notin Spinning /\ ~Endless
          => <>(Ended /\ (demo \in DOMAIN run => at[main] = "done"))
=============================================================================
