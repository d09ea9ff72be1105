------------------------------ MODULE Counters ------------------------------
(***************************************************************************)
(* cpp-concepts/src/parallel1.cpp and parallel2.cpp: two threads count in  *)
(* one variable, with nothing, a mutex, an atomic, a recursive mutex, a    *)
(* lock that is tried; readers and writers of a calendar; and threads that *)
(* empty one inventory.  Each of these tests the inventory without a lock  *)
(* at the head of its loop, and again under the lock before it takes an    *)
(* item.                                                                   *)
(***************************************************************************)
EXTENDS Threads

CONSTANTS Laps,      \* 10000000, 5, 10000 or 7 turns of a loop
          Goal,      \* 20: the shared count the try_lock demo stops above
          MaxOwn,    \* bound: what a thread counts before it gets the lock
          Stock,     \* 5000 or 10 items
          Quit,      \* 10: with so many left a thread abandons the lock
          Consumers  \* 2, 4, 5 or 200 threads, numbered from 0

Pair == {1, 2}
Readers == {"r1", "r2"}
Writers == {"w1", "w2"}

\* The objects of every counting demonstration.
Objects(ids) ==
  [count |-> 0, count1 |-> 0, count2 |-> 0, depth |-> 0, ticks |-> 0,
   lap |-> [t \in ids |-> 0], own |-> [t \in ids |-> 0]]

\* for (int i = 0; i < Laps; i++)
For(t) ==
  \/ mem.lap[t] < Laps /\ Goes(t, "start", "body", mem)
  \/ mem.lap[t] = Laps /\ Goes(t, "start", "done", mem)
  \/ Goes(t, "next", "start", [mem EXCEPT !.lap[t] = @ + 1])

\* An increment that is no atomic operation: a load, then a store.
Load(t, from, to) == Goes(t, from, to, [mem EXCEPT !.own[t] = mem.count])
Store(t, from, to) == Goes(t, from, to, [mem EXCEPT !.count = mem.own[t] + 1])
-----------------------------------------------------------------------------
(* schedulerMain: the flag is no atomic, so the compiler may read it once. *)
incrementer(t) ==
  \/ t # 0 /\ Goes(t, "start", IF mem.flag THEN "count" ELSE "done", mem)
  \/ Goes(t, "count", IF mem.hoisted THEN "count" ELSE "start", mem)
schedulerMain(t) ==
  t = 0 /\ Goes(t, "start", "done", [mem EXCEPT !.flag = FALSE])

counter(t) == For(t) \/ Load(t, "body", "store") \/ Store(t, "store", "next")

\* Mutant: the lock is taken after the count is read.
counterWithLockLate(t) ==
  \/ For(t)
  \/ Load(t, "body", "lock")
  \/ Free("lockA") /\ Goes(t, "lock", "store", Locked(t, "lockA"))
  \/ Store(t, "store", "unlock")
  \/ Goes(t, "unlock", "next", Unlocked("lockA"))
counterWithLock(t) ==
  \/ For(t)
  \/ Free("lockA") /\ Goes(t, "body", "load", Locked(t, "lockA"))
  \/ Load(t, "load", "store")
  \/ Store(t, "store", "unlock")
  \/ Goes(t, "unlock", "next", Unlocked("lockA"))

atomicCounter(t) ==
  For(t) \/ Goes(t, "body", "next", [mem EXCEPT !.count = @ + 1])
-----------------------------------------------------------------------------
(* recursiveMutexExample: incrementCount2 calls incrementCount1 with the   *)
(* lock held, so the lock counts its owner's calls.                        *)
LockAgain(t, from, to) ==
  /\ mem.owner["lockA"] \in {Nobody, t}
  /\ Goes(t, from, to, [Locked(t, "lockA") EXCEPT !.depth = @ + 1])
UnlockOnce(t, from, to) ==
  Goes(t, from, to,
       [mem EXCEPT !.depth = @ - 1,
                   !.owner["lockA"] = IF mem.depth = 1 THEN Nobody ELSE @])
incrementCount1(t, from, inside, back) ==
  \/ LockAgain(t, from, inside \o "load")
  \/ Goes(t, inside \o "load", inside, [mem EXCEPT !.own[t] = mem.count1])
  \/ Goes(t, inside, inside \o "unlock",
          [mem EXCEPT !.count1 = mem.own[t] + 1])
  \/ UnlockOnce(t, inside \o "unlock", back)
incrementCount2(t, from, back) ==
  \/ LockAgain(t, from, "two")
  \/ Goes(t, "two", "call", [mem EXCEPT !.count2 = @ + 1])
  \/ incrementCount1(t, "call", "nested", "leave")
  \/ UnlockOnce(t, "leave", back)
doubleIncrementer(t) ==
  For(t) \/ incrementCount1(t, "body", "one", "second")
         \/ incrementCount2(t, "second", "next")
-----------------------------------------------------------------------------
(* TryLockExample: count alone until the lock is free.  try_lock may fail  *)
(* even then; the count is tested without the lock.                        *)
AddOwn(t) == [mem EXCEPT !.count = @ + mem.own[t], !.own[t] = 0]
tryIncrementer(t) ==
  \/ Goes(t, "start", IF mem.count <= Goal THEN "try" ELSE "done", mem)
  \/ /\ mem.own[t] > 0 /\ Free("lockA")
     /\ Goes(t, "try", "add", Locked(t, "lockA"))
  \/ /\ mem.own[t] < MaxOwn
     /\ Goes(t, "try", "start", [mem EXCEPT !.own[t] = @ + 1, !.ticks = @ + 1])
  \/ Goes(t, "add", "unlock", AddOwn(t))
  \/ Goes(t, "unlock", "start", Unlocked("lockA"))

(* SharedMutexDemo: a reader shares the lock with readers only.            *)
calendar_reader(t) ==
  \/ t \in Readers /\ For(t)
  \/ /\ t \in Readers /\ Free("lockA")
     /\ Goes(t, "body", "read", [mem EXCEPT !.shared = @ \cup {t}])
  \/ Goes(t, "read", "next", [mem EXCEPT !.shared = @ \ {t}])
calendar_writer(t) ==
  \/ t \in Writers /\ For(t)
  \/ /\ t \in Writers /\ Free("lockA") /\ mem.shared = {}
     /\ Goes(t, "body", "write", Locked(t, "lockA"))
  \/ Goes(t, "write", "next", [Unlocked("lockA") EXCEPT
                                 !.today = (@ + 1) % 7])
-----------------------------------------------------------------------------
\* Main calls one of them: two threads each, or readers and writers.
scheduler(hoisted) ==
  Calls("scheduler", {0} \cup Pair, [flag |-> TRUE, hoisted |-> hoisted])
dataRaceExample == Calls("dataRace", Pair, Objects(Pair))
mutexExample == Calls("mutex", Pair, Objects(Pair))
atomicExample == Calls("atomic", Pair, Objects(Pair))
recursiveMutexExample == Calls("recursive", Pair, Objects(Pair))
tryLockExample == Calls("tryLock", Pair, Objects(Pair))
sharedMutexDemo ==
  Calls("sharedMutex", Readers \cup Writers,
        Objects(Readers \cup Writers) @@ [today |-> 0, shared |-> {}])

CountersInit ==
  \/ \E hoisted \in BOOLEAN : scheduler(hoisted)
  \/ dataRaceExample \/ mutexExample \/ atomicExample
  \/ recursiveMutexExample \/ tryLockExample \/ sharedMutexDemo

CountersStep(t) ==
  \/ demo = "scheduler" /\ (incrementer(t) \/ schedulerMain(t))
  \/ demo = "dataRace" /\ counter(t)
  \/ demo = "mutex" /\ counterWithLock(t)
  \/ demo = "atomic" /\ atomicCounter(t)
  \/ demo = "recursive" /\ doubleIncrementer(t)
  \/ demo = "tryLock" /\ tryIncrementer(t)
  \/ demo = "sharedMutex" /\ (calendar_reader(t) \/ calendar_writer(t))

\* What main prints after it has joined the threads.
Counted ==
  /\ demo = "dataRace" => mem.count \in 2 .. 2 * Laps
  /\ demo \in {"mutex", "atomic"} => mem.count = 2 * Laps
  /\ demo = "recursive" => mem.count1 = 4 * Laps /\ mem.count2 = 2 * Laps
                           /\ mem.depth = 0
  /\ demo = "tryLock" => /\ mem.count > Goal
                         /\ mem.count + mem.own[1] + mem.own[2] = mem.ticks
  /\ demo = "sharedMutex" => mem.today = (2 * Laps) % 7

\* A writer is alone with the calendar.
WriterAlone ==
  demo = "sharedMutex" =>
    \A w \in Writers : at[w] = "write" =>
      \A t \in DOMAIN at \ {w} : at[t] \notin {"read", "write"}
-----------------------------------------------------------------------------
\* while (inventory > 0)
While(t) ==
  Goes(t, "start", IF mem.inventory > 0 THEN "lock" ELSE "done", mem)

Take(t, memory) ==
  IF memory.inventory = 0 THEN memory
  ELSE [memory EXCEPT !.inventory = @ - 1, !.taken[t] = @ + 1]

\* DeadlockDemo: scoped_lock takes both mutexes, in any order, or none.
consumerBoth(t) ==
  \/ While(t)
  \/ /\ Free("lockA") /\ Free("lockB")
     /\ Goes(t, "lock", "in", [mem EXCEPT !.owner = [m \in Mutexes |-> t]])
  \/ Goes(t, "in", "start", [Take(t, mem) EXCEPT
                               !.owner = [m \in Mutexes |-> Nobody]])

\* AdandonedlockDemo, despite its name, gives the lock back as it breaks.
consumerLeaves(t) ==
  \/ While(t)
  \/ Free("lockA") /\ Goes(t, "lock", "in", Locked(t, "lockA"))
  \/ LET after == Take(t, Unlocked("lockA")) IN
     Goes(t, "in", IF after.inventory = Quit THEN "done" ELSE "start", after)

consumerStarves(t) ==
  \/ While(t)
  \/ Free("lockA") /\ Goes(t, "lock", "in", Locked(t, "lockA"))
  \/ Goes(t, "in", "start", Take(t, Unlocked("lockA")))

\* LivelockDemo: every other thread takes the mutexes the other way round.
First(t) == IF t % 2 = 0 THEN "lockA" ELSE "lockB"
Second(t) == IF t % 2 = 0 THEN "lockB" ELSE "lockA"
consumerPolite(t) ==
  \/ While(t)
  \/ Free(First(t)) /\ Goes(t, "lock", "try", Locked(t, First(t)))
  \/ ~Free(Second(t)) /\ Goes(t, "try", "start", Unlocked(First(t)))
  \/ Free(Second(t)) /\ Goes(t, "try", "in", Locked(t, Second(t)))
  \/ Goes(t, "in", "first", Take(t, Unlocked(Second(t))))
  \/ Goes(t, "first", "start", Unlocked(First(t)))

\* ConditionVariableBusyWaitingDemo: the two threads take turns.
takeInventoryBusyWait(t) ==
  \/ While(t)
  \/ /\ Free("lockA")
     /\ Goes(t, "lock", "start",
             IF t = mem.inventory % 2 THEN Take(t, mem) ELSE mem)

\* ConditionVariableDemo: a thread waits while the turn is its own.
NotMine(t) == ~(t = mem.inventory % Cardinality(DOMAIN at) /\ mem.inventory > 0)
takeInventoryWaiting(t) ==
  \/ While(t)
  \/ Awake(t) /\ Free("lockA") /\ ~NotMine(t)
       /\ Goes(t, "lock", "lock", Asleep(t))
  \/ Awake(t) /\ Free("lockA") /\ NotMine(t) /\ mem.inventory > 0
       /\ Goes(t, "lock", "notify", Take(t, mem))
  \/ Awake(t) /\ Free("lockA") /\ mem.inventory = 0
       /\ Goes(t, "lock", "start", mem)
  \/ Goes(t, "notify", "start", NotifyAll(mem))
-----------------------------------------------------------------------------
InventoryOf(ids) == [inventory |-> Stock, taken |-> [t \in ids |-> 0]]
deadlockDemo == Calls("deadlock", Consumers, InventoryOf(Consumers))
abandonedLockDemo == Calls("abandoned", Consumers, InventoryOf(Consumers))
starvationDemo == Calls("starvation", Consumers, InventoryOf(Consumers))
livelockDemo == Calls("livelock", Consumers, InventoryOf(Consumers))
busyWaitDemo == Calls("busyWait", {0, 1}, InventoryOf({0, 1}))
conditionVariableDemo == Calls("condVar", Consumers, InventoryOf(Consumers))

InventoryInit == deadlockDemo \/ abandonedLockDemo \/ starvationDemo
                 \/ livelockDemo \/ busyWaitDemo \/ conditionVariableDemo

InventoryStep(t) ==
  \/ demo = "deadlock" /\ consumerBoth(t)
  \/ demo = "abandoned" /\ consumerLeaves(t)
  \/ demo = "starvation" /\ consumerStarves(t)
  \/ demo = "livelock" /\ consumerPolite(t)
  \/ demo = "busyWait" /\ takeInventoryBusyWait(t)
  \/ demo = "condVar" /\ takeInventoryWaiting(t)

\* "There is no inventory left", and every item was taken once.
Emptied ==
  "inventory" \in DOMAIN mem =>
    /\ mem.inventory = 0
    /\ MapThenSumSet(LAMBDA t : mem.taken[t], DOMAIN at) = Stock

-----------------------------------------------------------------------------
(* atomic.cpp: what the memory orders of two atomics let a reader see.  A  *)
(* location is the list of its writes; a thread has, for each location,    *)
(* the oldest write it may still read.  A release write carries what its   *)
(* writer has seen, and an acquire read takes it over.  Sequentially       *)
(* consistent operations all go through one view.                          *)

Bools == {"x", "y"}
Oldest == [l \in Bools |-> 1]
Joint(v, w) == [l \in Bools |-> IF v[l] > w[l] THEN v[l] ELSE w[l]]

Written(l) == 1 + Len(mem.writes[l])

\* x.store(true, order): first comes the initial FALSE, which is no write.
store(t, from, to, l, order) ==
  LET mine == [Joint(mem.view[t], IF order = "seq_cst" THEN mem.all ELSE Oldest)
                 EXCEPT ![l] = Written(l) + 1]
      carried == IF order = "relaxed" THEN [Oldest EXCEPT ![l] = mine[l]]
                 ELSE mine
  IN  Goes(t, from, to,
           [mem EXCEPT !.writes[l] = Append(@, carried), !.view[t] = mine,
                       !.all = IF order = "seq_cst" THEN mine ELSE @])

\* load(order): any write since the oldest one the thread may read.
load(t, from, l, order, seen, unseen) ==
  \E i \in mem.view[t][l] .. Written(l) :
    LET carried == IF i = 1 \/ order = "relaxed" THEN [Oldest EXCEPT ![l] = i]
                   ELSE mem.writes[l][i - 1]
    IN  /\ order = "seq_cst" => i >= mem.all[l]
        /\ Goes(t, from, IF i > 1 THEN seen ELSE unseen,
                [mem EXCEPT !.view[t] = Joint(@, carried)])
-----------------------------------------------------------------------------
\* Per function: the orders of the writes of x and y, and of a reader's two
\* reads.  Of happenbefore, x is the vector, which is no atomic at all, and y
\* is dataReady.  Nothing depends on what the consume reads.
memoryorderingsequentialconsistent ==
  [x |-> "seq_cst", y |-> "seq_cst", first |-> "seq_cst", second |-> "seq_cst"]
happenbefore ==
  [x |-> "relaxed", y |-> "seq_cst", first |-> "seq_cst", second |-> "relaxed"]
memoryorderingrelaxed ==
  [x |-> "relaxed", y |-> "relaxed", first |-> "relaxed", second |-> "relaxed"]
syncwith ==
  [x |-> "relaxed", y |-> "release", first |-> "acquire", second |-> "relaxed"]
memoryorderconsume ==
  [x |-> "relaxed", y |-> "release", first |-> "relaxed", second |-> "relaxed"]

Orders == [seq_cst |-> memoryorderingsequentialconsistent,
           happenbefore |-> happenbefore, relaxed |-> memoryorderingrelaxed,
           syncwith |-> syncwith, consume |-> memoryorderconsume]

writeXThenY(t) ==
  /\ t = "writeXThenY"
  /\ \/ store(t, "start", "y", "x", Orders[demo].x)
     \/ store(t, "y", "done", "y", Orders[demo].y)
writeX(t) == t = "writeX" /\ store(t, "start", "done", "x", Orders[demo].x)
writeY(t) == t = "writeY" /\ store(t, "start", "done", "y", Orders[demo].y)

\* while (!first.load()); if (second.load()) z++;
Reads(t, first, second) ==
  \/ load(t, "start", first, Orders[demo].first, "second", "start")
  \/ load(t, "second", second, Orders[demo].second, "z", "done")
  \/ Goes(t, "z", "done", [mem EXCEPT !.z = @ + 1])
readXThenY(t) == t = "readXThenY" /\ Reads(t, "x", "y")
readYThenX(t) == t = "readYThenX" /\ Reads(t, "y", "x")

\* compare_exchange_weak may fail although the value is the expected one.
compareandexchange(t) ==
  \E ok \in BOOLEAN :
    Goes(t, "start", "done", [mem EXCEPT !.returnVal = ok,
                                         !.x = IF ok THEN 6 ELSE @])
-----------------------------------------------------------------------------
OrdersInit ==
  \/ \E d \in DOMAIN Orders :
       LET ids == IF d = "seq_cst"
                      THEN {"writeX", "writeY", "readXThenY", "readYThenX"}
                      ELSE {"writeXThenY", "readYThenX"}
       IN  Calls(d, ids, [writes |-> [l \in Bools |-> <<>>], all |-> Oldest,
                              view |-> [t \in ids |-> Oldest], z |-> 0])
  \/ Calls("exchange", {"main"}, [x |-> 20, expectedValue |-> 20,
                                  returnVal |-> FALSE])

OrdersStep(t) ==
  \/ demo \in DOMAIN Orders /\ (writeXThenY(t) \/ writeX(t) \/ writeY(t)
                                \/ readXThenY(t) \/ readYThenX(t))
  \/ demo = "exchange" /\ compareandexchange(t)

\* With sequential consistency one reader at least counts; what is written
\* before a release is there after the acquire; a relaxed read may miss it.
Visible ==
  /\ demo = "seq_cst" => mem.z \in {1, 2}
  /\ demo \in {"syncwith", "happenbefore"} => mem.z = 1
  /\ demo = "exchange" => (mem.x = 6 <=> mem.returnVal)
=============================================================================
