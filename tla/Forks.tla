------------------------------- MODULE Forks --------------------------------
(***************************************************************************)
(* cpp-concepts: what is divided, worked on in parallel and joined.  The   *)
(* two sorts of quick_sort.cpp, parallelFind of parallel_find.cpp and the  *)
(* three sums: recursiveSum (parallel2.cpp) and the two parallelAccumulate *)
(* (concurrency_condition_variables.cpp, concurrency_threads.cpp).         *)
(***************************************************************************)
EXTENDS Threads, SequencesExt

CONSTANTS Unsorted,     \* the lists to sort
          Length,       \* of the ranges to search and to sum up, at most
          minPerThread, \* 10000: what one thread searches, at least
          MaxDepth,     \* 3: how often recursiveSum divides, less one
          MIN_ELEMENT_COUNT,    \* 1000: no more are summed by one thread
          sMinBlockSize,        \* 1000: each thread sums as many
          hardware_concurrency  \* how many threads there may be

\* quick_sort.cpp: the lists main has in hand, from left to right.  A list is
\* divided in three, its first element in the middle; std::partition leaves
\* the others in any order.  Both sorts finish the lower part before they
\* begin the upper one: parallelQuickSort starts its thread after that.
Unfinished == {i \in DOMAIN mem.lists : Len(mem.lists[i]) >= 2}
Shuffles(list) ==
  {[i \in DOMAIN list |-> list[p[i]]] : p \in Permutations(DOMAIN list)}
Parts(list) ==
  LET pivot == Head(list)
      lower == SelectSeq(Tail(list), LAMBDA e : e < pivot)
      upper == SelectSeq(Tail(list), LAMBDA e : e >= pivot)
  IN {<<l, <<pivot>>, u>> : l \in Shuffles(lower), u \in Shuffles(upper)}
quickSort(t) ==
  /\ demo = "sort" /\ t = "main"
  /\ \/ /\ Unfinished # {}
        /\ LET i == Min(Unfinished)
           IN \E parts \in Parts(mem.lists[i]) :
                Goes(t, "start", "start",
                     [mem EXCEPT !.lists = SubSeq(@, 1, i - 1) \o parts
                                            \o SubSeq(@, i + 1, Len(@))])
     \/ /\ Unfinished = {}
        /\ Goes(t, "start", "done",
                [mem EXCEPT !.result = FlattenSeq(mem.lists)])
SortInit ==
  \E list \in Unsorted :
    Calls("sort", {"main"},
          [given |-> list, lists |-> <<list>>, result |-> <<>>])
-----------------------------------------------------------------------------
\* parallel_find.cpp: the ranges the threads search, and where the first of
\* them that has found it has: a range that has not is answered by its end.
RECURSIVE Searched(_, _)
Searched(first, last) ==
  IF last - first < minPerThread THEN <<<<first, last>>>>
  ELSE LET mid == first + (last - first) \div 2
       IN Searched(first, mid) \o Searched(mid, last)
RECURSIVE Answer(_, _)
Answer(first, last) ==
  LET length == last - first
      mid == first + length \div 2
      direct == Answer(first, mid)
  IN IF length < minPerThread
     THEN LET i == CHOOSE i \in DOMAIN mem.ranges :
                     mem.ranges[i] = <<first, last>>
          IN mem.found[i]
     ELSE IF direct = mid THEN Answer(mid, last) ELSE direct

\* A thread goes on as long as the flag is set, and sets it when it has found.
parallelFind(t) ==
  /\ demo = "find" /\ t \in DOMAIN mem.ranges
  /\ LET first == mem.found[t]
         last == mem.ranges[t][2]
     IN \/ /\ first = last \/ ~mem.done
           /\ Goes(t, "start", "done", [mem EXCEPT !.found[t] = last])
        \/ first # last /\ mem.done /\ Goes(t, "start", "compare", mem)
        \/ /\ first = mem.match
           /\ Goes(t, "compare", "done", [mem EXCEPT !.done = TRUE])
        \/ /\ first # mem.match
           /\ Goes(t, "compare", "start", [mem EXCEPT !.found[t] = @ + 1])
FindInit ==
  \E length \in 1 .. Length : \E match \in 0 .. length - 1 :
    LET ranges == Searched(0, length)
    IN Calls("find", DOMAIN ranges,
             [ranges |-> ranges, match |-> match, length |-> length,
              found |-> [i \in DOMAIN ranges |-> ranges[i][1]],
              done |-> FALSE])
-----------------------------------------------------------------------------
\* The blocks each way of summing up cuts a range into.
RECURSIVE recursiveSum(_, _, _)
recursiveSum(lo, hi, depth) ==
  IF depth > MaxDepth THEN <<<<lo, hi>>>>
  ELSE LET mid == (hi + lo) \div 2
       IN recursiveSum(lo, mid, depth + 1) \o recursiveSum(mid, hi, depth + 1)
RECURSIVE accumulateHalves(_, _)
accumulateHalves(begin, end) ==
  IF end - begin <= MIN_ELEMENT_COUNT THEN <<<<begin, end>>>>
  ELSE LET mid == begin + (end - begin + 1) \div 2
       IN accumulateHalves(begin, mid) \o accumulateHalves(mid, end)
numThreads(size) == Min({size \div sMinBlockSize, hardware_concurrency})
accumulateBlocks(size) ==
  LET n == numThreads(size)
      block == (size + 1) \div n
  IN [i \in 1 .. n |-> <<(i - 1) * block, IF i = n THEN size ELSE i * block>>]

\* Each block is summed by a thread, and main adds the sums up when it has
\* joined them.  For fewer than sMinBlockSize elements it divides by zero.
sum(block) == MapThenSumSet(LAMBDA i : i, block[1] .. block[2] - 1)
accumulate(t) ==
  /\ demo = "sum" /\ t \in DOMAIN mem.blocks
  /\ Goes(t, "start", "done", [mem EXCEPT !.results[t] = sum(mem.blocks[t])])
caller == 0
joinAll(t) ==
  /\ demo = "sum" /\ t = caller /\ \A i \in DOMAIN mem.blocks : at[i] = "done"
  /\ Goes(t, "start", "done",
          [mem EXCEPT !.total = FoldLeft(LAMBDA x, y : x + y, 0, mem.results)])
SumInit ==
  \E size \in 0 .. Length :
    LET halves == {recursiveSum(0, size, 0), accumulateHalves(0, size)}
        blocks == IF numThreads(size) = 0 THEN {} ELSE {accumulateBlocks(size)}
    IN \E cut \in halves \cup blocks :
         Calls("sum", DOMAIN cut \cup {caller},
               [blocks |-> cut, size |-> size, total |-> 0,
                results |-> [i \in DOMAIN cut |-> 0]])

ForksStep(t) == quickSort(t) \/ parallelFind(t) \/ accumulate(t) \/ joinAll(t)
-----------------------------------------------------------------------------
\* The list comes out in order, with the elements that went in.
Count(list, e) == Cardinality({i \in DOMAIN list : list[i] = e})
Sorted ==
  demo = "sort" /\ Done =>
    LET r == mem.result
    IN /\ \A i \in 1 .. Len(r) - 1 : r[i] <= r[i + 1]
       /\ \A e \in ToSet(mem.given) \cup ToSet(r) :
            Count(r, e) = Count(mem.given, e)

\* The flag starts false (parallel_find.cpp:8), so that no thread compares
\* anything: whatever the search is cut into, its answer is the end of the
\* range, although the match is in it.
NeverFound ==
  demo = "find" /\ Done => Answer(0, mem.length) = mem.length

\* Every element is summed up once, however the range is cut, where a way of
\* cutting it is defined at all (joinAll).
Summed ==
  demo = "sum" /\ Done => mem.total = sum(<<0, mem.size>>)
Reunited == Sorted /\ NeverFound /\ Summed
=============================================================================
