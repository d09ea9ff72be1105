----------------------------- MODULE Containers -----------------------------
(***************************************************************************)
(* cpp-concepts: the trie of tree.cpp, which scores strings by the genes   *)
(* in them; Vector of vector.cpp, with its capacity and reallocations; the *)
(* three ways unique.cpp drops the duplicates of a sorted list; and two    *)
(* trees of binary_search_tree.cpp with a client that inserts, clears and  *)
(* moves them, and that walks one of them while it goes on inserting.  The *)
(* members of the tree that do not compile (copies, erase and count) are   *)
(* left out.                                                               *)
(***************************************************************************)
EXTENDS Threads, SequencesExt

CONSTANTS Genes,     \* what a gene may be: sequences of letters
          Strings,   \* the strings that are scored
          NumGenes,  \* n
          Queries,   \* s
          Elements,  \* what is put into a vector and into a list
          MaxSize,   \* the vector's size at most
          VectorChanges, \* how often the vector is changed
          MaxList,   \* the length of a list at most
          Values,    \* what is inserted into a tree
          TreeChanges \* how often the client inserts, clears or moves

\* The program's input: a line of words with a blank between them, and
\* perhaps more at its end.
Blank == " "
Blanks(n) == [i \in 1 .. n |-> Blank]
Line(words, n) ==
  FoldLeft(LAMBDA line, w : line \o Blanks(1) \o w, Head(words), Tail(words))
    \o Blanks(n)
BlanksOf(str) == {i \in DOMAIN str : str[i] = Blank}
rtrim(str) == SubSeq(str, 1, Max({0} \cup (DOMAIN str \ BlanksOf(str))))
\* A token ends before a blank, or with the line.
split(str) ==
  LET ends == SetToSortSeq(BlanksOf(str) \cup {Len(str) + 1}, <)
      start(i) == IF i = 1 THEN 1 ELSE ends[i - 1] + 1
  IN [i \in DOMAIN ends |-> SubSeq(str, start(i), ends[i] - 1)]

\* A node is the path to it.  The nodes along the word are added, and its
\* index and score go to the last one.
addWord(trie, word, score, idx) ==
  LET along == {SubSeq(word, 1, i) : i \in DOMAIN word}
      health(p) == IF p \in DOMAIN trie THEN trie[p] ELSE <<>>
  IN [p \in DOMAIN trie \cup along |->
        IF p = word THEN Append(health(p), <<idx, score>>) ELSE health(p)]

\* The sum of a node's scores, up to the index last, where the loop breaks.
nodeScore(health, first, last) ==
  LET upTo == Min({Len(health)}
                  \cup {i \in DOMAIN health : health[i][1] = last})
  IN MapThenSumSet(LAMBDA i : health[i][2],
                   {i \in 1 .. upTo : health[i][1] \in first .. last})
\* From every position of d, down the trie as long as there is a child.
getScore(trie, first, last, d) ==
  LET spans == {s \in (DOMAIN d) \X (DOMAIN d) :
                  /\ s[1] <= s[2]
                  /\ \A k \in s[1] .. s[2] : SubSeq(d, s[1], k) \in DOMAIN trie}
      score(s) == nodeScore(trie[SubSeq(d, s[1], s[2])], first, last)
  IN MapThenSumSet(score, spans)

\* Main reads the genes, builds the trie and answers the queries.
readGenes ==
  /\ mem.genes = <<>>
  /\ Goes("main", "start", "start",
          [mem EXCEPT !.genes = SubSeq(split(rtrim(mem.line)), 1, NumGenes)])
createNode ==
  /\ mem.genes # <<>> /\ mem.added < NumGenes
  /\ LET i == mem.added
         root == addWord(mem.trie, mem.genes[i + 1], mem.health[i + 1], i)
     IN Goes("main", "start", "start",
             [mem EXCEPT !.trie = root, !.added = @ + 1])
query(first, last, d) ==
  /\ mem.added = NumGenes /\ mem.asked < Queries
  /\ LET score == getScore(mem.trie, first, last, d)
     IN Goes("main", "start", "start",
             [mem EXCEPT !.asked = @ + 1,
                !.questions = @ \cup {<<first, last, d>>},
                !.max = IF score > @ \/ mem.asked = 0 THEN score ELSE @,
                !.min = IF score < @ \/ mem.asked = 0 THEN score ELSE @])
Answered ==
  mem.asked = Queries /\ Goes("main", "start", "done", mem)

GenesInit ==
  \E genes \in [1 .. NumGenes -> Genes], n \in {0, 1} :
    Calls("genes", {"main"},
          [words |-> genes, line |-> Line(genes, n), genes |-> <<>>,
           health |-> [i \in 1 .. NumGenes |-> 2 ^ i], trie |-> <<>>,
           added |-> 0, asked |-> 0, questions |-> {}, min |-> 0, max |-> 0])
GenesStep(t) ==
  /\ demo = "genes" /\ t = "main"
  /\ \/ readGenes \/ createNode \/ Answered
     \/ \E l \in 0 .. NumGenes - 1 : \E f \in 0 .. l, d \in Strings :
          query(f, l, d)
-----------------------------------------------------------------------------
\* Vector, and the list it should be.
Junk == 0 - 1   \* what new T[] leaves in memory
T0 == 0         \* T()
Array(n, values) == [i \in 1 .. n |->
                       IF i <= Len(values) THEN values[i] ELSE Junk]
List == SubSeq(mem.mData, 1, mem.mSize)
Held(capacity, list) == [mData |-> Array(capacity, list),
                         mCapacity |-> capacity, mSize |-> Len(list)]

\* Never less than what is asked for, and otherwise twice what there was.
Grow(size) == IF size <= mem.mCapacity THEN mem.mCapacity
              ELSE Max({size, 2 * mem.mCapacity})
Resized(size, init) ==
  [mData |-> [i \in 1 .. Grow(size) |->
                IF i \in mem.mSize + 1 .. size THEN init
                ELSE IF i <= mem.mCapacity THEN mem.mData[i] ELSE Junk],
   mCapacity |-> Grow(size), mSize |-> size]

Changed(vector, list) ==
  /\ mem.changes > 0
  /\ Goes("main", "start", "start",
          vector @@ [list |-> list, changes |-> mem.changes - 1] @@ mem)
Put(vector, value) == [vector EXCEPT !.mData[vector.mSize] = value]
Repeat(n, value) == [i \in 1 .. n |-> value]

\* A new size below zero is one of zero.
resize(size, init) ==
  Changed(Resized(Max({size, 0}), init),
          SubSeq(mem.list, 1, Min({Max({size, 0}), Len(mem.list)}))
            \o Repeat(size - Len(mem.list), init))
push_back(value) ==
  /\ mem.mSize < MaxSize
  /\ Changed(Put(Resized(mem.mSize + 1, T0), value), Append(mem.list, value))
\* vec.push_back(vec[i]), not in a full vector: the reallocation would free
\* the element before it is read.
pushElement(i) ==
  /\ mem.mSize < MaxSize /\ mem.mSize < mem.mCapacity
  /\ Changed(Put(Resized(mem.mSize + 1, T0), mem.mData[i]),
             Append(mem.list, mem.list[i]))
pop_back ==
  Changed([mSize |-> Max({mem.mSize - 1, 0})],
          SubSeq(mem.list, 1, Len(mem.list) - 1))
clear == Changed([mSize |-> 0], <<>>)
\* The copy has the capacity, and goes on in place of the vector.
copy == Changed(Held(mem.mCapacity, List), mem.list)
\* at(i) throws for what is not an index, or shows the element.
at_(i) ==
  /\ mem.changes = 0
  /\ IF i < 0 \/ i >= mem.mSize THEN Goes("main", "start", "threw", mem)
     ELSE Goes("main", "start", "done",
               [mem EXCEPT !.seen = <<i, mem.mData[i + 1]>>])

VectorInit ==
  \E list \in SeqOf(Elements, 2) :
    Calls("vector", {"main"}, Held(Len(list), list) @@
          [list |-> list, changes |-> VectorChanges, seen |-> <<>>])
VectorStep(t) ==
  /\ demo = "vector" /\ t = "main"
  /\ \/ \E n \in -1 .. MaxSize, e \in Elements : resize(n, e)
     \/ \E e \in Elements : push_back(e)
     \/ \E i \in 1 .. mem.mSize : pushElement(i)
     \/ pop_back \/ clear \/ copy
     \/ \E i \in -1 .. mem.mSize : at_(i)
-----------------------------------------------------------------------------
\* Uniq compares the first two; Uniq2 uses std::unique; Uniq3 is Uniq again,
\* as a function.
RECURSIVE Uniq(_)
Uniq(list) ==
  IF Len(list) < 2 THEN list
  ELSE IF list[1] = list[2] THEN Uniq(<<list[1]>> \o SubSeq(list, 3, Len(list)))
       ELSE <<list[1]>> \o Uniq(Tail(list))
Uniq2(list) ==
  LET keep(kept, e) == IF kept # <<>> /\ Last(kept) = e THEN kept
                       ELSE Append(kept, e)
  IN FoldLeft(keep, <<>>, list)
RECURSIVE Uniq3(_)
Uniq3(list) ==
  CASE Len(list) = 1 -> list
    [] Len(list) > 1 /\ list[1] = list[2] ->
         Uniq3(<<list[1]>> \o SubSeq(list, 3, Len(list)))
    [] OTHER -> <<list[1]>> \o Uniq3(Tail(list))

UniqInit ==
  \E list \in SeqOf(Elements, MaxList) \ {<<>>} :
    Calls("unique", {"main"}, [given |-> list, results |-> <<>>])
UniqStep(t) ==
  /\ demo = "unique" /\ t = "main"
  /\ Goes("main", "start", "done",
          [mem EXCEPT !.results = <<Uniq(mem.given), Uniq2(mem.given),
                                    Uniq3(mem.given)>>])
-----------------------------------------------------------------------------
\* What is printed is the least and the greatest of the scores, each the sum
\* over the wanted genes, as often as they are in the string.
Occurrences(gene, d) ==
  Cardinality({i \in 1 .. Len(d) - Len(gene) + 1 :
                 SubSeq(d, i, i + Len(gene) - 1) = gene})
Score(q) ==
  MapThenSumSet(LAMBDA i : Occurrences(mem.words[i], q[3]) * mem.health[i],
                q[1] + 1 .. q[2] + 1)
Scored ==
  demo = "genes" /\ at["main"] = "done" =>
    LET scores == {Score(q) : q \in mem.questions}
    IN mem.min = Min(scores) /\ mem.max = Max(scores)

\* The elements are those of the list, whatever reallocations there were,
\* and no index inside it is out of range.
LikeAList ==
  demo = "vector" =>
    /\ List = mem.list /\ mem.mSize <= mem.mCapacity
    /\ at["main"] = "done" =>
         mem.seen[2] = mem.list[mem.seen[1] + 1]

\* The three agree, on what has no two equal neighbours.
Agreed ==
  demo = "unique" /\ at["main"] = "done" =>
    LET starts == {i \in DOMAIN mem.given :
                     i = 1 \/ mem.given[i] # mem.given[i - 1]}
        runs == SetToSortSeq(starts, <)
    IN \A k \in 1 .. 3 :
         mem.results[k] = [j \in DOMAIN runs |-> mem.given[runs[j]]]
Contents == Scored /\ LikeAList /\ Agreed
-----------------------------------------------------------------------------
(* binary_search_tree.cpp. *)

null == 0
Node(value, parent) ==
  [mValue |-> value, mLeft |-> null, mRight |-> null, mParent |-> parent]
BinarySearchTree == [mRoot |-> null, mFirst |-> null, mNumNodes |-> 0]
Trees == {"a", "b"}

\* operator new: an address no node has.
Unused(heap) == Min((1 .. 1 + Cardinality(DOMAIN heap)) \ DOMAIN heap)

\* Where the value is, or would be.
Side(node, value) == IF value < node.mValue THEN "mLeft" ELSE "mRight"
search(heap, root, value) ==
  LET from[n \in DOMAIN heap \cup {null}] ==
        IF n = null \/ heap[n].mValue = value THEN n
        ELSE from[heap[n][Side(heap[n], value)]]
  IN from[root]
Parent(heap, root, value) ==
  LET from[n \in DOMAIN heap] ==
        LET child == heap[n][Side(heap[n], value)]
        IN IF child = null THEN n ELSE from[child]
  IN IF root = null THEN null ELSE from[root]

\* The tree and the heap with one more node, for a value the tree lacks.
Linked(heap, parent, node) ==
  [n \in DOMAIN heap |->
     IF n # parent THEN heap[n]
     ELSE [heap[n] EXCEPT ![Side(heap[n], node[2])] = node[1]]]
Grown(tree, heap, value, parent) ==
  LET new == Unused(heap)
      first == tree.mFirst = null \/ value < heap[tree.mFirst].mValue
  IN [tree |-> [mRoot |-> IF tree.mRoot = null THEN new ELSE tree.mRoot,
                mFirst |-> IF first THEN new ELSE tree.mFirst,
                mNumNodes |-> tree.mNumNodes + 1],
      heap |-> Linked(heap, parent, <<new, value>>)
                 @@ (new :> Node(value, parent))]
add(tree, heap, value) ==
  Grown(tree, heap, value, Parent(heap, tree.mRoot, value))

Nodes(heap, root) ==
  LET under[n \in DOMAIN heap \cup {null}] ==
        IF n = null THEN {}
        ELSE {n} \cup under[heap[n].mLeft] \cup under[heap[n].mRight]
  IN under[root]
freeAllNodes(heap, root) == Restrict(heap, DOMAIN heap \ Nodes(heap, root))
ValuesOf(heap, tree) == {heap[n].mValue : n \in Nodes(heap, tree.mRoot)}

leftmost(heap, node) ==
  LET from[n \in DOMAIN heap] ==
        IF heap[n].mLeft = null THEN n ELSE from[heap[n].mLeft]
  IN from[node]
climb(heap, node) ==
  LET from[n \in DOMAIN heap] ==
        LET up == heap[n].mParent
        IN IF up = null \/ heap[up].mRight # n THEN up ELSE from[up]
  IN from[node]
inorderSuccessor(heap, node) ==
  IF heap[node].mRight # null THEN leftmost(heap, heap[node].mRight)
  ELSE climb(heap, node)
-----------------------------------------------------------------------------
Called == [mem EXCEPT !.calls = @ - 1]
Uses(memory) == mem.calls > 0 /\ Goes("main", at["main"], at["main"], memory)
Walked(x) == at["main"] = "walking" /\ mem.walked = x

insert(x, value) ==
  LET new == add(mem.tree[x], mem.heap, value)
  IN IF search(mem.heap, mem.tree[x].mRoot, value) # null THEN Uses(Called)
     ELSE Uses([Called EXCEPT !.heap = new.heap, !.tree[x] = new.tree])

\* Neither clears nor assigns to the tree its iterator is in.
clearTree(x) ==
  /\ ~Walked(x)
  /\ Uses([Called EXCEPT !.heap = freeAllNodes(@, mem.tree[x].mRoot),
                         !.tree[x] = BinarySearchTree])
moveAssign(x, y) ==
  /\ x # y /\ ~Walked(x)
  /\ Uses([Called EXCEPT !.heap = freeAllNodes(@, mem.tree[x].mRoot),
                         !.tree = [@ EXCEPT ![x] = mem.tree[y],
                                            ![y] = BinarySearchTree],
                         !.walked = IF Walked(y) THEN x ELSE @])

\* for_each from begin() to end().
begin(x) ==
  Goes("main", "start", "walking",
       [mem EXCEPT !.walked = x, !.it = mem.tree[x].mFirst,
                   !.before = ValuesOf(mem.heap, mem.tree[x])])
Increment ==
  /\ mem.it # null
  /\ Goes("main", "walking", "walking",
          [mem EXCEPT !.printed = Append(@, mem.heap[mem.it].mValue),
                      !.it = inorderSuccessor(mem.heap, @)])
end == mem.it = null /\ Goes("main", "walking", "walked", mem)

\* The destructors, at the end of main.
destroy ==
  Goes("main", "walked", "done",
       [mem EXCEPT !.tree = [x \in Trees |-> BinarySearchTree],
                   !.heap = freeAllNodes(freeAllNodes(@, mem.tree["a"].mRoot),
                                         mem.tree["b"].mRoot)])

TreeInit ==
  Calls("tree", {"main"},
        [heap |-> <<>>, tree |-> [x \in Trees |-> BinarySearchTree],
         calls |-> TreeChanges, walked |-> "a", it |-> null, before |-> {},
         printed |-> <<>>])

Mutates(x) == (\E v \in Values : insert(x, v)) \/ clearTree(x)
              \/ (\E y \in Trees : moveAssign(x, y))
TreeStep(t) ==
  /\ demo = "tree" /\ t = "main"
  /\ \/ at[t] \in {"start", "walking"} /\ \E x \in Trees : Mutates(x)
     \/ (\E x \in Trees : begin(x)) \/ Increment \/ end \/ destroy
-----------------------------------------------------------------------------
\* The pointers agree: what is allocated is in one of the trees, the count
\* and the first node are those of the nodes, children know their parent.
Agree(x) ==
  LET tree == mem.tree[x]
      nodes == Nodes(mem.heap, tree.mRoot)
      value(n) == mem.heap[n].mValue
  IN /\ tree.mNumNodes = Cardinality(nodes)
     /\ tree.mFirst = null <=> nodes = {}
     /\ \A n \in nodes : value(tree.mFirst) <= value(n)
     /\ \A n \in nodes : \A c \in {mem.heap[n].mLeft, mem.heap[n].mRight} :
          c # null => mem.heap[c].mParent = n
WellFormed ==
  demo = "tree" => /\ \A x \in Trees : Agree(x)
                   /\ DOMAIN mem.heap =
                        UNION {Nodes(mem.heap, mem.tree[x].mRoot) : x \in Trees}

\* A walk goes up, sees all that was there when it began, and nothing that
\* is not there.
InOrderWalk ==
  demo = "tree" =>
    /\ \A i, j \in DOMAIN mem.printed : i < j => mem.printed[i] < mem.printed[j]
    /\ at["main"] = "walked" => mem.before \subseteq Range(mem.printed)
    /\ at["main"] # "done" =>
         Range(mem.printed) \subseteq ValuesOf(mem.heap, mem.tree[mem.walked])
=============================================================================
