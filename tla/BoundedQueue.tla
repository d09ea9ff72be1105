---------------------------- MODULE BoundedQueue ----------------------------
(***************************************************************************)
(* What a hardware FIFO promises: a queue of at most Capacity words and    *)
(* the word handed out last.  One clock edge may add a word, hand out the  *)
(* oldest one, do both, or forget everything.                              *)
(***************************************************************************)
EXTENDS Naturals, Sequences

CONSTANTS Data,      \* the words a client can write
          Capacity   \* how many words the queue holds

VARIABLES queue,     \* the stored words, oldest first
          out        \* the word handed out last

Init == /\ queue = <<>>
        /\ out \notin Data

Push(d) == /\ Len(queue) < Capacity
           /\ queue' = Append(queue, d)
           /\ out' = out

Pop == /\ queue # <<>>
       /\ queue' = Tail(queue)
       /\ out' = Head(queue)

PushPop(d) == /\ queue # <<>>
              /\ Len(queue) < Capacity
              /\ queue' = Append(Tail(queue), d)
              /\ out' = Head(queue)

Clear == /\ queue' = <<>>
         /\ out' = out

Next == \/ \E d \in Data : Push(d) \/ PushPop(d)
        \/ Pop
        \/ Clear

Spec == Init /\ [][Next]_<<queue, out>>
=============================================================================
