---------------------------- MODULE LinkedQueue ----------------------------
(***************************************************************************)
(* hw2/libs/queue/queue.c: a doubly linked list with a dummy node at its   *)
(* tail.  next points towards the head, prev towards the tail, which never *)
(* moves; the list is empty when head and tail are the same node.          *)
(*                                                                         *)
(* push and pop are two steps each, because the thread pool reads head     *)
(* while another thread is inside them: Begin is everything before the     *)
(* head can be seen to move (push) or up to the move (pop), End the rest.  *)
(***************************************************************************)
EXTENDS Integers, Sequences

CONSTANTS Data,   \* what is pushed
          Nodes   \* the addresses malloc can return

NULL == 0
Dummy == 1        \* create_queue's dummy node

VARIABLES
  node,   \* the heap: what is at each address
  live,   \* the addresses that malloc returned and free did not take back
  head,
  size,
  op      \* the push or pop under way

queueVars == <<node, live, head, size, op>>

tail == Dummy     \* q->tail is never assigned after create_queue

Node == [next : Nodes \cup {NULL}, prev : Nodes \cup {NULL}, data : Data \cup {NULL}]
NullNode == [next |-> NULL, prev |-> NULL, data |-> NULL]
Idle == [kind |-> "idle", node |-> NULL, temp |-> NULL]

is_q_empty == head = tail

QueueInit ==
  /\ node = [a \in Nodes |-> NullNode]
  /\ live = {Dummy}
  /\ head = Dummy
  /\ size = 0
  /\ op = Idle

\* A plausible slip: the new node does not point back to the dummy.
MutantPushBegin(d) ==
  /\ op = Idle
  /\ \E a \in Nodes \ live :
       /\ node' = [node EXCEPT
            ![a]         = [next |-> node[tail].next, prev |-> NULL, data |-> d],
            ![tail].next = a]
       /\ live' = live \cup {a}
       /\ op' = [kind |-> "push", node |-> a, temp |-> node[tail].next]
  /\ size' = size + 1
  /\ UNCHANGED head

\* push: the new node is linked behind the tail, and counted.
PushBegin(d) ==
  /\ op = Idle
  /\ \E a \in Nodes \ live :
       /\ node' = [node EXCEPT
            ![a]         = [next |-> node[tail].next, prev |-> tail, data |-> d],
            ![tail].next = a]
       /\ live' = live \cup {a}
       /\ op' = [kind |-> "push", node |-> a, temp |-> node[tail].next]
  /\ size' = size + 1
  /\ UNCHANGED head

\* A plausible slip: the node pushed before is not redirected to the new one.
MutantPushEnd ==
  /\ op.kind = "push"
  /\ head' = IF is_q_empty THEN op.node ELSE head
  /\ op' = Idle
  /\ UNCHANGED <<node, live, size>>

\* A plausible slip: the new node becomes the head of any queue.
MutantPushHead ==
  /\ op.kind = "push"
  /\ head' = op.node
  /\ op' = Idle
  /\ UNCHANGED <<node, live, size>>

\* push: it becomes the head, or the neighbour of the last node.
PushEnd ==
  /\ op.kind = "push"
  /\ IF is_q_empty
     THEN head' = op.node /\ UNCHANGED node
     ELSE node' = [node EXCEPT ![op.temp].prev = op.node] /\ UNCHANGED head
  /\ op' = Idle
  /\ UNCHANGED <<live, size>>

\* pop, on a queue that is not empty: head moves to the next node.
PopBegin ==
  /\ op = Idle
  /\ ~is_q_empty
  /\ head' = node[head].prev
  /\ op' = [kind |-> "pop", node |-> head, temp |-> NULL]
  /\ UNCHANGED <<node, live, size>>

\* A plausible slip: the popped node stays the new head's neighbour.
MutantPopEnd ==
  /\ op.kind = "pop"
  /\ node' = [node EXCEPT ![op.node] = NullNode]
  /\ live' = live \ {op.node}
  /\ size' = size - 1
  /\ op' = Idle
  /\ UNCHANGED head

\* pop: the new head forgets the old one, which is cleared and freed.
PopEnd ==
  /\ op.kind = "pop"
  /\ node' = [node EXCEPT ![head].next = NULL, ![op.node] = NullNode]
  /\ live' = live \ {op.node}
  /\ size' = size - 1
  /\ op' = Idle
  /\ UNCHANGED head

-----------------------------------------------------------------------------
(* The list as a value.                                                    *)

\* For p = <<n, a>> the nodes from address a to the tail, along prev; at most n
\* of them.
Chain[p \in Nat \X (Nodes \cup {NULL})] ==
  LET n == p[1]  a == p[2] IN
  IF n = 0 \/ a = tail \/ a = NULL THEN <<>> ELSE <<a>> \o Chain[<<n - 1, node[a].prev>>]
=============================================================================
