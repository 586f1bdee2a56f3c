------------------------ MODULE BlockingQueueProofs ------------------------
(***************************************************************************)
(* Proofs about BlockingQueue for any sets of threads, any capacity and    *)
(* any number of calls.                                                    *)
(*                                                                         *)
(* The inductive invariant adds to the checked properties what they lean   *)
(* on: the mutex belongs to the one thread in a critical section           *)
(* (HolderIsInside), and what that thread established with its test still  *)
(* holds when it acts on it (TestStillHolds), since nobody else can have   *)
(* touched the queue in between.  From it follows, step by step, that the  *)
(* queue implements BoundedFifo.                                           *)
(***************************************************************************)
EXTENDS BlockingQueue, SequenceTheorems, TLAPS

RoleOK ==
    \A t \in Threads :
        /\ pc[t] \in PushPcs => t \in Producers /\ hand[t] \in Messages
        /\ pc[t] \in PopPcs => t \in Consumers
        /\ pc[t] \in FrontPcs => t \in Viewers

HolderIsInside == \A t \in Threads : pc[t] \in Critical <=> mutex = t

TestStillHolds ==
    \A t \in Threads :
        /\ pc[t] = "push_put" => Len(queue) < Capacity
        /\ pc[t] \in {"pop_front", "pop_remove", "front_take"} => queue # <<>>
        /\ pc[t] = "pop_remove" => hand[t] = Head(queue)

Inv ==
    /\ TypeOK
    /\ RoleOK
    /\ HolderIsInside
    /\ TestStillHolds
    /\ WithinCapacity
    /\ FifoOrder
    /\ NoLostWakeup
-----------------------------------------------------------------------------
(* Sequences *)

LEMMA AppendFacts ==
    ASSUME NEW S, NEW s \in Seq(S), NEW e \in S
    PROVE  /\ Append(s, e) \in Seq(S)
           /\ Append(s, e) # <<>>
           /\ Len(Append(s, e)) = Len(s) + 1
           /\ s # <<>> => Head(Append(s, e)) = Head(s)
<1>1. Append(s, e) \in Seq(S) /\ Len(Append(s, e)) = Len(s) + 1
  BY AppendProperties
<1>2. Append(s, e) # <<>>
  BY AppendProperties
<1>3. s # <<>> => Head(Append(s, e)) = Head(s)
  OBVIOUS
<1> QED
  BY <1>1, <1>2, <1>3

LEMMA HeadTailFacts ==
    ASSUME NEW S, NEW s \in Seq(S), s # <<>>
    PROVE  /\ Head(s) \in S
           /\ Tail(s) \in Seq(S)
           /\ Len(s) \in Nat \ {0}
           /\ Len(Tail(s)) = Len(s) - 1
  OBVIOUS

\* Pushing extends the queue and the history of accepted messages alike.
LEMMA AppendToConcat ==
    ASSUME NEW S, NEW p \in Seq(S), NEW q \in Seq(S), NEW e \in S
    PROVE  Append(p \o q, e) = p \o Append(q, e)
  OBVIOUS

\* Popping moves one message from the queue to the history of popped ones.
LEMMA MoveHead ==
    ASSUME NEW S, NEW p \in Seq(S), NEW q \in Seq(S), q # <<>>
    PROVE  p \o q = Append(p, Head(q)) \o Tail(q)
<1> DEFINE a == p \o q
           b == Append(p, Head(q)) \o Tail(q)
<1>1. /\ Head(q) \in S
      /\ Tail(q) \in Seq(S)
      /\ Len(q) \in Nat \ {0}
      /\ Len(Tail(q)) = Len(q) - 1
  BY HeadTailFacts
<1>2. a \in Seq(S) /\ b \in Seq(S)
  BY <1>1
<1>3. Len(a) = Len(b)
  BY <1>1
<1>4. \A i \in 1..Len(a) : a[i] = b[i]
  BY <1>1
<1> HIDE DEF a, b
<1>5. a = b
  BY <1>2, <1>3, <1>4, SeqEqual
<1> QED
  BY <1>5 DEF a, b

-----------------------------------------------------------------------------
(* Inv is preserved: Calls *)

LEMMA PushCallKeepsInv ==
    ASSUME Inv, NEW t \in Threads, PushCall(t)
    PROVE  Inv'
<1> USE QueueAssumption DEF Inv, PushCall, Goto, history, Threads, Messages, Refused
<1>1. TypeOK'
  BY DEF TypeOK, PushPcs, PopPcs, FrontPcs
<1>2. RoleOK'
  BY DEF RoleOK, TypeOK, PushPcs, PopPcs, FrontPcs
<1>3. HolderIsInside'
  BY DEF HolderIsInside, TypeOK, Critical
<1>4. TestStillHolds'
  BY DEF TestStillHolds, HolderIsInside, TypeOK, Critical
<1>5. WithinCapacity'
  BY DEF WithinCapacity, TestStillHolds, TypeOK
<1>6. FifoOrder'
  BY DEF FifoOrder, TestStillHolds, TypeOK
<1>7. NoLostWakeup'
  BY DEF NoLostWakeup, WithinCapacity, TypeOK
<1> QED
  BY <1>1, <1>2, <1>3, <1>4, <1>5, <1>6, <1>7

LEMMA PopCallKeepsInv ==
    ASSUME Inv, NEW t \in Threads, PopCall(t)
    PROVE  Inv'
<1> USE QueueAssumption DEF Inv, PopCall, Goto, history, Threads, Messages, Refused
<1>1. TypeOK'
  BY DEF TypeOK, PushPcs, PopPcs, FrontPcs
<1>2. RoleOK'
  BY DEF RoleOK, TypeOK, PushPcs, PopPcs, FrontPcs
<1>3. HolderIsInside'
  BY DEF HolderIsInside, TypeOK, Critical
<1>4. TestStillHolds'
  BY DEF TestStillHolds, HolderIsInside, TypeOK, Critical
<1>5. WithinCapacity'
  BY DEF WithinCapacity, TestStillHolds, TypeOK
<1>6. FifoOrder'
  BY DEF FifoOrder, TestStillHolds, TypeOK
<1>7. NoLostWakeup'
  BY DEF NoLostWakeup, WithinCapacity, TypeOK
<1> QED
  BY <1>1, <1>2, <1>3, <1>4, <1>5, <1>6, <1>7

LEMMA FrontCallKeepsInv ==
    ASSUME Inv, NEW t \in Threads, FrontCall(t)
    PROVE  Inv'
<1> USE QueueAssumption DEF Inv, FrontCall, Goto, history, Threads, Messages, Refused
<1>1. TypeOK'
  BY DEF TypeOK, PushPcs, PopPcs, FrontPcs
<1>2. RoleOK'
  BY DEF RoleOK, TypeOK, PushPcs, PopPcs, FrontPcs
<1>3. HolderIsInside'
  BY DEF HolderIsInside, TypeOK, Critical
<1>4. TestStillHolds'
  BY DEF TestStillHolds, HolderIsInside, TypeOK, Critical
<1>5. WithinCapacity'
  BY DEF WithinCapacity, TestStillHolds, TypeOK
<1>6. FifoOrder'
  BY DEF FifoOrder, TestStillHolds, TypeOK
<1>7. NoLostWakeup'
  BY DEF NoLostWakeup, WithinCapacity, TypeOK
<1> QED
  BY <1>1, <1>2, <1>3, <1>4, <1>5, <1>6, <1>7

-----------------------------------------------------------------------------
(* Inv is preserved: The mutex and the waits *)

LEMMA LockKeepsInv ==
    ASSUME Inv, NEW t \in Threads, Lock(t)
    PROVE  Inv'
<1> USE QueueAssumption DEF Inv, Lock, Goto, history, Threads, Messages, Refused
<1>1. TypeOK'
  BY DEF TypeOK, PushPcs, PopPcs, FrontPcs
<1>2. RoleOK'
  BY DEF RoleOK, TypeOK, PushPcs, PopPcs, FrontPcs
<1>3. HolderIsInside'
  BY DEF HolderIsInside, TypeOK, Critical
<1>4. TestStillHolds'
  BY DEF TestStillHolds, HolderIsInside, TypeOK, Critical
<1>5. WithinCapacity'
  BY DEF WithinCapacity, TestStillHolds, TypeOK
<1>6. FifoOrder'
  BY DEF FifoOrder, TestStillHolds, TypeOK
<1>7. NoLostWakeup'
  BY DEF NoLostWakeup, WithinCapacity, TypeOK
<1> QED
  BY <1>1, <1>2, <1>3, <1>4, <1>5, <1>6, <1>7

LEMMA TimeoutKeepsInv ==
    ASSUME Inv, NEW t \in Threads, Timeout(t)
    PROVE  Inv'
<1> USE QueueAssumption DEF Inv, Timeout, Goto, history, Threads, Messages, Refused
<1>1. TypeOK'
  BY DEF TypeOK, PushPcs, PopPcs, FrontPcs
<1>2. RoleOK'
  BY DEF RoleOK, TypeOK, PushPcs, PopPcs, FrontPcs
<1>3. HolderIsInside'
  BY DEF HolderIsInside, TypeOK, Critical
<1>4. TestStillHolds'
  BY DEF TestStillHolds, HolderIsInside, TypeOK, Critical
<1>5. WithinCapacity'
  BY DEF WithinCapacity, TestStillHolds, TypeOK
<1>6. FifoOrder'
  BY DEF FifoOrder, TestStillHolds, TypeOK
<1>7. NoLostWakeup'
  BY DEF NoLostWakeup, WithinCapacity, TypeOK
<1> QED
  BY <1>1, <1>2, <1>3, <1>4, <1>5, <1>6, <1>7

LEMMA SpuriousWakeKeepsInv ==
    ASSUME Inv, NEW t \in Threads, SpuriousWake(t)
    PROVE  Inv'
<1> USE QueueAssumption DEF Inv, SpuriousWake, Goto, history, Threads, Messages, Refused
<1>1. TypeOK'
  BY DEF TypeOK, PushPcs, PopPcs, FrontPcs
<1>2. RoleOK'
  BY DEF RoleOK, TypeOK, PushPcs, PopPcs, FrontPcs
<1>3. HolderIsInside'
  BY DEF HolderIsInside, TypeOK, Critical
<1>4. TestStillHolds'
  BY DEF TestStillHolds, HolderIsInside, TypeOK, Critical
<1>5. WithinCapacity'
  BY DEF WithinCapacity, TestStillHolds, TypeOK
<1>6. FifoOrder'
  BY DEF FifoOrder, TestStillHolds, TypeOK
<1>7. NoLostWakeup'
  BY DEF NoLostWakeup, WithinCapacity, TypeOK
<1> QED
  BY <1>1, <1>2, <1>3, <1>4, <1>5, <1>6, <1>7

-----------------------------------------------------------------------------
(* Inv is preserved: push *)

LEMMA PushTestKeepsInv ==
    ASSUME Inv, NEW t \in Threads, PushTest(t)
    PROVE  Inv'
<1> USE QueueAssumption DEF Inv, PushTest, Goto, history, Threads, Messages, Refused
<1>a. Len(queue) # Capacity => Len(queue) < Capacity
  BY DEF WithinCapacity, TypeOK
<1>1. TypeOK'
  BY DEF TypeOK, PushPcs, PopPcs, FrontPcs
<1>2. RoleOK'
  BY DEF RoleOK, TypeOK, PushPcs, PopPcs, FrontPcs
<1>3. HolderIsInside'
  <2>1. CASE Len(queue) # Capacity
    BY <2>1 DEF HolderIsInside, TypeOK, Critical
  <2>2. CASE Len(queue) = Capacity
    <3>1. /\ pc[t] = "push_test" /\ pc' = [pc EXCEPT ![t] = "full_wait"]
          /\ mutex' = NoThread /\ NoThread \notin Threads
          /\ HolderIsInside /\ DOMAIN pc = Threads
      BY <2>2 DEF TypeOK
    <3> HIDE DEF Inv, PushTest, Goto, Threads
    <3>2. mutex = t
      BY <3>1 DEF HolderIsInside, Critical
    <3> QED
      BY <3>1, <3>2 DEF HolderIsInside, Critical
  <2> QED
    BY <2>1, <2>2
<1>4. TestStillHolds'
  BY <1>a DEF TestStillHolds, HolderIsInside, TypeOK, Critical
<1>5. WithinCapacity'
  BY DEF WithinCapacity, TestStillHolds, TypeOK
<1>6. FifoOrder'
  BY DEF FifoOrder, TestStillHolds, TypeOK
<1>7. NoLostWakeup'
  BY DEF NoLostWakeup, WithinCapacity, TypeOK
<1> QED
  BY <1>1, <1>2, <1>3, <1>4, <1>5, <1>6, <1>7

LEMMA PushRetestKeepsInv ==
    ASSUME Inv, NEW t \in Threads, PushRetest(t)
    PROVE  Inv'
<1> USE QueueAssumption DEF Inv, PushRetest, Goto, history, Threads, Messages, Refused
<1>a. Len(queue) < Capacity
  BY DEF WithinCapacity, TypeOK
<1>1. TypeOK'
  BY DEF TypeOK, PushPcs, PopPcs, FrontPcs
<1>2. RoleOK'
  BY DEF RoleOK, TypeOK, PushPcs, PopPcs, FrontPcs
<1>3. HolderIsInside'
  BY DEF HolderIsInside, TypeOK, Critical
<1>4. TestStillHolds'
  BY <1>a DEF TestStillHolds, HolderIsInside, TypeOK, Critical
<1>5. WithinCapacity'
  BY DEF WithinCapacity, TestStillHolds, TypeOK
<1>6. FifoOrder'
  BY DEF FifoOrder, TestStillHolds, TypeOK
<1>7. NoLostWakeup'
  BY DEF NoLostWakeup, WithinCapacity, TypeOK
<1> QED
  BY <1>1, <1>2, <1>3, <1>4, <1>5, <1>6, <1>7

LEMMA PushRefuseKeepsInv ==
    ASSUME Inv, NEW t \in Threads, PushRefuse(t)
    PROVE  Inv'
<1> USE QueueAssumption DEF Inv, PushRefuse, Goto, Return, history, Threads, Messages, Refused
<1>1. TypeOK'
  BY DEF TypeOK, PushPcs, PopPcs, FrontPcs
<1>2. RoleOK'
  BY DEF RoleOK, TypeOK, PushPcs, PopPcs, FrontPcs
<1>3. HolderIsInside'
  BY DEF HolderIsInside, TypeOK, Critical
<1>4. TestStillHolds'
  BY DEF TestStillHolds, HolderIsInside, TypeOK, Critical
<1>5. WithinCapacity'
  BY DEF WithinCapacity, TestStillHolds, TypeOK
<1>6. FifoOrder'
  BY DEF FifoOrder, TestStillHolds, TypeOK
<1>7. NoLostWakeup'
  BY DEF NoLostWakeup, WithinCapacity, TypeOK
<1> QED
  BY <1>1, <1>2, <1>3, <1>4, <1>5, <1>6, <1>7

LEMMA PushPutKeepsInv ==
    ASSUME Inv, NEW t \in Threads, PushPut(t)
    PROVE  Inv'
<1> USE QueueAssumption DEF Inv, PushPut, NotifyEmpty, Return, history, Threads, Refused
<1>a. hand[t] \in Messages /\ Len(queue) < Capacity
  BY DEF RoleOK, TestStillHolds, PushPcs, TypeOK
<1>b. /\ queue' \in Seq(Messages)
      /\ queue' # <<>>
      /\ Len(queue') = Len(queue) + 1
      /\ queue # <<>> => Head(queue') = Head(queue)
      /\ accepted' \in Seq(Messages)
  BY <1>a, AppendFacts DEF TypeOK
<1>c. Append(popped \o queue, hand[t]) = popped \o Append(queue, hand[t])
  <2>1. popped \in Seq(Messages) /\ queue \in Seq(Messages)
    BY DEF TypeOK
  <2> HIDE DEF Inv, PushPut
  <2> QED
    BY SMTT(30), <1>a, <2>1, AppendToConcat
<1>1. TypeOK'
  BY <1>a, <1>b DEF TypeOK, PushPcs, PopPcs, FrontPcs
<1>2. RoleOK'
  BY <1>a, <1>b DEF RoleOK, TypeOK, PushPcs, PopPcs, FrontPcs
<1>3. HolderIsInside'
  BY <1>a, <1>b DEF HolderIsInside, TypeOK, Critical
<1>4. TestStillHolds'
  BY <1>a, <1>b DEF TestStillHolds, HolderIsInside, TypeOK, Critical
<1>5. WithinCapacity'
  BY <1>a, <1>b DEF WithinCapacity, TestStillHolds, TypeOK
<1>6. FifoOrder'
  BY <1>c DEF FifoOrder, TestStillHolds, TypeOK
<1>7. NoLostWakeup'
  BY <1>a, <1>b DEF NoLostWakeup, WithinCapacity, TypeOK
<1> QED
  BY <1>1, <1>2, <1>3, <1>4, <1>5, <1>6, <1>7

-----------------------------------------------------------------------------
(* Inv is preserved: pop *)

LEMMA PopTestKeepsInv ==
    ASSUME Inv, NEW t \in Threads, PopTest(t)
    PROVE  Inv'
<1> USE QueueAssumption DEF Inv, PopTest, Goto, history, Threads, Messages, Refused
<1>1. TypeOK'
  BY DEF TypeOK, PushPcs, PopPcs, FrontPcs
<1>2. RoleOK'
  BY DEF RoleOK, TypeOK, PushPcs, PopPcs, FrontPcs
<1>3. HolderIsInside'
  BY DEF HolderIsInside, TypeOK, Critical
<1>4. TestStillHolds'
  BY DEF TestStillHolds, HolderIsInside, TypeOK, Critical
<1>5. WithinCapacity'
  BY DEF WithinCapacity, TestStillHolds, TypeOK
<1>6. FifoOrder'
  BY DEF FifoOrder, TestStillHolds, TypeOK
<1>7. NoLostWakeup'
  BY DEF NoLostWakeup, WithinCapacity, TypeOK
<1> QED
  BY <1>1, <1>2, <1>3, <1>4, <1>5, <1>6, <1>7

LEMMA PopRetestKeepsInv ==
    ASSUME Inv, NEW t \in Threads, PopRetest(t)
    PROVE  Inv'
<1> USE QueueAssumption DEF Inv, PopRetest, Goto, history, Threads, Messages, Refused
<1>1. TypeOK'
  BY DEF TypeOK, PushPcs, PopPcs, FrontPcs
<1>2. RoleOK'
  BY DEF RoleOK, TypeOK, PushPcs, PopPcs, FrontPcs
<1>3. HolderIsInside'
  BY DEF HolderIsInside, TypeOK, Critical
<1>4. TestStillHolds'
  BY DEF TestStillHolds, HolderIsInside, TypeOK, Critical
<1>5. WithinCapacity'
  BY DEF WithinCapacity, TestStillHolds, TypeOK
<1>6. FifoOrder'
  BY DEF FifoOrder, TestStillHolds, TypeOK
<1>7. NoLostWakeup'
  BY DEF NoLostWakeup, WithinCapacity, TypeOK
<1> QED
  BY <1>1, <1>2, <1>3, <1>4, <1>5, <1>6, <1>7

LEMMA PopRefuseKeepsInv ==
    ASSUME Inv, NEW t \in Threads, PopRefuse(t)
    PROVE  Inv'
<1> USE QueueAssumption DEF Inv, PopRefuse, Goto, Return, history, Threads, Messages, Refused
<1>1. TypeOK'
  BY DEF TypeOK, PushPcs, PopPcs, FrontPcs
<1>2. RoleOK'
  BY DEF RoleOK, TypeOK, PushPcs, PopPcs, FrontPcs
<1>3. HolderIsInside'
  BY DEF HolderIsInside, TypeOK, Critical
<1>4. TestStillHolds'
  BY DEF TestStillHolds, HolderIsInside, TypeOK, Critical
<1>5. WithinCapacity'
  BY DEF WithinCapacity, TestStillHolds, TypeOK
<1>6. FifoOrder'
  BY DEF FifoOrder, TestStillHolds, TypeOK
<1>7. NoLostWakeup'
  BY DEF NoLostWakeup, WithinCapacity, TypeOK
<1> QED
  BY <1>1, <1>2, <1>3, <1>4, <1>5, <1>6, <1>7

LEMMA PopFrontKeepsInv ==
    ASSUME Inv, NEW t \in Threads, PopFront(t)
    PROVE  Inv'
<1> USE QueueAssumption DEF Inv, PopFront, Goto, history, Threads, Refused
<1>a. queue # <<>>
  BY DEF TestStillHolds
<1>b. Head(queue) \in Messages
  BY <1>a, HeadTailFacts DEF TypeOK
<1>1. TypeOK'
  BY <1>a, <1>b DEF TypeOK, PushPcs, PopPcs, FrontPcs
<1>2. RoleOK'
  BY <1>a, <1>b DEF RoleOK, TypeOK, PushPcs, PopPcs, FrontPcs
<1>3. HolderIsInside'
  BY <1>a, <1>b DEF HolderIsInside, TypeOK, Critical
<1>4. TestStillHolds'
  BY <1>a, <1>b DEF TestStillHolds, HolderIsInside, TypeOK, Critical
<1>5. WithinCapacity'
  BY <1>a, <1>b DEF WithinCapacity, TestStillHolds, TypeOK
<1>6. FifoOrder'
  BY <1>a, <1>b DEF FifoOrder, TestStillHolds, TypeOK
<1>7. NoLostWakeup'
  BY <1>a, <1>b DEF NoLostWakeup, WithinCapacity, TypeOK
<1> QED
  BY <1>1, <1>2, <1>3, <1>4, <1>5, <1>6, <1>7

LEMMA PopRemoveKeepsInv ==
    ASSUME Inv, NEW t \in Threads, PopRemove(t)
    PROVE  Inv'
<1> USE QueueAssumption DEF Inv, PopRemove, NotifyFull, Return, history, Threads, Refused
<1>a. /\ queue # <<>>
      /\ hand[t] = Head(queue)
  BY DEF TestStillHolds
<1>b. /\ hand[t] \in Messages
      /\ queue' \in Seq(Messages)
      /\ Len(queue) \in Nat \ {0}
      /\ Len(queue') = Len(queue) - 1
  BY <1>a, HeadTailFacts DEF TypeOK
<1>c. popped' \in Seq(Messages)
  BY <1>a, <1>b, AppendFacts DEF TypeOK
<1>1. TypeOK'
  BY <1>a, <1>b, <1>c DEF TypeOK, PushPcs, PopPcs, FrontPcs
<1>2. RoleOK'
  BY <1>a, <1>b, <1>c DEF RoleOK, TypeOK, PushPcs, PopPcs, FrontPcs
<1>3. HolderIsInside'
  BY <1>a, <1>b, <1>c DEF HolderIsInside, TypeOK, Critical
<1>4. TestStillHolds'
  BY <1>a, <1>b, <1>c DEF TestStillHolds, HolderIsInside, TypeOK, Critical
<1>5. WithinCapacity'
  BY <1>a, <1>b, <1>c DEF WithinCapacity, TestStillHolds, TypeOK
<1>6. FifoOrder'
  BY SMTT(30), <1>a, MoveHead DEF FifoOrder, TestStillHolds, TypeOK
<1>7. NoLostWakeup'
  BY <1>a, <1>b, <1>c DEF NoLostWakeup, WithinCapacity, TypeOK
<1> QED
  BY <1>1, <1>2, <1>3, <1>4, <1>5, <1>6, <1>7

-----------------------------------------------------------------------------
(* Inv is preserved: front *)

LEMMA FrontTestKeepsInv ==
    ASSUME Inv, NEW t \in Threads, FrontTest(t)
    PROVE  Inv'
<1> USE QueueAssumption DEF Inv, FrontTest, Goto, history, Threads, Messages, Refused
<1>1. TypeOK'
  BY DEF TypeOK, PushPcs, PopPcs, FrontPcs
<1>2. RoleOK'
  BY DEF RoleOK, TypeOK, PushPcs, PopPcs, FrontPcs
<1>3. HolderIsInside'
  BY DEF HolderIsInside, TypeOK, Critical
<1>4. TestStillHolds'
  BY DEF TestStillHolds, HolderIsInside, TypeOK, Critical
<1>5. WithinCapacity'
  BY DEF WithinCapacity, TestStillHolds, TypeOK
<1>6. FifoOrder'
  BY DEF FifoOrder, TestStillHolds, TypeOK
<1>7. NoLostWakeup'
  BY DEF NoLostWakeup, WithinCapacity, TypeOK
<1> QED
  BY <1>1, <1>2, <1>3, <1>4, <1>5, <1>6, <1>7

LEMMA FrontTakeKeepsInv ==
    ASSUME Inv, NEW t \in Threads, FrontTake(t)
    PROVE  Inv'
<1> USE QueueAssumption DEF Inv, FrontTake, Goto, Return, history, Threads, Refused
<1>a. queue # <<>>
  BY DEF TestStillHolds
<1>b. Head(queue) \in Messages
  BY <1>a, HeadTailFacts DEF TypeOK
<1>1. TypeOK'
  BY <1>a, <1>b DEF TypeOK, PushPcs, PopPcs, FrontPcs
<1>2. RoleOK'
  BY <1>a, <1>b DEF RoleOK, TypeOK, PushPcs, PopPcs, FrontPcs
<1>3. HolderIsInside'
  BY <1>a, <1>b DEF HolderIsInside, TypeOK, Critical
<1>4. TestStillHolds'
  BY <1>a, <1>b DEF TestStillHolds, HolderIsInside, TypeOK, Critical
<1>5. WithinCapacity'
  BY <1>a, <1>b DEF WithinCapacity, TestStillHolds, TypeOK
<1>6. FifoOrder'
  BY <1>a, <1>b DEF FifoOrder, TestStillHolds, TypeOK
<1>7. NoLostWakeup'
  BY <1>a, <1>b DEF NoLostWakeup, WithinCapacity, TypeOK
<1> QED
  BY <1>1, <1>2, <1>3, <1>4, <1>5, <1>6, <1>7

-----------------------------------------------------------------------------
(* The theorems *)

LEMMA InitInv == Init => Inv
<1> SUFFICES ASSUME Init PROVE Inv
  OBVIOUS
<1> USE QueueAssumption DEF Init
<1>1. TypeOK
  BY DEF TypeOK, Messages, Refused
<1>2. RoleOK /\ HolderIsInside /\ TestStillHolds /\ NoLostWakeup
  BY DEF RoleOK, HolderIsInside, TestStillHolds, NoLostWakeup,
         PushPcs, PopPcs, FrontPcs, Critical
<1>3. WithinCapacity /\ FifoOrder
  BY DEF WithinCapacity, FifoOrder
<1> QED
  BY <1>1, <1>2, <1>3 DEF Inv

LEMMA StutterKeepsInv == Inv /\ UNCHANGED vars => Inv'
<1> SUFFICES ASSUME Inv, UNCHANGED vars PROVE Inv'
  OBVIOUS
<1> QED
  BY DEF vars, history, Inv, TypeOK, RoleOK, HolderIsInside, TestStillHolds,
         WithinCapacity, FifoOrder, NoLostWakeup

LEMMA NextKeepsInv == Inv /\ [Next]_vars => Inv'
<1> SUFFICES ASSUME Inv, [Next]_vars PROVE Inv'
  OBVIOUS
<1>1. ASSUME NEW t \in Threads, Step(t) PROVE Inv'
  <2>1. CASE PushCall(t)
    BY <1>1, <2>1, PushCallKeepsInv
  <2>2. CASE PopCall(t)
    BY <1>1, <2>2, PopCallKeepsInv
  <2>3. CASE FrontCall(t)
    BY <1>1, <2>3, FrontCallKeepsInv
  <2>4. CASE Lock(t)
    BY <1>1, <2>4, LockKeepsInv
  <2>5. CASE Timeout(t)
    BY <1>1, <2>5, TimeoutKeepsInv
  <2>6. CASE SpuriousWake(t)
    BY <1>1, <2>6, SpuriousWakeKeepsInv
  <2>7. CASE PushTest(t)
    BY <1>1, <2>7, PushTestKeepsInv
  <2>8. CASE PushRetest(t)
    BY <1>1, <2>8, PushRetestKeepsInv
  <2>9. CASE PushRefuse(t)
    BY <1>1, <2>9, PushRefuseKeepsInv
  <2>10. CASE PushPut(t)
    BY <1>1, <2>10, PushPutKeepsInv
  <2>11. CASE PopTest(t)
    BY <1>1, <2>11, PopTestKeepsInv
  <2>12. CASE PopRetest(t)
    BY <1>1, <2>12, PopRetestKeepsInv
  <2>13. CASE PopRefuse(t)
    BY <1>1, <2>13, PopRefuseKeepsInv
  <2>14. CASE PopFront(t)
    BY <1>1, <2>14, PopFrontKeepsInv
  <2>15. CASE PopRemove(t)
    BY <1>1, <2>15, PopRemoveKeepsInv
  <2>16. CASE FrontTest(t)
    BY <1>1, <2>16, FrontTestKeepsInv
  <2>17. CASE FrontTake(t)
    BY <1>1, <2>17, FrontTakeKeepsInv
  <2> QED
    BY <1>1, <2>1, <2>2, <2>3, <2>4, <2>5, <2>6, <2>7, <2>8, <2>9,
       <2>10, <2>11, <2>12, <2>13, <2>14, <2>15, <2>16, <2>17
       DEF Step, Body
<1>2. CASE UNCHANGED vars
  BY <1>2, StutterKeepsInv
<1> QED
  BY <1>1, <1>2 DEF Next

\* The inductive invariant holds in every reachable state.
THEOREM Invariance == Spec => []Inv
<1>1. Init => Inv
  BY InitInv
<1>2. Inv /\ [Next]_vars => Inv'
  BY NextKeepsInv
<1> QED
  BY <1>1, <1>2, PTL DEF Spec

\* Every variable keeps to its type.
THEOREM TypeCorrect == Spec => []TypeOK
  BY Invariance, PTL DEF Inv

\* The mutex keeps two threads from being inside the queue together.
THEOREM Exclusion == Spec => []MutualExclusion
<1>1. Inv => MutualExclusion
  BY DEF Inv, HolderIsInside, MutualExclusion
<1> QED
  BY <1>1, Invariance, PTL

\* The queue never outgrows the capacity it was built with.
THEOREM CapacityKept == Spec => []WithinCapacity
  BY Invariance, PTL DEF Inv

\* No message is lost, duplicated or overtaken between push and pop.
THEOREM OrderKept == Spec => []FifoOrder
  BY Invariance, PTL DEF Inv

\* Nobody sleeps on a condition that has come true.
THEOREM WakeupsKept == Spec => []NoLostWakeup
  BY Invariance, PTL DEF Inv

-----------------------------------------------------------------------------
(* BlockingQueue implements BoundedFifo: a call of push or pop that returns is
   one step of the abstract buffer, and every other step of the code is
   invisible to it. *)

\* What the abstract buffer sees of a state.
AbstractUnchanged == UNCHANGED <<queue, request, lastAnswer>>

LEMMA InitRefines == Init => Fifo!Init
  BY DEF Init, Fifo!Init, Fifo!Idle, request, lastAnswer, PushPcs, PopPcs

LEMMA FrontCallStutters ==
    ASSUME Inv, NEW t \in Threads, FrontCall(t)
    PROVE  AbstractUnchanged
<1> USE DEF Inv, TypeOK, RoleOK, FrontCall, Goto, history
<1>1. request' = request
  BY DEF request, PushPcs, PopPcs, FrontPcs
<1>2. lastAnswer' = lastAnswer
  BY DEF lastAnswer
<1> QED
  BY <1>1, <1>2 DEF AbstractUnchanged

LEMMA LockStutters ==
    ASSUME Inv, NEW t \in Threads, Lock(t)
    PROVE  AbstractUnchanged
<1> USE DEF Inv, TypeOK, RoleOK, Lock, Goto, history
<1>1. request' = request
  BY DEF request, PushPcs, PopPcs, FrontPcs
<1>2. lastAnswer' = lastAnswer
  BY DEF lastAnswer
<1> QED
  BY <1>1, <1>2 DEF AbstractUnchanged

LEMMA TimeoutStutters ==
    ASSUME Inv, NEW t \in Threads, Timeout(t)
    PROVE  AbstractUnchanged
<1> USE DEF Inv, TypeOK, RoleOK, Timeout, Goto, history
<1>1. request' = request
  BY DEF request, PushPcs, PopPcs, FrontPcs
<1>2. lastAnswer' = lastAnswer
  BY DEF lastAnswer
<1> QED
  BY <1>1, <1>2 DEF AbstractUnchanged

LEMMA SpuriousWakeStutters ==
    ASSUME Inv, NEW t \in Threads, SpuriousWake(t)
    PROVE  AbstractUnchanged
<1> USE DEF Inv, TypeOK, RoleOK, SpuriousWake, Goto, history
<1>1. request' = request
  BY DEF request, PushPcs, PopPcs, FrontPcs
<1>2. lastAnswer' = lastAnswer
  BY DEF lastAnswer
<1> QED
  BY <1>1, <1>2 DEF AbstractUnchanged

LEMMA PushTestStutters ==
    ASSUME Inv, NEW t \in Threads, PushTest(t)
    PROVE  AbstractUnchanged
<1> USE DEF Inv, TypeOK, RoleOK, PushTest, Goto, history
<1>1. request' = request
  BY DEF request, PushPcs, PopPcs, FrontPcs
<1>2. lastAnswer' = lastAnswer
  BY DEF lastAnswer
<1> QED
  BY <1>1, <1>2 DEF AbstractUnchanged

LEMMA PushRetestStutters ==
    ASSUME Inv, NEW t \in Threads, PushRetest(t)
    PROVE  AbstractUnchanged
<1> USE DEF Inv, TypeOK, RoleOK, PushRetest, Goto, history
<1>1. request' = request
  BY DEF request, PushPcs, PopPcs, FrontPcs
<1>2. lastAnswer' = lastAnswer
  BY DEF lastAnswer
<1> QED
  BY <1>1, <1>2 DEF AbstractUnchanged

LEMMA PopTestStutters ==
    ASSUME Inv, NEW t \in Threads, PopTest(t)
    PROVE  AbstractUnchanged
<1> USE DEF Inv, TypeOK, RoleOK, PopTest, Goto, history
<1>1. request' = request
  BY DEF request, PushPcs, PopPcs, FrontPcs
<1>2. lastAnswer' = lastAnswer
  BY DEF lastAnswer
<1> QED
  BY <1>1, <1>2 DEF AbstractUnchanged

LEMMA PopRetestStutters ==
    ASSUME Inv, NEW t \in Threads, PopRetest(t)
    PROVE  AbstractUnchanged
<1> USE DEF Inv, TypeOK, RoleOK, PopRetest, Goto, history
<1>1. request' = request
  BY DEF request, PushPcs, PopPcs, FrontPcs
<1>2. lastAnswer' = lastAnswer
  BY DEF lastAnswer
<1> QED
  BY <1>1, <1>2 DEF AbstractUnchanged

LEMMA PopFrontStutters ==
    ASSUME Inv, NEW t \in Threads, PopFront(t)
    PROVE  AbstractUnchanged
<1> USE DEF Inv, TypeOK, RoleOK, PopFront, Goto, history
<1>1. request' = request
  BY DEF request, PushPcs, PopPcs, FrontPcs
<1>2. lastAnswer' = lastAnswer
  BY DEF lastAnswer
<1> QED
  BY <1>1, <1>2 DEF AbstractUnchanged

LEMMA FrontTestStutters ==
    ASSUME Inv, NEW t \in Threads, FrontTest(t)
    PROVE  AbstractUnchanged
<1> USE DEF Inv, TypeOK, RoleOK, FrontTest, Goto, history
<1>1. request' = request
  BY DEF request, PushPcs, PopPcs, FrontPcs
<1>2. lastAnswer' = lastAnswer
  BY DEF lastAnswer
<1> QED
  BY <1>1, <1>2 DEF AbstractUnchanged

LEMMA FrontTakeStutters ==
    ASSUME Inv, NEW t \in Threads, FrontTake(t)
    PROVE  AbstractUnchanged
<1> USE DEF Inv, TypeOK, RoleOK, FrontTake, Goto, Return, history
<1>1. request' = request
  BY DEF request, PushPcs, PopPcs, FrontPcs
<1>2. lastAnswer' = lastAnswer
  BY DEF lastAnswer, FrontPcs
<1> QED
  BY <1>1, <1>2 DEF AbstractUnchanged

\* A call of push or pop is a call on the abstract buffer.
LEMMA PushCallRefines ==
    ASSUME Inv, NEW t \in Threads, PushCall(t)
    PROVE  Fifo!Call(t)
<1> USE QueueAssumption DEF Inv, TypeOK, PushCall, Goto, history
<1>1. pushes + 1 \in Messages
  BY DEF Messages
<1>2. request[t] = Fifo!Idle
  BY DEF request, Fifo!Idle, PushPcs, PopPcs
<1>3. request' = [request EXCEPT ![t] = Fifo!Push(pushes + 1)]
  BY DEF request, Fifo!Push, PushPcs, PopPcs
<1>4. UNCHANGED <<queue, lastAnswer>>
  BY DEF lastAnswer
<1> QED
  BY <1>1, <1>2, <1>3, <1>4 DEF Fifo!Call

LEMMA PopCallRefines ==
    ASSUME Inv, NEW t \in Threads, PopCall(t)
    PROVE  Fifo!Call(t)
<1> USE DEF Inv, TypeOK, PopCall, Goto, history
<1>1. request[t] = Fifo!Idle
  BY DEF request, Fifo!Idle, PushPcs, PopPcs
<1>2. request' = [request EXCEPT ![t] = Fifo!Pop]
  BY DEF request, Fifo!Pop, PushPcs, PopPcs
<1>3. UNCHANGED <<queue, lastAnswer>>
  BY DEF lastAnswer
<1> QED
  BY <1>1, <1>2, <1>3 DEF Fifo!Call

LEMMA PushRefuseRefines ==
    ASSUME Inv, NEW t \in Threads, PushRefuse(t)
    PROVE  Fifo!PushRefused(t)
<1> USE QueueAssumption DEF Inv, TypeOK, RoleOK, PushRefuse, Goto, Return, history
<1>1. /\ request[t].op = "push"
      /\ request[t].msg = hand[t]
  BY DEF request, PushPcs, PopPcs
<1>2. request' = [request EXCEPT ![t] = Fifo!Idle]
  BY DEF request, Fifo!Idle, PushPcs, PopPcs
<1>3. t \notin Viewers
  BY DEF Threads, PushPcs, PopPcs
<1>4. lastAnswer' = [lastAnswer EXCEPT ![t] = Refused]
  BY <1>3 DEF lastAnswer
<1> QED
  BY <1>1, <1>2, <1>4 DEF Fifo!PushRefused, Fifo!Return

LEMMA PushPutRefines ==
    ASSUME Inv, NEW t \in Threads, PushPut(t)
    PROVE  Fifo!PushAccepted(t)
<1> USE QueueAssumption DEF Inv, TypeOK, RoleOK, PushPut, NotifyEmpty, Return, history
<1>1. /\ request[t].op = "push"
      /\ request[t].msg = hand[t]
  BY DEF request, PushPcs, PopPcs
<1>2. request' = [request EXCEPT ![t] = Fifo!Idle]
  BY DEF request, Fifo!Idle, PushPcs, PopPcs
<1>3. t \notin Viewers
  BY DEF Threads, PushPcs, PopPcs
<1>4. lastAnswer' = [lastAnswer EXCEPT ![t] = hand[t]]
  BY <1>3 DEF lastAnswer
<1> QED
  BY <1>1, <1>2, <1>4 DEF Fifo!PushAccepted, Fifo!Return, TestStillHolds

LEMMA PopRefuseRefines ==
    ASSUME Inv, NEW t \in Threads, PopRefuse(t)
    PROVE  Fifo!PopRefused(t)
<1> USE QueueAssumption DEF Inv, TypeOK, RoleOK, PopRefuse, Goto, Return, history
<1>1. /\ request[t].op = "pop"
      /\ request[t].msg = Refused
  BY DEF request, PushPcs, PopPcs
<1>2. request' = [request EXCEPT ![t] = Fifo!Idle]
  BY DEF request, Fifo!Idle, PushPcs, PopPcs
<1>3. t \notin Viewers
  BY DEF Threads, PushPcs, PopPcs
<1>4. lastAnswer' = [lastAnswer EXCEPT ![t] = Refused]
  BY <1>3 DEF lastAnswer
<1> QED
  BY <1>1, <1>2, <1>4 DEF Fifo!PopRefused, Fifo!Return

LEMMA PopRemoveRefines ==
    ASSUME Inv, NEW t \in Threads, PopRemove(t)
    PROVE  Fifo!PopAnswered(t)
<1> USE QueueAssumption DEF Inv, TypeOK, RoleOK, PopRemove, NotifyFull, Return, history
<1>1. /\ request[t].op = "pop"
      /\ request[t].msg = Refused
  BY DEF request, PushPcs, PopPcs
<1>2. request' = [request EXCEPT ![t] = Fifo!Idle]
  BY DEF request, Fifo!Idle, PushPcs, PopPcs
<1>3. t \notin Viewers
  BY DEF Threads, PushPcs, PopPcs
<1>4. lastAnswer' = [lastAnswer EXCEPT ![t] = Head(queue)]
  BY <1>3 DEF lastAnswer, TestStillHolds
<1> QED
  BY <1>1, <1>2, <1>4 DEF Fifo!PopAnswered, Fifo!Return, TestStillHolds

\* Every step of the code is a step of the abstract buffer or a stutter of it.
LEMMA StepRefines == Inv /\ [Next]_vars => [Fifo!Next]_Fifo!vars
<1> SUFFICES ASSUME Inv, [Next]_vars PROVE Fifo!Next \/ UNCHANGED Fifo!vars
  OBVIOUS
<1>1. AbstractUnchanged => UNCHANGED Fifo!vars
  BY DEF AbstractUnchanged, Fifo!vars
<1>2. ASSUME NEW t \in Threads, Fifo!Step(t) PROVE Fifo!Next
  BY <1>2 DEF Fifo!Next
<1>3. ASSUME NEW t \in Threads, Step(t) PROVE Fifo!Step(t) \/ AbstractUnchanged
  <2>1. CASE PushCall(t)
    BY <2>1, PushCallRefines DEF Fifo!Step
  <2>2. CASE PopCall(t)
    BY <2>2, PopCallRefines DEF Fifo!Step
  <2>3. CASE FrontCall(t)
    BY <2>3, FrontCallStutters
  <2>4. CASE Lock(t)
    BY <2>4, LockStutters
  <2>5. CASE Timeout(t)
    BY <2>5, TimeoutStutters
  <2>6. CASE SpuriousWake(t)
    BY <2>6, SpuriousWakeStutters
  <2>7. CASE PushTest(t)
    BY <2>7, PushTestStutters
  <2>8. CASE PushRetest(t)
    BY <2>8, PushRetestStutters
  <2>9. CASE PushRefuse(t)
    BY <2>9, PushRefuseRefines DEF Fifo!Step
  <2>10. CASE PushPut(t)
    BY <2>10, PushPutRefines DEF Fifo!Step
  <2>11. CASE PopTest(t)
    BY <2>11, PopTestStutters
  <2>12. CASE PopRetest(t)
    BY <2>12, PopRetestStutters
  <2>13. CASE PopRefuse(t)
    BY <2>13, PopRefuseRefines DEF Fifo!Step
  <2>14. CASE PopFront(t)
    BY <2>14, PopFrontStutters
  <2>15. CASE PopRemove(t)
    BY <2>15, PopRemoveRefines DEF Fifo!Step
  <2>16. CASE FrontTest(t)
    BY <2>16, FrontTestStutters
  <2>17. CASE FrontTake(t)
    BY <2>17, FrontTakeStutters
  <2> QED
    BY <1>3, <2>1, <2>2, <2>3, <2>4, <2>5, <2>6, <2>7, <2>8, <2>9,
       <2>10, <2>11, <2>12, <2>13, <2>14, <2>15, <2>16, <2>17
       DEF Step, Body
<1>4. CASE UNCHANGED vars
  BY <1>4, <1>1 DEF vars, AbstractUnchanged, request, lastAnswer
<1> QED
  BY <1>1, <1>2, <1>3, <1>4 DEF Next

\* push and pop are atomic operations of a bounded FIFO buffer, whatever the
\* interleaving of threads, timeouts and spurious wake-ups.
THEOREM Refinement == Spec => ImplementsFifo
<1>1. Init => Fifo!Init
  BY InitRefines
<1>2. Inv /\ [Next]_vars => [Fifo!Next]_Fifo!vars
  BY StepRefines
<1> QED
  BY <1>1, <1>2, Invariance, PTL DEF Spec, Fifo!Spec, ImplementsFifo
=============================================================================
