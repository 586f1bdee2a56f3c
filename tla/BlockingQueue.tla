--------------------------- MODULE BlockingQueue ---------------------------
(***************************************************************************)
(* BlockingQueue<T> (components/blocking_queue/include/blocking_queue.hpp):*)
(* a std::queue behind one mutex and two condition variables, `full` for   *)
(* the callers of push and `empty` for those of pop and front.             *)
(*                                                                         *)
(* A push or a pop that cannot proceed waits ONCE, in wait_for, and gives  *)
(* up if the condition is still false when it holds the mutex again; the   *)
(* return value of wait_for is not read, so a notification, a timeout and a*)
(* spurious wake-up look alike to it.  A critical section is cut into the  *)
(* steps between which another thread could run if the mutex did not keep  *)
(* it out.  back, size, isEmpty and isFull read the queue under the mutex  *)
(* and change nothing.                                                     *)
(*                                                                         *)
(* front and pop std::move the head into the caller's object: a copy for   *)
(* MsgProxy::Msg, which declares a copy assignment only.  pop removes what *)
(* it has read, so there it makes no difference; front, which nobody calls *)
(* yet, is modelled as this copy.                                          *)
(***************************************************************************)
EXTENDS Naturals, Sequences

CONSTANTS
    Producers,  \* threads that call push
    Consumers,  \* threads that call pop
    Viewers,    \* threads that call front
    Capacity,   \* the constructor's argument
    MaxPushes,  \* bound on the number of calls of push
    NoThread    \* the mutex is free

Threads == Producers \cup Consumers \cup Viewers

ASSUME QueueAssumption ==
    /\ Capacity \in Nat
    /\ MaxPushes \in Nat
    /\ NoThread \notin Threads
    /\ Producers \cap Consumers = {}
    /\ Viewers \cap (Producers \cup Consumers) = {}

VARIABLES
    queue,      \* the member `queue`: the messages, by the number of their push
    mutex,      \* the thread that holds `mutex`, or NoThread
    pc,         \* pc[t]: where thread t is
    hand,       \* hand[t]: the message t pushes, or the one it has read
    answer,     \* answer[t]: what t's last finished call returned, 0 for false
    pushes,     \* number of calls of push so far
    accepted,   \* history: the messages push returned true for, in order
    popped      \* history: the messages pop removed, in order

vars == <<queue, mutex, pc, hand, answer, pushes, accepted, popped>>
history == <<accepted, popped>>

Messages == 1..MaxPushes
Refused == 0

PushPcs == {"push_lock", "push_test", "full_wait", "full_wake",
            "push_retest", "push_put"}
PopPcs == {"pop_lock", "pop_test", "empty_wait", "empty_wake",
           "pop_retest", "pop_front", "pop_remove"}
FrontPcs == {"front_lock", "front_test", "front_wait", "front_wake",
             "front_take"}

\* The places at which a thread has the mutex.
Critical == {"push_test", "push_retest", "push_put", "pop_test", "pop_retest",
             "pop_front", "pop_remove", "front_test", "front_take"}

Init ==
    /\ queue = <<>>
    /\ mutex = NoThread
    /\ pc = [t \in Threads |-> "idle"]
    /\ hand = [t \in Threads |-> Refused]
    /\ answer = [t \in Threads |-> Refused]
    /\ pushes = 0
    /\ accepted = <<>>
    /\ popped = <<>>

Goto(t, place) == pc' = [pc EXCEPT ![t] = place]

-----------------------------------------------------------------------------
(* The mutex: taken at the start of a call and again when wait_for returns. *)

Lock(t) ==
    /\ mutex = NoThread
    /\ mutex' = t
    /\ \/ pc[t] = "push_lock" /\ Goto(t, "push_test")
       \/ pc[t] = "full_wake" /\ Goto(t, "push_retest")
       \/ pc[t] = "pop_lock" /\ Goto(t, "pop_test")
       \/ pc[t] = "empty_wake" /\ Goto(t, "pop_retest")
       \/ pc[t] \in {"front_lock", "front_wake"} /\ Goto(t, "front_test")
    /\ UNCHANGED <<queue, hand, answer, pushes, history>>

\* Mutant: pop waits with no time limit.
Timeout_PopForever(t) ==
    /\ pc[t] = "full_wait"
    /\ Goto(t, "full_wake")
    /\ UNCHANGED <<queue, mutex, hand, answer, pushes, history>>

\* wait_for's time has passed, or it returned for no reason.
Timeout(t) ==
    /\ \/ pc[t] = "full_wait" /\ Goto(t, "full_wake")
       \/ pc[t] = "empty_wait" /\ Goto(t, "empty_wake")
    /\ UNCHANGED <<queue, mutex, hand, answer, pushes, history>>

\* wait (no time limit) returned for no reason.
SpuriousWake(t) ==
    /\ pc[t] = "front_wait"
    /\ Goto(t, "front_wake")
    /\ UNCHANGED <<queue, mutex, hand, answer, pushes, history>>

\* pc after t leaves the critical section having notified `empty` or `full`.
NotifyEmpty(t) ==
    pc' = [u \in Threads |->
              IF u = t THEN "idle"
              ELSE IF pc[u] = "empty_wait" THEN "empty_wake"
              ELSE IF pc[u] = "front_wait" THEN "front_wake"
              ELSE pc[u]]

NotifyFull(t) ==
    pc' = [u \in Threads |->
              IF u = t THEN "idle"
              ELSE IF pc[u] = "full_wait" THEN "full_wake"
              ELSE pc[u]]

Return(t, a) ==
    /\ mutex' = NoThread
    /\ answer' = [answer EXCEPT ![t] = a]

-----------------------------------------------------------------------------
(* push *)

PushCall(t) ==
    /\ t \in Producers
    /\ pc[t] = "idle"
    /\ pushes < MaxPushes
    /\ pushes' = pushes + 1
    /\ hand' = [hand EXCEPT ![t] = pushes + 1]
    /\ Goto(t, "push_lock")
    /\ UNCHANGED <<queue, mutex, answer, history>>

\* The first test: go on, or release the mutex and wait on `full`.
PushTest(t) ==
    /\ pc[t] = "push_test"
    /\ \/ Len(queue) # Capacity /\ Goto(t, "push_put") /\ UNCHANGED mutex
       \/ Len(queue) = Capacity /\ Goto(t, "full_wait") /\ mutex' = NoThread
    /\ UNCHANGED <<queue, hand, answer, pushes, history>>

\* The second and last test, after the wait.
PushRetest(t) ==
    /\ pc[t] = "push_retest"
    /\ Len(queue) # Capacity
    /\ Goto(t, "push_put")
    /\ UNCHANGED <<queue, mutex, hand, answer, pushes, history>>

PushRefuse(t) ==
    /\ pc[t] = "push_retest"
    /\ Len(queue) = Capacity
    /\ Goto(t, "idle")
    /\ Return(t, Refused)
    /\ UNCHANGED <<queue, hand, pushes, history>>

PushPut(t) ==
    /\ pc[t] = "push_put"
    /\ queue' = Append(queue, hand[t])
    /\ accepted' = Append(accepted, hand[t])
    /\ NotifyEmpty(t)
    /\ Return(t, hand[t])
    /\ UNCHANGED <<hand, pushes, popped>>

-----------------------------------------------------------------------------
(* pop *)

PopCall(t) ==
    /\ t \in Consumers
    /\ pc[t] = "idle"
    /\ Goto(t, "pop_lock")
    /\ UNCHANGED <<queue, mutex, hand, answer, pushes, history>>

PopTest(t) ==
    /\ pc[t] = "pop_test"
    /\ \/ queue # <<>> /\ Goto(t, "pop_front") /\ UNCHANGED mutex
       \/ queue = <<>> /\ Goto(t, "empty_wait") /\ mutex' = NoThread
    /\ UNCHANGED <<queue, hand, answer, pushes, history>>

PopRetest(t) ==
    /\ pc[t] = "pop_retest"
    /\ queue # <<>>
    /\ Goto(t, "pop_front")
    /\ UNCHANGED <<queue, mutex, hand, answer, pushes, history>>

\* Mutant: pop gives up after its wait without a second test.
PopRefuse_Blind(t) ==
    /\ pc[t] = "pop_retest"
    /\ Goto(t, "idle")
    /\ Return(t, Refused)
    /\ UNCHANGED <<queue, hand, pushes, history>>

PopRefuse(t) ==
    /\ pc[t] = "pop_retest"
    /\ queue = <<>>
    /\ Goto(t, "idle")
    /\ Return(t, Refused)
    /\ UNCHANGED <<queue, hand, pushes, history>>

PopFront(t) ==
    /\ pc[t] = "pop_front"
    /\ hand' = [hand EXCEPT ![t] = Head(queue)]
    /\ Goto(t, "pop_remove")
    /\ UNCHANGED <<queue, mutex, answer, pushes, history>>

\* Mutant: pop does not notify `full`.
PopRemove_Silent(t) ==
    /\ pc[t] = "pop_remove"
    /\ queue' = Tail(queue)
    /\ popped' = Append(popped, hand[t])
    /\ Goto(t, "idle")
    /\ Return(t, hand[t])
    /\ UNCHANGED <<hand, pushes, accepted>>

PopRemove(t) ==
    /\ pc[t] = "pop_remove"
    /\ queue' = Tail(queue)
    /\ popped' = Append(popped, hand[t])
    /\ NotifyFull(t)
    /\ Return(t, hand[t])
    /\ UNCHANGED <<hand, pushes, accepted>>

-----------------------------------------------------------------------------
(* front: waits in a loop with no time limit and copies the head. *)

FrontCall(t) ==
    /\ t \in Viewers
    /\ pc[t] = "idle"
    /\ Goto(t, "front_lock")
    /\ UNCHANGED <<queue, mutex, hand, answer, pushes, history>>

FrontTest(t) ==
    /\ pc[t] = "front_test"
    /\ \/ queue # <<>> /\ Goto(t, "front_take") /\ UNCHANGED mutex
       \/ queue = <<>> /\ Goto(t, "front_wait") /\ mutex' = NoThread
    /\ UNCHANGED <<queue, hand, answer, pushes, history>>

FrontTake(t) ==
    /\ pc[t] = "front_take"
    /\ Goto(t, "idle")
    /\ Return(t, Head(queue))
    /\ UNCHANGED <<queue, hand, pushes, history>>

-----------------------------------------------------------------------------
Body(t) ==
    \/ PushTest(t) \/ PushRetest(t) \/ PushRefuse(t) \/ PushPut(t)
    \/ PopTest(t) \/ PopRetest(t) \/ PopRefuse(t) \/ PopFront(t) \/ PopRemove(t)
    \/ FrontTest(t) \/ FrontTake(t)

Step(t) ==
    \/ PushCall(t) \/ PopCall(t) \/ FrontCall(t)
    \/ Lock(t) \/ Timeout(t) \/ SpuriousWake(t)
    \/ Body(t)

Next == \E t \in Threads : Step(t)

(* Threads inside the queue keep running, the timers of wait_for fire, and a
   FreeRTOS mutex is handed to the waiter of highest priority that has waited
   longest (all std::threads have the same priority), so nobody is passed over
   for ever.  Nothing makes a thread call, and no timer ends the wait of front. *)
Fairness == \A t \in Threads :
    /\ SF_vars(Lock(t))
    /\ WF_vars(Timeout(t))
    /\ WF_vars(Body(t))

Spec == Init /\ [][Next]_vars
FairSpec == Spec /\ Fairness

-----------------------------------------------------------------------------
(* Properties *)

\* Every variable keeps to its type (the members, blocking_queue.hpp:121-126).
TypeOK ==
    /\ queue \in Seq(Messages)
    /\ mutex \in Threads \cup {NoThread}
    /\ pc \in [Threads -> PushPcs \cup PopPcs \cup FrontPcs \cup {"idle"}]
    /\ hand \in [Threads -> Messages \cup {Refused}]
    /\ answer \in [Threads -> Messages \cup {Refused}]
    /\ pushes \in 0..MaxPushes
    /\ accepted \in Seq(Messages)
    /\ popped \in Seq(Messages)

\* Two threads are never inside the queue together, whatever order waits,
\* timeouts and notifications come in (the unique_lock of each operation).
MutualExclusion ==
    \A t, u \in Threads : pc[t] \in Critical /\ pc[u] \in Critical => t = u

\* The queue never holds more than its capacity, although a push appends after
\* a test made before other threads ran (blocking_queue.hpp:47-56).
WithinCapacity == Len(queue) <= Capacity

\* Every message push accepted is in the queue or was popped, once, and in the
\* order it was accepted, for any number of threads on both sides.
FifoOrder == accepted = popped \o queue

\* No wake-up is lost: while a thread sleeps on `full` the queue is full, and
\* while one sleeps on `empty` it is empty (the notify_all of hpp:57 and hpp:75).
NoLostWakeup ==
    \A t \in Threads :
        /\ pc[t] = "full_wait" => Len(queue) = Capacity
        /\ pc[t] \in {"empty_wait", "front_wait"} => queue = <<>>

\* push and pop always come back to their caller: one wait, never a loop
\* (hpp:49 and hpp:66), so a writer cannot be held for ever by a full queue.
CallsReturn ==
    \A t \in Producers \cup Consumers : pc[t] # "idle" ~> pc[t] = "idle"

-----------------------------------------------------------------------------
(* Refinement: the queue with its mutex and its waits is a BoundedFifo.  A
   pop takes effect in PopRemove; front is invisible to push and pop. *)

request == [t \in Threads |->
    IF pc[t] \in PushPcs THEN [op |-> "push", msg |-> hand[t]]
    ELSE IF pc[t] \in PopPcs THEN [op |-> "pop", msg |-> Refused]
    ELSE [op |-> "none", msg |-> Refused]]

lastAnswer == [t \in Threads |-> IF t \in Viewers THEN Refused ELSE answer[t]]

Fifo == INSTANCE BoundedFifo WITH
    buffer <- queue, request <- request, answer <- lastAnswer

\* push and pop behave as atomic operations of a bounded FIFO buffer that
\* refuse only when the buffer is full, or empty, at that moment.
ImplementsFifo == Fifo!Spec
=============================================================================
