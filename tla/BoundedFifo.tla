---------------------------- MODULE BoundedFifo ----------------------------
(***************************************************************************)
(* What a user of BlockingQueue<T> relies on, with no mutex, no condition  *)
(* variable and no timer: a first-in first-out buffer of Capacity messages *)
(* on which every push and pop takes effect in one step between its call   *)
(* and its return.  A push is refused only by a full buffer and a pop only *)
(* by an empty one.                                                        *)
(***************************************************************************)
EXTENDS Naturals, Sequences

CONSTANTS
    Threads,    \* the callers
    Messages,   \* what can be pushed
    Capacity,   \* the most messages the buffer holds
    Refused     \* what a failed call returns (the code's `false`)

VARIABLES
    buffer,     \* the messages accepted and not yet handed out
    request,    \* request[t]: the call thread t is in
    answer      \* answer[t]: what its last finished call returned

vars == <<buffer, request, answer>>

Idle == [op |-> "none", msg |-> Refused]
Push(m) == [op |-> "push", msg |-> m]
Pop == [op |-> "pop", msg |-> Refused]

Init ==
    /\ buffer = <<>>
    /\ request = [t \in Threads |-> Idle]
    /\ answer = [t \in Threads |-> Refused]

Call(t) ==
    /\ request[t] = Idle
    /\ \E r \in {Push(m) : m \in Messages} \cup {Pop} :
          request' = [request EXCEPT ![t] = r]
    /\ UNCHANGED <<buffer, answer>>

Return(t, a) ==
    /\ request' = [request EXCEPT ![t] = Idle]
    /\ answer' = [answer EXCEPT ![t] = a]

PushAccepted(t) ==
    /\ request[t].op = "push"
    /\ Len(buffer) < Capacity
    /\ buffer' = Append(buffer, request[t].msg)
    /\ Return(t, request[t].msg)

PushRefused(t) ==
    /\ request[t].op = "push"
    /\ Len(buffer) = Capacity
    /\ Return(t, Refused)
    /\ UNCHANGED buffer

PopAnswered(t) ==
    /\ request[t].op = "pop"
    /\ buffer # <<>>
    /\ buffer' = Tail(buffer)
    /\ Return(t, Head(buffer))

PopRefused(t) ==
    /\ request[t].op = "pop"
    /\ buffer = <<>>
    /\ Return(t, Refused)
    /\ UNCHANGED buffer

Step(t) ==
    \/ Call(t)
    \/ PushAccepted(t)
    \/ PushRefused(t)
    \/ PopAnswered(t)
    \/ PopRefused(t)

Next == \E t \in Threads : Step(t)

Spec == Init /\ [][Next]_vars
=============================================================================
