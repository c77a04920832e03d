-------------------------------- MODULE Feed --------------------------------
(***************************************************************************)
(* What GET /v1/snapshot and GET /v1/events promise a subscriber together:  *)
(* a position in one committed sequence of events that moves forward an     *)
(* event at a time and otherwise only by reading the whole graph again.     *)
(* A lossy feed may also skip events without a word.                        *)
(***************************************************************************)
EXTENDS Integers

CONSTANT Clients

VARIABLES
    head,         \* events committed so far
    position,     \* the last event each client has applied
    lossy         \* whether events may be skipped

Init ==
    /\ head = 0
    /\ position = [c \in Clients |-> 0]
    /\ lossy \in BOOLEAN

Publish == head' \in Nat /\ head' > head /\ UNCHANGED <<position, lossy>>

Move(c, k) == position' = [position EXCEPT ![c] = k] /\ UNCHANGED <<head, lossy>>

Deliver(c) == position[c] < head /\ Move(c, position[c] + 1)

Skip(c) == lossy /\ \E k \in (position[c] + 1)..head : Move(c, k)

Reload(c) == Move(c, head)

Next == Publish \/ \E c \in Clients : Deliver(c) \/ Skip(c) \/ Reload(c)

Spec == Init /\ [][Next]_<<head, position, lossy>>
=============================================================================
