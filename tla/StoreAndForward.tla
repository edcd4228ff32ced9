-------------------------- MODULE StoreAndForward --------------------------
(***************************************************************************)
(* What the offline queue of the data-collector daemon promises, payload   *)
(* by payload: a payload that has been made is in hand, waiting in the     *)
(* queue, has arrived at the server, or has been given up on purpose (the  *)
(* queue limit, a full disk, a killed process).  How a payload is retried, *)
(* which checks precede a store, and how the queue file is rewritten, is   *)
(* left to PayloadDelivery, which implements this module.                  *)
(***************************************************************************)
EXTENDS Integers, Sequences

CONSTANTS
    Limit,        \* the queue length above which the oldest lines are expired
    MaxPayloads   \* bound on the number of payloads made

VARIABLES
    made,      \* payloads are numbered 1..made in the order they are made
    held,      \* the payload the sender holds in memory: empty or one
    queue,     \* the lines of the queue file, oldest first
    arrived,   \* payloads the server has received at least once
    gone       \* payloads given up

abstractVars == <<made, held, queue, arrived, gone>>

InQueue == {queue[i] : i \in DOMAIN queue}

Init ==
    /\ made = 0
    /\ held = {}
    /\ queue = <<>>
    /\ arrived = {}
    /\ gone = {}

-----------------------------------------------------------------------------
Make ==
    /\ held = {}
    /\ made < MaxPayloads
    /\ made' = made + 1
    /\ held' = {made'}
    /\ UNCHANGED <<queue, arrived, gone>>

\* A copy of a payload reaches the server, whether or not the sender learns it.
Arrive ==
    /\ \E p \in held \cup InQueue : arrived' = arrived \cup {p}
    /\ UNCHANGED <<made, held, queue, gone>>

Shelve ==
    /\ held # {}
    /\ \E p \in held : queue' = Append(queue, p)
    /\ held' = {}
    /\ UNCHANGED <<made, arrived, gone>>

\* The sender lets go of the payload in hand: it has arrived, or it is lost
\* and that is known.
LetGo ==
    /\ held # {}
    /\ held' = {}
    /\ \E lost \in SUBSET held :
          /\ held \ arrived \subseteq lost
          /\ gone' = gone \cup lost
    /\ UNCHANGED <<made, queue, arrived>>

\* Only the oldest lines above the limit are expired.
Expire ==
    /\ Len(queue) > Limit
    /\ queue' = SubSeq(queue, Len(queue) - Limit + 1, Len(queue))
    /\ gone' = gone \cup {queue[i] : i \in 1 .. Len(queue) - Limit}
    /\ UNCHANGED <<made, held, arrived>>

\* Lines leave the head of the queue once they have arrived.
Forget ==
    /\ \E k \in DOMAIN queue :
          /\ \A i \in 1 .. k : queue[i] \in arrived
          /\ queue' = SubSeq(queue, k + 1, Len(queue))
    /\ UNCHANGED <<made, held, arrived, gone>>

Next == Make \/ Arrive \/ Shelve \/ LetGo \/ Expire \/ Forget

AbstractSpec == Init /\ [][Next]_abstractVars

=============================================================================
