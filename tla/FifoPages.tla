------------------------------ MODULE FifoPages ------------------------------
(***************************************************************************)
(* The page cache the flat one replaces: a set of resident pages kept in a *)
(* queue, oldest first.  A page enters at the back; a full queue drops its *)
(* front; changing the capacity empties the queue.                         *)
(***************************************************************************)
EXTENDS Naturals, Sequences

CONSTANTS
  Pages,
  Capacities   \* the capacities the cache is ever given

VARIABLES
  queue,      \* resident pages, oldest first
  capacity    \* number of pages the cache can hold

fifoVars == <<queue, capacity>>

Init == queue = <<>> /\ capacity = 0

Enter(p) ==
  /\ \A i \in 1 .. Len(queue) : queue[i] # p
  /\ capacity > 0
  /\ queue' = Append(IF Len(queue) = capacity THEN Tail(queue) ELSE queue, p)
  /\ UNCHANGED capacity

Resize(c) ==
  /\ queue' = <<>>
  /\ capacity' = c

\* The first load after construction sizes the cache and enters the page.
ResizeAndEnter(c, p) ==
  /\ capacity # c
  /\ queue' = <<p>>
  /\ capacity' = c

Next ==
  \/ \E p \in Pages : Enter(p)
  \/ \E c \in Capacities : Resize(c)
  \/ \E c \in Capacities, p \in Pages : ResizeAndEnter(c, p)

Spec == Init /\ [][Next]_fifoVars
=============================================================================
