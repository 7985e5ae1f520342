------------------------------ MODULE FifoQueue ------------------------------
(***************************************************************************)
(* What CYSDataQueue promises its users: a queue that hands out every      *)
(* packet once, in the order of insertion, whatever its buffer does.       *)
(***************************************************************************)
EXTENDS Naturals, Sequences

CONSTANT Packets

VARIABLES items,   \* packets inserted and not yet distilled
          out      \* the packet distilled last, or none yet

Init == items = <<>> /\ out = <<>>

InsertData == \E p \in Packets : items' = Append(items, p) /\ UNCHANGED out

DistillData == /\ items # <<>>
               /\ out' = <<Head(items)>>
               /\ items' = Tail(items)

RemoveData == items' = <<>> /\ UNCHANGED out

Next == InsertData \/ DistillData \/ RemoveData

Spec == Init /\ [][Next]_<<items, out>>
=============================================================================
