------------------------------ MODULE ByteQueue ------------------------------
(***************************************************************************)
(* What a Buffer promises (spec 3.4): a queue of bytes.  last is the       *)
(* latest call: its name, the bytes it was given (for a refill, the new    *)
(* content), the count a read asked for, whether it succeeded and what a   *)
(* read returned.  A write appends its bytes or fails and changes nothing; *)
(* a read of n bytes returns the oldest n and fails exactly when fewer are *)
(* queued; a refill replaces the content (empty when it fails); reserve    *)
(* keeps it.                                                               *)
(***************************************************************************)
EXTENDS Naturals, Sequences

CONSTANTS Bytes

VARIABLES queue, last

RefillCalls == {"construct", "destroy", "reinitialize", "deserialize"}

Put ==
  /\ last'.call = "write"
  /\ last'.out = <<>>
  /\ queue' = IF last'.ok THEN queue \o last'.in ELSE queue

Take ==
  /\ last'.call = "read"
  /\ IF last'.n <= Len(queue)
     THEN /\ last'.ok
          /\ last'.out = SubSeq(queue, 1, last'.n)
          /\ queue' = SubSeq(queue, last'.n + 1, Len(queue))
     ELSE /\ ~last'.ok
          /\ last'.out = <<>>
          /\ queue' = queue

Refill ==
  /\ last'.call \in RefillCalls
  /\ last'.out = <<>>
  /\ queue' = IF last'.ok THEN last'.in ELSE <<>>

Keep ==
  /\ last'.call = "reserve"
  /\ last'.out = <<>>
  /\ queue' = queue

Init == queue = <<>>

Next == Put \/ Take \/ Refill \/ Keep

Spec == Init /\ [][Next]_<<queue, last>>

=============================================================================
