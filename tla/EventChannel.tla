---------------------------- MODULE EventChannel ----------------------------
(***************************************************************************)
(* What the event reading half of libinotifytools promises its caller: a   *)
(* FIFO channel from the kernel to the program.  Every event the kernel    *)
(* queues is taken exactly once and in order; the ones the program asked   *)
(* not to see (e.skip) are dropped, the others are delivered.  Only        *)
(* closing the handle loses events: a tail of what is pending, never       *)
(* something before it.                                                    *)
(***************************************************************************)
EXTENDS Sequences, Naturals

CONSTANT Events      \* records with a Boolean field skip

VARIABLES
  open,              \* the channel is open
  pending,           \* events that happened and were not taken yet
  delivered          \* events handed to the program, oldest first

vars == <<open, pending, delivered>>

Init == open = FALSE /\ pending = << >> /\ delivered = << >>

Open == ~open /\ open' = TRUE /\ UNCHANGED <<pending, delivered>>

Post(e) ==
  /\ open
  /\ pending' = Append(pending, e)
  /\ UNCHANGED <<open, delivered>>

Take ==
  /\ open /\ pending # << >>
  /\ pending' = Tail(pending)
  /\ delivered' = IF Head(pending).skip THEN delivered
                                        ELSE Append(delivered, Head(pending))
  /\ UNCHANGED open

Close ==
  /\ open /\ open' = FALSE
  /\ \E k \in 0..Len(pending) : pending' = SubSeq(pending, 1, k)
  /\ UNCHANGED delivered

Next == Open \/ Take \/ Close \/ \E e \in Events : Post(e)

Spec == Init /\ [][Next]_vars
=============================================================================
