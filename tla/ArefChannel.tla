----------------------------- MODULE ArefChannel ----------------------------
(***************************************************************************)
(* What an aref promises (NVWSOps.td: a put region may freely write the    *)
(* buffer, a get region may freely read it): a ring of Depth slots that    *)
(* every producer fills and every consumer drains in the same cyclic       *)
(* order.  No barrier, register or asynchronous engine appears here.       *)
(*                                                                         *)
(* at[a]      the slot actor a entered last                                *)
(* lap[a][s]  how many regions a has entered on slot s                     *)
(* busy[a][s] a may still be accessing slot s on behalf of its last region *)
(***************************************************************************)
EXTENDS Integers

CONSTANTS
  Producers,  \* partitions with aref.put.enter / aref.put.exit
  Consumers,  \* partitions with aref.get.enter / aref.get.exit
  Depth       \* number of slots

VARIABLES at, lap, busy

chanVars == <<at, lap, busy>>

Actor == Producers \cup Consumers
Slot == 0 .. Depth - 1
Succ(s) == IF s + 1 = Depth THEN 0 ELSE s + 1

Init ==
  /\ at = [a \in Actor |-> Depth - 1]
  /\ lap = [a \in Actor |-> [s \in Slot |-> 0]]
  /\ busy = [a \in Actor |-> [s \in Slot |-> FALSE]]

Open(a, s) ==
  /\ s = Succ(at[a])
  /\ ~busy[a][s]
  /\ at' = [at EXCEPT ![a] = s]
  /\ lap' = [lap EXCEPT ![a][s] = @ + 1]
  /\ busy' = [busy EXCEPT ![a][s] = TRUE]

\* A producer may refill a slot once every consumer has drained it.
Put(p) ==
  \E s \in Slot :
    /\ \A c \in Consumers : ~busy[c][s] /\ lap[c][s] = lap[p][s]
    /\ Open(p, s)

\* A consumer may read a slot once every producer has filled it for this lap.
Get(c) ==
  \E s \in Slot :
    /\ \A p \in Producers : ~busy[p][s] /\ lap[p][s] = lap[c][s] + 1
    /\ Open(c, s)

\* The last access of the region has taken effect.
Close(a, s) ==
  /\ busy[a][s]
  /\ busy' = [busy EXCEPT ![a][s] = FALSE]
  /\ UNCHANGED <<at, lap>>

Next ==
  \/ \E p \in Producers : Put(p)
  \/ \E c \in Consumers : Get(c)
  \/ \E a \in Actor, s \in Slot : Close(a, s)

Spec == Init /\ [][Next]_chanVars

=============================================================================
