---------------------------- MODULE ConsumerGroup ----------------------------
(***************************************************************************)
(* What the ledger, fraud and notification services rely on in Kafka: a    *)
(* consumer group over fixed topic partitions (lanes). A rebalance may     *)
(* hand a lane to another consumer while the old one is in the middle of a *)
(* message; it then learns so at its next poll. Only the consumer of the   *)
(* current generation can commit the lane's offset.                        *)
(*                                                                         *)
(* The operators below are parts of the consumers' own actions.            *)
(***************************************************************************)
EXTENDS Integers, Sequences

CONSTANTS
  Consumers,   \* members the group may have
  Log          \* topic partition -> the messages in it

Lanes == DOMAIN Log

ASSUME LogAssumption == \A l \in Lanes : Len(Log[l]) \in Nat

VARIABLES
  committed,  \* lane -> committed offset: messages up to it are done with
  assigned,   \* lane -> the consumer the group has given it to
  generation, \* lane -> how often it has been given away
  claim,      \* consumer -> lane -> generation it works in (-1: not its lane)
  position    \* consumer -> lane -> messages up to it have been taken

group == <<committed, assigned, generation, claim>>

GroupInit ==
  /\ committed = [l \in Lanes |-> 0]
  /\ assigned \in [Lanes -> Consumers]
  /\ generation = [l \in Lanes |-> 0]
  /\ claim = [c \in Consumers |-> [l \in Lanes |-> -1]]
  /\ position = [c \in Consumers |-> [l \in Lanes |-> 0]]

(* A rebalance gives lane l to another consumer. *)
GiveAway(l, c) ==
  /\ c # assigned[l]
  /\ assigned' = [assigned EXCEPT ![l] = c]
  /\ generation' = [generation EXCEPT ![l] = @ + 1]
  /\ UNCHANGED <<committed, claim, position>>

(* The consumer polls: it learns what it has been given and starts there from the
   committed offset, and drops what it has lost.                                  *)
Learn(c, l) ==
  /\ \/ /\ assigned[l] = c
        /\ claim[c][l] # generation[l]
        /\ claim' = [claim EXCEPT ![c][l] = generation[l]]
        /\ position' = [position EXCEPT ![c][l] = committed[l]]
     \/ /\ assigned[l] # c
        /\ claim[c][l] # -1
        /\ claim' = [claim EXCEPT ![c][l] = -1]
        /\ position' = [position EXCEPT ![c][l] = 0]
  /\ UNCHANGED <<committed, assigned, generation>>

(* c has a message of lane l to take. *)
HasNext(c, l) == claim[c][l] # -1 /\ position[c][l] < Len(Log[l])

(* The group accepts commits of the current generation only. *)
MayCommit(c, l) == assigned[l] = c /\ claim[c][l] = generation[l]

CommitPosition(c, l) ==
  /\ MayCommit(c, l)
  /\ committed[l] # position[c][l]
  /\ committed' = [committed EXCEPT ![l] = position[c][l]]
  /\ UNCHANGED <<assigned, generation, claim, position>>

(* A consumer that has been started again knows nothing. *)
Forget(c) ==
  /\ claim' = [claim EXCEPT ![c] = [l \in Lanes |-> -1]]
  /\ position' = [position EXCEPT ![c] = [l \in Lanes |-> 0]]
  /\ UNCHANGED <<committed, assigned, generation>>
==============================================================================
