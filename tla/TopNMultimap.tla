---------------------------- MODULE TopNMultimap ----------------------------
(***************************************************************************)
(* A map whose entries are divided into the N with the highest values, the *)
(* top, and the others, the bottom.  _index, _topObjects and _bottomObjects*)
(* are one function from keys to a value and a pool here.  Which of the    *)
(* entries of equal value is first in its multimap is left open.           *)
(*                                                                         *)
(* The constructor takes every N, 0 included.  insert then reads begin()   *)
(* of an empty top, which is undefined (InsertAtZero).                     *)
(***************************************************************************)
EXTENDS Integers, FiniteSetsExt

CONSTANTS
  Keys, Values,
  TopSizes        \* the N a container may be made with

ASSUME TopNAssumption ==
  IsFiniteSet(Keys) /\ Values \subseteq Int /\ TopSizes \subseteq Nat

VARIABLES
  valueOf,        \* the value of each key in the container
  poolOf,         \* where each key is: "t", "b" or "a" (absent)
  topN,           \* _n
  listedTwice     \* whether an entry of the bottom was put there once more

topNVars == <<valueOf, poolOf, topN, listedTwice>>

NoValue == -1

In(pool) == {k \in Keys : poolOf[k] = pool}
HighestOf(S) == {k \in S : \A j \in S : valueOf[k] >= valueOf[j]}
LowestOf(S) == {k \in S : \A j \in S : valueOf[k] <= valueOf[j]}

\* ensureKeyDeleted: what a pool has left without the old entry of k.
OtherKeys(pool, k) == In(pool) \ {k}

TopNInit ==
  /\ valueOf = [k \in Keys |-> NoValue]
  /\ poolOf = [k \in Keys |-> "a"]
  /\ topN \in TopSizes /\ listedTwice = FALSE

(***************************************************************************)
(* insert: where k goes once its old entry is deleted.  The middle branch  *)
(* is never taken, for deleting an entry of the top leaves room there.     *)
(***************************************************************************)
Insert(k, v) ==
  LET top == OtherKeys("t", k)  bottom == OtherKeys("b", k) IN
  /\ topN > 0 /\ UNCHANGED listedTwice
  /\ valueOf' = [valueOf EXCEPT ![k] = v]
  /\ IF Cardinality(top) < topN
     THEN poolOf' = [poolOf EXCEPT ![k] = "t"]
     ELSE IF poolOf[k] = "t"
     THEN \E best \in HighestOf(bottom) :
            poolOf' = IF v >= valueOf[best] THEN poolOf
                      ELSE [poolOf EXCEPT ![best] = "t", ![k] = "b"]
     ELSE \E worst \in LowestOf(top) :
            poolOf' = IF v > valueOf[worst]
                      THEN [poolOf EXCEPT ![worst] = "b", ![k] = "t"]
                      ELSE [poolOf EXCEPT ![k] = "b"]

(***************************************************************************)
(* insert where the top has no room and no entry.  What is read for its    *)
(* lowest entry has any value, and any key: the value is not lower than v; *)
(* or it is, and the key is of no entry, migrateKey throws and the old     *)
(* entry of k is gone; or it is of an entry, and that goes to the bottom,  *)
(* where it is.  What such a container does then is not followed.          *)
(***************************************************************************)
InsertAtZero(k, v) ==
  /\ topN = 0
  /\ \/ /\ valueOf' = [valueOf EXCEPT ![k] = v]
        /\ poolOf' = [poolOf EXCEPT ![k] = "b"]
        /\ UNCHANGED listedTwice
     \/ /\ valueOf' = [valueOf EXCEPT ![k] = NoValue]
        /\ poolOf' = [poolOf EXCEPT ![k] = "a"]
        /\ UNCHANGED listedTwice
     \/ /\ OtherKeys("b", k) # {}
        /\ valueOf' = [valueOf EXCEPT ![k] = v]
        /\ poolOf' = [poolOf EXCEPT ![k] = "t"]
        /\ listedTwice' = TRUE

\* As Erase below would be without the migration.
EraseOnly(k) ==
  /\ poolOf[k] # "a" /\ UNCHANGED listedTwice
  /\ valueOf' = [valueOf EXCEPT ![k] = NoValue]
  /\ poolOf' = [poolOf EXCEPT ![k] = "a"]

\* erase: an entry of the bottom fills the place of an entry of the top.
Erase(k) ==
  /\ poolOf[k] # "a" /\ UNCHANGED listedTwice
  /\ valueOf' = [valueOf EXCEPT ![k] = NoValue]
  /\ IF poolOf[k] = "t" /\ In("b") # {}
     THEN \E best \in HighestOf(In("b")) :
            poolOf' = [poolOf EXCEPT ![k] = "a", ![best] = "t"]
     ELSE poolOf' = [poolOf EXCEPT ![k] = "a"]

TopNNext ==
  /\ ~listedTwice /\ UNCHANGED topN
  /\ \E k \in Keys :
       \/ Erase(k)
       \/ \E v \in Values : Insert(k, v) \/ InsertAtZero(k, v)

TopNSpec == TopNInit /\ [][TopNNext]_topNVars

-----------------------------------------------------------------------------
Full == Cardinality(In("t")) = Min({topN, Cardinality(In("t") \cup In("b"))})

Ranked == \A t \in In("t"), b \in In("b") : valueOf[t] >= valueOf[b]

LoweredOnTop == \E k \in In("t") : poolOf'[k] = "t" /\ valueOf'[k] < valueOf[k]

(***************************************************************************)
(* The top holds as many entries as it can, and after every call its       *)
(* values are the highest, except that overwriting an entry of the top     *)
(* with a lower value may leave it there.  Of a container made for N = 0   *)
(* this is so until an insert has put an entry of the bottom there again.  *)
(***************************************************************************)
TopNRanked ==
  [][~listedTwice' => Full' /\ (Ranked => Ranked' \/ LoweredOnTop)]_topNVars
=============================================================================
