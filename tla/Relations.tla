------------------------------ MODULE Relations ------------------------------
(***************************************************************************)
(* The boxes that read and write relations: tables of an external data     *)
(* base that several boxes share.  UpdateRelation and ReadRelation put and *)
(* get rows by key; the LR boxes keep the accounts, the daily balances and *)
(* the statistics of toll roads.  A box runs on one worker at a time, but  *)
(* different boxes run at once, and none of their calls of the data base   *)
(* is in a transaction: a step is one call.                                *)
(*                                                                         *)
(* A position is <<expressway, segment, direction>>.                       *)
(***************************************************************************)
EXTENDS Integers, Sequences

CONSTANT RelCases   \* functions from boxes to [kind, input]; for a box behind
                    \* another, [kind, from]

\* Boxes read the fields of a tuple at fixed places, so a box that charges or
\* keeps tolls is given tuples with a toll, or is behind a box that computes
\* them; and that one is given such tuples, or is behind one that reads accounts.
HasToll(kind, t) ==
  /\ kind \in {"updateAccts", "updateDaily", "calcToll"} => t.ltoll \in Int
  /\ kind \in {"updateAccts", "updateStats"} => t.toll \in Int

\* The places a report can be at: no segment is negative.
Positions == Int \X Nat \X Int

\* Cars, times and places are numbers.
HasPlace(kind, t) ==
  /\ kind \in {"updateAccts", "calcToll", "readPos"} => t.car \in Int
  /\ kind \in {"updateStats", "calcToll", "readPos"} => t.time \in Int
  /\ kind \in {"updateAccts", "updateStats", "updateAcc", "calcToll"} => t.pos \in Positions
  /\ kind = "readPos" => t.exp \in Int /\ t.x \in Nat /\ t.dir \in Int

Suits(kind, source) ==
  /\ kind \in {"updateAccts", "updateDaily", "updateStats"} => source = "calcToll"
  /\ kind \in {"calcToll", "updateAcc"} => source = "readPos"
  /\ kind # "readPos"

ASSUME RelationsAssumption ==
  \A case \in RelCases : \A b \in DOMAIN case :
    IF "from" \in DOMAIN case[b]
    THEN /\ case[b].from \in DOMAIN case
         /\ Suits(case[b].kind, case[case[b].from].kind)
    ELSE /\ case[b].input \in Seq({case[b].input[i] : i \in DOMAIN case[b].input})
         /\ \A i \in DOMAIN case[b].input : /\ HasToll(case[b].kind, case[b].input[i])
                                             /\ HasPlace(case[b].kind, case[b].input[i])

VARIABLES
  relBoxes,   \* the boxes of the case
  accts,      \* the accounts, by car; getAcctsByPosDb is an index of them
  daily,      \* the balances, by car, day and expressway
  stats,      \* the tolls, by time and position
  accidents,  \* the keys of getAccDb
  relation,   \* the table of UpdateRelation and ReadRelation
  work,       \* per box: how far it is, in its input and in a tuple
  relOut,     \* per box: the tuples it announced
  charged,    \* history: per key of accts and daily, what was charged to it
  raced       \* history: keys put to between the get and the put of another box

relTables == <<accts, daily, stats, accidents, relation>>
relHistory == <<charged, raced>>
relVars == <<relBoxes, relTables, work, relOut, relHistory>>

RelBoxes  == DOMAIN relBoxes
Kind(b)   == relBoxes[b].kind
Source(b) == IF "from" \in DOMAIN relBoxes[b] THEN relOut[relBoxes[b].from] ELSE relBoxes[b].input
Doing(b, kind, at) == Kind(b) = kind /\ work[b].at = at /\ work[b].done < Len(Source(b))
Tuple(b)  == Source(b)[work[b].done + 1]

Aborted == \E b \in RelBoxes : work[b].at = "abort"

-----------------------------------------------------------------------------
(* The run of a box.  A train ends after any tuple; until then the size of *)
(* the tuples it puts out, and their number, are kept.                     *)

Fresh == [done |-> 0, at |-> "start", seen |-> <<>>, seg |-> 0, car |-> 0,
          standing |-> {}, marked |-> {}, found |-> FALSE, sized |-> FALSE, written |-> 0]

Finished(w) ==
  {[Fresh EXCEPT !.done = w.done + 1, !.sized = ~ends /\ w.sized, !.written = IF ends THEN 0 ELSE w.written] :
     ends \in BOOLEAN}

Goes(b, w)     == work' = [work EXCEPT ![b] = w]
Finish(b, w)   == \E f \in Finished(w) : Goes(b, f)
Announce(b, t) == relOut' = [relOut EXCEPT ![b] = Append(@, t)]

Day(time) == time \div (24 * 60 * 60)
DailyKey(t) == <<t.car, Day(t.time), t.lpos[1]>>

\* What a box has read and is yet to put back.
InHand(b) ==
  CASE work[b].at = "put" /\ Kind(b) = "updateAccts" -> {<<Tuple(b).car>>}
    [] work[b].at = "put" /\ Kind(b) = "updateDaily" -> {DailyKey(Tuple(b))}
    [] work[b].at = "mark"                           -> {<<work[b].car>>}
    [] OTHER                                         -> {}

\* A put to a key by b: what others hold of it is stale, and the cars of
\* `moved' no longer stand where a walk of another box may expect them.
Puts(b, key, w, moved) ==
  /\ work' = [o \in RelBoxes |-> IF o = b THEN w ELSE [work[o] EXCEPT !.standing = @ \ moved]]
  /\ raced' = IF \E o \in RelBoxes \ {b} : key \in InHand(o) THEN raced \cup {key} ELSE raced

\* The put of the data base: a row with a new key, or instead of the old one.
Put(table, key, row) == [k \in DOMAIN table \cup {key} |-> IF k = key THEN row ELSE table[k]]

Charge(key, amount) ==
  charged' = Put(charged, key, amount + IF key \in DOMAIN charged THEN charged[key] ELSE 0)

-----------------------------------------------------------------------------
(* LRUpdateRelation.                                                       *)

GetAccount(b) ==
  /\ Doing(b, "updateAccts", "start")
  /\ LET car == Tuple(b).car
     IN Goes(b, [work[b] EXCEPT !.at = "put", !.seen = IF car \in DOMAIN accts THEN accts[car].bal ELSE 0])
  /\ UNCHANGED <<relBoxes, relTables, relOut, relHistory>>

\* As NewAccount below would be if a car paid for the segment it comes to.
NewAccountAhead(t, balance) ==
  [pos |-> t.pos, lane |-> t.lane, toll |-> t.toll, bal |-> balance - t.toll, acc |-> 0]

\* The toll of the segment a car left is paid, that of the next is noted.
NewAccount(t, balance) ==
  [pos |-> t.pos, lane |-> t.lane, toll |-> t.toll, bal |-> balance - t.ltoll, acc |-> 0]

PutAccount(b) ==
  /\ Doing(b, "updateAccts", "put")
  /\ LET t == Tuple(b)
     IN /\ accts' = Put(accts, t.car, NewAccount(t, work[b].seen))
        /\ Charge(<<t.car>>, t.ltoll)
        /\ \E f \in Finished(work[b]) : Puts(b, <<t.car>>, f, {t.car})
  /\ UNCHANGED <<relBoxes, daily, stats, accidents, relation, relOut>>

GetDaily(b) ==
  /\ Doing(b, "updateDaily", "start")
  /\ LET key == DailyKey(Tuple(b))
     IN Goes(b, [work[b] EXCEPT !.at = "put", !.seen = IF key \in DOMAIN daily THEN daily[key] ELSE 0])
  /\ UNCHANGED <<relBoxes, relTables, relOut, relHistory>>

PutDaily(b) ==
  /\ Doing(b, "updateDaily", "put")
  /\ LET key == DailyKey(Tuple(b))
     IN /\ daily' = Put(daily, key, work[b].seen - Tuple(b).ltoll)
        /\ Charge(key, Tuple(b).ltoll)
        /\ \E f \in Finished(work[b]) : Puts(b, key, f, {})
  /\ UNCHANGED <<relBoxes, accts, stats, accidents, relation, relOut>>

PutStats(b) ==
  /\ Doing(b, "updateStats", "start")
  /\ stats' = Put(stats, <<Tuple(b).time, Tuple(b).pos>>, Tuple(b).toll)
  /\ Finish(b, work[b])
  /\ UNCHANGED <<relBoxes, accts, daily, accidents, relation, relOut, relHistory>>

\* As Segments below would be with the directions the other way round.
SegmentsAhead(pos) == IF pos[3] = 0 THEN pos[2]..(pos[2] + 4)
                      ELSE (IF pos[2] < 4 THEN 0 ELSE pos[2] - 4)..pos[2]

\* The last five segments before a position.
Segments(pos) == IF pos[3] = 0 THEN (IF pos[2] < 4 THEN 0 ELSE pos[2] - 4)..pos[2]
                 ELSE pos[2]..(pos[2] + 4)

FirstOfSegments(pos) == CHOOSE s \in Segments(pos) : \A r \in Segments(pos) : s <= r

\* history: the cars that the walk should come to.
Approaching(pos) ==
  {c \in DOMAIN accts :
     LET ahead == IF pos[3] = 0 THEN pos[2] - accts[c].pos[2] ELSE accts[c].pos[2] - pos[2]
     IN accts[c].pos[1] = pos[1] /\ accts[c].pos[3] = pos[3] /\ ahead \in 0..4}

PutAccident(b) ==
  /\ Doing(b, "updateAcc", "start")
  /\ LET t == Tuple(b)
     IN IF t.acc = 0
        THEN Goes(b, [work[b] EXCEPT !.at = "abort"]) /\ UNCHANGED accidents
        ELSE /\ accidents' = accidents \cup {<<t.time, t.pos>>}
             /\ Goes(b, [work[b] EXCEPT !.at = "seek", !.seg = FirstOfSegments(t.pos), !.standing = Approaching(t.pos)])
  /\ UNCHANGED <<relBoxes, accts, daily, stats, relation, relOut, relHistory>>

\* The row of the car goes back with 1 for its last toll: 6 is the index of
\* that, and 8 the index of the accident part (67).
Mark(b) ==
  /\ Doing(b, "updateAcc", "mark")
  /\ LET car == work[b].car
     IN /\ accts' = Put(accts, car, [work[b].seen EXCEPT !.toll = 1])
        /\ Puts(b, <<car>>, [work[b] EXCEPT !.at = "next", !.marked = @ \cup {car}], {car})
  /\ UNCHANGED <<relBoxes, daily, stats, accidents, relation, relOut, charged>>

-----------------------------------------------------------------------------
(* The walk over an index of the accounts by position, segment by segment: *)
(* for accidents (updateAcc) and alerts (accAlert).  An alert is copied    *)
(* out but not counted ("*count++" moves the pointer), so none is          *)
(* announced; only its size stays, and may differ from that of the next    *)
(* tuple of the train, which is asserted not to happen.                    *)

Walks(b, at) == Doing(b, "updateAcc", at) \/ Doing(b, "accAlert", at)
CarsAt(pos)  == {c \in DOMAIN accts : accts[c].pos = pos}

Comes(b, car) ==
  Goes(b, [work[b] EXCEPT !.at = IF Kind(b) = "updateAcc" THEN "mark" ELSE "next", !.car = car,
                          !.seen = IF Kind(b) = "updateAcc" THEN accts[car] ELSE <<>>, !.found = TRUE])

PastSegment(b) ==
  LET w == work[b]
  IN IF w.seg + 1 \in Segments(Tuple(b).pos) THEN Goes(b, [w EXCEPT !.at = "seek", !.seg = @ + 1, !.seen = <<>>])
     ELSE IF Kind(b) = "accAlert" /\ w.sized /\ ~w.found THEN Goes(b, [w EXCEPT !.at = "abort"])
     ELSE Finish(b, [w EXCEPT !.sized = @ \/ (Kind(b) = "accAlert" /\ w.found)])

NextOf(b, cars) ==
  IF cars = {} THEN PastSegment(b)
  ELSE \E car \in cars : (\A other \in cars : car <= other) /\ Comes(b, car)

SegmentOf(b) == [Tuple(b).pos EXCEPT ![2] = work[b].seg]

BeginAlert(b) ==
  /\ Doing(b, "accAlert", "start")
  /\ Goes(b, [work[b] EXCEPT !.at = "seek", !.seg = FirstOfSegments(Tuple(b).pos)])
  /\ UNCHANGED <<relBoxes, relTables, relOut, relHistory>>

Seek(b) ==
  /\ Walks(b, "seek")
  /\ NextOf(b, CarsAt(SegmentOf(b)))
  /\ UNCHANGED <<relBoxes, relTables, relOut, relHistory>>

NextCar(b) ==
  /\ Walks(b, "next")
  /\ NextOf(b, {c \in CarsAt(SegmentOf(b)) : c > work[b].car})
  /\ UNCHANGED <<relBoxes, relTables, relOut, relHistory>>

-----------------------------------------------------------------------------
(* LRReadRelation.                                                         *)

Null == -1   \* LR_NULL
NullRow == [pos |-> <<Null, Null, Null>>, lane |-> Null, toll |-> Null, bal |-> Null, acc |-> Null]

Status(row, pos, lane) ==
  IF row.pos # pos THEN "new" ELSE IF row.lane = lane \/ lane # 0 THEN "same" ELSE "exit"

ReadPos(b) ==
  /\ Doing(b, "readPos", "start")
  /\ LET t   == Tuple(b)
         row == IF t.car \in DOMAIN accts THEN accts[t.car] ELSE NullRow
         pos == <<t.exp, t.x \div 5280, t.dir>>
     IN Announce(b, [car |-> t.car, time |-> t.time, lpos |-> row.pos, llane |-> row.lane, ltoll |-> row.toll,
                     acc |-> row.acc, pos |-> pos, lane |-> t.lane, status |-> Status(row, pos, t.lane)])
  /\ Finish(b, work[b])
  /\ UNCHANGED <<relBoxes, relTables, relHistory>>

\* The daily balance of the car is read and not used.
ReadDaily(b) ==
  /\ Doing(b, "calcToll", "start")
  /\ Goes(b, [work[b] EXCEPT !.at = "range"])
  /\ UNCHANGED <<relBoxes, relTables, relOut, relHistory>>

\* The order of the keys of stats: by position, then by time.
Precedes(p, q) == \E i \in 1..3 : p[i] < q[i] /\ \A j \in 1..(i - 1) : p[j] = q[j]
KeyPrecedes(k, l) == Precedes(k[2], l[2]) \/ (k[2] = l[2] /\ k[1] < l[1])

\* The toll of the first row from a minute ago on (DB_SET_RANGE), even when it
\* is of a later time or of another position; 0 without any.
TollFrom(time, pos, toll) ==
  LET later == {k \in DOMAIN stats : ~KeyPrecedes(k, <<time - 60, pos>>)}
  IN IF later = {} THEN toll = 0
     ELSE \E k \in later : toll = stats[k] /\ \A l \in later : ~KeyPrecedes(l, k)

CalcToll(b) ==
  /\ Doing(b, "calcToll", "range")
  /\ LET t == Tuple(b)
     IN \E toll \in {0} \cup {stats[k] : k \in DOMAIN stats} :
          /\ TollFrom(t.time, t.pos, toll)
          /\ Announce(b, [car |-> t.car, time |-> t.time, lpos |-> t.lpos, ltoll |-> t.ltoll, pos |-> t.pos,
                          lane |-> t.lane, toll |-> toll])
  /\ Finish(b, work[b])
  /\ UNCHANGED <<relBoxes, relTables, relHistory>>

\* The search for accidents is commented out: there never is one.
SegStat(b) ==
  /\ Doing(b, "segStat", "start")
  /\ Announce(b, [time |-> Tuple(b).time, pos |-> Tuple(b).pos, cnt |-> Tuple(b).cnt, acc |-> 0])
  /\ Finish(b, work[b])
  /\ UNCHANGED <<relBoxes, relTables, relHistory>>

-----------------------------------------------------------------------------
(* UpdateRelation and ReadRelation.                                        *)

PutRelation(b) ==
  /\ Doing(b, "update", "start")
  /\ relation' = Put(relation, Tuple(b).key, Tuple(b))
  /\ Goes(b, [work[b] EXCEPT !.at = "check"])
  /\ UNCHANGED <<relBoxes, accts, daily, stats, accidents, relOut, relHistory>>

\* What was put is got again, and only logged.
CheckRelation(b) ==
  /\ Doing(b, "update", "check")
  /\ Finish(b, work[b])
  /\ UNCHANGED <<relBoxes, relTables, relOut, relHistory>>

\* A row that is found is put out.  The place of the next is moved by a header
\* too much, so that of a train only the first row is where it is looked for.
Garbled == [key |-> Null]
GetRelation(b) ==
  /\ Doing(b, "read", "start")
  /\ IF Tuple(b).key \in DOMAIN relation
     THEN /\ Announce(b, IF work[b].written = 0 THEN relation[Tuple(b).key] ELSE Garbled)
          /\ Finish(b, [work[b] EXCEPT !.written = @ + 1])
     ELSE /\ Finish(b, work[b])
          /\ UNCHANGED relOut
  /\ UNCHANGED <<relBoxes, relTables, relHistory>>

-----------------------------------------------------------------------------
RelInit ==
  /\ relBoxes \in RelCases
  /\ accts = <<>> /\ daily = <<>> /\ stats = <<>> /\ accidents = {} /\ relation = <<>>
  /\ work = [b \in RelBoxes |-> Fresh]
  /\ relOut = [b \in RelBoxes |-> <<>>]
  /\ charged = <<>> /\ raced = {}

RelStep(b) ==
  \/ GetAccount(b) \/ PutAccount(b) \/ GetDaily(b) \/ PutDaily(b) \/ PutStats(b)
  \/ PutAccident(b) \/ Mark(b) \/ BeginAlert(b) \/ Seek(b) \/ NextCar(b)
  \/ ReadPos(b) \/ ReadDaily(b) \/ CalcToll(b) \/ SegStat(b)
  \/ PutRelation(b) \/ CheckRelation(b) \/ GetRelation(b)

RelNext == ~Aborted /\ \E b \in RelBoxes : RelStep(b)

RelSpec == RelInit /\ [][RelNext]_relVars

-----------------------------------------------------------------------------
(***************************************************************************)
(* A balance is what was charged, every charge once, as long as no other   *)
(* box put to its key between the get and the put of a box: two boxes that *)
(* charge, or one that charges and one that marks accidents, lose updates. *)
(***************************************************************************)
LedgerBalanced ==
  /\ \A car \in DOMAIN accts : <<car>> \notin raced => accts[car].bal = -charged[<<car>>]
  /\ \A key \in DOMAIN daily : key \notin raced => daily[key] = -charged[key]

\* Box b has gone on to its next tuple, or has announced one.
Done(b)      == work'[b].done > work[b].done
Announced(b) == Len(relOut'[b]) > Len(relOut[b])
LastOut(b)   == relOut'[b][Len(relOut'[b])]

\* A walk over the accounts has come to every car that stood on the last five
\* segments all the time, and left its mark in the row, in one part or another
\* (AccidentNoted), whatever other cars came, went or were charged.
CarsMarked(b) ==
  Kind(b) = "updateAcc" /\ Done(b) =>
    work[b].standing \subseteq {c \in work[b].marked : accts[c].toll = 1 \/ accts[c].acc = 1}

\* The times of the rows for the position of a tuple, of the minute before it.
LastMinute(t) == {time \in (t.time - 60)..t.time : <<time, t.pos>> \in DOMAIN stats}

\* A toll is that of a row for the position and the last minute, if there is
\* one, although rows of other positions and other times are in the same table.
TollInForce(b) ==
  Kind(b) = "calcToll" /\ Announced(b) /\ LastMinute(Tuple(b)) # {} =>
    \E time \in LastMinute(Tuple(b)) : LastOut(b).toll = stats[<<time, Tuple(b).pos>>]

\* What the boxes do with the tables while others write to them.
TablesRead == [][\A b \in RelBoxes : CarsMarked(b) /\ TollInForce(b)]_relVars

(***************************************************************************)
(* "Get the most up to date toll for this position" (LRReadRelationQBox,   *)
(* 62): of the rows of the last minute, that of the latest time.           *)
(***************************************************************************)
TollUpToDate ==
  [][\A b \in RelBoxes : Kind(b) = "calcToll" /\ Announced(b) =>
       \A latest \in LastMinute(Tuple(b)) :
         (\A time \in LastMinute(Tuple(b)) : time <= latest) =>
           LastOut(b).toll = stats[<<latest, Tuple(b).pos>>]]_relVars

(***************************************************************************)
(* "Rewrite the accident part of the data" (LRUpdateRelationQBox, 238):    *)
(* the accident part of the row of each car that a walk has marked, and    *)
(* that nobody has charged since, says so.                                 *)
(***************************************************************************)
AccidentNoted ==
  [][\A b \in RelBoxes : Kind(b) = "updateAcc" /\ Done(b) =>
       \A car \in work[b].standing \cap work[b].marked : accts[car].acc = 1]_relVars
=============================================================================
