------------------------------ MODULE Operators ------------------------------
(***************************************************************************)
(* One box under the scheduler: trains are cut from its input streams in   *)
(* any way, doBox runs on every train, and the state of the operator lasts *)
(* from one train to the next in the catalog (loadBox makes a new QBox for *)
(* every run and gives it the state back).  What an operator computes on a *)
(* stream is compared with what its window means, whatever the trains.     *)
(***************************************************************************)
EXTENDS StatelessQBoxes, BSortQBox, JoinQBox, ResampleQBox, AggregateQBox

CONSTANTS
  Cases,        \* the boxes under test: records [op, input, ...]
  TrainMax,     \* bound: the largest train of an input
  MaxClock      \* bound: the seconds that pass

VARIABLES
  box,          \* the box under test
  taken,        \* per input: how many of its tuples were dequeued
  kept,         \* per input: the dequeued tuples that load shedding spared
  state,        \* the state of the operator
  out,          \* per output port: what was written to it
  clock         \* the seconds of gettimeofday

opVars == <<box, taken, kept, state, out, clock>>

Op     == box.op
Ports  == DOMAIN box.input
Stream(p)  == box.input[p]
OutPorts   == IF Op = "filter" THEN FilterPorts ELSE {1}

ASSUME OperatorAssumption ==
  /\ TrainMax \in Nat \ {0} /\ MaxClock \in Nat
  /\ BSortSlack \in Nat /\ AggSlack \in Nat /\ Timeout \in Nat
  /\ JoinSlack \in Nat \X Nat /\ ResampleSlack \in Nat \X Nat
  /\ JoinWindow \in Nat /\ ResampleWindow \in Nat

(***************************************************************************)
(* A tuple has its place among the tuples of the box, which are numbered   *)
(* stream by stream in the order they come, and an integer order-by value. *)
(***************************************************************************)
ASSUME CasesAssumption ==
  \A b \in Cases :
    /\ 1 \in DOMAIN b.input
    /\ b.op \in {"join", "resample"} => 2 \in DOMAIN b.input
    /\ \A p \in DOMAIN b.input :
         /\ b.input[p] \in Seq(ToSet(b.input[p]))
         /\ \A i \in DOMAIN b.input[p] :
              b.input[p][i].id \in Nat \ {0} /\ b.input[p][i].v \in Int
         /\ \A i, j \in DOMAIN b.input[p] : i < j => b.input[p][i].id < b.input[p][j].id
    /\ \A p, q \in DOMAIN b.input : p # q =>
         \A i \in DOMAIN b.input[p], j \in DOMAIN b.input[q] : b.input[p][i].id # b.input[q][j].id

-----------------------------------------------------------------------------
\* The trains a run of the box may be given: some tuples of some input.
Trains == {n \in [Ports -> 0..TrainMax] :
             /\ \A p \in Ports : taken[p] + n[p] <= Len(Stream(p))
             /\ \E p \in Ports : n[p] > 0}

Train(p, n) == SubSeq(Stream(p), taken[p] + 1, taken[p] + n[p])

\* The box has run on the trains n with the flags ls and returned ret.
HasRun(n, ls, ret) ==
  /\ taken' = [p \in Ports |-> taken[p] + n[p]]
  /\ kept' = [p \in Ports |-> kept[p] \o Unshed(Train(p, n), ls[p])]
  /\ state' = ret.state
  /\ out' = [p \in OutPorts |-> out[p] \o SubSeq(ret.out[p], 1, ret.output_tuples_array[p])]
  /\ UNCHANGED <<box, clock>>

\* The flags of all inputs: what applyLoadShedding may decide on these trains.
Shedding(n) == {ls \in [Ports -> UNION {LsFlags(box.drop, Train(p, n)) : p \in Ports}] :
                  \A p \in Ports : ls[p] \in LsFlags(box.drop, Train(p, n))}
NoShedding(n) == [p \in Ports |-> [j \in 1..n[p] |-> TRUE]]

Filter == /\ Op = "filter"
          /\ \E n \in Trains : \E ls \in Shedding(n) :
               HasRun(n, ls, DoFilter(Train(1, n), ls[1]))

Union == /\ Op = "union"
         /\ \E n \in Trains : \E ls \in Shedding(n) :
              HasRun(n, ls, DoUnion([p \in Ports |-> Train(p, n)], ls))

Map == /\ Op = "map"
       /\ \E n \in Trains : \E ls \in Shedding(n) :
            HasRun(n, ls, DoMap(Train(1, n), ls[1]))

HelloWorld == /\ Op = "hello"
              /\ \E n \in Trains : HasRun(n, NoShedding(n), DoHelloWorld(Train(1, n)))

\* The draws of a box are any flags.
Experiment == /\ Op = "experiment"
              /\ \E n \in Trains : \E passed \in Shedding(n) :
                   HasRun(n, passed, DoExperiment(state, [p \in Ports |-> Train(p, n)], passed, clock + 5))

\* The worker indexes the array of counts (WorkerThread 489), and where there
\* is none the process ends: all that is left is what doBox wrote.
Crashes(n, ls, ret) ==
  /\ ret.output_tuples_array = NoArray
  /\ taken' = [p \in Ports |-> taken[p] + n[p]]
  /\ kept' = [p \in Ports |-> kept[p] \o Unshed(Train(p, n), ls[p])]
  /\ state' = <<"crash", ret.out[1]>>
  /\ UNCHANGED <<box, out, clock>>

Drop == /\ Op = "drop"
        /\ state = <<>>
        /\ \E n \in Trains : \E spared \in Shedding(n) :
             Crashes(n, spared, DoDrop(Train(1, n), spared[1]))

Restream == /\ Op = "restream"
            /\ state = <<>>
            /\ \E n \in Trains : Crashes(n, NoShedding(n), DoRestream(state, Train(1, n)))

BSort == /\ Op = "bsort"
         /\ \E n \in Trains : HasRun(n, NoShedding(n), DoBSort(state, Train(1, n)))

Join == /\ Op = "join"
        /\ \E n \in Trains : \E ls \in Shedding(n) :
             HasRun(n, ls, DoJoin(state, Unshed(Train(1, n), ls[1]), Unshed(Train(2, n), ls[2])))

Resample == /\ Op = "resample"
            /\ \E n \in Trains :
                 HasRun(n, NoShedding(n), DoResample(state, Train(1, n), Train(2, n)))

Aggregate == /\ Op \in {"rows", "values"}
             /\ \E n \in Trains :
                  HasRun(n, NoShedding(n), DoAggregate(box.win, Op = "rows", state, Train(1, n), clock))

Tick == /\ Op \in {"rows", "values"}
        /\ clock < MaxClock
        /\ clock' = clock + 1
        /\ UNCHANGED <<box, taken, kept, state, out>>

InitState(op) == CASE op = "join"               -> InitJoin
                   [] op = "resample"           -> InitResample
                   [] op = "bsort"              -> NoBuffers
                   [] op \in {"rows", "values"} -> NoGroups
                   [] OTHER                     -> <<>>

OpInit == /\ box \in Cases
          /\ taken = [p \in Ports |-> 0]
          /\ kept = [p \in Ports |-> <<>>]
          /\ state = InitState(Op)
          /\ out = [p \in OutPorts |-> <<>>]
          /\ clock = 0

OpNext == \/ Filter \/ Union \/ Map \/ HelloWorld \/ Experiment \/ Drop \/ Restream
          \/ BSort \/ Join \/ Resample \/ Aggregate \/ Tick

OpSpec == OpInit /\ [][OpNext]_opVars

-----------------------------------------------------------------------------
(* What is compared with what.                                             *)

Dequeued(p)   == SubSeq(Stream(p), 1, taken[p])
OfGroup(s, g) == SelectSeq(s, LAMBDA t : t.g = g)
GroupsOf(s)   == {s[i].g : i \in DOMAIN s}
Before(t, u)  == t.v < u.v \/ (t.v = u.v /\ t.id < u.id)
Times(x, s)   == Cardinality({i \in DOMAIN s : s[i] = x})

\* No tuple comes after more than slack greater ones.
InOrder(s, slack) ==
  \A i \in DOMAIN s : Cardinality({j \in 1..(i - 1) : s[j].v > s[i].v}) <= slack

\* As InOrder above, of the tuples of a group among those of the others.
PlacesOf(s, g) == {i \in DOMAIN s : s[i].g = g}
GroupInOrder(s, g, slack) ==
  \A i \in PlacesOf(s, g) :
    Cardinality({j \in PlacesOf(s, g) : j < i /\ s[j].v > s[i].v}) <= slack

\* The tuples an operator still holds.
Held == IF Op # "bsort" THEN <<>>
        ELSE FlattenSeq([i \in 1..Cardinality(DOMAIN state) |-> state[Ascending(DOMAIN state)[i]]])

\* Each tuple is in its place: through the port of the first predicate it
\* satisfies, through the false port when it satisfies none, and in order.
Routed ==
  \A p \in FilterPorts :
    out[p] = SelectSeq(kept[1], LAMBDA t :
               /\ \A q \in 1..NumPredicates : q < p => t.v \notin Predicates[q]
               /\ p <= NumPredicates => t.v \in Predicates[p])

\* A filter, a union, a map, a buffer sort, a hello and an experiment neither
\* lose, invent nor repeat a tuple: every tuple that was not shed is once on the
\* output, of a filter on the right one, or held back (a filter may drop it).  A
\* map leaves one stale slot for every shed tuple.  Drop and Restream write
\* what they should before the process ends: a stream id per group.
PassedOnce ==
  LET all == FlattenSeq([p \in Ports |-> kept[p]])
      got == FlattenSeq([p \in OutPorts |-> out[p]]) \o Held
      dropped(t) == Op = "filter" /\ PortOf(t) = 0
      written == state[2]
  IN /\ Op \in {"filter", "union", "map", "bsort", "hello", "experiment"} =>
          /\ \A i \in DOMAIN all : Times(all[i], got) = IF dropped(all[i]) THEN 0 ELSE 1
          /\ \A i \in DOMAIN got : got[i] = Stale \/ Times(got[i], all) = 1
          /\ Times(Stale, got) = IF Op = "map" THEN taken[1] - Len(kept[1]) ELSE 0
     /\ Op = "filter" => Routed
     /\ Op = "drop" /\ state # <<>> => written = all
     /\ Op = "restream" /\ state # <<>> =>
          /\ [i \in DOMAIN written |-> written[i].tuple] = all
          /\ \A i, j \in DOMAIN written : written[i].sid = written[j].sid <=> all[i].g = all[j].g

\* A buffer sort over groups that are out of order by at most the slack emits
\* each group in order, equal values in the order they came: no tuple that is
\* yet to leave, or yet to arrive, belongs before one that has left.
BSortSorted ==
  Op = "bsort" =>
    \A g \in GroupsOf(Stream(1)) : GroupInOrder(Stream(1), g, BSortSlack) =>
      /\ \A i, j \in PlacesOf(out[1], g) : i < j => Before(out[1][i], out[1][j])
      /\ \A i \in PlacesOf(Stream(1), g), j \in PlacesOf(out[1], g) :
           Stream(1)[i] \in ToSet(out[1]) \/ Before(out[1][j], Stream(1)[i])

InWindow(p) == Distance(p[1].v, p[2].v) <= JoinWindow /\ Joins(p)
CellsHold(p) == ~Moved(state[Left], p[1]) /\ ~Moved(state[Right], p[2])

\* A join emits no pair twice and no pair against its predicate; a pair outside
\* the window only when the cell of one of the two was the threshold and moved.
\* On streams that are in order it emits every pair in the window, however the
\* two streams are interleaved, unless the cell of one of the two moved.
JoinExact ==
  Op = "join" =>
    /\ \A i \in DOMAIN out[1] :
         /\ Times(out[1][i], out[1]) = 1
         /\ Joins(out[1][i])
         /\ InWindow(out[1][i]) \/ ~CellsHold(out[1][i])
    /\ (InOrder(kept[1], 0) /\ InOrder(kept[2], 0)) =>
         \A i \in DOMAIN kept[1], j \in DOMAIN kept[2] :
           LET p == <<kept[1][i], kept[2][j]>>
           IN InWindow(p) /\ CellsHold(p) => Times(p, out[1]) = 1

\* The left value k has one state: one left tuple came with it, and the cell of
\* no other, moving with the threshold, came to or past it.
OneState(k) ==
  Cardinality({i \in DOMAIN Dequeued(1) :
                 LET t == Dequeued(1)[i] IN t.v <= k /\ k <= state.left.att[t.id]}) = 1

\* On streams in order, a resampled window that is emitted is final: it counts
\* every right tuple in its window once, of those that came and those to come,
\* and no other (tuples whose cell moved aside).
ResampleWindows ==
  (Op = "resample" /\ InOrder(Stream(1), 0) /\ InOrder(Stream(2), 0)) =>
    \A i \in DOMAIN out[1] :
      LET k == out[1][i][1]
          added == out[1][i][2]
          Count(r) == Cardinality({a \in DOMAIN added : added[a][2] = r})
      IN OneState(k) =>
           \A j \in DOMAIN Stream(2) :
             LET r == Stream(2)[j]
             IN ~Moved(state.right, r) =>
                  Count(r) = IF Distance(r.v, k) <= ResampleWindow THEN 1 ELSE 0

\* Windows by values: every window on the grid of a group is open or was
\* emitted, and was emitted once, timeouts or not.  When the group came in
\* order up to the slack, its first tuple first, and nothing timed out, an
\* emitted window holds all the tuples of the whole stream it covers.
ValueWindows(g) ==
  LET all     == OfGroup(Stream(1), g)
      emitted == OfGroup(out[1], g)
      starts  == {emitted[i].start : i \in DOMAIN emitted}
      first   == all[1].v - box.win.advance * ((box.win.size - 1) \div box.win.advance)
      grid    == {s \in first..state[g].last : (s - first) % box.win.advance = 0 /\ s + box.win.size - 1 <= state[g].last}
      Covered(s) == SelectSeq(all, LAMBDA t : s <= t.v /\ t.v < s + box.win.size)
  IN /\ Cardinality(starts) = Len(emitted)
     /\ starts \cap DOMAIN state[g].states = {}
     /\ starts \cup DOMAIN state[g].states = grid
     /\ (/\ clock = 0
         /\ InOrder(all, AggSlack)
         /\ \A i \in DOMAIN all : all[1].v <= all[i].v)
        => \A i \in DOMAIN emitted : emitted[i].tuples = Covered(emitted[i].start)

\* Windows by tuples: an emitted window is a run of consecutive tuples of its
\* group, the runs start later and later, and without timeouts they are the
\* full windows, one every `advance' tuples (every `size', if that is less).
RowWindows(g) ==
  LET came    == OfGroup(Dequeued(1), g)
      emitted == OfGroup(out[1], g)
      step    == Min({box.win.advance, box.win.size})
      Start(i) == emitted[i].tuples[1].id
  IN /\ \A i \in DOMAIN emitted :
          /\ emitted[i].tuples # <<>>
          /\ \E a \in DOMAIN came, b \in DOMAIN came :
               b - a < box.win.size /\ emitted[i].tuples = SubSeq(came, a, b)
          /\ i > 1 => Start(i - 1) < Start(i)
     /\ clock = 0 =>
          /\ Len(emitted) = IF Len(came) < box.win.size THEN 0
                            ELSE (Len(came) - box.win.size) \div step + 1
          /\ \A i \in DOMAIN emitted :
               emitted[i].tuples = SubSeq(came, (i - 1) * step + 1, (i - 1) * step + box.win.size)

\* The windows an aggregate emits, by values and by tuples, are the right ones,
\* however the stream was cut and the groups are mixed.
AggregateWindows ==
  /\ Op = "values" => \A g \in DOMAIN state : ValueWindows(g)
  /\ Op = "rows" => \A g \in GroupsOf(Dequeued(1)) : RowWindows(g)
=============================================================================
