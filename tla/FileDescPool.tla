---------------------------- MODULE FileDescPool ----------------------------
(***************************************************************************)
(* A pool of descriptors open on one file.  Users lease a descriptor,      *)
(* waiting for one when the pool is at its limit, give it back, change the *)
(* limits, and close what is free.                                         *)
(*                                                                         *)
(* Every method runs under a mutex, except the test setFDLimits makes of   *)
(* the leased descriptors, so setFDLimits is two steps (CheckLimits and    *)
(* SetFDLimits) and a wait cuts acquireFdBlocking in two.  A call that     *)
(* throws before it changes anything is a stuttering step.                 *)
(***************************************************************************)
EXTENDS Integers, Sequences, FiniteSetsExt, Functions

CONSTANTS
  Users,          \* the threads that use the pool
  Descriptors,    \* the numbers the system gives to open files
  FDLimits        \* the pairs <<minimum, maximum>> the pool is given

\* Other pairs make the constructor and setFDLimits throw; the pool is made
\* where its minimum can be opened.
ASSUME FDLimitsAssumption ==
  /\ IsFiniteSet(Users)
  /\ Descriptors \subseteq Nat /\ IsFiniteSet(Descriptors)
  /\ \A limits \in FDLimits :
       /\ limits \in Nat \X Nat
       /\ limits[1] <= limits[2] /\ limits[1] <= Cardinality(Descriptors)

VARIABLES
  freeFDs,        \* _freeFDs
  leasedFDs,      \* _leasedFDs
  minFDs,         \* _minFDs
  maxFDs,         \* _maxFDs
  upc,            \* where each user is
  ufd,            \* the descriptor each user leases
  ulimits         \* the limits each user has had tested

poolFdVars == <<freeFDs, leasedFDs, minFDs, maxFDs, upc, ufd, ulimits>>

NoFD == -1
NoLimits == <<0, 0>>

Free == {freeFDs[i] : i \in DOMAIN freeFDs}
FDCount == Len(freeFDs) + Cardinality(leasedFDs)
Asleep == {u \in Users : upc[u] = "asleep"}
Awake == {u \in Users : upc[u] = "awake"}

\* What open(2) may give: the numbers that are not in use.
Unused == Descriptors \ (Free \cup leasedFDs)

(***************************************************************************)
(* The numbers that n calls of allocateOneFD put in front of _freeFDs, the *)
(* last one first: open(2) gives the lowest number that is not in use.     *)
(***************************************************************************)
Opened(unused, n) ==
  {new \in [1..n -> unused] :
     \A i \in 1..n : new[i] = Min(unused \ {new[j] : j \in (i + 1)..n})}

Openable(n) == n <= Cardinality(Unused)

\* W may be who is woken by n signals of _condAvailableFD.
Woken(W, n) == W \in kSubset(Min({n, Cardinality(Asleep)}), Asleep)

At(u, place, W) ==
  [v \in Users |-> IF v = u THEN place ELSE IF v \in W THEN "awake" ELSE upc[v]]

FileDescInit ==
  \E limits \in FDLimits :
    /\ minFDs = limits[1] /\ maxFDs = limits[2]
    /\ leasedFDs = {}
    /\ freeFDs \in Opened(Descriptors, limits[1])
    /\ upc = [u \in Users |-> "idle"]
    /\ ufd = [u \in Users |-> NoFD]
    /\ ulimits = [u \in Users |-> NoLimits]

\* u leases the first descriptor of the list free.
Lease(u, free, W) ==
  /\ freeFDs' = Tail(free)
  /\ leasedFDs' = leasedFDs \cup {Head(free)}
  /\ ufd' = [ufd EXCEPT ![u] = Head(free)]
  /\ upc' = At(u, "using", W)
  /\ UNCHANGED <<minFDs, maxFDs, ulimits>>

\* As AtLimit below would be with the test one off.
AtLimitLate == FDCount > maxFDs

AtLimit == FDCount >= maxFDs

\* What the two ways to acquire have in common: take, or open and take.
TakeOrOpen(u) ==
  \/ freeFDs # <<>> /\ Lease(u, freeFDs, {})
  \/ /\ freeFDs = <<>> /\ ~AtLimit /\ Openable(1)
     /\ \E new \in Opened(Unused, 1), W \in SUBSET Asleep : Woken(W, 1) /\ Lease(u, new, W)

\* acquireFdBlocking, at its first test of the loop or after a wait.
AcquireFdBlocking(u) ==
  /\ upc[u] \in {"idle", "awake"}
  /\ \/ TakeOrOpen(u)
     \/ /\ freeFDs = <<>>
        /\ \/ AtLimit /\ upc' = At(u, "asleep", {})
           \/ ~AtLimit /\ upc' = At(u, "idle", {})     \* open(2) fails
        /\ UNCHANGED <<freeFDs, leasedFDs, minFDs, maxFDs, ufd, ulimits>>

SpuriousFdWakeup(u) ==
  /\ upc[u] = "asleep"
  /\ upc' = At(u, "awake", {})
  /\ UNCHANGED <<freeFDs, leasedFDs, minFDs, maxFDs, ufd, ulimits>>

AcquireFdNonBlocking(u) == upc[u] = "idle" /\ TakeOrOpen(u)

\* As ReleaseFd below would be without its signal.
ReleaseFdSilently(u) ==
  /\ upc[u] = "using"
  /\ leasedFDs' = leasedFDs \ {ufd[u]}
  /\ freeFDs' = <<ufd[u]>> \o freeFDs
  /\ ufd' = [ufd EXCEPT ![u] = NoFD]
  /\ upc' = At(u, "idle", {})
  /\ UNCHANGED <<minFDs, maxFDs, ulimits>>

ReleaseFd(u) ==
  /\ upc[u] = "using"
  /\ leasedFDs' = leasedFDs \ {ufd[u]}
  /\ freeFDs' = <<ufd[u]>> \o freeFDs
  /\ ufd' = [ufd EXCEPT ![u] = NoFD]
  /\ \E W \in SUBSET Asleep : Woken(W, 1) /\ upc' = At(u, "idle", W)
  /\ UNCHANGED <<minFDs, maxFDs, ulimits>>

\* The tests of setFDLimits, made before it takes the mutex.
CheckLimits(u) ==
  /\ upc[u] = "idle"
  /\ \E limits \in FDLimits :
       /\ limits[2] >= Cardinality(leasedFDs)
       /\ ulimits' = [ulimits EXCEPT ![u] = limits]
  /\ upc' = At(u, "checked", {})
  /\ UNCHANGED <<freeFDs, leasedFDs, minFDs, maxFDs, ufd>>

(***************************************************************************)
(* The rest of setFDLimits.  Growth ends where open(2) fails, shrinking    *)
(* where no free descriptor is left; either way the limits stay changed.   *)
(***************************************************************************)
SetFDLimits(u) ==
  LET low == ulimits[u][1]  high == ulimits[u][2] IN
  /\ upc[u] = "checked"
  /\ minFDs' = low /\ maxFDs' = high
  /\ ulimits' = [ulimits EXCEPT ![u] = NoLimits]
  /\ UNCHANGED <<leasedFDs, ufd>>
  /\ IF FDCount < low
     THEN \E n \in 0..(low - FDCount), W \in SUBSET Asleep :
            /\ Openable(n)
            /\ Woken(W, n)
            /\ \E new \in Opened(Unused, n) : freeFDs' = new \o freeFDs
            /\ upc' = At(u, "idle", W)
     ELSE /\ freeFDs' = IF FDCount > high
                        THEN SubSeq(freeFDs, FDCount - high + 1, Len(freeFDs))
                        ELSE freeFDs
          /\ upc' = At(u, "idle", {})

CloseAll(u) ==
  /\ upc[u] = "idle"
  /\ leasedFDs = {}
  /\ minFDs' = 0
  /\ freeFDs' = <<>>
  /\ UNCHANGED <<leasedFDs, maxFDs, upc, ufd, ulimits>>

FileDescNext ==
  \E u \in Users :
    \/ AcquireFdBlocking(u) \/ SpuriousFdWakeup(u) \/ AcquireFdNonBlocking(u)
    \/ ReleaseFd(u) \/ CheckLimits(u) \/ SetFDLimits(u) \/ CloseAll(u)

FileDescSpec == FileDescInit /\ [][FileDescNext]_poolFdVars

-----------------------------------------------------------------------------
(***************************************************************************)
(* No release is lost: while somebody sleeps, every free descriptor has a  *)
(* user on the way to it.  And no descriptor is lost or leased twice,      *)
(* whatever else closes and reopens numbers in the meantime.               *)
(***************************************************************************)
SleepersWoken ==
  /\ Asleep # {} => Len(freeFDs) <= Cardinality(Awake)
  /\ Cardinality(Free) = Len(freeFDs)
  /\ Free \cap leasedFDs = {}
  /\ leasedFDs = {ufd[u] : u \in Users} \ {NoFD}

(***************************************************************************)
(* The pool goes over its maximum only when setFDLimits lowers it below    *)
(* what has been leased since its test.                                    *)
(***************************************************************************)
LimitKept ==
  [][FDCount' > maxFDs' =>
       \/ FDCount > maxFDs
       \/ \E u \in Users : upc[u] = "checked" /\ ulimits[u][2] < Cardinality(leasedFDs)
    ]_poolFdVars

-----------------------------------------------------------------------------
(***************************************************************************)
(* A pool of descriptors over several files with a limit for all of them   *)
(* together.  At the limit an idle descriptor of some file is closed to    *)
(* make room.  The methods run under one mutex, so each is a step; a call  *)
(* that throws before it changes anything is a stuttering step.            *)
(***************************************************************************)

CONSTANTS
  FileCount,      \* the registered files, numbered in the order of the map
  Numbers,        \* the numbers the system gives to open files
  MaxFdsInPool    \* _maxFdsInPool

\* A pool that is given a negative limit has none.
ASSUME MultiPoolAssumption ==
  FileCount \in Nat /\ Numbers \subseteq Nat /\ MaxFdsInPool \in Nat

VARIABLES
  multiLeased,    \* _leasedFds of each file
  nonLeased,      \* _nonLeasedFds of each file
  closed          \* _closed

multiVars == <<multiLeased, nonLeased, closed>>

Files == 1..FileCount

Idle(f) == {nonLeased[f][i] : i \in DOMAIN nonLeased[f]}

OpenOf(f) == Cardinality(multiLeased[f]) + Len(nonLeased[f])

NumOpenFds == SumFunction([f \in Files |-> OpenOf(f)])

FdMultiInit ==
  /\ multiLeased = [f \in Files |-> {}]
  /\ nonLeased = [f \in Files |-> <<>>]
  /\ closed = FALSE

\* The file to take a descriptor from: the first of those with fewest leases.
Evictable == {f \in Files : nonLeased[f] # <<>>}

ForEviction ==
  LET fewest == Min({Cardinality(multiLeased[f]) : f \in Evictable})
  IN Min({f \in Evictable : Cardinality(multiLeased[f]) = fewest})

\* As AtCapacity below would be if the limit were compared with the leases alone.
AtCapacityOfLeases ==
  SumFunction([f \in Files |-> Cardinality(multiLeased[f])]) = MaxFdsInPool

AtCapacity == NumOpenFds = MaxFdsInPool

\* A descriptor of f that is open and idle is leased, the last one first.
Reuse(f) ==
  /\ nonLeased[f] # <<>>
  /\ multiLeased' = [multiLeased EXCEPT ![f] = @ \cup {nonLeased[f][Len(nonLeased[f])]}]
  /\ nonLeased' = [nonLeased EXCEPT ![f] = SubSeq(@, 1, Len(@) - 1)]

(***************************************************************************)
(* Otherwise f is opened, after an eviction if the pool is at its limit.   *)
(* When open(2) fails the evicted descriptor stays closed.                 *)
(***************************************************************************)
Open(f) ==
  /\ nonLeased[f] = <<>>
  /\ AtCapacity => Evictable # {}
  /\ nonLeased' = IF AtCapacity
                  THEN [nonLeased EXCEPT ![ForEviction] = SubSeq(@, 1, Len(@) - 1)]
                  ELSE nonLeased
  /\ LET inUse == UNION {multiLeased[g]
                    \cup {nonLeased'[g][i] : i \in DOMAIN nonLeased'[g]} : g \in Files}
     IN \/ /\ Numbers \ inUse # {}
           /\ multiLeased' = [multiLeased EXCEPT ![f] = @ \cup {Min(Numbers \ inUse)}]
        \/ UNCHANGED multiLeased

AcquireFd(f) == ~closed /\ (Reuse(f) \/ Open(f)) /\ UNCHANGED closed

ReleaseMultiFd(f) ==
  /\ ~closed
  /\ \E fd \in multiLeased[f] :
       /\ multiLeased' = [multiLeased EXCEPT ![f] = @ \ {fd}]
       /\ nonLeased' = [nonLeased EXCEPT ![f] = Append(@, fd)]
  /\ UNCHANGED closed

\* close() keeps the numbers it has closed on the lists; nobody looks again.
CloseMultiPool ==
  /\ ~closed
  /\ \A f \in Files : multiLeased[f] = {}
  /\ closed' = TRUE
  /\ UNCHANGED <<multiLeased, nonLeased>>

FdMultiNext ==
  \/ \E f \in Files : AcquireFd(f) \/ ReleaseMultiFd(f)
  \/ CloseMultiPool

FdMultiSpec == FdMultiInit /\ [][FdMultiNext]_multiVars

-----------------------------------------------------------------------------
(***************************************************************************)
(* However descriptors are leased, evicted, closed and reopened under the  *)
(* same numbers, the pool never has more files open than its limit, and no *)
(* number is on two lists: an eviction never closes what somebody leases.  *)
(***************************************************************************)
MultiPoolBudget ==
  /\ NumOpenFds <= MaxFdsInPool
  /\ NumOpenFds = Cardinality(UNION {multiLeased[f] \cup Idle(f) : f \in Files})
=============================================================================
