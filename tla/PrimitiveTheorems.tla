------------------------- MODULE PrimitiveTheorems -------------------------
(***************************************************************************)
(* What the two mutexes promise for any number of threads, the ranking of  *)
(* TopNMultimap for any size of the top, the accounts of the relation      *)
(* boxes and what the boxes read of the tables, for any boxes and tuples,  *)
(* and the two file descriptor pools for any users, descriptors, files and *)
(* limits.                                                                 *)
(*                                                                         *)
(* Both mutexes rest on the list of conditions: nobody is on it twice,     *)
(* and a thread is on it exactly while it waits (for the fair mutex, until *)
(* it is cancelled).  So the front of the list is one thread, and who      *)
(* signals it and who may pass is the same thread.                         *)
(***************************************************************************)
EXTENDS FairMutexWithCancel, FifoCriticalSection, TopNMultimap, Relations, FileDescPool,
        SumTheorems, SequenceTheorems

-----------------------------------------------------------------------------
(* Lists whose members differ. *)

Distinct(list) ==
  \A i, j \in DOMAIN list : list[i] = list[j] => i = j

OnList(list, c) == \E i \in DOMAIN list : list[i] = c

LEMMA AppendDistinct ==
  ASSUME NEW S, NEW list \in Seq(S), NEW c \in S, Distinct(list), ~OnList(list, c)
  PROVE  /\ Append(list, c) \in Seq(S)
         /\ Distinct(Append(list, c))
         /\ \A d : OnList(list, d) => OnList(Append(list, c), d)
         /\ OnList(Append(list, c), c)
         /\ \A d : OnList(Append(list, c), d) => d = c \/ OnList(list, d)
         /\ Append(list, c) # <<>>
         /\ Head(Append(list, c)) = IF list = <<>> THEN c ELSE Head(list)
  <1> DEFINE longer == Append(list, c)
  <1>1. /\ longer \in Seq(S) /\ Len(longer) = Len(list) + 1
        /\ \A i \in 1..Len(list) : longer[i] = list[i]
        /\ longer[Len(list) + 1] = c
    OBVIOUS
  <1>2. DOMAIN longer = 1..(Len(list) + 1) /\ DOMAIN list = 1..Len(list) /\ Len(list) \in Nat
    BY <1>1
  <1>3. Distinct(longer)
    BY <1>1, <1>2 DEF Distinct, OnList
  <1>4. \A d : OnList(list, d) => OnList(longer, d)
    BY <1>1, <1>2 DEF OnList
  <1>5. OnList(longer, c)
    BY <1>1, <1>2 DEF OnList
  <1>6. \A d : OnList(longer, d) => d = c \/ OnList(list, d)
    BY <1>1, <1>2 DEF OnList
  <1>7. longer # <<>> /\ Head(longer) = IF list = <<>> THEN c ELSE Head(list)
    BY <1>1
  <1> QED BY <1>1, <1>3, <1>4, <1>5, <1>6, <1>7

LEMMA TailDistinct ==
  ASSUME NEW S, NEW list \in Seq(S), list # <<>>, Distinct(list)
  PROVE  /\ Tail(list) \in Seq(S)
         /\ Distinct(Tail(list))
         /\ \A d : OnList(Tail(list), d) <=> OnList(list, d) /\ d # Head(list)
         /\ Head(list) \in S
         /\ Tail(list) # <<>> => /\ Head(Tail(list)) \in S
                                 /\ OnList(Tail(list), Head(Tail(list)))
  <1> DEFINE rest == Tail(list)
  <1>1. /\ rest \in Seq(S) /\ Len(rest) = Len(list) - 1 /\ Len(list) \in Nat \ {0}
        /\ \A i \in 1..Len(rest) : rest[i] = list[i + 1]
        /\ Head(list) = list[1]
    OBVIOUS
  <1>2. DOMAIN rest = 1..Len(rest) /\ DOMAIN list = 1..Len(list)
    BY <1>1
  <1>3. Distinct(rest)
    <2> SUFFICES ASSUME NEW i \in 1..Len(rest), NEW j \in 1..Len(rest), rest[i] = rest[j]
                 PROVE  i = j
      BY <1>2 DEF Distinct
    <2>1. list[i + 1] = list[j + 1] /\ i + 1 \in 1..Len(list) /\ j + 1 \in 1..Len(list)
      BY <1>1
    <2>2. i + 1 = j + 1
      BY <2>1, <1>2 DEF Distinct
    <2> QED BY <2>2
  <1>4. ASSUME NEW d PROVE OnList(rest, d) <=> OnList(list, d) /\ d # Head(list)
    <2>1. ASSUME OnList(rest, d) PROVE OnList(list, d) /\ d # Head(list)
      <3>1. PICK i \in 1..Len(rest) : rest[i] = d
        BY <2>1, <1>2 DEF OnList
      <3>2. i + 1 \in 1..Len(list) /\ list[i + 1] = d /\ i + 1 # 1 /\ 1 \in 1..Len(list)
        BY <3>1, <1>1
      <3> QED BY <3>2, <1>1, <1>2 DEF OnList, Distinct
    <2>2. ASSUME OnList(list, d), d # Head(list) PROVE OnList(rest, d)
      <3>1. PICK i \in 1..Len(list) : list[i] = d
        BY <2>2, <1>2 DEF OnList
      <3>2. i # 1
        BY <3>1, <2>2, <1>1
      <3>3. i - 1 \in 1..Len(rest) /\ rest[i - 1] = d
        BY <3>1, <3>2, <1>1
      <3> QED BY <3>3, <1>2 DEF OnList
    <2> QED BY <2>1, <2>2
  <1>5. Head(list) \in S
    BY <1>1
  <1>6. rest # <<>> => Head(rest) \in S /\ OnList(rest, Head(rest))
    <2> SUFFICES ASSUME rest # <<>> PROVE Head(rest) \in S /\ OnList(rest, Head(rest))
      OBVIOUS
    <2>1. 1 \in 1..Len(rest) /\ rest[1] = Head(rest) /\ rest[1] \in S
      BY <1>1
    <2> QED BY <2>1, <1>2 DEF OnList
  <1> QED BY <1>1, <1>3, <1>4, <1>5, <1>6

LEMMA HeadOnList ==
  ASSUME NEW S, NEW list \in Seq(S)
  PROVE  /\ list # <<>> => Head(list) \in S /\ OnList(list, Head(list))
         /\ \A d : OnList(list, d) => list # <<>>
BY DEF OnList

-----------------------------------------------------------------------------
(* The fair mutex. *)

OnAlarm(c) == OnList(alarmClocks, c)

FairInv ==
  /\ FairTyping
  /\ Distinct(alarmClocks)
  /\ \A c \in Callers : fpc[c] \in {"waiting", "awake", "in"} => OnAlarm(c)
  /\ ~cancelled =>
       \A c \in Callers : OnAlarm(c) => fpc[c] \in {"waiting", "awake", "in"}
  /\ FairGrants

LEMMA EmptyDistinct == Distinct(<<>>) /\ \A c : ~OnList(<<>>, c)
BY DEF Distinct, OnList

LEMMA FairInitial == FairInit => FairInv
  <1> SUFFICES ASSUME FairInit PROVE FairInv
    OBVIOUS
  <1>1. /\ alarmClocks = <<>> /\ cancelled = FALSE /\ deleted = {} /\ currentHolder = NoCaller
        /\ fpc \in [Callers -> CallerLocations] /\ \A c \in Callers : fpc[c] = "out"
    BY DEF FairInit, CallerLocations
  <1>2. Distinct(alarmClocks) /\ \A c : ~OnAlarm(c)
    BY <1>1, EmptyDistinct DEF OnAlarm
  <1>3. FairTyping
    <2>1. alarmClocks \in Seq(Callers)
      BY <1>1
    <2>2. cancelled \in BOOLEAN
      BY <1>1
    <2> QED BY <1>1, <2>1, <2>2 DEF FairTyping
  <1>4. FairGrants
    BY <1>1 DEF FairGrants
  <1> QED BY <1>1, <1>2, <1>3, <1>4 DEF FairInv

LEMMA FairLockKeeps ==
  ASSUME FairInv, NEW c \in Callers, FairLock(c)
  PROVE  FairInv'
  <1>1. CASE cancelled
    BY <1>1 DEF FairLock, FairInv, FairTyping, FairGrants, OnAlarm, CallerLocations
  <1>2. CASE ~cancelled
    <2>1. /\ alarmClocks \in Seq(Callers) /\ Distinct(alarmClocks)
          /\ fpc \in [Callers -> CallerLocations] /\ ~OnAlarm(c)
          /\ fpc[c] \notin {"waiting", "awake", "in"}
      BY <1>2 DEF FairLock, FairInv, FairTyping
    <2>2. alarmClocks' = Append(alarmClocks, c) /\ ~cancelled'
      BY <1>2 DEF FairLock
    <2>3. /\ alarmClocks' \in Seq(Callers) /\ Distinct(alarmClocks')
          /\ \A d : OnAlarm(d)' <=> OnAlarm(d) \/ d = c
          /\ alarmClocks' # <<>>
          /\ Head(alarmClocks') = IF alarmClocks = <<>> THEN c ELSE Head(alarmClocks)
      BY <2>1, <2>2, AppendDistinct DEF OnAlarm
    <2>4. CASE alarmClocks = <<>>
      <3>1. fpc' = [fpc EXCEPT ![c] = "in"] /\ currentHolder' = c
        BY <1>2, <2>4 DEF FairLock
      <3>2. \A d \in Callers : fpc[d] # "in" /\ ~OnAlarm(d)
        BY <2>4 DEF FairInv, FairGrants, OnAlarm, OnList
      <3> QED BY <2>1, <2>2, <2>3, <2>4, <3>1, <3>2
              DEF FairInv, FairTyping, FairGrants, CallerLocations, FairLock
    <2>5. CASE alarmClocks # <<>>
      <3>1. fpc' = [fpc EXCEPT ![c] = "waiting"] /\ currentHolder' = currentHolder
        BY <1>2, <2>5 DEF FairLock
      <3>2. Head(alarmClocks) \in Callers /\ Head(alarmClocks) # c
        BY <2>1, <2>5, HeadOnList DEF OnAlarm
      <3> QED BY <1>2, <2>1, <2>2, <2>3, <2>5, <3>1, <3>2
              DEF FairInv, FairTyping, FairGrants, CallerLocations, FairLock
    <2> QED BY <2>4, <2>5
  <1> QED BY <1>1, <1>2

LEMMA FairResumeKeeps ==
  ASSUME FairInv, NEW c \in Callers, FairResume(c)
  PROVE  FairInv'
  <1>1. /\ alarmClocks' = alarmClocks /\ cancelled' = cancelled /\ fpc[c] = "awake"
        /\ \A d : OnAlarm(d)' <=> OnAlarm(d)
    BY DEF FairResume, OnAlarm
  <1>2. OnAlarm(c) /\ alarmClocks \in Seq(Callers) /\ alarmClocks # <<>>
    BY <1>1, HeadOnList DEF FairInv, FairTyping, OnAlarm
  <1>3. CASE cancelled
    BY <1>1, <1>3 DEF FairResume, FairInv, FairTyping, FairGrants, CallerLocations
  <1>4. CASE ~cancelled /\ Head(alarmClocks) = c
    <2>1. fpc' = [fpc EXCEPT ![c] = "in"] /\ currentHolder' = c /\ deleted' = deleted
      BY <1>4 DEF FairResume
    <2>2. \A d \in Callers : fpc[d] # "in"
      BY <1>1, <1>4 DEF FairInv, FairGrants
    <2> QED BY <1>1, <1>2, <1>4, <2>1, <2>2
            DEF FairInv, FairTyping, FairGrants, CallerLocations
  <1>5. CASE ~cancelled /\ Head(alarmClocks) # c
    <2>1. /\ fpc' = [fpc EXCEPT ![c] = "waiting"]
          /\ currentHolder' = currentHolder /\ deleted' = deleted
      BY <1>5 DEF FairResume
    <2>2. Head(alarmClocks) \in Callers
      BY <1>2, HeadOnList
    <2> QED BY <1>1, <1>2, <1>5, <2>1, <2>2
            DEF FairInv, FairTyping, FairGrants, CallerLocations
  <1> QED BY <1>3, <1>4, <1>5

LEMMA FairUnlockKeeps ==
  ASSUME FairInv, NEW c \in Callers, FairUnlock(c)
  PROVE  FairInv'
  <1>1. /\ fpc[c] = "in" /\ alarmClocks' = Tail(alarmClocks) /\ cancelled' = cancelled
        /\ deleted' = deleted /\ currentHolder' = currentHolder
        /\ fpc \in [Callers -> CallerLocations]
    BY DEF FairUnlock, FairInv, FairTyping
  <1>2. /\ alarmClocks \in Seq(Callers) /\ Distinct(alarmClocks)
        /\ alarmClocks # <<>> /\ Head(alarmClocks) = c
    BY <1>1 DEF FairInv, FairTyping, FairGrants
  <1>3. /\ alarmClocks' \in Seq(Callers) /\ Distinct(alarmClocks')
        /\ \A d : OnAlarm(d)' <=> OnAlarm(d) /\ d # c
        /\ alarmClocks' # <<>> =>
             Head(alarmClocks') \in Callers /\ OnList(alarmClocks', Head(alarmClocks'))
    BY <1>1, <1>2, TailDistinct DEF OnAlarm
  <1>4. \A d \in Callers : d # c => fpc[d] # "in"
    BY <1>2 DEF FairInv, FairGrants
  <1>5. /\ fpc' \in [Callers -> CallerLocations]
        /\ fpc'[c] = "out"
        /\ \A d \in Callers : d # c =>
             fpc'[d] = IF alarmClocks' # <<>> /\ d = Head(alarmClocks') /\ fpc[d] = "waiting"
                       THEN "awake" ELSE fpc[d]
    BY <1>1 DEF FairUnlock, Signalled, CallerLocations
  <1>6. FairGrants'
    <2>1. \A d \in Callers : fpc'[d] # "in"
      BY <1>4, <1>5
    <2>2. ASSUME ~cancelled, alarmClocks' # <<>>
          PROVE  fpc'[Head(alarmClocks')] \in {"in", "awake"}
      <3> DEFINE next == Head(alarmClocks')
      <3>1. next \in Callers /\ next # c /\ OnAlarm(next)
        BY <1>3, <2>2 DEF OnAlarm
      <3>2. fpc[next] \in {"waiting", "awake"}
        BY <1>4, <2>2, <3>1 DEF FairInv
      <3> QED BY <1>5, <2>2, <3>1, <3>2
    <2> QED BY <1>1, <2>1, <2>2 DEF FairGrants
  <1> QED BY <1>1, <1>3, <1>4, <1>5, <1>6 DEF FairInv, FairTyping

LEMMA FairCancelKeeps == FairInv /\ FairCancel => FairInv'
  <1> SUFFICES ASSUME FairInv, FairCancel PROVE FairInv'
    OBVIOUS
  <1>1. /\ cancelled' = TRUE /\ alarmClocks' = alarmClocks
        /\ deleted' = deleted /\ currentHolder' = currentHolder
        /\ \A d : OnAlarm(d)' <=> OnAlarm(d)
    BY DEF FairCancel, OnAlarm
  <1>2. /\ fpc' \in [Callers -> CallerLocations]
        /\ \A d \in Callers : \/ fpc'[d] = fpc[d]
                              \/ fpc[d] = "waiting" /\ fpc'[d] = "awake"
    BY DEF FairCancel, Signalled, FairInv, FairTyping, CallerLocations
  <1> QED BY <1>1, <1>2 DEF FairInv, FairTyping, FairGrants

LEMMA FairInductive == FairInv /\ [FairMutexNext]_fairVars => FairInv'
  <1> SUFFICES ASSUME FairInv, [FairMutexNext]_fairVars PROVE FairInv'
    OBVIOUS
  <1>1. ASSUME NEW c \in Callers, SpuriousWakeup(c) PROVE FairInv'
    <2>1. /\ fpc[c] = "waiting" /\ fpc' = [fpc EXCEPT ![c] = "awake"]
          /\ UNCHANGED <<cancelled, alarmClocks, deleted, currentHolder>>
          /\ \A d : OnAlarm(d)' <=> OnAlarm(d)
      BY <1>1 DEF SpuriousWakeup, OnAlarm
    <2> QED BY <2>1 DEF FairInv, FairTyping, FairGrants, CallerLocations
  <1>2. CASE UNCHANGED fairVars
    BY <1>2 DEF fairVars, FairInv, FairTyping, FairGrants, OnAlarm
  <1> QED BY <1>1, <1>2, FairLockKeeps, FairResumeKeeps, FairUnlockKeeps, FairCancelKeeps
          DEF FairMutexNext

(***************************************************************************)
(* lock() and unlock() of FairMutexWithCancel: one holder at a time, the   *)
(* front of the list, and no lost wake-up until the mutex is cancelled.    *)
(***************************************************************************)
THEOREM FairMutexGrants == FairMutexSpec => []FairGrants
  <1>1. FairInv => FairGrants
    BY DEF FairInv
  <1> QED BY <1>1, FairInitial, FairInductive, PTL DEF FairMutexSpec

-----------------------------------------------------------------------------
(* The critical section. *)

Waits(e) == OnList(waiters, e)

FifoInv ==
  /\ FifoTyping
  /\ Distinct(waiters)
  /\ \A e \in Enterers : Waits(e) <=> cpc[e] \in {"waiting", "awake", "aborted"}
  /\ FifoExclusion

LEMMA FifoInitial == FifoInit => FifoInv
  <1> SUFFICES ASSUME FifoInit PROVE FifoInv
    OBVIOUS
  <1>1. /\ waiters = <<>> /\ held = FALSE
        /\ cpc \in [Enterers -> EntererLocations] /\ \A e \in Enterers : cpc[e] = "out"
    BY DEF FifoInit, EntererLocations
  <1>2. Distinct(waiters) /\ \A e : ~Waits(e)
    BY <1>1, EmptyDistinct DEF Waits
  <1>3. waiters \in Seq(Enterers)
    BY <1>1
  <1>4. FifoTyping
    <2>1. held \in BOOLEAN
      BY <1>1
    <2> QED BY <1>1, <1>3, <2>1 DEF FifoTyping
  <1>5. FifoExclusion
    BY <1>1 DEF FifoExclusion
  <1> QED BY <1>1, <1>2, <1>4, <1>5 DEF FifoInv

LEMMA FifoLockKeeps ==
  ASSUME FifoInv, NEW e \in Enterers, FifoLock(e)
  PROVE  FifoInv'
  <1>1. cpc[e] = "out" /\ waiters \in Seq(Enterers) /\ Distinct(waiters) /\ ~Waits(e)
    BY DEF FifoLock, FifoInv, FifoTyping
  <1>2. CASE held
    <2>1. /\ waiters' = Append(waiters, e) /\ held' = held
          /\ cpc' = [cpc EXCEPT ![e] = "waiting"]
      BY <1>2 DEF FifoLock
    <2>2. /\ waiters' \in Seq(Enterers) /\ Distinct(waiters')
          /\ \A f : Waits(f)' <=> Waits(f) \/ f = e
      BY <1>1, <2>1, AppendDistinct DEF Waits
    <2> QED BY <1>1, <1>2, <2>1, <2>2
            DEF FifoInv, FifoTyping, FifoExclusion, EntererLocations
  <1>3. CASE ~held
    <2>1. waiters' = waiters /\ held' = TRUE /\ cpc' = [cpc EXCEPT ![e] = "in"]
      BY <1>3 DEF FifoLock
    <2>2. \A f : Waits(f)' <=> Waits(f)
      BY <2>1 DEF Waits
    <2>3. \A f \in Enterers : cpc[f] # "in"
      BY <1>3 DEF FifoInv, FifoExclusion
    <2> QED BY <1>1, <2>1, <2>2, <2>3
            DEF FifoInv, FifoTyping, FifoExclusion, EntererLocations
  <1> QED BY <1>2, <1>3

LEMMA FifoResumeKeeps ==
  ASSUME FifoInv, NEW e \in Enterers, FifoResume(e)
  PROVE  FifoInv'
  <1>1. /\ cpc[e] = "awake" /\ cpc \in [Enterers -> EntererLocations]
        /\ waiters \in Seq(Enterers) /\ Distinct(waiters)
        /\ waiters # <<>> /\ Head(waiters) \in Enterers
    BY HeadOnList DEF FifoResume, FifoInv, FifoTyping, Waits
  <1>2. CASE held
    <2>1. /\ cpc' = [cpc EXCEPT ![e] = "waiting"] /\ held' = held /\ waiters' = waiters
          /\ \A f : Waits(f)' <=> Waits(f)
      BY <1>2 DEF FifoResume, Waits
    <2> QED BY <1>1, <1>2, <2>1 DEF FifoInv, FifoTyping, FifoExclusion, EntererLocations
  <1>3. CASE ~held /\ Head(waiters) # e
    <2>1. /\ cpc' = [cpc EXCEPT ![e] = "aborted"] /\ held' = held /\ waiters' = waiters
          /\ \A f : Waits(f)' <=> Waits(f)
      BY <1>3 DEF FifoResume, Waits
    <2> QED BY <1>1, <1>3, <2>1 DEF FifoInv, FifoTyping, FifoExclusion, EntererLocations
  <1>4. CASE ~held /\ Head(waiters) = e
    <2>1. cpc' = [cpc EXCEPT ![e] = "in"] /\ held' = TRUE /\ waiters' = Tail(waiters)
      BY <1>4 DEF FifoResume
    <2>2. /\ waiters' \in Seq(Enterers) /\ Distinct(waiters')
          /\ \A f : Waits(f)' <=> Waits(f) /\ f # e
      BY <1>1, <1>4, <2>1, TailDistinct DEF Waits
    <2>3. \A f \in Enterers : cpc[f] # "in"
      BY <1>4 DEF FifoInv, FifoExclusion
    <2> QED BY <1>1, <2>1, <2>2, <2>3
            DEF FifoInv, FifoTyping, FifoExclusion, EntererLocations
  <1> QED BY <1>2, <1>3, <1>4

LEMMA FifoUnlockKeeps ==
  ASSUME FifoInv, NEW e \in Enterers, FifoUnlock(e), ~FifoAborted
  PROVE  FifoInv'
  <1>1. /\ cpc[e] = "in" /\ held' = FALSE /\ waiters' = waiters
        /\ cpc \in [Enterers -> EntererLocations]
        /\ \A f : Waits(f)' <=> Waits(f)
    BY DEF FifoUnlock, FifoInv, FifoTyping, Waits
  <1>2. /\ cpc' \in [Enterers -> EntererLocations]
        /\ cpc'[e] = "out"
        /\ \A f \in Enterers : f # e =>
             cpc'[f] = IF waiters # <<>> /\ f = Head(waiters) /\ cpc[f] = "waiting"
                       THEN "awake" ELSE cpc[f]
    BY <1>1 DEF FifoUnlock, EntererLocations
  <1>3. \A f \in Enterers : f # e => cpc[f] # "in"
    BY <1>1 DEF FifoInv, FifoExclusion
  <1>4. ASSUME waiters # <<>> PROVE cpc'[Head(waiters)] \in {"awake", "aborted"}
    <2>1. Head(waiters) \in Enterers /\ Waits(Head(waiters))
      BY <1>4, HeadOnList DEF FifoInv, FifoTyping, Waits
    <2>2. cpc[Head(waiters)] \in {"waiting", "awake", "aborted"}
      BY <2>1 DEF FifoInv
    <2> QED BY <1>1, <1>2, <1>4, <2>1, <2>2
  <1>5. FifoExclusion'
    <2>1. \A f \in Enterers : cpc'[f] # "in"
      BY <1>2, <1>3
    <2> QED BY <1>1, <1>4, <2>1 DEF FifoExclusion
  <1>6. \A f \in Enterers : Waits(f)' <=> cpc'[f] \in {"waiting", "awake", "aborted"}
    <2> SUFFICES ASSUME NEW f \in Enterers
                 PROVE  Waits(f)' <=> cpc'[f] \in {"waiting", "awake", "aborted"}
      OBVIOUS
    <2>1. Waits(f) <=> cpc[f] \in {"waiting", "awake", "aborted"}
      BY DEF FifoInv
    <2> QED BY <1>1, <1>2, <2>1
  <1> QED BY <1>1, <1>2, <1>5, <1>6 DEF FifoInv, FifoTyping

LEMMA FifoInductive == FifoInv /\ [FifoNext]_fifoVars => FifoInv'
  <1> SUFFICES ASSUME FifoInv, [FifoNext]_fifoVars PROVE FifoInv'
    OBVIOUS
  <1>1. ASSUME NEW e \in Enterers, FifoSpuriousWakeup(e) PROVE FifoInv'
    <2>1. /\ cpc[e] = "waiting" /\ cpc' = [cpc EXCEPT ![e] = "awake"]
          /\ UNCHANGED <<held, waiters>>
          /\ \A f : Waits(f)' <=> Waits(f)
      BY <1>1 DEF FifoSpuriousWakeup, Waits
    <2>2. waiters # <<>> => Head(waiters) \in Enterers
      BY HeadOnList DEF FifoInv, FifoTyping
    <2> QED BY <2>1, <2>2 DEF FifoInv, FifoTyping, FifoExclusion, EntererLocations
  <1>2. CASE UNCHANGED fifoVars
    BY <1>2 DEF fifoVars, FifoInv, FifoTyping, FifoExclusion, Waits
  <1> QED BY <1>1, <1>2, FifoLockKeeps, FifoResumeKeeps, FifoUnlockKeeps DEF FifoNext

(***************************************************************************)
(* lock() and unlock() of FifoCriticalSection: one thread inside, exactly  *)
(* while the section is held, and a free section has its first waiter on   *)
(* the way.                                                                *)
(***************************************************************************)
THEOREM CriticalSectionExcludes == FifoSpec => []FifoExclusion
  <1>1. FifoInv => FifoExclusion
    BY DEF FifoInv
  <1> QED BY <1>1, FifoInitial, FifoInductive, PTL DEF FifoSpec

-----------------------------------------------------------------------------
(* The top N. *)

TopNTyped ==
  /\ valueOf \in [Keys -> Int]
  /\ poolOf \in [Keys -> {"t", "b", "a"}]
  /\ topN \in Nat

TopFilled ==
  /\ Cardinality(In("t")) <= topN
  /\ In("b") # {} => Cardinality(In("t")) = topN

TopNInv == TopNTyped /\ (~listedTwice => TopFilled)

LEMMA PoolCardinality ==
  ASSUME NEW p
  PROVE  IsFiniteSet(In(p)) /\ Cardinality(In(p)) \in Nat
BY TopNAssumption, FS_Subset, FS_CardinalityType DEF In

LEMMA MinOfTwo ==
  ASSUME NEW m \in Int, NEW n \in Int
  PROVE  Min({m, n}) = IF m <= n THEN m ELSE n
  <1>1. \E x \in {m, n} : \A y \in {m, n} : x =< y
    OBVIOUS
  <1>2. Min({m, n}) \in {m, n} /\ \A y \in {m, n} : Min({m, n}) =< y
    BY <1>1 DEF Min
  <1> QED BY <1>2

\* The bound on the top says that it is as full as it can be.
LEMMA TopNFull == TopNTyped /\ TopFilled => Full
  <1> SUFFICES ASSUME TopNTyped, TopFilled PROVE Full
    OBVIOUS
  <1> DEFINE all == In("t") \cup In("b")
  <1>1. /\ IsFiniteSet(all) /\ Cardinality(all) \in Nat
        /\ Cardinality(In("t")) \in Nat /\ Cardinality(In("t")) <= Cardinality(all)
    BY PoolCardinality, FS_Union, FS_CardinalityType, FS_Subset
  <1>2. Min({topN, Cardinality(all)}) =
          IF topN <= Cardinality(all) THEN topN ELSE Cardinality(all)
    <2>1. topN \in Int /\ Cardinality(all) \in Int
      BY <1>1 DEF TopNTyped
    <2> QED BY <2>1, MinOfTwo
  <1>3. CASE In("b") = {}
    <2>1. all = In("t")
      BY <1>3
    <2> QED BY <1>1, <1>2, <2>1 DEF Full, TopNTyped, TopFilled
  <1>4. CASE In("b") # {}
    BY <1>1, <1>2, <1>4 DEF Full, TopNTyped, TopFilled
  <1> QED BY <1>3, <1>4

LEMMA InsertKeeps ==
  ASSUME TopNTyped, TopFilled, topN' = topN, NEW k \in Keys, NEW v \in Values, Insert(k, v)
  PROVE  TopNTyped' /\ TopFilled' /\ (Ranked => Ranked' \/ LoweredOnTop)
  <1> DEFINE top == In("t") \ {k}
  <1>1. /\ valueOf \in [Keys -> Int] /\ poolOf \in [Keys -> {"t", "b", "a"}]
        /\ valueOf' = [valueOf EXCEPT ![k] = v] /\ v \in Int /\ topN > 0
        /\ topN \in Nat /\ topN' = topN
    BY TopNAssumption DEF Insert, OtherKeys, TopNTyped
  <1>2. /\ IsFiniteSet(top) /\ Cardinality(top) \in Nat
        /\ Cardinality(top) = IF poolOf[k] = "t" THEN Cardinality(In("t")) - 1
                                                 ELSE Cardinality(In("t"))
    <2>1. IsFiniteSet(In("t")) /\ Cardinality(In("t")) \in Nat
      BY PoolCardinality
    <2>2. k \in In("t") <=> poolOf[k] = "t"
      BY DEF In
    <2> QED BY <2>1, <2>2, FS_RemoveElement, FS_CardinalityType
  <1>3. CASE Cardinality(top) < topN
    <2>1. poolOf' = [poolOf EXCEPT ![k] = "t"]
      BY <1>3 DEF Insert, OtherKeys
    <2>2. In("t")' = top \cup {k} /\ In("b")' = In("b") \ {k}
      BY <1>1, <2>1 DEF In
    <2>3. Cardinality(In("t")') = Cardinality(top) + 1
      BY <1>2, <2>2, FS_AddElement
    <2>4. poolOf[k] # "t" => In("b") = {}
      BY <1>2, <1>3 DEF TopFilled
    <2>5. TopNTyped' /\ TopFilled'
      <3>1. TopNTyped'
        BY <1>1, <2>1 DEF TopNTyped
      <3>2. Cardinality(In("t")') <= topN
        BY <1>1, <1>2, <1>3, <2>3
      <3>3. In("b")' # {} => Cardinality(In("t")') = topN
        <4>1. ASSUME In("b")' # {} PROVE In("b") # {} /\ poolOf[k] = "t"
          BY <2>2, <2>4, <4>1
        <4>2. ASSUME In("b") # {} PROVE Cardinality(In("t")) = topN
          BY <4>2 DEF TopFilled
        <4> QED BY <1>1, <1>2, <2>3, <4>1, <4>2
      <3> QED BY <1>1, <3>1, <3>2, <3>3 DEF TopFilled
    <2>6. ASSUME Ranked, ~LoweredOnTop PROVE Ranked'
      <3>1. CASE poolOf[k] # "t"
        BY <2>2, <2>4, <3>1 DEF Ranked
      <3>2. CASE poolOf[k] = "t"
        <4>1. k \in In("t") /\ poolOf'[k] = "t" /\ valueOf'[k] = v /\ valueOf[k] \in Int
          BY <1>1, <2>1, <3>2 DEF In
        <4>2. v >= valueOf[k]
          BY <1>1, <2>6, <4>1 DEF LoweredOnTop
        <4>3. \A b \in In("b") : b \in Keys /\ b # k /\ valueOf[b] \in Int /\ valueOf[k] >= valueOf[b]
          BY <1>1, <2>6, <4>1 DEF Ranked, In
        <4>4. \A t \in top : t \in Keys /\ t # k /\ \A b \in In("b") : valueOf[t] >= valueOf[b]
          BY <2>6 DEF Ranked, In
        <4> QED BY <1>1, <2>2, <4>2, <4>3, <4>4 DEF Ranked
      <3> QED BY <3>1, <3>2
    <2> QED BY <2>5, <2>6
  <1>4. CASE ~(Cardinality(top) < topN)
    <2>1. poolOf[k] # "t" /\ top = In("t") /\ Cardinality(In("t")) = topN
      <3>1. Cardinality(In("t")) \in Nat /\ Cardinality(In("t")) <= topN
        BY PoolCardinality DEF TopFilled
      <3>2. poolOf[k] # "t"
        BY <1>1, <1>2, <1>4, <3>1
      <3>3. top = In("t")
        BY <3>2 DEF In
      <3> QED BY <1>1, <1>4, <3>1, <3>2, <3>3
    <2>2. PICK worst \in LowestOf(top) :
            poolOf' = IF v > valueOf[worst]
                      THEN [poolOf EXCEPT ![worst] = "b", ![k] = "t"]
                      ELSE [poolOf EXCEPT ![k] = "b"]
      BY <1>4, <2>1 DEF Insert, OtherKeys
    <2>3. /\ worst \in In("t") /\ worst # k /\ worst \in Keys /\ valueOf[worst] \in Int
          /\ \A t \in In("t") : valueOf[worst] <= valueOf[t]
          /\ \A p : \A x \in In(p) : x \in Keys /\ valueOf[x] \in Int
      BY <1>1, <2>1, <2>2 DEF LowestOf, In
    <2>4. CASE v > valueOf[worst]
      <3>1. poolOf' = [poolOf EXCEPT ![worst] = "b", ![k] = "t"]
        BY <2>2, <2>4
      <3>2. /\ In("t")' = (In("t") \ {worst}) \cup {k}
            /\ In("b")' = (In("b") \ {k}) \cup {worst}
            /\ k \notin In("t")
        BY <1>1, <2>1, <2>3, <3>1 DEF In
      <3>3. Cardinality(In("t")') = topN
        <4>1. /\ IsFiniteSet(In("t") \ {worst})
              /\ Cardinality(In("t") \ {worst}) = topN - 1
          BY <1>1, <2>1, <2>3, PoolCardinality, FS_RemoveElement
        <4> QED BY <1>1, <3>2, <4>1, FS_AddElement
      <3>4. TopNTyped' /\ TopFilled'
        BY <1>1, <2>3, <3>1, <3>3 DEF TopNTyped, TopFilled
      <3>5. ASSUME Ranked PROVE Ranked'
        <4>1. \A x \in Keys : valueOf'[x] = IF x = k THEN v ELSE valueOf[x]
          BY <1>1
        <4>2. \A b \in In("b") : valueOf[worst] >= valueOf[b]
          BY <2>3, <3>5 DEF Ranked
        <4>3. \A t \in In("t")' : t \in Keys /\ valueOf'[t] >= valueOf[worst]
          BY <1>1, <2>3, <2>4, <3>2, <4>1
        <4>4. \A b \in In("b")' : b \in Keys /\ valueOf[worst] >= valueOf'[b]
          BY <2>1, <2>3, <3>2, <4>1, <4>2
        <4>5. \A x \in Keys : valueOf'[x] \in Int
          BY <1>1
        <4> QED BY <2>3, <4>3, <4>4, <4>5 DEF Ranked
      <3> QED BY <3>4, <3>5
    <2>5. CASE ~(v > valueOf[worst])
      <3>1. poolOf' = [poolOf EXCEPT ![k] = "b"]
        BY <2>2, <2>5
      <3>2. In("t")' = In("t") /\ In("b")' = In("b") \cup {k} /\ k \notin In("t")
        BY <1>1, <2>1, <3>1 DEF In
      <3>3. TopNTyped' /\ TopFilled'
        BY <1>1, <2>1, <3>1, <3>2 DEF TopNTyped, TopFilled
      <3>4. ASSUME Ranked PROVE Ranked'
        <4>1. \A x \in Keys : valueOf'[x] = IF x = k THEN v ELSE valueOf[x]
          BY <1>1
        <4>2. \A t \in In("t") : v <= valueOf[t] /\ t # k
          BY <1>1, <2>3, <2>5, <3>2
        <4> QED BY <1>1, <2>3, <3>2, <3>4, <4>1, <4>2 DEF Ranked
      <3> QED BY <3>3, <3>4
    <2> QED BY <2>4, <2>5
  <1> QED BY <1>3, <1>4

\* With N = 0 nothing is above anything.
LEMMA InsertAtZeroKeeps ==
  ASSUME TopNTyped, TopFilled, ~listedTwice, topN' = topN, NEW k \in Keys, NEW v \in Values, InsertAtZero(k, v)
  PROVE  TopNTyped' /\ (~listedTwice' => TopFilled' /\ Ranked')
  <1>1. /\ valueOf \in [Keys -> Int] /\ poolOf \in [Keys -> {"t", "b", "a"}]
        /\ v \in Int /\ NoValue \in Int /\ topN = 0 /\ topN' = 0
    BY TopNAssumption DEF InsertAtZero, OtherKeys, TopNTyped, NoValue
  <1>2. TopNTyped'
    BY <1>1 DEF InsertAtZero, OtherKeys, TopNTyped
  <1>3. In("t") = {}
    <2>1. Cardinality(In("t")) = 0
      BY <1>1, PoolCardinality DEF TopFilled
    <2> QED BY <2>1, PoolCardinality, FS_EmptySet
  <1>4. ~listedTwice' => In("t")' = {}
    <2>1. ~listedTwice' => \A x \in Keys : poolOf'[x] = "t" => poolOf[x] = "t"
      BY <1>1 DEF InsertAtZero, OtherKeys
    <2> QED BY <1>3, <2>1 DEF In
  <1>5. ~listedTwice' => Cardinality(In("t")') = 0
    BY <1>4, FS_EmptySet
  <1>6. ~listedTwice' => TopFilled' /\ Ranked'
    BY <1>1, <1>4, <1>5 DEF TopFilled, Ranked
  <1> QED BY <1>2, <1>6

LEMMA EraseKeeps ==
  ASSUME TopNTyped, TopFilled, topN' = topN, NEW k \in Keys, Erase(k)
  PROVE  TopNTyped' /\ TopFilled' /\ (Ranked => Ranked')
  <1>1. /\ valueOf \in [Keys -> Int] /\ poolOf \in [Keys -> {"t", "b", "a"}]
        /\ valueOf' \in [Keys -> Int]
        /\ \A x \in Keys : x # k => valueOf'[x] = valueOf[x]
        /\ topN \in Nat /\ topN' = topN
    BY TopNAssumption DEF Erase, TopNTyped, NoValue
  <1>2. \A p : \A x \in In(p) : x \in Keys /\ valueOf[x] \in Int
    BY <1>1 DEF In
  <1>3. CASE poolOf[k] = "t" /\ In("b") # {}
    <2>1. PICK best \in HighestOf(In("b")) : poolOf' = [poolOf EXCEPT ![k] = "a", ![best] = "t"]
      BY <1>3 DEF Erase
    <2>2. /\ best \in In("b") /\ best # k /\ best \in Keys /\ k \in In("t")
          /\ \A b \in In("b") : valueOf[best] >= valueOf[b]
      BY <1>3, <2>1 DEF HighestOf, In
    <2>3. /\ In("t")' = (In("t") \ {k}) \cup {best}
          /\ In("b")' = In("b") \ {best}
          /\ best \notin In("t") /\ k \notin In("b")
      BY <1>1, <1>3, <2>1, <2>2 DEF In
    <2>4. Cardinality(In("t")') = topN
      <3>1. Cardinality(In("t")) = topN
        BY <1>3 DEF TopFilled
      <3>2. /\ IsFiniteSet(In("t") \ {k})
            /\ Cardinality(In("t") \ {k}) = topN - 1
        BY <1>1, <2>2, <3>1, PoolCardinality, FS_RemoveElement
      <3>3. best \notin In("t") \ {k}
        BY <2>3
      <3>4. Cardinality(In("t")') = Cardinality(In("t") \ {k}) + 1
        BY <2>3, <3>2, <3>3, FS_AddElement
      <3> QED BY <1>1, <3>2, <3>4
    <2>5. TopNTyped' /\ TopFilled'
      <3>1. poolOf' \in [Keys -> {"t", "b", "a"}]
        BY <1>1, <2>1
      <3> QED BY <1>1, <2>4, <3>1 DEF TopNTyped, TopFilled
    <2>6. ASSUME Ranked PROVE Ranked'
      BY <1>1, <1>2, <2>2, <2>3, <2>6 DEF Ranked
    <2> QED BY <2>5, <2>6
  <1>4. CASE ~(poolOf[k] = "t" /\ In("b") # {})
    <2>1. poolOf' = [poolOf EXCEPT ![k] = "a"]
      BY <1>4 DEF Erase
    <2>2. In("t")' = In("t") \ {k} /\ In("b")' = In("b") \ {k}
      BY <1>1, <2>1 DEF In
    <2>3. /\ Cardinality(In("t")') \in Nat
          /\ Cardinality(In("t")') <= Cardinality(In("t")) /\ Cardinality(In("t")) \in Nat
          /\ In("b")' # {} => In("t")' = In("t")
      <3>1. In("b")' # {} => k \notin In("t")
        BY <1>4, <2>2 DEF In
      <3>2. /\ IsFiniteSet(In("t")) /\ Cardinality(In("t")) \in Nat
            /\ IsFiniteSet(In("t") \ {k})
            /\ Cardinality(In("t") \ {k}) =
                 IF k \in In("t") THEN Cardinality(In("t")) - 1 ELSE Cardinality(In("t"))
        BY PoolCardinality, FS_RemoveElement
      <3>3. Cardinality(In("t") \ {k}) \in Nat
        BY <3>2, FS_CardinalityType
      <3>4. Cardinality(In("t")') = Cardinality(In("t") \ {k})
        BY <2>2
      <3>5. In("b")' # {} => In("t")' = In("t")
        BY <2>2, <3>1
      <3>6. Cardinality(In("t") \ {k}) <= Cardinality(In("t"))
        BY <3>2
      <3> QED BY <3>2, <3>3, <3>4, <3>5, <3>6
    <2>4. TopNTyped' /\ TopFilled'
      <3>1. TopNTyped'
        BY <1>1, <2>1 DEF TopNTyped
      <3>2. Cardinality(In("t")) <= topN
        BY DEF TopFilled
      <3>3. In("b")' # {} => In("b") # {}
        BY <2>2
      <3> QED BY <1>1, <2>3, <3>1, <3>2, <3>3 DEF TopFilled
    <2>5. ASSUME Ranked PROVE Ranked'
      BY <1>1, <1>2, <2>2, <2>5 DEF Ranked
    <2> QED BY <2>4, <2>5
  <1> QED BY <1>3, <1>4

(***************************************************************************)
(* insert and erase of TopNMultimap keep the top full and, but for the     *)
(* overwriting of an entry of the top with a lower value, ranked, for      *)
(* every N; with N = 0 until the undefined read of an empty top makes an   *)
(* insert list an entry of the bottom again.                               *)
(***************************************************************************)
THEOREM TopNKeepsRanking == TopNSpec => TopNRanked
  <1>1. TopNInit => TopNInv
    <2> SUFFICES ASSUME TopNInit PROVE TopNInv
      OBVIOUS
    <2>1. /\ valueOf \in [Keys -> Int] /\ poolOf \in [Keys -> {"t", "b", "a"}]
          /\ In("t") = {} /\ In("b") = {} /\ topN \in Nat
      BY TopNAssumption DEF TopNInit, In, NoValue
    <2>2. Cardinality(In("t")) = 0
      BY <2>1, FS_EmptySet
    <2> QED BY <2>1, <2>2 DEF TopNInv, TopNTyped, TopFilled
  <1>2. TopNInv /\ [TopNNext]_topNVars =>
          TopNInv' /\ [~listedTwice' => Full' /\ (Ranked => Ranked' \/ LoweredOnTop)]_topNVars
    <2> SUFFICES ASSUME TopNInv, [TopNNext]_topNVars
                 PROVE  TopNInv' /\ [~listedTwice' => Full' /\ (Ranked => Ranked' \/ LoweredOnTop)]_topNVars
      OBVIOUS
    <2>1. CASE TopNNext
      <3>1. ~listedTwice /\ topN' = topN
        BY <2>1 DEF TopNNext
      <3>2. TopNTyped /\ TopFilled
        BY <3>1 DEF TopNInv
      <3>3. TopNTyped' /\ (~listedTwice' => TopFilled' /\ (Ranked => Ranked' \/ LoweredOnTop))
        BY <2>1, <3>1, <3>2, InsertKeeps, InsertAtZeroKeeps, EraseKeeps DEF TopNNext
      <3>4. TopNTyped' /\ TopFilled' => Full'
        BY TopNFull, PTL
      <3> QED BY <3>3, <3>4 DEF TopNInv
    <2>2. CASE UNCHANGED topNVars
      BY <2>2 DEF topNVars, TopNInv, TopNTyped, TopFilled, In
    <2> QED BY <2>1, <2>2
  <1> QED BY <1>1, <1>2, PTL DEF TopNSpec, TopNRanked

-----------------------------------------------------------------------------
(* The accounts and balances of the relation boxes. *)

\* A list of anything.
IsList(s) == s \in Seq({s[i] : i \in DOMAIN s})

\* A list with one more element at its end.
LEMMA ListAppended ==
  ASSUME NEW s, IsList(s), NEW x
  PROVE  /\ IsList(Append(s, x))
         /\ Len(s) \in Nat /\ Len(Append(s, x)) = Len(s) + 1
         /\ Append(s, x)[Len(s) + 1] = x
         /\ \A i \in 1..Len(s) : Append(s, x)[i] = s[i]
<1> DEFINE S == {s[i] : i \in DOMAIN s} \cup {x}
<1>1. s \in Seq(S)
  BY DEF IsList
<1>2. /\ Append(s, x) \in Seq(S)
      /\ Len(s) \in Nat /\ Len(Append(s, x)) = Len(s) + 1
      /\ Append(s, x)[Len(s) + 1] = x
      /\ \A i \in 1..Len(s) : Append(s, x)[i] = s[i]
  BY <1>1
<1>3. IsList(Append(s, x))
  BY <1>2 DEF IsList
<1>q. QED
  BY <1>2, <1>3

-----------------------------------------------------------------------------
(* The inductive invariant. *)

\* What `work' keeps of a box.
Fields == {"done", "at", "seen", "seg", "car", "standing", "marked", "found", "sized", "written"}
Fits(w) == DOMAIN w = Fields /\ w.done \in Nat

\* Every box has its place in its input, and a list of what it announced.
WorkTyped ==
  /\ relBoxes \in RelCases
  /\ DOMAIN work = RelBoxes /\ DOMAIN relOut = RelBoxes
  /\ \A b \in RelBoxes :
       /\ Fits(work[b])
       /\ IsList(relOut[b])

\* A row of an account, as far as charging needs it.
Row(r) == {"toll", "bal"} \subseteq DOMAIN r /\ r.toll \in Int

\* All that is a toll, or was one, is a number.
RowsTyped ==
  /\ \A car \in DOMAIN accts : Row(accts[car])
  /\ \A k \in DOMAIN stats : stats[k] \in Int
  /\ \A key \in DOMAIN charged : charged[key] \in Int

\* What a box behind them reads of the tuples two kinds of boxes announce.
TypedOut(kind, t) ==
  /\ kind \in {"readPos", "calcToll"} =>
       t.ltoll \in Int /\ t.car \in Int /\ t.time \in Int /\ t.pos \in Positions
  /\ kind = "calcToll" => t.toll \in Int

TollsTyped ==
  /\ RowsTyped
  /\ \A b \in RelBoxes : work[b].at = "mark" => Row(work[b].seen)
  /\ \A b \in RelBoxes : \A i \in 1..Len(relOut[b]) :
       TypedOut(Kind(b), relOut[b][i])

\* What was charged has a row, of an account or of a day.
KeysCharged ==
  /\ DOMAIN charged = {<<car>> : car \in DOMAIN accts} \cup DOMAIN daily
  /\ \A key \in DOMAIN daily : key = <<key[1], key[2], key[3]>>

\* What a get of a balance returns now; a missing row counts as 0.
AccountNow(car) == IF car \in DOMAIN accts THEN accts[car].bal ELSE 0
BalanceNow(key) == IF key \in DOMAIN daily THEN daily[key] ELSE 0

\* What a box has read and not put back is still what the table has, or the
\* key was put to by another.
HandCurrent(b) ==
  /\ work[b].at = "put" => work[b].done < Len(Source(b))
  /\ work[b].at = "put" /\ Kind(b) = "updateAccts" /\ <<Tuple(b).car>> \notin raced =>
       work[b].seen = AccountNow(Tuple(b).car)
  /\ work[b].at = "put" /\ Kind(b) = "updateDaily" /\ DailyKey(Tuple(b)) \notin raced =>
       work[b].seen = BalanceNow(DailyKey(Tuple(b)))
  /\ work[b].at = "mark" =>
       /\ work[b].car \in DOMAIN accts
       /\ <<work[b].car>> \notin raced => work[b].seen.bal = accts[work[b].car].bal

(***************************************************************************)
(* The inductive invariant: LedgerBalanced needs that a balance between    *)
(* its get and its put is that of the table or has been raced for.         *)
(***************************************************************************)
RelInv ==
  /\ WorkTyped
  /\ TollsTyped
  /\ KeysCharged
  /\ \A b \in RelBoxes : HandCurrent(b)
  /\ LedgerBalanced

-----------------------------------------------------------------------------
(* What a box reads, and how a step moves it. *)

\* What a box that charges is given has a toll.
LEMMA SourceTolls ==
  ASSUME WorkTyped, TollsTyped, NEW b \in RelBoxes
  PROVE  /\ IsList(Source(b)) /\ Len(Source(b)) \in Nat
         /\ \A i \in 1..Len(Source(b)) :
              HasToll(Kind(b), Source(b)[i]) /\ HasPlace(Kind(b), Source(b)[i])
<1>1. relBoxes \in RelCases /\ b \in DOMAIN relBoxes
  BY DEF WorkTyped, RelBoxes
<1>2. CASE "from" \in DOMAIN relBoxes[b]
  <2>1. /\ relBoxes[b].from \in RelBoxes
        /\ Suits(Kind(b), Kind(relBoxes[b].from))
        /\ Source(b) = relOut[relBoxes[b].from]
    BY <1>1, <1>2, RelationsAssumption DEF RelBoxes, Kind, Source
  <2>2. IsList(Source(b))
    BY <2>1 DEF WorkTyped
  <2>3. \A i \in 1..Len(Source(b)) :
          HasToll(Kind(b), Source(b)[i]) /\ HasPlace(Kind(b), Source(b)[i])
    BY <2>1 DEF TollsTyped, TypedOut, Suits, HasToll, HasPlace
  <2>q. QED
    BY <2>2, <2>3 DEF IsList
<1>3. CASE "from" \notin DOMAIN relBoxes[b]
  <2>1. /\ Source(b) = relBoxes[b].input
        /\ IsList(relBoxes[b].input)
        /\ \A i \in DOMAIN relBoxes[b].input :
             /\ HasToll(relBoxes[b].kind, relBoxes[b].input[i])
             /\ HasPlace(relBoxes[b].kind, relBoxes[b].input[i])
    BY <1>1, <1>3, RelationsAssumption DEF Source, IsList
  <2>2. Len(Source(b)) \in Nat /\ DOMAIN Source(b) = 1..Len(Source(b))
    BY <2>1 DEF IsList
  <2>q. QED
    BY <2>1, <2>2 DEF Kind
<1>q. QED
  BY <1>2, <1>3

\* A box at work on a tuple has one.
LEMMA TupleTolls ==
  ASSUME WorkTyped, TollsTyped, NEW b \in RelBoxes, work[b].done < Len(Source(b))
  PROVE  HasToll(Kind(b), Tuple(b)) /\ HasPlace(Kind(b), Tuple(b))
<1>1. work[b].done + 1 \in 1..Len(Source(b))
  BY SourceTolls DEF WorkTyped, Fits
<1>q. QED
  BY <1>1, SourceTolls DEF Tuple

\* A box that is done with a tuple is at the start of the next.
LEMMA FinishedStarts ==
  ASSUME NEW w, w.done \in Nat, NEW f \in Finished(w)
  PROVE  Fits(f) /\ f.at = "start"
<1>1. PICK ends \in BOOLEAN :
        f = [Fresh EXCEPT !.done = w.done + 1, !.sized = ~ends /\ w.sized,
                          !.written = IF ends THEN 0 ELSE w.written]
  BY DEF Finished
<1>2. DOMAIN Fresh = Fields /\ Fresh.at = "start"
  BY DEF Fresh, Fields
<1>q. QED
  BY <1>1, <1>2 DEF Fits, Fields

\* The box b goes on, and the others stay where they are.
Alone(b) ==
  /\ DOMAIN work' = RelBoxes
  /\ Fits(work'[b])
  /\ \A o \in RelBoxes \ {b} :
       /\ Fits(work'[o])
       /\ work'[o].done = work[o].done /\ work'[o].at = work[o].at
       /\ work'[o].car = work[o].car /\ work'[o].seen = work[o].seen

\* A step of a box moves no other box.
LEMMA GoesAlone ==
  ASSUME WorkTyped, NEW b \in RelBoxes, NEW w, Fits(w), Goes(b, w)
  PROVE  Alone(b) /\ work'[b] = w
BY DEF Goes, WorkTyped, Alone

\* A put takes from the others at most cars they expect to come to.
LEMMA PutsAlone ==
  ASSUME WorkTyped, NEW b \in RelBoxes, NEW w, Fits(w), NEW key, NEW moved, Puts(b, key, w, moved)
  PROVE  Alone(b) /\ work'[b] = w
<1>2. work' = [o \in RelBoxes |-> IF o = b THEN w ELSE [work[o] EXCEPT !.standing = @ \ moved]]
  BY DEF Puts
<1>3. DOMAIN work' = RelBoxes /\ work'[b] = w
  BY <1>2
<1>4. ASSUME NEW o \in RelBoxes \ {b}
      PROVE  /\ Fits(work'[o])
             /\ work'[o].done = work[o].done /\ work'[o].at = work[o].at
             /\ work'[o].car = work[o].car /\ work'[o].seen = work[o].seen
  <2>1. work'[o] = [work[o] EXCEPT !.standing = @ \ moved]
    BY <1>2
  <2>2. Fits(work[o])
    BY DEF WorkTyped
  <2>q. QED
    BY <2>1, <2>2 DEF Fits, Fields
<1>q. QED
  BY <1>3, <1>4 DEF Alone

\* To be done with a tuple moves no other box.
LEMMA FinishAlone ==
  ASSUME WorkTyped, NEW b \in RelBoxes, NEW w, Fits(w), NEW f \in Finished(w), Goes(b, f)
  PROVE  Alone(b) /\ work'[b].at = "start"
<1>1. Fits(f) /\ f.at = "start"
  BY FinishedStarts DEF Fits
<1>q. QED
  BY <1>1, GoesAlone

\* A step of the walk moves the box on, to a car only when it stands there.
LEMMA WalkSteps ==
  ASSUME WorkTyped, NEW b \in RelBoxes, NEW cars, cars \subseteq DOMAIN accts, NextOf(b, cars)
  PROVE  /\ Alone(b)
         /\ work'[b].at # "put"
         /\ work'[b].at = "mark" =>
              work'[b].car \in DOMAIN accts /\ work'[b].seen = accts[work'[b].car]
<1>0. Fits(work[b])
  BY DEF WorkTyped
<1>1. ASSUME NEW car \in cars, Comes(b, car)
      PROVE  /\ Alone(b)
             /\ work'[b].at # "put"
             /\ work'[b].at = "mark" =>
                  work'[b].car \in DOMAIN accts /\ work'[b].seen = accts[work'[b].car]
  <2> DEFINE at == IF Kind(b) = "updateAcc" THEN "mark" ELSE "next"
             seen == IF Kind(b) = "updateAcc" THEN accts[car] ELSE <<>>
             w == [work[b] EXCEPT !.at = at, !.car = car, !.seen = seen, !.found = TRUE]
  <2>1. Goes(b, w)
    BY <1>1 DEF Comes
  <2>2. Fits(w) /\ w.at = at /\ w.car = car /\ w.seen = seen
    BY <1>0 DEF Fits, Fields
  <2> HIDE DEF w
  <2>3. Alone(b) /\ work'[b] = w
    BY <2>1, <2>2, GoesAlone
  <2>q. QED
    BY <2>2, <2>3
<1>2. CASE PastSegment(b)
  <2>1. ASSUME Goes(b, [work[b] EXCEPT !.at = "seek", !.seg = @ + 1, !.seen = <<>>])
        PROVE  Alone(b) /\ work'[b].at = "seek"
    <3> DEFINE w == [work[b] EXCEPT !.at = "seek", !.seg = @ + 1, !.seen = <<>>]
    <3>0. Goes(b, w)
      BY <2>1
    <3>1. Fits(w) /\ w.at = "seek"
      BY <1>0 DEF Fits, Fields
    <3> HIDE DEF w
    <3>q. QED
      BY <3>0, <3>1, GoesAlone
  <2>2. ASSUME Goes(b, [work[b] EXCEPT !.at = "abort"])
        PROVE  Alone(b) /\ work'[b].at = "abort"
    <3> DEFINE w == [work[b] EXCEPT !.at = "abort"]
    <3>0. Goes(b, w)
      BY <2>2
    <3>1. Fits(w) /\ w.at = "abort"
      BY <1>0 DEF Fits, Fields
    <3> HIDE DEF w
    <3>q. QED
      BY <3>0, <3>1, GoesAlone
  <2>3. ASSUME Finish(b, [work[b] EXCEPT !.sized = @ \/ (Kind(b) = "accAlert" /\ work[b].found)])
        PROVE  Alone(b) /\ work'[b].at = "start"
    <3> DEFINE w == [work[b] EXCEPT !.sized = @ \/ (Kind(b) = "accAlert" /\ work[b].found)]
    <3>1. Fits(w)
      BY <1>0 DEF Fits, Fields
    <3>2. PICK f \in Finished(w) : Goes(b, f)
      BY <2>3 DEF Finish
    <3>q. QED
      BY <3>1, <3>2, FinishAlone
  <2>q. QED
    BY <1>2, <2>1, <2>2, <2>3 DEF PastSegment
<1>q. QED
  BY <1>1, <1>2 DEF NextOf

-----------------------------------------------------------------------------
(* What a step leaves alone. *)

\* The box b announces nothing, or a tuple with the tolls its kind has.
OutKept(b) ==
  \/ UNCHANGED relOut
  \/ \E t : /\ relOut' = [relOut EXCEPT ![b] = Append(@, t)]
            /\ TypedOut(Kind(b), t)

\* What was announced stays, and what is new has its tolls.
LEMMA OutGrows ==
  ASSUME WorkTyped, TollsTyped, NEW b \in RelBoxes, relBoxes' = relBoxes, OutKept(b),
         NEW o \in RelBoxes
  PROVE  /\ DOMAIN relOut' = RelBoxes /\ IsList(relOut'[o])
         /\ Len(relOut[o]) \in Nat /\ Len(relOut'[o]) \in Nat /\ Len(relOut'[o]) >= Len(relOut[o])
         /\ \A i \in 1..Len(relOut[o]) : relOut'[o][i] = relOut[o][i]
         /\ \A i \in 1..Len(relOut'[o]) : TypedOut(Kind(o), relOut'[o][i])
<1>1. /\ DOMAIN relOut = RelBoxes /\ IsList(relOut[o]) /\ Len(relOut[o]) \in Nat
      /\ \A i \in 1..Len(relOut[o]) : TypedOut(Kind(o), relOut[o][i])
  BY ListAppended DEF WorkTyped, TollsTyped
<1>2. CASE relOut'[o] = relOut[o] /\ DOMAIN relOut' = RelBoxes
  BY <1>1, <1>2
<1>3. ASSUME NEW t, relOut' = [relOut EXCEPT ![b] = Append(@, t)], o = b,
             TypedOut(Kind(b), t)
      PROVE  /\ IsList(relOut'[o]) /\ Len(relOut'[o]) = Len(relOut[o]) + 1
             /\ \A i \in 1..Len(relOut[o]) : relOut'[o][i] = relOut[o][i]
             /\ relOut'[o][Len(relOut[o]) + 1] = t
             /\ DOMAIN relOut' = RelBoxes
  <2>1. relOut'[o] = Append(relOut[o], t) /\ DOMAIN relOut' = RelBoxes
    BY <1>1, <1>3
  <2>q. QED
    BY <1>1, <2>1, ListAppended
<1>4. ASSUME NEW t, relOut' = [relOut EXCEPT ![b] = Append(@, t)], o = b,
             TypedOut(Kind(b), t)
      PROVE  \A i \in 1..Len(relOut'[o]) : TypedOut(Kind(o), relOut'[o][i])
  <2>1. /\ Len(relOut'[o]) = Len(relOut[o]) + 1
        /\ \A i \in 1..Len(relOut[o]) : relOut'[o][i] = relOut[o][i]
        /\ relOut'[o][Len(relOut[o]) + 1] = t
    BY <1>3, <1>4
  <2>2. ASSUME NEW i \in 1..Len(relOut'[o]), i # Len(relOut[o]) + 1
        PROVE  i \in 1..Len(relOut[o])
    BY <1>1, <2>1, <2>2
  <2>q. QED
    BY <1>1, <1>4, <2>1, <2>2
<1>5. \/ relOut'[o] = relOut[o] /\ DOMAIN relOut' = RelBoxes
      \/ \E t : /\ relOut' = [relOut EXCEPT ![b] = Append(@, t)] /\ o = b
                /\ TypedOut(Kind(b), t)
  BY <1>1 DEF OutKept
<1>q. QED
  BY <1>1, <1>2, <1>3, <1>4, <1>5

\* A box in the middle of a tuple keeps it.
LEMMA TupleStays ==
  ASSUME WorkTyped, TollsTyped, NEW b \in RelBoxes, relBoxes' = relBoxes, OutKept(b),
         NEW o \in RelBoxes, work[o].done < Len(Source(o)), work'[o].done = work[o].done
  PROVE  Tuple(o)' = Tuple(o) /\ work'[o].done < Len(Source(o)')
<1>1. relBoxes \in RelCases /\ o \in DOMAIN relBoxes /\ work[o].done \in Nat
  BY DEF WorkTyped, RelBoxes, Fits
<1>2. CASE "from" \in DOMAIN relBoxes[o]
  <2> DEFINE src == relBoxes[o].from
  <2>1. src \in RelBoxes /\ Source(o) = relOut[src] /\ Source(o)' = relOut'[src]
    BY <1>1, <1>2, RelationsAssumption DEF RelBoxes, Source
  <2> HIDE DEF src
  <2>2. /\ Len(relOut[src]) \in Nat /\ Len(relOut'[src]) \in Nat /\ Len(relOut'[src]) >= Len(relOut[src])
        /\ \A i \in 1..Len(relOut[src]) : relOut'[src][i] = relOut[src][i]
    BY <2>1, OutGrows
  <2>3. work[o].done + 1 \in 1..Len(relOut[src])
    BY <1>1, <2>1, <2>2
  <2>q. QED
    BY <1>1, <2>1, <2>2, <2>3 DEF Tuple
<1>3. CASE "from" \notin DOMAIN relBoxes[o]
  BY <1>3 DEF Source, Tuple
<1>q. QED
  BY <1>2, <1>3

\* What a box holds stays current when another puts to keys it does not hold,
\* or whose race is recorded.
LEMMA HandStays ==
  ASSUME WorkTyped, TollsTyped, NEW b \in RelBoxes, relBoxes' = relBoxes, OutKept(b), Alone(b),
         NEW o \in RelBoxes \ {b}, HandCurrent(o),
         NEW K, InHand(o) \cap K \subseteq raced', raced \subseteq raced',
         \A car : <<car>> \notin K => AccountNow(car)' = AccountNow(car),
         \A key : key \notin K => BalanceNow(key)' = BalanceNow(key),
         DOMAIN accts \subseteq DOMAIN accts'
  PROVE  HandCurrent(o)'
<1>1. /\ work'[o].done = work[o].done /\ work'[o].at = work[o].at
      /\ work'[o].car = work[o].car /\ work'[o].seen = work[o].seen
      /\ Kind(o)' = Kind(o)
  BY DEF Alone, Kind
<1>2. work[o].at = "put" => Tuple(o)' = Tuple(o) /\ work'[o].done < Len(Source(o)')
  BY <1>1, TupleStays DEF HandCurrent
<1>3. ASSUME work[o].at = "put", Kind(o) = "updateAccts", <<Tuple(o).car>> \notin raced'
      PROVE  work[o].seen = AccountNow(Tuple(o).car)'
  <2> DEFINE car == Tuple(o).car
  <2>1. InHand(o) = {<<car>>}
    BY <1>3 DEF InHand
  <2>2. work[o].seen = AccountNow(car) /\ <<car>> \notin K
    BY <1>3, <2>1 DEF HandCurrent
  <2>q. QED
    BY <1>2, <1>3, <2>2
<1>4. ASSUME work[o].at = "put", Kind(o) = "updateDaily", DailyKey(Tuple(o)) \notin raced'
      PROVE  work[o].seen = BalanceNow(DailyKey(Tuple(o)))'
  <2> DEFINE key == DailyKey(Tuple(o))
  <2>1. InHand(o) = {key}
    BY <1>4 DEF InHand
  <2>2. work[o].seen = BalanceNow(key) /\ key \notin K
    BY <1>4, <2>1 DEF HandCurrent
  <2>3. DailyKey(Tuple(o))' = key
    BY <1>2, <1>4 DEF DailyKey
  <2>q. QED
    BY <1>4, <2>2, <2>3
<1>5. ASSUME work[o].at = "mark"
      PROVE  /\ work[o].car \in DOMAIN accts'
             /\ <<work[o].car>> \notin raced' => work[o].seen.bal = accts'[work[o].car].bal
  <2> DEFINE car == work[o].car
  <2>1. InHand(o) = {<<car>>}
    BY <1>5 DEF InHand
  <2>2. /\ car \in DOMAIN accts /\ car \in DOMAIN accts'
        /\ <<car>> \notin raced => work[o].seen.bal = accts[car].bal
    BY <1>5 DEF HandCurrent
  <2>3. ASSUME NEW c, <<c>> \notin K, c \in DOMAIN accts PROVE accts'[c].bal = accts[c].bal
    BY <2>3 DEF AccountNow
  <2>q. QED
    BY <2>1, <2>2, <2>3
<1>6. DailyKey(Tuple(o))' = DailyKey(Tuple(o)) \/ work[o].at # "put"
  BY <1>2 DEF DailyKey
<1>q. QED
  BY <1>1, <1>2, <1>3, <1>4, <1>5, <1>6 DEF HandCurrent

\* The invariant is kept by a step that keeps what it says of the tables and
\* of the box that takes it.
LEMMA InvKept ==
  ASSUME RelInv, NEW b \in RelBoxes, relBoxes' = relBoxes, OutKept(b), Alone(b),
         NEW K, raced \subseteq raced',
         \A o \in RelBoxes \ {b} : InHand(o) \cap K \subseteq raced',
         \A car : <<car>> \notin K => AccountNow(car)' = AccountNow(car),
         \A key : key \notin K => BalanceNow(key)' = BalanceNow(key),
         DOMAIN accts \subseteq DOMAIN accts',
         RowsTyped', work'[b].at = "mark" => Row(work'[b].seen),
         KeysCharged', LedgerBalanced', HandCurrent(b)'
  PROVE  RelInv'
<1>1. WorkTyped /\ TollsTyped /\ RelBoxes' = RelBoxes
  BY DEF RelInv, RelBoxes
<1>2. WorkTyped'
  BY <1>1, OutGrows DEF WorkTyped, Alone
<1>3. \A o \in RelBoxes : Kind(o)' = Kind(o)
  BY DEF Kind
<1>4. TollsTyped'
  <2>1. \A o \in RelBoxes : work'[o].at = "mark" => Row(work'[o].seen)
    BY <1>1 DEF Alone, TollsTyped
  <2>2. \A o \in RelBoxes : \A i \in 1..Len(relOut'[o]) : TypedOut(Kind(o), relOut'[o][i])
    BY <1>1, OutGrows
  <2>q. QED
    BY <1>1, <1>3, <2>1, <2>2 DEF TollsTyped, Row, TypedOut
<1>5. \A o \in RelBoxes : HandCurrent(o)'
  <2>1. ASSUME NEW o \in RelBoxes \ {b} PROVE HandCurrent(o)'
    BY <1>1, HandStays DEF RelInv
  <2>q. QED
    BY <2>1
<1>q. QED
  BY <1>1, <1>2, <1>4, <1>5 DEF RelInv

\* A step that puts to none of the accounts and balances.
LEMMA ElsewhereKeeps ==
  ASSUME RelInv, NEW b \in RelBoxes, relBoxes' = relBoxes, OutKept(b), Alone(b),
         UNCHANGED <<accts, daily, relHistory>>, \A k \in DOMAIN stats' : stats'[k] \in Int,
         HandCurrent(b)', work'[b].at = "mark" => Row(work'[b].seen)
  PROVE  RelInv'
<1>1. /\ UNCHANGED <<accts, daily, charged, raced>>
      /\ \A o : InHand(o) \cap {} \subseteq raced'
  BY DEF relHistory
<1>2. RowsTyped' /\ KeysCharged' /\ LedgerBalanced'
  <2>1. RowsTyped'
    BY <1>1 DEF RelInv, TollsTyped, RowsTyped, Row
  <2>2. KeysCharged'
    BY <1>1 DEF RelInv, KeysCharged
  <2>3. LedgerBalanced'
    BY <1>1 DEF RelInv, LedgerBalanced
  <2>q. QED
    BY <2>1, <2>2, <2>3
<1>3. /\ \A car : AccountNow(car)' = AccountNow(car)
      /\ \A key : BalanceNow(key)' = BalanceNow(key)
  BY <1>1 DEF AccountNow, BalanceNow
<1> DEFINE K == {}
<1>4. /\ \A o \in RelBoxes \ {b} : InHand(o) \cap K \subseteq raced'
      /\ raced \subseteq raced' /\ DOMAIN accts \subseteq DOMAIN accts'
      /\ \A car : <<car>> \notin K => AccountNow(car)' = AccountNow(car)
      /\ \A key : key \notin K => BalanceNow(key)' = BalanceNow(key)
  BY <1>1, <1>3
<1> HIDE DEF K
<1>q. QED
  BY <1>2, <1>4, InvKept

-----------------------------------------------------------------------------
(* Each step keeps the invariant. *)

\* Who is neither to put back a balance nor to mark a row holds nothing.
LEMMA EmptyHand ==
  ASSUME NEW b, work'[b].at \notin {"put", "mark"}
  PROVE  HandCurrent(b)' /\ (work'[b].at = "mark" => Row(work'[b].seen))
BY DEF HandCurrent

\* What is announced and put by a box that is done with a tuple.
LEMMA FinishOut ==
  ASSUME RelInv, NEW b \in RelBoxes,
         \/ PutStats(b) \/ ReadPos(b) \/ CalcToll(b) \/ SegStat(b)
         \/ CheckRelation(b) \/ GetRelation(b)
  PROVE  OutKept(b) /\ \A k \in DOMAIN stats' : stats'[k] \in Int
<1>0. WorkTyped /\ TollsTyped
  BY DEF RelInv
<1>1. ASSUME work[b].done < Len(Source(b))
      PROVE  HasToll(Kind(b), Tuple(b)) /\ HasPlace(Kind(b), Tuple(b))
  BY <1>0, <1>1, TupleTolls
<1>2. CASE PutStats(b)
  <2>1. Tuple(b).toll \in Int
    BY <1>1, <1>2 DEF PutStats, Doing, HasToll
  <2>2. \A k \in DOMAIN stats' : stats'[k] \in Int
    BY <1>0, <1>2, <2>1 DEF PutStats, Put, TollsTyped, RowsTyped
  <2>q. QED
    BY <1>2, <2>2 DEF PutStats, OutKept
<1>3. CASE ReadPos(b)
  <2> DEFINE row == IF Tuple(b).car \in DOMAIN accts THEN accts[Tuple(b).car] ELSE NullRow
  <2>1. row.toll \in Int
    BY <1>0 DEF TollsTyped, RowsTyped, Row, NullRow, Null
  <2>p. /\ Tuple(b).car \in Int /\ Tuple(b).time \in Int
        /\ <<Tuple(b).exp, Tuple(b).x \div 5280, Tuple(b).dir>> \in Positions
    BY <1>1, <1>3 DEF ReadPos, Doing, HasPlace, Positions
  <2>2. \E t : relOut' = [relOut EXCEPT ![b] = Append(@, t)] /\ TypedOut("readPos", t)
    <3> DEFINE t   == Tuple(b)
               pos == <<t.exp, t.x \div 5280, t.dir>>
               out == [car |-> t.car, time |-> t.time, lpos |-> row.pos, llane |-> row.lane, ltoll |-> row.toll,
                       acc |-> row.acc, pos |-> pos, lane |-> t.lane, status |-> Status(row, pos, t.lane)]
    <3>1. relOut' = [relOut EXCEPT ![b] = Append(@, out)]
      BY <1>3 DEF ReadPos, Announce
    <3>2. /\ out.ltoll = row.toll /\ out.car = t.car /\ out.time = t.time
          /\ out.pos = <<t.exp, t.x \div 5280, t.dir>>
      OBVIOUS
    <3>3. TypedOut("readPos", out)
      BY <2>1, <2>p, <3>2 DEF TypedOut
    <3> HIDE DEF out
    <3>q. QED
      BY <3>1, <3>3
  <2>3. Kind(b) = "readPos" /\ UNCHANGED stats
    BY <1>3 DEF ReadPos, Doing, relTables
  <2> HIDE DEF row
  <2>q. QED
    BY <1>0, <2>1, <2>2, <2>3 DEF OutKept, TollsTyped, RowsTyped
<1>4. CASE CalcToll(b)
  <2>1. /\ Tuple(b).ltoll \in Int /\ Tuple(b).car \in Int /\ Tuple(b).time \in Int
        /\ Tuple(b).pos \in Positions
        /\ UNCHANGED stats
    BY <1>1, <1>4 DEF CalcToll, Doing, HasToll, HasPlace, relTables
  <2>2. \A k \in DOMAIN stats : stats[k] \in Int
    BY <1>0 DEF TollsTyped, RowsTyped
  <2>3. \E t : relOut' = [relOut EXCEPT ![b] = Append(@, t)] /\ TypedOut("calcToll", t)
    <3> DEFINE t         == Tuple(b)
               out(toll) == [car |-> t.car, time |-> t.time, lpos |-> t.lpos, ltoll |-> t.ltoll, pos |-> t.pos,
                             lane |-> t.lane, toll |-> toll]
    <3>1. PICK toll \in {0} \cup {stats[k] : k \in DOMAIN stats} :
            relOut' = [relOut EXCEPT ![b] = Append(@, out(toll))]
      BY <1>4 DEF CalcToll, Announce
    <3>2. /\ out(toll).ltoll = t.ltoll /\ out(toll).car = t.car /\ out(toll).time = t.time
          /\ out(toll).pos = t.pos /\ out(toll).toll = toll /\ toll \in Int
      BY <2>2
    <3>3. TypedOut("calcToll", out(toll))
      BY <2>1, <3>2 DEF TypedOut
    <3> HIDE DEF out
    <3>q. QED
      BY <3>1, <3>3
  <2>4. Kind(b) = "calcToll"
    BY <1>4 DEF CalcToll, Doing
  <2>q. QED
    BY <2>1, <2>2, <2>3, <2>4 DEF OutKept
<1>5. CASE SegStat(b) \/ CheckRelation(b) \/ GetRelation(b)
  <2>1. Kind(b) \notin {"readPos", "calcToll"} /\ UNCHANGED stats
    BY <1>5 DEF SegStat, CheckRelation, GetRelation, Doing, relTables
  <2>2. UNCHANGED relOut \/ \E t : relOut' = [relOut EXCEPT ![b] = Append(@, t)]
    BY <1>5 DEF SegStat, CheckRelation, GetRelation, Announce
  <2>q. QED
    BY <1>0, <2>1, <2>2 DEF OutKept, TypedOut, TollsTyped, RowsTyped
<1>q. QED
  BY <1>2, <1>3, <1>4, <1>5

\* Tuples announced, rows of other tables put, and the tuple done with.
LEMMA FinishKeeps ==
  ASSUME RelInv, NEW b \in RelBoxes,
         \/ PutStats(b) \/ ReadPos(b) \/ CalcToll(b) \/ SegStat(b)
         \/ CheckRelation(b) \/ GetRelation(b)
  PROVE  RelInv'
<1>0. WorkTyped /\ TollsTyped /\ Fits(work[b])
  BY DEF RelInv, WorkTyped
<1>1. relBoxes' = relBoxes /\ UNCHANGED <<accts, daily, relHistory>>
  BY DEF PutStats, ReadPos, CalcToll, SegStat, CheckRelation, GetRelation, relTables
<1>2. \E w : Fits(w) /\ Finish(b, w)
  <2>1. CASE PutStats(b) \/ ReadPos(b) \/ CalcToll(b) \/ SegStat(b) \/ CheckRelation(b)
    BY <1>0, <2>1 DEF PutStats, ReadPos, CalcToll, SegStat, CheckRelation
  <2>2. CASE GetRelation(b)
    <3>1. Fits([work[b] EXCEPT !.written = @ + 1])
      BY <1>0 DEF Fits, Fields
    <3>2. Finish(b, work[b]) \/ Finish(b, [work[b] EXCEPT !.written = @ + 1])
      BY <2>2 DEF GetRelation
    <3> HIDE DEF Finish
    <3>q. QED
      BY <1>0, <3>1, <3>2
  <2>q. QED
    BY <2>1, <2>2
<1>3. Alone(b) /\ work'[b].at = "start"
  BY <1>0, <1>2, FinishAlone DEF Finish
<1>4. OutKept(b) /\ \A k \in DOMAIN stats' : stats'[k] \in Int
  BY FinishOut
<1>5. HandCurrent(b)' /\ (work'[b].at = "mark" => Row(work'[b].seen))
  BY <1>3, EmptyHand
<1>q. QED
  BY <1>1, <1>3, <1>4, <1>5, ElsewhereKeeps

\* A walk begins, goes on or ends; rows of other tables are put.
LEMMA WalkKeeps ==
  ASSUME RelInv, NEW b \in RelBoxes,
         \/ BeginAlert(b) \/ PutAccident(b) \/ ReadDaily(b) \/ PutRelation(b)
         \/ Seek(b) \/ NextCar(b)
  PROVE  RelInv'
<1>0. WorkTyped /\ TollsTyped /\ Fits(work[b])
  BY DEF RelInv, WorkTyped
<1>1. /\ relBoxes' = relBoxes /\ UNCHANGED <<accts, daily, stats, relOut, relHistory>>
      /\ OutKept(b) /\ \A k \in DOMAIN stats' : stats'[k] \in Int
  <2>1. relBoxes' = relBoxes /\ UNCHANGED <<accts, daily, stats, relOut, relHistory>>
    BY DEF BeginAlert, PutAccident, ReadDaily, PutRelation, Seek, NextCar, relTables, relHistory
  <2>q. QED
    BY <1>0, <2>1 DEF OutKept, TollsTyped, RowsTyped
<1>2. CASE BeginAlert(b) \/ PutAccident(b) \/ ReadDaily(b) \/ PutRelation(b)
  <2>1. \E w : Fits(w) /\ Goes(b, w) /\ w.at \notin {"put", "mark"}
    <3>1. CASE BeginAlert(b)
      <4> DEFINE w == [work[b] EXCEPT !.at = "seek", !.seg = FirstOfSegments(Tuple(b).pos)]
      <4>1. Fits(w) /\ w.at = "seek"
        BY <1>0 DEF Fits, Fields
      <4>2. Goes(b, w)
        BY <3>1 DEF BeginAlert
      <4> HIDE DEF w
      <4>q. QED
        BY <4>1, <4>2
    <3>2. CASE PutAccident(b)
      <4> DEFINE v == [work[b] EXCEPT !.at = "abort"]
                 w == [work[b] EXCEPT !.at = "seek", !.seg = FirstOfSegments(Tuple(b).pos),
                                      !.standing = Approaching(Tuple(b).pos)]
      <4>1. Fits(w) /\ w.at = "seek" /\ Fits(v) /\ v.at = "abort"
        BY <1>0 DEF Fits, Fields
      <4>2. Goes(b, w) \/ Goes(b, v)
        BY <3>2 DEF PutAccident
      <4> HIDE DEF v, w
      <4>q. QED
        BY <4>1, <4>2
    <3>3. CASE ReadDaily(b)
      <4> DEFINE w == [work[b] EXCEPT !.at = "range"]
      <4>1. Fits(w) /\ w.at = "range"
        BY <1>0 DEF Fits, Fields
      <4>2. Goes(b, w)
        BY <3>3 DEF ReadDaily
      <4> HIDE DEF w
      <4>q. QED
        BY <4>1, <4>2
    <3>4. CASE PutRelation(b)
      <4> DEFINE w == [work[b] EXCEPT !.at = "check"]
      <4>1. Fits(w) /\ w.at = "check"
        BY <1>0 DEF Fits, Fields
      <4>2. Goes(b, w)
        BY <3>4 DEF PutRelation
      <4> HIDE DEF w
      <4>q. QED
        BY <4>1, <4>2
    <3>q. QED
      BY <1>2, <3>1, <3>2, <3>3, <3>4
  <2>2. Alone(b) /\ work'[b].at \notin {"put", "mark"}
    BY <1>0, <2>1, GoesAlone
  <2>q. QED
    BY <1>1, <2>2, EmptyHand, ElsewhereKeeps
<1>3. CASE Seek(b) \/ NextCar(b)
  <2>1. \E cars : cars \subseteq DOMAIN accts /\ NextOf(b, cars)
    BY <1>3 DEF Seek, NextCar, CarsAt
  <2>2. /\ Alone(b)
        /\ work'[b].at # "put"
        /\ work'[b].at = "mark" =>
             work'[b].car \in DOMAIN accts /\ work'[b].seen = accts[work'[b].car]
    BY <1>0, <2>1, WalkSteps
  <2>3. HandCurrent(b)'
    BY <1>1, <2>2 DEF HandCurrent
  <2>4. work'[b].at = "mark" => Row(work'[b].seen)
    BY <1>0, <2>2 DEF TollsTyped, RowsTyped
  <2>q. QED
    BY <1>1, <2>2, <2>3, <2>4, ElsewhereKeeps
<1>q. QED
  BY <1>2, <1>3

\* A balance is read, to be put back.
LEMMA GetKeeps ==
  ASSUME RelInv, NEW b \in RelBoxes, GetAccount(b) \/ GetDaily(b)
  PROVE  RelInv'
<1>0. WorkTyped /\ TollsTyped /\ Fits(work[b])
  BY DEF RelInv, WorkTyped
<1>1. /\ relBoxes' = relBoxes /\ UNCHANGED <<accts, daily, stats, relOut, relHistory>>
      /\ OutKept(b) /\ \A k \in DOMAIN stats' : stats'[k] \in Int
      /\ work[b].done < Len(Source(b))
  <2>1. /\ relBoxes' = relBoxes /\ UNCHANGED <<accts, daily, stats, relOut, relHistory>>
        /\ work[b].done < Len(Source(b))
    BY DEF GetAccount, GetDaily, relTables, relHistory, Doing
  <2>q. QED
    BY <1>0, <2>1 DEF OutKept, TollsTyped, RowsTyped
<1> DEFINE seen == IF Kind(b) = "updateAccts" THEN AccountNow(Tuple(b).car)
                                              ELSE BalanceNow(DailyKey(Tuple(b)))
           w == [work[b] EXCEPT !.at = "put", !.seen = seen]
<1>2. Goes(b, w) /\ Kind(b) \in {"updateAccts", "updateDaily"}
  BY DEF GetAccount, GetDaily, AccountNow, BalanceNow, Doing
<1>3. Fits(w) /\ w.at = "put" /\ w.seen = seen /\ w.done = work[b].done
  BY <1>0 DEF Fits, Fields
<1>s. seen = IF Kind(b) = "updateAccts" THEN AccountNow(Tuple(b).car)
                                        ELSE BalanceNow(DailyKey(Tuple(b)))
  OBVIOUS
<1> HIDE DEF w, seen
<1>4. Alone(b) /\ work'[b].at = "put" /\ work'[b].seen = seen /\ work'[b].done = work[b].done
  BY <1>0, <1>2, <1>3, GoesAlone
<1>5. Tuple(b)' = Tuple(b) /\ work'[b].done < Len(Source(b)')
  BY <1>0, <1>1, <1>4, TupleStays
<1>6. /\ Kind(b)' = Kind(b) /\ DailyKey(Tuple(b))' = DailyKey(Tuple(b))
      /\ AccountNow(Tuple(b).car)' = AccountNow(Tuple(b).car)
      /\ BalanceNow(DailyKey(Tuple(b)))' = BalanceNow(DailyKey(Tuple(b)))
  BY <1>1, <1>5 DEF Kind, DailyKey, AccountNow, BalanceNow
<1>7. HandCurrent(b)'
  BY <1>s, <1>4, <1>5, <1>6 DEF HandCurrent
<1>q. QED
  BY <1>1, <1>4, <1>7, ElsewhereKeeps

\* The account is put back with the toll paid.
LEMMA PutAccountKeeps ==
  ASSUME RelInv, NEW b \in RelBoxes, PutAccount(b)
  PROVE  RelInv'
<1>0. WorkTyped /\ TollsTyped /\ Fits(work[b]) /\ KeysCharged /\ LedgerBalanced /\ HandCurrent(b)
  BY DEF RelInv, WorkTyped
<1> DEFINE t   == Tuple(b)
           car == t.car
           key == <<car>>
           row == NewAccount(t, work[b].seen)
           old == IF key \in DOMAIN charged THEN charged[key] ELSE 0
<1>1. /\ relBoxes' = relBoxes /\ UNCHANGED <<daily, stats, relOut>> /\ OutKept(b)
      /\ Kind(b) = "updateAccts" /\ work[b].at = "put" /\ work[b].done < Len(Source(b))
      /\ accts' = Put(accts, car, row)
      /\ charged' = Put(charged, key, t.ltoll + old)
      /\ \E f \in Finished(work[b]) : Puts(b, key, f, {car})
  BY DEF PutAccount, Doing, Charge, OutKept
<1>2. t.ltoll \in Int /\ t.toll \in Int
  BY <1>0, <1>1, TupleTolls DEF HasToll
<1>3. /\ Row(row) /\ row.bal = work[b].seen - t.ltoll
      /\ old \in Int
  BY <1>0, <1>2 DEF NewAccount, Row, TollsTyped, RowsTyped
<1>4. key \notin raced => work[b].seen = AccountNow(car)
  BY <1>0, <1>1 DEF HandCurrent
<1>5. Alone(b) /\ work'[b].at = "start"
  <2> PICK f \in Finished(work[b]) : Puts(b, key, f, {car})
    BY <1>1
  <2>1. Fits(f) /\ f.at = "start"
    BY <1>0, FinishedStarts DEF Fits
  <2>q. QED
    BY <1>0, <2>1, PutsAlone
<1>6. raced \subseteq raced' /\ \A o \in RelBoxes \ {b} : key \in InHand(o) => key \in raced'
  BY <1>1 DEF Puts
<1> HIDE DEF t, car, row, old
<1>7. /\ DOMAIN accts' = DOMAIN accts \cup {car} /\ accts'[car] = row
      /\ \A c \in DOMAIN accts \ {car} : accts'[c] = accts[c]
      /\ DOMAIN charged' = DOMAIN charged \cup {key} /\ charged'[key] = t.ltoll + old
      /\ \A k \in DOMAIN charged \ {key} : charged'[k] = charged[k]
  BY <1>1 DEF Put
<1>8. RowsTyped'
  BY <1>0, <1>1, <1>2, <1>3, <1>7 DEF TollsTyped, RowsTyped, Row
<1>9. KeysCharged'
  BY <1>0, <1>1, <1>7 DEF KeysCharged
<1>10. LedgerBalanced'
  <2>1. ASSUME NEW c \in DOMAIN accts', <<c>> \notin raced'
        PROVE  accts'[c].bal = -charged'[<<c>>]
    <3>1. CASE c = car
      <4>1. work[b].seen = -old
        <5>1. key \in DOMAIN charged <=> car \in DOMAIN accts
          BY <1>0 DEF KeysCharged
        <5>2. key \notin raced
          BY <1>6, <2>1, <3>1
        <5>3. CASE car \in DOMAIN accts
          BY <1>0, <1>4, <5>1, <5>2, <5>3 DEF AccountNow, LedgerBalanced, old
        <5>4. CASE car \notin DOMAIN accts
          BY <1>4, <5>1, <5>2, <5>4 DEF AccountNow, old
        <5>q. QED
          BY <5>3, <5>4
      <4>q. QED
        BY <1>2, <1>3, <1>7, <3>1, <4>1
    <3>2. CASE c # car
      <4>1. c \in DOMAIN accts /\ <<c>> \in DOMAIN charged /\ <<c>> # key /\ <<c>> \notin raced
        BY <1>0, <1>6, <1>7, <2>1, <3>2 DEF KeysCharged
      <4>q. QED
        BY <1>0, <1>7, <3>2, <4>1 DEF LedgerBalanced
    <3>q. QED
      BY <3>1, <3>2
  <2>2. ASSUME NEW k \in DOMAIN daily', k \notin raced'
        PROVE  daily'[k] = -charged'[k]
    <3>1. k \in DOMAIN daily /\ k \in DOMAIN charged /\ k # key /\ k \notin raced
      BY <1>0, <1>1, <1>6, <2>2 DEF KeysCharged
    <3>q. QED
      BY <1>0, <1>1, <1>7, <3>1 DEF LedgerBalanced
  <2>q. QED
    BY <2>1, <2>2 DEF LedgerBalanced
<1> DEFINE K == {key}
<1>11. /\ \A o \in RelBoxes \ {b} : InHand(o) \cap K \subseteq raced'
       /\ DOMAIN accts \subseteq DOMAIN accts'
       /\ \A c : <<c>> \notin K => AccountNow(c)' = AccountNow(c)
       /\ \A k : k \notin K => BalanceNow(k)' = BalanceNow(k)
  BY <1>1, <1>6, <1>7 DEF AccountNow, BalanceNow
<1>12. HandCurrent(b)' /\ (work'[b].at = "mark" => Row(work'[b].seen))
  BY <1>5, EmptyHand
<1> HIDE DEF K
<1>q. QED
  BY <1>1, <1>5, <1>6, <1>8, <1>9, <1>10, <1>11, <1>12, InvKept

\* So is the balance of a day.
LEMMA PutDailyKeeps ==
  ASSUME RelInv, NEW b \in RelBoxes, PutDaily(b)
  PROVE  RelInv'
<1>0. WorkTyped /\ TollsTyped /\ Fits(work[b]) /\ KeysCharged /\ LedgerBalanced /\ HandCurrent(b)
  BY DEF RelInv, WorkTyped
<1> DEFINE t   == Tuple(b)
           key == DailyKey(t)
           bal == work[b].seen - t.ltoll
           old == IF key \in DOMAIN charged THEN charged[key] ELSE 0
<1>1. /\ relBoxes' = relBoxes /\ UNCHANGED <<accts, stats, relOut>> /\ OutKept(b)
      /\ Kind(b) = "updateDaily" /\ work[b].at = "put" /\ work[b].done < Len(Source(b))
      /\ daily' = Put(daily, key, bal)
      /\ charged' = Put(charged, key, t.ltoll + old)
      /\ \E f \in Finished(work[b]) : Puts(b, key, f, {})
  BY DEF PutDaily, Doing, Charge, OutKept
<1>2. t.ltoll \in Int
  BY <1>0, <1>1, TupleTolls DEF HasToll
<1>3. old \in Int
  BY <1>0 DEF TollsTyped, RowsTyped
<1>4. key \notin raced => work[b].seen = BalanceNow(key)
  BY <1>0, <1>1 DEF HandCurrent
<1>5. Alone(b) /\ work'[b].at = "start"
  <2> PICK f \in Finished(work[b]) : Puts(b, key, f, {})
    BY <1>1
  <2>1. Fits(f) /\ f.at = "start"
    BY <1>0, FinishedStarts DEF Fits
  <2>q. QED
    BY <1>0, <2>1, PutsAlone
<1>6. raced \subseteq raced' /\ \A o \in RelBoxes \ {b} : key \in InHand(o) => key \in raced'
  BY <1>1 DEF Puts
<1>k. key = <<key[1], key[2], key[3]>> /\ \A c : key # <<c>>
  BY DEF DailyKey
<1> HIDE DEF t, key, old
<1>7. /\ DOMAIN daily' = DOMAIN daily \cup {key} /\ daily'[key] = work[b].seen - t.ltoll
      /\ \A k \in DOMAIN daily \ {key} : daily'[k] = daily[k]
      /\ DOMAIN charged' = DOMAIN charged \cup {key} /\ charged'[key] = t.ltoll + old
      /\ \A k \in DOMAIN charged \ {key} : charged'[k] = charged[k]
  BY <1>1 DEF Put
<1> HIDE DEF bal
<1>8. RowsTyped'
  BY <1>0, <1>1, <1>2, <1>3, <1>7 DEF TollsTyped, RowsTyped, Row
<1>9. KeysCharged'
  BY <1>0, <1>1, <1>k, <1>7 DEF KeysCharged
<1>10. LedgerBalanced'
  <2>1. ASSUME NEW c \in DOMAIN accts', <<c>> \notin raced'
        PROVE  accts'[c].bal = -charged'[<<c>>]
    <3>1. c \in DOMAIN accts /\ <<c>> \in DOMAIN charged /\ <<c>> # key /\ <<c>> \notin raced
      BY <1>0, <1>1, <1>k, <1>6, <2>1 DEF KeysCharged
    <3>q. QED
      BY <1>0, <1>1, <1>7, <3>1 DEF LedgerBalanced
  <2>2. ASSUME NEW k \in DOMAIN daily', k \notin raced'
        PROVE  daily'[k] = -charged'[k]
    <3>1. CASE k = key
      <4>1. work[b].seen = -old
        <5>1. key \in DOMAIN charged <=> key \in DOMAIN daily
          BY <1>0, <1>k DEF KeysCharged
        <5>2. key \notin raced
          BY <1>6, <2>2, <3>1
        <5>3. CASE key \in DOMAIN daily
          BY <1>0, <1>4, <5>1, <5>2, <5>3 DEF BalanceNow, LedgerBalanced, old
        <5>4. CASE key \notin DOMAIN daily
          BY <1>4, <5>1, <5>2, <5>4 DEF BalanceNow, old
        <5>q. QED
          BY <5>3, <5>4
      <4>q. QED
        BY <1>2, <1>3, <1>7, <3>1, <4>1
    <3>2. CASE k # key
      <4>1. k \in DOMAIN daily /\ k \in DOMAIN charged /\ k \notin raced
        BY <1>0, <1>6, <1>7, <2>2, <3>2 DEF KeysCharged
      <4>q. QED
        BY <1>0, <1>7, <3>2, <4>1 DEF LedgerBalanced
    <3>q. QED
      BY <3>1, <3>2
  <2>q. QED
    BY <2>1, <2>2 DEF LedgerBalanced
<1> DEFINE K == {key}
<1>11. /\ \A o \in RelBoxes \ {b} : InHand(o) \cap K \subseteq raced'
       /\ DOMAIN accts \subseteq DOMAIN accts'
       /\ \A c : <<c>> \notin K => AccountNow(c)' = AccountNow(c)
       /\ \A k : k \notin K => BalanceNow(k)' = BalanceNow(k)
  BY <1>1, <1>6, <1>7 DEF AccountNow, BalanceNow
<1>12. HandCurrent(b)' /\ (work'[b].at = "mark" => Row(work'[b].seen))
  BY <1>5, EmptyHand
<1> HIDE DEF K
<1>q. QED
  BY <1>1, <1>5, <1>6, <1>8, <1>9, <1>10, <1>11, <1>12, InvKept

\* A marked row keeps the balance it was read with.
LEMMA MarkKeeps ==
  ASSUME RelInv, NEW b \in RelBoxes, Mark(b)
  PROVE  RelInv'
<1>0. WorkTyped /\ TollsTyped /\ Fits(work[b]) /\ KeysCharged /\ LedgerBalanced /\ HandCurrent(b)
  BY DEF RelInv, WorkTyped
<1> DEFINE car == work[b].car
           key == <<car>>
           row == [work[b].seen EXCEPT !.toll = 1]
           w   == [work[b] EXCEPT !.at = "next", !.marked = @ \cup {car}]
<1>1. /\ relBoxes' = relBoxes /\ UNCHANGED <<daily, stats, relOut, charged>> /\ OutKept(b)
      /\ work[b].at = "mark"
      /\ accts' = Put(accts, car, row)
      /\ Puts(b, key, w, {car})
  BY DEF Mark, Doing, OutKept
<1>2. Row(work[b].seen) /\ car \in DOMAIN accts
  BY <1>0, <1>1 DEF TollsTyped, HandCurrent
<1>3. Row(row) /\ row.bal = work[b].seen.bal
  BY <1>2 DEF Row
<1>4. key \notin raced => work[b].seen.bal = accts[car].bal
  BY <1>0, <1>1 DEF HandCurrent
<1>5. Fits(w) /\ w.at = "next"
  BY <1>0 DEF Fits, Fields
<1>6. raced \subseteq raced' /\ \A o \in RelBoxes \ {b} : key \in InHand(o) => key \in raced'
  BY <1>1 DEF Puts
<1> HIDE DEF car, row, w
<1>a. Alone(b) /\ work'[b].at = "next"
  BY <1>0, <1>1, <1>5, PutsAlone
<1>7. /\ DOMAIN accts' = DOMAIN accts /\ accts'[car] = row
      /\ \A c \in DOMAIN accts \ {car} : accts'[c] = accts[c]
  BY <1>1, <1>2 DEF Put
<1>8. RowsTyped'
  BY <1>0, <1>1, <1>3, <1>7 DEF TollsTyped, RowsTyped, Row
<1>9. KeysCharged'
  BY <1>0, <1>1, <1>7 DEF KeysCharged
<1>10. LedgerBalanced'
  BY <1>0, <1>1, <1>3, <1>4, <1>6, <1>7 DEF LedgerBalanced
<1> DEFINE K == {key}
<1>11. /\ \A o \in RelBoxes \ {b} : InHand(o) \cap K \subseteq raced'
       /\ DOMAIN accts \subseteq DOMAIN accts'
       /\ \A c : <<c>> \notin K => AccountNow(c)' = AccountNow(c)
       /\ \A k : k \notin K => BalanceNow(k)' = BalanceNow(k)
  BY <1>1, <1>6, <1>7 DEF AccountNow, BalanceNow
<1>12. HandCurrent(b)' /\ (work'[b].at = "mark" => Row(work'[b].seen))
  BY <1>a, EmptyHand
<1> HIDE DEF K
<1>q. QED
  BY <1>1, <1>a, <1>6, <1>8, <1>9, <1>10, <1>11, <1>12, InvKept

\* At first all tables are empty.
LEMMA RelInitial == RelInit => RelInv
<1> SUFFICES ASSUME RelInit PROVE RelInv
  OBVIOUS
<1>1. /\ relBoxes \in RelCases
      /\ work = [b \in RelBoxes |-> Fresh] /\ relOut = [b \in RelBoxes |-> <<>>]
      /\ DOMAIN accts = {} /\ DOMAIN daily = {} /\ DOMAIN stats = {} /\ DOMAIN charged = {}
  BY DEF RelInit
<1>2. Fits(Fresh) /\ Fresh.at = "start" /\ IsList(<<>>)
  BY DEF Fresh, Fits, Fields, IsList
<1>3. WorkTyped
  BY <1>1, <1>2 DEF WorkTyped
<1>4. TollsTyped
  BY <1>1, <1>2 DEF TollsTyped, RowsTyped
<1>5. KeysCharged /\ LedgerBalanced
  BY <1>1 DEF KeysCharged, LedgerBalanced
<1>6. \A b \in RelBoxes : HandCurrent(b)
  BY <1>1, <1>2 DEF HandCurrent
<1>q. QED
  BY <1>3, <1>4, <1>5, <1>6 DEF RelInv

\* The invariant holds in every state.
LEMMA RelInductive == RelSpec => []RelInv
<1>1. ASSUME RelInv, [RelNext]_relVars PROVE RelInv'
  <2>1. CASE UNCHANGED relVars
    <3>1. /\ UNCHANGED <<relBoxes, accts, daily, stats, work, relOut, charged, raced>>
          /\ RelBoxes' = RelBoxes
      BY <2>1 DEF relVars, relTables, relHistory, RelBoxes
    <3>2. WorkTyped' /\ TollsTyped' /\ KeysCharged' /\ LedgerBalanced'
      BY <1>1, <3>1
      DEF RelInv, WorkTyped, TollsTyped, RowsTyped, Row, TypedOut, Kind, KeysCharged, LedgerBalanced
    <3>3. \A b \in RelBoxes : HandCurrent(b)'
      BY <1>1, <3>1 DEF RelInv, HandCurrent, Kind, Source, Tuple, DailyKey, AccountNow, BalanceNow
    <3>q. QED
      BY <3>1, <3>2, <3>3 DEF RelInv
  <2>2. ASSUME NEW b \in RelBoxes, RelStep(b) PROVE RelInv'
    BY <1>1, <2>2, FinishKeeps, WalkKeeps, GetKeeps, PutAccountKeeps, PutDailyKeeps, MarkKeeps
      DEF RelStep
  <2>q. QED
    BY <1>1, <2>1, <2>2 DEF RelNext
<1>q. QED
  BY RelInitial, <1>1, PTL DEF RelSpec

(***************************************************************************)
(* The relation boxes get and put rows without a transaction: for any      *)
(* boxes, tuples and interleaving a balance is what was charged, every     *)
(* charge once, unless another box put to its row between a get and a put. *)
(***************************************************************************)
THEOREM ChargesKept == RelSpec => []LedgerBalanced
<1>1. RelInv => LedgerBalanced
  BY DEF RelInv
<1>q. QED
  BY <1>1, RelInductive, PTL

-----------------------------------------------------------------------------
(* What the boxes read of the tables: the cars on the way to an accident,  *)
(* and the tolls of a place.                                               *)

PlacedRow(r) == {"pos", "toll"} \subseteq DOMAIN r /\ r.pos \in Positions

RowsPlaced ==
  /\ \A car \in DOMAIN accts : car \in Int /\ PlacedRow(accts[car])
  /\ \A k \in DOMAIN stats : k \in Int \X Positions

\* Position p is on one of the segments before an accident at pos.
OnTheWay(p, pos) == p[1] = pos[1] /\ p[3] = pos[3] /\ p[2] \in Segments(pos)

\* The walk w has come past a car at p.
Passed(w, car, p) ==
  \/ p[2] < w.seg
  \/ p[2] = w.seg /\ w.at = "next" /\ car <= w.car
  \/ p[2] = w.seg /\ w.at = "mark" /\ car < w.car

\* A car the walk w for an accident at pos should come to: it is still on the
\* way, and when the walk has passed it, marked.  The row the walk is to put
\* back is that of the table, when its car still stands there.
Awaited(rows, w, pos, c) ==
  /\ c \in DOMAIN rows
  /\ OnTheWay(rows[c].pos, pos)
  /\ Passed(w, c, rows[c].pos) => c \in w.marked /\ rows[c].toll = 1
  /\ w.at = "mark" /\ c = w.car => w.seen = rows[c]

Walking(w) == w.at \in {"seek", "mark", "next"}

\* A walk for an accident at pos is on a segment before it.
OnSegment(w, pos) ==
  /\ w.seg \in Segments(pos)
  /\ w.at # "seek" => w.car \in Int
  /\ w.at = "mark" => PlacedRow(w.seen)

WalkMarks(b) ==
  Kind(b) = "updateAcc" /\ Walking(work[b]) =>
    /\ work[b].done < Len(Source(b))
    /\ OnSegment(work[b], Tuple(b).pos)
    /\ \A c \in work[b].standing : Awaited(accts, work[b], Tuple(b).pos, c)

(***************************************************************************)
(* The inductive invariant: what a walk for an accident has passed and     *)
(* still stands there is marked.                                           *)
(***************************************************************************)
WalkInv ==
  /\ RelInv
  /\ RowsPlaced
  /\ \A b \in RelBoxes : WalkMarks(b)

-----------------------------------------------------------------------------
(* The segments before an accident. *)

\* They are a range that begins with its first, and a walk ends at its last.
LEMMA SegmentsAre ==
  ASSUME NEW pos \in Positions
  PROVE  /\ Segments(pos) \subseteq Nat
         /\ FirstOfSegments(pos) \in Segments(pos)
         /\ \A s \in Segments(pos) : FirstOfSegments(pos) <= s
         /\ \A s \in Segments(pos) : s + 1 \notin Segments(pos) => \A r \in Segments(pos) : r <= s
<1> DEFINE lo == IF pos[3] = 0 THEN IF pos[2] < 4 THEN 0 ELSE pos[2] - 4 ELSE pos[2]
           hi == IF pos[3] = 0 THEN pos[2] ELSE pos[2] + 4
<1>1. lo \in Nat /\ hi \in Nat /\ lo <= hi /\ Segments(pos) = lo..hi
  BY DEF Positions, Segments
<1> HIDE DEF lo, hi
<1>2. lo \in Segments(pos) /\ \A r \in Segments(pos) : lo <= r
  BY <1>1
<1>3. /\ FirstOfSegments(pos) \in Segments(pos)
      /\ \A s \in Segments(pos) : FirstOfSegments(pos) <= s
  BY <1>2 DEF FirstOfSegments
<1>q. QED
  BY <1>1, <1>3

\* A walk looks at every place that is on its way.
LEMMA SegmentIs ==
  ASSUME NEW pos \in Positions, NEW p \in Positions, OnTheWay(p, pos)
  PROVE  p = [pos EXCEPT ![2] = p[2]]
BY DEF Positions, OnTheWay

\* Who approaches an accident is on the way to it.
LEMMA ApproachingOnTheWay ==
  ASSUME NEW pos \in Positions, RowsPlaced, NEW c \in Approaching(pos)
  PROVE  c \in DOMAIN accts /\ OnTheWay(accts[c].pos, pos)
<1>1. c \in DOMAIN accts /\ accts[c].pos \in Positions
  BY DEF Approaching, RowsPlaced, PlacedRow
<1>2. /\ accts[c].pos[1] = pos[1] /\ accts[c].pos[3] = pos[3]
      /\ pos[3] = 0 => pos[2] - accts[c].pos[2] \in 0..4
      /\ pos[3] # 0 => accts[c].pos[2] - pos[2] \in 0..4
  BY DEF Approaching
<1> DEFINE s == accts[c].pos[2]
<1>3. s \in Nat /\ pos[2] \in Nat
  BY <1>1 DEF Positions
<1>4. s \in Segments(pos)
  BY <1>2, <1>3 DEF Segments
<1>q. QED
  BY <1>1, <1>2, <1>4 DEF OnTheWay

-----------------------------------------------------------------------------
(* How a step moves the boxes. *)

\* The other boxes stay where they are, but cars that moved may no longer
\* stand where they are expected.
Others(b, moved) ==
  \A o \in RelBoxes \ {b} :
    /\ \A f \in Fields \ {"standing"} : work'[o][f] = work[o][f]
    /\ work'[o].standing = work[o].standing \ moved

\* The rows of the cars that did not move are as they were.
RowsStay(moved) ==
  \A c \in DOMAIN accts \ moved : c \in DOMAIN accts' /\ accts'[c] = accts[c]

\* A step of b keeps the invariant of the others, by what they lose of the
\* cars that stand.
LEMMA OthersWalk ==
  ASSUME WalkInv, NEW b \in RelBoxes, relBoxes' = relBoxes, OutKept(b),
         NEW moved, Others(b, moved), RowsStay(moved), NEW o \in RelBoxes \ {b}
  PROVE  WalkMarks(o)'
<1>1. WorkTyped /\ TollsTyped /\ WalkMarks(o)
  BY DEF WalkInv, RelInv
<1>2. /\ work'[o].done = work[o].done /\ work'[o].at = work[o].at
      /\ work'[o].car = work[o].car /\ work'[o].seen = work[o].seen
      /\ work'[o].seg = work[o].seg /\ work'[o].marked = work[o].marked
      /\ work'[o].standing = work[o].standing \ moved
  BY DEF Others, Fields
<1>3. Kind(o)' = Kind(o)
  BY DEF Kind
<1>4. CASE Kind(o) = "updateAcc" /\ Walking(work[o])
  <2>1. /\ work[o].done < Len(Source(o))
        /\ OnSegment(work[o], Tuple(o).pos)
        /\ \A c \in work[o].standing : Awaited(accts, work[o], Tuple(o).pos, c)
    BY <1>1, <1>4 DEF WalkMarks
  <2>2. Tuple(o)' = Tuple(o) /\ work'[o].done < Len(Source(o)')
    BY <1>1, <1>2, <2>1, TupleStays
  <2>3. OnSegment(work[o], Tuple(o).pos)'
    BY <1>2, <2>1, <2>2 DEF OnSegment, PlacedRow
  <2>4. ASSUME NEW c \in work'[o].standing
        PROVE  Awaited(accts, work[o], Tuple(o).pos, c)'
    <3>1. Awaited(accts, work[o], Tuple(o).pos, c) /\ c \notin moved
      BY <1>2, <2>1
    <3>2. c \in DOMAIN accts /\ c \in DOMAIN accts' /\ accts'[c] = accts[c]
      BY <3>1 DEF Awaited, RowsStay
    <3>q. QED
      BY <1>2, <2>2, <3>1, <3>2 DEF Awaited, Passed
  <2>q. QED
    BY <2>2, <2>3, <2>4 DEF WalkMarks
<1>5. CASE ~(Kind(o) = "updateAcc" /\ Walking(work[o]))
  BY <1>2, <1>3, <1>5 DEF WalkMarks, Walking
<1>q. QED
  BY <1>4, <1>5

\* A step of a box moves no other box.
LEMMA GoesOthers ==
  ASSUME WorkTyped, NEW b \in RelBoxes, NEW w, Goes(b, w)
  PROVE  work'[b] = w /\ Others(b, {})
BY DEF WorkTyped, Goes, Others, Fields

\* A put takes from the others the cars that moved.
LEMMA PutsOthers ==
  ASSUME WorkTyped, NEW b \in RelBoxes, NEW w, NEW key, NEW moved, Puts(b, key, w, moved)
  PROVE  work'[b] = w /\ Others(b, moved)
<1>1. work' = [o \in RelBoxes |-> IF o = b THEN w ELSE [work[o] EXCEPT !.standing = @ \ moved]]
  BY DEF Puts
<1>2. ASSUME NEW o \in RelBoxes \ {b}
      PROVE  /\ \A f \in Fields \ {"standing"} : work'[o][f] = work[o][f]
             /\ work'[o].standing = work[o].standing \ moved
  <2>1. work'[o] = [work[o] EXCEPT !.standing = @ \ moved]
    BY <1>1
  <2>2. DOMAIN work[o] = Fields /\ "standing" \in Fields
    BY DEF WorkTyped, Fits, Fields
  <2>q. QED
    BY <2>1, <2>2
<1>q. QED
  BY <1>1, <1>2 DEF Others

\* The invariant is kept by a step that keeps it of the rows and of the box.
LEMMA WalkInvKept ==
  ASSUME WalkInv, RelInv', NEW b \in RelBoxes, relBoxes' = relBoxes, OutKept(b),
         NEW moved, Others(b, moved), RowsStay(moved), RowsPlaced', WalkMarks(b)'
  PROVE  WalkInv'
<1>1. \A o \in RelBoxes \ {b} : WalkMarks(o)'
  BY OthersWalk
<1>2. RelBoxes' = RelBoxes
  BY DEF RelBoxes
<1>q. QED
  BY <1>1, <1>2 DEF WalkInv

-----------------------------------------------------------------------------
(* Each step keeps the invariant of the walks. *)

\* What a step of a box announces.
LEMMA StepOut ==
  ASSUME RelInv, NEW b \in RelBoxes, RelStep(b)
  PROVE  relBoxes' = relBoxes /\ OutKept(b)
<1>1. relBoxes' = relBoxes
  BY DEF RelStep, GetAccount, PutAccount, GetDaily, PutDaily, PutStats, PutAccident, Mark, BeginAlert,
         Seek, NextCar, ReadPos, ReadDaily, CalcToll, SegStat, PutRelation, CheckRelation, GetRelation
<1>2. CASE PutStats(b) \/ ReadPos(b) \/ CalcToll(b) \/ SegStat(b) \/ CheckRelation(b) \/ GetRelation(b)
  BY <1>1, <1>2, FinishOut
<1>3. CASE \/ GetAccount(b) \/ PutAccount(b) \/ GetDaily(b) \/ PutDaily(b) \/ PutAccident(b) \/ Mark(b)
           \/ BeginAlert(b) \/ Seek(b) \/ NextCar(b) \/ ReadDaily(b) \/ PutRelation(b)
  BY <1>1, <1>3 DEF OutKept, GetAccount, PutAccount, GetDaily, PutDaily, PutAccident, Mark, BeginAlert,
         Seek, NextCar, ReadDaily, PutRelation
<1>q. QED
  BY <1>1, <1>2, <1>3 DEF RelStep

\* The walk goes on by a step of its box only.
LEMMA NextOfGoes ==
  ASSUME NEW b, NEW cars, NextOf(b, cars)
  PROVE  \E w : Goes(b, w)
<1>1. CASE \E car \in cars : Comes(b, car)
  BY <1>1 DEF Comes
<1>2. CASE PastSegment(b)
  BY <1>2 DEF PastSegment, Finish
<1>q. QED
  BY <1>1, <1>2 DEF NextOf

\* A step of another kind of box, that puts to no account.
LEMMA OtherKindWalks ==
  ASSUME WalkInv, RelInv', NEW b \in RelBoxes, Kind(b) # "updateAcc",
         \/ GetAccount(b) \/ GetDaily(b) \/ PutDaily(b) \/ PutStats(b) \/ BeginAlert(b)
         \/ Seek(b) \/ NextCar(b) \/ ReadPos(b) \/ ReadDaily(b) \/ CalcToll(b) \/ SegStat(b)
         \/ PutRelation(b) \/ CheckRelation(b) \/ GetRelation(b)
  PROVE  WalkInv'
<1>1. relBoxes' = relBoxes /\ OutKept(b) /\ WorkTyped /\ TollsTyped /\ RowsPlaced
  BY StepOut DEF RelStep, WalkInv, RelInv
<1>2. accts' = accts
  BY DEF GetAccount, GetDaily, PutDaily, PutStats, BeginAlert, Seek, NextCar, ReadPos, ReadDaily, CalcToll,
         SegStat, PutRelation, CheckRelation, GetRelation, relTables
<1>3. Others(b, {})
  <2>1. CASE \E w : Goes(b, w)
    BY <1>1, <2>1, GoesOthers
  <2>2. CASE PutDaily(b)
    <3>1. \E w, key : Puts(b, key, w, {})
      BY <2>2 DEF PutDaily
    <3>q. QED
      BY <1>1, <3>1, PutsOthers
  <2>3. CASE Seek(b) \/ NextCar(b)
    <3>1. \E cars : NextOf(b, cars)
      BY <2>3 DEF Seek, NextCar
    <3>q. QED
      BY <2>1, <3>1, NextOfGoes
  <2>4. CASE GetAccount(b) \/ GetDaily(b) \/ BeginAlert(b) \/ ReadDaily(b) \/ PutRelation(b)
    <3>1. \E w : Goes(b, w)
      BY <2>4 DEF GetAccount, GetDaily, BeginAlert, ReadDaily, PutRelation
    <3>q. QED
      BY <2>1, <3>1
  <2>5. CASE PutStats(b) \/ ReadPos(b) \/ CalcToll(b) \/ SegStat(b) \/ CheckRelation(b) \/ GetRelation(b)
    <3>1. \E w : Finish(b, w)
      BY <2>5 DEF PutStats, ReadPos, CalcToll, SegStat, CheckRelation, GetRelation
    <3>q. QED
      BY <2>1, <3>1 DEF Finish
  <2>q. QED
    BY <2>2, <2>3, <2>4, <2>5
<1>4. RowsPlaced'
  <2>1. ASSUME PutStats(b) PROVE \A k \in DOMAIN stats' : k \in Int \X Positions
    <3>1. HasPlace(Kind(b), Tuple(b))
      BY <1>1, <2>1, TupleTolls DEF PutStats, Doing
    <3>2. <<Tuple(b).time, Tuple(b).pos>> \in Int \X Positions
      BY <2>1, <3>1 DEF PutStats, Doing, HasPlace
    <3>q. QED
      BY <1>1, <2>1, <3>2 DEF PutStats, Put, RowsPlaced
  <2>2. PutStats(b) \/ stats' = stats
    BY DEF GetAccount, GetDaily, PutDaily, BeginAlert, Seek, NextCar, ReadPos, ReadDaily, CalcToll,
           SegStat, PutRelation, CheckRelation, GetRelation, relTables
  <2>q. QED
    BY <1>1, <1>2, <2>1, <2>2 DEF RowsPlaced, PlacedRow
<1>5. WalkMarks(b)'
  BY <1>1 DEF WalkMarks, Kind
<1>6. RowsStay({})
  BY <1>2 DEF RowsStay
<1>q. QED
  BY <1>1, <1>3, <1>4, <1>5, <1>6, WalkInvKept

\* An account that is put back stands where the tuple says.
LEMMA PutAccountWalks ==
  ASSUME WalkInv, RelInv', NEW b \in RelBoxes, PutAccount(b)
  PROVE  WalkInv'
<1>1. relBoxes' = relBoxes /\ OutKept(b) /\ WorkTyped /\ TollsTyped /\ RowsPlaced
  BY StepOut DEF RelStep, WalkInv, RelInv
<1> DEFINE t   == Tuple(b)
           row == NewAccount(t, work[b].seen)
<1>2. /\ Kind(b) = "updateAccts" /\ stats' = stats
      /\ accts' = Put(accts, t.car, row)
      /\ \E w : Puts(b, <<t.car>>, w, {t.car})
  BY DEF PutAccount, Doing
<1>3. t.car \in Int /\ t.pos \in Positions
  BY <1>1, <1>2, TupleTolls DEF PutAccount, Doing, HasPlace
<1>4. PlacedRow(row)
  BY <1>3 DEF NewAccount, PlacedRow
<1> HIDE DEF t, row
<1>5. RowsPlaced' /\ RowsStay({t.car})
  BY <1>1, <1>2, <1>3, <1>4 DEF RowsPlaced, RowsStay, Put, PlacedRow
<1>6. Others(b, {t.car})
  BY <1>1, <1>2, PutsOthers
<1>7. WalkMarks(b)'
  BY <1>1, <1>2 DEF WalkMarks, Kind
<1>q. QED
  BY <1>1, <1>5, <1>6, <1>7, WalkInvKept

\* The invariant of a box that walks on.
LEMMA WalksOn ==
  ASSUME NEW b, NEW w, NEW pos, work'[b] = w, Tuple(b)'.pos = pos, w.done < Len(Source(b)'),
         OnSegment(w, pos), \A c \in w.standing : Awaited(accts', w, pos, c)
  PROVE  WalkMarks(b)'
BY DEF WalkMarks

\* A walk for an accident starts on the first segment before it.
LEMMA PutAccidentWalks ==
  ASSUME WalkInv, RelInv', NEW b \in RelBoxes, PutAccident(b)
  PROVE  WalkInv'
<1>1. relBoxes' = relBoxes /\ OutKept(b) /\ WorkTyped /\ TollsTyped /\ RowsPlaced
  BY StepOut DEF RelStep, WalkInv, RelInv
<1>2. /\ Kind(b) = "updateAcc" /\ work[b].done < Len(Source(b))
      /\ accts' = accts /\ stats' = stats
  BY DEF PutAccident, Doing
<1> DEFINE pos == Tuple(b).pos
           v   == [work[b] EXCEPT !.at = "abort"]
           w   == [work[b] EXCEPT !.at = "seek", !.seg = FirstOfSegments(pos), !.standing = Approaching(pos)]
<1>3. pos \in Positions
  BY <1>1, <1>2, TupleTolls DEF HasPlace
<1>4. Goes(b, v) \/ Goes(b, w)
  BY DEF PutAccident
<1>5. Fits(work[b])
  BY <1>1 DEF WorkTyped
<1>6. /\ v.at = "abort"
      /\ w.at = "seek" /\ w.seg = FirstOfSegments(pos) /\ w.standing = Approaching(pos)
      /\ w.done = work[b].done
  BY <1>5 DEF Fits, Fields
<1> HIDE DEF v, w
<1>7. Others(b, {}) /\ (work'[b] = v \/ work'[b] = w)
  BY <1>1, <1>4, GoesOthers
<1>8. RowsPlaced' /\ RowsStay({})
  BY <1>1, <1>2 DEF RowsPlaced, RowsStay, PlacedRow
<1>9. CASE work'[b] = v
  <2>1. WalkMarks(b)'
    BY <1>6, <1>9 DEF WalkMarks, Walking
  <2>q. QED
    BY <1>1, <1>7, <1>8, <2>1, WalkInvKept
<1>10. CASE work'[b] = w
  <2>1. Tuple(b)' = Tuple(b) /\ work'[b].done < Len(Source(b)')
    BY <1>1, <1>2, <1>6, <1>10, TupleStays
  <2>2. OnSegment(w, pos)
    BY <1>3, <1>6, SegmentsAre DEF OnSegment
  <2>3. ASSUME NEW c \in w.standing PROVE Awaited(accts', w, pos, c)
    <3>1. c \in DOMAIN accts /\ OnTheWay(accts[c].pos, pos)
      BY <1>1, <1>3, <1>6, ApproachingOnTheWay
    <3>2. accts[c].pos[2] \in Nat /\ w.seg \in Nat /\ w.seg <= accts[c].pos[2]
      BY <1>3, <1>6, <3>1, SegmentsAre DEF OnTheWay
    <3>3. ~Passed(w, c, accts[c].pos)
      BY <1>6, <3>2 DEF Passed
    <3>q. QED
      BY <1>2, <1>6, <3>1, <3>3 DEF Awaited
  <2>4. Tuple(b)'.pos = pos /\ w.done < Len(Source(b)')
    BY <1>10, <2>1
  <2> HIDE DEF pos
  <2>5. WalkMarks(b)'
    BY <1>10, <2>2, <2>3, <2>4, WalksOn
  <2>q. QED
    BY <1>1, <1>7, <1>8, <2>5, WalkInvKept
<1>q. QED
  BY <1>7, <1>9, <1>10

\* A marked row goes back to where it was read, or its car is not awaited.
LEMMA MarkWalks ==
  ASSUME WalkInv, RelInv', NEW b \in RelBoxes, Mark(b)
  PROVE  WalkInv'
<1>1. /\ relBoxes' = relBoxes /\ OutKept(b) /\ WorkTyped /\ TollsTyped /\ RowsPlaced
      /\ WalkMarks(b) /\ HandCurrent(b) /\ Fits(work[b])
  BY StepOut DEF RelStep, WalkInv, RelInv, WorkTyped
<1> DEFINE pos == Tuple(b).pos
           car == work[b].car
           row == [work[b].seen EXCEPT !.toll = 1]
           w   == [work[b] EXCEPT !.at = "next", !.marked = @ \cup {car}]
<1>2. /\ Kind(b) = "updateAcc" /\ work[b].at = "mark" /\ stats' = stats
      /\ accts' = Put(accts, car, row)
      /\ Puts(b, <<car>>, w, {car})
  BY DEF Mark, Doing
<1>3. /\ work[b].done < Len(Source(b))
      /\ OnSegment(work[b], pos)
      /\ \A c \in work[b].standing : Awaited(accts, work[b], pos, c)
  BY <1>1, <1>2 DEF WalkMarks, Walking
<1>4. car \in DOMAIN accts /\ car \in Int /\ PlacedRow(work[b].seen)
  BY <1>1, <1>2, <1>3 DEF HandCurrent, OnSegment
<1>5. PlacedRow(row) /\ row.pos = work[b].seen.pos /\ row.toll = 1
  BY <1>4 DEF PlacedRow
<1>6. /\ w.at = "next" /\ w.seg = work[b].seg /\ w.car = car /\ w.done = work[b].done
      /\ w.standing = work[b].standing /\ w.marked = work[b].marked \cup {car}
  BY <1>1 DEF Fits, Fields
<1> HIDE DEF pos, car, row, w
<1>7. Others(b, {car}) /\ work'[b] = w
  BY <1>1, <1>2, PutsOthers
<1>8. /\ DOMAIN accts' = DOMAIN accts /\ accts'[car] = row
      /\ \A c \in DOMAIN accts \ {car} : accts'[c] = accts[c]
  BY <1>2, <1>4 DEF Put
<1>9. RowsPlaced' /\ RowsStay({car})
  BY <1>1, <1>2, <1>5, <1>8 DEF RowsPlaced, RowsStay, PlacedRow
<1>10. Tuple(b)' = Tuple(b) /\ work'[b].done < Len(Source(b)')
  BY <1>1, <1>3, <1>6, <1>7, TupleStays
<1>11. OnSegment(w, pos)
  BY <1>3, <1>4, <1>6 DEF OnSegment
<1>12. ASSUME NEW c \in w.standing PROVE Awaited(accts', w, pos, c)
  <2>1. Awaited(accts, work[b], pos, c) /\ c \in Int
    BY <1>1, <1>3, <1>6 DEF Awaited, RowsPlaced
  <2>2. CASE c = car
    <3>1. work[b].seen = accts[car]
      BY <1>2, <2>1, <2>2 DEF Awaited, car
    <3>q. QED
      BY <1>4, <1>5, <1>6, <1>8, <2>1, <2>2, <3>1 DEF Awaited
  <2>3. CASE c # car
    <3>1. accts'[c] = accts[c] /\ c \in DOMAIN accts'
      BY <1>8, <2>1, <2>3 DEF Awaited
    <3>2. Passed(w, c, accts[c].pos) => Passed(work[b], c, accts[c].pos)
      BY <1>2, <1>4, <1>6, <2>1, <2>3 DEF Passed, car
    <3>q. QED
      BY <1>6, <2>1, <3>1, <3>2 DEF Awaited
  <2>q. QED
    BY <2>2, <2>3
<1>13. Tuple(b)'.pos = pos /\ w.done < Len(Source(b)')
  BY <1>7, <1>10 DEF pos
<1>14. WalkMarks(b)'
  BY <1>7, <1>11, <1>12, <1>13, WalksOn
<1>q. QED
  BY <1>1, <1>7, <1>9, <1>14, WalkInvKept

\* A walk comes to the next car of its segment, or goes past the segment when
\* it has passed all who stand there.
LEMMA WalkOn ==
  ASSUME WalkInv, NEW b \in RelBoxes, Kind(b) = "updateAcc", Walking(work[b]),
         relBoxes' = relBoxes, accts' = accts, OutKept(b),
         NEW cars, cars \subseteq DOMAIN accts, NextOf(b, cars),
         \A c \in work[b].standing :
           \/ Passed(work[b], c, accts[c].pos) \/ accts[c].pos[2] # work[b].seg \/ c \in cars
  PROVE  WalkMarks(b)' /\ CarsMarked(b)
<1> DEFINE pos == Tuple(b).pos
<1>1. /\ WorkTyped /\ TollsTyped /\ RowsPlaced /\ Fits(work[b])
      /\ work[b].done < Len(Source(b))
      /\ OnSegment(work[b], pos)
      /\ \A c \in work[b].standing : Awaited(accts, work[b], pos, c)
  BY DEF WalkInv, RelInv, WorkTyped, WalkMarks
<1>2. pos \in Positions
  BY <1>1, TupleTolls DEF HasPlace
<1> HIDE DEF pos
<1>3. ASSUME NEW c \in work[b].standing
      PROVE  /\ c \in Int /\ c \in DOMAIN accts
             /\ accts[c].pos[2] \in Nat /\ accts[c].pos[2] \in Segments(pos)
             /\ Awaited(accts, work[b], pos, c)
  BY <1>1, <1>2, <1>3, SegmentsAre DEF Awaited, RowsPlaced, OnTheWay
<1>4. work[b].seg \in Segments(pos) /\ work[b].seg \in Nat
  BY <1>1, <1>2, SegmentsAre DEF OnSegment
<1>5. ASSUME NEW car \in cars, \A other \in cars : car <= other, Comes(b, car)
      PROVE  WalkMarks(b)' /\ CarsMarked(b)
  <2> DEFINE w == [work[b] EXCEPT !.at = "mark", !.car = car, !.seen = accts[car], !.found = TRUE]
  <2>1. Goes(b, w)
    BY <1>5 DEF Comes
  <2>2. /\ w.at = "mark" /\ w.car = car /\ w.seen = accts[car] /\ w.seg = work[b].seg
        /\ w.done = work[b].done /\ w.standing = work[b].standing /\ w.marked = work[b].marked
    BY <1>1 DEF Fits, Fields
  <2> HIDE DEF w
  <2>3. work'[b] = w
    BY <1>1, <2>1, GoesOthers
  <2>4. car \in Int /\ PlacedRow(accts[car])
    BY <1>1, <1>5 DEF RowsPlaced
  <2>5. OnSegment(w, pos)
    BY <1>4, <2>2, <2>4 DEF OnSegment
  <2>6. ASSUME NEW c \in w.standing PROVE Awaited(accts', w, pos, c)
    <3>1. Awaited(accts, work[b], pos, c) /\ c \in Int
      BY <1>3, <2>2
    <3>2. Passed(w, c, accts[c].pos) => Passed(work[b], c, accts[c].pos)
      <4>1. CASE c \in cars
        <5>1. ~(c < car)
          BY <1>5, <2>4, <3>1, <4>1
        <5>q. QED
          BY <2>2, <5>1 DEF Passed
      <4>2. CASE c \notin cars
        BY <1>4, <2>2, <4>2 DEF Passed
      <4>q. QED
        BY <4>1, <4>2
    <3>q. QED
      BY <2>2, <3>1, <3>2 DEF Awaited
  <2>7. Tuple(b)' = Tuple(b) /\ work'[b].done < Len(Source(b)')
    BY <1>1, <2>2, <2>3, TupleStays
  <2>8. Tuple(b)'.pos = pos /\ w.done < Len(Source(b)')
    BY <2>3, <2>7 DEF pos
  <2>9. WalkMarks(b)'
    BY <2>3, <2>5, <2>6, <2>8, WalksOn
  <2>q. QED
    BY <1>1, <2>2, <2>3, <2>9 DEF CarsMarked, Fits, Done
<1>6. CASE cars = {} /\ PastSegment(b)
  <2>1. ASSUME NEW c \in work[b].standing, accts[c].pos[2] <= work[b].seg
        PROVE  c \in work[b].marked /\ accts[c].toll = 1
    <3>1. Passed(work[b], c, accts[c].pos)
      BY <1>3, <1>4, <1>6, <2>1 DEF Passed
    <3>q. QED
      BY <1>3, <3>1 DEF Awaited
  <2>2. CASE work[b].seg + 1 \in Segments(pos)
    <3> DEFINE w == [work[b] EXCEPT !.at = "seek", !.seg = @ + 1, !.seen = <<>>]
    <3>1. Goes(b, w)
      BY <1>6, <2>2 DEF PastSegment, pos
    <3>2. /\ w.at = "seek" /\ w.seg = work[b].seg + 1
          /\ w.done = work[b].done /\ w.standing = work[b].standing /\ w.marked = work[b].marked
      BY <1>1 DEF Fits, Fields
    <3> HIDE DEF w
    <3>3. work'[b] = w
      BY <1>1, <3>1, GoesOthers
    <3>4. OnSegment(w, pos)
      BY <2>2, <3>2 DEF OnSegment
    <3>5. ASSUME NEW c \in w.standing PROVE Awaited(accts', w, pos, c)
      <4>1. Awaited(accts, work[b], pos, c) /\ accts[c].pos[2] \in Nat
        BY <1>3, <3>2
      <4>2. Passed(w, c, accts[c].pos) => accts[c].pos[2] <= work[b].seg
        BY <1>4, <3>2, <4>1 DEF Passed
      <4>q. QED
        BY <2>1, <3>2, <4>1, <4>2 DEF Awaited
    <3>6. Tuple(b)' = Tuple(b) /\ work'[b].done < Len(Source(b)')
      BY <1>1, <3>2, <3>3, TupleStays
    <3>7. Tuple(b)'.pos = pos /\ w.done < Len(Source(b)')
      BY <3>3, <3>6 DEF pos
    <3>8. WalkMarks(b)'
      BY <3>3, <3>4, <3>5, <3>7, WalksOn
    <3>q. QED
      BY <1>1, <3>2, <3>3, <3>8 DEF CarsMarked, Fits, Done
  <2>3. CASE work[b].seg + 1 \notin Segments(pos)
    <3>1. \A c \in work[b].standing : c \in work[b].marked /\ accts[c].toll = 1
      BY <1>2, <1>3, <1>4, <2>1, <2>3, SegmentsAre
    <3>2. CarsMarked(b)
      BY <3>1 DEF CarsMarked
    <3>3. WalkMarks(b)'
      <4> DEFINE v == [work[b] EXCEPT !.sized = @ \/ (Kind(b) = "accAlert" /\ work[b].found)]
      <4>1. \E f \in Finished(v) : Goes(b, f)
        BY <1>6, <2>3 DEF PastSegment, Finish, pos
      <4>2. v.done \in Nat
        BY <1>1 DEF Fits, Fields
      <4> HIDE DEF v
      <4>3. \E f : f.at = "start" /\ Goes(b, f)
        BY <4>1, <4>2, FinishedStarts
      <4>4. work'[b].at = "start"
        BY <1>1, <4>3, GoesOthers
      <4>q. QED
        BY <4>4 DEF WalkMarks, Walking
    <3>q. QED
      BY <3>2, <3>3
  <2>q. QED
    BY <2>2, <2>3
<1>q. QED
  BY <1>5, <1>6 DEF NextOf

\* A walk looks for the first car of a segment, or for the one after a car.
LEMMA SeekWalks ==
  ASSUME WalkInv, NEW b \in RelBoxes, Kind(b) = "updateAcc", Seek(b) \/ NextCar(b)
  PROVE  /\ WalkMarks(b)' /\ CarsMarked(b)
         /\ Others(b, {}) /\ RowsStay({}) /\ RowsPlaced'
<1> DEFINE pos == Tuple(b).pos
<1>1. relBoxes' = relBoxes /\ OutKept(b)
  BY StepOut DEF RelStep, WalkInv
<1>2. /\ accts' = accts /\ stats' = stats /\ Walking(work[b])
      /\ work[b].done < Len(Source(b))
  BY DEF Seek, NextCar, Walks, Doing, Walking, relTables
<1>3. /\ WorkTyped /\ TollsTyped /\ RowsPlaced
      /\ OnSegment(work[b], pos)
      /\ \A c \in work[b].standing : Awaited(accts, work[b], pos, c)
  BY <1>2 DEF WalkInv, RelInv, WorkTyped, WalkMarks
<1>4. pos \in Positions
  BY <1>2, <1>3, TupleTolls DEF HasPlace
<1>5. ASSUME NEW c \in work[b].standing, accts[c].pos[2] = work[b].seg
      PROVE  c \in CarsAt(SegmentOf(b)) /\ c \in Int
  <2>1. c \in DOMAIN accts /\ c \in Int /\ accts[c].pos \in Positions /\ OnTheWay(accts[c].pos, pos)
    BY <1>3 DEF Awaited, RowsPlaced, PlacedRow
  <2>2. accts[c].pos = [pos EXCEPT ![2] = work[b].seg]
    BY <1>4, <1>5, <2>1, SegmentIs
  <2>q. QED
    BY <2>1, <2>2 DEF CarsAt, SegmentOf
<1>6. \E cars :
        /\ cars \subseteq DOMAIN accts /\ NextOf(b, cars)
        /\ \A c \in work[b].standing :
             \/ Passed(work[b], c, accts[c].pos) \/ accts[c].pos[2] # work[b].seg \/ c \in cars
  <2>1. CASE Seek(b)
    <3> DEFINE cars == CarsAt(SegmentOf(b))
    <3>1. cars \subseteq DOMAIN accts /\ NextOf(b, cars)
      BY <2>1 DEF Seek, CarsAt
    <3>2. \A c \in work[b].standing : accts[c].pos[2] # work[b].seg \/ c \in cars
      BY <1>5
    <3> HIDE DEF cars
    <3>q. QED
      BY <3>1, <3>2
  <2>2. CASE NextCar(b)
    <3> DEFINE cars == {c \in CarsAt(SegmentOf(b)) : c > work[b].car}
    <3>1. cars \subseteq DOMAIN accts /\ NextOf(b, cars)
      BY <2>2 DEF NextCar, CarsAt
    <3>2. work[b].at = "next" /\ work[b].car \in Int
      BY <1>3, <2>2 DEF NextCar, Walks, Doing, OnSegment
    <3>3. \A c \in work[b].standing :
            \/ Passed(work[b], c, accts[c].pos) \/ accts[c].pos[2] # work[b].seg \/ c \in cars
      BY <1>5, <3>2 DEF Passed
    <3> HIDE DEF cars
    <3>q. QED
      BY <3>1, <3>3
  <2>q. QED
    BY <2>1, <2>2
<1>7. WalkMarks(b)' /\ CarsMarked(b)
  BY <1>1, <1>2, <1>6, WalkOn
<1>8. Others(b, {})
  BY <1>3, <1>6, NextOfGoes, GoesOthers
<1>9. RowsStay({}) /\ RowsPlaced'
  BY <1>2, <1>3 DEF RowsStay, RowsPlaced, PlacedRow
<1>q. QED
  BY <1>7, <1>8, <1>9

\* No box has begun to walk.
LEMMA WalkInitial == RelInit => WalkInv
<1> SUFFICES ASSUME RelInit PROVE WalkInv
  OBVIOUS
<1>1. /\ work = [b \in RelBoxes |-> Fresh] /\ Fresh.at = "start"
      /\ DOMAIN accts = {} /\ DOMAIN stats = {}
  BY DEF RelInit, Fresh
<1>2. \A b \in RelBoxes : WalkMarks(b)
  BY <1>1 DEF WalkMarks, Walking
<1>q. QED
  BY <1>1, <1>2, RelInitial DEF WalkInv, RowsPlaced

\* Every step of a box keeps the invariant of the walks.
LEMMA WalkStepKeeps ==
  ASSUME WalkInv, RelInv', NEW b \in RelBoxes, RelStep(b)
  PROVE  WalkInv'
<1>1. CASE Kind(b) = "updateAcc" /\ (Seek(b) \/ NextCar(b))
  <2>1. relBoxes' = relBoxes /\ OutKept(b)
    BY StepOut DEF WalkInv
  <2>q. QED
    BY <1>1, <2>1, SeekWalks, WalkInvKept
<1>2. CASE PutAccount(b) \/ PutAccident(b) \/ Mark(b)
  BY <1>2, PutAccountWalks, PutAccidentWalks, MarkWalks
<1>3. CASE \/ GetAccount(b) \/ GetDaily(b) \/ PutDaily(b) \/ PutStats(b) \/ BeginAlert(b)
           \/ ReadPos(b) \/ ReadDaily(b) \/ CalcToll(b) \/ SegStat(b)
           \/ PutRelation(b) \/ CheckRelation(b) \/ GetRelation(b)
  <2>1. Kind(b) # "updateAcc"
    BY <1>3 DEF GetAccount, GetDaily, PutDaily, PutStats, BeginAlert, ReadPos, ReadDaily, CalcToll,
                SegStat, PutRelation, CheckRelation, GetRelation, Doing
  <2>q. QED
    BY <1>3, <2>1, OtherKindWalks
<1>4. CASE Kind(b) # "updateAcc" /\ (Seek(b) \/ NextCar(b))
  BY <1>4, OtherKindWalks
<1>q. QED
  BY <1>1, <1>2, <1>3, <1>4 DEF RelStep

\* The invariant holds in every state.
LEMMA WalkInductive == RelSpec => []WalkInv
<1>1. ASSUME WalkInv, RelInv', [RelNext]_relVars PROVE WalkInv'
  <2>1. CASE UNCHANGED relVars
    <3>1. UNCHANGED <<relBoxes, accts, stats, work, relOut>> /\ RelBoxes' = RelBoxes
      BY <2>1 DEF relVars, relTables, relHistory, RelBoxes
    <3>2. RowsPlaced'
      BY <1>1, <3>1 DEF WalkInv, RowsPlaced, PlacedRow
    <3>3. \A b \in RelBoxes : WalkMarks(b)'
      BY <1>1, <3>1 DEF WalkInv, WalkMarks, Kind, Source, Tuple, Awaited, OnSegment
    <3>q. QED
      BY <1>1, <3>1, <3>2, <3>3 DEF WalkInv
  <2>2. ASSUME NEW b \in RelBoxes, RelStep(b) PROVE WalkInv'
    BY <1>1, <2>2, WalkStepKeeps
  <2>q. QED
    BY <1>1, <2>1, <2>2 DEF RelNext
<1>q. QED
  BY WalkInitial, RelInductive, <1>1, PTL DEF RelSpec

-----------------------------------------------------------------------------
(* The tolls of a place. *)

\* One of two different places comes first.
LEMMA PlacesOrdered ==
  ASSUME NEW p \in Positions, NEW q \in Positions
  PROVE  Precedes(p, q) \/ Precedes(q, p) \/ p = q
<1>1. CASE p[1] # q[1]
  <2>1. \A j \in 1..(1 - 1) : p[j] = q[j] /\ q[j] = p[j]
    OBVIOUS
  <2>2. p[1] < q[1] \/ q[1] < p[1]
    BY <1>1 DEF Positions
  <2>q. QED
    BY <2>1, <2>2 DEF Precedes
<1>2. CASE p[1] = q[1] /\ p[2] # q[2]
  <2>1. \A j \in 1..(2 - 1) : p[j] = q[j] /\ q[j] = p[j]
    BY <1>2
  <2>2. p[2] < q[2] \/ q[2] < p[2]
    BY <1>2 DEF Positions
  <2>q. QED
    BY <2>1, <2>2 DEF Precedes
<1>3. CASE p[1] = q[1] /\ p[2] = q[2] /\ p[3] # q[3]
  <2>1. \A j \in 1..(3 - 1) : p[j] = q[j] /\ q[j] = p[j]
    BY <1>3
  <2>2. p[3] < q[3] \/ q[3] < p[3]
    BY <1>3 DEF Positions
  <2>q. QED
    BY <2>1, <2>2 DEF Precedes
<1>4. CASE p[1] = q[1] /\ p[2] = q[2] /\ p[3] = q[3]
  BY <1>4 DEF Positions
<1>q. QED
  BY <1>1, <1>2, <1>3, <1>4

\* The times of the rows of a place in the last minute.
InForce(time, pos) == {u \in (time - 60)..time : <<u, pos>> \in DOMAIN stats}

\* The first row from a place and a time on is of the place and the last
\* minute, if there is such a row.
LEMMA FirstInForce ==
  ASSUME RowsPlaced, NEW time \in Int, NEW pos \in Positions, NEW toll, TollFrom(time, pos, toll),
         InForce(time, pos) # {}
  PROVE  \E u \in InForce(time, pos) : toll = stats[<<u, pos>>]
<1> DEFINE times == InForce(time, pos)
<1>t. times = {u \in (time - 60)..time : <<u, pos>> \in DOMAIN stats} /\ times # {}
  BY DEF InForce
<1>i. times \in SUBSET Int
  BY <1>t
<1> HIDE DEF times
<1> DEFINE from  == <<time - 60, pos>>
           later == {k \in DOMAIN stats : ~KeyPrecedes(k, from)}
<1>k. \A k \in DOMAIN stats : /\ k = <<k[1], k[2]>> /\ k[1] \in Int /\ k[2] \in Positions
  BY DEF RowsPlaced
<1>p. \A p \in Positions : ~Precedes(p, p)
  BY DEF Precedes, Positions
<1>1. ASSUME NEW u \in times PROVE <<u, pos>> \in later /\ u \in Int
  BY <1>t, <1>i, <1>p DEF KeyPrecedes
<1>2. PICK u \in times : TRUE
  BY <1>t
<1>3. PICK k \in later : toll = stats[k] /\ \A l \in later : ~KeyPrecedes(l, k)
  BY <1>1, <1>2 DEF TollFrom
<1>4. k \in DOMAIN stats /\ ~KeyPrecedes(k, from)
  BY <1>3
<1>5. k[2] = pos
  <2>1. ~Precedes(k[2], pos)
    BY <1>4 DEF KeyPrecedes
  <2>2. ~Precedes(pos, k[2])
    BY <1>1, <1>2, <1>3 DEF KeyPrecedes
  <2>q. QED
    BY <1>k, <1>4, <2>1, <2>2, PlacesOrdered
<1>6. k[1] >= time - 60
  BY <1>k, <1>4, <1>5 DEF KeyPrecedes
<1>7. ASSUME NEW v \in times PROVE k[1] <= v
  <2>1. v \in Int /\ ~KeyPrecedes(<<v, pos>>, k)
    BY <1>1, <1>3
  <2>2. ~(v < k[1])
    BY <1>5, <2>1 DEF KeyPrecedes
  <2>q. QED
    BY <1>k, <1>4, <2>1, <2>2
<1>8. k[1] \in times /\ k = <<k[1], pos>>
  BY <1>t, <1>i, <1>k, <1>2, <1>4, <1>5, <1>6, <1>7
<1>q. QED
  BY <1>3, <1>8 DEF times

-----------------------------------------------------------------------------
(* What the boxes read is what TablesRead says. *)

\* The places of the other boxes in their inputs stay.
LEMMA StepOthers ==
  ASSUME RelInv, NEW b \in RelBoxes, RelStep(b), NEW o \in RelBoxes \ {b}
  PROVE  work'[o].done = work[o].done
<1>1. WorkTyped
  BY DEF RelInv
<1>2. ASSUME \E w : Goes(b, w) PROVE work'[o].done = work[o].done
  BY <1>1, <1>2, GoesOthers DEF Others, Fields
<1>3. ASSUME \E w, key, moved : Puts(b, key, w, moved) PROVE work'[o].done = work[o].done
  BY <1>1, <1>3, PutsOthers DEF Others, Fields
<1>4. CASE PutAccount(b) \/ PutDaily(b) \/ Mark(b)
  BY <1>3, <1>4 DEF PutAccount, PutDaily, Mark
<1>5. CASE Seek(b) \/ NextCar(b)
  <2>1. \E cars : NextOf(b, cars)
    BY <1>5 DEF Seek, NextCar
  <2>q. QED
    BY <1>2, <2>1, NextOfGoes
<1>6. CASE \/ GetAccount(b) \/ GetDaily(b) \/ BeginAlert(b) \/ ReadDaily(b) \/ PutRelation(b)
           \/ PutAccident(b)
  BY <1>2, <1>6 DEF GetAccount, GetDaily, BeginAlert, ReadDaily, PutRelation, PutAccident
<1>7. CASE PutStats(b) \/ ReadPos(b) \/ CalcToll(b) \/ SegStat(b) \/ CheckRelation(b) \/ GetRelation(b)
  <2>1. \E w : Finish(b, w)
    BY <1>7 DEF PutStats, ReadPos, CalcToll, SegStat, CheckRelation, GetRelation
  <2>q. QED
    BY <1>2, <2>1 DEF Finish
<1>q. QED
  BY <1>4, <1>5, <1>6, <1>7 DEF RelStep

\* A box that ends a walk has marked who still stands there.
LEMMA StepMarks ==
  ASSUME WalkInv, NEW b \in RelBoxes, RelStep(b)
  PROVE  CarsMarked(b)
<1> SUFFICES ASSUME Kind(b) = "updateAcc" PROVE CarsMarked(b)
  BY DEF CarsMarked
<1>1. WorkTyped /\ Fits(work[b])
  BY DEF WalkInv, RelInv, WorkTyped
<1>2. CASE Seek(b) \/ NextCar(b)
  BY <1>2, SeekWalks
<1>3. CASE PutAccident(b) \/ Mark(b)
  <2>1. \E w : w.done = work[b].done /\ work'[b] = w
    <3>1. CASE PutAccident(b)
      <4> DEFINE v == [work[b] EXCEPT !.at = "abort"]
                 w == [work[b] EXCEPT !.at = "seek", !.seg = FirstOfSegments(Tuple(b).pos),
                                      !.standing = Approaching(Tuple(b).pos)]
      <4>1. v.done = work[b].done /\ w.done = work[b].done
        BY <1>1 DEF Fits, Fields
      <4>2. Goes(b, v) \/ Goes(b, w)
        BY <3>1 DEF PutAccident
      <4> HIDE DEF v, w
      <4>q. QED
        BY <1>1, <4>1, <4>2, GoesOthers
    <3>2. CASE Mark(b)
      <4> DEFINE w == [work[b] EXCEPT !.at = "next", !.marked = @ \cup {work[b].car}]
      <4>1. w.done = work[b].done
        BY <1>1 DEF Fits, Fields
      <4>2. Puts(b, <<work[b].car>>, w, {work[b].car})
        BY <3>2 DEF Mark
      <4> HIDE DEF w
      <4>q. QED
        BY <1>1, <4>1, <4>2, PutsOthers
    <3>q. QED
      BY <1>3, <3>1, <3>2
  <2>q. QED
    BY <1>1, <2>1 DEF CarsMarked, Fits, Done
<1>q. QED
  BY <1>2, <1>3 DEF RelStep, GetAccount, PutAccount, GetDaily, PutDaily, PutStats, BeginAlert, ReadPos,
       ReadDaily, CalcToll, SegStat, PutRelation, CheckRelation, GetRelation, Doing

\* A toll that is announced is that of a row in force.
LEMMA StepTolls ==
  ASSUME WalkInv, NEW b \in RelBoxes, RelStep(b)
  PROVE  TollInForce(b)
<1> SUFFICES ASSUME Kind(b) = "calcToll", Announced(b) PROVE TollInForce(b)
  BY DEF TollInForce
<1>1. /\ WorkTyped /\ TollsTyped /\ RowsPlaced
      /\ DOMAIN relOut = RelBoxes /\ IsList(relOut[b]) /\ Len(relOut[b]) \in Nat
  BY ListAppended DEF WalkInv, RelInv, WorkTyped
<1>2. CASE ReadDaily(b)
  <2>1. relOut' = relOut
    BY <1>2 DEF ReadDaily
  <2>q. QED
    BY <1>1, <2>1 DEF Announced
<1>3. CASE CalcToll(b)
  <2> DEFINE t         == Tuple(b)
             out(toll) == [car |-> t.car, time |-> t.time, lpos |-> t.lpos, ltoll |-> t.ltoll, pos |-> t.pos,
                           lane |-> t.lane, toll |-> toll]
             times     == LastMinute(t)
  <2>1. PICK toll : /\ TollFrom(t.time, t.pos, toll)
                    /\ relOut' = [relOut EXCEPT ![b] = Append(@, out(toll))]
    BY <1>3 DEF CalcToll, Announce
  <2>2. LastOut(b).toll = toll
    <3>1. out(toll).toll = toll
      OBVIOUS
    <3> DEFINE last == out(toll)
    <3>2. relOut'[b] = Append(relOut[b], last)
      BY <1>1, <2>1
    <3> HIDE DEF last
    <3>3. relOut'[b][Len(relOut'[b])] = last
      BY <1>1, <3>2, ListAppended
    <3>q. QED
      BY <3>1, <3>3 DEF last, LastOut
  <2>3. t.time \in Int /\ t.pos \in Positions
    BY <1>1, <1>3, TupleTolls DEF CalcToll, Doing, HasPlace
  <2>4. times # {} => \E u \in times : toll = stats[<<u, t.pos>>]
    <3>1. times = InForce(t.time, t.pos)
      BY DEF InForce, LastMinute
    <3>2. RowsPlaced /\ TollFrom(t.time, t.pos, toll) /\ t.time \in Int /\ t.pos \in Positions
      BY <1>1, <2>1, <2>3
    <3> HIDE DEF t, times, out
    <3>3. ASSUME InForce(t.time, t.pos) # {}
          PROVE  \E u \in InForce(t.time, t.pos) : toll = stats[<<u, t.pos>>]
      BY <3>2, <3>3, FirstInForce
    <3>q. QED
      BY <3>1, <3>3
  <2>q. QED
    BY <2>2, <2>4 DEF TollInForce
<1>q. QED
  BY <1>2, <1>3 DEF RelStep, GetAccount, PutAccount, GetDaily, PutDaily, PutStats, PutAccident, Mark,
       BeginAlert, Seek, NextCar, Walks, ReadPos, SegStat, PutRelation, CheckRelation, GetRelation, Doing

(***************************************************************************)
(* The relation boxes read tables while others write them: for any boxes,  *)
(* tuples and interleaving, a box that has walked over the last segments   *)
(* before an accident has marked every car that stood there all the time,  *)
(* and a toll is that of a row of its place and the last minute, if there  *)
(* is one.  That it need not be the latest of them, nor the mark in the    *)
(* accident part, is what TollUpToDate and AccidentNoted show.             *)
(***************************************************************************)
THEOREM RowsRead == RelSpec => TablesRead
<1>1. ASSUME WalkInv, [RelNext]_relVars
      PROVE  [\A b \in RelBoxes : CarsMarked(b) /\ TollInForce(b)]_relVars
  <2>1. ASSUME NEW b \in RelBoxes, RelStep(b), NEW o \in RelBoxes
        PROVE  CarsMarked(o) /\ TollInForce(o)
    <3>1. CASE o = b
      BY <1>1, <2>1, <3>1, StepMarks, StepTolls
    <3>2. CASE o # b
      <4>1. RelInv /\ WorkTyped
        BY <1>1 DEF WalkInv, RelInv
      <4>2. work'[o].done = work[o].done /\ work[o].done \in Nat
        BY <2>1, <3>2, <4>1, StepOthers DEF WorkTyped, Fits
      <4>3. relOut'[o] = relOut[o] /\ Len(relOut[o]) \in Nat
        BY <2>1, <3>2, <4>1, StepOut, ListAppended DEF OutKept, WorkTyped
      <4>q. QED
        BY <4>2, <4>3 DEF CarsMarked, TollInForce, Done, Announced
    <3>q. QED
      BY <3>1, <3>2
  <2>q. QED
    BY <1>1, <2>1 DEF RelNext
<1>q. QED
  BY <1>1, WalkInductive, PTL DEF RelSpec, TablesRead

-----------------------------------------------------------------------------
(***************************************************************************)
(* FileDescPool: no released descriptor is lost on the sleeping users, and *)
(* only setFDLimits takes the pool over its maximum.  MultiFileDescPool:   *)
(* the descriptors open at once, summed over the files, stay within the    *)
(* limit.                                                                  *)
(***************************************************************************)

\* What is on the list.
Members(list) == {list[i] : i \in DOMAIN list}

\* open(2) gives a number, the lowest.
LEMMA MinIsLeast ==
  ASSUME NEW T, T \subseteq Nat, T # {}
  PROVE  Min(T) \in T /\ \A n \in T : Min(T) <= n
BY NatLeast DEF Min

\* A list of different things has as many members as it is long.
LEMMA DistinctCount ==
  ASSUME NEW S, NEW list \in Seq(S), Distinct(list)
  PROVE  IsFiniteSet(Members(list)) /\ Cardinality(Members(list)) = Len(list)
<1>1. Len(list) \in Nat /\ DOMAIN list = 1..Len(list)
  OBVIOUS
<1>2. IsFiniteSet(1..Len(list)) /\ Cardinality(1..Len(list)) = Len(list)
  BY <1>1, FS_Interval
<1>3. list \in Bijection(1..Len(list), Members(list))
  BY <1>1 DEF Bijection, Injection, Surjection, IsInjective, Members, Distinct
<1>4. ExistsBijection(1..Len(list), Members(list))
  BY <1>3 DEF ExistsBijection
<1>q. QED
  BY <1>2, <1>4, FS_Bijection

\* Without its head a list has all its members but the head.
LEMMA TailMembers ==
  ASSUME NEW S, NEW list \in Seq(S), list # <<>>, Distinct(list)
  PROVE  /\ Tail(list) \in Seq(S) /\ Distinct(Tail(list))
         /\ Members(list) = Members(Tail(list)) \cup {Head(list)}
         /\ Head(list) \notin Members(Tail(list)) /\ Head(list) \in S
         /\ Len(Tail(list)) = Len(list) - 1 /\ Len(list) \in Nat
<1> DEFINE rest == Tail(list)
           k == Len(list)
<1>1. /\ rest \in Seq(S) /\ Len(rest) = k - 1 /\ k \in Nat \ {0}
      /\ DOMAIN rest = 1..(k - 1) /\ DOMAIN list = 1..k
      /\ \A i \in 1..(k - 1) : rest[i] = list[i + 1]
      /\ Head(list) = list[1]
  OBVIOUS
<1> HIDE DEF rest, k
<1>2. \A i \in 1..(k - 1) : i + 1 \in 1..k /\ i + 1 # 1
  BY <1>1
<1>3. \A i \in 1..k : i # 1 => i - 1 \in 1..(k - 1) /\ (i - 1) + 1 = i
  BY <1>1
<1>4. Distinct(rest)
  <2> SUFFICES ASSUME NEW i \in 1..(k - 1), NEW j \in 1..(k - 1), rest[i] = rest[j] PROVE i = j
    BY <1>1 DEF Distinct
  <2>1. i + 1 = j + 1
    BY <1>1, <1>2 DEF Distinct
  <2>q. QED
    BY <2>1
<1>5. Members(rest) \subseteq Members(list) /\ list[1] \in Members(list) /\ 1 \in 1..k
  BY <1>1, <1>2 DEF Members
<1>6. ASSUME NEW i \in 1..k PROVE list[i] \in Members(rest) \cup {list[1]}
  <2>1. CASE i = 1
    BY <2>1
  <2>2. CASE i # 1
    <3>1. list[i] = rest[i - 1] /\ i - 1 \in DOMAIN rest
      BY <1>1, <1>3, <2>2
    <3>q. QED
      BY <3>1 DEF Members
  <2>q. QED
    BY <2>1, <2>2
<1>7. Members(list) \subseteq Members(rest) \cup {list[1]}
  BY <1>1, <1>6 DEF Members
<1>8. list[1] \notin Members(rest)
  <2> SUFFICES ASSUME NEW i \in 1..(k - 1), rest[i] = list[1] PROVE FALSE
    BY <1>1 DEF Members
  <2>q. QED
    BY <1>1, <1>2, <1>5 DEF Distinct
<1>q. QED
  BY <1>1, <1>4, <1>5, <1>7, <1>8 DEF rest, k

\* So is what is left of a list without its first members.
LEMMA EndDistinct ==
  ASSUME NEW S, NEW list \in Seq(S), Distinct(list), NEW m \in Nat \ {0}
  PROVE  LET end == SubSeq(list, m, Len(list))
         IN  /\ end \in Seq(S) /\ Distinct(end) /\ Members(end) \subseteq Members(list)
             /\ Len(end) = IF m <= Len(list) THEN Len(list) - m + 1 ELSE 0
<1> DEFINE end == SubSeq(list, m, Len(list))
           k == Len(list)
           l == IF m <= k THEN k - m + 1 ELSE 0
<1>1. /\ k \in Nat /\ l \in Nat /\ DOMAIN list = 1..k
      /\ \A i \in 1..l : i + m - 1 \in 1..k
  OBVIOUS
<1>2. end \in Seq(S) /\ Len(end) = l /\ DOMAIN end = 1..l /\ \A i \in 1..l : end[i] = list[i + m - 1]
  OBVIOUS
<1> HIDE DEF end, k, l
<1>3. Distinct(end)
  <2> SUFFICES ASSUME NEW i \in 1..l, NEW j \in 1..l, end[i] = end[j] PROVE i = j
    BY <1>2 DEF Distinct
  <2>1. i + m - 1 = j + m - 1
    BY <1>1, <1>2 DEF Distinct
  <2>q. QED
    BY <1>1, <2>1
<1>4. Members(end) \subseteq Members(list)
  BY <1>1, <1>2 DEF Members
<1>5. Len(end) = IF m <= k THEN k - m + 1 ELSE 0
  BY <1>2 DEF l
<1>q. QED
  BY <1>2, <1>3, <1>4, <1>5 DEF end, k

\* What was opened is a list of different unused numbers.
LEMMA OpenedDistinct ==
  ASSUME NEW U, U \subseteq Nat, IsFiniteSet(U), NEW n \in Nat, n <= Cardinality(U), NEW new \in Opened(U, n)
  PROVE  /\ new \in Seq(U) /\ Len(new) = n
         /\ Distinct(new) /\ Members(new) \subseteq U
<1>1. new \in [1..n -> U] /\ \A i \in 1..n : new[i] = Min(U \ {new[j] : j \in (i + 1)..n})
  BY DEF Opened
<1>2. new \in Seq(U) /\ Len(new) = n /\ DOMAIN new = 1..n
  BY <1>1
<1>3. ASSUME NEW i \in 1..n PROVE new[i] \notin {new[j] : j \in (i + 1)..n}
  <2> DEFINE T == {new[j] : j \in (i + 1)..n}
  <2>1. IsFiniteSet((i + 1)..n) /\ Cardinality((i + 1)..n) = n - i
    BY FS_Interval
  <2>2. IsFiniteSet(T) /\ Cardinality(T) <= n - i
    <3> DEFINE f == [j \in (i + 1)..n |-> new[j]]
    <3>1. f \in Surjection((i + 1)..n, T)
      BY DEF Surjection
    <3>q. QED
      BY <2>1, <3>1, FS_Surjection
  <2>3. U \ T # {}
    <3>1. SUFFICES ASSUME U \subseteq T PROVE FALSE
      OBVIOUS
    <3>2. Cardinality(U) <= Cardinality(T) /\ Cardinality(T) \in Nat /\ Cardinality(U) \in Nat
      BY <2>2, <3>1, FS_Subset, FS_CardinalityType
    <3>q. QED
      BY <2>2, <3>2
  <2>4. new[i] \in U \ T
    BY <1>1, <2>3, MinIsLeast
  <2>q. QED
    BY <2>4
<1>4. Distinct(new)
  <2> SUFFICES ASSUME NEW i \in 1..n, NEW j \in 1..n, new[i] = new[j], i # j PROVE FALSE
    BY <1>2 DEF Distinct
  <2>1. i \in (j + 1)..n \/ j \in (i + 1)..n
    OBVIOUS
  <2>q. QED
    BY <1>3, <2>1
<1>5. Members(new) \subseteq U
  BY <1>1, <1>2 DEF Members
<1>q. QED
  BY <1>2, <1>4, <1>5

\* Two lists that have nothing in common, put together.
LEMMA ConcatDistinct ==
  ASSUME NEW S, NEW new \in Seq(S), NEW list \in Seq(S), Distinct(new), Distinct(list),
         Members(new) \cap Members(list) = {}
  PROVE  /\ new \o list \in Seq(S)
         /\ Len(new \o list) = Len(new) + Len(list)
         /\ Distinct(new \o list)
         /\ Members(new \o list) = Members(new) \cup Members(list)
<1> DEFINE both == new \o list
           m == Len(new)
           k == Len(list)
<1>1. /\ both \in Seq(S) /\ Len(both) = m + k
      /\ m \in Nat /\ k \in Nat
      /\ DOMAIN both = 1..(m + k) /\ DOMAIN new = 1..m /\ DOMAIN list = 1..k
      /\ \A i \in 1..m : both[i] = new[i]
      /\ \A i \in 1..k : both[m + i] = list[i]
  OBVIOUS
<1> HIDE DEF both, m, k
<1>0. \A i \in 1..(m + k) : i > m => i - m \in 1..k /\ m + (i - m) = i
  BY <1>1
<1>2. Members(both) = Members(new) \cup Members(list)
  <2>1. ASSUME NEW i \in 1..(m + k) PROVE both[i] \in Members(new) \cup Members(list)
    <3>1. CASE i \in 1..m
      BY <1>1, <3>1 DEF Members
    <3>2. CASE i > m
      <4>1. both[i] = list[i - m] /\ i - m \in DOMAIN list
        BY <1>0, <1>1, <3>2
      <4>q. QED
        BY <4>1 DEF Members
    <3>q. QED
      BY <1>1, <3>1, <3>2
  <2>2. \A i \in 1..m : i \in 1..(m + k)
    BY <1>1
  <2>3. \A i \in 1..k : m + i \in 1..(m + k)
    BY <1>1
  <2>4. Members(new) \subseteq Members(both)
    BY <1>1, <2>2 DEF Members
  <2>5. Members(list) \subseteq Members(both)
    BY <1>1, <2>3 DEF Members
  <2>6. Members(both) \subseteq Members(new) \cup Members(list)
    BY <1>1, <2>1 DEF Members
  <2>q. QED
    BY <2>4, <2>5, <2>6
<1>3. Distinct(both)
  <2> SUFFICES ASSUME NEW i \in 1..(m + k), NEW j \in 1..(m + k), both[i] = both[j], i < j PROVE FALSE
    <3>1. \A i, j \in 1..(m + k) : i = j \/ i < j \/ j < i
      BY <1>1
    <3>q. QED
      BY <1>1, <3>1 DEF Distinct
  <2>1. CASE j <= m
    <3>1. i \in 1..m /\ j \in 1..m
      BY <1>1, <2>1
    <3>2. new[i] = new[j] /\ i # j
      BY <1>1, <3>1
    <3>q. QED
      BY <1>1, <3>1, <3>2 DEF Distinct
  <2>2. CASE i > m
    <3>1. both[i] = list[i - m] /\ both[j] = list[j - m] /\ i - m \in 1..k /\ j - m \in 1..k /\ i - m # j - m
      BY <1>0, <1>1, <2>2
    <3>q. QED
      BY <1>1, <3>1 DEF Distinct
  <2>3. CASE i <= m /\ j > m
    <3>1. i \in 1..m /\ both[j] = list[j - m] /\ j - m \in 1..k
      BY <1>0, <1>1, <2>3
    <3>2. both[i] \in Members(new) /\ both[j] \in Members(list)
      BY <1>1, <3>1 DEF Members
    <3>q. QED
      BY <3>2
  <2>q. QED
    BY <1>1, <2>1, <2>2, <2>3
<1>q. QED
  BY <1>1, <1>2, <1>3 DEF both, m, k

-----------------------------------------------------------------------------
\* Where a user is.
UserLocations == {"idle", "asleep", "awake", "using", "checked"}

\* The free list and the leases: no number twice, each lease its user's.
FdLists ==
  /\ freeFDs \in Seq(Descriptors) /\ Distinct(freeFDs)
  /\ leasedFDs \subseteq Descriptors
  /\ Free \cap leasedFDs = {}
  /\ leasedFDs = {ufd[u] : u \in Users} \ {NoFD}

\* Nobody has another user's descriptor, and one exactly while using it.
FdUsers ==
  /\ upc \in [Users -> UserLocations]
  /\ ufd \in [Users -> Descriptors \cup {NoFD}]
  /\ \A u, v \in Users : ufd[u] = ufd[v] /\ ufd[u] # NoFD => u = v
  /\ \A u \in Users : ufd[u] # NoFD <=> upc[u] = "using"
  /\ ulimits \in [Users -> FDLimits \cup {NoLimits}]
  /\ \A u \in Users : upc[u] = "checked" => ulimits[u] \in FDLimits
  /\ maxFDs \in Nat

\* While somebody sleeps, each free descriptor has an awake user to take it.
FdAwake == Asleep # {} => Len(freeFDs) <= Cardinality(Awake)

\* The inductive invariant of FileDescPool.
FdInv == FdLists /\ FdUsers /\ FdAwake

\* The numbers that are free or leased are finitely many.
LEMMA FdFinite ==
  ASSUME FdLists
  PROVE  /\ Len(freeFDs) \in Nat /\ Cardinality(leasedFDs) \in Nat
         /\ IsFiniteSet(leasedFDs)
         /\ Cardinality(Free) = Len(freeFDs)
         /\ Unused \subseteq Nat /\ IsFiniteSet(Unused)
<1>1. IsFiniteSet(leasedFDs) /\ IsFiniteSet(Unused) /\ Unused \subseteq Nat
  BY FDLimitsAssumption, FS_Subset DEF FdLists, Unused
<1>2. Cardinality(Free) = Len(freeFDs)
  BY DistinctCount DEF FdLists, Free, Members
<1>q. QED
  BY <1>1, <1>2, FS_CardinalityType DEF FdLists

\* Users can be counted.
LEMMA UsersFinite ==
  ASSUME NEW W \in SUBSET Users
  PROVE  IsFiniteSet(W) /\ Cardinality(W) \in Nat
BY FDLimitsAssumption, FS_Subset, FS_CardinalityType

\* When u goes elsewhere and n signals are given, somebody still sleeps only
\* if each signal woke one.
LEMMA WokenAwake ==
  ASSUME FdUsers, NEW u \in Users, upc[u] # "asleep", NEW n \in Nat, NEW W \in SUBSET Asleep,
         Woken(W, n), NEW place \in {"idle", "using", "checked"}, upc' = At(u, place, W)
  PROVE  /\ Asleep' # {} => Asleep # {} /\ Cardinality(Awake') = Cardinality(Awake \ {u}) + n
         /\ upc' \in [Users -> UserLocations]
         /\ upc'[u] = place
         /\ \A v \in Users \ {u} : upc'[v] \in {"using", "checked"} => upc'[v] = upc[v]
         /\ \A v \in Users \ {u} : upc[v] = "using" => upc'[v] = "using"
<1>1. /\ \A v \in Users : upc'[v] = IF v = u THEN place ELSE IF v \in W THEN "awake" ELSE upc[v]
      /\ upc' \in [Users -> UserLocations]
  BY DEF At, FdUsers, UserLocations, Asleep
<1>2. u \notin Asleep /\ u \notin W
  BY DEF Asleep
<1>3. Asleep' = Asleep \ W
  BY <1>1, <1>2 DEF Asleep
<1>4. Awake' = (Awake \ {u}) \cup W /\ (Awake \ {u}) \cap W = {}
  BY <1>1, <1>2 DEF Awake, Asleep
<1>5. /\ IsFiniteSet(Asleep) /\ Cardinality(Asleep) \in Nat
      /\ IsFiniteSet(W) /\ Cardinality(W) \in Nat
      /\ IsFiniteSet(Awake \ {u}) /\ Cardinality(Awake \ {u}) \in Nat
  BY UsersFinite DEF Asleep, Awake
<1>6. Cardinality(W) = IF n <= Cardinality(Asleep) THEN n ELSE Cardinality(Asleep)
  BY <1>5, MinOfTwo DEF Woken, kSubset
<1>7. ASSUME Asleep' # {} PROVE Asleep # {} /\ Cardinality(W) = n
  <2>1. W # Asleep /\ Asleep # {}
    BY <1>3, <1>7
  <2>2. Cardinality(W) # Cardinality(Asleep)
    BY <1>5, <2>1, FS_Subset
  <2>q. QED
    BY <1>6, <2>1, <2>2
<1>8. Cardinality(Awake') = Cardinality(Awake \ {u}) + Cardinality(W)
  <2>1. Cardinality((Awake \ {u}) \cup W)
          = Cardinality(Awake \ {u}) + Cardinality(W) - Cardinality((Awake \ {u}) \cap W)
    BY <1>5, FS_Union
  <2>2. Cardinality((Awake \ {u}) \cap W) = 0
    BY <1>4, FS_EmptySet
  <2>q. QED
    BY <1>4, <1>5, <2>1, <2>2
<1>q. QED
  BY <1>1, <1>2, <1>7, <1>8 DEF Asleep

\* Nobody is woken by no signal.
LEMMA NoneWoken == Woken({}, 0)
<1>1. IsFiniteSet(Asleep) /\ Cardinality(Asleep) \in Nat
  BY UsersFinite DEF Asleep
<1>q. QED
  BY <1>1, MinOfTwo, FS_EmptySet DEF Woken, kSubset

\* The one who goes was awake, or all the others still are.
LEMMA AwakeWithout ==
  ASSUME FdUsers, NEW u \in Users
  PROVE  /\ Cardinality(Awake) \in Nat /\ Cardinality(Awake \ {u}) \in Nat
         /\ upc[u] = "awake" => Cardinality(Awake \ {u}) = Cardinality(Awake) - 1
         /\ upc[u] # "awake" => Awake \ {u} = Awake
<1>1. IsFiniteSet(Awake) /\ Cardinality(Awake) \in Nat
  BY UsersFinite DEF Awake
<1>2. Cardinality(Awake \ {u}) \in Nat
  BY UsersFinite DEF Awake
<1>3. upc[u] = "awake" => u \in Awake
  BY DEF Awake
<1>4. upc[u] # "awake" => Awake \ {u} = Awake
  BY DEF Awake
<1>q. QED
  BY <1>1, <1>2, <1>3, <1>4, FS_RemoveElement

-----------------------------------------------------------------------------
\* u leases the first of a list, of the free numbers or of one just opened.
LEMMA LeaseKeeps ==
  ASSUME FdInv, NEW u \in Users, upc[u] \in {"idle", "awake"},
         NEW list \in Seq(Descriptors), list # <<>>, Distinct(list),
         Members(list) \cap leasedFDs = {},
         NEW n \in Nat, NEW W \in SUBSET Asleep, Woken(W, n),
         Asleep # {} => Len(list) - 1 <= Cardinality(Awake \ {u}) + n,
         Lease(u, list, W)
  PROVE  FdInv' /\ FDCount' = Len(list) + Cardinality(leasedFDs) /\ maxFDs' = maxFDs
<1> DEFINE fd == Head(list)
<1>1. /\ freeFDs' = Tail(list)
      /\ leasedFDs' = leasedFDs \cup {fd}
      /\ ufd' = [ufd EXCEPT ![u] = fd]
      /\ upc' = At(u, "using", W)
      /\ maxFDs' = maxFDs /\ ulimits' = ulimits
  BY DEF Lease
<1>2. /\ Tail(list) \in Seq(Descriptors) /\ Distinct(Tail(list))
      /\ Members(list) = Members(Tail(list)) \cup {fd}
      /\ fd \notin Members(Tail(list)) /\ fd \in Descriptors
      /\ Len(Tail(list)) = Len(list) - 1 /\ Len(list) \in Nat
  BY TailMembers
<1>3. /\ Asleep' # {} => Asleep # {} /\ Cardinality(Awake') = Cardinality(Awake \ {u}) + n
      /\ upc' \in [Users -> UserLocations] /\ upc'[u] = "using"
      /\ \A v \in Users \ {u} : upc'[v] \in {"using", "checked"} => upc'[v] = upc[v]
      /\ \A v \in Users \ {u} : upc[v] = "using" => upc'[v] = "using"
  BY <1>1, WokenAwake DEF FdInv
<1>4. fd \notin leasedFDs /\ fd # NoFD /\ ufd[u] = NoFD
  BY <1>2, FDLimitsAssumption DEF FdInv, FdUsers, NoFD
<1>5. FdLists'
  <2>1. Free' = Members(Tail(list))
    BY <1>1 DEF Free, Members
  <2>2. leasedFDs' = {ufd'[v] : v \in Users} \ {NoFD}
    BY <1>1, <1>4 DEF FdInv, FdLists, FdUsers
  <2>3. Members(Tail(list)) \cap (leasedFDs \cup {fd}) = {}
    BY <1>2
  <2>q. QED
    BY <1>1, <1>2, <2>1, <2>2, <2>3 DEF FdInv, FdLists
<1>6. FdUsers'
  <2>1. \A v \in Users : ufd'[v] = IF v = u THEN fd ELSE ufd[v]
    BY <1>1 DEF FdInv, FdUsers
  <2>2. \A v \in Users : ufd[v] # fd
    BY <1>4 DEF FdInv, FdLists
  <2>3. ufd' \in [Users -> Descriptors \cup {NoFD}]
    BY <1>1, <1>2 DEF FdInv, FdUsers
  <2>4. \A v, w \in Users : ufd'[v] = ufd'[w] /\ ufd'[v] # NoFD => v = w
    BY <2>1, <2>2 DEF FdInv, FdUsers
  <2>5. \A v \in Users : ufd'[v] # NoFD <=> upc'[v] = "using"
    BY <1>3, <1>4, <2>1 DEF FdInv, FdUsers
  <2>6. \A v \in Users : upc'[v] = "checked" => ulimits'[v] \in FDLimits
    BY <1>1, <1>3 DEF FdInv, FdUsers
  <2>q. QED
    BY <1>1, <1>3, <2>3, <2>4, <2>5, <2>6 DEF FdInv, FdUsers
<1>7. FdAwake'
  BY <1>1, <1>2, <1>3 DEF FdAwake
<1>8. FDCount' = Len(list) + Cardinality(leasedFDs)
  <2>1. Cardinality(leasedFDs \cup {fd}) = Cardinality(leasedFDs) + 1
        /\ Cardinality(leasedFDs) \in Nat
    BY <1>4, FdFinite, FS_AddElement DEF FdInv
  <2>q. QED
    BY <1>1, <1>2, <2>1 DEF FDCount
<1>q. QED
  BY <1>1, <1>5, <1>6, <1>7, <1>8 DEF FdInv

\* A descriptor is leased from the free ones, or one is opened for it.
LEMMA TakeOrOpenKeeps ==
  ASSUME FdInv, NEW u \in Users, upc[u] \in {"idle", "awake"}, TakeOrOpen(u)
  PROVE  FdInv' /\ (FDCount' > maxFDs' => FDCount > maxFDs)
<1>1. CASE freeFDs # <<>> /\ Lease(u, freeFDs, {})
  <2>1. Members(freeFDs) \cap leasedFDs = {} /\ freeFDs \in Seq(Descriptors) /\ Distinct(freeFDs)
    BY DEF FdInv, FdLists, Free, Members
  <2>2. Asleep # {} => Len(freeFDs) - 1 <= Cardinality(Awake \ {u}) + 0
    <3>1. Len(freeFDs) \in Nat /\ (Asleep # {} => Len(freeFDs) <= Cardinality(Awake))
      BY FdFinite DEF FdInv, FdAwake
    <3>2. /\ Cardinality(Awake) \in Nat /\ Cardinality(Awake \ {u}) \in Nat
          /\ Cardinality(Awake \ {u}) >= Cardinality(Awake) - 1
      BY AwakeWithout DEF FdInv
    <3>q. QED
      BY <3>1, <3>2
  <2>3. FdInv' /\ FDCount' = Len(freeFDs) + Cardinality(leasedFDs) /\ maxFDs' = maxFDs
    BY <1>1, <2>1, <2>2, NoneWoken, LeaseKeeps
  <2>q. QED
    BY <2>3 DEF FDCount
<1>2. ASSUME freeFDs = <<>>, ~AtLimit, Openable(1),
             NEW new \in Opened(Unused, 1), NEW W \in SUBSET Asleep, Woken(W, 1), Lease(u, new, W)
      PROVE  FdInv' /\ (FDCount' > maxFDs' => FDCount > maxFDs)
  <2>1. new \in Seq(Unused) /\ Len(new) = 1 /\ Distinct(new) /\ Members(new) \subseteq Unused
    <3>1. Unused \subseteq Nat /\ IsFiniteSet(Unused) /\ 1 <= Cardinality(Unused) /\ 1 \in Nat
      BY <1>2, FdFinite DEF Openable, FdInv
    <3>q. QED
      BY <1>2, <3>1, OpenedDistinct
  <2>2. new \in Seq(Descriptors) /\ new # <<>> /\ Members(new) \cap leasedFDs = {}
    <3>1. Unused \subseteq Descriptors /\ Unused \cap leasedFDs = {}
      BY DEF Unused
    <3>2. new \in Seq(Descriptors) /\ new # <<>>
      BY <2>1, <3>1
    <3>q. QED
      BY <2>1, <3>1, <3>2
  <2>3. Asleep # {} => Len(new) - 1 <= Cardinality(Awake \ {u}) + 1
    BY <2>1, AwakeWithout DEF FdInv
  <2>4. FdInv' /\ FDCount' = Len(new) + Cardinality(leasedFDs) /\ maxFDs' = maxFDs
    BY <1>2, <2>1, <2>2, <2>3, LeaseKeeps
  <2>5. FDCount = Cardinality(leasedFDs) /\ Cardinality(leasedFDs) \in Nat /\ maxFDs \in Nat
    BY <1>2, FdFinite DEF FDCount, FdInv, FdUsers
  <2>q. QED
    BY <1>2, <2>1, <2>4, <2>5 DEF AtLimit
<1>q. QED
  BY <1>1, <1>2 DEF TakeOrOpen

\* Only where u is changes, and it holds nothing.
LEMMA MoveKeeps ==
  ASSUME FdInv, NEW u \in Users, NEW place \in {"idle", "asleep", "awake"},
         upc[u] \in {"idle", "awake", "asleep"}, upc' = At(u, place, {}),
         place = "awake" \/ freeFDs = <<>>,
         UNCHANGED <<freeFDs, leasedFDs, minFDs, maxFDs, ufd, ulimits>>
  PROVE  FdInv' /\ FDCount' = FDCount /\ maxFDs' = maxFDs
<1>1. /\ \A v \in Users : upc'[v] = IF v = u THEN place ELSE upc[v]
      /\ upc' \in [Users -> UserLocations]
  BY DEF At, FdInv, FdUsers, UserLocations
<1>2. FdLists' /\ FDCount' = FDCount
  BY DEF FdInv, FdLists, Free, FDCount
<1>3. FdUsers'
  BY <1>1 DEF FdInv, FdUsers
<1>4. FdAwake'
  <2>1. CASE freeFDs = <<>>
    BY <2>1, UsersFinite DEF FdAwake, Awake
  <2>2. CASE place = "awake"
    <3>1. Asleep' # {} => Asleep # {}
      BY <1>1, <2>2 DEF Asleep
    <3>2. Awake \subseteq Awake' /\ IsFiniteSet(Awake') /\ Cardinality(Awake') \in Nat /\ Cardinality(Awake) \in Nat
      BY <1>1, <2>2, UsersFinite DEF Awake
    <3>3. Cardinality(Awake) <= Cardinality(Awake')
      BY <3>2, FS_Subset
    <3>q. QED
      BY <3>1, <3>2, <3>3, FdFinite DEF FdInv, FdAwake
  <2>q. QED
    BY <2>1, <2>2
<1>q. QED
  BY <1>2, <1>3, <1>4 DEF FdInv

\* acquireFD, blocking or not: who finds no descriptor sleeps or gives up.
LEMMA AcquireKeeps ==
  ASSUME FdInv, NEW u \in Users, AcquireFdBlocking(u) \/ AcquireFdNonBlocking(u)
  PROVE  FdInv' /\ (FDCount' > maxFDs' => FDCount > maxFDs)
<1>1. CASE TakeOrOpen(u)
  <2>1. upc[u] \in {"idle", "awake"}
    BY DEF AcquireFdBlocking, AcquireFdNonBlocking
  <2>q. QED
    BY <1>1, <2>1, TakeOrOpenKeeps
<1>2. CASE /\ upc[u] \in {"idle", "awake"} /\ freeFDs = <<>>
           /\ upc' = At(u, "asleep", {}) \/ upc' = At(u, "idle", {})
           /\ UNCHANGED <<freeFDs, leasedFDs, minFDs, maxFDs, ufd, ulimits>>
  <2>1. FdInv' /\ FDCount' = FDCount /\ maxFDs' = maxFDs
    BY <1>2, MoveKeeps
  <2>q. QED
    BY <2>1
<1>q. QED
  BY <1>1, <1>2 DEF AcquireFdBlocking, AcquireFdNonBlocking

\* releaseFD puts a descriptor back and signals once.
LEMMA ReleaseKeeps ==
  ASSUME FdInv, NEW u \in Users, ReleaseFd(u)
  PROVE  FdInv' /\ FDCount' = FDCount /\ maxFDs' = maxFDs
<1> DEFINE fd == ufd[u]
<1>1. PICK W \in SUBSET Asleep : Woken(W, 1) /\ upc' = At(u, "idle", W)
  BY DEF ReleaseFd
<1>2. /\ upc[u] = "using"
      /\ leasedFDs' = leasedFDs \ {fd}
      /\ freeFDs' = <<fd>> \o freeFDs
      /\ ufd' = [ufd EXCEPT ![u] = NoFD]
      /\ maxFDs' = maxFDs /\ ulimits' = ulimits
  BY DEF ReleaseFd
<1>3. fd \in leasedFDs /\ fd \in Descriptors /\ fd # NoFD
  BY <1>2 DEF FdInv, FdLists, FdUsers
<1>4. /\ Asleep' # {} => Asleep # {} /\ Cardinality(Awake') = Cardinality(Awake \ {u}) + 1
      /\ upc' \in [Users -> UserLocations] /\ upc'[u] = "idle"
      /\ \A v \in Users \ {u} : upc'[v] \in {"using", "checked"} => upc'[v] = upc[v]
      /\ \A v \in Users \ {u} : upc[v] = "using" => upc'[v] = "using"
  BY <1>1, <1>2, WokenAwake DEF FdInv
<1>5. /\ freeFDs' \in Seq(Descriptors) /\ Len(freeFDs') = 1 + Len(freeFDs)
      /\ Distinct(freeFDs') /\ Members(freeFDs') = {fd} \cup Free
  <2>1. <<fd>> \in Seq(Descriptors) /\ Len(<<fd>>) = 1 /\ Distinct(<<fd>>) /\ Members(<<fd>>) = {fd}
    BY <1>3 DEF Distinct, Members
  <2>2. Members(freeFDs) = Free /\ Members(<<fd>>) \cap Members(freeFDs) = {}
    BY <1>3, <2>1 DEF Members, Free, FdInv, FdLists
  <2>3. freeFDs \in Seq(Descriptors) /\ Distinct(freeFDs)
    BY DEF FdInv, FdLists
  <2> DEFINE one == <<fd>>
  <2>4. one \in Seq(Descriptors) /\ Distinct(one) /\ Members(one) \cap Members(freeFDs) = {}
    BY <2>1, <2>2
  <2>5. /\ one \o freeFDs \in Seq(Descriptors)
        /\ Len(one \o freeFDs) = Len(one) + Len(freeFDs)
        /\ Distinct(one \o freeFDs)
        /\ Members(one \o freeFDs) = Members(one) \cup Members(freeFDs)
    <3> HIDE DEF one
    <3> QED BY <2>4, <2>3, ConcatDistinct
  <2>q. QED
    BY <1>2, <2>1, <2>2, <2>5
<1>6. FdLists'
  <2>1. Free' = {fd} \cup Free
    BY <1>5 DEF Free, Members
  <2>2. leasedFDs' = {ufd'[v] : v \in Users} \ {NoFD}
    <3>1. \A v \in Users : ufd'[v] = IF v = u THEN NoFD ELSE ufd[v]
      BY <1>2 DEF FdInv, FdUsers
    <3>2. \A v \in Users \ {u} : ufd[v] # fd
      BY <1>3 DEF FdInv, FdUsers
    <3>3. leasedFDs = {ufd[v] : v \in Users} \ {NoFD}
      BY DEF FdInv, FdLists
    <3>q. QED
      BY <1>2, <3>1, <3>2, <3>3
  <2>q. QED
    BY <1>2, <1>5, <2>1, <2>2 DEF FdInv, FdLists
<1>7. FdUsers'
  <2>1. \A v \in Users : ufd'[v] = IF v = u THEN NoFD ELSE ufd[v]
    BY <1>2 DEF FdInv, FdUsers
  <2>2. ufd' \in [Users -> Descriptors \cup {NoFD}]
    BY <1>2 DEF FdInv, FdUsers
  <2>3. \A v \in Users : ufd'[v] # NoFD <=> upc'[v] = "using"
    BY <1>4, <2>1 DEF FdInv, FdUsers
  <2>4. \A v \in Users : upc'[v] = "checked" => ulimits'[v] \in FDLimits
    BY <1>2, <1>4 DEF FdInv, FdUsers
  <2>q. QED
    BY <1>2, <1>4, <2>1, <2>2, <2>3, <2>4 DEF FdInv, FdUsers
<1>8. FdAwake'
  <2>1. Cardinality(Awake \ {u}) = Cardinality(Awake) /\ Cardinality(Awake) \in Nat
    BY <1>2, AwakeWithout DEF FdInv
  <2>2. Len(freeFDs) \in Nat /\ (Asleep # {} => Len(freeFDs) <= Cardinality(Awake))
    BY FdFinite DEF FdInv, FdAwake
  <2>3. Asleep' # {} => Len(freeFDs') <= Cardinality(Awake')
    <3> SUFFICES ASSUME Asleep' # {} PROVE Len(freeFDs') <= Cardinality(Awake')
      OBVIOUS
    <3>1. Cardinality(Awake') = Cardinality(Awake) + 1 /\ Asleep # {}
      BY <1>4, <2>1
    <3>2. Len(freeFDs') = 1 + Len(freeFDs)
      BY <1>5
    <3>q. QED
      BY <3>1, <3>2, <2>1, <2>2
  <2>q. QED
    BY <2>3 DEF FdAwake
<1>9. FDCount' = FDCount
  <2>1. Cardinality(leasedFDs') = Cardinality(leasedFDs) - 1
    BY <1>2, <1>3, FdFinite, FS_RemoveElement DEF FdInv
  <2>q. QED
    BY <1>5, <2>1, FdFinite DEF FDCount, FdInv
<1>q. QED
  BY <1>2, <1>6, <1>7, <1>8, <1>9 DEF FdInv

\* The test of new limits changes nothing yet.
LEMMA CheckLimitsKeeps ==
  ASSUME FdInv, NEW u \in Users, CheckLimits(u)
  PROVE  FdInv' /\ FDCount' = FDCount /\ maxFDs' = maxFDs
<1>1. PICK limits \in FDLimits : ulimits' = [ulimits EXCEPT ![u] = limits]
  BY DEF CheckLimits
<1>2. /\ upc[u] = "idle" /\ upc' = At(u, "checked", {})
      /\ UNCHANGED <<freeFDs, leasedFDs, minFDs, maxFDs, ufd>>
  BY DEF CheckLimits
<1>3. /\ Asleep' # {} => Asleep # {} /\ Cardinality(Awake') = Cardinality(Awake \ {u}) + 0
      /\ upc' \in [Users -> UserLocations] /\ upc'[u] = "checked"
      /\ \A v \in Users \ {u} : upc'[v] \in {"using", "checked"} => upc'[v] = upc[v]
      /\ \A v \in Users \ {u} : upc[v] = "using" => upc'[v] = "using"
  BY <1>2, WokenAwake, NoneWoken DEF FdInv
<1>4. FdLists' /\ FDCount' = FDCount
  BY <1>2 DEF FdInv, FdLists, Free, FDCount
<1>5. FdUsers'
  <2>1. /\ ulimits' \in [Users -> FDLimits \cup {NoLimits}]
        /\ \A v \in Users : ulimits'[v] = IF v = u THEN limits ELSE ulimits[v]
    BY <1>1 DEF FdInv, FdUsers
  <2>q. QED
    BY <1>2, <1>3, <2>1 DEF FdInv, FdUsers
<1>6. FdAwake'
  <2>1. Cardinality(Awake \ {u}) = Cardinality(Awake) /\ Cardinality(Awake) \in Nat
    BY <1>2, AwakeWithout DEF FdInv
  <2>2. Len(freeFDs) \in Nat /\ (Asleep # {} => Len(freeFDs) <= Cardinality(Awake))
    BY FdFinite DEF FdInv, FdAwake
  <2>3. Asleep' # {} => Len(freeFDs') <= Cardinality(Awake')
    <3> SUFFICES ASSUME Asleep' # {} PROVE Len(freeFDs') <= Cardinality(Awake')
      OBVIOUS
    <3>1. Cardinality(Awake') = Cardinality(Awake) + 0 /\ Asleep # {}
      BY <1>3, <2>1
    <3>2. Len(freeFDs') = Len(freeFDs)
      BY <1>2
    <3>q. QED
      BY <3>1, <3>2, <2>1, <2>2
  <2>q. QED
    BY <2>3 DEF FdAwake
<1>q. QED
  BY <1>2, <1>4, <1>5, <1>6 DEF FdInv

\* What setFDLimits does to where the users are, with n numbers opened or,
\* with n = 0, some closed.
LEMMA LimitsUsers ==
  ASSUME FdInv, NEW u \in Users, SetFDLimits(u), NEW n \in Nat, NEW W \in SUBSET Asleep,
         Woken(W, n), upc' = At(u, "idle", W)
  PROVE  /\ FdUsers'
         /\ Asleep' # {} => Asleep # {} /\ Cardinality(Awake') = Cardinality(Awake) + n
         /\ Cardinality(Awake) \in Nat
<1>1. /\ upc[u] = "checked" /\ maxFDs' = ulimits[u][2]
      /\ ulimits' = [ulimits EXCEPT ![u] = NoLimits]
      /\ UNCHANGED <<leasedFDs, ufd>>
  BY DEF SetFDLimits
<1>2. /\ Asleep' # {} => Asleep # {} /\ Cardinality(Awake') = Cardinality(Awake \ {u}) + n
      /\ upc' \in [Users -> UserLocations] /\ upc'[u] = "idle"
      /\ \A v \in Users \ {u} : upc'[v] \in {"using", "checked"} => upc'[v] = upc[v]
      /\ \A v \in Users \ {u} : upc[v] = "using" => upc'[v] = "using"
  BY <1>1, WokenAwake DEF FdInv
<1>3. maxFDs' \in Nat
  BY <1>1, FDLimitsAssumption DEF FdInv, FdUsers
<1>4. FdUsers'
  <2>1. /\ ulimits' \in [Users -> FDLimits \cup {NoLimits}]
        /\ \A v \in Users : ulimits'[v] = IF v = u THEN NoLimits ELSE ulimits[v]
    BY <1>1 DEF FdInv, FdUsers
  <2>q. QED
    BY <1>1, <1>2, <1>3, <2>1 DEF FdInv, FdUsers
<1>5. Awake \ {u} = Awake /\ Cardinality(Awake) \in Nat
  BY <1>1, AwakeWithout DEF FdInv
<1>q. QED
  BY <1>2, <1>4, <1>5

\* setFDLimits closes or opens descriptors; over the new maximum it leaves the
\* pool only where the leases alone are more.
LEMMA SetLimitsKeeps ==
  ASSUME FdInv, NEW u \in Users, SetFDLimits(u)
  PROVE  FdInv' /\ (FDCount' > maxFDs' => ulimits[u][2] < Cardinality(leasedFDs))
<1> DEFINE low == ulimits[u][1]
           high == ulimits[u][2]
<1>1. /\ upc[u] = "checked" /\ maxFDs' = high
      /\ UNCHANGED <<leasedFDs, ufd>>
  BY DEF SetFDLimits
<1>2. low \in Nat /\ high \in Nat /\ low <= high
  BY <1>1, FDLimitsAssumption DEF FdInv, FdUsers
<1>3. Len(freeFDs) \in Nat /\ Cardinality(leasedFDs) \in Nat
  BY FdFinite DEF FdInv
<1>4. ASSUME FDCount < low, NEW n \in 0..(low - FDCount), NEW W \in SUBSET Asleep, Openable(n),
             Woken(W, n), NEW new \in Opened(Unused, n), freeFDs' = new \o freeFDs,
             upc' = At(u, "idle", W)
      PROVE  FdInv' /\ (FDCount' > maxFDs' => high < Cardinality(leasedFDs))
  <2>1. n \in Nat /\ FDCount + n <= low
    BY <1>2, <1>3, <1>4 DEF FDCount
  <2>2. new \in Seq(Unused) /\ Len(new) = n /\ Distinct(new) /\ Members(new) \subseteq Unused
    <3>1. Unused \subseteq Nat /\ IsFiniteSet(Unused) /\ n <= Cardinality(Unused)
      BY <1>4, FdFinite DEF Openable, FdInv
    <3>q. QED
      BY <2>1, <3>1, OpenedDistinct
  <2>3. new \in Seq(Descriptors) /\ Members(new) \subseteq Unused
    BY <2>2 DEF Unused
  <2>4. /\ freeFDs' \in Seq(Descriptors) /\ Len(freeFDs') = n + Len(freeFDs)
        /\ Distinct(freeFDs') /\ Members(freeFDs') = Members(new) \cup Free
    <3>1. Members(freeFDs) = Free /\ Members(new) \cap Members(freeFDs) = {}
      BY <2>3 DEF Members, Free, Unused
    <3>q. QED
      BY <1>4, <2>2, <2>3, <3>1, ConcatDistinct DEF FdInv, FdLists
  <2>5. FdLists'
    <3>1. Free' = Members(new) \cup Free
      BY <2>4 DEF Free, Members
    <3>2. Free' \cap leasedFDs' = {}
      BY <1>1, <2>3, <3>1 DEF FdInv, FdLists, Unused
    <3>q. QED
      BY <1>1, <2>4, <3>2 DEF FdInv, FdLists
  <2>6. /\ FdUsers' /\ Cardinality(Awake) \in Nat
        /\ Asleep' # {} => Asleep # {} /\ Cardinality(Awake') = Cardinality(Awake) + n
    BY <1>4, <2>1, LimitsUsers
  <2>7. FdAwake'
    BY <1>3, <2>1, <2>4, <2>6 DEF FdInv, FdAwake
  <2>8. FDCount' <= maxFDs'
    BY <1>1, <1>2, <1>3, <2>1, <2>4 DEF FDCount
  <2>9. FDCount' \in Int
    BY <1>1, <1>3, <2>1, <2>4 DEF FDCount
  <2>q. QED
    BY <1>1, <1>2, <2>5, <2>6, <2>7, <2>8, <2>9 DEF FdInv
<1>5. ASSUME ~(FDCount < low), upc' = At(u, "idle", {}),
             freeFDs' = IF FDCount > high THEN SubSeq(freeFDs, FDCount - high + 1, Len(freeFDs)) ELSE freeFDs
      PROVE  FdInv' /\ (FDCount' > maxFDs' => high < Cardinality(leasedFDs))
  <2>1. /\ freeFDs' \in Seq(Descriptors) /\ Distinct(freeFDs') /\ Members(freeFDs') \subseteq Members(freeFDs)
        /\ Len(freeFDs') <= Len(freeFDs) /\ Len(freeFDs') \in Nat
        /\ Len(freeFDs') + Cardinality(leasedFDs) > high => Len(freeFDs') = 0
    <3>1. CASE FDCount > high
      <4> DEFINE m == FDCount - high + 1
      <4>1. m \in Nat \ {0} /\ m = Len(freeFDs) + Cardinality(leasedFDs) - high + 1
        BY <1>2, <1>3, <3>1 DEF FDCount
      <4>2. freeFDs' = SubSeq(freeFDs, m, Len(freeFDs)) /\ freeFDs \in Seq(Descriptors) /\ Distinct(freeFDs)
        BY <1>5, <3>1 DEF FdInv, FdLists
      <4> HIDE DEF m
      <4>3. /\ freeFDs' \in Seq(Descriptors) /\ Distinct(freeFDs')
            /\ Members(freeFDs') \subseteq Members(freeFDs)
            /\ Len(freeFDs') = IF m <= Len(freeFDs) THEN Len(freeFDs) - m + 1 ELSE 0
        BY <4>1, <4>2, EndDistinct
      <4> DEFINE a == Len(freeFDs)
                 b == Len(freeFDs')
                 c == Cardinality(leasedFDs)
      <4>4. /\ m \in Nat \ {0} /\ m = a + c - high + 1 /\ a \in Nat /\ c \in Nat /\ high \in Nat
            /\ b = IF m <= a THEN a - m + 1 ELSE 0
        BY <1>2, <1>3, <4>1, <4>3
      <4>5. b <= a /\ b \in Nat /\ (b + c > high => b = 0)
        <5> HIDE DEF a, b, c, high
        <5> QED BY <4>4
      <4>q. QED
        BY <4>3, <4>5
    <3>2. CASE ~(FDCount > high)
      <4>1. freeFDs' = freeFDs /\ freeFDs \in Seq(Descriptors) /\ Distinct(freeFDs)
        BY <1>5, <3>2 DEF FdInv, FdLists
      <4>2. ~(Len(freeFDs) + Cardinality(leasedFDs) > high)
        BY <3>2 DEF FDCount
      <4> DEFINE c == Cardinality(leasedFDs)
      <4>3. c \in Nat /\ ~(Len(freeFDs') + c > high) /\ Len(freeFDs') \in Nat
        BY <1>3, <4>1, <4>2
      <4> HIDE DEF c, high
      <4>4. /\ freeFDs' \in Seq(Descriptors) /\ Distinct(freeFDs')
            /\ Members(freeFDs') = Members(freeFDs)
            /\ Len(freeFDs') <= Len(freeFDs)
        BY <4>1, <1>3
      <4>q. QED
        BY <4>3, <4>4 DEF c
    <3>q. QED
      BY <3>1, <3>2
  <2>2. FdLists'
    <3>1. Free' \subseteq Free
      BY <2>1 DEF Free, Members
    <3>q. QED
      BY <1>1, <2>1, <3>1 DEF FdInv, FdLists
  <2>3. /\ FdUsers' /\ Cardinality(Awake) \in Nat
        /\ Asleep' # {} => Asleep # {} /\ Cardinality(Awake') = Cardinality(Awake) + 0
    BY <1>5, NoneWoken, LimitsUsers
  <2>4. FdAwake'
    BY <1>3, <2>1, <2>3 DEF FdInv, FdAwake
  <2>5. FDCount' > maxFDs' => high < Cardinality(leasedFDs)
    BY <1>1, <1>2, <1>3, <2>1 DEF FDCount
  <2>q. QED
    BY <2>2, <2>3, <2>4, <2>5 DEF FdInv
<1>6. CASE FDCount < low
  <2>1. \E n \in 0..(low - FDCount), W \in SUBSET Asleep :
          /\ Openable(n) /\ Woken(W, n)
          /\ \E new \in Opened(Unused, n) : freeFDs' = new \o freeFDs
          /\ upc' = At(u, "idle", W)
    BY <1>6 DEF SetFDLimits
  <2>q. QED
    BY <1>4, <1>6, <2>1
<1>7. CASE ~(FDCount < low)
  BY <1>5, <1>7 DEF SetFDLimits
<1>q. QED
  BY <1>6, <1>7

\* closeAll closes the free descriptors of a pool that has no leases.
LEMMA CloseAllKeeps ==
  ASSUME FdInv, NEW u \in Users, CloseAll(u)
  PROVE  FdInv' /\ FDCount' <= maxFDs'
<1>1. /\ leasedFDs = {} /\ freeFDs' = <<>>
      /\ UNCHANGED <<leasedFDs, maxFDs, upc, ufd, ulimits>>
  BY DEF CloseAll
<1>2. FdLists'
  <2>1. <<>> \in Seq(Descriptors) /\ Distinct(<<>>) /\ DOMAIN <<>> = {}
    BY DEF Distinct
  <2>2. Free' = {}
    BY <1>1, <2>1 DEF Free
  <2>q. QED
    BY <1>1, <2>1, <2>2 DEF FdInv, FdLists
<1>3. FdUsers'
  BY <1>1 DEF FdInv, FdUsers
<1>4. FdAwake'
  BY <1>1, UsersFinite DEF FdAwake, Awake
<1>5. FDCount' <= maxFDs'
  BY <1>1, FS_EmptySet DEF FDCount, FdInv, FdUsers
<1>q. QED
  BY <1>2, <1>3, <1>4, <1>5 DEF FdInv

\* The constructor opens the minimum.
LEMMA FdInitial == FileDescInit => FdInv
<1> SUFFICES ASSUME NEW limits \in FDLimits, FileDescInit,
                    minFDs = limits[1], maxFDs = limits[2], freeFDs \in Opened(Descriptors, limits[1])
             PROVE  FdInv
  BY DEF FileDescInit
<1>1. /\ limits[1] \in Nat /\ limits[2] \in Nat /\ limits[1] <= Cardinality(Descriptors)
      /\ Descriptors \subseteq Nat /\ IsFiniteSet(Descriptors)
  BY FDLimitsAssumption
<1>2. freeFDs \in Seq(Descriptors) /\ Distinct(freeFDs)
  BY <1>1, OpenedDistinct
<1>3. /\ leasedFDs = {}
      /\ upc = [u \in Users |-> "idle"] /\ ufd = [u \in Users |-> NoFD]
      /\ ulimits = [u \in Users |-> NoLimits]
  BY DEF FileDescInit
<1>4. FdLists
  BY <1>2, <1>3 DEF FdLists
<1>5. FdUsers
  BY <1>1, <1>3 DEF FdUsers, UserLocations
<1>6. FdAwake
  BY <1>3 DEF FdAwake, Asleep
<1>q. QED
  BY <1>4, <1>5, <1>6 DEF FdInv

\* What every step does: it keeps the invariant, and takes the pool over its
\* maximum only in setFDLimits.
LEMMA FdStep ==
  ASSUME FdInv, [FileDescNext]_poolFdVars
  PROVE  /\ FdInv'
         /\ FDCount' > maxFDs' =>
              \/ FDCount > maxFDs
              \/ \E u \in Users : upc[u] = "checked" /\ ulimits[u][2] < Cardinality(leasedFDs)
<1>0. FDCount \in Nat /\ maxFDs \in Nat
  BY FdFinite DEF FDCount, FdInv, FdUsers
<1>1. ASSUME UNCHANGED poolFdVars PROVE FdInv' /\ FDCount' = FDCount /\ maxFDs' = maxFDs
  <2>1. UNCHANGED <<freeFDs, leasedFDs, minFDs, maxFDs, upc, ufd, ulimits>>
    BY <1>1 DEF poolFdVars
  <2>2. FdLists' /\ FDCount' = FDCount
    BY <2>1 DEF FdInv, FdLists, Free, FDCount
  <2>4. FdUsers'
    BY <2>1 DEF FdInv, FdUsers
  <2>3. FdAwake'
    BY <2>1 DEF FdInv, FdAwake, Asleep, Awake
  <2>q. QED
    BY <2>1, <2>2, <2>3, <2>4 DEF FdInv
<1>2. ASSUME NEW u \in Users, AcquireFdBlocking(u) \/ AcquireFdNonBlocking(u)
      PROVE  FdInv' /\ (FDCount' > maxFDs' => FDCount > maxFDs)
  BY <1>2, AcquireKeeps
<1>3. ASSUME NEW u \in Users, SpuriousFdWakeup(u)
      PROVE  FdInv' /\ FDCount' = FDCount /\ maxFDs' = maxFDs
  BY <1>3, MoveKeeps DEF SpuriousFdWakeup
<1>4. ASSUME NEW u \in Users, ReleaseFd(u) \/ CheckLimits(u)
      PROVE  FdInv' /\ FDCount' = FDCount /\ maxFDs' = maxFDs
  BY <1>4, ReleaseKeeps, CheckLimitsKeeps
<1>5. ASSUME NEW u \in Users, SetFDLimits(u)
      PROVE  /\ FdInv' /\ upc[u] = "checked"
             /\ FDCount' > maxFDs' => ulimits[u][2] < Cardinality(leasedFDs)
  BY <1>5, SetLimitsKeeps DEF SetFDLimits
<1>6. ASSUME NEW u \in Users, CloseAll(u)
      PROVE  FdInv' /\ ~(FDCount' > maxFDs')
  <2>1. FdInv' /\ FDCount' <= maxFDs'
    BY <1>6, CloseAllKeeps
  <2>2. FDCount' \in Int /\ maxFDs' \in Int
    BY <1>6, FS_EmptySet DEF CloseAll, FDCount, FdInv, FdUsers
  <2>q. QED
    BY <2>1, <2>2
<1>7. CASE UNCHANGED poolFdVars
  BY <1>1, <1>7
<1>8. CASE FileDescNext
  <2>1. PICK u \in Users :
          \/ AcquireFdBlocking(u) \/ SpuriousFdWakeup(u) \/ AcquireFdNonBlocking(u)
          \/ ReleaseFd(u) \/ CheckLimits(u) \/ SetFDLimits(u) \/ CloseAll(u)
    BY <1>8 DEF FileDescNext
  <2>2. CASE AcquireFdBlocking(u) \/ AcquireFdNonBlocking(u)
    BY <1>2, <2>2
  <2>3. CASE SpuriousFdWakeup(u)
    BY <1>3, <2>3
  <2>4. CASE ReleaseFd(u) \/ CheckLimits(u)
    BY <1>4, <2>4
  <2>5. CASE SetFDLimits(u)
    BY <1>5, <2>5
  <2>6. CASE CloseAll(u)
    BY <1>6, <2>6
  <2>q. QED
    BY <2>1, <2>2, <2>3, <2>4, <2>5, <2>6
<1>q. QED
  BY <1>7, <1>8

\* The invariant holds in every state.
LEMMA FdInductive == FileDescSpec => []FdInv
<1>1. FdInv /\ [FileDescNext]_poolFdVars => FdInv'
  BY FdStep
<1>q. QED
  BY FdInitial, <1>1, PTL DEF FileDescSpec

(***************************************************************************)
(* FileDescPool::releaseFD signals one waiter for each descriptor it gives *)
(* back, and setFDLimits one for each it opens: however releases, wakings, *)
(* thefts by users who do not wait, and changes of the limits interleave,  *)
(* nobody sleeps beside a free descriptor that no awake user is on its way *)
(* to, and no descriptor is lost or leased to two users.                   *)
(***************************************************************************)
THEOREM NoReleaseLost == FileDescSpec => []SleepersWoken
<1>1. FdInv => SleepersWoken
  <2> SUFFICES ASSUME FdInv PROVE SleepersWoken
    OBVIOUS
  <2>1. Cardinality(Free) = Len(freeFDs)
    BY FdFinite DEF FdInv
  <2>q. QED
    BY <2>1 DEF FdInv, FdLists, FdAwake, SleepersWoken
<1>q. QED
  BY <1>1, FdInductive, PTL

(***************************************************************************)
(* The maximum of a FileDescPool holds in every step but setFDLimits, and  *)
(* there it is passed only if what is leased has outgrown the new maximum  *)
(* between the test, made without the mutex, and the change.               *)
(***************************************************************************)
THEOREM LimitHolds == FileDescSpec => LimitKept
<1>1. FdInv /\ [FileDescNext]_poolFdVars =>
        [FDCount' > maxFDs' =>
           \/ FDCount > maxFDs
           \/ \E u \in Users : upc[u] = "checked" /\ ulimits[u][2] < Cardinality(leasedFDs)
        ]_poolFdVars
  BY FdStep
<1>q. QED
  BY <1>1, FdInductive, PTL DEF FileDescSpec, LimitKept

-----------------------------------------------------------------------------
(* The pool of several files. *)

\* Without its last element a list has all its members but that one.
LEMMA FrontMembers ==
  ASSUME NEW S, NEW list \in Seq(S), list # <<>>, Distinct(list)
  PROVE  LET front == SubSeq(list, 1, Len(list) - 1)
             last == list[Len(list)]
         IN  /\ front \in Seq(S) /\ Distinct(front) /\ last \in S
             /\ Members(list) = Members(front) \cup {last}
             /\ last \notin Members(front)
             /\ Len(front) = Len(list) - 1
<1> DEFINE front == SubSeq(list, 1, Len(list) - 1)
           k == Len(list)
<1>0. k \in Nat \ {0} /\ DOMAIN list = 1..k /\ list[k] \in S /\ \A i \in 1..(k - 1) : list[i] \in S
  OBVIOUS
<1>1. /\ front \in Seq(S) /\ Len(front) = k - 1 /\ k \in Nat \ {0}
      /\ DOMAIN front = 1..(k - 1) /\ DOMAIN list = 1..k
      /\ \A i \in 1..(k - 1) : front[i] = list[i]
      /\ list[k] \in S
  <2>1. /\ front \in Seq(S) /\ Len(front) = k - 1
        /\ \A i \in 1..(k - 1) : front[i] = list[i]
    <3>1. front = [i \in 1..(k - 1) |-> list[i]]
      <4>1. SubSeq(list, 1, k - 1) = [i \in 1..(k - 1) |-> list[i]]
        BY <1>0
      <4>q. QED
        BY <4>1
    <3>q. QED
      BY <1>0, <3>1
  <2>2. DOMAIN front = 1..(k - 1)
    BY <1>0, <2>1
  <2>q. QED
    BY <1>0, <2>1, <2>2
<1> HIDE DEF front, k
<1>2. \A i \in 1..k : i = k \/ i \in 1..(k - 1)
  BY <1>1
<1>3. \A i \in 1..(k - 1) : i \in 1..k /\ i # k
  BY <1>1
<1>4. Distinct(front)
  BY <1>1, <1>3 DEF Distinct
<1>5. Members(list) = Members(front) \cup {list[k]}
  <2>1. Members(front) \subseteq Members(list)
    BY <1>1, <1>3 DEF Members
  <2>2. k \in DOMAIN list
    BY <1>1
  <2>3. list[k] \in Members(list)
    BY <2>2 DEF Members
  <2>4. Members(list) \subseteq Members(front) \cup {list[k]}
    BY <1>1, <1>2 DEF Members
  <2>q. QED
    BY <2>1, <2>3, <2>4
<1>6. list[k] \notin Members(front)
  <2> SUFFICES ASSUME NEW i \in 1..(k - 1), front[i] = list[k] PROVE FALSE
    BY <1>1 DEF Members
  <2>1. list[i] = list[k] /\ i \in DOMAIN list /\ k \in DOMAIN list /\ i # k
    BY <1>1, <1>3
  <2>q. QED
    BY <2>1 DEF Distinct
<1>q. QED
  BY <1>1, <1>4, <1>5, <1>6 DEF front, k

\* A list with one more member at its end.
LEMMA AppendMembers ==
  ASSUME NEW S, NEW list \in Seq(S), Distinct(list), NEW x \in S, x \notin Members(list)
  PROVE  /\ Append(list, x) \in Seq(S) /\ Distinct(Append(list, x))
         /\ Members(Append(list, x)) = Members(list) \cup {x}
         /\ Len(Append(list, x)) = Len(list) + 1
<1> DEFINE longer == Append(list, x)
           k == Len(list)
<1>1. /\ longer \in Seq(S) /\ Len(longer) = k + 1 /\ k \in Nat
      /\ DOMAIN longer = 1..(k + 1) /\ DOMAIN list = 1..k
      /\ \A i \in 1..k : longer[i] = list[i]
      /\ longer[k + 1] = x
  OBVIOUS
<1> HIDE DEF longer, k
<1>2. \A i \in 1..(k + 1) : i = k + 1 \/ i \in 1..k
  BY <1>1
<1>3. \A i \in 1..k : i \in 1..(k + 1)
  BY <1>1
<1>4. \A i \in 1..k : list[i] # x
  BY <1>1 DEF Members
<1>5. Distinct(longer)
  <2> SUFFICES ASSUME NEW i \in 1..(k + 1), NEW j \in 1..(k + 1), longer[i] = longer[j] PROVE i = j
    BY <1>1 DEF Distinct
  <2>q. QED
    BY <1>1, <1>2, <1>4 DEF Distinct
<1>6. Members(longer) = Members(list) \cup {x}
  <2>1. Members(list) \subseteq Members(longer)
    BY <1>1, <1>3 DEF Members
  <2>2. k + 1 \in DOMAIN longer
    BY <1>1
  <2>3. x \in Members(longer)
    BY <1>1, <2>2 DEF Members
  <2>4. Members(longer) \subseteq Members(list) \cup {x}
    BY <1>1, <1>2 DEF Members
  <2>q. QED
    BY <2>1, <2>3, <2>4
<1>q. QED
  BY <1>1, <1>5, <1>6 DEF longer, k

-----------------------------------------------------------------------------
(* The pool over several files: L has each file's leases, N its idle list. *)

\* The descriptors of file f.
Held(L, N, f) == L[f] \cup Members(N[f])

\* How many are open, over all files.
OpenFds(L, N) == SumFunction([f \in Files |-> Cardinality(L[f]) + Len(N[f])])

\* No number is on two lists.
Apart(L, N) ==
  /\ L \in [Files -> SUBSET Numbers] /\ N \in [Files -> Seq(Numbers)]
  /\ \A f \in Files : IsFiniteSet(L[f]) /\ Distinct(N[f]) /\ L[f] \cap Members(N[f]) = {}
  /\ \A f, g \in Files : f # g => Held(L, N, f) \cap Held(L, N, g) = {}

\* Files can be summed over.
LEMMA FilesFinite == IsFiniteSet(Files) /\ Files \subseteq Nat
BY MultiPoolAssumption, FS_Interval DEF Files

\* The files' counts, and what a change at one file does to their sum.
LEMMA CountOneFile ==
  ASSUME NEW L, NEW N, Apart(L, N), NEW K, NEW M, Apart(K, M), NEW f \in Files,
         \A g \in Files \ {f} : K[g] = L[g] /\ M[g] = N[g]
  PROVE  /\ OpenFds(L, N) \in Int
         /\ OpenFds(K, M) = OpenFds(L, N) - (Cardinality(L[f]) + Len(N[f]))
                                          + (Cardinality(K[f]) + Len(M[f]))
<1> DEFINE fun == [g \in Files |-> Cardinality(L[g]) + Len(N[g])]
           gun == [g \in Files |-> Cardinality(K[g]) + Len(M[g])]
<1>1. \A g \in Files : Cardinality(L[g]) \in Nat /\ Len(N[g]) \in Nat
  BY FS_CardinalityType DEF Apart
<1>2. \A g \in Files : Cardinality(K[g]) \in Nat /\ Len(M[g]) \in Nat
  BY FS_CardinalityType DEF Apart
<1>3. \A g \in Files : fun[g] \in Int /\ gun[g] \in Int
  BY <1>1, <1>2
<1>4. \A g \in Files \ {f} : fun[g] = gun[g]
  OBVIOUS
<1>5. /\ fun[f] = Cardinality(L[f]) + Len(N[f]) /\ gun[f] = Cardinality(K[f]) + Len(M[f])
      /\ DOMAIN fun = Files /\ DOMAIN gun = Files
  OBVIOUS
<1>6. OpenFds(L, N) = SumFunctionOnSet(fun, Files) /\ OpenFds(K, M) = SumFunctionOnSet(gun, Files)
  BY DEF OpenFds, SumFunction
<1> HIDE DEF fun, gun
<1>7. SumFunctionOnSet(fun, Files) \in Int
  BY <1>3, FilesFinite, SumTakeOut
<1>8. SumFunctionOnSet(gun, Files) = SumFunctionOnSet(fun, Files) - fun[f] + gun[f]
  <2>1. IsFiniteSet(Files) /\ f \in Files
    BY FilesFinite
  <2>2. \A g \in Files : fun[g] \in Int /\ gun[g] \in Int
    BY <1>3
  <2>3. \A g \in Files \ {f} : fun[g] = gun[g]
    BY <1>4
  <2> HIDE DEF Files
  <2>q. QED
    BY <2>1, <2>2, <2>3, SumChangeOne
<1>q. QED
  BY <1>5, <1>6, <1>7, <1>8

\* The last idle descriptor of a file is taken from its list.
LEMMA DropIdle ==
  ASSUME NEW L, NEW N, Apart(L, N), NEW f \in Files, N[f] # <<>>
  PROVE  LET M == [N EXCEPT ![f] = SubSeq(@, 1, Len(@) - 1)]
             fd == N[f][Len(N[f])]
         IN  /\ Apart(L, M) /\ OpenFds(L, M) = OpenFds(L, N) - 1 /\ OpenFds(L, N) \in Int
             /\ fd \in Numbers /\ \A g \in Files : fd \notin Held(L, M, g)
<1> DEFINE M == [N EXCEPT ![f] = SubSeq(@, 1, Len(@) - 1)]
           fd == N[f][Len(N[f])]
           front == SubSeq(N[f], 1, Len(N[f]) - 1)
<1>1. /\ N[f] \in Seq(Numbers) /\ Distinct(N[f])
      /\ M \in [Files -> Seq(Numbers)] => \A g \in Files \ {f} : M[g] = N[g]
  BY DEF Apart
<1>2. /\ front \in Seq(Numbers) /\ Distinct(front) /\ fd \in Numbers
      /\ Members(N[f]) = Members(front) \cup {fd}
      /\ fd \notin Members(front)
      /\ Len(front) = Len(N[f]) - 1
  BY <1>1, FrontMembers
<1>3. /\ M[f] = front /\ \A g \in Files \ {f} : M[g] = N[g]
      /\ M \in [Files -> Seq(Numbers)]
  BY <1>2 DEF Apart
<1> HIDE DEF M, front, fd
<1>4. /\ Held(L, N, f) = Held(L, M, f) \cup {fd} /\ fd \notin Held(L, M, f)
      /\ \A g \in Files \ {f} : Held(L, M, g) = Held(L, N, g) /\ fd \notin Held(L, N, g)
  BY <1>2, <1>3 DEF Held, Apart
<1>5. Apart(L, M)
  BY <1>2, <1>3, <1>4 DEF Apart
<1>6. Cardinality(L[f]) \in Nat /\ Len(N[f]) \in Nat
  BY FS_CardinalityType DEF Apart
<1>7. /\ OpenFds(L, N) \in Int
      /\ OpenFds(L, M) = OpenFds(L, N) - (Cardinality(L[f]) + Len(N[f])) + (Cardinality(L[f]) + Len(M[f]))
  BY <1>3, <1>5, CountOneFile
<1>8. OpenFds(L, M) = OpenFds(L, N) - 1
  BY <1>2, <1>3, <1>6, <1>7
<1>q. QED
  BY <1>2, <1>4, <1>5, <1>7, <1>8 DEF M, fd

\* A descriptor on no list is put on a file's idle list.
LEMMA AddIdle ==
  ASSUME NEW L, NEW N, Apart(L, N), NEW f \in Files, NEW fd \in Numbers,
         \A g \in Files : fd \notin Held(L, N, g)
  PROVE  LET M == [N EXCEPT ![f] = Append(@, fd)]
         IN  Apart(L, M) /\ OpenFds(L, M) = OpenFds(L, N) + 1
<1> DEFINE M == [N EXCEPT ![f] = Append(@, fd)]
           longer == Append(N[f], fd)
<1>1. N[f] \in Seq(Numbers) /\ Distinct(N[f]) /\ fd \notin Members(N[f])
  BY DEF Apart, Held
<1>2. /\ longer \in Seq(Numbers) /\ Distinct(longer)
      /\ Members(longer) = Members(N[f]) \cup {fd} /\ Len(longer) = Len(N[f]) + 1
  BY <1>1, AppendMembers
<1>3. /\ M[f] = longer /\ \A g \in Files \ {f} : M[g] = N[g]
      /\ M \in [Files -> Seq(Numbers)]
  BY <1>2 DEF Apart
<1> HIDE DEF M, longer
<1>4. /\ Held(L, M, f) = Held(L, N, f) \cup {fd}
      /\ \A g \in Files \ {f} : Held(L, M, g) = Held(L, N, g) /\ fd \notin Held(L, N, g)
  BY <1>2, <1>3 DEF Held, Apart
<1>5. Apart(L, M)
  <2>1. L[f] \cap Members(longer) = {}
    BY <1>2 DEF Apart, Held
  <2>2. \A g, h \in Files : g # h => Held(L, M, g) \cap Held(L, M, h) = {}
    <3> SUFFICES ASSUME NEW g \in Files, NEW h \in Files, g # h
                 PROVE  Held(L, M, g) \cap Held(L, M, h) = {}
      OBVIOUS
    <3>1. Held(L, N, g) \cap Held(L, N, h) = {} /\ fd \notin Held(L, N, g) /\ fd \notin Held(L, N, h)
      BY DEF Apart
    <3>2. g = f \/ Held(L, M, g) = Held(L, N, g)
      BY <1>4
    <3>3. h = f \/ Held(L, M, h) = Held(L, N, h)
      BY <1>4
    <3>q. QED
      BY <1>4, <3>1, <3>2, <3>3
  <2>q. QED
    BY <1>2, <1>3, <2>1, <2>2 DEF Apart
<1>6. Cardinality(L[f]) \in Nat /\ Len(N[f]) \in Nat
  BY FS_CardinalityType DEF Apart
<1>7. /\ OpenFds(L, N) \in Int
      /\ OpenFds(L, M) = OpenFds(L, N) - (Cardinality(L[f]) + Len(N[f])) + (Cardinality(L[f]) + Len(M[f]))
  BY <1>3, <1>5, CountOneFile
<1>8. OpenFds(L, M) = OpenFds(L, N) + 1
  BY <1>2, <1>3, <1>6, <1>7
<1>q. QED
  BY <1>5, <1>8 DEF M

\* A lease of a file ends.
LEMMA DropLease ==
  ASSUME NEW L, NEW N, Apart(L, N), NEW f \in Files, NEW fd \in L[f]
  PROVE  LET K == [L EXCEPT ![f] = @ \ {fd}]
         IN  /\ Apart(K, N) /\ OpenFds(K, N) = OpenFds(L, N) - 1 /\ OpenFds(L, N) \in Int
             /\ fd \in Numbers /\ \A g \in Files : fd \notin Held(K, N, g)
<1> DEFINE K == [L EXCEPT ![f] = @ \ {fd}]
<1>1. /\ K[f] = L[f] \ {fd} /\ \A g \in Files \ {f} : K[g] = L[g]
      /\ K \in [Files -> SUBSET Numbers] /\ fd \in Numbers
  BY DEF Apart
<1>2. /\ IsFiniteSet(K[f]) /\ Cardinality(K[f]) = Cardinality(L[f]) - 1
      /\ Cardinality(L[f]) \in Nat /\ Len(N[f]) \in Nat
  BY <1>1, FS_RemoveElement, FS_CardinalityType DEF Apart
<1> HIDE DEF K
<1>3. /\ Held(L, N, f) = Held(K, N, f) \cup {fd} /\ fd \notin Held(K, N, f)
      /\ \A g \in Files \ {f} : Held(K, N, g) = Held(L, N, g) /\ fd \notin Held(L, N, g)
  BY <1>1 DEF Held, Apart
<1>4. Apart(K, N)
  BY <1>1, <1>2, <1>3 DEF Apart
<1>5. /\ OpenFds(L, N) \in Int
      /\ OpenFds(K, N) = OpenFds(L, N) - (Cardinality(L[f]) + Len(N[f])) + (Cardinality(K[f]) + Len(N[f]))
  <2>1. \A g \in Files \ {f} : K[g] = L[g] /\ N[g] = N[g]
    BY <1>1
  <2>q. QED
    BY <1>4, <2>1, CountOneFile
<1>6. OpenFds(K, N) = OpenFds(L, N) - 1
  BY <1>2, <1>5
<1>q. QED
  BY <1>1, <1>3, <1>4, <1>5, <1>6 DEF K

\* A descriptor on no list is leased.
LEMMA AddLease ==
  ASSUME NEW L, NEW N, Apart(L, N), NEW f \in Files, NEW fd \in Numbers,
         \A g \in Files : fd \notin Held(L, N, g)
  PROVE  LET K == [L EXCEPT ![f] = @ \cup {fd}]
         IN  Apart(K, N) /\ OpenFds(K, N) = OpenFds(L, N) + 1
<1> DEFINE K == [L EXCEPT ![f] = @ \cup {fd}]
<1>1. /\ K[f] = L[f] \cup {fd} /\ \A g \in Files \ {f} : K[g] = L[g]
      /\ K \in [Files -> SUBSET Numbers]
  BY DEF Apart
<1>2. /\ IsFiniteSet(K[f]) /\ Cardinality(K[f]) = Cardinality(L[f]) + 1
      /\ Cardinality(L[f]) \in Nat /\ Len(N[f]) \in Nat
  BY <1>1, FS_AddElement, FS_CardinalityType DEF Apart, Held
<1> HIDE DEF K
<1>3. /\ Held(K, N, f) = Held(L, N, f) \cup {fd}
      /\ \A g \in Files \ {f} : Held(K, N, g) = Held(L, N, g) /\ fd \notin Held(L, N, g)
  BY <1>1 DEF Held, Apart
<1>4. Apart(K, N)
  <2>1. K[f] \cap Members(N[f]) = {}
    BY <1>1 DEF Apart, Held
  <2>2. \A g, h \in Files : g # h => Held(K, N, g) \cap Held(K, N, h) = {}
    <3> SUFFICES ASSUME NEW g \in Files, NEW h \in Files, g # h
                 PROVE  Held(K, N, g) \cap Held(K, N, h) = {}
      OBVIOUS
    <3>1. Held(L, N, g) \cap Held(L, N, h) = {} /\ fd \notin Held(L, N, g) /\ fd \notin Held(L, N, h)
      BY DEF Apart
    <3>2. g = f \/ Held(K, N, g) = Held(L, N, g)
      BY <1>3
    <3>3. h = f \/ Held(K, N, h) = Held(L, N, h)
      BY <1>3
    <3>q. QED
      BY <1>3, <3>1, <3>2, <3>3
  <2>q. QED
    BY <1>1, <1>2, <2>1, <2>2 DEF Apart
<1>5. /\ OpenFds(L, N) \in Int
      /\ OpenFds(K, N) = OpenFds(L, N) - (Cardinality(L[f]) + Len(N[f])) + (Cardinality(K[f]) + Len(N[f]))
  <2>1. \A g \in Files \ {f} : K[g] = L[g] /\ N[g] = N[g]
    BY <1>1
  <2>q. QED
    BY <1>4, <2>1, CountOneFile
<1>6. OpenFds(K, N) = OpenFds(L, N) + 1
  BY <1>2, <1>5
<1>q. QED
  BY <1>4, <1>6 DEF K

-----------------------------------------------------------------------------
\* The inductive invariant of MultiFileDescPool.
MultiInv ==
  /\ Apart(multiLeased, nonLeased)
  /\ OpenFds(multiLeased, nonLeased) <= MaxFdsInPool

\* What the code counts is this sum.
LEMMA CountIsOpenFds == NumOpenFds = OpenFds(multiLeased, nonLeased)
BY DEF NumOpenFds, OpenFds, OpenOf

\* The sum is a number.
LEMMA CountIsInt ==
  ASSUME MultiInv
  PROVE  OpenFds(multiLeased, nonLeased) \in Int /\ MaxFdsInPool \in Nat
<1> DEFINE fun == [f \in Files |-> Cardinality(multiLeased[f]) + Len(nonLeased[f])]
<1>1. \A f \in Files : fun[f] \in Int
  BY FS_CardinalityType DEF MultiInv, Apart
<1>2. OpenFds(multiLeased, nonLeased) = SumFunctionOnSet(fun, Files)
  BY DEF OpenFds, SumFunction
<1> HIDE DEF fun
<1>q. QED
  BY <1>1, <1>2, FilesFinite, SumTakeOut, MultiPoolAssumption

\* The file to evict from has something idle.
LEMMA EvictionFound ==
  ASSUME MultiInv, Evictable # {}
  PROVE  ForEviction \in Files /\ nonLeased[ForEviction] # <<>>
<1> DEFINE sizes == {Cardinality(multiLeased[f]) : f \in Evictable}
           fewest == Min(sizes)
           first == {f \in Evictable : Cardinality(multiLeased[f]) = fewest}
<1>1. Evictable \subseteq Files
  BY DEF Evictable
<1>2. sizes \subseteq Nat /\ sizes # {}
  BY <1>1, FS_CardinalityType DEF MultiInv, Apart
<1>3. fewest \in sizes
  <2> HIDE DEF sizes
  <2> QED BY <1>2, MinIsLeast
<1>4. first # {} /\ first \subseteq Nat
  BY <1>1, <1>3, FilesFinite
<1>5. ForEviction = Min(first)
  BY DEF ForEviction
<1>6. Min(first) \in first
  <2> HIDE DEF first
  <2> QED BY <1>4, MinIsLeast
<1>q. QED
  BY <1>5, <1>6 DEF Evictable

\* acquireFD with an idle descriptor of the file.
LEMMA ReuseKeeps ==
  ASSUME MultiInv, NEW f \in Files, Reuse(f)
  PROVE  MultiInv'
<1> DEFINE M == [nonLeased EXCEPT ![f] = SubSeq(@, 1, Len(@) - 1)]
           fd == nonLeased[f][Len(nonLeased[f])]
           K == [multiLeased EXCEPT ![f] = @ \cup {fd}]
           n == OpenFds(multiLeased, nonLeased)
<1>1. nonLeased[f] # <<>> /\ multiLeased' = K /\ nonLeased' = M
  BY DEF Reuse
<1>2. /\ Apart(multiLeased, M) /\ OpenFds(multiLeased, M) = n - 1 /\ n \in Int
      /\ fd \in Numbers /\ \A g \in Files : fd \notin Held(multiLeased, M, g)
  BY <1>1, DropIdle DEF MultiInv
<1>3. Apart(K, M) /\ OpenFds(K, M) = OpenFds(multiLeased, M) + 1
  <2> HIDE DEF M, fd
  <2> QED BY <1>2, AddLease
<1>4. OpenFds(K, M) = n
  <2> HIDE DEF K, M, n
  <2> QED BY <1>2, <1>3
<1>q. QED
  BY <1>1, <1>3, <1>4 DEF MultiInv

\* A descriptor is opened only when one was evicted or the limit is not met.
LEMMA OpenKeeps ==
  ASSUME MultiInv, NEW f \in Files, Open(f)
  PROVE  MultiInv'
<1> DEFINE n == OpenFds(multiLeased, nonLeased)
           m == OpenFds(multiLeased, nonLeased')
<1>1. n \in Int /\ MaxFdsInPool \in Nat /\ n <= MaxFdsInPool /\ NumOpenFds = n
  BY CountIsInt, CountIsOpenFds DEF MultiInv
<1>2. Apart(multiLeased, nonLeased') /\ m \in Int /\ m < MaxFdsInPool
  <2>1. CASE AtCapacity
    <3> DEFINE M == [nonLeased EXCEPT ![ForEviction] = SubSeq(@, 1, Len(@) - 1)]
    <3>1. nonLeased' = M /\ ForEviction \in Files /\ nonLeased[ForEviction] # <<>>
      BY <2>1, EvictionFound DEF Open
    <3>2. Apart(multiLeased, M) /\ OpenFds(multiLeased, M) = n - 1
      BY <3>1, DropIdle DEF MultiInv
    <3> HIDE DEF M, n
    <3>3. m = n - 1
      BY <3>1, <3>2
    <3>q. QED
      BY <1>1, <3>1, <3>2, <3>3
  <2>2. CASE ~AtCapacity
    <3>1. nonLeased' = nonLeased /\ n # MaxFdsInPool
      BY <1>1, <2>2 DEF Open, AtCapacity
    <3>2. m = n /\ Apart(multiLeased, nonLeased')
      BY <3>1 DEF MultiInv
    <3> HIDE DEF m, n
    <3>q. QED
      BY <1>1, <3>1, <3>2
  <2>q. QED
    BY <2>1, <2>2
<1> DEFINE inUse == UNION {multiLeased[g] \cup {nonLeased'[g][i] : i \in DOMAIN nonLeased'[g]} : g \in Files}
           fd == Min(Numbers \ inUse)
           K == [multiLeased EXCEPT ![f] = @ \cup {fd}]
<1>3. CASE Numbers \ inUse # {} /\ multiLeased' = K
  <2>1. Numbers \ inUse \subseteq Nat
    BY MultiPoolAssumption
  <2>2. fd \in Numbers \ inUse
    <3> HIDE DEF inUse
    <3> QED BY <1>3, <2>1, MinIsLeast
  <2>3. \A g \in Files : fd \notin Held(multiLeased, nonLeased', g)
    <3> HIDE DEF fd
    <3> QED BY <2>2 DEF Held, Members
  <2>4. fd \in Numbers
    BY <2>2
  <2> HIDE DEF fd
  <2>5. Apart(K, nonLeased') /\ OpenFds(K, nonLeased') = m + 1
    BY <1>2, <2>3, <2>4, AddLease
  <2> HIDE DEF m, K
  <2>6. OpenFds(K, nonLeased') <= MaxFdsInPool
    BY <1>1, <1>2, <2>5
  <2>q. QED
    BY <1>3, <2>5, <2>6 DEF MultiInv
<1>4. CASE multiLeased' = multiLeased
  <2>1. m <= MaxFdsInPool
    <3> HIDE DEF m
    <3> QED BY <1>1, <1>2
  <2>q. QED
    BY <1>2, <1>4, <2>1 DEF MultiInv
<1>q. QED
  BY <1>3, <1>4 DEF Open

\* releaseFD keeps the descriptor open, as the latest idle one of its file.
LEMMA ReleaseMultiKeeps ==
  ASSUME MultiInv, NEW f \in Files, ReleaseMultiFd(f)
  PROVE  MultiInv'
<1>1. PICK fd \in multiLeased[f] :
        /\ multiLeased' = [multiLeased EXCEPT ![f] = @ \ {fd}]
        /\ nonLeased' = [nonLeased EXCEPT ![f] = Append(@, fd)]
  BY DEF ReleaseMultiFd
<1> DEFINE K == [multiLeased EXCEPT ![f] = @ \ {fd}]
           M == [nonLeased EXCEPT ![f] = Append(@, fd)]
           n == OpenFds(multiLeased, nonLeased)
<1>2. /\ Apart(K, nonLeased) /\ OpenFds(K, nonLeased) = n - 1 /\ n \in Int
      /\ fd \in Numbers /\ \A g \in Files : fd \notin Held(K, nonLeased, g)
  BY DropLease DEF MultiInv
<1>3. Apart(K, M) /\ OpenFds(K, M) = OpenFds(K, nonLeased) + 1
  <2> HIDE DEF K
  <2> QED BY <1>2, AddIdle
<1>4. OpenFds(K, M) = n
  <2> HIDE DEF K, M, n
  <2> QED BY <1>2, <1>3
<1>q. QED
  BY <1>1, <1>3, <1>4 DEF MultiInv

\* A new pool has nothing open.
LEMMA MultiInitial == FdMultiInit => MultiInv
<1> SUFFICES ASSUME FdMultiInit PROVE MultiInv
  OBVIOUS
<1>1. multiLeased = [f \in Files |-> {}] /\ nonLeased = [f \in Files |-> <<>>]
  BY DEF FdMultiInit
<1>2. /\ IsFiniteSet({}) /\ Cardinality({}) = 0
      /\ Distinct(<<>>) /\ Members(<<>>) = {}
  BY FS_EmptySet DEF Distinct, Members
<1>3. Apart(multiLeased, nonLeased)
  BY <1>1, <1>2 DEF Apart, Held
<1> DEFINE fun == [f \in Files |-> Cardinality(multiLeased[f]) + Len(nonLeased[f])]
<1>4. \A f \in Files : fun[f] = 0 /\ Cardinality(multiLeased[f]) = 0
  BY <1>1, <1>2
<1>5. OpenFds(multiLeased, nonLeased) = SumFunctionOnSet(fun, Files)
  BY DEF OpenFds, SumFunction
<1> HIDE DEF fun
<1>6. SumFunctionOnSet(fun, Files) = 0
  BY <1>4, FilesFinite, SumZero
<1>q. QED
  BY <1>3, <1>5, <1>6, MultiPoolAssumption DEF MultiInv

\* The invariant holds in every state.
LEMMA MultiInductive == FdMultiSpec => []MultiInv
<1>1. ASSUME MultiInv, [FdMultiNext]_multiVars PROVE MultiInv'
  <2>1. CASE UNCHANGED multiVars
    BY <1>1, <2>1 DEF MultiInv, multiVars
  <2>2. ASSUME NEW f \in Files, AcquireFd(f) \/ ReleaseMultiFd(f) PROVE MultiInv'
    BY <1>1, <2>2, ReuseKeeps, OpenKeeps, ReleaseMultiKeeps DEF AcquireFd
  <2>3. CASE CloseMultiPool
    BY <1>1, <2>3 DEF CloseMultiPool, MultiInv
  <2>q. QED
    BY <1>1, <2>1, <2>2, <2>3 DEF FdMultiNext
<1>q. QED
  BY MultiInitial, <1>1, PTL DEF FdMultiSpec

(***************************************************************************)
(* For every number of files and every limit: whatever is leased, given    *)
(* back, evicted and opened again under the same number, MultiFileDescPool *)
(* never has more files open than _maxFdsInPool, and no number is on two   *)
(* of its lists.                                                           *)
(***************************************************************************)
THEOREM BudgetKept == FdMultiSpec => []MultiPoolBudget
<1>1. ASSUME MultiInv PROVE MultiPoolBudget
  <2> DEFINE fam == [f \in Files |-> multiLeased[f] \cup Idle(f)]
             fun == [f \in Files |-> OpenOf(f)]
  <2>1. \A f \in Files : fam[f] = Held(multiLeased, nonLeased, f)
    BY DEF Idle, Held, Members
  <2>2. \A f, g \in Files : f # g => fam[f] \cap fam[g] = {}
    <3> HIDE DEF fam
    <3> QED BY <1>1, <2>1 DEF MultiInv, Apart
  <2>3. ASSUME NEW f \in Files PROVE IsFiniteSet(fam[f]) /\ fun[f] = Cardinality(fam[f])
    <3> DEFINE A == multiLeased[f]
               B == Idle(f)
    <3>1. IsFiniteSet(A) /\ A \cap B = {}
      BY <1>1 DEF MultiInv, Apart, Idle, Members
    <3>2. IsFiniteSet(B) /\ Cardinality(B) = Len(nonLeased[f])
      BY <1>1, DistinctCount DEF MultiInv, Apart, Idle, Members
    <3>3. fam[f] = A \cup B /\ fun[f] = Cardinality(A) + Cardinality(B)
      BY <3>2 DEF OpenOf
    <3> HIDE DEF A, B, fam, fun
    <3>4. /\ IsFiniteSet(A \cup B)
          /\ Cardinality(A \cup B) = Cardinality(A) + Cardinality(B) - Cardinality(A \cap B)
      BY <3>1, <3>2, FS_Union
    <3>5. Cardinality(A \cap B) = 0 /\ Cardinality(A) \in Nat /\ Cardinality(B) \in Nat
      BY <3>1, <3>2, FS_EmptySet, FS_CardinalityType
    <3>q. QED
      BY <3>3, <3>4, <3>5
  <2>4. SumFunctionOnSet(fun, Files) = Cardinality(UNION {fam[f] : f \in Files})
    <3>1. \A f \in Files : IsFiniteSet(fam[f]) /\ fun[f] = Cardinality(fam[f])
      <4> HIDE DEF fam, fun
      <4> QED BY <2>3
    <3>2. IsFiniteSet(Files)
      BY FilesFinite
    <3> HIDE DEF fam, fun, Files
    <3> QED BY <2>2, <3>1, <3>2, SumCards
  <2>5. UNION {fam[f] : f \in Files} = UNION {multiLeased[f] \cup Idle(f) : f \in Files}
    OBVIOUS
  <2>6. NumOpenFds = SumFunctionOnSet(fun, Files)
    BY DEF NumOpenFds, SumFunction
  <2>7. NumOpenFds <= MaxFdsInPool
    BY <1>1, CountIsOpenFds DEF MultiInv
  <2>q. QED
    BY <2>4, <2>5, <2>6, <2>7 DEF MultiPoolBudget
<1>q. QED
  BY <1>1, MultiInductive, PTL
=============================================================================
