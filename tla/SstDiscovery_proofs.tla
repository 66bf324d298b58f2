------------------------- MODULE SstDiscovery_proofs -------------------------
(***************************************************************************)
(* Invariants of SST discovery, for any number of CPUs, of walks inside    *)
(* one another and of failing PECI commands, and of the mailbox protocol   *)
(* behind its commands, for any levels, any number of attempts and any     *)
(* number of faults, changes and other users.                              *)
(***************************************************************************)
EXTENDS SstDiscovery, SstMailbox, TLAPS

\* A walk has left something for every capable CPU that it is past.
Walked(f) == \A c \in Capable : c < f.cpu => f.list[c] # "none"

CallsWalked == \A k \in 1..Len(calls) : Walked(calls[k])

\* The invariant that the steps preserve.
SstInv == SstTypeOK /\ CallsWalked /\ NoLostRetry /\ NothingPartial

-----------------------------------------------------------------------------
\* The innermost walk and the ones it interrupted are calls that have walked as far
\* as they say.
LEMMA TopAndOuter ==
    ASSUME SstTypeOK, CallsWalked, calls # << >>
    PROVE  /\ Len(calls) \in Nat \ {0}
           /\ Top \in Call /\ Walked(Top)
           /\ Outer \in Seq(Call)
           /\ \A k \in 1..Len(Outer) : Walked(Outer[k])
<1>1. Len(calls) \in Nat \ {0} /\ Len(calls) \in 1..Len(calls)
  BY DEF SstTypeOK
<1>2. Top \in Call /\ Walked(Top)
  BY <1>1 DEF SstTypeOK, CallsWalked, Top
<1>3. Outer \in Seq(Call)
  BY <1>1 DEF SstTypeOK, Outer
<1>4. ASSUME NEW k \in 1..Len(Outer)
      PROVE  Walked(Outer[k])
  <2>1. Len(Outer) = Len(calls) - 1 /\ Outer[k] = calls[k]
    BY <1>1 DEF SstTypeOK, Outer
  <2>. QED
    BY <1>1, <2>1 DEF CallsWalked
<1>. QED
  BY <1>1, <1>2, <1>3, <1>4

\* The walks that are interrupted are the calls below the innermost.
LEMMA OuterOf ==
    ASSUME SstTypeOK, calls # << >>
    PROVE  Len(Outer) = Len(calls) - 1 /\ \A k \in 1..Len(Outer) : Outer[k] = calls[k]
<1>1. calls \in Seq(Call) /\ Len(calls) \in Nat \ {0}
  BY DEF SstTypeOK
<1>2. Len(Outer) = Len(calls) - 1
  <2>. DEFINE n == Len(calls) - 1
  <2>1. n \in Nat /\ n <= Len(calls)
    BY <1>1
  <2>2. Outer = SubSeq(calls, 1, n)
    BY DEF Outer
  <2>. HIDE DEF n
  <2>3. Len(Outer) = n
    BY <1>1, <2>1, <2>2
  <2>. QED
    BY <2>3 DEF n
<1>3. ASSUME NEW k \in 1..(Len(calls) - 1)
      PROVE  Outer[k] = calls[k]
  BY <1>1 DEF Outer
<1>. QED
  BY <1>2, <1>3

\* Replacing the innermost walk by one that has walked as far as it says.
LEMMA ReplaceTop ==
    ASSUME SstTypeOK, CallsWalked, calls # << >>, NEW f \in Call, Walked(f),
           calls' = [calls EXCEPT ![Len(calls)] = f]
    PROVE  calls' \in Seq(Call) /\ CallsWalked' /\ calls' # << >>
<1>1. Len(calls) \in Nat \ {0} /\ calls' \in Seq(Call) /\ Len(calls') = Len(calls)
  BY TopAndOuter DEF SstTypeOK
<1>2. ASSUME NEW k \in 1..Len(calls)
      PROVE  Walked(calls'[k])
  <2>1. calls'[k] = IF k = Len(calls) THEN f ELSE calls[k]
    BY <1>1, <1>2 DEF SstTypeOK
  <2>2. Walked(calls[k])
    BY <1>2 DEF CallsWalked
  <2>. QED
    BY <2>1, <2>2
<1>3. CallsWalked'
  BY <1>1, <1>2 DEF CallsWalked, Walked
<1>. QED
  BY <1>1, <1>3

\* A process that was just started: nothing runs, nothing is published.
LEMMA NothingRuns ==
    /\ Empty \in List
    /\ << >> \in Seq(Call)
    /\ 1..Len(<< >>) = {}
  BY DEF Empty, List, Object

\* discoverOrWait starts a walk with an empty list and unpublishes.
LEMMA DiscoverOrWaitInv ==
    ASSUME SstInv, DiscoverOrWait
    PROVE  /\ calls' \in Seq(Call) /\ CallsWalked' /\ calls' # << >>
           /\ timer' \in BOOLEAN /\ cpus' \in List /\ finished' = FALSE
<1>. DEFINE f == [cpu |-> 0, polling |-> TRUE, list |-> Empty]
<1>1. f \in Call /\ Walked(f)
  BY SstAssumption DEF Call, Empty, List, Object, Walked, Cpu
<1>2. calls' = Append(calls, f)
  BY DEF DiscoverOrWait
<1>. HIDE DEF f
<1>3. calls \in Seq(Call)
  BY DEF SstInv, SstTypeOK
<1>4. /\ calls' \in Seq(Call) /\ Len(calls') = Len(calls) + 1
      /\ calls'[Len(calls) + 1] = f
      /\ \A k \in 1..Len(calls) : calls'[k] = calls[k]
  BY <1>1, <1>2, <1>3
<1>5. CallsWalked'
  <2>. SUFFICES ASSUME NEW k \in 1..Len(calls')
                PROVE  Walked(calls'[k])
    BY DEF CallsWalked, Walked
  <2>1. k \in 1..Len(calls) \/ k = Len(calls) + 1
    BY <1>3, <1>4
  <2>. QED
    BY <1>1, <1>4, <2>1 DEF SstInv, CallsWalked
<1>6. calls' # << >>
  BY <1>3, <1>4
<1>7. timer' \in BOOLEAN /\ cpus' \in List /\ finished' = FALSE
  BY DEF DiscoverOrWait, Empty, List, Object
<1>. QED
  BY <1>4, <1>5, <1>6, <1>7

\* A walk that goes on has left something for the CPU it leaves.
LEMMA GoOnInv ==
    ASSUME SstInv, AtCpu, NEW list \in List, GoOn(list),
           \A c \in Capable : c < Top.cpu => list[c] = Top.list[c],
           Top.cpu \in Capable => list[Top.cpu] # "none"
    PROVE  calls' \in Seq(Call) /\ CallsWalked' /\ calls' # << >>
<1>. DEFINE f == [cpu |-> Top.cpu + 1, polling |-> Top.cpu + 1 < NumCpus,
                  list |-> list]
<1>1. calls # << >> /\ Top.cpu \in Cpu /\ SstTypeOK /\ CallsWalked
  BY DEF AtCpu, SstInv
<1>2. Top \in Call /\ Walked(Top)
  BY <1>1, TopAndOuter
<1>3. f \in Call
  BY <1>1, SstAssumption DEF Call, Cpu
<1>4. ASSUME NEW c \in Capable, c < Top.cpu + 1
      PROVE  list[c] # "none"
  <2>1. c < Top.cpu \/ c = Top.cpu
    BY <1>1, <1>4, SstAssumption DEF Cpu
  <2>. QED
    BY <1>2, <2>1 DEF Walked
<1>5. Walked(f)
  BY <1>4 DEF Walked
<1>6. calls' = [calls EXCEPT ![Len(calls)] = f]
  BY DEF GoOn, Top
<1>. HIDE DEF f
<1>. QED
  BY <1>1, <1>3, <1>5, <1>6, ReplaceTop

\* Aging keeps a list a list, and leaves an object where there was one.
LEMMA AgeInv ==
    ASSUME NEW list \in List
    PROVE  /\ Age(list) \in List
           /\ \A c \in Cpu : list[c] # "none" => Age(list)[c] # "none"
  BY DEF Age, List, Object

-----------------------------------------------------------------------------
\* The power-off of the host.
LEMMA HostOffInv ==
    ASSUME SstInv, HostOff
    PROVE  SstInv'
<1>1. calls \in Seq(Call) /\ cpus \in List
  BY DEF SstInv, SstTypeOK
<1>2. ASSUME NEW k \in 1..Len(calls)
      PROVE  /\ [calls[k] EXCEPT !.list = Age(@)] \in Call
             /\ Walked([calls[k] EXCEPT !.list = Age(@)])
  <2>1. calls[k] \in Call /\ Walked(calls[k])
    BY <1>1, <1>2 DEF SstInv, CallsWalked
  <2>2. calls[k].list \in List /\ Capable \subseteq Cpu
    BY <2>1, SstAssumption DEF Call
  <2>. QED
    BY <2>1, <2>2, AgeInv DEF Call, Walked
<1>3. Len(calls) \in Nat
  BY <1>1
<1>4. calls' = [k \in 1..Len(calls) |-> [calls[k] EXCEPT !.list = Age(@)]]
  BY DEF HostOff
<1>5. calls' \in Seq(Call) /\ Len(calls') = Len(calls)
  BY <1>2, <1>3, <1>4
<1>6. CallsWalked'
  <2>. SUFFICES ASSUME NEW k \in 1..Len(calls')
                PROVE  Walked(calls'[k])
    BY DEF CallsWalked, Walked
  <2>. QED
    BY <1>2, <1>4, <1>5
<1>7. cpus' \in List /\ \A c \in Cpu : cpus[c] # "none" => cpus'[c] # "none"
  BY <1>1, AgeInv DEF HostOff
<1>8. SstTypeOK'
  BY <1>5, <1>7 DEF HostOff, SstInv, SstTypeOK
<1>9. NoLostRetry' /\ NothingPartial'
  BY <1>7, SstAssumption DEF HostOff, SstInv, NoLostRetry, NothingPartial
<1>. QED
  BY <1>6, <1>8, <1>9 DEF SstInv

\* A walk begins, because the host is powered on or a retry is due.
LEMMA BeginInv ==
    ASSUME SstInv, HostOn \/ Retry
    PROVE  SstInv'
<1>1. DiscoverOrWait
  BY DEF HostOn, Retry
<1>2. /\ calls' \in Seq(Call) /\ CallsWalked' /\ calls' # << >>
      /\ timer' \in BOOLEAN /\ cpus' \in List /\ finished' = FALSE
  BY <1>1, DiscoverOrWaitInv
<1>3. SstTypeOK'
  BY <1>2 DEF HostOn, Retry, SstInv, SstTypeOK
<1>. QED
  BY <1>2, <1>3 DEF SstInv, NoLostRetry, NothingPartial

\* The retry timer expires.
LEMMA ExpireInv ==
    ASSUME SstInv, Expire
    PROVE  SstInv'
  BY DEF SstInv, SstTypeOK, CallsWalked, Walked, NoLostRetry, NothingPartial, Expire

\* Discovery fails and arms the retry timer.
LEMMA ReturnFalseInv ==
    ASSUME SstInv, calls # << >>, ReturnFalse, errors' \in Nat,
           faults' \in 0..MaxFaults
    PROVE  SstInv'
<1>1. Outer \in Seq(Call) /\ \A k \in 1..Len(Outer) : Walked(Outer[k])
  BY TopAndOuter DEF SstInv
<1>2. calls' = Outer /\ timer' = TRUE
  BY DEF ReturnFalse, NotFinished
<1>3. CallsWalked'
  BY <1>1, <1>2 DEF CallsWalked, Walked
<1>4. SstTypeOK'
  BY <1>1, <1>2 DEF ReturnFalse, SstInv, SstTypeOK
<1>. QED
  BY <1>2, <1>3, <1>4 DEF ReturnFalse, SstInv, NoLostRetry, NothingPartial

\* The steps that go on with the next CPU.
LEMMA StageSkipInv ==
    ASSUME SstInv, Stage \/ Skip \/ BadId
    PROVE  SstInv'
<1>1. AtCpu /\ calls # << >> /\ Top.cpu \in Cpu
  BY DEF Stage, Skip, BadId, Fault, AtCpu
<1>2. Top \in Call /\ Top.list \in List
  BY <1>1, TopAndOuter DEF SstInv, Call
<1>3. PICK list \in List :
          /\ GoOn(list)
          /\ \A c \in Capable : c < Top.cpu => list[c] = Top.list[c]
          /\ Top.cpu \in Capable => list[Top.cpu] # "none"
  <2>. DEFINE put(o) == [Top.list EXCEPT ![Top.cpu] = o]
  <2>1. ASSUME NEW o \in Object
        PROVE  /\ put(o) \in List
               /\ put(o)[Top.cpu] = o
               /\ \A c \in Capable : c < Top.cpu => put(o)[c] = Top.list[c]
    BY <1>1, <1>2, SstAssumption DEF List, Cpu
  <2>2. CASE Stage
    <3>1. GoOn(put("fresh")) /\ "fresh" \in Object
      BY <2>2 DEF Stage, Object
    <3>. QED
      BY <2>1, <3>1
  <2>3. CASE Skip
    BY <1>2, <2>3 DEF Skip
  <2>4. CASE BadId
    <3>1. GoOn(put("passed")) /\ "passed" \in Object
      BY <2>4 DEF BadId, Object
    <3>. QED
      BY <2>1, <3>1
  <2>. QED
    BY <2>2, <2>3, <2>4
<1>4. calls' \in Seq(Call) /\ CallsWalked' /\ calls' # << >>
  BY <1>1, <1>3, GoOnInv
<1>5. faults' \in 0..MaxFaults
  BY SstAssumption DEF Stage, Skip, BadId, Fault, SstInv, SstTypeOK
<1>6. passedOver' \in BOOLEAN
  BY DEF Stage, Skip, BadId, SstInv, SstTypeOK
<1>7. SstTypeOK'
  BY <1>3, <1>4, <1>5, <1>6 DEF GoOn, SstInv, SstTypeOK
<1>. QED
  BY <1>3, <1>4, <1>7 DEF GoOn, SstInv, NoLostRetry, NothingPartial

\* A PECI error drops the walk; the retry is armed or discovery is given up.
LEMMA PeciErrorInv ==
    ASSUME SstInv, PeciError
    PROVE  SstInv'
<1>1. calls # << >>
  BY DEF PeciError, Fault, AtCpu
<1>2. Outer \in Seq(Call) /\ \A k \in 1..Len(Outer) : Walked(Outer[k])
  BY <1>1, TopAndOuter DEF SstInv
<1>3. calls' = Outer /\ timer' \in BOOLEAN /\ aborted' \in BOOLEAN
      /\ (timer' \/ aborted')
  BY DEF PeciError, NotFinished, SstInv, SstTypeOK
<1>4. CallsWalked'
  BY <1>2, <1>3 DEF CallsWalked, Walked
<1>5. faults' \in 0..MaxFaults /\ errors' \in Nat
  BY SstAssumption DEF PeciError, Fault, SstInv, SstTypeOK
<1>6. SstTypeOK'
  BY <1>2, <1>3, <1>5 DEF PeciError, SstInv, SstTypeOK
<1>. QED
  BY <1>3, <1>4, <1>6 DEF PeciError, SstInv, NoLostRetry, NothingPartial

\* The walk that reached the end has left something for every capable CPU.
LEMMA FinishInv ==
    ASSUME SstInv, Finish
    PROVE  SstInv'
<1>1. calls # << >> /\ Top.cpu = NumCpus
  BY DEF Finish
<1>2. /\ Top \in Call /\ Walked(Top)
      /\ Outer \in Seq(Call) /\ \A k \in 1..Len(Outer) : Walked(Outer[k])
  BY <1>1, TopAndOuter DEF SstInv
<1>3. CallsWalked'
  BY <1>2 DEF Finish, CallsWalked, Walked
<1>4. SstTypeOK'
  BY <1>2 DEF Finish, SstInv, SstTypeOK, Call
<1>5. \A c \in Capable : c < NumCpus
  BY SstAssumption DEF Cpu
<1>6. NothingPartial'
  BY <1>1, <1>2, <1>5 DEF Finish, Walked, NothingPartial
<1>. QED
  BY <1>3, <1>4, <1>6 DEF Finish, SstInv, NoLostRetry

\* Each step of the running walk.
LEMMA WalkInv ==
    ASSUME SstInv, Walk
    PROVE  SstInv'
<1>1. CASE LeavePoll
  <2>1. errors' \in Nat /\ faults' \in 0..MaxFaults /\ calls # << >>
    BY <1>1 DEF LeavePoll, SstInv, SstTypeOK
  <2>2. CASE ~hostState
    BY <1>1, <2>1, <2>2, ReturnFalseInv DEF LeavePoll
  <2>3. CASE hostState
    <3>. DEFINE f == [Top EXCEPT !.polling = FALSE]
    <3>1. Top \in Call /\ Walked(Top)
      BY <2>1, TopAndOuter DEF SstInv
    <3>2. f \in Call /\ Walked(f)
      BY <3>1 DEF Call, Walked
    <3>3. calls' = [calls EXCEPT ![Len(calls)] = f]
      BY <1>1, <2>3 DEF LeavePoll, Top
    <3>. HIDE DEF f
    <3>4. calls' \in Seq(Call) /\ CallsWalked' /\ calls' # << >>
      BY <2>1, <3>2, <3>3, ReplaceTop DEF SstInv
    <3>5. SstTypeOK'
      BY <1>1, <2>3, <3>4 DEF LeavePoll, SstInv, SstTypeOK
    <3>. QED
      BY <1>1, <2>3, <3>4, <3>5 DEF LeavePoll, SstInv, NoLostRetry, NothingPartial
  <2>. QED
    BY <2>2, <2>3
<1>2. CASE Stage \/ Skip \/ BadId
  BY <1>2, StageSkipInv
<1>3. CASE NotReady
  <2>1. errors' \in Nat /\ faults' \in 0..MaxFaults /\ calls # << >>
    BY <1>3, SstAssumption DEF NotReady, Fault, AtCpu, SstInv, SstTypeOK
  <2>. QED
    BY <1>3, <2>1, ReturnFalseInv DEF NotReady
<1>4. CASE PeciError
  BY <1>4, PeciErrorInv
<1>5. CASE Finish
  BY <1>5, FinishInv
<1>6. CASE Crash
  <2>1. SstTypeOK'
    BY <1>6, NothingRuns DEF Crash, SstInv, SstTypeOK
  <2>2. CallsWalked'
    BY <1>6, NothingRuns DEF Crash, CallsWalked
  <2>. QED
    BY <1>6, <2>1, <2>2 DEF Crash, SstInv, NoLostRetry, NothingPartial
<1>. QED
  BY <1>1, <1>2, <1>3, <1>4, <1>5, <1>6 DEF Walk

\* SstInv holds in every state that the application reaches.
THEOREM SstInvariant == SstSpec => []SstInv
<1>1. SstInit => SstInv
  <2>. SUFFICES ASSUME SstInit
                PROVE  SstInv
    OBVIOUS
  <2>1. SstTypeOK
    <3>1. MaxFaults \in 0..MaxFaults
      BY SstAssumption
    <3>2. calls \in Seq(Call) /\ cpus \in List
      BY NothingRuns DEF SstInit
    <3>. QED
      BY <3>1, <3>2 DEF SstInit, SstTypeOK
  <2>2. CallsWalked
    BY NothingRuns DEF SstInit, CallsWalked
  <2>. QED
    BY <2>1, <2>2 DEF SstInit, SstInv, NoLostRetry, NothingPartial
<1>2. SstInv /\ [SstNext]_sstVars => SstInv'
  <2>. SUFFICES ASSUME SstInv, [SstNext]_sstVars
                PROVE  SstInv'
    OBVIOUS
  <2>1. CASE HostOn \/ Retry
    BY <2>1, BeginInv
  <2>2. CASE HostOff
    BY <2>2, HostOffInv
  <2>3. CASE Expire
    BY <2>3, ExpireInv
  <2>4. CASE Walk
    BY <2>4, WalkInv
  <2>5. CASE UNCHANGED sstVars
    BY <2>5 DEF sstVars, SstInv, SstTypeOK, CallsWalked, Walked, NoLostRetry,
       NothingPartial
  <2>. QED
    BY <2>1, <2>2, <2>3, <2>4, <2>5 DEF SstNext
<1>. QED
  BY <1>1, <1>2, PTL DEF SstSpec

\* However walks are nested, fail and cancel each other's retry, discovery is never
\* forgotten while the host is on.
THEOREM RetryNotLost == SstSpec => []NoLostRetry
  BY SstInvariant, PTL DEF SstInv

\* Whatever fails and whatever is interrupted, what is published comes from a walk
\* that dealt with every CPU.
THEOREM PublishedIsComplete == SstSpec => []NothingPartial
  BY SstInvariant, PTL DEF SstInv
-----------------------------------------------------------------------------
(***************************************************************************)
(* What is stale is replaced.  The argument: while a walk holds the object *)
(* of a CPU that was aged by a power-off, a walk inside it cannot get past *)
(* that CPU, for it neither gets the path nor, unless GetCPUID fails, goes *)
(* on without it; so it cannot succeed, and failing arms the retry.        *)
(***************************************************************************)
Made(o) == o \in {"fresh", "stale"}

\* Only CPUs with SST-PP get an object, and only a fault passes one over.
ListsExplained ==
    \A k \in 1..Len(calls) : \A c \in Cpu :
        /\ Made(calls[k].list[c]) => c \in Capable
        /\ calls[k].list[c] = "passed" => passedOver

\* The path of a CPU is held by one walk at most.
OneObject ==
    \A j, k \in 1..Len(calls) : \A c \in Cpu :
        Made(calls[j].list[c]) /\ Made(calls[k].list[c]) => j = k

\* The innermost walk holds something stale only if a retry is to come.
TopStale ==
    /\ hostState /\ ~aborted /\ ~passedOver /\ calls # << >>
    /\ \E c \in Cpu : Top.list[c] = "stale"
    => timer \/ ready

\* The invariant of the argument, beside SstInv.
StaleInv == ListsExplained /\ OneObject /\ TopStale /\ StaleIsReplaced

\* A walk begins with an empty list.
LEMMA StalePush ==
    ASSUME SstInv, StaleInv, DiscoverOrWait, passedOver' = passedOver
    PROVE  ListsExplained' /\ OneObject' /\ TopStale' /\ StaleIsReplaced'
<1>. DEFINE f == [cpu |-> 0, polling |-> TRUE, list |-> Empty]
<1>1. calls \in Seq(Call) /\ calls' = Append(calls, f) /\ finished' = FALSE
  BY DEF SstInv, SstTypeOK, DiscoverOrWait
<1>2. /\ Len(calls') = Len(calls) + 1 /\ Len(calls) \in Nat
      /\ calls'[Len(calls) + 1] = f
      /\ \A k \in 1..Len(calls) : calls'[k] = calls[k]
  BY <1>1
<1>3. \A c \in Cpu : f.list[c] = "none"
  BY DEF Empty
<1>. HIDE DEF f
<1>4. ASSUME NEW k \in 1..Len(calls')
      PROVE  k \in 1..Len(calls) \/ (k = Len(calls) + 1 /\ calls'[k] = f)
  BY <1>2
<1>5. ListsExplained'
  BY <1>2, <1>3, <1>4 DEF StaleInv, ListsExplained, Made
<1>6. OneObject'
  BY <1>2, <1>3, <1>4 DEF StaleInv, OneObject, Made
<1>7. TopStale'
  BY <1>2, <1>3 DEF TopStale, Top
<1>. QED
  BY <1>1, <1>5, <1>6, <1>7 DEF StaleIsReplaced

\* The walk that was interrupted is the innermost one again.
LEMMA StalePop ==
    ASSUME SstInv, StaleInv, calls # << >>, calls' = Outer, passedOver' = passedOver
    PROVE  ListsExplained' /\ OneObject'
<1>1. Len(calls) \in Nat \ {0} /\ Outer \in Seq(Call)
  BY TopAndOuter DEF SstInv
<1>2. Len(Outer) = Len(calls) - 1 /\ \A k \in 1..Len(Outer) : Outer[k] = calls[k]
  BY <1>1, OuterOf DEF SstInv
<1>3. \A k \in 1..Len(Outer) : k \in 1..Len(calls) /\ calls'[k] = calls[k]
  BY <1>1, <1>2
<1>4. ListsExplained'
  BY <1>3 DEF StaleInv, ListsExplained
<1>5. OneObject'
  BY <1>3 DEF StaleInv, OneObject
<1>. QED
  BY <1>4, <1>5

\* The innermost walk goes on, with an object more or none.
LEMMA StaleTop ==
    ASSUME SstInv, StaleInv, calls # << >>, NEW f \in Call,
           calls' = [calls EXCEPT ![Len(calls)] = f],
           \A c \in Cpu : \/ f.list[c] = Top.list[c]
                          \/ f.list[c] = "fresh" /\ c \in Capable /\ ~PathTaken(c)
                          \/ f.list[c] = "passed" /\ passedOver',
           passedOver => passedOver',
           hostState' = hostState, aborted' = aborted, timer' = timer, ready' = ready
    PROVE  ListsExplained' /\ OneObject' /\ TopStale'
<1>1. Len(calls) \in Nat \ {0} /\ calls \in Seq(Call) /\ Top = calls[Len(calls)]
  BY TopAndOuter DEF SstInv, SstTypeOK, Top
<1>2. /\ Len(calls') = Len(calls) /\ calls'[Len(calls)] = f
      /\ \A k \in 1..Len(calls) : k # Len(calls) => calls'[k] = calls[k]
  BY <1>1
<1>3. ListsExplained'
  <2>. SUFFICES ASSUME NEW k \in 1..Len(calls), NEW c \in Cpu
                PROVE  /\ Made(calls'[k].list[c]) => c \in Capable
                       /\ calls'[k].list[c] = "passed" => passedOver'
    BY <1>2 DEF ListsExplained, Made
  <2>1. /\ Made(calls[k].list[c]) => c \in Capable
        /\ calls[k].list[c] = "passed" => passedOver
    BY DEF StaleInv, ListsExplained
  <2>. QED
    BY <1>1, <1>2, <2>1 DEF Made
<1>4. OneObject'
  <2>. SUFFICES ASSUME NEW j \in 1..Len(calls), NEW k \in 1..Len(calls), NEW c \in Cpu,
                       Made(calls'[j].list[c]), Made(calls'[k].list[c])
                PROVE  j = k
    BY <1>2 DEF OneObject, Made
  <2>1. Made(calls[j].list[c]) /\ Made(calls[k].list[c]) => j = k
    BY DEF StaleInv, OneObject
  <2>2. Made(f.list[c]) => Made(Top.list[c]) \/ ~PathTaken(c)
    BY DEF Made
  <2>3. ~PathTaken(c) => ~Made(calls[j].list[c]) /\ ~Made(calls[k].list[c])
    BY DEF PathTaken, Made
  <2>. QED
    BY <1>1, <1>2, <2>1, <2>2, <2>3
<1>5. TopStale'
  BY <1>1, <1>2 DEF StaleInv, TopStale, Top
<1>. QED
  BY <1>3, <1>4, <1>5

\* A walk inside one that holds something stale is not at its end.
LEMMA StaleBlocks ==
    ASSUME SstInv, StaleInv, calls # << >>, Outer # << >>, ~passedOver,
           NEW c \in Cpu, Outer[Len(Outer)].list[c] = "stale"
    PROVE  Top.cpu # NumCpus
<1>1. Len(calls) \in Nat \ {0} /\ Outer \in Seq(Call) /\ Top \in Call /\ Walked(Top)
  BY TopAndOuter DEF SstInv
<1>2. Len(Outer) = Len(calls) - 1 /\ \A k \in 1..Len(Outer) : Outer[k] = calls[k]
  BY <1>1, OuterOf DEF SstInv
<1>. DEFINE k == Len(calls) - 1
<1>3. k \in 1..Len(calls) /\ k # Len(calls) /\ Outer[Len(Outer)] = calls[k]
  BY <1>1, <1>2
<1>4. Made(calls[k].list[c]) /\ c \in Capable
  BY <1>3 DEF Made, StaleInv, ListsExplained
<1>5. Len(calls) \in 1..Len(calls) /\ Top = calls[Len(calls)]
  BY <1>1 DEF Top
<1>6. ~Made(Top.list[c])
  BY <1>3, <1>4, <1>5 DEF StaleInv, OneObject
<1>7. Top.list[c] # "passed"
  BY <1>5 DEF StaleInv, ListsExplained
<1>8. Top.list[c] = "none"
  BY <1>1, <1>6, <1>7 DEF Call, List, Object, Made
<1>9. c < NumCpus
  BY SstAssumption DEF Cpu
<1>. QED
  BY <1>1, <1>4, <1>8, <1>9 DEF Walked

\* The power-off of the host ages what the walks hold.
LEMMA StaleHostOff ==
    ASSUME SstInv, StaleInv, HostOff
    PROVE  StaleInv'
<1>1. calls \in Seq(Call) /\ Len(calls) \in Nat
  BY DEF SstInv, SstTypeOK
<1>2. /\ calls' = [k \in 1..Len(calls) |-> [calls[k] EXCEPT !.list = Age(@)]]
      /\ hostState' = FALSE /\ passedOver' = passedOver
  BY DEF HostOff
<1>3. ASSUME NEW k \in 1..Len(calls)
      PROVE  calls[k] \in Call /\ calls'[k].list = Age(calls[k].list)
  <2>1. calls[k] \in Call
    BY <1>1
  <2>2. calls'[k] = [calls[k] EXCEPT !.list = Age(@)]
    BY <1>2
  <2>. QED
    BY <2>1, <2>2 DEF Call
<1>4. Len(calls') = Len(calls)
  BY <1>1, <1>2
<1>5. ASSUME NEW k \in 1..Len(calls), NEW c \in Cpu
      PROVE  /\ Made(calls'[k].list[c]) <=> Made(calls[k].list[c])
             /\ calls'[k].list[c] = "passed" <=> calls[k].list[c] = "passed"
  BY <1>3, <1>5 DEF Age, Made
<1>6. ListsExplained'
  <2>. SUFFICES ASSUME NEW k \in 1..Len(calls), NEW c \in Cpu
                PROVE  /\ Made(calls'[k].list[c]) => c \in Capable
                       /\ calls'[k].list[c] = "passed" => passedOver'
    BY <1>4 DEF ListsExplained, Made
  <2>. QED
    BY <1>2, <1>5 DEF StaleInv, ListsExplained
<1>7. OneObject'
  <2>. SUFFICES ASSUME NEW j \in 1..Len(calls), NEW k \in 1..Len(calls), NEW c \in Cpu,
                       Made(calls'[j].list[c]), Made(calls'[k].list[c])
                PROVE  j = k
    BY <1>4 DEF OneObject, Made
  <2>. QED
    BY <1>5 DEF StaleInv, OneObject
<1>. QED
  BY <1>2, <1>6, <1>7 DEF StaleInv, TopStale, StaleIsReplaced

\* A walk that fails arms the retry, or gives discovery up.
LEMMA StaleFails ==
    ASSUME SstInv, StaleInv, calls # << >>, calls' = Outer, passedOver' = passedOver,
           timer' \/ aborted'
    PROVE  StaleInv'
<1>1. ListsExplained' /\ OneObject'
  BY StalePop
<1>. QED
  BY <1>1 DEF StaleInv, TopStale, StaleIsReplaced

\* Each step of the running walk.
LEMMA StaleWalk ==
    ASSUME SstInv, StaleInv, Walk
    PROVE  StaleInv'
<1>1. CASE LeavePoll
  <2>1. calls # << >>
    BY <1>1 DEF LeavePoll
  <2>2. CASE ~hostState
    BY <1>1, <2>1, <2>2, StaleFails DEF LeavePoll, ReturnFalse, NotFinished
  <2>3. CASE hostState
    <3>. DEFINE f == [Top EXCEPT !.polling = FALSE]
    <3>1. f \in Call /\ f.list = Top.list
      BY <2>1, TopAndOuter DEF SstInv, Call
    <3>2. calls' = [calls EXCEPT ![Len(calls)] = f]
      BY <1>1, <2>3 DEF LeavePoll, Top
    <3>. HIDE DEF f
    <3>3. /\ hostState' = hostState /\ aborted' = aborted /\ timer' = timer
          /\ ready' = ready /\ passedOver' = passedOver /\ cpus' = cpus
          /\ finished' = finished
      BY <1>1, <2>3 DEF LeavePoll
    <3>4. ListsExplained' /\ OneObject' /\ TopStale'
      BY <2>1, <3>1, <3>2, <3>3, StaleTop
    <3>5. calls' # << >>
      BY <2>1, <3>1, <3>2 DEF SstInv, SstTypeOK
    <3>. QED
      BY <3>3, <3>4, <3>5 DEF StaleInv, StaleIsReplaced
  <2>. QED
    BY <2>2, <2>3
<1>2. CASE Stage \/ Skip \/ BadId
  <2>1. calls # << >> /\ Top.cpu \in Cpu
    BY <1>2 DEF Stage, Skip, BadId, Fault, AtCpu
  <2>2. Top \in Call /\ Top.list \in List
    BY <2>1, TopAndOuter DEF SstInv, Call
  <2>3. PICK list \in List :
            /\ GoOn(list)
            /\ \A c \in Cpu : \/ list[c] = Top.list[c]
                              \/ list[c] = "fresh" /\ c \in Capable /\ ~PathTaken(c)
                              \/ list[c] = "passed" /\ passedOver'
    <3>1. CASE Stage
      BY <2>1, <2>2, <3>1 DEF Stage, List, Object
    <3>2. CASE Skip
      BY <2>2, <3>2 DEF Skip
    <3>3. CASE BadId
      BY <2>1, <2>2, <3>3 DEF BadId, List, Object
    <3>. QED
      BY <1>2, <3>1, <3>2, <3>3
  <2>. DEFINE f == [cpu |-> Top.cpu + 1, polling |-> Top.cpu + 1 < NumCpus, list |-> list]
  <2>4. f \in Call /\ f.list = list
    BY <2>1, SstAssumption DEF Call, Cpu
  <2>5. calls' = [calls EXCEPT ![Len(calls)] = f]
    BY <2>3 DEF GoOn, Top
  <2>. HIDE DEF f
  <2>6. /\ hostState' = hostState /\ aborted' = aborted /\ timer' = timer
        /\ ready' = ready /\ cpus' = cpus /\ finished' = finished
    BY <2>3 DEF GoOn
  <2>7. passedOver => passedOver'
    BY <1>2 DEF Stage, Skip, BadId
  <2>8. ListsExplained' /\ OneObject' /\ TopStale'
    BY <2>1, <2>3, <2>4, <2>5, <2>6, <2>7, StaleTop
  <2>9. calls' # << >>
    BY <2>1, <2>4, <2>5 DEF SstInv, SstTypeOK
  <2>. QED
    BY <2>8, <2>9 DEF StaleInv, StaleIsReplaced
<1>3. CASE NotReady \/ PeciError
  <2>1. calls # << >> /\ calls' = Outer /\ passedOver' = passedOver /\ (timer' \/ aborted')
    BY <1>3 DEF NotReady, PeciError, Fault, AtCpu, ReturnFalse, NotFinished
  <2>. QED
    BY <2>1, StaleFails
<1>4. CASE Finish
  <2>1. /\ calls # << >> /\ Top.cpu = NumCpus /\ cpus' = Top.list /\ calls' = Outer
        /\ hostState' = hostState /\ aborted' = aborted /\ timer' = timer
        /\ ready' = ready /\ passedOver' = passedOver
    BY <1>4 DEF Finish
  <2>2. ListsExplained' /\ OneObject'
    BY <2>1, StalePop
  <2>3. StaleIsReplaced'
    BY <2>1 DEF StaleInv, TopStale, StaleIsReplaced
  <2>4. TopStale'
    <3>. SUFFICES ASSUME calls' # << >>, ~passedOver, NEW c \in Cpu, Top'.list[c] = "stale"
                  PROVE  FALSE
      BY <2>1 DEF TopStale
    <3>1. Top' = Outer[Len(Outer)]
      BY <2>1 DEF Top
    <3>. QED
      BY <2>1, <3>1, StaleBlocks
  <2>. QED
    BY <2>2, <2>3, <2>4 DEF StaleInv
<1>5. CASE Crash
  BY <1>5, NothingRuns DEF Crash, StaleInv, ListsExplained, OneObject, TopStale, StaleIsReplaced
<1>. QED
  BY <1>1, <1>2, <1>3, <1>4, <1>5 DEF Walk

\* Objects that a power cycle inside poll has made stale are not published for good:
\* the walk that has to replace them runs or is to come, unless discovery was given up
\* or a CPU passed over.
THEOREM StaleAlwaysReplaced == SstSpec => []StaleIsReplaced
<1>1. SstInit => StaleInv
  BY NothingRuns DEF SstInit, StaleInv, ListsExplained, OneObject, TopStale, StaleIsReplaced
<1>2. SstInv /\ StaleInv /\ [SstNext]_sstVars => StaleInv'
  <2>. SUFFICES ASSUME SstInv, StaleInv, [SstNext]_sstVars
                PROVE  StaleInv'
    OBVIOUS
  <2>1. CASE HostOn \/ Retry
    <3>1. DiscoverOrWait /\ passedOver' = passedOver
      BY <2>1 DEF HostOn, Retry
    <3>. QED
      BY <3>1, StalePush DEF StaleInv
  <2>2. CASE HostOff
    BY <2>2, StaleHostOff
  <2>3. CASE Expire
    BY <2>3 DEF Expire, StaleInv, ListsExplained, OneObject, TopStale, StaleIsReplaced, Top
  <2>4. CASE Walk
    BY <2>4, StaleWalk
  <2>5. CASE UNCHANGED sstVars
    BY <2>5 DEF sstVars, StaleInv, ListsExplained, OneObject, TopStale, StaleIsReplaced, Top
  <2>. QED
    BY <2>1, <2>2, <2>3, <2>4, <2>5 DEF SstNext
<1>3. StaleInv => StaleIsReplaced
  BY DEF StaleInv
<1>. QED
  BY <1>1, <1>2, <1>3, SstInvariant, PTL DEF SstSpec
-----------------------------------------------------------------------------
(***************************************************************************)
(* The mailbox protocol and Wake-On-PECI.                                  *)
(***************************************************************************)
\* The command in the mailbox is that of the operation.
OpCommand ==
    /\ cmd \notin Commands => pc \in {"idle", "clear"}
    /\ pc # "idle" =>
           /\ op = "appliedConfig" => cmd = [kind |-> "getLevel"]
           /\ op = "baseSpeedPriorityEnabled" =>
                  cmd = [kind |-> "getControl", arg |-> currentLevel]
           /\ op = "setAppliedConfig" =>
                  \E l \in Levels : cmd = [kind |-> "setLevel", arg |-> l]
           /\ op = "discover" =>
                  \E l \in Levels : cmd = [kind |-> "getControl", arg |-> l]

\* Attempts are left while the manager waits, and waking is part of an access.
Waiting ==
    /\ pc \in {"free", "return"} => attempts > 0
    /\ waking # "no" => pc \notin {"idle", "clear"}

\* The mailbox is ours from the moment it was found free to the answer: PCode works on
\* nothing but the command that was sent, and what it leaves belongs to it.
BoxIsOurs ==
    /\ busy => iface \in Commands
    /\ pcode # NoCommand => busy /\ pcode = iface
    /\ pc \in {"data", "run"} => ~busy
    /\ pc = "return" /\ busy => iface = cmd
    /\ pc \in {"return", "read"} /\ ~busy => data.of = cmd /\ data.what # "param"
    /\ pc = "read" => ~busy

\* The wake bit has somebody to clear it.
WakeHeld ==
    /\ pc = "idle" => ~peciWoken
    /\ WakeNotLeaked

\* PCode has answered our command.
Answered == pc \in {"return", "read"} /\ ~busy /\ data.what = "answer"

\* What the answer says was so during the operation.
LevelsKnown ==
    /\ pc # "idle" => level \in during
    /\ Answered => data.level \in during
    /\ Answered /\ op = "setAppliedConfig" => cmd.arg \in during
    /\ pc = "read" /\ op # "discover" => data.what = "answer"

\* As long as nothing happened behind its back, CPUConfig has the level of the CPU, save
\* between PCode's setting it and the end of the call.
NotDrifted ==
    ~drifted =>
        /\ busy /\ iface.kind = "setLevel" => SetPending
        /\ currentLevel = level \/ (SetPending /\ Answered)
        /\ Answered /\ op = "appliedConfig" => data.level = level
        /\ Answered /\ op = "setAppliedConfig" => level = cmd.arg

MailboxInv ==
    /\ SstMailboxTypeOK
    /\ OpCommand
    /\ Waiting
    /\ BoxIsOurs
    /\ WakeHeld
    /\ LevelsKnown
    /\ NotDrifted

-----------------------------------------------------------------------------
\* Proof of the invariant: one lemma for each of its parts, with a case for each action
\* of the manager and of PCode.  The types of the Boolean variables come apart from
\* the others.
FlagTypes ==
    /\ peciWoken \in BOOLEAN
    /\ busy \in BOOLEAN
    /\ asleep \in BOOLEAN
    /\ wop \in BOOLEAN
    /\ other \in BOOLEAN
    /\ leaked \in BOOLEAN
    /\ drifted \in BOOLEAN

ValueTypes ==
    /\ pc \in {"idle", "free", "data", "run", "return", "read", "clear"}
    /\ op \in Ops
    /\ cmd \in Commands \cup {NoCommand}
    /\ attempts \in 0..MbRetries
    /\ waking \in {"may", "must", "no"}
    /\ iface \in Commands \cup {NoCommand}
    /\ data \in Data
    /\ pcode \in Commands \cup {NoCommand}
    /\ level \in Levels
    /\ currentLevel \in Levels
    /\ during \subseteq Levels
    /\ disturbances \in 0..MaxDisturbances

\* Together they are the type invariant.
LEMMA TypesSplit == SstMailboxTypeOK <=> FlagTypes /\ ValueTypes
  BY DEF SstMailboxTypeOK, FlagTypes, ValueTypes

\* The commands that are sent are commands, and name a level.
LEMMA CommandTypes ==
    /\ NoCommand \notin Commands
    /\ [kind |-> "getLevel"] \in Commands
    /\ \A l : l \in Levels => [kind |-> "getControl", arg |-> l] \in Commands
    /\ \A l : l \in Levels => [kind |-> "setLevel", arg |-> l] \in Commands
    /\ \A c \in Commands : c.kind = "setLevel" => c.arg \in Levels
  BY DEF NoCommand, Commands

\* The CPU has been discovered and nothing is under way.
LEMMA MailboxInit == SstMailboxInit => MailboxInv
<1>. SUFFICES ASSUME SstMailboxInit PROVE MailboxInv
  OBVIOUS
<1>1. FlagTypes
  BY Zenon DEF SstMailboxInit, FlagTypes
<1>2. ValueTypes
  BY SstMailboxAssumption DEF SstMailboxInit, ValueTypes, Ops, Data
<1>3. SstMailboxTypeOK
  BY <1>1, <1>2, TypesSplit
<1>. QED
  BY <1>3 DEF SstMailboxInit, MailboxInv, OpCommand, Waiting, BoxIsOurs, WakeHeld,
              WakeNotLeaked, LevelsKnown, Answered, NotDrifted, SetPending

\* A property call or discovery begins.
BeginStep ==
    \/ AppliedConfig
    \/ BaseSpeedPriorityEnabled
    \/ \E l \in Levels : SetAppliedConfig(l) \/ Discover(l)

\* The steps of others that do not matter to the mailbox and the levels.
QuietStep == PcodeStarts \/ CpuDozes \/ OtherWakes \/ OtherDone \/ UNCHANGED sstMailboxVars

\* What begins is one of the operations, with a command of it.
LEMMA BeginIs ==
    ASSUME BeginStep, ValueTypes
    PROVE  \E o, c : Begin(o, c) /\ o \in Ops /\ c \in Commands /\
                    \/ o = "appliedConfig" /\ c = [kind |-> "getLevel"]
                    \/ o = "baseSpeedPriorityEnabled"
                       /\ c = [kind |-> "getControl", arg |-> currentLevel]
                    \/ o = "setAppliedConfig"
                       /\ \E l \in Levels : c = [kind |-> "setLevel", arg |-> l]
                    \/ o = "discover"
                       /\ \E l \in Levels : c = [kind |-> "getControl", arg |-> l]
<1>. USE CommandTypes DEF Ops
<1>1. CASE AppliedConfig
  BY <1>1 DEF AppliedConfig
<1>2. CASE BaseSpeedPriorityEnabled
  BY <1>2 DEF BaseSpeedPriorityEnabled, ValueTypes
<1>3. CASE \E l \in Levels : SetAppliedConfig(l)
  BY <1>3 DEF SetAppliedConfig
<1>4. CASE \E l \in Levels : Discover(l)
  BY <1>4 DEF Discover
<1>. QED
  BY <1>1, <1>2, <1>3, <1>4 DEF BeginStep

\* An operation that fails leaves the level in doubt if it had sent the command to set it.
LEMMA FailDrifts == Fail /\ ~drifted' => ~drifted /\ ~SetPending
  BY Zenon DEF Fail

\* The Boolean variables stay Boolean.
LEMMA FlagsKept ==
    ASSUME FlagTypes, [SstMailboxNext]_sstMailboxVars
    PROVE  FlagTypes'
<1>. USE DEF managerVars, boxVars, cpuVars, boundVars
<1>1. CASE BeginStep
  BY <1>1, Zenon
     DEF BeginStep, AppliedConfig, BaseSpeedPriorityEnabled, SetAppliedConfig, Discover,
        Begin, Send, FlagTypes
<1>2. CASE WaitFree
  BY <1>2, Zenon DEF WaitFree, Step, Fail, Fresh, WakeAllowed, SetPending, FlagTypes
<1>3. CASE WriteData
  BY <1>3, Zenon DEF WriteData, Step, Fresh, WakeAllowed, FlagTypes
<1>4. CASE WriteInterface
  BY <1>4, Zenon DEF WriteInterface, Step, Fresh, WakeAllowed, FlagTypes
<1>5. CASE WaitReturn
  BY <1>5, Zenon DEF WaitReturn, Step, Fail, Fresh, WakeAllowed, SetPending, FlagTypes
<1>6. CASE ReadData
  BY <1>6, Zenon DEF ReadData, Keep, Send, FlagTypes
<1>7. CASE Sleeping
  BY <1>7, Zenon DEF Sleeping, Fail, SetPending, FlagTypes
<1>8. CASE SetWake
  BY <1>8, Zenon DEF SetWake, FlagTypes
<1>9. CASE PeciFault
  BY <1>9, Zenon DEF PeciFault, Disturbance, Fail, SetPending, FlagTypes
<1>10. CASE Destroy
  BY <1>10, Zenon DEF Destroy, Disturbance, FlagTypes
<1>11. CASE PcodeAnswers
  BY <1>11, Zenon DEF PcodeAnswers, During, FlagTypes
<1>12. CASE InBand
  BY <1>12, Zenon DEF InBand, Disturbance, During, FlagTypes
<1>13. CASE QuietStep
  BY <1>13, Zenon
     DEF QuietStep, PcodeStarts, CpuDozes, OtherWakes, OtherDone, Disturbance,
        sstMailboxVars, FlagTypes
<1>14. CASE WriteMisreported
  BY <1>14, Zenon DEF WriteMisreported, Disturbance, FlagTypes
<1>. QED
  BY <1>1, <1>2, <1>3, <1>4, <1>5, <1>6, <1>7, <1>8, <1>9, <1>10, <1>11, <1>12, <1>13,
     <1>14
     DEF SstMailboxNext, OperationStep, BeginStep, QuietStep

\* The other variables keep their types; the attempts do not run below zero.
LEMMA ValuesKept ==
    ASSUME ValueTypes, Waiting, OpCommand, [SstMailboxNext]_sstMailboxVars
    PROVE  ValueTypes'
<1>. USE SstMailboxAssumption DEF managerVars, boxVars, cpuVars, boundVars
<1>1. CASE BeginStep
  <2>1. PICK o, c : Begin(o, c) /\ o \in Ops /\ c \in Commands
    BY <1>1, BeginIs
  <2>. QED
    BY <2>1, CommandTypes DEF Begin, Send, ValueTypes
<1>2. CASE WaitFree
  BY <1>2, CommandTypes
     DEF WaitFree, Step, Fail, Fresh, WakeAllowed, SetPending, ValueTypes, Waiting, Ops,
        Data
<1>3. CASE WriteData
  BY <1>3, CommandTypes
     DEF WriteData, Step, Fresh, WakeAllowed, ValueTypes, Waiting, Ops, Data
<1>4. CASE WriteInterface
  BY <1>4, CommandTypes
     DEF WriteInterface, Step, Fresh, WakeAllowed, ValueTypes, Waiting, Ops, Data
<1>5. CASE WaitReturn
  BY <1>5, CommandTypes
     DEF WaitReturn, Step, Fail, Fresh, WakeAllowed, SetPending, ValueTypes, Waiting,
        Ops, Data
<1>6. CASE ReadData
  <2>1. currentLevel' \in Levels
    BY <1>6, CommandTypes DEF ReadData, Keep, OpCommand, ValueTypes, Data, Ops
  <2>2. cmd' \in Commands \cup {NoCommand} /\ attempts' \in 0..MbRetries
    BY <1>6, CommandTypes DEF ReadData, Send, ValueTypes
  <2>. QED
    BY <1>6, <2>1, <2>2 DEF ReadData, Send, ValueTypes
<1>7. CASE Sleeping
  BY <1>7, CommandTypes DEF Sleeping, Fail, SetPending, ValueTypes, Waiting, Ops, Data
<1>8. CASE SetWake
  BY <1>8, CommandTypes DEF SetWake, ValueTypes, Waiting, Ops, Data
<1>9. CASE PeciFault
  BY <1>9, CommandTypes
     DEF PeciFault, Disturbance, Fail, SetPending, ValueTypes, Waiting, Ops, Data
<1>10. CASE Destroy
  BY <1>10, CommandTypes DEF Destroy, Disturbance, ValueTypes, Waiting, Ops, Data
<1>11. CASE PcodeAnswers
  BY <1>11, CommandTypes DEF PcodeAnswers, During, ValueTypes, Waiting, Ops, Data
<1>12. CASE InBand
  BY <1>12, CommandTypes DEF InBand, Disturbance, During, ValueTypes, Waiting, Ops, Data
<1>13. CASE QuietStep
  BY <1>13, CommandTypes
     DEF QuietStep, PcodeStarts, CpuDozes, OtherWakes, OtherDone, Disturbance,
        sstMailboxVars, ValueTypes, Waiting, Ops, Data
<1>14. CASE WriteMisreported
  <2>1. data' \in Data
    BY <1>14 DEF WriteMisreported, ValueTypes, Data
  <2>2. iface' \in Commands \cup {NoCommand}
    BY <1>14 DEF WriteMisreported, ValueTypes
  <2>3. disturbances' \in 0..MaxDisturbances
    BY <1>14 DEF WriteMisreported, Disturbance, ValueTypes
  <2>. QED
    BY <1>14, <2>1, <2>2, <2>3 DEF WriteMisreported, ValueTypes
<1>. QED
  BY <1>1, <1>2, <1>3, <1>4, <1>5, <1>6, <1>7, <1>8, <1>9, <1>10, <1>11, <1>12, <1>13,
     <1>14
     DEF SstMailboxNext, OperationStep, BeginStep, QuietStep

\* The command stays that of the operation.
LEMMA OpCommandKept ==
    ASSUME ValueTypes, OpCommand, [SstMailboxNext]_sstMailboxVars
    PROVE  OpCommand'
<1>. USE DEF managerVars, boxVars, cpuVars, boundVars
<1>1. CASE BeginStep
  BY <1>1, BeginIs, CommandTypes DEF Begin, Send, OpCommand, ValueTypes, Ops
<1>2. CASE WaitFree
  BY <1>2, CommandTypes
     DEF WaitFree, Step, Fail, Fresh, WakeAllowed, SetPending, OpCommand, ValueTypes,
        Ops
<1>3. CASE WriteData
  BY <1>3, CommandTypes
     DEF WriteData, Step, Fresh, WakeAllowed, OpCommand, ValueTypes, Ops
<1>4. CASE WriteInterface
  BY <1>4, CommandTypes
     DEF WriteInterface, Step, Fresh, WakeAllowed, OpCommand, ValueTypes, Ops
<1>5. CASE WaitReturn
  BY <1>5, CommandTypes
     DEF WaitReturn, Step, Fail, Fresh, WakeAllowed, SetPending, OpCommand, ValueTypes,
        Ops
<1>6. CASE ReadData
  <2>1. CASE UNCHANGED cmd /\ pc' = "clear"
    BY <1>6, <2>1 DEF ReadData, Keep, OpCommand, ValueTypes
  <2>2. CASE op = "discover" /\ \E l \in Levels : Send([kind |-> "getControl", arg |-> l], "may")
    BY <1>6, <2>2, CommandTypes DEF ReadData, Send, OpCommand
  <2>. QED
    BY <1>6, <2>1, <2>2 DEF ReadData
<1>7. CASE Sleeping
  BY <1>7, CommandTypes DEF Sleeping, Fail, SetPending, OpCommand, ValueTypes, Ops
<1>8. CASE SetWake
  BY <1>8, CommandTypes DEF SetWake, OpCommand, ValueTypes, Ops
<1>9. CASE PeciFault
  BY <1>9, CommandTypes
     DEF PeciFault, Disturbance, Fail, SetPending, OpCommand, ValueTypes, Ops
<1>10. CASE Destroy
  BY <1>10, CommandTypes DEF Destroy, Disturbance, OpCommand, ValueTypes, Ops
<1>11. CASE PcodeAnswers
  BY <1>11, CommandTypes DEF PcodeAnswers, During, OpCommand, ValueTypes, Ops
<1>12. CASE InBand
  BY <1>12, CommandTypes DEF InBand, Disturbance, During, OpCommand, ValueTypes, Ops
<1>13. CASE QuietStep
  BY <1>13, CommandTypes
     DEF QuietStep, PcodeStarts, CpuDozes, OtherWakes, OtherDone, Disturbance,
        sstMailboxVars, OpCommand, ValueTypes, Ops
<1>14. CASE WriteMisreported
  BY <1>14 DEF WriteMisreported, OpCommand, ValueTypes
<1>. QED
  BY <1>1, <1>2, <1>3, <1>4, <1>5, <1>6, <1>7, <1>8, <1>9, <1>10, <1>11, <1>12, <1>13,
     <1>14
     DEF SstMailboxNext, OperationStep, BeginStep, QuietStep

\* The manager does not wait without attempts left.
LEMMA WaitingKept ==
    ASSUME ValueTypes, Waiting, [SstMailboxNext]_sstMailboxVars
    PROVE  Waiting'
<1>. USE DEF managerVars, boxVars, cpuVars, boundVars
<1>1. CASE BeginStep
  <2>1. PICK o, c : Begin(o, c) /\ o \in Ops /\ c \in Commands
    BY <1>1, BeginIs
  <2>. QED
    BY <2>1, SstMailboxAssumption DEF Begin, Send, Waiting
<1>2. CASE WaitFree
  BY <1>2 DEF WaitFree, Step, Fail, Fresh, WakeAllowed, SetPending, Waiting, ValueTypes
<1>3. CASE WriteData
  BY <1>3 DEF WriteData, Step, Fresh, WakeAllowed, Waiting, ValueTypes
<1>4. CASE WriteInterface
  BY <1>4, SstMailboxAssumption DEF WriteInterface, Step, Fresh, WakeAllowed, Waiting
<1>5. CASE WaitReturn
  BY <1>5
     DEF WaitReturn, Step, Fail, Fresh, WakeAllowed, SetPending, Waiting, ValueTypes
<1>6. CASE ReadData
  BY <1>6, SstMailboxAssumption DEF ReadData, Send, Waiting
<1>7. CASE Sleeping
  BY <1>7 DEF Sleeping, Fail, SetPending, Waiting, ValueTypes
<1>8. CASE SetWake
  BY <1>8 DEF SetWake, Waiting, ValueTypes
<1>9. CASE PeciFault
  BY <1>9 DEF PeciFault, Disturbance, Fail, SetPending, Waiting, ValueTypes
<1>10. CASE Destroy
  BY <1>10 DEF Destroy, Disturbance, Waiting, ValueTypes
<1>11. CASE PcodeAnswers
  BY <1>11 DEF PcodeAnswers, During, Waiting, ValueTypes
<1>12. CASE InBand
  BY <1>12 DEF InBand, Disturbance, During, Waiting, ValueTypes
<1>13. CASE QuietStep
  BY <1>13
     DEF QuietStep, PcodeStarts, CpuDozes, OtherWakes, OtherDone, Disturbance,
        sstMailboxVars, Waiting, ValueTypes
<1>14. CASE WriteMisreported
  BY <1>14 DEF WriteMisreported, Waiting, ValueTypes
<1>. QED
  BY <1>1, <1>2, <1>3, <1>4, <1>5, <1>6, <1>7, <1>8, <1>9, <1>10, <1>11, <1>12, <1>13,
     <1>14
     DEF SstMailboxNext, OperationStep, BeginStep, QuietStep

\* The mailbox stays ours until the answer.
LEMMA BoxKept ==
    ASSUME ValueTypes, OpCommand, BoxIsOurs, [SstMailboxNext]_sstMailboxVars
    PROVE  BoxIsOurs'
<1>. USE DEF managerVars, boxVars, cpuVars, boundVars
<1>1. CASE BeginStep
  <2>1. PICK o, c : Begin(o, c) /\ o \in Ops /\ c \in Commands
    BY <1>1, BeginIs
  <2>. QED
    BY <2>1, CommandTypes DEF Begin, Send, BoxIsOurs
<1>2. CASE WaitFree
  BY <1>2, CommandTypes
     DEF WaitFree, Step, Fail, Fresh, WakeAllowed, SetPending, BoxIsOurs, OpCommand,
        ValueTypes, Data
<1>3. CASE WriteData
  BY <1>3, CommandTypes
     DEF WriteData, Step, Fresh, WakeAllowed, BoxIsOurs, OpCommand, ValueTypes, Data
<1>4. CASE WriteInterface
  BY <1>4, CommandTypes
     DEF WriteInterface, Step, Fresh, WakeAllowed, BoxIsOurs, OpCommand, ValueTypes,
        Data
<1>5. CASE WaitReturn
  BY <1>5, CommandTypes
     DEF WaitReturn, Step, Fail, Fresh, WakeAllowed, SetPending, BoxIsOurs, OpCommand,
        ValueTypes, Data
<1>6. CASE ReadData
  BY <1>6, CommandTypes DEF ReadData, Keep, Send, BoxIsOurs, OpCommand, ValueTypes, Data
<1>7. CASE Sleeping
  BY <1>7, CommandTypes
     DEF Sleeping, Fail, SetPending, BoxIsOurs, OpCommand, ValueTypes, Data
<1>8. CASE SetWake
  BY <1>8, CommandTypes DEF SetWake, BoxIsOurs, OpCommand, ValueTypes, Data
<1>9. CASE PeciFault
  BY <1>9, CommandTypes
     DEF PeciFault, Disturbance, Fail, SetPending, BoxIsOurs, OpCommand, ValueTypes,
        Data
<1>10. CASE Destroy
  BY <1>10, CommandTypes
     DEF Destroy, Disturbance, BoxIsOurs, OpCommand, ValueTypes, Data
<1>11. CASE PcodeAnswers
  BY <1>11, CommandTypes
     DEF PcodeAnswers, During, BoxIsOurs, OpCommand, ValueTypes, Data
<1>12. CASE InBand
  BY <1>12, CommandTypes
     DEF InBand, Disturbance, During, BoxIsOurs, OpCommand, ValueTypes, Data
<1>13. CASE QuietStep
  BY <1>13, CommandTypes
     DEF QuietStep, PcodeStarts, CpuDozes, OtherWakes, OtherDone, Disturbance,
        sstMailboxVars, BoxIsOurs, OpCommand, ValueTypes, Data
<1>14. CASE WriteMisreported
  BY <1>14, CommandTypes DEF WriteMisreported, BoxIsOurs, OpCommand, ValueTypes, Data
<1>. QED
  BY <1>1, <1>2, <1>3, <1>4, <1>5, <1>6, <1>7, <1>8, <1>9, <1>10, <1>11, <1>12, <1>13,
     <1>14
     DEF SstMailboxNext, OperationStep, BeginStep, QuietStep

\* The wake bit keeps somebody to clear it.
LEMMA WakeKept ==
    ASSUME FlagTypes, ValueTypes, Waiting, WakeHeld, [SstMailboxNext]_sstMailboxVars
    PROVE  WakeHeld'
<1>. USE DEF managerVars, boxVars, cpuVars, boundVars
<1>1. CASE BeginStep
  <2>1. PICK o, c : Begin(o, c) /\ o \in Ops /\ c \in Commands
    BY <1>1, BeginIs
  <2>. QED
    BY <2>1, CommandTypes DEF Begin, Send, WakeHeld, WakeNotLeaked, Waiting
<1>2. CASE WaitFree
  BY <1>2
     DEF WaitFree, Step, Fail, Fresh, WakeAllowed, SetPending, WakeHeld, WakeNotLeaked,
        Waiting
<1>3. CASE WriteData
  BY <1>3 DEF WriteData, Step, Fresh, WakeAllowed, WakeHeld, WakeNotLeaked, Waiting
<1>4. CASE WriteInterface
  BY <1>4 DEF WriteInterface, Step, Fresh, WakeAllowed, WakeHeld, WakeNotLeaked, Waiting
<1>5. CASE WaitReturn
  BY <1>5
     DEF WaitReturn, Step, Fail, Fresh, WakeAllowed, SetPending, WakeHeld,
        WakeNotLeaked, Waiting
<1>6. CASE ReadData
  BY <1>6 DEF ReadData, Keep, Send, WakeHeld, WakeNotLeaked, Waiting
<1>7. CASE Sleeping
  BY <1>7 DEF Sleeping, Fail, SetPending, WakeHeld, WakeNotLeaked, Waiting
<1>8. CASE SetWake
  BY <1>8 DEF SetWake, WakeHeld, WakeNotLeaked, Waiting
<1>9. CASE PeciFault
  <2>1. pc' = "clear" /\ peciWoken' = peciWoken /\ other' = other
    BY <1>9 DEF PeciFault, Fail
  <2>2. (leaked \/ waking = "must") => leaked'
    BY <1>9, Zenon DEF PeciFault
  <2>3. wop' = wop \/ waking = "must"
    BY <1>9 DEF PeciFault
  <2>. QED
    BY <2>1, <2>2, <2>3 DEF WakeHeld, WakeNotLeaked
<1>10. CASE Destroy
  BY <1>10 DEF Destroy, Disturbance, WakeHeld, WakeNotLeaked, Waiting
<1>11. CASE PcodeAnswers
  BY <1>11 DEF PcodeAnswers, During, WakeHeld, WakeNotLeaked, Waiting
<1>12. CASE InBand
  BY <1>12 DEF InBand, Disturbance, During, WakeHeld, WakeNotLeaked, Waiting
<1>13. CASE QuietStep
  BY <1>13
     DEF QuietStep, PcodeStarts, CpuDozes, OtherWakes, OtherDone, Disturbance,
        sstMailboxVars, WakeHeld, WakeNotLeaked, Waiting
<1>14. CASE WriteMisreported
  BY <1>14 DEF WriteMisreported, WakeHeld, WakeNotLeaked, Waiting
<1>. QED
  BY <1>1, <1>2, <1>3, <1>4, <1>5, <1>6, <1>7, <1>8, <1>9, <1>10, <1>11, <1>12, <1>13,
     <1>14
     DEF SstMailboxNext, OperationStep, BeginStep, QuietStep

\* What the answer says was so during the operation.
LEMMA LevelsKept ==
    ASSUME ValueTypes, OpCommand, BoxIsOurs, LevelsKnown, [SstMailboxNext]_sstMailboxVars
    PROVE  LevelsKnown'
<1>. USE DEF managerVars, boxVars, cpuVars, boundVars
<1>1. CASE BeginStep
  <2>1. PICK o, c : Begin(o, c) /\ o \in Ops /\ c \in Commands
    BY <1>1, BeginIs
  <2>. QED
    BY <2>1, CommandTypes DEF Begin, Send, LevelsKnown, Answered
<1>2. CASE WaitFree
  BY <1>2
     DEF WaitFree, Step, Fail, Fresh, WakeAllowed, SetPending, LevelsKnown, Answered,
        BoxIsOurs, OpCommand, ValueTypes, Data
<1>3. CASE WriteData
  BY <1>3
     DEF WriteData, Step, Fresh, WakeAllowed, LevelsKnown, Answered, BoxIsOurs,
        OpCommand, ValueTypes, Data, SetPending
<1>4. CASE WriteInterface
  BY <1>4
     DEF WriteInterface, Step, Fresh, WakeAllowed, LevelsKnown, Answered, BoxIsOurs,
        OpCommand, ValueTypes, Data, SetPending
<1>5. CASE WaitReturn
  BY <1>5
     DEF WaitReturn, Step, Fail, Fresh, WakeAllowed, SetPending, LevelsKnown, Answered,
        BoxIsOurs, OpCommand, ValueTypes, Data
<1>6. CASE ReadData
  BY <1>6
     DEF ReadData, Keep, Send, LevelsKnown, Answered, BoxIsOurs, OpCommand, ValueTypes,
        Data, SetPending
<1>7. CASE Sleeping
  BY <1>7
     DEF Sleeping, Fail, SetPending, LevelsKnown, Answered, BoxIsOurs, OpCommand,
        ValueTypes, Data
<1>8. CASE SetWake
  BY <1>8
     DEF SetWake, LevelsKnown, Answered, BoxIsOurs, OpCommand, ValueTypes, Data,
        SetPending
<1>9. CASE PeciFault
  BY <1>9
     DEF PeciFault, Disturbance, Fail, SetPending, LevelsKnown, Answered, BoxIsOurs,
        OpCommand, ValueTypes, Data
<1>10. CASE Destroy
  BY <1>10
     DEF Destroy, Disturbance, LevelsKnown, Answered, BoxIsOurs, OpCommand, ValueTypes,
        Data, SetPending
<1>11. CASE PcodeAnswers
  <2>1. PICK what \in {"answer", "error"} :
            /\ data' = [of |-> pcode, what |-> what, level |-> level]
            /\ level' = IF what = "answer" /\ pcode.kind = "setLevel" THEN pcode.arg
                        ELSE level
    BY <1>11 DEF PcodeAnswers
  <2>2. busy /\ pcode = iface /\ pc # "read"
    BY <1>11 DEF PcodeAnswers, BoxIsOurs
  <2>3. pc # "idle" => level \in during' /\ level' \in during'
    BY <1>11 DEF PcodeAnswers, During, LevelsKnown
  <2>4. pc = "return" /\ op = "setAppliedConfig" => pcode = cmd /\ cmd.kind = "setLevel"
    BY <2>2 DEF BoxIsOurs, OpCommand
  <2>5. pc' = pc /\ op' = op /\ cmd' = cmd
    BY <1>11 DEF PcodeAnswers
  <2>. QED
    BY <2>1, <2>2, <2>3, <2>4, <2>5 DEF LevelsKnown, Answered
<1>12. CASE InBand
  BY <1>12
     DEF InBand, Disturbance, During, LevelsKnown, Answered, BoxIsOurs, OpCommand,
        ValueTypes, Data, SetPending
<1>13. CASE QuietStep
  BY <1>13
     DEF QuietStep, PcodeStarts, CpuDozes, OtherWakes, OtherDone, Disturbance,
        sstMailboxVars, LevelsKnown, Answered, BoxIsOurs, OpCommand, ValueTypes, Data,
        SetPending
<1>14. CASE WriteMisreported
  BY <1>14 DEF WriteMisreported, LevelsKnown, Answered, BoxIsOurs, OpCommand, ValueTypes
<1>. QED
  BY <1>1, <1>2, <1>3, <1>4, <1>5, <1>6, <1>7, <1>8, <1>9, <1>10, <1>11, <1>12, <1>13,
     <1>14
     DEF SstMailboxNext, OperationStep, BeginStep, QuietStep

\* CPUConfig keeps up with the level of the CPU.
LEMMA DriftKept ==
    ASSUME FlagTypes, ValueTypes, OpCommand, BoxIsOurs, LevelsKnown, NotDrifted, [SstMailboxNext]_sstMailboxVars
    PROVE  NotDrifted'
<1>. USE DEF managerVars, boxVars, cpuVars, boundVars
<1>1. CASE BeginStep
  <2>1. PICK o, c : Begin(o, c) /\ o \in Ops /\ c \in Commands
    BY <1>1, BeginIs
  <2>. QED
    BY <2>1, CommandTypes DEF Begin, Send, NotDrifted, SetPending, Answered
<1>2. CASE WaitFree
  <2>1. CASE Fail
    BY <1>2, <2>1, FailDrifts DEF WaitFree, Fail, NotDrifted, SetPending, Answered
  <2>2. CASE ~Fail
    BY <1>2, <2>2 DEF WaitFree, Step, NotDrifted, SetPending, Answered, BoxIsOurs
  <2>. QED
    BY <1>2, <2>1, <2>2 DEF WaitFree, Step
<1>3. CASE WriteData
  BY <1>3
     DEF WriteData, Step, Fresh, WakeAllowed, NotDrifted, LevelsKnown, SetPending,
        Answered, BoxIsOurs, OpCommand, ValueTypes, Data
<1>4. CASE WriteInterface
  <2>1. cmd.kind = "setLevel" => op = "setAppliedConfig"
    BY <1>4 DEF WriteInterface, OpCommand, ValueTypes, Ops
  <2>. QED
    BY <1>4, <2>1 DEF WriteInterface, Step, NotDrifted, SetPending, Answered
<1>5. CASE WaitReturn
  <2>1. CASE Fail
    BY <1>5, <2>1, FailDrifts DEF WaitReturn, Fail, NotDrifted, SetPending, Answered
  <2>2. CASE ~Fail
    BY <1>5, <2>2 DEF WaitReturn, Step, NotDrifted, SetPending, Answered, BoxIsOurs
  <2>. QED
    BY <1>5, <2>1, <2>2 DEF WaitReturn, Step
<1>6. CASE ReadData
  BY <1>6
     DEF ReadData, Keep, Send, NotDrifted, LevelsKnown, SetPending, Answered, BoxIsOurs,
        OpCommand, ValueTypes, Data
<1>7. CASE Sleeping
  <2>1. CASE Fail
    BY <1>7, <2>1, FailDrifts DEF Sleeping, Fail, NotDrifted, SetPending, Answered
  <2>2. CASE ~Fail
    BY <1>7, <2>2 DEF Sleeping, NotDrifted, SetPending, Answered, BoxIsOurs
  <2>. QED
    BY <1>7, <2>1, <2>2 DEF Sleeping
<1>8. CASE SetWake
  BY <1>8
     DEF SetWake, NotDrifted, LevelsKnown, SetPending, Answered, BoxIsOurs, OpCommand,
        ValueTypes, Data
<1>9. CASE PeciFault
  BY <1>9, FailDrifts DEF PeciFault, Fail, NotDrifted, SetPending, Answered
<1>10. CASE Destroy
  BY <1>10
     DEF Destroy, Disturbance, NotDrifted, LevelsKnown, SetPending, Answered, BoxIsOurs,
        OpCommand, ValueTypes, Data
<1>11. CASE PcodeAnswers
  <2>1. PICK what \in {"answer", "error"} :
            /\ data' = [of |-> pcode, what |-> what, level |-> level]
            /\ level' = IF what = "answer" /\ pcode.kind = "setLevel" THEN pcode.arg
                        ELSE level
    BY <1>11 DEF PcodeAnswers
  <2>2. busy /\ ~busy' /\ pcode = iface /\ pc # "read"
    BY <1>11 DEF PcodeAnswers, BoxIsOurs
  <2>3. pc' = pc /\ op' = op /\ cmd' = cmd /\ drifted' = drifted
        /\ currentLevel' = currentLevel
    BY <1>11 DEF PcodeAnswers
  <2>4. SetPending => pcode = cmd /\ cmd.kind = "setLevel"
    BY <2>2 DEF BoxIsOurs, OpCommand, SetPending
  <2>5. pc = "return" /\ op = "appliedConfig" => pcode.kind # "setLevel"
    BY <2>2 DEF BoxIsOurs, OpCommand
  <2>6. ~drifted => currentLevel = level /\ (pcode.kind = "setLevel" => SetPending)
    BY <2>2 DEF NotDrifted, Answered
  <2>. QED
    BY <2>1, <2>2, <2>3, <2>4, <2>5, <2>6 DEF NotDrifted, SetPending, Answered
<1>12. CASE InBand
  BY <1>12
     DEF InBand, Disturbance, During, NotDrifted, LevelsKnown, SetPending, Answered,
        BoxIsOurs, OpCommand, ValueTypes, Data
<1>13. CASE QuietStep
  BY <1>13
     DEF QuietStep, PcodeStarts, CpuDozes, OtherWakes, OtherDone, Disturbance,
        sstMailboxVars, NotDrifted, LevelsKnown, SetPending, Answered, BoxIsOurs,
        OpCommand, ValueTypes, Data
<1>14. CASE WriteMisreported
  <2>1. cmd.kind = "setLevel" => op = "setAppliedConfig"
    BY <1>14 DEF WriteMisreported, OpCommand, ValueTypes, Ops
  <2>2. ~drifted' => ~drifted /\ (pc = "run" => op # "setAppliedConfig")
    BY <1>14, Zenon DEF WriteMisreported
  <2>3. CASE pc = "data"
    BY <1>14, <2>2, <2>3 DEF WriteMisreported, NotDrifted, SetPending, Answered, BoxIsOurs
  <2>4. CASE pc = "run"
    BY <1>14, <2>1, <2>2, <2>4 DEF WriteMisreported, NotDrifted, SetPending, Answered
  <2>. QED
    BY <1>14, <2>3, <2>4 DEF WriteMisreported
<1>. QED
  BY <1>1, <1>2, <1>3, <1>4, <1>5, <1>6, <1>7, <1>8, <1>9, <1>10, <1>11, <1>12, <1>13,
     <1>14
     DEF SstMailboxNext, OperationStep, BeginStep, QuietStep

\* Every step preserves the invariant.
LEMMA MailboxStep == MailboxInv /\ [SstMailboxNext]_sstMailboxVars => MailboxInv'
  BY TypesSplit, FlagsKept, ValuesKept, OpCommandKept, WaitingKept, BoxKept, WakeKept,
     LevelsKept, DriftKept DEF MailboxInv, SstMailboxTypeOK, FlagTypes, ValueTypes

\* The variables stay in their types; the attempts never run below zero.
THEOREM SstMailboxTypeCorrect == SstMailboxSpec => []SstMailboxTypeOK
<1>1. MailboxInv => SstMailboxTypeOK
  BY DEF MailboxInv
<1>. QED
  BY <1>1, MailboxInit, MailboxStep, PTL DEF SstMailboxSpec

\* What is read from the mailbox answers the command that was sent, after any number of
\* commands that were given up while PCode worked on them.
THEOREM AnswerAlwaysOurs == SstMailboxSpec => []AnswerIsOurs
<1>1. MailboxInv => AnswerIsOurs
  BY DEF MailboxInv, BoxIsOurs, AnswerIsOurs
<1>. QED
  BY <1>1, MailboxInit, MailboxStep, PTL DEF SstMailboxSpec

\* The wake bit is not left behind, with another application that uses it and with
\* any number of faults.
THEOREM WakeNeverLeaked == SstMailboxSpec => []WakeNotLeaked
<1>1. MailboxInv => WakeNotLeaked
  BY DEF MailboxInv, WakeHeld
<1>. QED
  BY <1>1, MailboxInit, MailboxStep, PTL DEF SstMailboxSpec

\* A level that is kept was the CPU's during the call.
THEOREM LevelAlwaysCurrent == SstMailboxSpec => LevelWasCurrent
<1>1. MailboxInv /\ [SstMailboxNext]_sstMailboxVars =>
          [ReadData /\ op \in {"appliedConfig", "setAppliedConfig"} =>
               currentLevel' \in during]_sstMailboxVars
  BY DEF MailboxInv, LevelsKnown, BoxIsOurs, Answered, ReadData, Keep
<1>. QED
  BY <1>1, MailboxInit, MailboxStep, PTL DEF SstMailboxSpec, LevelWasCurrent

\* BF is read for another level than the CPU's only if it was changed unseen.
THEOREM BfLevelAlwaysExplained == SstMailboxSpec => BfLevelExplained
<1>1. MailboxInv /\ [SstMailboxNext]_sstMailboxVars =>
          [ReadData /\ op = "baseSpeedPriorityEnabled" =>
               cmd.arg \in during \/ drifted]_sstMailboxVars
  <2>. SUFFICES ASSUME MailboxInv, ReadData, op = "baseSpeedPriorityEnabled", ~drifted
                PROVE  cmd.arg \in during
    OBVIOUS
  <2>1. cmd.arg = currentLevel /\ level \in during
    BY DEF MailboxInv, OpCommand, LevelsKnown, ReadData
  <2>. QED
    BY <2>1 DEF MailboxInv, NotDrifted, SetPending
<1>. QED
  BY <1>1, MailboxInit, MailboxStep, PTL DEF SstMailboxSpec, BfLevelExplained
=============================================================================
