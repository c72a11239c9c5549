---------------------------- MODULE ClientProofs ----------------------------
(***************************************************************************)
(* Proofs about what the clients of a run are shown and what they leave    *)
(* behind: the docker stack of `output dev` (DevSession), the run under    *)
(* the cursor of its dashboard (RunDetail), the lines of `output workflow  *)
(* monitor` (WorkflowMonitor) and the events of an EventSource that reads  *)
(* the history stream (HistoryStream).  The last two read a history page   *)
(* by page, and share the lemmas about its pages.                          *)
(***************************************************************************)
EXTENDS DevSession, RunDetail, WorkflowMonitor, HistoryStream, SequenceTheorems,
        FiniteSetTheorems, FunctionTheorems, WellFoundedInduction, TLAPS

-----------------------------------------------------------------------------
(***************************************************************************)
(* The docker stack goes with the command that owns it: type correctness,  *)
(* OwnedStackGoes and OthersStackStays in every run of `output dev`.       *)
(***************************************************************************)
(* Before the dashboard there is nothing to clean up and nobody to do it. *)
NothingYet ==
    step \notin {"mounted", "over"} =>
        ~owns /\ up = "none" /\ ui = "none" /\ ~cleaningUp /\ down = "no"

(* Only what was started is owned, and only what is owned is taken down. *)
OwnedWasStarted ==
    /\ owns => stackState \in {"none", "unanswered"}
    /\ ~owns => down = "no"

(* A clean-up leaves compose told to stop, so that what it took down stays down. *)
CleanedUpStaysDown ==
    owns /\ cleaningUp => up # "running" /\ (down # "failed" => stack = "none")

(* Without a clean-up the dashboard leaves in peace only when compose has ended with all
   containers stopped. *)
LeftInPeace == owns /\ ui = "left" /\ ~cleaningUp => up = "gone" /\ stack = "none"

IInv ==
    /\ TypeOK /\ NothingYet /\ OwnedWasStarted /\ CleanedUpStaysDown /\ LeftInPeace
    /\ OwnedStackGoes

-----------------------------------------------------------------------------
(* Nothing is owned and nothing is up. *)
LEMMA InitInvariant == Init => IInv
BY DEF Init, IInv, TypeOK, NothingYet, OwnedWasStarted, CleanedUpStaysDown, LeftInPeace,
       OwnedStackGoes, StackStates

(* The steps up to the dashboard. *)
LEMMA BeforeTheDashboard ==
  ASSUME IInv, Detects \/ Probes \/ Reconciles \/ Mounts
  PROVE  IInv'
<1> USE DEF IInv, NothingYet, OwnedWasStarted, CleanedUpStaysDown, LeftInPeace,
           OwnedStackGoes, Exit, NotYet
<1>1. CASE Detects
  BY <1>1 DEF Detects, TypeOK, StackStates
<1>2. CASE Probes
  BY <1>2 DEF Probes, TypeOK, StackStates
<1>3. CASE Reconciles
  BY <1>3 DEF Reconciles, TypeOK, StackStates
<1>4. CASE Mounts
  BY <1>4 DEF Mounts, OwnsStack, TypeOK, StackStates
<1> QED BY <1>1, <1>2, <1>3, <1>4

(* What docker and the health check do. *)
LEMMA WhileItIsThere ==
  ASSUME IInv, StackMoves \/ UpExits \/ HealthArrives \/ HealthTimesOut
  PROVE  IInv'
<1> USE DEF IInv, NothingYet, OwnedWasStarted, CleanedUpStaysDown, LeftInPeace,
           OwnedStackGoes
<1>1. CASE StackMoves
  BY <1>1 DEF StackMoves, TypeOK, StackStates
<1>2. CASE UpExits
  BY <1>2 DEF UpExits, OnExit, Leaves, Mounted, TypeOK, StackStates
<1>3. CASE HealthArrives
  BY <1>3 DEF HealthArrives, Mounted, TypeOK, StackStates
<1>4. CASE HealthTimesOut
  BY <1>4 DEF HealthTimesOut, Leaves, Mounted, TypeOK, StackStates
<1> QED BY <1>1, <1>2, <1>3, <1>4

(* What a teardown does to a stack, in a state of the invariant. *)
LEMMA TeardownFacts ==
  ASSUME IInv, NEW result \in {"done", "failed"}, TearsDown(result)
  PROVE  /\ stack' \in StackStates /\ up' \in {"none", "running", "stopping", "gone"}
         /\ down' \in {"no", "done", "failed"}
         /\ owns => up' # "running" /\ (down' # "failed" => stack' = "none")
         /\ ~owns => UNCHANGED <<up, down, stack>>
         /\ up' # "none" => owns
BY DEF IInv, TearsDown, TypeOK, StackStates

(* The ways out. *)
LEMMA OnTheWayOut ==
  ASSUME IInv,
         \/ HandlesSignal \/ CtrlC \/ HandlesFatalError
         \/ Finishes \/ FinishesWithError \/ IsKilled
  PROVE  IInv'
<1> USE DEF IInv, NothingYet, OwnedWasStarted, CleanedUpStaysDown, LeftInPeace,
           OwnedStackGoes, Fixed, Exit, Leaves, Mounted
<1>1. CASE HandlesSignal
  <2> PICK result \in {"done", "failed"} : Cleanup(result)
    BY <1>1 DEF HandlesSignal
  <2> QED BY <1>1, TeardownFacts DEF HandlesSignal, Cleanup, TypeOK, StackStates
<1>2. CASE CtrlC
  <2> PICK result \in {"done", "failed"} :
             Cleanup(result) /\ Leaves(IF result = "done" THEN "left" ELSE "left_error")
    BY <1>2 DEF CtrlC
  <2> QED BY <1>2, TeardownFacts DEF CtrlC, Cleanup, TypeOK, StackStates
<1>3. CASE HandlesFatalError
  <2> PICK result \in {"done", "failed"} : Cleanup(result)
    BY <1>3 DEF HandlesFatalError
  <2> QED BY <1>3, TeardownFacts DEF HandlesFatalError, Cleanup, TypeOK, StackStates
<1>4. CASE Finishes
  BY <1>4 DEF Finishes, TypeOK
<1>5. CASE FinishesWithError
  <2>1. CASE cleaningUp /\ UNCHANGED <<stack, up, down>>
    BY <1>5, <2>1 DEF FinishesWithError, TypeOK
  <2>2. CASE ~cleaningUp /\ \E result \in {"done", "failed"} : TearsDown(result)
    <3> PICK result \in {"done", "failed"} : TearsDown(result)
      BY <2>2
    <3> QED BY <1>5, <2>2, TeardownFacts DEF FinishesWithError, TypeOK, StackStates
  <2> QED BY <1>5, <2>1, <2>2 DEF FinishesWithError
<1>6. CASE IsKilled
  BY <1>6 DEF IsKilled, TypeOK
<1> QED BY <1>1, <1>2, <1>3, <1>4, <1>5, <1>6

(* The invariant is inductive. *)
LEMMA NextInvariant == IInv /\ [Next]_vars => IInv'
<1> SUFFICES ASSUME IInv, [Next]_vars PROVE IInv'
  OBVIOUS
<1>1. CASE Next
  BY <1>1, BeforeTheDashboard, WhileItIsThere, OnTheWayOut DEF Next
<1>2. CASE UNCHANGED vars
  BY <1>2 DEF vars, IInv, TypeOK, NothingYet, OwnedWasStarted, CleanedUpStaysDown,
              LeftInPeace, OwnedStackGoes
<1> QED BY <1>1, <1>2

(* It holds of every session, whatever docker answers and however it ends. *)
LEMMA Invariance == Spec => []IInv
BY InitInvariant, NextInvariant, PTL DEF Spec

(* A stack that `output dev` started is gone when the command has ended, on whichever
   path, unless the teardown failed or the process was killed; one that it found is never
   taken down (commands/dev/index.ts). *)
THEOREM StackGoes == Spec => []StackGoesWithItsOwner
<1>1. IInv => StackGoesWithItsOwner
  BY DEF IInv, StackGoesWithItsOwner, OwnedWasStarted, OthersStackStays
<1> QED BY <1>1, Invariance, PTL

-----------------------------------------------------------------------------
(***************************************************************************)
(* The run under the cursor of the dashboard.                              *)
(***************************************************************************)
(* A fetch is known by its number, and only an answer about a run that has ended is final. *)
FetchesAreNumbered ==
    \A f \in fetches : f.id <= last /\ (f.read = "final" => f.run \in ended)

(* The last fetch is for the run that was asked for, and that is the one under the cursor
   as long as it goes on. *)
LastFetchIsForTheAsked ==
    /\ \A f \in fetches : f.id = last /\ last # 0 => f.run = asked
    /\ clampedIndex # 0 =>
         LET run == UnderCursor(listed, clampedIndex) IN run \in ended \/ asked = run

DetailIInv ==
    /\ DetailTypeOK /\ ShowsTheRunUnderTheCursor
    /\ FetchesAreNumbered /\ LastFetchIsForTheAsked
    /\ clampedIndex = 0 => last = 0

-----------------------------------------------------------------------------
LEMMA OneRunInEachPlace ==
  ASSUME NEW done, NEW at \in Runs
  PROVE  UnderCursor(done, at) \in Runs
<1> DEFINE place == [run \in Runs |-> Cardinality(Ahead(done, run)) + 1]
<1>0. \A run \in Runs : Rank(done, run) \in Int
  BY RankAssumption DEF Rank, Runs
<1>1. IsFiniteSet(Runs) /\ Cardinality(Runs) = Count
  BY FS_Interval, CountAssumption DEF Runs
<1>2. ASSUME NEW run \in Runs
      PROVE  /\ IsFiniteSet(Ahead(done, run)) /\ Cardinality(Ahead(done, run)) \in Nat
             /\ place[run] \in Runs
  <2>1. Ahead(done, run) \subseteq Runs \ {run}
    BY <1>0, CountAssumption DEF Ahead, ComesBefore, Runs
  <2>2. IsFiniteSet(Runs \ {run}) /\ Cardinality(Runs \ {run}) = Count - 1
    BY <1>1, FS_RemoveElement
  <2>3. IsFiniteSet(Ahead(done, run)) /\ Cardinality(Ahead(done, run)) <= Count - 1
    BY <2>1, <2>2, FS_Subset
  <2>4. Cardinality(Ahead(done, run)) \in Nat
    BY <2>3, FS_CardinalityType
  <2> QED BY <2>3, <2>4, CountAssumption DEF Runs
<1>3. ASSUME NEW a \in Runs, NEW b \in Runs, ComesBefore(done, a, b)
      PROVE  place[a] # place[b]
  <2>1. Ahead(done, a) \subseteq Ahead(done, b) /\ a \in Ahead(done, b)
    BY <1>0, <1>3, CountAssumption DEF Ahead, ComesBefore, Runs
  <2>2. a \notin Ahead(done, a)
    BY <1>0, CountAssumption DEF Ahead, ComesBefore, Runs
  <2>3. Cardinality(Ahead(done, a)) # Cardinality(Ahead(done, b))
    BY <2>1, <2>2, <1>2, FS_Subset
  <2> QED BY <2>3, <1>2
<1>4. ASSUME NEW a \in Runs, NEW b \in Runs, a # b
      PROVE  ComesBefore(done, a, b) \/ ComesBefore(done, b, a)
  BY <1>0, <1>4, CountAssumption DEF ComesBefore, Runs
<1>5. place \in Injection(Runs, Runs)
  BY <1>2, <1>3, <1>4 DEF Injection, IsInjective
<1>6. place \in Surjection(Runs, Runs)
  BY <1>1, <1>5, FS_Injection
<1>7. PICK run \in Runs : place[run] = at
  BY <1>6 DEF Surjection
<1>8. Cardinality(Ahead(done, run)) + 1 = at
  BY <1>7
<1> QED BY <1>8 DEF UnderCursor

-----------------------------------------------------------------------------
CacheOK(c) == c \in Seq(Runs) /\ IsInjective(c)

LEMMA RemovedAt ==
  ASSUME NEW S, NEW s \in Seq(S), NEW at \in 1 .. Len(s)
  PROVE  /\ RemoveAt(s, at) \in Seq(S) /\ Len(RemoveAt(s, at)) = Len(s) - 1
         /\ \A j \in 1 .. Len(s) - 1 : RemoveAt(s, at)[j] = IF j < at THEN s[j] ELSE s[j + 1]
<1> DEFINE a == SubSeq(s, 1, at - 1)
           b == SubSeq(s, at + 1, Len(s))
<1>1. a \in Seq(S) /\ Len(a) = at - 1 /\ \A j \in 1 .. at - 1 : a[j] = s[j]
  BY SubSeqProperties
<1>2. b \in Seq(S) /\ Len(b) = Len(s) - at /\ \A j \in 1 .. Len(s) - at : b[j] = s[at + j]
  BY SubSeqProperties
<1> HIDE DEF a, b
<1>3. RemoveAt(s, at) = a \o b
  BY DEF RemoveAt, a, b
<1>4. a \o b \in Seq(S) /\ Len(a \o b) = Len(s) - 1
  <2>1. a \o b \in Seq(S) /\ Len(a \o b) = Len(a) + Len(b)
    BY <1>1, <1>2, ConcatProperties
  <2> QED BY <2>1, <1>1, <1>2, LenProperties
<1>5. ASSUME NEW j \in 1 .. Len(s) - 1
      PROVE  (a \o b)[j] = IF j < at THEN s[j] ELSE s[j + 1]
  <2>1. CASE j < at
    BY <1>1, <1>2, <2>1
  <2>2. CASE ~(j < at)
    <3>1. (a \o b)[j] = b[j - (at - 1)]
      <4>1. Len(a) = at - 1 /\ j \in 1 .. Len(a) + Len(b) /\ ~(j <= Len(a))
        BY <1>1, <1>2, <2>2, LenProperties
      <4>2. (a \o b)[j] = b[j - Len(a)]
        BY <1>1, <1>2, <4>1, ConcatProperties
      <4> QED BY <4>1, <4>2
    <3>2. j - (at - 1) \in 1 .. Len(s) - at /\ at + (j - (at - 1)) = j + 1
      BY <2>2
    <3> QED BY <3>1, <3>2, <2>2, <1>2
  <2> QED BY <2>1, <2>2
<1> QED BY <1>3, <1>4, <1>5

LEMMA WithoutOne ==
  ASSUME CacheOK(cache), NEW run \in Runs
  PROVE  /\ CacheOK(Without(run))
         /\ ToSet(Without(run)) = ToSet(cache) \ {run}
         /\ IF run \in ToSet(cache) THEN Len(Without(run)) = Len(cache) - 1
                                    ELSE Len(Without(run)) = Len(cache)
<1>1. CASE run \notin ToSet(cache)
  BY <1>1 DEF Without, CacheOK
<1>2. CASE run \in ToSet(cache)
  <2> DEFINE at == CHOOSE i \in DOMAIN cache : cache[i] = run
             rest == RemoveAt(cache, at)
  <2>1. at \in 1 .. Len(cache) /\ cache[at] = run
    BY <1>2 DEF ToSet, CacheOK
  <2> HIDE DEF at
  <2>2. /\ rest \in Seq(Runs) /\ Len(rest) = Len(cache) - 1
        /\ \A j \in 1 .. Len(rest) : rest[j] = IF j < at THEN cache[j] ELSE cache[j + 1]
    BY <2>1, RemovedAt DEF CacheOK
  <2> HIDE DEF rest
  <2>3. ASSUME NEW i \in 1 .. Len(rest), NEW j \in 1 .. Len(rest), rest[i] = rest[j]
        PROVE  i = j
    <3>1. PICK a \in 1 .. Len(cache), b \in 1 .. Len(cache) :
            /\ a = (IF i < at THEN i ELSE i + 1) /\ b = (IF j < at THEN j ELSE j + 1)
            /\ rest[i] = cache[a] /\ rest[j] = cache[b]
      BY <2>1, <2>2, LenProperties DEF CacheOK
    <3>2. a = b
      <4>1. DOMAIN cache = 1 .. Len(cache) /\ cache[a] = cache[b]
        BY <2>3, <3>1, LenProperties DEF CacheOK
      <4>2. a \in DOMAIN cache /\ b \in DOMAIN cache
        BY <4>1
      <4> QED BY <4>1, <4>2 DEF IsInjective, CacheOK
    <3> QED BY <2>1, <3>1, <3>2
  <2>4. ToSet(rest) \subseteq ToSet(cache) \ {run}
    BY <2>1, <2>2 DEF IsInjective, CacheOK, ToSet
  <2>5. ASSUME NEW x \in ToSet(cache) \ {run} PROVE x \in ToSet(rest)
    <3>1. PICK j \in 1 .. Len(cache) : cache[j] = x
      BY <2>5 DEF ToSet, CacheOK
    <3>2. j # at
      BY <3>1, <2>1, <2>5
    <3>3. CASE j < at
      BY <3>1, <3>3, <2>1, <2>2 DEF ToSet, CacheOK
    <3>4. CASE j > at
      <4>1. j - 1 \in 1 .. Len(rest) /\ rest[j - 1] = x
        BY <3>1, <3>4, <2>1, <2>2 DEF CacheOK
      <4> QED BY <4>1, <2>2 DEF ToSet
    <3> QED BY <3>2, <3>3, <3>4, <2>1 DEF CacheOK
  <2>6. Without(run) = rest
    BY <1>2 DEF Without, rest, at
  <2> QED BY <1>2, <2>2, <2>3, <2>4, <2>5, <2>6 DEF CacheOK, IsInjective
<1> QED BY <1>1, <1>2

LEMMA AppendNew ==
  ASSUME NEW c, CacheOK(c), NEW run \in Runs, run \notin ToSet(c)
  PROVE  /\ CacheOK(Append(c, run)) /\ Len(Append(c, run)) = Len(c) + 1
         /\ ToSet(Append(c, run)) = ToSet(c) \cup {run}
BY DEF CacheOK, IsInjective, ToSet

LEMMA TailOfCache ==
  ASSUME NEW c, CacheOK(c), c # <<>>
  PROVE  /\ CacheOK(Tail(c)) /\ Len(Tail(c)) = Len(c) - 1 /\ ToSet(Tail(c)) \subseteq ToSet(c)
BY DEF CacheOK, IsInjective, ToSet

LEMMA TouchedCache ==
  ASSUME CacheOK(cache), Len(cache) <= CacheMax, NEW run \in Runs
  PROVE  /\ CacheOK(Touched(run)) /\ ToSet(Touched(run)) = ToSet(cache) \cup {run}
         /\ Len(Touched(run)) <= IF run \in ToSet(cache) THEN CacheMax ELSE CacheMax + 1
<1>1. run \notin ToSet(Without(run)) /\ CacheOK(Without(run))
  BY WithoutOne
<1>2. /\ CacheOK(Touched(run)) /\ Len(Touched(run)) = Len(Without(run)) + 1
      /\ ToSet(Touched(run)) = ToSet(Without(run)) \cup {run}
  BY <1>1, AppendNew DEF Touched
<1>3. Len(cache) \in Nat /\ Len(Without(run)) \in Nat
  BY <1>1 DEF CacheOK
<1> QED BY <1>2, <1>3, WithoutOne, CountAssumption

LEMMA KeptCache ==
  ASSUME CacheOK(cache), Len(cache) <= CacheMax, NEW run \in Runs
  PROVE  /\ CacheOK(Kept(run)) /\ ToSet(Kept(run)) \subseteq ToSet(cache) \cup {run}
         /\ Len(Kept(run)) <= CacheMax
<1> DEFINE new == Touched(run)
<1>1. CacheOK(new) /\ ToSet(new) = ToSet(cache) \cup {run} /\ Len(new) <= CacheMax + 1
  BY TouchedCache, CountAssumption, LenProperties DEF CacheOK
<1> HIDE DEF new
<1>2. CASE Len(new) > CacheMax
  <2>1. new # <<>>
    BY <1>1, <1>2, CountAssumption DEF CacheOK
  <2> QED BY <1>1, <1>2, <2>1, TailOfCache, CountAssumption DEF Kept, new, CacheOK
<1>3. CASE ~(Len(new) > CacheMax)
  BY <1>1, <1>3, CountAssumption DEF Kept, new, CacheOK
<1> QED BY <1>2, <1>3

-----------------------------------------------------------------------------
LEMMA DetailInitInvariant == DetailInit => DetailIInv
<1> SUFFICES ASSUME DetailInit PROVE DetailIInv
  OBVIOUS
<1>1. <<>> \in Seq(Runs) /\ Len(<<>>) = 0 /\ IsInjective(<<>>) /\ ToSet(<<>>) = {}
  BY DEF IsInjective, ToSet
<1>2. DetailTypeOK
  <2>1. Nobody \in [run : 0 .. Count, result : Results, loading : BOOLEAN]
    BY CountAssumption DEF Nobody, Results
  <2>2. 0 \in 0 .. Count /\ 0 \in 0 .. MaxFetches /\ 0 <= CacheMax
    BY CountAssumption
  <2> QED BY <1>1, <2>1, <2>2 DEF DetailInit, DetailTypeOK
<1> QED BY <1>1, <1>2 DEF DetailInit, DetailIInv, Nobody, ShowsTheRunUnderTheCursor,
           FetchesAreNumbered, LastFetchIsForTheAsked

(* What the effect leaves, whichever way it goes. *)
LEMMA EffectShows ==
  ASSUME DetailIInv, NEW run \in Runs, Effect(run)
  PROVE  /\ shown' \in [run : 0 .. Count, result : Results, loading : BOOLEAN]
         /\ shown'.run = run /\ (shown'.result = "final" => run \in ended)
         /\ run \in ended \/ asked' = run
         /\ CacheOK(cache') /\ Len(cache') <= CacheMax /\ ToSet(cache') \subseteq ended
         /\ fetches' \subseteq [id : 0 .. MaxFetches, run : Runs, read : Results]
         /\ last' \in 0 .. MaxFetches /\ asked' \in 0 .. Count
         /\ \A f \in fetches' : f.id <= last' /\ (f.read = "final" => f.run \in ended)
         /\ \A f \in fetches' : f.id = last' /\ last' # 0 => f.run = asked'
<1>1. CacheOK(cache) /\ Len(cache) <= CacheMax /\ ToSet(cache) \subseteq ended
  BY DEF DetailIInv, DetailTypeOK, CacheOK, ShowsTheRunUnderTheCursor
<1>2. run \in 0 .. Count /\ "final" \in Results /\ "none" \in Results
  BY CountAssumption DEF Runs, Results
<1>3. /\ fetches \subseteq [id : 0 .. MaxFetches, run : Runs, read : Results]
      /\ last \in 0 .. MaxFetches
      /\ \A f \in fetches : f.id <= last /\ (f.read = "final" => f.run \in ended)
      /\ asked \in 0 .. Count
      /\ \A f \in fetches : f.id = last /\ last # 0 => f.run = asked
  BY DEF DetailIInv, DetailTypeOK, FetchesAreNumbered, LastFetchIsForTheAsked
<1>4. CASE run \in ToSet(cache)
  <2>1. /\ shown' = [run |-> run, result |-> "final", loading |-> FALSE]
        /\ cache' = Touched(run) /\ last' = last /\ fetches' = fetches
        /\ asked' = asked
    BY <1>4 DEF Effect
  <2>2. CacheOK(cache') /\ ToSet(cache') = ToSet(cache) /\ Len(cache') <= CacheMax
    BY <1>1, <1>4, <2>1, TouchedCache
  <2>3. shown' \in [run : 0 .. Count, result : Results, loading : BOOLEAN]
    BY <2>1, <1>2
  <2>4. shown'.run = run /\ run \in ended
    BY <2>1, <1>1, <1>4
  <2> QED BY <1>1, <1>3, <2>1, <2>2, <2>3, <2>4
<1>5. CASE run \notin ToSet(cache)
  <2> DEFINE new == [id |-> last + 1, run |-> run, read |-> "none"]
  <2>1. /\ fetches' = fetches \cup {new} /\ last' = last + 1 /\ last < MaxFetches
        /\ shown' = Loading(run) /\ asked' = run /\ cache' = cache
    BY <1>5 DEF Effect
  <2>2. last' \in 0 .. MaxFetches /\ last' # 0
    BY <2>1, <1>3, CountAssumption
  <2>3. new \in [id : 0 .. MaxFetches, run : Runs, read : Results]
    BY <2>1, <2>2, <1>2
  <2>4. \A f \in fetches : f.id < last' /\ f.id <= last'
    BY <2>1, <1>3, CountAssumption
  <2>5. new.id = last' /\ new.run = run /\ new.read # "final"
    BY <2>1
  <2>6. /\ shown' \in [run : 0 .. Count, result : Results, loading : BOOLEAN]
        /\ shown'.run = run /\ shown'.result # "final"
    BY <2>1, <1>2 DEF Loading
  <2> HIDE DEF new
  <2>7. /\ fetches' \subseteq [id : 0 .. MaxFetches, run : Runs, read : Results]
        /\ asked' \in 0 .. Count
    BY <1>2, <2>1, <2>3, <1>3
  <2>8. \A f \in fetches' : f.id <= last' /\ (f.read = "final" => f.run \in ended)
    BY <2>1, <2>2, <2>4, <2>5, <1>3
  <2>9. \A f \in fetches' : f.id = last' => f.run = run
    <3>1. \A f \in fetches : f.id # last'
      BY <2>4, <2>2, <1>3
    <3> QED BY <2>1, <2>5, <3>1
  <2> QED BY <1>1, <2>1, <2>2, <2>6, <2>7, <2>8, <2>9
<1> QED BY <1>4, <1>5

-----------------------------------------------------------------------------
LEMMA RunEndsInvariant == DetailIInv /\ RunEnds => DetailIInv'
<1> SUFFICES ASSUME DetailIInv, RunEnds PROVE DetailIInv'
  OBVIOUS
<1>1. PICK run \in Runs : ended' = ended \cup {run}
  BY DEF RunEnds
<1> QED BY <1>1 DEF RunEnds, DetailIInv, DetailTypeOK, ShowsTheRunUnderTheCursor,
           FetchesAreNumbered, LastFetchIsForTheAsked, UnderCursor, Ahead, ComesBefore, Rank

(* The effect for the run that has come under the cursor. *)
LEMMA EffectInvariant ==
  ASSUME DetailIInv, NEW done \in SUBSET ended, done = listed',
         clampedIndex' \in Runs, ended' = ended, Effect(UnderCursor(done, clampedIndex'))
  PROVE  DetailIInv'
<1>1. UnderCursor(done, clampedIndex') \in Runs
  BY OneRunInEachPlace
<1>2. clampedIndex' \in 0 .. Count /\ clampedIndex' # 0
  BY CountAssumption DEF Runs
<1>3. ended \subseteq Runs
  BY DEF DetailIInv, DetailTypeOK
<1>4. shown'.run = UnderCursor(done, clampedIndex')
  BY <1>1, EffectShows
<1>5. DetailTypeOK'
  BY <1>1, <1>2, <1>3, EffectShows DEF DetailTypeOK, CacheOK
<1>6. ShowsTheRunUnderTheCursor'
  BY <1>1, <1>4, EffectShows DEF ShowsTheRunUnderTheCursor
<1>7. FetchesAreNumbered' /\ LastFetchIsForTheAsked'
  BY <1>1, <1>4, EffectShows DEF FetchesAreNumbered, LastFetchIsForTheAsked
<1> QED BY <1>2, <1>5, <1>6, <1>7 DEF DetailIInv

LEMMA MovesCursorInvariant == DetailIInv /\ MovesCursor => DetailIInv'
<1> SUFFICES ASSUME DetailIInv, MovesCursor PROVE DetailIInv'
  OBVIOUS
<1>1. clampedIndex' \in Runs /\ listed \in SUBSET ended /\ listed' = listed /\ ended' = ended
  BY DEF MovesCursor, DetailIInv, DetailTypeOK
<1>2. Effect(UnderCursor(listed, clampedIndex'))
  BY DEF MovesCursor
<1> QED BY <1>1, <1>2, EffectInvariant

LEMMA OpensPanelInvariant == DetailIInv /\ OpensPanel => DetailIInv'
<1> SUFFICES ASSUME DetailIInv, OpensPanel PROVE DetailIInv'
  OBVIOUS
<1>1. clampedIndex' \in Runs /\ listed \in SUBSET ended /\ listed' = listed /\ ended' = ended
  BY DEF OpensPanel, DetailIInv, DetailTypeOK
<1>2. Effect(UnderCursor(listed, clampedIndex'))
  BY DEF OpensPanel
<1> QED BY <1>1, <1>2, EffectInvariant

LEMMA PollsRunsInvariant == DetailIInv /\ PollsRuns => DetailIInv'
<1> SUFFICES ASSUME DetailIInv, PollsRuns PROVE DetailIInv'
  OBVIOUS
<1> DEFINE before == UnderCursor(listed, clampedIndex)
           after == UnderCursor(ended, clampedIndex)
<1>1. listed' = ended /\ ended' = ended /\ clampedIndex' = clampedIndex
  BY DEF PollsRuns
<1>2. CASE clampedIndex # 0 /\ (before # after \/ after \in ended \ listed)
  <2>1. Effect(after)
    BY <1>2 DEF PollsRuns
  <2>2. clampedIndex' \in Runs
    BY <1>1, <1>2 DEF DetailIInv, DetailTypeOK, Runs
  <2> QED BY <1>1, <2>1, <2>2, EffectInvariant
<1>3. CASE ~(clampedIndex # 0 /\ (before # after \/ after \in ended \ listed))
  <2>1. UNCHANGED <<shown, cache, fetches, last, asked>>
    BY <1>3 DEF PollsRuns
  <2>2. DetailTypeOK'
    BY <1>1, <2>1 DEF DetailIInv, DetailTypeOK
  <2>3. ShowsTheRunUnderTheCursor'
    <3>1. clampedIndex # 0 => before = after
      BY <1>3
    <3>2. clampedIndex # 0 => shown.run = before \/ (shown.run = asked /\ before \in ended)
      BY DEF DetailIInv, ShowsTheRunUnderTheCursor
    <3>3. UnderCursor(listed, clampedIndex)' = after
      BY <1>1 DEF UnderCursor, Ahead, ComesBefore, Rank
    <3> QED BY <1>1, <2>1, <3>1, <3>2, <3>3 DEF DetailIInv, ShowsTheRunUnderTheCursor
  <2>4. LastFetchIsForTheAsked'
    <3>1. clampedIndex # 0 => before = after
      BY <1>3
    <3>2. clampedIndex # 0 => before \in ended \/ asked = before
      BY DEF DetailIInv, DetailTypeOK, LastFetchIsForTheAsked
    <3>3. UnderCursor(listed, clampedIndex)' = after
      BY <1>1 DEF UnderCursor, Ahead, ComesBefore, Rank
    <3> QED BY <1>1, <2>1, <3>1, <3>2, <3>3 DEF DetailIInv, LastFetchIsForTheAsked
  <2> QED BY <1>1, <2>1, <2>2, <2>3, <2>4 DEF DetailIInv, FetchesAreNumbered
<1> QED BY <1>2, <1>3

LEMMA ClosesPanelInvariant == DetailIInv /\ ClosesPanel => DetailIInv'
<1> SUFFICES ASSUME DetailIInv, ClosesPanel PROVE DetailIInv'
  OBVIOUS
<1>1. /\ clampedIndex' = 0 /\ shown' = Nobody /\ last' = 0 /\ asked' = 0
      /\ ended' = ended /\ listed' = listed /\ cache' = cache
  BY DEF ClosesPanel
<1>2. ASSUME NEW f \in fetches'
      PROVE  /\ f \in [id : 0 .. MaxFetches, run : Runs, read : Results] /\ f.id = 0
             /\ f.read = "final" => f.run \in ended
  <2>1. CASE f \in fetches /\ f.id = 0
    BY <2>1 DEF DetailIInv, DetailTypeOK, FetchesAreNumbered
  <2>2. CASE \E g \in fetches : f = [g EXCEPT !.id = 0]
    <3>1. PICK g \in fetches : f = [g EXCEPT !.id = 0]
      BY <2>2
    <3>2. g \in [id : 0 .. MaxFetches, run : Runs, read : Results]
      BY DEF DetailIInv, DetailTypeOK
    <3>3. f.id = 0 /\ f.run = g.run /\ f.read = g.read
      BY <3>1, <3>2
    <3>4. f \in [id : 0 .. MaxFetches, run : Runs, read : Results]
      BY <3>1, <3>2, CountAssumption
    <3> QED BY <3>3, <3>4 DEF DetailIInv, FetchesAreNumbered
  <2> QED BY <2>1, <2>2 DEF ClosesPanel
<1>3. DetailTypeOK'
  <2>1. Nobody \in [run : 0 .. Count, result : Results, loading : BOOLEAN]
    BY CountAssumption DEF Nobody, Results
  <2>2. 0 \in 0 .. Count /\ 0 \in 0 .. MaxFetches
    BY CountAssumption
  <2>3. fetches' \subseteq [id : 0 .. MaxFetches, run : Runs, read : Results]
    BY <1>2
  <2> QED BY <1>1, <2>1, <2>2, <2>3 DEF DetailIInv, DetailTypeOK
<1>4. ShowsTheRunUnderTheCursor'
  BY <1>1 DEF DetailIInv, ShowsTheRunUnderTheCursor, Nobody
<1>5. FetchesAreNumbered'
  BY <1>1, <1>2 DEF FetchesAreNumbered
<1>6. LastFetchIsForTheAsked'
  BY <1>1 DEF LastFetchIsForTheAsked
<1> QED BY <1>1, <1>3, <1>4, <1>5, <1>6 DEF DetailIInv

LEMMA FetchReadsInvariant == DetailIInv /\ FetchReads => DetailIInv'
<1> SUFFICES ASSUME DetailIInv, FetchReads PROVE DetailIInv'
  OBVIOUS
<1>1. PICK f \in fetches :
        /\ f.read = "none"
        /\ fetches' = (fetches \ {f}) \cup
              {[f EXCEPT !.read = IF f.run \in ended THEN "final" ELSE "partial"]}
  BY DEF FetchReads
<1>2. UNCHANGED <<ended, listed, clampedIndex, shown, cache, last, asked>>
  BY DEF FetchReads
<1> DEFINE g == [f EXCEPT !.read = IF f.run \in ended THEN "final" ELSE "partial"]
<1>3. f \in [id : 0 .. MaxFetches, run : Runs, read : Results]
  BY DEF DetailIInv, DetailTypeOK
<1>4. /\ g \in [id : 0 .. MaxFetches, run : Runs, read : Results]
      /\ g.id = f.id /\ g.run = f.run /\ (g.read = "final" => f.run \in ended)
  BY <1>3 DEF Results
<1> HIDE DEF g
<1>5. fetches' \subseteq fetches \cup {g}
  BY <1>1 DEF g
<1>6. DetailTypeOK'
  BY <1>2, <1>4, <1>5 DEF DetailIInv, DetailTypeOK
<1>7. ShowsTheRunUnderTheCursor'
  BY <1>2 DEF DetailIInv, ShowsTheRunUnderTheCursor, UnderCursor, Ahead, ComesBefore, Rank
<1>8. FetchesAreNumbered' /\ LastFetchIsForTheAsked'
  BY <1>2, <1>4, <1>5 DEF DetailIInv, FetchesAreNumbered, LastFetchIsForTheAsked
<1> QED BY <1>2, <1>6, <1>7, <1>8 DEF DetailIInv

LEMMA FetchAnswersInvariant == DetailIInv /\ FetchAnswers => DetailIInv'
<1> SUFFICES ASSUME DetailIInv, FetchAnswers PROVE DetailIInv'
  OBVIOUS
<1>1. PICK f \in fetches :
        /\ f.read # "none"
        /\ fetches' = fetches \ {f}
        /\ \E failed \in BOOLEAN :
             /\ cache' = IF (f.id = 0 \/ IsLatest(f)) /\ IsTerminal(f) /\ ~failed
                         THEN Kept(f.run) ELSE cache
             /\ shown' = IF f.id # 0 /\ IsLatest(f)
                         THEN [run |-> f.run, loading |-> FALSE,
                               result |-> IF failed THEN "none" ELSE f.read]
                         ELSE shown
  BY DEF FetchAnswers
<1>2. UNCHANGED <<ended, listed, clampedIndex, last, asked>>
  BY DEF FetchAnswers
<1>3. /\ f \in [id : 0 .. MaxFetches, run : Runs, read : Results]
      /\ f.read = "final" => f.run \in ended
      /\ f.id = last /\ last # 0 => f.run = asked
  BY DEF DetailIInv, DetailTypeOK, FetchesAreNumbered, LastFetchIsForTheAsked
<1>4. CacheOK(cache') /\ Len(cache') <= CacheMax /\ ToSet(cache') \subseteq ended
  <2>1. CacheOK(cache) /\ Len(cache) <= CacheMax /\ ToSet(cache) \subseteq ended
    BY DEF DetailIInv, DetailTypeOK, CacheOK, ShowsTheRunUnderTheCursor
  <2>2. CASE cache' = cache
    BY <2>1, <2>2
  <2>3. CASE IsTerminal(f) /\ cache' = Kept(f.run)
    BY <2>1, <2>3, <1>3, KeptCache DEF IsTerminal
  <2> QED BY <1>1, <2>2, <2>3
<1>5. \/ shown' = shown
      \/ /\ f.id = last /\ last # 0 /\ shown'.run = f.run
         /\ shown' \in [run : 0 .. Count, result : Results, loading : BOOLEAN]
         /\ shown'.result \in {"none", f.read}
  BY <1>1, <1>3, CountAssumption DEF IsLatest, Runs, Results
<1>6. DetailTypeOK'
  BY <1>1, <1>2, <1>4, <1>5 DEF DetailIInv, DetailTypeOK, CacheOK
<1>7. ShowsTheRunUnderTheCursor'
  <2>1. UnderCursor(listed, clampedIndex)' = UnderCursor(listed, clampedIndex)
    BY <1>2 DEF UnderCursor, Ahead, ComesBefore, Rank
  <2> DEFINE run == UnderCursor(listed, clampedIndex)
  <2>2. clampedIndex # 0 =>
          /\ shown.run = run \/ (shown.run = asked /\ run \in ended)
          /\ run \in ended \/ asked = run
    BY DEF DetailIInv, ShowsTheRunUnderTheCursor, LastFetchIsForTheAsked
  <2>3. shown.result = "final" => shown.run \in ended
    BY DEF DetailIInv, ShowsTheRunUnderTheCursor
  <2> HIDE DEF run
  <2>4. clampedIndex # 0 => shown'.run = run \/ (shown'.run = asked /\ run \in ended)
    BY <2>2, <1>3, <1>5
  <2>5. shown'.result = "final" => shown'.run \in ended
    BY <2>3, <1>3, <1>5
  <2> QED BY <1>2, <1>4, <2>1, <2>4, <2>5 DEF run, ShowsTheRunUnderTheCursor
<1>8. FetchesAreNumbered'
  BY <1>1, <1>2 DEF DetailIInv, FetchesAreNumbered
<1>9. LastFetchIsForTheAsked'
  BY <1>1, <1>2, <1>3, <1>5 DEF DetailIInv, LastFetchIsForTheAsked
<1> QED BY <1>2, <1>6, <1>7, <1>8, <1>9 DEF DetailIInv

LEMMA DetailNextInvariant == DetailIInv /\ [DetailNext]_detailVars => DetailIInv'
<1>1. DetailIInv /\ UNCHANGED detailVars => DetailIInv'
  <2> SUFFICES ASSUME DetailIInv, UNCHANGED detailVars PROVE DetailIInv'
    OBVIOUS
  <2>1. UnderCursor(listed, clampedIndex)' = UnderCursor(listed, clampedIndex)
    BY DEF detailVars, UnderCursor, Ahead, ComesBefore, Rank
  <2> QED BY <2>1 DEF detailVars, DetailIInv, DetailTypeOK, ShowsTheRunUnderTheCursor,
             FetchesAreNumbered, LastFetchIsForTheAsked
<1> QED BY <1>1, RunEndsInvariant, MovesCursorInvariant, PollsRunsInvariant, OpensPanelInvariant,
           ClosesPanelInvariant, FetchReadsInvariant, FetchAnswersInvariant DEF DetailNext

LEMMA DetailInvariant == DetailSpec => []DetailIInv
BY DetailInitInvariant, DetailNextInvariant, PTL DEF DetailSpec

(* The detail shown is that of the run under the cursor, or, once that run has ended, that
   of the run the last fetch is for: whatever the order in which the answers come and
   however the list moves under the cursor, it is of no run from before. *)
THEOREM TheRunUnderTheCursorIsShown == DetailSpec => []ShowsTheRunUnderTheCursor
<1>1. DetailIInv => ShowsTheRunUnderTheCursor
  BY DEF DetailIInv
<1> QED BY <1>1, DetailInvariant, PTL

-----------------------------------------------------------------------------
(***************************************************************************)
(* The pages of a history.                                                 *)
(***************************************************************************)
(* A set of numbers has a least one. *)
LEMMA LeastNumber ==
  ASSUME NEW S \in SUBSET Nat, S # {}
  PROVE  \E m \in S : \A k \in S : ~(k < m)
<1>1. \E m \in S : \A k \in S : <<k, m>> \notin OpToRel(<, Nat)
  BY NatLessThanWellFounded, WFMin
<1> QED BY <1>1 DEF OpToRel

LEMMA IdsAreASequence ==
  ASSUME NEW from \in Nat, NEW to \in Nat, from <= to
  PROVE  /\ Ids(from, to) \in Seq(Nat) /\ Len(Ids(from, to)) = to - from
         /\ \A i \in 1 .. to - from : Ids(from, to)[i] = from + i
BY DEF Ids

LEMMA IdsEmpty ==
  ASSUME NEW n \in Nat
  PROVE  Ids(n, n) = <<>>
BY DEF Ids

LEMMA IdsAppend ==
  ASSUME NEW from \in Nat, NEW to \in Nat, from <= to
  PROVE  Append(Ids(from, to), to + 1) = Ids(from, to + 1)
BY DEF Ids

LEMMA IdsConcat ==
  ASSUME NEW a \in Nat, NEW b \in Nat, NEW c \in Nat, a <= b, b <= c
  PROVE  Ids(a, b) \o Ids(b, c) = Ids(a, c)
BY DEF Ids

(* What the filter leaves of a page. *)
LEMMA AboveOfPage ==
  ASSUME NEW from \in Nat, NEW to \in Nat, from <= to, NEW mark \in Nat
  PROVE  Above(Ids(from, to), mark) =
           IF mark >= to THEN <<>> ELSE Ids(IF from > mark THEN from ELSE mark, to)
<1> DEFINE n == to - from
           ids == Ids(from, to)
           Rest(i) == IF mark >= from + i THEN <<>>
                      ELSE Ids(IF from > mark THEN from ELSE mark, from + i)
           Step(G, i) == IF i = 0 THEN <<>>
                         ELSE IF ids[i] > mark THEN Append(G[i - 1], ids[i])
                         ELSE G[i - 1]
           W == [i \in 0 .. n |-> Rest(i)]
<1>1. n \in Nat /\ Len(ids) = n /\ \A i \in 1 .. n : ids[i] = from + i
  BY DEF Ids
<1>2. Above(ids, mark) = (CHOOSE G : G = [i \in 0 .. n |-> Step(G, i)])[n]
  BY <1>1 DEF Above
<1>3. ASSUME NEW i \in 0 .. n PROVE Rest(i) = Step(W, i)
  <2>1. CASE i = 0
    BY <2>1, IdsEmpty
  <2>2. CASE i # 0
    <3>1. i - 1 \in 0 .. n /\ W[i - 1] = Rest(i - 1) /\ ids[i] = from + i
      BY <1>1, <2>2
    <3>2. CASE mark >= from + i
      BY <3>1, <3>2, <2>2
    <3>3. CASE mark < from + i
      <4> DEFINE low == IF from > mark THEN from ELSE mark
                 top == from + i - 1
      <4>1. low \in Nat /\ top \in Nat /\ low <= top /\ top + 1 = from + i
        BY <3>3, <2>2
      <4>2. Append(Ids(low, top), top + 1) = Ids(low, top + 1)
        BY <4>1, IdsAppend
      <4>3. Rest(i) = Ids(low, top + 1)
        BY <3>3, <4>1
      <4>4. Rest(i - 1) = Ids(low, top)
        <5>1. CASE mark >= top
          <6>1. Rest(i - 1) = <<>> /\ low = top
            BY <5>1, <4>1, <2>2
          <6> QED BY <6>1, <4>1, IdsEmpty
        <5>2. CASE ~(mark >= top)
          BY <5>2, <4>1, <2>2
        <5> QED BY <5>1, <5>2
      <4>5. Step(W, i) = Append(Rest(i - 1), top + 1)
        BY <3>1, <3>3, <2>2, <4>1
      <4> QED BY <4>2, <4>3, <4>4, <4>5
    <3> QED BY <3>2, <3>3
  <2> QED BY <2>1, <2>2
<1>4. W = [i \in 0 .. n |-> Step(W, i)]
  BY <1>3
<1>5. ASSUME NEW G, G = [i \in 0 .. n |-> Step(G, i)] PROVE G = W
  <2> DEFINE Differ == {i \in 0 .. n : G[i] # W[i]}
  <2>1. CASE Differ # {}
    <3>0. Differ \in SUBSET Nat
      <4>1. \A i \in Differ : i \in Nat
        BY <1>1
      <4> QED BY <4>1
    <3>1. PICK m \in Differ : \A k \in Differ : ~(k < m)
      <4> HIDE DEF Differ
      <4> QED BY <2>1, <3>0, LeastNumber
    <3>2. m # 0
      BY <3>1, <1>4, <1>5
    <3>3. m - 1 \in 0 .. n /\ G[m - 1] = W[m - 1]
      BY <3>1, <3>2, <1>1
    <3>4. G[m] = Step(G, m) /\ W[m] = Step(W, m)
      BY <1>4, <1>5
    <3> QED BY <3>1, <3>3, <3>4
  <2>2. CASE Differ = {}
    BY <2>2, <1>5
  <2> QED BY <2>1, <2>2
<1>6. (CHOOSE G : G = [i \in 0 .. n |-> Step(G, i)]) = W
  BY <1>4, <1>5
<1>7. n \in 0 .. n /\ from + n = to
  BY <1>1
<1>8. W[n] = Rest(n)
  BY <1>7
<1> QED BY <1>2, <1>6, <1>7, <1>8

LEMMA LastOfIds ==
  ASSUME NEW from \in Nat, NEW to \in Nat, from < to
  PROVE  Ids(from, to) # <<>> /\ Ids(from, to)[Len(Ids(from, to))] = to
BY DEF Ids

-----------------------------------------------------------------------------
(***************************************************************************)
(* The CLI workflow monitor.                                               *)
(***************************************************************************)
RunRecord == [events : Seq(Events), status : Statuses]
ClosedStatuses == Terminal \cup {"continued_as_new"}

(* Only a run with a successor has continued, and its last event says so. *)
RunsFit ==
    /\ runs \in Seq(RunRecord)
    /\ Len(runs) \in 1 .. MaxRuns
    /\ \A r \in 1 .. Len(runs) :
         /\ runs[r].events # <<>>
         /\ runs[r].status = "continued_as_new" =>
              r < Len(runs) /\ runs[r].events[Len(runs[r].events)].kind = "continued"

(* A cursor has what it collected of its run from the first event on, and no status but
   one the run has kept. *)
CursorOfRun(c) ==
    /\ c \in Cursors /\ c.run <= Len(runs)
    /\ Contiguous(c)
    /\ c.run = 0 => c.lastEventId = 0
    /\ c.meta \in ClosedStatuses => c.run # 0 /\ runs[c.run].status = c.meta

(* A walk goes on from the cursor, in the same run. *)
WalkFits ==
    /\ CursorOfRun(cursor) /\ CursorOfRun(acc)
    /\ Resumes => cursor.run = runId /\ runId # 0 /\ cursor.meta \in Statuses
    /\ pc \in {"loop", "ended"} => acc = None
    /\ pc \in {"describe", "page"} =>
         /\ runId # 0 => acc.run = runId
         /\ cursor.lastEventId <= acc.lastEventId
         /\ acc.pageToken # 0 \/ pc = "page" => acc.run # 0 /\ acc.meta \in Statuses

(* What a step has come to after so many events of its run. *)
StatusUpTo(r, n, s) == SpanStatus(r, Ids(0, n), s)

(* Of that, what is printed. *)
PrintedAs(status) == IF status \in {"running", "ended"} THEN status ELSE "none"

LinesOf(status) ==
    IF status = "ended" THEN {<<"ended">>, <<"running", "ended">>}
    ELSE IF status = "running" THEN {<<"running">>}
    ELSE {<<>>}

(* The lines of the run that is followed are those of what was seen of it; of the runs
   after it there are none. *)
LinesFit ==
    /\ runId \in 0 .. Len(runs)
    /\ \A s \in Spans : seen[s] = PrintedAs(StatusUpTo(cursor.run, cursor.lastEventId, s))
    /\ \A s \in Spans : \A r \in 1 .. MaxRuns :
         /\ r = runId => printed[r][s] \in LinesOf(seen[s])
         /\ r > runId => printed[r][s] = <<>>

OutcomeFits ==
    /\ pc # "ended" => outcome = "none"
    /\ detached => outcome \in {"none", "detached"}

MonitorIInv ==
    /\ MonitorTypeOK /\ PrintedInOrder
    /\ RunsFit /\ WalkFits /\ LinesFit /\ OutcomeFits
-----------------------------------------------------------------------------
HasUpTo(r, n, k, s) == \E i \in 1 .. n : runs[r].events[i] = [kind |-> k, span |-> s]

LEMMA StatusIs ==
  ASSUME NEW r, NEW n \in Nat, NEW s
  PROVE  StatusUpTo(r, n, s) =
           IF ~HasUpTo(r, n, "scheduled", s) THEN "none"
           ELSE IF HasUpTo(r, n, "ended", s) THEN "ended"
           ELSE IF HasUpTo(r, n, "started", s) THEN "running"
           ELSE "pending"
<1>1. Len(Ids(0, n)) = n /\ \A i \in 1 .. n : Ids(0, n)[i] = i
  BY DEF Ids
<1> QED BY <1>1 DEF StatusUpTo, SpanStatus, HasUpTo

(* Nothing has become of a step before the first event. *)
LEMMA StatusOfNothing == ASSUME NEW r, NEW s PROVE StatusUpTo(r, 0, s) = "none"
<1>1. StatusUpTo(r, 0, s) = IF ~HasUpTo(r, 0, "scheduled", s) THEN "none"
           ELSE IF HasUpTo(r, 0, "ended", s) THEN "ended"
           ELSE IF HasUpTo(r, 0, "started", s) THEN "running"
           ELSE "pending"
  BY StatusIs
<1> QED BY <1>1 DEF HasUpTo

(* With more of the history a step has come further, never less far. *)
LEMMA StatusForward ==
  ASSUME NEW r, NEW s, NEW n \in Nat, NEW m \in Nat, n <= m
  PROVE  /\ StatusUpTo(r, n, s) \in {"none", "pending", "running", "ended"}
         /\ StatusUpTo(r, n, s) = "ended" => StatusUpTo(r, m, s) = "ended"
         /\ StatusUpTo(r, n, s) = "running" => StatusUpTo(r, m, s) \in {"running", "ended"}
<1>1. \A k : HasUpTo(r, n, k, s) => HasUpTo(r, m, k, s)
  <2>1. 1 .. n \subseteq 1 .. m
    OBVIOUS
  <2> QED BY <2>1 DEF HasUpTo
<1> QED BY <1>1, StatusIs

(* What has happened does not change as the run goes on. *)
LEMMA StatusKept ==
  ASSUME NEW r, NEW s, NEW n \in Nat,
         \A i \in 1 .. n : runs'[r].events[i] = runs[r].events[i]
  PROVE  StatusUpTo(r, n, s)' = StatusUpTo(r, n, s)
<1>1. Len(Ids(0, n)) = n /\ \A i \in 1 .. n : Ids(0, n)[i] = i
  BY DEF Ids
<1> QED BY <1>1 DEF StatusUpTo, SpanStatus

LEMMA MonitorInitInvariant == MonitorInit => MonitorIInv
<1> SUFFICES ASSUME MonitorInit PROVE MonitorIInv
  OBVIOUS
<1> USE MaxRunsAssumption, MaxConsecutiveErrorsAssumption
<1>1. NewRun \in RunRecord /\ NewRun.events # <<>> /\ NewRun.status = "running"
  BY DEF NewRun, RunRecord, Events, Statuses
<1>2. RunsFit
  BY <1>1 DEF MonitorInit, RunsFit
<1>3. None \in Cursors /\ Contiguous(None)
  BY IdsEmpty DEF None, Cursors, Contiguous
<1>4. WalkFits
  BY <1>3 DEF MonitorInit, WalkFits, CursorOfRun, Resumes, None, RunsFit, ClosedStatuses, Terminal
<1>5. LinesFit
  BY StatusOfNothing DEF MonitorInit, LinesFit, LinesOf, PrintedAs, Unseen, None
<1>6. MonitorTypeOK
  <2>1. runs \in Seq([events : Seq(Events), status : Statuses])
    BY <1>2 DEF RunsFit, RunRecord
  <2>2. seen \in [Spans -> {"none", "running", "ended"}]
    BY DEF MonitorInit, Unseen
  <2>3. printed \in [1 .. MaxRuns -> [Spans -> Seq({"running", "ended"})]]
    BY DEF MonitorInit
  <2>4. /\ pc = "loop" /\ runId \in 0 .. MaxRuns /\ cursor = None /\ acc = None
        /\ consecutiveErrors \in 0 .. MaxConsecutiveErrors - 1
        /\ detached = FALSE /\ outcome = "none"
    BY DEF MonitorInit
  <2> QED BY <1>3, <2>1, <2>2, <2>3, <2>4 DEF MonitorTypeOK
<1>7. PrintedInOrder /\ OutcomeFits
  BY DEF MonitorInit, PrintedInOrder, OutcomeFits
<1> QED BY <1>2, <1>4, <1>5, <1>6, <1>7 DEF MonitorIInv

-----------------------------------------------------------------------------
(* One more event of a run, with the status it leaves. *)
LEMMA RecordKeeps ==
  ASSUME RunsFit, Running, NEW event \in Events, NEW status \in Statuses
  PROVE  /\ Record(event, status) \in Seq(RunRecord)
         /\ Len(Record(event, status)) = Latest
         /\ \A r \in 1 .. Latest : r # Latest => Record(event, status)[r] = runs[r]
         /\ LET to == Record(event, status)[Latest]
                n == Len(runs[Latest].events)
            IN  /\ to.status = status
                /\ Len(to.events) = n + 1 /\ to.events[n + 1] = event
                /\ \A i \in 1 .. n : to.events[i] = runs[Latest].events[i]
<1> DEFINE old == runs[Latest]
           to == [events |-> Append(old.events, event), status |-> status]
<1>1. runs \in Seq(RunRecord) /\ Latest \in 1 .. Latest /\ Latest \in Nat
  BY MaxRunsAssumption DEF RunsFit, Latest
<1>2. old \in RunRecord
  BY <1>1, ElementOfSeq DEF Latest
<1>3. old.events \in Seq(Events)
  BY <1>2 DEF RunRecord
<1>4. /\ to \in RunRecord /\ to.status = status
      /\ Len(to.events) = Len(old.events) + 1 /\ to.events[Len(old.events) + 1] = event
      /\ \A i \in 1 .. Len(old.events) : to.events[i] = old.events[i]
  BY <1>3, AppendProperties DEF RunRecord
<1> HIDE DEF to
<1>5. Record(event, status) = [runs EXCEPT ![Latest] = to]
  BY DEF Record, to
<1>6. /\ [runs EXCEPT ![Latest] = to] \in Seq(RunRecord)
      /\ Len([runs EXCEPT ![Latest] = to]) = Len(runs)
      /\ \A r \in 1 .. Len(runs) :
           [runs EXCEPT ![Latest] = to][r] = IF r = Latest THEN to ELSE runs[r]
  BY <1>1, <1>4, ExceptSeq DEF Latest
<1> QED BY <1>1, <1>4, <1>5, <1>6 DEF Latest

(* What the runs were, they stay; only the one that executes goes on. *)
RunsGrow ==
    /\ Len(runs) <= Len(runs')
    /\ \A r \in 1 .. Len(runs) :
         /\ Len(runs[r].events) \in Nat /\ Len(runs'[r].events) \in Nat
         /\ Len(runs[r].events) <= Len(runs'[r].events)
         /\ \A i \in 1 .. Len(runs[r].events) : runs'[r].events[i] = runs[r].events[i]
         /\ runs[r].status # "running" => runs'[r].status = runs[r].status

LEMMA WorkflowGrows == ASSUME RunsFit, Workflow PROVE RunsFit' /\ RunsGrow
<1>1. /\ runs \in Seq(RunRecord) /\ Latest \in 1 .. MaxRuns /\ Latest \in Nat /\ MaxRuns \in Nat
      /\ Latest = Len(runs)
  BY MaxRunsAssumption DEF RunsFit, Latest
<1>2. \A r \in 1 .. Latest : runs[r].events \in Seq(Events) /\ Len(runs[r].events) \in Nat
  <2>1. \A r \in 1 .. Latest : runs[r] \in RunRecord
    BY <1>1, ElementOfSeq
  <2> QED BY <2>1 DEF RunRecord
<1>3. Running /\ runs[Latest].status = "running"
  BY DEF Workflow, StepMoves, RunCloses, RunContinues, Running
<1>4. \/ \E event \in Events, status \in Statuses \ {"continued_as_new"} :
           runs' = Record(event, status)
      \/ /\ Latest < MaxRuns
         /\ runs' = Append(Record([kind |-> "continued"], "continued_as_new"), NewRun)
  <2>1. CASE \E s \in Spans : StepMoves(s)
    BY <2>1 DEF StepMoves, Events, Statuses
  <2>2. CASE RunCloses
    BY <2>2 DEF RunCloses, Events, Statuses, Terminal
  <2>3. CASE RunContinues
    BY <2>3 DEF RunContinues
  <2> QED BY <2>1, <2>2, <2>3 DEF Workflow
<1>5. ASSUME NEW event \in Events, NEW status \in Statuses \ {"continued_as_new"},
             runs' = Record(event, status)
      PROVE  RunsFit' /\ RunsGrow
  <2> DEFINE to == runs'[Latest]
  <2>1. /\ runs' \in Seq(RunRecord) /\ Len(runs') = Latest
        /\ \A r \in 1 .. Latest : r # Latest => runs'[r] = runs[r]
        /\ to.status = status /\ Len(to.events) = Len(runs[Latest].events) + 1
        /\ \A i \in 1 .. Len(runs[Latest].events) : to.events[i] = runs[Latest].events[i]
    BY <1>3, <1>5, RecordKeeps
  <2> HIDE DEF to
  <2>2. RunsGrow
    BY <1>1, <1>2, <1>3, <2>1 DEF RunsGrow, to
  <2>3. to.events # <<>>
    BY <1>1, <1>2, <2>1
  <2>4. RunsFit'
    BY <1>1, <2>1, <2>3 DEF RunsFit, to
  <2> QED BY <2>2, <2>4
<1>6. ASSUME Latest < MaxRuns,
             runs' = Append(Record([kind |-> "continued"], "continued_as_new"), NewRun)
      PROVE  RunsFit' /\ RunsGrow
  <2>0. PICK rec : rec = Record([kind |-> "continued"], "continued_as_new")
    OBVIOUS
  <2>1. [kind |-> "continued"] \in Events /\ "continued_as_new" \in Statuses
    BY DEF Events, Statuses
  <2>2. /\ rec \in Seq(RunRecord) /\ Len(rec) = Latest
        /\ \A r \in 1 .. Latest : r # Latest => rec[r] = runs[r]
        /\ rec[Latest].status = "continued_as_new"
        /\ Len(rec[Latest].events) = Len(runs[Latest].events) + 1
        /\ rec[Latest].events[Len(runs[Latest].events) + 1] = [kind |-> "continued"]
        /\ \A i \in 1 .. Len(runs[Latest].events) :
             rec[Latest].events[i] = runs[Latest].events[i]
    BY <1>3, <2>0, <2>1, RecordKeeps
  <2>3. NewRun \in RunRecord /\ NewRun.events # <<>> /\ NewRun.status = "running"
    BY DEF NewRun, RunRecord, Events, Statuses
  <2>4. /\ runs' \in Seq(RunRecord) /\ Len(runs') = Latest + 1 /\ runs'[Latest + 1] = NewRun
        /\ \A r \in 1 .. Latest : runs'[r] = rec[r]
    BY <1>6, <2>0, <2>2, <2>3, AppendProperties
  <2>5. RunsGrow
    <3>1. \A r \in 1 .. Latest : r # Latest => runs'[r] = runs[r]
      BY <2>2, <2>4
    <3>2. /\ Len(runs'[Latest].events) \in Nat
          /\ Len(runs[Latest].events) <= Len(runs'[Latest].events)
          /\ \A i \in 1 .. Len(runs[Latest].events) :
               runs'[Latest].events[i] = runs[Latest].events[i]
      BY <1>1, <1>2, <2>2, <2>4
    <3> QED BY <1>1, <1>2, <1>3, <2>4, <3>1, <3>2 DEF RunsGrow
  <2>6. rec[Latest].events # <<>> /\ rec[Latest].events[Len(rec[Latest].events)].kind = "continued"
    BY <1>1, <1>2, <2>2
  <2>7. ASSUME NEW r \in 1 .. Len(runs')
        PROVE  /\ runs'[r].events # <<>>
               /\ runs'[r].status = "continued_as_new" =>
                    r < Len(runs') /\ runs'[r].events[Len(runs'[r].events)].kind = "continued"
    <3>1. CASE r = Latest + 1
      BY <3>1, <2>3, <2>4
    <3>2. CASE r = Latest
      BY <3>2, <1>1, <2>4, <2>6
    <3>3. CASE r \in 1 .. Latest /\ r # Latest
      BY <3>3, <1>1, <2>2, <2>4 DEF RunsFit
    <3> QED BY <3>1, <3>2, <3>3, <1>1, <2>4
  <2>8. RunsFit'
    BY <1>1, <1>6, <2>4, <2>7 DEF RunsFit
  <2> QED BY <2>5, <2>8
<1> QED BY <1>4, <1>5, <1>6
-----------------------------------------------------------------------------
(* A run has a sequence of events. *)
LEMMA EventsCount ==
  ASSUME RunsFit, NEW r \in 1 .. Len(runs)
  PROVE  runs[r] \in RunRecord /\ runs[r].events \in Seq(Events) /\ Len(runs[r].events) \in Nat
<1>1. runs[r] \in RunRecord
  BY ElementOfSeq DEF RunsFit
<1> QED BY <1>1 DEF RunRecord

(* What a step leaves alone, when nothing happens to the runs but that they go on. *)
LEMMA RunsStay == ASSUME RunsFit, UNCHANGED runs PROVE RunsFit' /\ RunsGrow
BY EventsCount, MaxRunsAssumption DEF RunsFit, RunsGrow

LEMMA CursorKept ==
  ASSUME RunsFit, RunsGrow, NEW c, CursorOfRun(c)
  PROVE  CursorOfRun(c)'
<1>1. /\ c \in Cursors /\ c.run \in Nat /\ c.lastEventId \in Nat /\ c.run <= Len(runs)
      /\ Len(runs) \in Nat /\ Len(runs') \in Nat /\ Len(runs) <= Len(runs')
  BY MaxRunsAssumption DEF CursorOfRun, Cursors, RunsFit, RunsGrow
<1>2. CASE c.run = 0
  BY <1>1, <1>2 DEF CursorOfRun, Contiguous
<1>3. CASE c.run # 0
  <2>1. /\ c.run \in 1 .. Len(runs)
        /\ Len(runs[c.run].events) \in Nat /\ Len(runs'[c.run].events) \in Nat
        /\ Len(runs[c.run].events) <= Len(runs'[c.run].events)
        /\ runs[c.run].status # "running" => runs'[c.run].status = runs[c.run].status
    BY <1>1, <1>3 DEF RunsGrow
  <2>2. c.lastEventId <= Len(runs'[c.run].events)
    BY <1>1, <1>3, <2>1 DEF CursorOfRun, Contiguous
  <2>3. c.meta \in ClosedStatuses => runs'[c.run].status = c.meta
    BY <2>1 DEF CursorOfRun, ClosedStatuses, Terminal
  <2> QED BY <1>1, <1>3, <2>2, <2>3 DEF CursorOfRun, Contiguous
<1> QED BY <1>2, <1>3

LEMMA SpanKept ==
  ASSUME RunsFit, RunsGrow, NEW c, CursorOfRun(c), NEW s
  PROVE  StatusUpTo(c.run, c.lastEventId, s)' = StatusUpTo(c.run, c.lastEventId, s)
<1>1. PICK r \in Nat, n \in Nat : r = c.run /\ n = c.lastEventId
  BY DEF CursorOfRun, Cursors
<1>2. \A i \in 1 .. n : runs'[r].events[i] = runs[r].events[i]
  <2>1. CASE r = 0
    BY <1>1, <2>1 DEF CursorOfRun
  <2>2. CASE r # 0
    <3>1. r \in 1 .. Len(runs) /\ n <= Len(runs[r].events) /\ Len(runs[r].events) \in Nat
      BY <1>1, <2>2, MaxRunsAssumption DEF CursorOfRun, Contiguous, RunsFit, RunsGrow
    <3> QED BY <3>1 DEF RunsGrow
  <2> QED BY <2>1, <2>2
<1>3. StatusUpTo(r, n, s)' = StatusUpTo(r, n, s)
  BY <1>2, StatusKept
<1> QED BY <1>1, <1>3

(* The cursor and the lines stay. *)
LEMMA LinesStay ==
  ASSUME MonitorIInv, RunsFit', RunsGrow, UNCHANGED <<cursor, runId, seen, printed>>
  PROVE  /\ CursorOfRun(cursor)' /\ LinesFit' /\ PrintedInOrder'
         /\ Resumes' = Resumes
         /\ runs' \in Seq([events : Seq(Events), status : Statuses])
<1>1. PICK c : c = cursor
  OBVIOUS
<1>2. CursorOfRun(c) /\ RunsFit
  BY <1>1 DEF MonitorIInv, WalkFits
<1>3. CursorOfRun(c)' /\ \A s : StatusUpTo(c.run, c.lastEventId, s)' = StatusUpTo(c.run, c.lastEventId, s)
  BY <1>2, CursorKept, SpanKept
<1>4. CursorOfRun(cursor)'
  BY <1>1, <1>3 DEF CursorOfRun, Contiguous
<1>5. \A s \in Spans : seen'[s] = PrintedAs(StatusUpTo(cursor.run, cursor.lastEventId, s)')
  BY <1>1, <1>3 DEF MonitorIInv, LinesFit
<1>6. runId' \in 0 .. Len(runs')
  BY MaxRunsAssumption DEF MonitorIInv, LinesFit, RunsFit, RunsGrow
<1>7. LinesFit'
  BY <1>5, <1>6 DEF MonitorIInv, LinesFit, PrintedAs, LinesOf
<1> QED BY <1>4, <1>7 DEF MonitorIInv, PrintedInOrder, Resumes, RunsFit, RunRecord

LEMMA WorkflowInvariant == ASSUME MonitorIInv, Workflow PROVE MonitorIInv'
<1>1. UNCHANGED <<pc, runId, cursor, acc, consecutiveErrors, seen, detached, outcome, printed>>
  BY DEF Workflow
<1>2. RunsFit' /\ RunsGrow
  BY WorkflowGrows DEF MonitorIInv
<1>3. /\ CursorOfRun(cursor)' /\ LinesFit' /\ PrintedInOrder' /\ Resumes' = Resumes
      /\ runs' \in Seq([events : Seq(Events), status : Statuses])
  BY <1>1, <1>2, LinesStay
<1>4. CursorOfRun(acc)'
  <2>1. PICK c : c = acc
    OBVIOUS
  <2>2. CursorOfRun(c)'
    BY <1>2, <2>1, CursorKept DEF MonitorIInv, WalkFits
  <2> QED BY <1>1, <2>1, <2>2 DEF CursorOfRun, Contiguous
<1>5. WalkFits'
  BY <1>1, <1>3, <1>4 DEF MonitorIInv, WalkFits
<1>6. MonitorTypeOK' /\ OutcomeFits'
  BY <1>1, <1>3 DEF MonitorIInv, MonitorTypeOK, OutcomeFits
<1> QED BY <1>2, <1>3, <1>5, <1>6 DEF MonitorIInv

(* The loop, the walk and the outcome are all that changes. *)
LEMMA WalkMoves ==
  ASSUME MonitorIInv, UNCHANGED <<runs, cursor, runId, seen, printed>>,
         NEW to, acc' = to, CursorOfRun(to), pc' \in {"loop", "describe", "page", "ended"},
         pc' \in {"loop", "ended"} => to = None,
         pc' \in {"describe", "page"} =>
           /\ runId # 0 => to.run = runId
           /\ cursor.lastEventId <= to.lastEventId
           /\ to.pageToken # 0 \/ pc' = "page" => to.run # 0 /\ to.meta \in Statuses,
         consecutiveErrors' \in 0 .. MaxConsecutiveErrors - 1, detached' \in BOOLEAN,
         pc' # "ended" => outcome' = "none",
         outcome' \in {"none", "detached", "error"} \/ outcome' = outcome,
         detached' => outcome' \in {"none", "detached"}
  PROVE  MonitorIInv'
<1>1. RunsFit' /\ RunsGrow
  BY RunsStay DEF MonitorIInv
<1>2. /\ CursorOfRun(cursor)' /\ LinesFit' /\ PrintedInOrder' /\ Resumes' = Resumes
      /\ runs' \in Seq([events : Seq(Events), status : Statuses])
  BY <1>1, LinesStay
<1>3. CursorOfRun(acc)' /\ acc' \in Cursors
  <2>1. CursorOfRun(to)'
    BY <1>1, CursorKept DEF MonitorIInv
  <2> QED BY <2>1 DEF CursorOfRun, Contiguous
<1>4. WalkFits'
  BY <1>2, <1>3 DEF MonitorIInv, WalkFits
<1>5. OutcomeFits'
  BY DEF MonitorIInv, OutcomeFits
<1>6. outcome' \in {"none", "error", "detached", "undetermined"} \cup Terminal
  BY DEF MonitorIInv, MonitorTypeOK
<1>7. MonitorTypeOK'
  BY <1>2, <1>3, <1>6 DEF MonitorIInv, MonitorTypeOK
<1> QED BY <1>1, <1>2, <1>4, <1>5, <1>7 DEF MonitorIInv

(* A cursor with nothing collected. *)
LEMMA FreshCursor ==
  ASSUME RunsFit, NEW r \in 0 .. MaxRuns, r <= Len(runs), NEW to, to = [None EXCEPT !.run = r]
  PROVE  /\ CursorOfRun(to)
         /\ to.run = r /\ to.lastEventId = 0 /\ to.pageToken = 0 /\ to.events = <<>>
<1>1. to = [run |-> r, pageToken |-> 0, lastEventId |-> 0, events |-> <<>>, meta |-> "none"]
  BY DEF None
<1>2. /\ to.run = r /\ to.lastEventId = 0 /\ to.pageToken = 0 /\ to.events = <<>>
      /\ to.meta = "none" /\ to \in Cursors
  <2>1. <<>> \in Seq(Nat \ {0}) /\ "none" \in {"none"} \cup Statuses /\ 0 \in Nat
    OBVIOUS
  <2>2. [run |-> r, pageToken |-> 0, lastEventId |-> 0, events |-> <<>>, meta |-> "none"] \in Cursors
    BY <2>1 DEF Cursors
  <2>3. to \in Cursors
    BY <1>1, <2>2
  <2> QED BY <1>1, <2>3
<1>3. Contiguous(to)
  <2>1. r # 0 => Len(runs[r].events) \in Nat
    BY EventsCount
  <2> QED BY <1>2, <2>1, IdsEmpty DEF Contiguous
<1> QED BY <1>2, <1>3 DEF CursorOfRun, ClosedStatuses, Terminal

LEMMA NoneFits == ASSUME MonitorIInv PROVE CursorOfRun(None)
<1>1. None = [None EXCEPT !.run = 0] /\ 0 \in 0 .. MaxRuns
  BY MaxRunsAssumption DEF None
<1> QED BY <1>1, FreshCursor, MaxRunsAssumption DEF MonitorIInv, RunsFit

LEMMA PollInvariant == ASSUME MonitorIInv, Poll PROVE MonitorIInv'
<1>1. /\ UNCHANGED <<runs, cursor, runId, seen, printed, consecutiveErrors, detached>>
      /\ pc = "loop" /\ acc = None /\ outcome = "none" /\ detached \in BOOLEAN
      /\ consecutiveErrors \in 0 .. MaxConsecutiveErrors - 1
      /\ runId \in 0 .. MaxRuns /\ runId <= Len(runs)
  BY DEF Poll, server, MonitorIInv, WalkFits, OutcomeFits, MonitorTypeOK, LinesFit, RunsFit
<1>2. CASE detached
  <2>1. pc' = "ended" /\ outcome' = "detached" /\ acc' = None
    BY <1>1, <1>2 DEF Poll, End
  <2> QED BY <1>1, <2>1, NoneFits, WalkMoves
<1>3. CASE ~detached
  <2>1. pc' = "describe" /\ outcome' = "none"
        /\ acc' = IF Resumes THEN cursor ELSE [None EXCEPT !.run = runId]
    BY <1>1, <1>3 DEF Poll
  <2>2. PICK to : to = IF Resumes THEN cursor ELSE [None EXCEPT !.run = runId]
    OBVIOUS
  <2>3. CASE Resumes
    <3>1. /\ to = cursor /\ CursorOfRun(cursor) /\ cursor.run = runId /\ runId # 0
          /\ cursor.meta \in Statuses /\ cursor.lastEventId \in Nat
      BY <2>2, <2>3 DEF MonitorIInv, WalkFits, CursorOfRun, Cursors
    <3>2. CursorOfRun(to)
      BY <3>1
    <3> QED BY <1>1, <1>3, <2>1, <2>2, <3>1, <3>2, WalkMoves
  <2>4. CASE ~Resumes
    <3>1. to = [None EXCEPT !.run = runId] /\ cursor.lastEventId = 0
      BY <2>2, <2>4 DEF Resumes, None
    <3>2. /\ CursorOfRun(to) /\ to.run = runId /\ to.lastEventId = 0 /\ to.pageToken = 0
      BY <1>1, <3>1, FreshCursor DEF MonitorIInv
    <3>3. runId # 0 => to.run = runId
      BY <3>2
    <3>4. cursor.lastEventId <= to.lastEventId /\ ~(to.pageToken # 0 \/ pc' = "page")
      BY <2>1, <3>1, <3>2
    <3>5. acc' = to
      BY <2>1, <2>2
    <3> QED BY <1>1, <1>3, <2>1, <3>2, <3>3, <3>4, <3>5, WalkMoves
  <2> QED BY <2>3, <2>4
<1> QED BY <1>2, <1>3

LEMMA DescribeInvariant == ASSUME MonitorIInv, Describe PROVE MonitorIInv'
<1>1. /\ UNCHANGED <<runs, cursor, runId, seen, printed, consecutiveErrors, detached, outcome>>
      /\ pc = "describe" /\ pc' = "page" /\ outcome = "none" /\ detached \in BOOLEAN
      /\ consecutiveErrors \in 0 .. MaxConsecutiveErrors - 1
      /\ CursorOfRun(acc) /\ RunsFit
      /\ runId # 0 => acc.run = runId
      /\ cursor.lastEventId <= acc.lastEventId
      /\ acc.pageToken # 0 => acc.run # 0 /\ acc.meta \in Statuses
  BY DEF Describe, server, MonitorIInv, WalkFits, OutcomeFits, MonitorTypeOK
<1>2. CASE acc.pageToken = 0 \/ Resumes
  <2>1. PICK r : r = IF acc.run = 0 THEN Latest ELSE acc.run
    OBVIOUS
  <2>2. PICK to : to = [acc EXCEPT !.run = r, !.meta = runs[r].status]
    OBVIOUS
  <2>3. acc' = to
    BY <1>2, <2>1, <2>2 DEF Describe
  <2>4. /\ acc \in Cursors /\ acc.run \in Nat /\ acc.run <= Len(runs)
        /\ Len(runs) \in 1 .. MaxRuns /\ MaxRuns \in Nat
    BY <1>1, MaxRunsAssumption DEF CursorOfRun, Cursors, RunsFit
  <2>5. r \in 1 .. Len(runs) /\ r \in 0 .. MaxRuns
    BY <2>1, <2>4 DEF Latest
  <2>6. runs[r].status \in Statuses /\ Len(runs[r].events) \in Nat
    BY <1>1, <2>5, EventsCount DEF RunRecord
  <2>7. to \in Cursors
    BY <2>2, <2>4, <2>5, <2>6 DEF Cursors
  <2>8. /\ to.run = r /\ to.meta = runs[r].status /\ to.events = acc.events
        /\ to.pageToken = acc.pageToken /\ to.lastEventId = acc.lastEventId
    BY <2>2, <2>4 DEF Cursors
  <2>9. acc.run = 0 => acc.lastEventId = 0
    BY <1>1 DEF CursorOfRun
  <2>10. Contiguous(to)
    BY <1>1, <2>1, <2>6, <2>8, <2>9 DEF CursorOfRun, Contiguous
  <2>11. CursorOfRun(to)
    BY <2>5, <2>7, <2>8, <2>10 DEF CursorOfRun
  <2>12. runId # 0 => to.run = runId
    BY <1>1, <2>1, <2>8
  <2> QED BY <1>1, <2>3, <2>5, <2>6, <2>8, <2>11, <2>12, WalkMoves
<1>3. CASE ~(acc.pageToken = 0 \/ Resumes)
  <2>1. PICK to : to = acc
    OBVIOUS
  <2>2. acc' = to
    BY <1>3, <2>1 DEF Describe
  <2> QED BY <1>1, <1>3, <2>1, <2>2, WalkMoves
<1> QED BY <1>2, <1>3

LEMMA PollFailsInvariant ==
  ASSUME MonitorIInv, NEW transient \in BOOLEAN, PollFails(transient)
  PROVE  MonitorIInv'
<1>1. /\ UNCHANGED <<runs, cursor, runId, seen, printed, detached>>
      /\ acc' = None /\ detached \in BOOLEAN /\ outcome = "none"
      /\ consecutiveErrors \in 0 .. MaxConsecutiveErrors - 1
  BY DEF PollFails, server, MonitorIInv, MonitorTypeOK, OutcomeFits
<1>2. \/ detached /\ pc' = "ended" /\ outcome' = "detached" /\ UNCHANGED consecutiveErrors
      \/ ~detached /\ pc' = "ended" /\ outcome' = "error" /\ UNCHANGED consecutiveErrors
      \/ /\ ~detached /\ pc' = "loop" /\ outcome' = "none"
         /\ consecutiveErrors' = consecutiveErrors + 1
         /\ consecutiveErrors + 1 < MaxConsecutiveErrors
  BY <1>1, MaxConsecutiveErrorsAssumption DEF PollFails, End, BudgetSpent
<1>3. consecutiveErrors' \in 0 .. MaxConsecutiveErrors - 1
  BY <1>1, <1>2, MaxConsecutiveErrorsAssumption
<1> QED BY <1>1, <1>2, <1>3, NoneFits, WalkMoves

LEMMA DetachInvariant == ASSUME MonitorIInv, Detach \/ ProcessExits PROVE MonitorIInv'
<1>1. /\ UNCHANGED <<runs, cursor, runId, seen, printed, consecutiveErrors>>
      /\ outcome = "none" /\ CursorOfRun(acc)
      /\ consecutiveErrors \in 0 .. MaxConsecutiveErrors - 1
  BY DEF Detach, ProcessExits, server, MonitorIInv, MonitorTypeOK, OutcomeFits, WalkFits
<1>2. CASE Detach
  <2>1. PICK to : to = acc
    OBVIOUS
  <2>2. acc' = to /\ pc' = pc /\ outcome' = "none" /\ detached' = TRUE
        /\ pc \in {"loop", "describe", "page", "ended"}
    BY <1>1, <1>2, <2>1 DEF Detach, MonitorIInv, MonitorTypeOK
  <2> QED BY <1>1, <2>1, <2>2, WalkMoves DEF MonitorIInv, WalkFits
<1>3. CASE ProcessExits
  <2>1. acc' = None /\ pc' = "ended" /\ outcome' = "detached" /\ detached' = TRUE
    BY <1>3 DEF ProcessExits, End, MonitorIInv, MonitorTypeOK
  <2> QED BY <1>1, <2>1, NoneFits, WalkMoves
<1> QED BY <1>2, <1>3

-----------------------------------------------------------------------------
(* The lines of a step that has come further. *)
LEMMA NextLine ==
  ASSUME NEW old \in {"none", "running", "ended"}, NEW lines \in LinesOf(old),
         NEW status \in {"running", "ended"}, status # old, old # "ended"
  PROVE  Append(lines, status) \in LinesOf(status)
<1>1. CASE old = "none"
  BY <1>1 DEF LinesOf
<1>2. CASE old = "running"
  <2>1. lines = <<"running">> /\ status = "ended"
    BY <1>2 DEF LinesOf
  <2>2. Append(<<"running">>, "ended") = <<"running", "ended">>
    <3> DEFINE Words == {"running", "ended"}
    <3>1. <<"running">> \in Seq(Words) /\ <<"running", "ended">> \in Seq(Words)
          /\ Len(<<"running">>) = 1 /\ Len(<<"running", "ended">>) = 2
      OBVIOUS
    <3>2. /\ Append(<<"running">>, "ended") \in Seq(Words)
          /\ Len(Append(<<"running">>, "ended")) = 2
          /\ Append(<<"running">>, "ended")[1] = "running"
          /\ Append(<<"running">>, "ended")[2] = "ended"
      BY <3>1, AppendProperties
    <3> HIDE DEF Words
    <3>3. \A i \in 1 .. 2 : Append(<<"running">>, "ended")[i] = <<"running", "ended">>[i]
      BY <3>2
    <3> QED BY <3>1, <3>2, <3>3, SeqEqual
  <2> QED BY <2>1, <2>2 DEF LinesOf
<1> QED BY <1>1, <1>2

LEMMA LastLine ==
  ASSUME NEW status \in {"running", "ended"}, NEW lines \in LinesOf(status)
  PROVE  lines # <<>> /\ lines[Len(lines)] = status
BY DEF LinesOf

LEMMA LinesAreInOrder ==
  ASSUME NEW status, NEW lines \in LinesOf(status)
  PROVE  /\ lines \in {<<>>, <<"running">>, <<"ended">>, <<"running", "ended">>}
         /\ lines \in Seq({"running", "ended"})
<1>1. lines \in {<<>>, <<"running">>, <<"ended">>, <<"running", "ended">>}
  BY DEF LinesOf
<1>2. {<<>>, <<"running">>, <<"ended">>, <<"running", "ended">>} \subseteq Seq({"running", "ended"})
  OBVIOUS
<1> QED BY <1>1, <1>2

(* What the walk has come to, when it hands back a cursor. *)
Answer(a) ==
    /\ pc = "page" /\ CursorOfRun(a)
    /\ a.run = acc.run /\ a.meta = acc.meta /\ acc.lastEventId <= a.lastEventId

(* It has read the whole history of a run that is closed. *)
Drained(a) == a.meta \in ClosedStatuses => a.lastEventId = Len(runs[a.run].events)

(* The statuses of a later cursor go on from those of the last one. *)
LEMMA SeenSoFar ==
  ASSUME MonitorIInv, NEW a, Answer(a), NEW s \in Spans, NEW status,
         status = SpanStatus(a.run, a.events, s)
  PROVE  /\ status = StatusUpTo(a.run, a.lastEventId, s)
         /\ status \in {"none", "pending", "running", "ended"}
         /\ seen[s] \in {"none", "running", "ended"}
         /\ seen[s] = "ended" => status = "ended"
         /\ seen[s] = "running" => status \in {"running", "ended"}
         /\ a.run \in 1 .. Len(runs) /\ a.run \in 1 .. MaxRuns
         /\ runId # 0 => a.run = runId
         /\ printed[a.run][s] \in LinesOf(seen[s])
<1>1. /\ a.run \in Nat /\ a.lastEventId \in Nat /\ a.events = Ids(0, a.lastEventId)
      /\ a.run <= Len(runs) /\ Len(runs) \in 1 .. MaxRuns /\ MaxRuns \in Nat
      /\ cursor.run \in Nat /\ cursor.lastEventId \in Nat
      /\ runId # 0 => a.run = runId
      /\ cursor.lastEventId <= acc.lastEventId /\ acc.lastEventId \in Nat
      /\ acc.lastEventId <= a.lastEventId /\ a.run # 0
      /\ Resumes => cursor.run = runId /\ runId # 0
      /\ runId \in Nat
  BY MaxRunsAssumption
     DEF Answer, CursorOfRun, Cursors, Contiguous, MonitorIInv, WalkFits, RunsFit, LinesFit
<1>2. PICK r \in Nat, n \in Nat, m \in Nat :
        r = a.run /\ n = cursor.lastEventId /\ m = a.lastEventId /\ n <= m
  BY <1>1
<1>3. status = StatusUpTo(r, m, s)
  BY <1>1, <1>2 DEF StatusUpTo
<1>4. seen[s] = PrintedAs(StatusUpTo(r, n, s))
  <2>1. seen[s] = PrintedAs(StatusUpTo(cursor.run, n, s))
    BY <1>2 DEF MonitorIInv, LinesFit
  <2>2. CASE Resumes
    BY <1>1, <1>2, <2>1, <2>2
  <2>3. CASE ~Resumes
    <3>1. n = 0
      BY <1>2, <2>3 DEF Resumes, None
    <3>2. StatusUpTo(cursor.run, 0, s) = "none" /\ StatusUpTo(r, 0, s) = "none"
      BY StatusOfNothing
    <3> QED BY <2>1, <3>1, <3>2
  <2> QED BY <2>2, <2>3
<1>5. /\ StatusUpTo(r, n, s) \in {"none", "pending", "running", "ended"}
      /\ StatusUpTo(r, m, s) \in {"none", "pending", "running", "ended"}
      /\ StatusUpTo(r, n, s) = "ended" => StatusUpTo(r, m, s) = "ended"
      /\ StatusUpTo(r, n, s) = "running" => StatusUpTo(r, m, s) \in {"running", "ended"}
  BY <1>2, StatusForward
<1>6. printed[a.run][s] \in LinesOf(seen[s])
  <2>1. CASE runId # 0
    BY <1>1, <2>1 DEF MonitorIInv, LinesFit
  <2>2. CASE runId = 0
    <3>1. ~Resumes /\ a.run > runId
      BY <1>1, <2>2
    <3>2. n = 0
      BY <1>2, <3>1 DEF Resumes, None
    <3>3. seen[s] = "none"
      BY <1>4, <3>2, StatusOfNothing DEF PrintedAs
    <3>4. printed[a.run][s] = <<>>
      BY <1>1, <3>1 DEF MonitorIInv, LinesFit
    <3> QED BY <3>3, <3>4 DEF LinesOf
  <2> QED BY <2>1, <2>2
<1> QED BY <1>1, <1>2, <1>3, <1>4, <1>5, <1>6 DEF PrintedAs

(* The lines once an answer has been printed. *)
LEMMA AnswerPrinted ==
  ASSUME MonitorIInv, NEW a, Answer(a), NEW to, to = PrintedAfter(a)
  PROVE  /\ to \in [1 .. MaxRuns -> [Spans -> Seq({"running", "ended"})]]
         /\ \A s \in Spans : /\ SeenAfter(a)[s] = PrintedAs(StatusUpTo(a.run, a.lastEventId, s))
                             /\ SeenAfter(a)[s] \in {"none", "running", "ended"}
                             /\ to[a.run][s] \in LinesOf(SeenAfter(a)[s])
         /\ \A r \in 1 .. MaxRuns : r # a.run => to[r] = printed[r]
<1>1. /\ printed \in [1 .. MaxRuns -> [Spans -> Seq({"running", "ended"})]]
      /\ seen \in [Spans -> {"none", "running", "ended"}]
  BY DEF MonitorIInv, MonitorTypeOK
<1>2. a.run \in 1 .. MaxRuns
  BY MaxRunsAssumption
     DEF Answer, CursorOfRun, Cursors, MonitorIInv, WalkFits, RunsFit
<1>3. ASSUME NEW s \in Spans
      PROVE  LET status == SpanStatus(a.run, a.events, s)
                 lines == IF s \in Updates(a) THEN Append(printed[a.run][s], status)
                          ELSE printed[a.run][s]
             IN  /\ SeenAfter(a)[s] = PrintedAs(StatusUpTo(a.run, a.lastEventId, s))
                 /\ SeenAfter(a)[s] \in {"none", "running", "ended"}
                 /\ lines \in LinesOf(SeenAfter(a)[s])
  <2>1. PICK status : status = SpanStatus(a.run, a.events, s)
    OBVIOUS
  <2>2. /\ status = StatusUpTo(a.run, a.lastEventId, s)
        /\ status \in {"none", "pending", "running", "ended"}
        /\ seen[s] \in {"none", "running", "ended"}
        /\ seen[s] = "ended" => status = "ended"
        /\ seen[s] = "running" => status \in {"running", "ended"}
        /\ printed[a.run][s] \in LinesOf(seen[s])
    BY <2>1, SeenSoFar
  <2>3. s \in Updates(a) <=> status \notin {"none", "pending", seen[s]}
    BY <2>1 DEF Updates
  <2>4. SeenAfter(a)[s] = IF s \in Updates(a) THEN status ELSE seen[s]
    BY <2>1 DEF SeenAfter
  <2>5. CASE s \in Updates(a)
    <3>1. status \in {"running", "ended"} /\ status # seen[s] /\ seen[s] # "ended"
      BY <2>2, <2>3, <2>5
    <3>2. Append(printed[a.run][s], status) \in LinesOf(status)
      BY <2>2, <3>1, NextLine
    <3> QED BY <2>1, <2>2, <2>4, <2>5, <3>1, <3>2 DEF PrintedAs
  <2>6. CASE s \notin Updates(a)
    <3>1. status \in {"none", "pending", seen[s]}
      BY <2>3, <2>6
    <3>2. seen[s] = PrintedAs(status)
      BY <2>2, <3>1 DEF PrintedAs
    <3> QED BY <2>1, <2>2, <2>4, <2>6, <3>2
  <2> QED BY <2>5, <2>6
<1> DEFINE row == [s \in Spans |->
                    IF s \in Updates(a) THEN Append(printed[a.run][s], SpanStatus(a.run, a.events, s))
                    ELSE printed[a.run][s]]
<1>4. to = [printed EXCEPT ![a.run] = row]
  BY DEF PrintedAfter
<1>5. row \in [Spans -> Seq({"running", "ended"})]
  <2>1. ASSUME NEW s \in Spans PROVE row[s] \in Seq({"running", "ended"})
    BY <1>3, LinesAreInOrder
  <2> QED BY <2>1
<1>6. \A s \in Spans : row[s] \in LinesOf(SeenAfter(a)[s])
  BY <1>3
<1> HIDE DEF row
<1>7. /\ to \in [1 .. MaxRuns -> [Spans -> Seq({"running", "ended"})]]
      /\ to[a.run] = row /\ \A r \in 1 .. MaxRuns : r # a.run => to[r] = printed[r]
  BY <1>1, <1>2, <1>4, <1>5
<1> QED BY <1>3, <1>6, <1>7

(* A walk that hands back its cursor leaves everything in place: for the next poll, for
   the next run, or for the end of the loop. *)
LEMMA ReportKeeps ==
  ASSUME MonitorIInv, NEW a, Answer(a), Report(a)
  PROVE  MonitorIInv'
<1>1. /\ acc' = None /\ UNCHANGED <<runs, detached>> /\ pc = "page" /\ outcome = "none"
      /\ detached \in BOOLEAN /\ consecutiveErrors \in 0 .. MaxConsecutiveErrors - 1
      /\ 0 \in 0 .. MaxConsecutiveErrors - 1 /\ RunsFit
  BY MaxConsecutiveErrorsAssumption
     DEF Report, server, Answer, MonitorIInv, MonitorTypeOK, OutcomeFits
<1>2. CASE detached
  <2>1. /\ pc' = "ended" /\ outcome' = "detached"
        /\ UNCHANGED <<runId, cursor, consecutiveErrors, seen, printed>>
    BY <1>2 DEF Report, End
  <2> QED BY <1>1, <1>2, <2>1, NoneFits, WalkMoves
<1>3. CASE ~detached
  <2>1. PICK to : to = PrintedAfter(a)
    OBVIOUS
  <2>2. PICK r \in Nat : r = a.run
    BY DEF Answer, CursorOfRun, Cursors
  <2>3. /\ r \in 1 .. Len(runs) /\ r \in 1 .. MaxRuns /\ (runId # 0 => r = runId)
        /\ Len(runs) \in 1 .. MaxRuns /\ MaxRuns \in Nat /\ Len(runs) \in Nat
        /\ runId \in 0 .. Len(runs) /\ a \in Cursors /\ a.meta \in Statuses
    <3>1. /\ runs \in Seq(RunRecord) /\ Len(runs) \in 1 .. MaxRuns /\ runId \in 0 .. Len(runs)
          /\ MaxRuns \in Nat
      BY MaxRunsAssumption DEF MonitorIInv, RunsFit, LinesFit
    <3>2. a \in Cursors /\ a.run <= Len(runs) /\ a.run = acc.run /\ a.meta = acc.meta
      BY DEF Answer, CursorOfRun
    <3>3. acc.run # 0 /\ acc.meta \in Statuses /\ (runId # 0 => acc.run = runId)
      BY DEF Answer, MonitorIInv, WalkFits
    <3> QED BY <2>2, <3>1, <3>2, <3>3
  <2>4. /\ to \in [1 .. MaxRuns -> [Spans -> Seq({"running", "ended"})]]
        /\ \A s \in Spans : /\ SeenAfter(a)[s] = PrintedAs(StatusUpTo(a.run, a.lastEventId, s))
                            /\ SeenAfter(a)[s] \in {"none", "running", "ended"}
                            /\ to[r][s] \in LinesOf(SeenAfter(a)[s])
        /\ \A q \in 1 .. MaxRuns : q # r => to[q] = printed[q]
    BY <2>1, <2>2, AnswerPrinted
  <2>5. /\ consecutiveErrors' = 0 /\ printed' = to
        /\ \/ /\ a.meta = "continued_as_new" /\ pc' = "loop" /\ outcome' = "none"
              /\ cursor' = None /\ seen' = Unseen /\ runId' = r + 1
           \/ /\ cursor' = a /\ runId' = r /\ seen' = SeenAfter(a)
              /\ ~(a.meta = "continued_as_new" /\ continuedAsNewRunId(a.run, a.events) # 0)
              /\ \/ a.meta = "running" /\ pc' = "loop" /\ outcome' = "none"
                 \/ a.meta \in Terminal /\ pc' = "ended" /\ outcome' = a.meta
                 \/ a.meta = "continued_as_new" /\ pc' = "ended" /\ outcome' = "undetermined"
    <3>1. continuedAsNewRunId(a.run, a.events) # 0 => continuedAsNewRunId(a.run, a.events) = r + 1
      BY <2>2 DEF continuedAsNewRunId
    <3> QED BY <1>1, <1>3, <2>1, <2>2, <3>1 DEF Report, Follow, End
  <2>6. a.meta = "continued_as_new" => r < Len(runs)
    BY <1>1, <2>2, <2>3 DEF Answer, CursorOfRun, ClosedStatuses, RunsFit
  <2>7. RunsFit' /\ RunsGrow
    BY <1>1, RunsStay
  <2>8. CursorOfRun(None)' /\ CursorOfRun(a)'
    <3>1. CursorOfRun(None) /\ CursorOfRun(a)
      BY NoneFits DEF Answer
    <3> QED BY <1>1, <2>7, <3>1, CursorKept DEF CursorOfRun, Contiguous, None
  <2>9. PrintedInOrder'
    <3> SUFFICES ASSUME NEW q \in 1 .. MaxRuns, NEW s \in Spans
                 PROVE  to[q][s] \in {<<>>, <<"running">>, <<"ended">>, <<"running", "ended">>}
      BY <2>5 DEF PrintedInOrder
    <3>1. CASE q = r
      BY <2>4, <3>1, LinesAreInOrder
    <3>2. CASE q # r
      BY <2>4, <3>2 DEF MonitorIInv, PrintedInOrder
    <3> QED BY <3>1, <3>2
  <2>10. /\ LinesFit' /\ seen' \in [Spans -> {"none", "running", "ended"}] /\ runId' \in 0 .. MaxRuns
    <3>0. ASSUME NEW s \in Spans, NEW q \in 1 .. MaxRuns, q > r
          PROVE  to[q][s] = <<>>
      <4>1. q # r /\ q > runId
        BY <2>3, <3>0
      <4> QED BY <2>4, <4>1 DEF MonitorIInv, LinesFit
    <3>1. CASE cursor' = None /\ seen' = Unseen /\ runId' = r + 1 /\ a.meta = "continued_as_new"
      <4>1. runId' \in 0 .. Len(runs') /\ runId' \in 0 .. MaxRuns
        BY <1>1, <2>3, <2>6, <3>1
      <4>2. \A s \in Spans : seen'[s] = "none"
        BY <3>1 DEF Unseen
      <4>3. \A s \in Spans : PrintedAs(StatusUpTo(cursor.run, cursor.lastEventId, s)') = "none"
        <5>1. cursor'.run = 0 /\ cursor'.lastEventId = 0
          BY <3>1 DEF None
        <5>2. \A s : StatusUpTo(0, 0, s)' = "none"
          <6>1. \A s : StatusUpTo(0, 0, s)' = StatusUpTo(0, 0, s)
            BY StatusKept
          <6> QED BY <6>1, StatusOfNothing
        <5> QED BY <5>1, <5>2 DEF PrintedAs
      <4>4. \A s \in Spans, q \in 1 .. MaxRuns : q >= runId' => printed'[q][s] = <<>>
        BY <2>3, <2>5, <3>0, <3>1
      <4>5. LinesFit'
        BY <2>3, <4>1, <4>2, <4>3, <4>4 DEF LinesFit, LinesOf, PrintedAs
      <4> QED BY <3>1, <4>1, <4>5 DEF Unseen
    <3>2. CASE cursor' = a /\ runId' = r /\ seen' = SeenAfter(a)
      <4>1. \A s : StatusUpTo(a.run, a.lastEventId, s)' = StatusUpTo(a.run, a.lastEventId, s)
        BY <1>1, <2>7, SpanKept DEF Answer
      <4>2. \A s \in Spans :
              seen'[s] = PrintedAs(StatusUpTo(cursor.run, cursor.lastEventId, s)')
        BY <2>4, <3>2, <4>1
      <4>3. runId' \in 0 .. Len(runs') /\ runId' \in 0 .. MaxRuns
        BY <1>1, <2>3, <3>2
      <4>4. \A s \in Spans : \A q \in 1 .. MaxRuns :
              /\ q = runId' => printed'[q][s] \in LinesOf(seen'[s])
              /\ q > runId' => printed'[q][s] = <<>>
        BY <2>4, <2>5, <3>0, <3>2
      <4>5. LinesFit'
        BY <4>2, <4>3, <4>4 DEF LinesFit, LinesOf
      <4>6. SeenAfter(a) \in [Spans -> {"none", "running", "ended"}]
        BY <2>4 DEF SeenAfter
      <4> QED BY <3>2, <4>3, <4>5, <4>6
    <3> QED BY <2>5, <3>1, <3>2
  <2>11. WalkFits'
    <3>1. CursorOfRun(cursor)' /\ CursorOfRun(acc)' /\ pc' \in {"loop", "ended"}
      BY <1>1, <2>5, <2>8 DEF CursorOfRun, Contiguous, None
    <3>2. Resumes' => cursor'.run = runId' /\ runId' # 0 /\ cursor'.meta \in Statuses
      BY <2>2, <2>3, <2>5 DEF Resumes, None
    <3> QED BY <1>1, <3>1, <3>2 DEF WalkFits, None
  <2>12. OutcomeFits'
    BY <1>1, <1>3, <2>5 DEF OutcomeFits, Terminal
  <2>13. MonitorTypeOK'
    <3>1. runs' \in Seq([events : Seq(Events), status : Statuses]) /\ acc' \in Cursors /\ cursor' \in Cursors
      BY <2>7, <2>11 DEF RunsFit, RunRecord, WalkFits, CursorOfRun
    <3>2. /\ pc' \in {"loop", "describe", "page", "ended"}
          /\ outcome' \in {"none", "error", "detached", "undetermined"} \cup Terminal
          /\ consecutiveErrors' \in 0 .. MaxConsecutiveErrors - 1
          /\ detached' \in BOOLEAN
      BY <1>1, <2>5
    <3>3. printed' \in [1 .. MaxRuns -> [Spans -> Seq({"running", "ended"})]]
      BY <2>4, <2>5
    <3> QED BY <2>10, <3>1, <3>2, <3>3 DEF MonitorTypeOK
  <2> QED BY <2>7, <2>9, <2>10, <2>11, <2>12, <2>13 DEF MonitorIInv
<1> QED BY <1>2, <1>3

(* A whole history of a run that continued has the id of the next one. *)
LEMMA FollowsTheChain ==
  ASSUME MonitorIInv, NEW a, Answer(a), Drained(a), Report(a)
  PROVE  outcome' # "undetermined"
<1>1. outcome = "none" /\ RunsFit
  BY DEF Answer, MonitorIInv, OutcomeFits
<1>2. SUFFICES ASSUME a.meta = "continued_as_new"
               PROVE  continuedAsNewRunId(a.run, a.events) # 0
  BY <1>1 DEF Report, Follow, End, Terminal
<1>3. PICK r \in Nat, n \in Nat : r = a.run /\ n = a.lastEventId
  BY DEF Answer, CursorOfRun, Cursors
<1>4. /\ r \in 1 .. Len(runs) /\ runs[r].status = "continued_as_new"
      /\ n = Len(runs[r].events) /\ a.events = Ids(0, n)
  BY <1>1, <1>2, <1>3
     DEF Answer, Drained, CursorOfRun, Contiguous, ClosedStatuses, MonitorIInv, WalkFits, RunsFit
<1>5. runs[r].events # <<>> /\ runs[r].events[n].kind = "continued"
  BY <1>1, <1>4 DEF RunsFit
<1>6. n # 0
  <2>1. runs[r].events \in Seq(Events)
    BY <1>1, <1>4, EventsCount
  <2> QED BY <1>4, <1>5, <2>1, EmptySeq
<1>7. n \in 1 .. Len(Ids(0, n)) /\ Ids(0, n)[n] = n
  BY <1>6 DEF Ids
<1>8. n \in 1 .. Len(a.events) /\ runs[a.run].events[a.events[n]].kind = "continued"
  BY <1>3, <1>4, <1>5, <1>7
<1> QED BY <1>3, <1>8 DEF continuedAsNewRunId

-----------------------------------------------------------------------------
(* If a walk of a closed run stops with this answer, it has had the last event. *)
Exhausts(upTo, next) ==
    acc.meta \in ClosedStatuses /\ next \in {0, acc.pageToken} =>
      upTo = Len(runs[acc.run].events) \/ acc.lastEventId = Len(runs[acc.run].events)

(* What an answer of the API brings: the cursor with what is new of its page, which the
   walk goes on with or hands back. *)
LEMMA TakesIn ==
  ASSUME MonitorIInv, pc = "page",
         NEW upTo \in Nat, acc.pageToken <= upTo, upTo <= Len(runs[acc.run].events),
         NEW next \in Nat, next <= upTo,
         NEW page, page = Ids(acc.pageToken, upTo), Take(page, next)
  PROVE  \E a : /\ CursorOfRun(a) /\ a.run = acc.run /\ a.meta = acc.meta
                /\ acc.lastEventId <= a.lastEventId
                /\ \/ Answer(a) /\ Report(a) /\ (Exhausts(upTo, next) => Drained(a))
                   \/ /\ pc' = "describe" /\ acc' = a
                      /\ UNCHANGED <<runs, runId, cursor, consecutiveErrors, seen, detached,
                                     outcome, printed>>
<1>1. /\ acc \in Cursors /\ acc.run # 0 /\ acc.run \in Nat /\ acc.run <= Len(runs)
      /\ acc.events = Ids(0, acc.lastEventId) /\ acc.pageToken <= acc.lastEventId
      /\ acc.pageToken \in Nat /\ acc.lastEventId \in Nat
      /\ acc.lastEventId <= Len(runs[acc.run].events) /\ RunsFit
      /\ acc.meta \in Statuses
      /\ acc.meta \in ClosedStatuses => runs[acc.run].status = acc.meta
  BY DEF MonitorIInv, WalkFits, CursorOfRun, Cursors, Contiguous
<1>2. PICK from \in Nat, mark \in Nat : from = acc.pageToken /\ mark = acc.lastEventId
  BY <1>1
<1>3. from <= mark /\ from <= upTo /\ page = Ids(from, upTo)
  BY <1>1, <1>2
<1>4. PICK news : news = NewEvents(page)
  OBVIOUS
<1>5. news = IF mark >= upTo THEN <<>> ELSE Ids(mark, upTo)
  <2>1. Above(Ids(from, upTo), mark) =
          IF mark >= upTo THEN <<>> ELSE Ids(IF from > mark THEN from ELSE mark, upTo)
    BY <1>3, AboveOfPage
  <2>2. (IF from > mark THEN from ELSE mark) = mark
    BY <1>3
  <2>3. news = Above(Ids(from, upTo), mark)
    BY <1>2, <1>3, <1>4 DEF NewEvents
  <2> QED BY <2>1, <2>2, <2>3
<1>6. PICK to \in Nat : /\ to = IF mark >= upTo THEN mark ELSE upTo
                        /\ to <= Len(runs[acc.run].events) /\ mark <= to /\ upTo <= to
  <2>1. CASE mark >= upTo
    BY <1>1, <1>2, <2>1
  <2>2. CASE ~(mark >= upTo)
    BY <1>1, <1>2, <2>2
  <2> QED BY <2>1, <2>2
<1>7. /\ acc.events \o news = Ids(0, to)
      /\ (IF news = <<>> THEN mark ELSE news[Len(news)]) = to
  <2>1. CASE mark >= upTo
    <3>1. news = <<>> /\ to = mark
      BY <1>5, <1>6, <2>1
    <3>2. Ids(0, mark) \o <<>> = Ids(0, mark)
      <4>1. 0 \in Nat /\ 0 <= mark /\ mark <= mark
        OBVIOUS
      <4>2. Ids(mark, mark) = <<>> /\ Ids(0, mark) \o Ids(mark, mark) = Ids(0, mark)
        BY <4>1, IdsEmpty, IdsConcat
      <4> QED BY <4>2
    <3> QED BY <1>1, <1>2, <3>1, <3>2
  <2>2. CASE ~(mark >= upTo)
    <3>1. news = Ids(mark, upTo) /\ to = upTo /\ mark < upTo
      BY <1>5, <1>6, <2>2
    <3>2. /\ Ids(mark, upTo) # <<>> /\ Ids(mark, upTo)[Len(Ids(mark, upTo))] = upTo
          /\ Ids(0, mark) \o Ids(mark, upTo) = Ids(0, upTo)
      <4>1. 0 \in Nat /\ 0 <= mark /\ mark <= upTo
        BY <3>1
      <4> QED BY <3>1, <4>1, LastOfIds, IdsConcat
    <3> QED BY <1>1, <1>2, <3>1, <3>2
  <2> QED BY <2>1, <2>2
<1>8. PICK token \in Nat : token = (IF next = 0 THEN from ELSE next) /\ token <= to
  <2>1. from \in Nat /\ next \in Nat /\ from <= to /\ next <= to
    BY <1>3, <1>6
  <2> QED BY <2>1
<1>9. PICK a : a = [acc EXCEPT !.events = Ids(0, to), !.lastEventId = to, !.pageToken = token]
  OBVIOUS
<1>10. /\ a.run = acc.run /\ a.meta = acc.meta /\ a.events = Ids(0, to)
       /\ a.lastEventId = to /\ a.pageToken = token
  BY <1>1, <1>9 DEF Cursors
<1>11. a \in Cursors
  <2>1. Ids(0, to) \in Seq(Nat \ {0})
    <3>1. \A i \in 1 .. to : 0 + i \in Nat \ {0}
      OBVIOUS
    <3>2. Ids(0, to) = [i \in 1 .. to |-> 0 + i]
      BY DEF Ids
    <3> QED BY <3>1, <3>2
  <2> QED BY <1>1, <1>9, <2>1 DEF Cursors
<1>12. CursorOfRun(a) /\ acc.lastEventId <= a.lastEventId
  BY <1>1, <1>2, <1>6, <1>8, <1>10, <1>11 DEF CursorOfRun, Contiguous
<1>13. \/ Stops(a, news, next) /\ Report(a)
       \/ /\ pc' = "describe" /\ acc' = a
          /\ UNCHANGED <<runs, runId, cursor, consecutiveErrors, seen, detached, outcome, printed>>
  <2>1. a = [acc EXCEPT
              !.events = @ \o news,
              !.lastEventId = IF news = <<>> THEN @ ELSE news[Len(news)],
              !.pageToken = IF next = 0 THEN @ ELSE next]
    BY <1>2, <1>7, <1>8, <1>9
  <2> QED BY <1>4, <2>1 DEF Take, server
<1>14. ASSUME Stops(a, news, next), Exhausts(upTo, next) PROVE Drained(a)
  <2> SUFFICES ASSUME a.meta \in ClosedStatuses PROVE a.lastEventId = Len(runs[a.run].events)
    BY DEF Drained
  <2>1. isRunClosed(a.meta)
    BY DEF isRunClosed, ClosedStatuses
  <2>2. next \in {0, acc.pageToken}
    BY <1>14, <2>1 DEF Stops
  <2>3. upTo = Len(runs[acc.run].events) \/ mark = Len(runs[acc.run].events)
    BY <1>2, <1>10, <1>14, <2>2 DEF Exhausts
  <2> QED BY <1>1, <1>2, <1>6, <1>10, <2>3
<1>15. Answer(a)
  BY <1>10, <1>12 DEF Answer
<1> QED BY <1>10, <1>12, <1>13, <1>14, <1>15

(* A page of the run, or the deadline of a long poll, as the lemma has it. *)
LEMMA AnswersAreTaken ==
  ASSUME MonitorIInv, PageArrives \/ DeadlineElapses
  PROVE  /\ pc = "page"
         /\ \E a : /\ CursorOfRun(a) /\ a.run = acc.run /\ a.meta = acc.meta
                   /\ acc.lastEventId <= a.lastEventId
                   /\ \/ Answer(a) /\ Report(a) /\ (Drained(a) \/ CutShort)
                      \/ /\ pc' = "describe" /\ acc' = a
                         /\ UNCHANGED <<runs, runId, cursor, consecutiveErrors, seen, detached,
                                        outcome, printed>>
<1>1. pc = "page"
  BY DEF PageArrives, DeadlineElapses
<1>2. /\ acc.run \in 1 .. Len(runs) /\ acc.pageToken \in Nat /\ acc.lastEventId \in Nat
      /\ acc.pageToken <= acc.lastEventId /\ acc.lastEventId <= Len(runs[acc.run].events)
      /\ acc.meta \in ClosedStatuses => runs[acc.run].status = acc.meta
      /\ RunsFit
  BY <1>1, MaxRunsAssumption
     DEF MonitorIInv, WalkFits, CursorOfRun, Cursors, Contiguous, RunsFit
<1>3. Len(runs[acc.run].events) \in Nat
  BY <1>2, EventsCount
<1>4. acc.meta \in ClosedStatuses => ~Open
  BY <1>2 DEF Open, ClosedStatuses, Terminal
<1>5. CASE PageArrives
  <2>1. PICK from \in Nat, tip \in Nat : /\ from = acc.pageToken /\ tip = Tip
                                         /\ tip = Len(runs[acc.run].events) /\ from <= tip
    BY <1>2, <1>3 DEF Tip
  <2>2. PICK upTo \in Nat : /\ upTo = IF from + PageSize < tip THEN from + PageSize ELSE tip
                            /\ from <= upTo /\ upTo <= tip
                            /\ upTo < tip => from < upTo
    BY <2>1, PageSizeAssumption
  <2>3. PICK next \in Nat : /\ next = (IF upTo < tip \/ (Resumes /\ Open) THEN upTo ELSE 0)
                            /\ next <= upTo
    BY <2>2
  <2>4. Take(Ids(from, upTo), next)
    BY <1>5, <2>1, <2>2, <2>3 DEF PageArrives
  <2>5. acc.meta \in ClosedStatuses /\ next \in {0, from} => upTo = tip
    BY <1>4, <2>1, <2>2, <2>3
  <2>6. Exhausts(upTo, next)
    BY <2>1, <2>5 DEF Exhausts
  <2> QED BY <1>1, <1>2, <2>1, <2>2, <2>3, <2>4, <2>5, <2>6, TakesIn
<1>6. CASE DeadlineElapses
  <2>1. PICK from \in Nat : from = acc.pageToken
    BY <1>2
  <2>2. Take(<<>>, from)
    BY <1>6, <2>1 DEF DeadlineElapses
  <2>3. Ids(from, from) = <<>>
    BY IdsEmpty
  <2>4. from <= Len(runs[acc.run].events)
    BY <1>2, <1>3, <2>1
  <2>5. Exhausts(from, from) \/ CutShort
    BY <1>2, <1>3, <1>6 DEF CutShort, Tip, Exhausts
  <2> QED BY <1>1, <2>1, <2>2, <2>3, <2>4, <2>5, TakesIn
<1> QED BY <1>1, <1>5, <1>6

LEMMA AnswerInvariant ==
  ASSUME MonitorIInv, PageArrives \/ DeadlineElapses
  PROVE  MonitorIInv'
<1>1. PICK a : /\ CursorOfRun(a) /\ a.run = acc.run /\ a.meta = acc.meta
               /\ acc.lastEventId <= a.lastEventId
               /\ \/ Answer(a) /\ Report(a)
                  \/ /\ pc' = "describe" /\ acc' = a
                     /\ UNCHANGED <<runs, runId, cursor, consecutiveErrors, seen, detached,
                                    outcome, printed>>
  BY AnswersAreTaken
<1>2. CASE Answer(a) /\ Report(a)
  BY <1>2, ReportKeeps
<1>3. CASE /\ pc' = "describe" /\ acc' = a
           /\ UNCHANGED <<runs, runId, cursor, consecutiveErrors, seen, detached,
                          outcome, printed>>
  <2>1. pc = "page"
    BY AnswersAreTaken
  <2>2. /\ acc.run # 0 /\ acc.meta \in Statuses /\ (runId # 0 => acc.run = runId)
        /\ cursor.lastEventId <= acc.lastEventId /\ outcome = "none"
        /\ cursor.lastEventId \in Nat /\ acc.lastEventId \in Nat /\ a.lastEventId \in Nat
        /\ consecutiveErrors \in 0 .. MaxConsecutiveErrors - 1 /\ detached \in BOOLEAN
    BY <1>1, <2>1
       DEF MonitorIInv, WalkFits, OutcomeFits, MonitorTypeOK, CursorOfRun, Cursors
  <2>3. cursor.lastEventId <= a.lastEventId
    BY <1>1, <2>2
  <2> QED BY <1>1, <1>3, <2>2, <2>3, WalkMoves
<1> QED BY <1>1, <1>2, <1>3

LEMMA MonitorNextInvariant ==
  ASSUME MonitorIInv, [MonitorNext]_monitorVars PROVE MonitorIInv'
<1>1. CASE UNCHANGED monitorVars
  <2>1. UNCHANGED <<runs, pc, runId, cursor, acc, consecutiveErrors, seen, detached, outcome,
                    printed>>
    BY <1>1 DEF monitorVars
  <2>2. RunsFit' /\ RunsGrow
    BY <2>1, RunsStay DEF MonitorIInv
  <2>3. LinesFit' /\ Resumes' = Resumes
    BY <2>1, <2>2, LinesStay
  <2> QED BY <2>1, <2>2, <2>3 DEF MonitorIInv, MonitorTypeOK, PrintedInOrder,
             WalkFits, CursorOfRun, Contiguous, OutcomeFits
<1> QED BY <1>1, WorkflowInvariant, PollInvariant, DescribeInvariant, AnswerInvariant,
           PollFailsInvariant, DetachInvariant DEF MonitorNext, Answered

(* However the polls of `output workflow monitor` are cut short, what it has collected of
   a run is a prefix of its history, and the lines it prints of a step are in order and
   never repeated. *)
THEOREM TheHistoryIsTold == MonitorSpec => []TellsTheHistory
<1>1. MonitorIInv /\ [MonitorNext]_monitorVars => MonitorIInv'
  BY MonitorNextInvariant
<1>2. MonitorIInv => TellsTheHistory
  BY DEF MonitorIInv, TellsTheHistory, WalkFits, CursorOfRun, NoGap
<1> QED BY <1>1, <1>2, MonitorInitInvariant, PTL DEF MonitorSpec

-----------------------------------------------------------------------------
(* A run that is left is one whose whole history was collected. *)
LEMMA ReportHasLastWord ==
  ASSUME MonitorIInv, NEW a, Answer(a), Drained(a), Report(a), NEW r \in 1 .. MaxRuns, r = a.run,
         runId' > r \/ outcome' \in Terminal
  PROVE  HasLastWord(r)'
<1>1. /\ outcome = "none" /\ runId \in Nat /\ (runId # 0 => r = runId)
      /\ runs' = runs /\ r \in 1 .. Len(runs) /\ RunsFit
  BY MaxRunsAssumption
     DEF Report, server, Answer, MonitorIInv, WalkFits, OutcomeFits, LinesFit, CursorOfRun, RunsFit
<1>2. /\ ~detached /\ a.meta \in ClosedStatuses /\ printed' = PrintedAfter(a)
  <2>1. ~(runId > r) /\ ~(a.run > r)
    BY <1>1
  <2>2. ~detached
    BY <1>1, <2>1 DEF Report, End, Terminal
  <2>3. \/ a.meta = "continued_as_new" \/ a.meta \in Terminal
        \/ runId' = a.run /\ UNCHANGED outcome
        \/ runId' = a.run /\ outcome' = "undetermined"
    BY <2>2 DEF Report, End
  <2> QED BY <1>1, <2>1, <2>2, <2>3 DEF Report, ClosedStatuses, Terminal
<1>3. PICK n \in Nat : n = a.lastEventId /\ n = Len(runs[r].events)
  BY <1>2 DEF Answer, Drained, CursorOfRun, Cursors
<1>4. ASSUME NEW s \in Spans
      PROVE  StatusUpTo(r, n, s)' \in {"running", "ended"} =>
               /\ printed'[r][s] # <<>>
               /\ printed'[r][s][Len(printed'[r][s])] = StatusUpTo(r, n, s)'
  <2>1. StatusUpTo(r, n, s)' = StatusUpTo(r, n, s)
    BY <1>1, StatusKept
  <2>2. /\ SeenAfter(a)[s] = PrintedAs(StatusUpTo(r, n, s))
        /\ printed'[r][s] \in LinesOf(SeenAfter(a)[s])
    <3>1. PICK to : to = PrintedAfter(a)
      OBVIOUS
    <3> QED BY <1>2, <1>3, <3>1, AnswerPrinted
  <2> QED BY <2>1, <2>2, LastLine DEF PrintedAs
<1>5. n = Len(runs'[r].events)
  BY <1>1, <1>3
<1> QED BY <1>4, <1>5 DEF HasLastWord, StatusUpTo

LEMMA LeavesWithLastWord ==
  ASSUME MonitorIInv, MonitorNext, NEW r \in 1 .. MaxRuns, LeavesRun(r)
  PROVE  HasLastWord(r)' \/ CutShort
<1>1. acc.run = r /\ pc' # "describe" /\ (runId' > r \/ outcome' \in Terminal)
  BY DEF LeavesRun
<1>2. pc \in {"describe", "page"}
  <2>1. acc # None
    BY <1>1 DEF None
  <2> QED BY <2>1 DEF MonitorIInv, MonitorTypeOK, WalkFits
<1>3. outcome = "none" /\ runId \in Nat /\ ~(runId > r)
  <2>1. runId # 0 => r = runId
    BY <1>1, <1>2 DEF MonitorIInv, WalkFits
  <2>2. runId \in Nat /\ outcome = "none"
    BY <1>2, MaxRunsAssumption DEF MonitorIInv, MonitorTypeOK, OutcomeFits
  <2> QED BY <2>1, <2>2
<1>4. ~Workflow /\ ~Detach
  BY <1>1, <1>3 DEF Workflow, Detach, Terminal
<1>5. ~Poll
  BY <1>2 DEF Poll
<1>6. ~Describe
  BY <1>1, <1>3 DEF Describe, Terminal
<1>7. ~ProcessExits /\ \A transient \in BOOLEAN : ~PollFails(transient)
  BY <1>1, <1>3 DEF ProcessExits, PollFails, End, Terminal
<1>8. PageArrives \/ DeadlineElapses
  BY <1>4, <1>5, <1>6, <1>7 DEF MonitorNext, Answered
<1>9. PICK a : Answer(a) /\ Report(a) /\ a.run = acc.run /\ (Drained(a) \/ CutShort)
  BY <1>1, <1>8, AnswersAreTaken
<1> QED BY <1>1, <1>9, ReportHasLastWord

LEMMA LosesTheChainCutShort ==
  ASSUME MonitorIInv, MonitorNext, outcome = "none", outcome' = "undetermined"
  PROVE  CutShort
<1>1. PageArrives \/ DeadlineElapses
  BY DEF MonitorNext, Answered, Workflow, Poll, Describe, PollFails, Detach, ProcessExits, End
<1>2. PICK a : Answer(a) /\ Report(a) /\ (Drained(a) \/ CutShort)
  BY <1>1, AnswersAreTaken
<1> QED BY <1>2, FollowsTheChain

(* Who has detached is told nothing more. *)
LEMMA DetachedIsQuiet ==
  ASSUME MonitorIInv, MonitorNext, detached
  PROVE  UNCHANGED printed /\ outcome' \in {"none", "detached"}
<1>1. outcome \in {"none", "detached"}
  BY DEF MonitorIInv, OutcomeFits
<1>2. CASE PageArrives \/ DeadlineElapses
  BY <1>1, <1>2, AnswersAreTaken DEF Report, End
<1>3. CASE ~(PageArrives \/ DeadlineElapses)
  BY <1>1, <1>3
     DEF MonitorNext, Answered, Workflow, Poll, Describe, PollFails, Detach, ProcessExits, End
<1> QED BY <1>2, <1>3

(* The monitor leaves no run before it has printed the last word on each step of it, and
   loses no run of the chain, unless the deadline of a long poll elapses with events of the
   run unread; and it prints nothing once its user has detached. *)
THEOREM TheMonitorLeavesInTime == MonitorSpec => LeavesInTime
<1>1. MonitorIInv /\ [MonitorNext]_monitorVars => MonitorIInv'
  BY MonitorNextInvariant
<1>2. MonitorIInv /\ [MonitorNext]_monitorVars =>
        [\A r \in 1 .. MaxRuns : LeavesRun(r) => HasLastWord(r)' \/ CutShort]_monitorVars
  BY LeavesWithLastWord
<1>3. MonitorIInv /\ [MonitorNext]_monitorVars =>
        [detached => UNCHANGED printed /\ outcome' \in {"none", "detached"}]_monitorVars
  BY DetachedIsQuiet
<1>4. MonitorIInv /\ [MonitorNext]_monitorVars =>
        [outcome = "none" /\ outcome' = "undetermined" => CutShort]_monitorVars
  BY LosesTheChainCutShort
<1> QED BY <1>1, <1>2, <1>3, <1>4, MonitorInitInvariant, PTL
        DEF MonitorSpec, LeavesInTime, LastWord, NeverLosesTheChain, QuietOnceDetached

-----------------------------------------------------------------------------
(***************************************************************************)
(* The history stream.                                                     *)
(***************************************************************************)
IsHistory(frame) == frame.type = "history"
LastOf(frame) == frame.ids[Len(frame.ids)]

(* The last id the client has been given once the frames before a place are read. *)
GivenBefore(w, i) == IF i = 1 THEN lastId ELSE LastOf(w[i - 1])

(* The one it has been given once all of them are read. *)
GivenAfter(w) == GivenBefore(w, Len(w) + 1)

(* No frame but a batch comes before the one at a place. *)
AfterBatch(w, i) == i > 1 => IsHistory(w[i - 1])

AllHistory(w) == \A i \in 1 .. Len(w) : IsHistory(w[i])

(* The last event of the run in the path, so far. *)
Tip1 == chain[1].length

(* The batches come first, and each goes on where the one before it ends. *)
BatchesFollow(w) ==
    \A i \in 1 .. Len(w) :
      IsHistory(w[i]) =>
        /\ AfterBatch(w, i)
        /\ w[i].run = 1
        /\ \E to \in 1 .. Tip1 :
             GivenBefore(w, i) \in 0 .. to - 1 /\ w[i].ids = Ids(GivenBefore(w, i), to)

(* What comes after the batches is the end, and the right one. *)
EndsOnce(w) ==
    \A i \in 1 .. Len(w) :
      /\ w[i].type \in {"done", "server_error"} => i + 1 = Len(w)
      /\ w[i].type \in {"end", "204", "500"} => i = Len(w)
      /\ w[i].type = "done" =>
           ClosedRun(1) /\ AfterBatch(w, i) /\ GivenBefore(w, i) = Tip1
      /\ w[i].type = "204" => i = 1 /\ ClosedRun(1) /\ lastId = Tip1

WireFits(w) == w \in Seq(FrameType) /\ BatchesFollow(w) /\ EndsOnce(w)

(* Only the last run of the chain can be open. *)
ChainFits ==
    /\ Len(chain) \in 1 .. MaxChain
    /\ \A r \in 1 .. Len(chain) : r < Len(chain) => ClosedRun(r)

(* Only the run in the path is told of, and no further than it is. *)
GivenSoFar ==
    /\ \A r \in 1 .. MaxChain : r # 1 => received[r] = <<>>
    /\ lastId = Len(received[1]) /\ lastId <= Tip1

(* The generator writes for an open source, from where the wire ends. *)
StreamFits ==
    /\ stream.at # "idle" => source = "open" /\ AllHistory(wire)
    /\ stream.at = "describe" => wire = <<>> /\ stream.from = 0 /\ stream.filter = lastId
    /\ stream.at = "page" =>
         /\ stream.run = 1 /\ stream.from <= stream.filter
         /\ stream.filter = GivenAfter(wire)

SourceFits ==
    /\ source = "connecting" => wire = <<>> /\ stream.at = "idle"
    /\ ending # "none" <=> source = "closed"

StreamIInv ==
    /\ StreamTypeOK /\ EachOnceInOrder /\ ToldWhenComplete
    /\ ChainFits /\ GivenSoFar /\ StreamFits /\ SourceFits
    /\ source = "open" => WireFits(wire)

-----------------------------------------------------------------------------
LEMMA StreamInitInvariant == StreamInit => StreamIInv
<1> SUFFICES ASSUME StreamInit PROVE StreamIInv
  OBVIOUS
<1> USE BoundsAssumption
<1>1. /\ chain = <<[length |-> 1, status |-> "running"]>> /\ stream = Idle /\ wire = <<>>
      /\ source = "connecting" /\ lastId = 0 /\ ending = "none" /\ faults = 0
      /\ received = [r \in 1 .. MaxChain |-> <<>>]
  BY DEF StreamInit, FirstOfRun
<1>2. StreamTypeOK
  <2>1. chain \in Seq(ChainedRun)
    BY <1>1 DEF ChainedRun
  <2>2. stream \in [at : {"idle", "describe", "page"}, run : 0 .. MaxChain,
                    from : 0 .. MaxEvents, filter : 0 .. MaxEvents]
    BY <1>1 DEF Idle
  <2>3. wire \in Seq(FrameType) /\ received \in [1 .. MaxChain -> Seq(1 .. MaxEvents)]
    BY <1>1
  <2> QED BY <1>1, <2>1, <2>2, <2>3 DEF StreamTypeOK
<1>3. EachOnceInOrder
  BY <1>1, IdsEmpty DEF EachOnceInOrder
<1>4. ChainFits
  BY <1>1 DEF ChainFits
<1>5. GivenSoFar
  BY <1>1 DEF GivenSoFar, Tip1
<1>6. StreamFits /\ SourceFits
  BY <1>1 DEF StreamFits, SourceFits, Idle
<1> QED BY <1>1, <1>2, <1>3, <1>4, <1>5, <1>6 DEF StreamIInv, ToldWhenComplete

(* What the invariant says of the run in the path. *)
LEMMA RunInThePath ==
  ASSUME StreamIInv
  PROVE  /\ chain \in Seq(ChainedRun)
         /\ Len(chain) \in 1 .. MaxChain /\ 1 \in 1 .. MaxChain
         /\ Tip1 \in 1 .. MaxEvents /\ MaxEvents \in Nat
         /\ lastId \in 0 .. Tip1
<1>1. /\ chain \in Seq(ChainedRun)
      /\ Len(chain) \in 1 .. MaxChain /\ MaxChain \in Nat /\ MaxEvents \in Nat
      /\ lastId \in 0 .. MaxEvents /\ lastId <= Tip1
  BY BoundsAssumption DEF StreamIInv, StreamTypeOK, ChainFits, GivenSoFar
<1>2. 1 \in 1 .. Len(chain) /\ 1 \in 1 .. MaxChain
  BY <1>1
<1>3. Tip1 \in 1 .. MaxEvents
  <2>1. chain[1] \in ChainedRun
    BY <1>1, <1>2, ElementOfSeq
  <2> QED BY <2>1 DEF Tip1, ChainedRun
<1> QED BY <1>1, <1>2, <1>3

(* The marks between the batches lie within the run. *)
LEMMA GivenWithin ==
  ASSUME NEW w, WireFits(w), lastId \in 0 .. Tip1, Tip1 \in Nat,
         NEW i \in 1 .. Len(w) + 1, AfterBatch(w, i)
  PROVE  GivenBefore(w, i) \in 0 .. Tip1
<1>1. CASE i = 1
  BY <1>1 DEF GivenBefore, GivenAfter
<1>2. CASE i # 1
  <2>1. i - 1 \in 1 .. Len(w) /\ IsHistory(w[i - 1])
    BY <1>2, LenProperties DEF WireFits, AfterBatch
  <2>2. PICK to \in 1 .. Tip1 :
          GivenBefore(w, i - 1) \in 0 .. to - 1 /\ w[i - 1].ids = Ids(GivenBefore(w, i - 1), to)
    BY <2>1 DEF WireFits, BatchesFollow
  <2>3. LastOf(w[i - 1]) = to
    <3>1. GivenBefore(w, i - 1) \in Nat /\ to \in Nat /\ GivenBefore(w, i - 1) < to
      BY <2>2
    <3>2. Ids(GivenBefore(w, i - 1), to)[Len(Ids(GivenBefore(w, i - 1), to))] = to
      BY <3>1, LastOfIds
    <3> QED BY <2>2, <3>2 DEF LastOf
  <2> QED BY <1>2, <2>3 DEF GivenBefore, GivenAfter
<1> QED BY <1>1, <1>2

(* A batch from where the wire ends. *)
LEMMA AddBatch ==
  ASSUME NEW w, WireFits(w), AllHistory(w), Tip1 \in 1 .. MaxEvents, MaxEvents \in Nat,
         1 \in 1 .. MaxChain, NEW to \in Nat, NEW given \in Nat, given < to, to <= Tip1,
         given = GivenAfter(w),
         NEW v, v = Append(w, History(1, Ids(given, to)))
  PROVE  WireFits(v) /\ AllHistory(v) /\ GivenAfter(v) = to
<1> DEFINE new == History(1, Ids(given, to))
<1>1. Ids(given, to) \in Seq(1 .. MaxEvents)
  <2>1. \A i \in 1 .. to - given : given + i \in 1 .. MaxEvents
    OBVIOUS
  <2>2. to - given \in Nat
    OBVIOUS
  <2> QED BY <2>1, <2>2 DEF Ids
<1>2. new \in FrameType /\ IsHistory(new) /\ new.run = 1 /\ new.ids = Ids(given, to)
  BY <1>1 DEF History, FrameType, IsHistory
<1> HIDE DEF new
<1>3. /\ v \in Seq(FrameType) /\ Len(v) = Len(w) + 1 /\ v[Len(w) + 1] = new
      /\ \A i \in 1 .. Len(w) : v[i] = w[i]
  BY <1>2, AppendProperties DEF WireFits, new
<1>4. Len(w) \in Nat
  BY LenProperties DEF WireFits
<1>5. AllHistory(v)
  BY <1>2, <1>3, <1>4 DEF AllHistory
<1>6. \A i \in 1 .. Len(w) + 1 : GivenBefore(v, i) = GivenBefore(w, i)
  BY <1>3, <1>4 DEF GivenBefore, GivenAfter
<1>7. BatchesFollow(v)
  <2> SUFFICES ASSUME NEW i \in 1 .. Len(v)
               PROVE  /\ v[i].run = 1
                      /\ \E t \in 1 .. Tip1 : /\ GivenBefore(v, i) \in 0 .. t - 1
                                              /\ v[i].ids = Ids(GivenBefore(v, i), t)
    <3>1. \A i \in 1 .. Len(v) : AfterBatch(v, i)
      BY <1>3, <1>4, <1>5 DEF AllHistory, AfterBatch
    <3> QED BY <3>1 DEF BatchesFollow
  <2>1. CASE i \in 1 .. Len(w)
    BY <2>1, <1>3, <1>6 DEF WireFits, BatchesFollow, AllHistory
  <2>2. CASE i = Len(w) + 1
    BY <2>2, <1>2, <1>3, <1>4, <1>6 DEF GivenAfter
  <2> QED BY <2>1, <2>2, <1>3, <1>4
<1>8. EndsOnce(v)
  BY <1>5 DEF EndsOnce, AllHistory, IsHistory
<1>9. GivenAfter(v) = to
  <2>1. given \in Nat /\ to \in Nat /\ given < to
    OBVIOUS
  <2>2. Ids(given, to)[Len(Ids(given, to))] = to
    BY <2>1, LastOfIds
  <2>3. GivenAfter(v) = LastOf(new)
    BY <1>3, <1>4 DEF GivenBefore, GivenAfter
  <2> QED BY <1>2, <2>2, <2>3 DEF LastOf
<1> QED BY <1>3, <1>5, <1>7, <1>8, <1>9 DEF WireFits

(* The response ends, with "done" only at the end of a closed run. *)
LEMMA AddEnd ==
  ASSUME NEW w, WireFits(w), AllHistory(w), NEW how \in {"done", "server_error"},
         how = "done" => ClosedRun(1) /\ GivenAfter(w) = Tip1,
         NEW v, v = w \o <<Frame(how), Frame("end")>>
  PROVE  WireFits(v)
<1> DEFINE tail == <<Frame(how), Frame("end")>>
<1>1. /\ tail \in Seq(FrameType) /\ Len(tail) = 2
      /\ tail[1].type = how /\ tail[2].type = "end"
  BY DEF Frame, FrameType
<1> HIDE DEF tail
<1>2. Len(w) \in Nat /\ w \in Seq(FrameType)
  BY LenProperties DEF WireFits
<1>3. /\ v \in Seq(FrameType) /\ Len(v) = Len(w) + 2
      /\ \A i \in 1 .. Len(w) + 2 : v[i] = IF i <= Len(w) THEN w[i] ELSE tail[i - Len(w)]
  BY <1>1, <1>2, ConcatProperties DEF tail
<1>4. /\ v[Len(w) + 1].type = how /\ v[Len(w) + 2].type = "end"
      /\ \A i \in 1 .. Len(w) : v[i] = w[i] /\ IsHistory(v[i])
  <2>1. v[Len(w) + 1] = tail[1] /\ v[Len(w) + 2] = tail[2]
    <3>1. Len(w) + 1 - Len(w) = 1 /\ Len(w) + 2 - Len(w) = 2
      BY <1>2
    <3>2. PICK p \in 1 .. Len(w) + 2, q \in 1 .. Len(w) + 2 :
            /\ p = Len(w) + 1 /\ ~(p <= Len(w)) /\ p - Len(w) = 1
            /\ q = Len(w) + 2 /\ ~(q <= Len(w)) /\ q - Len(w) = 2
      BY <1>2, <3>1
    <3>3. v[p] = tail[1] /\ v[q] = tail[2]
      BY <1>3, <3>2
    <3> QED BY <3>2, <3>3
  <2>2. \A i \in 1 .. Len(w) : v[i] = w[i]
    BY <1>2, <1>3
  <2> QED BY <1>1, <2>1, <2>2 DEF AllHistory
<1>5. \A i \in 1 .. Len(w) + 1 : GivenBefore(v, i) = GivenBefore(w, i)
  BY <1>2, <1>4 DEF GivenBefore, GivenAfter
<1>6. BatchesFollow(v)
  <2> SUFFICES ASSUME NEW i \in 1 .. Len(v), IsHistory(v[i])
               PROVE  /\ AfterBatch(v, i)
                      /\ v[i].run = 1
                      /\ \E t \in 1 .. Tip1 : /\ GivenBefore(v, i) \in 0 .. t - 1
                                              /\ v[i].ids = Ids(GivenBefore(v, i), t)
    BY DEF BatchesFollow
  <2>1. i \in 1 .. Len(w)
    BY <1>2, <1>3, <1>4 DEF IsHistory
  <2>2. v[i] = w[i] /\ GivenBefore(v, i) = GivenBefore(w, i) /\ IsHistory(w[i])
    <3>1. i \in 1 .. Len(w) + 1
      BY <2>1, <1>2
    <3> QED BY <2>1, <3>1, <1>4, <1>5 DEF AllHistory
  <2>3. AfterBatch(v, i)
    BY <2>1, <1>2, <1>4 DEF AfterBatch
  <2> QED BY <2>1, <2>2, <2>3 DEF WireFits, BatchesFollow
<1>7. EndsOnce(v)
  <2> SUFFICES ASSUME NEW i \in 1 .. Len(v), ~IsHistory(v[i])
               PROVE  /\ v[i].type \in {"done", "server_error"} => i + 1 = Len(v)
                      /\ v[i].type \in {"end", "204", "500"} => i = Len(v)
                      /\ v[i].type = "done" => /\ ClosedRun(1) /\ AfterBatch(v, i)
                                               /\ GivenBefore(v, i) = Tip1
                      /\ v[i].type # "204"
    BY DEF EndsOnce, IsHistory
  <2>1. CASE i = Len(w) + 1
    <3>1. v[i].type = how /\ i + 1 = Len(v) /\ GivenBefore(v, i) = GivenAfter(w)
      <4>1. Len(w) + 1 \in 1 .. Len(w) + 1 /\ i + 1 = Len(w) + 2
        BY <2>1, <1>2
      <4> QED BY <2>1, <4>1, <1>3, <1>4, <1>5 DEF GivenAfter
    <3>2. AfterBatch(v, i)
      BY <2>1, <1>2, <1>4 DEF AfterBatch, AllHistory, IsHistory
    <3> QED BY <3>1, <3>2
  <2>2. CASE i = Len(w) + 2
    BY <2>2, <1>2, <1>3, <1>4
  <2> QED BY <2>1, <2>2, <1>2, <1>3, <1>4
<1> QED BY <1>3, <1>6, <1>7 DEF WireFits

(* An answer of one frame. *)
LEMMA OnlyFrame ==
  ASSUME NEW type \in {"204", "500"}, type = "204" => ClosedRun(1) /\ lastId = Tip1
  PROVE  WireFits(<<Frame(type)>>)
BY DEF WireFits, BatchesFollow, EndsOnce, IsHistory, Frame, FrameType

LEMMA EmptyWire == WireFits(<<>>) /\ AllHistory(<<>>)
BY DEF WireFits, BatchesFollow, EndsOnce, AllHistory

(* Nothing but the chain changes, and what is closed stays as it is. *)
LEMMA ChainGrows ==
  ASSUME StreamIInv, HistoryGrows
  PROVE  /\ chain' \in Seq(ChainedRun)
         /\ ChainFits' /\ Tip1' \in Tip1 .. MaxEvents
         /\ \A r \in 1 .. Len(chain) :
              ClosedRun(r) => r \in 1 .. Len(chain') /\ chain'[r] = chain[r]
<1> DEFINE tip == Len(chain)
<1>0. /\ chain \in Seq(ChainedRun) /\ tip \in 1 .. MaxChain /\ MaxEvents \in Nat
      /\ \A r \in 1 .. tip : r < tip => ClosedRun(r)
  BY BoundsAssumption DEF StreamIInv, StreamTypeOK, ChainFits
<1>1. /\ chain \in Seq(ChainedRun) /\ tip \in 1 .. MaxChain /\ tip \in Nat /\ MaxEvents \in Nat
      /\ chain[tip] \in ChainedRun
      /\ \A r \in 1 .. tip : r < tip => ClosedRun(r)
  <2>1. tip \in Nat /\ tip \in 1 .. tip
    BY <1>0
  <2>2. chain[tip] \in ChainedRun
    BY <1>0, <2>1, ElementOfSeq
  <2> QED BY <1>0, <2>1, <2>2
<1>2. ~ClosedRun(tip) /\ chain[tip].length + 1 \in 1 .. MaxEvents
  BY <1>1 DEF HistoryGrows, LatestInChain, ChainedRun
<1>3. CASE \E to \in ChainedRun : to.length = chain[tip].length + 1
                               /\ chain' = [chain EXCEPT ![tip] = to]
  <2>1. PICK to \in ChainedRun : to.length = chain[tip].length + 1
                              /\ chain' = [chain EXCEPT ![tip] = to]
    BY <1>3
  <2>2. /\ chain' \in Seq(ChainedRun) /\ Len(chain') = tip
        /\ \A r \in 1 .. tip : chain'[r] = IF r = tip THEN to ELSE chain[r]
    BY <1>1, <2>1, ExceptSeq
  <2>3. ChainFits'
    BY <1>1, <2>2 DEF ChainFits, ClosedRun
  <2>4. Tip1' \in Tip1 .. MaxEvents
    <3>1. Tip1' = IF tip = 1 THEN Tip1 + 1 ELSE Tip1
      BY <1>1, <2>1, <2>2 DEF Tip1
    <3> QED BY <1>2, <3>1, RunInThePath DEF Tip1
  <2> QED BY <1>1, <1>2, <2>2, <2>3, <2>4
<1>4. CASE /\ tip < MaxChain
           /\ \E to \in ChainedRun : /\ to.length = chain[tip].length + 1
                                  /\ to.status = "continued"
                                  /\ chain' = Append([chain EXCEPT ![tip] = to], FirstOfRun)
  <2>1. PICK to \in ChainedRun : /\ to.length = chain[tip].length + 1
                              /\ to.status = "continued"
                              /\ chain' = Append([chain EXCEPT ![tip] = to], FirstOfRun)
    BY <1>4
  <2> DEFINE old == [chain EXCEPT ![tip] = to]
  <2>2. /\ old \in Seq(ChainedRun) /\ Len(old) = tip
        /\ \A r \in 1 .. tip : old[r] = IF r = tip THEN to ELSE chain[r]
    BY <1>1, <2>1, ExceptSeq
  <2> HIDE DEF old
  <2>3. FirstOfRun \in ChainedRun
    BY <1>1, <1>2 DEF FirstOfRun, ChainedRun
  <2>4. /\ chain' \in Seq(ChainedRun) /\ Len(chain') = tip + 1
        /\ \A r \in 1 .. tip : chain'[r] = IF r = tip THEN to ELSE chain[r]
    BY <2>1, <2>2, <2>3, AppendProperties DEF old
  <2>5. ChainFits'
    BY <1>1, <1>4, <2>1, <2>4, BoundsAssumption DEF ChainFits, ClosedRun
  <2>6. Tip1' \in Tip1 .. MaxEvents
    <3>1. Tip1' = IF tip = 1 THEN Tip1 + 1 ELSE Tip1
      BY <1>1, <2>1, <2>4 DEF Tip1
    <3> QED BY <1>2, <3>1, RunInThePath DEF Tip1
  <2> QED BY <1>1, <1>2, <2>4, <2>5, <2>6
<1>5. chain[tip].length = chain[tip].length /\ [chain[tip] EXCEPT !.length = @ + 1] \in ChainedRun
  BY <1>1, <1>2 DEF ChainedRun
<1> QED BY <1>1, <1>2, <1>3, <1>4, <1>5 DEF HistoryGrows, LatestInChain, ChainedRun

LEMMA HistoryGrowsInvariant == ASSUME Pinned, StreamIInv, HistoryGrows PROVE StreamIInv'
<1>1. UNCHANGED <<stream, wire, source, lastId, received, ending, faults>>
  BY DEF HistoryGrows
<1>2. Tip1' \in Tip1 .. MaxEvents /\ Tip1 \in 1 .. MaxEvents /\ MaxEvents \in Nat
      /\ 1 \in 1 .. Len(chain) /\ lastId \in 0 .. Tip1
  BY ChainGrows, RunInThePath
<1>3. ClosedRun(1) => ClosedRun(1)' /\ Tip1' = Tip1
  BY <1>2, ChainGrows DEF ClosedRun, Tip1
<1>4. StreamTypeOK' /\ EachOnceInOrder'
  BY <1>1, ChainGrows DEF StreamIInv, StreamTypeOK, EachOnceInOrder
<1>5. ToldWhenComplete'
  BY <1>1, ChainGrows DEF StreamIInv, ToldWhenComplete, LatestInChain, ClosedRun
<1>6. GivenSoFar'
  BY <1>1, <1>2 DEF StreamIInv, GivenSoFar
<1>7. StreamFits' /\ SourceFits'
  BY <1>1 DEF StreamIInv, StreamFits, SourceFits, AllHistory, IsHistory, GivenBefore, GivenAfter, LastOf
<1>8. WireFits(wire) => WireFits(wire)'
  <2>1. BatchesFollow(wire) => BatchesFollow(wire)'
    <3>1. \A i : GivenBefore(wire, i)' = GivenBefore(wire, i)
      BY <1>1 DEF GivenBefore, GivenAfter, LastOf
    <3>2. 1 .. Tip1 \subseteq 1 .. Tip1'
      BY <1>2
    <3> QED BY <1>1, <3>1, <3>2 DEF BatchesFollow, IsHistory
  <2>2. EndsOnce(wire) => EndsOnce(wire)'
    BY <1>1, <1>3 DEF EndsOnce, IsHistory, GivenBefore, LastOf
  <2> QED BY <1>1, <2>1, <2>2 DEF WireFits
<1> QED BY <1>1, <1>4, <1>5, <1>6, <1>7, <1>8, ChainGrows DEF StreamIInv

(* The chain, the client and what it was given stay as they are. *)
LEMMA ClientWaits ==
  ASSUME StreamIInv, UNCHANGED <<chain, source, lastId, received, ending>>
  PROVE  /\ EachOnceInOrder' /\ ToldWhenComplete' /\ ChainFits' /\ GivenSoFar'
         /\ Tip1' = Tip1 /\ ClosedRun(1)' = ClosedRun(1)
         /\ \A w : WireFits(w) => WireFits(w)'
         /\ \A w, i : GivenBefore(w, i)' = GivenBefore(w, i)
<1>1. /\ Tip1' = Tip1 /\ ClosedRun(1)' = ClosedRun(1)
      /\ \A w, i : GivenBefore(w, i)' = GivenBefore(w, i)
  BY DEF Tip1, ClosedRun, GivenBefore, LastOf
<1>2. \A w : WireFits(w) => WireFits(w)'
  BY <1>1 DEF WireFits, BatchesFollow, EndsOnce, IsHistory
<1>3. EachOnceInOrder' /\ ToldWhenComplete'
  BY DEF StreamIInv, EachOnceInOrder, ToldWhenComplete, LatestInChain, ClosedRun
<1>4. ChainFits' /\ GivenSoFar'
  BY <1>1 DEF StreamIInv, ChainFits, GivenSoFar, ClosedRun
<1> QED BY <1>1, <1>2, <1>3, <1>4

(* The server's answer is fit when the wire and the generator are. *)
LEMMA ServerAnswers ==
  ASSUME StreamIInv, UNCHANGED <<chain, source, lastId, received, ending>>,
         faults' \in 0 .. MaxFaults, source = "open", NEW w, WireFits(w), wire' = w,
         stream' = Idle \/
           ( /\ stream' \in [at : {"page"}, run : {1}, from : 0 .. MaxEvents, filter : 0 .. MaxEvents]
             /\ AllHistory(w) /\ stream'.from <= stream'.filter
             /\ stream'.filter = GivenAfter(w) )
  PROVE  StreamIInv'
<1>1. WireFits(wire)'
  BY ClientWaits
<1>2. StreamFits'
  BY ClientWaits DEF StreamFits, Idle, AllHistory, GivenAfter, IsHistory, StreamIInv
<1>3. SourceFits'
  BY DEF SourceFits, StreamIInv
<1>4. stream' \in [at : {"idle", "describe", "page"}, run : 0 .. MaxChain,
                  from : 0 .. MaxEvents, filter : 0 .. MaxEvents]
  BY RunInThePath, BoundsAssumption DEF Idle
<1>5. StreamTypeOK'
  BY <1>4 DEF StreamIInv, StreamTypeOK, WireFits
<1> QED BY <1>1, <1>2, <1>3, <1>5, ClientWaits DEF StreamIInv

-----------------------------------------------------------------------------
LEMMA DescribeRunInvariant == ASSUME Pinned, StreamIInv, DescribeRun PROVE StreamIInv'
<1>1. /\ UNCHANGED <<chain, source, lastId, received, ending, faults>>
      /\ source = "open" /\ wire = <<>> /\ stream.filter = lastId
  BY DEF DescribeRun, StreamIInv, StreamFits
<1>2. /\ lastId \in 0 .. Tip1 /\ Tip1 \in 1 .. MaxEvents /\ MaxEvents \in Nat
      /\ faults' \in 0 .. MaxFaults /\ ResolvedRun = 1
  BY <1>1, RunInThePath DEF ResolvedRun, StreamIInv, StreamTypeOK
<1>3. CASE NothingLeft(1)
  <2>1. stream' = Idle /\ wire' = <<Frame("204")>>
    BY <1>1, <1>2, <1>3 DEF DescribeRun
  <2>2. ClosedRun(1) /\ lastId = Tip1
    BY <1>1, <1>2, <1>3 DEF NothingLeft, Tip1
  <2>3. WireFits(<<Frame("204")>>)
    BY <2>2, OnlyFrame
  <2> QED BY <1>1, <1>2, <2>1, <2>3, ServerAnswers
<1>4. CASE ~NothingLeft(1)
  <2>1. wire' = <<>> /\ stream' = [stream EXCEPT !.at = "page", !.run = 1]
    BY <1>1, <1>2, <1>4 DEF DescribeRun
  <2>2. stream \in [at : {"idle", "describe", "page"}, run : 0 .. MaxChain,
                   from : 0 .. MaxEvents, filter : 0 .. MaxEvents]
    BY DEF StreamIInv, StreamTypeOK
  <2>3. stream.from = 0
    BY DEF DescribeRun, StreamIInv, StreamFits
  <2>4. /\ stream' \in [at : {"page"}, run : {1}, from : 0 .. MaxEvents, filter : 0 .. MaxEvents]
        /\ stream'.from <= stream'.filter /\ stream'.filter = GivenAfter(<<>>)
    <3>1. /\ stream'.at = "page" /\ stream'.run = 1 /\ stream'.from = 0 /\ stream'.filter = lastId
          /\ stream' \in [at : {"page"}, run : {1}, from : 0 .. MaxEvents, filter : 0 .. MaxEvents]
      BY <1>1, <2>1, <2>2, <2>3
    <3>2. GivenAfter(<<>>) = lastId
      BY DEF GivenBefore, GivenAfter
    <3> QED BY <1>2, <3>1, <3>2
  <2> QED BY <1>1, <1>2, <2>1, <2>4, EmptyWire, ServerAnswers
<1> QED BY <1>3, <1>4

LEMMA ServeFailsInvariant ==
  ASSUME StreamIInv, DescribeRunFails \/ PageFails PROVE StreamIInv'
<1>1. /\ UNCHANGED <<chain, source, lastId, received, ending>>
      /\ source = "open" /\ AllHistory(wire) /\ stream' = Idle /\ Fault
  BY DEF DescribeRunFails, PageFails, StreamIInv, StreamFits
<1>2. faults' \in 0 .. MaxFaults
  BY <1>1, BoundsAssumption DEF Fault, StreamIInv, StreamTypeOK
<1>3. WireFits(wire')
  <2>1. CASE DescribeRunFails
    <3>1. wire' = <<Frame("500")>>
      BY <2>1 DEF DescribeRunFails, StreamIInv, StreamFits
    <3> QED BY <3>1, OnlyFrame
  <2>2. CASE PageFails
    <3>1. WireFits(wire) /\ wire' = wire \o <<Frame("server_error"), Frame("end")>>
      BY <1>1, <2>2 DEF PageFails, StreamIInv
    <3> QED BY <1>1, <3>1, AddEnd
  <2> QED BY <2>1, <2>2
<1> QED BY <1>1, <1>2, <1>3, ServerAnswers

(* What is written for a page goes on where the wire ends. *)
LEMMA PageInvariant == ASSUME StreamIInv, Page PROVE StreamIInv'
<1> DEFINE given == GivenAfter(wire)
           batch == Batch(Ids(stream.from, PageEnd))
           terminal == ClosedRun(1) /\ PageEnd = Tip1
           new == IF batch = <<>> THEN wire ELSE Append(wire, History(1, batch))
<1>1. /\ UNCHANGED <<chain, source, lastId, received, ending, faults>>
      /\ source = "open" /\ AllHistory(wire) /\ WireFits(wire)
      /\ stream.run = 1 /\ stream.from <= stream.filter /\ stream.filter = given
      /\ stream.from < Tip1
  BY DEF Page, StreamIInv, StreamFits, Tip1
<1>2. /\ stream \in [at : {"idle", "describe", "page"}, run : 0 .. MaxChain,
                    from : 0 .. MaxEvents, filter : 0 .. MaxEvents]
      /\ faults \in 0 .. MaxFaults /\ wire \in Seq(FrameType)
  BY DEF StreamIInv, StreamTypeOK
<1>3. /\ lastId \in 0 .. Tip1 /\ Tip1 \in 1 .. MaxEvents /\ MaxEvents \in Nat
      /\ 1 \in 1 .. MaxChain
  BY RunInThePath
<1>4. /\ PageEnd \in 1 .. Tip1 /\ stream.from < PageEnd /\ stream.from \in Nat
      /\ MaximumPageSize \in Nat
  BY <1>1, <1>2, <1>3, BoundsAssumption DEF PageEnd, Tip1
<1>5. given \in 0 .. Tip1
  <2>1. Len(wire) + 1 \in 1 .. Len(wire) + 1
    BY <1>2, LenProperties
  <2>2. Len(wire) + 1 > 1 => IsHistory(wire[Len(wire) + 1 - 1])
    BY <1>1, <1>2, LenProperties DEF AllHistory
  <2> QED BY <1>1, <1>3, <2>1, <2>2, GivenWithin DEF AfterBatch, GivenAfter
<1> HIDE DEF given
<1>6. batch = IF given >= PageEnd THEN <<>> ELSE Ids(given, PageEnd)
  <2>1. batch = IF given >= PageEnd THEN <<>>
                ELSE Ids(IF stream.from > given THEN stream.from ELSE given, PageEnd)
    BY <1>1, <1>4, <1>5, AboveOfPage DEF Batch
  <2> QED BY <2>1, <1>1, <1>4, <1>5
<1>7. given < PageEnd => batch # <<>> /\ batch[Len(batch)] = PageEnd
  <2> SUFFICES ASSUME given < PageEnd PROVE batch # <<>> /\ batch[Len(batch)] = PageEnd
    OBVIOUS
  <2>1. given \in Nat /\ PageEnd \in Nat /\ batch = Ids(given, PageEnd)
    BY <1>4, <1>5, <1>6
  <2> HIDE DEF batch
  <2> QED BY <2>1, LastOfIds
<1> HIDE DEF batch
<1>8. /\ WireFits(new) /\ AllHistory(new)
      /\ GivenAfter(new) = IF given < PageEnd THEN PageEnd ELSE given
  <2>1. CASE given >= PageEnd
    BY <1>1, <1>4, <1>5, <1>6, <2>1 DEF given
  <2>2. CASE given < PageEnd
    <3>1. new = Append(wire, History(1, Ids(given, PageEnd)))
      BY <1>4, <1>5, <1>6, <1>7, <2>2
    <3>2. PageEnd \in Nat /\ given \in Nat /\ given < PageEnd /\ PageEnd <= Tip1
      BY <1>4, <1>5, <2>2
    <3>3. WireFits(new) /\ AllHistory(new) /\ GivenAfter(new) = PageEnd
      <4> HIDE DEF new
      <4>1. given = GivenAfter(wire)
        BY DEF given
      <4>2. /\ WireFits(wire) /\ AllHistory(wire) /\ 1 \in 1 .. MaxChain
            /\ Tip1 \in 1 .. MaxEvents /\ MaxEvents \in Nat
        BY <1>1, <1>3
      <4>3. \A v : v = Append(wire, History(1, Ids(given, PageEnd))) =>
                  WireFits(v) /\ AllHistory(v) /\ GivenAfter(v) = PageEnd
        BY <3>2, <4>1, <4>2, AddBatch
      <4> QED BY <3>1, <4>3
    <3> QED BY <2>2, <3>3
  <2> QED BY <2>1, <2>2, <1>4, <1>5
<1>9. new = wire \o (IF batch # <<>> THEN <<History(1, batch)>> ELSE <<>>)
  BY <1>2
<1>10. new \in Seq(FrameType) /\ wire' = wire \o Frames(batch, terminal)
  BY <1>1, <1>8 DEF Page, Tip1, batch, WireFits
<1> HIDE DEF new
<1>11. CASE terminal
  <2>1. stream' = Idle
    BY <1>1, <1>11 DEF Page, Tip1
  <2>2. wire' = new \o <<Frame("done"), Frame("end")>>
    <3> DEFINE S == {x : x \in {History(1, batch), Frame("done"), Frame("end")}} \cup FrameType
               head == IF batch # <<>> THEN <<History(1, batch)>> ELSE <<>>
               tail == <<Frame("done"), Frame("end")>>
    <3>1. wire \in Seq(S) /\ head \in Seq(S) /\ tail \in Seq(S)
      <4>1. FrameType \subseteq S
        OBVIOUS
      <4>2. wire \in Seq(S)
        BY <1>2, <4>1, SeqMonotonic
      <4>3. History(1, batch) \in S /\ Frame("done") \in S /\ Frame("end") \in S
        OBVIOUS
      <4> HIDE DEF S
      <4>4. head \in Seq(S)
        BY <4>3
      <4>5. tail \in Seq(S)
        BY <4>3
      <4> QED BY <4>2, <4>4, <4>5
    <3>2. wire' = wire \o (head \o tail)
      BY <1>1, <1>10, <1>11 DEF Frames
    <3> HIDE DEF S, head, tail
    <3>3. (wire \o head) \o tail = wire \o (head \o tail)
      BY <3>1, ConcatAssociative
    <3>4. wire' = (wire \o head) \o tail
      BY <3>2, <3>3
    <3> QED BY <3>4, <1>9 DEF head, tail
  <2>3. GivenAfter(new) = Tip1 /\ ClosedRun(1)
    BY <1>4, <1>5, <1>8, <1>11
  <2>4. WireFits(wire')
    BY <1>8, <2>2, <2>3, AddEnd
  <2> QED BY <1>1, <1>2, <2>1, <2>4, ServerAnswers
<1>12. CASE ~terminal
  <2>1. wire' = new
    <3>1. wire' = wire \o ((IF batch # <<>> THEN <<History(1, batch)>> ELSE <<>>) \o <<>>)
      BY <1>1, <1>10, <1>12 DEF Frames
    <3> QED BY <3>1, <1>9
  <2>2. stream' = [stream EXCEPT !.from = PageEnd,
                                 !.filter = IF batch = <<>> THEN @ ELSE batch[Len(batch)]]
    BY <1>1, <1>12 DEF Page, Tip1, batch
  <2>3. stream.at = "page"
    BY DEF Page
  <2>4. /\ stream' \in [at : {"page"}, run : {1}, from : 0 .. MaxEvents, filter : 0 .. MaxEvents]
        /\ stream'.from = PageEnd
        /\ stream'.filter = IF given < PageEnd THEN PageEnd ELSE given
    <3>1. (IF batch = <<>> THEN stream.filter ELSE batch[Len(batch)])
             = IF given < PageEnd THEN PageEnd ELSE given
      BY <1>1, <1>4, <1>5, <1>6, <1>7
    <3>2. PageEnd \in 0 .. MaxEvents /\ given \in 0 .. MaxEvents
      BY <1>3, <1>4, <1>5
    <3> QED BY <1>1, <1>2, <2>2, <2>3, <3>1, <3>2
  <2>5. stream'.from <= stream'.filter
    BY <2>4, <1>4, <1>5
  <2> QED BY <1>1, <1>2, <1>8, <2>1, <2>4, <2>5, ServerAnswers
<1> QED BY <1>11, <1>12

LEMMA ConnectInvariant == ASSUME StreamIInv, Connect PROVE StreamIInv'
<1>1. /\ UNCHANGED <<chain, wire, lastId, received, ending, faults>>
      /\ source = "connecting" /\ source' = "open" /\ wire = <<>>
      /\ stream' = [at |-> "describe", run |-> 0, from |-> 0, filter |-> lastId]
  BY DEF Connect, StreamIInv, SourceFits, Idle
<1>2. EachOnceInOrder' /\ ToldWhenComplete' /\ ChainFits' /\ GivenSoFar'
  BY <1>1 DEF StreamIInv, EachOnceInOrder, ToldWhenComplete, LatestInChain, ClosedRun, ChainFits,
     GivenSoFar, Tip1
<1>3. StreamTypeOK'
  BY <1>1, BoundsAssumption DEF StreamIInv, StreamTypeOK
<1>4. StreamFits' /\ SourceFits'
  BY <1>1 DEF StreamIInv, StreamFits, SourceFits, AllHistory
<1>5. WireFits(wire)'
  BY <1>1 DEF WireFits, BatchesFollow, EndsOnce
<1> QED BY <1>2, <1>3, <1>4, <1>5 DEF StreamIInv

LEMMA DropInvariant == ASSUME StreamIInv, Drop PROVE StreamIInv'
<1>1. /\ UNCHANGED <<chain, lastId, received, ending>>
      /\ source = "open" /\ source' = "connecting" /\ wire' = <<>> /\ stream' = Idle /\ Fault
  BY DEF Drop
<1>2. EachOnceInOrder' /\ ToldWhenComplete' /\ ChainFits' /\ GivenSoFar'
  BY <1>1 DEF StreamIInv, EachOnceInOrder, ToldWhenComplete, LatestInChain, ClosedRun, ChainFits,
     GivenSoFar, Tip1
<1>3. faults' \in 0 .. MaxFaults
  BY <1>1, BoundsAssumption DEF Fault, StreamIInv, StreamTypeOK
<1>4. Idle \in [at : {"idle", "describe", "page"}, run : 0 .. MaxChain,
               from : 0 .. MaxEvents, filter : 0 .. MaxEvents]
  BY BoundsAssumption DEF Idle
<1>5. StreamTypeOK'
  BY <1>1, <1>3, <1>4 DEF StreamIInv, StreamTypeOK
<1>6. StreamFits' /\ SourceFits'
  BY <1>1 DEF StreamIInv, StreamFits, SourceFits, Idle
<1> QED BY <1>1, <1>2, <1>5, <1>6 DEF StreamIInv

(* What is left of the wire. *)
LEMMA RestOfWire ==
  ASSUME wire \in Seq(FrameType), wire # <<>>
  PROVE  /\ Len(wire) \in Nat \ {0} /\ Tail(wire) \in Seq(FrameType)
         /\ Len(Tail(wire)) = Len(wire) - 1
         /\ \A i \in 1 .. Len(Tail(wire)) : i + 1 \in 1 .. Len(wire) /\ Tail(wire)[i] = wire[i + 1]
BY HeadTailProperties, EmptySeq

(* The rest of the wire, once its first frame has been taken in, for a client that has
   been given all that this frame gives. *)
LEMMA FrameIsTaken ==
  ASSUME WireFits(wire), chain' = chain, Len(wire) \in Nat \ {0},
         wire' \in Seq(FrameType), Len(wire') = Len(wire) - 1,
         \A i \in 1 .. Len(wire') : i + 1 \in 1 .. Len(wire) /\ wire'[i] = wire[i + 1],
         lastId' = IF IsHistory(wire[1]) THEN LastOf(wire[1]) ELSE lastId
  PROVE  /\ WireFits(wire)'
         /\ AllHistory(wire) => /\ AllHistory(wire)'
                               /\ GivenAfter(wire)' = GivenAfter(wire)
<1>1. /\ wire \in Seq(FrameType) /\ Len(wire) \in Nat \ {0}
      /\ wire' \in Seq(FrameType) /\ Len(wire') = Len(wire) - 1
      /\ \A i \in 1 .. Len(wire') : i + 1 \in 1 .. Len(wire) /\ wire'[i] = wire[i + 1]
  BY DEF WireFits
<1>2. ASSUME NEW i \in 1 .. Len(wire') + 1, IsHistory(wire[i])
      PROVE  GivenBefore(wire, i)' = GivenBefore(wire, i + 1)
  <2>1. CASE i = 1
    BY <2>1, <1>2 DEF GivenBefore, GivenAfter, LastOf, IsHistory
  <2>2. CASE i # 1
    <3>1. i - 1 \in 1 .. Len(wire') /\ i - 1 + 1 = i /\ i + 1 # 1 /\ i + 1 - 1 = i
      BY <2>2, <1>1
    <3>2. wire'[i - 1] = wire[i]
      BY <3>1, <1>1
    <3> QED BY <2>2, <3>1, <3>2 DEF GivenBefore, GivenAfter, LastOf
  <2> QED BY <2>1, <2>2
<1>3. BatchesFollow(wire)'
  <2> SUFFICES ASSUME NEW i \in 1 .. Len(wire'), IsHistory(wire'[i])
               PROVE  /\ AfterBatch(wire, i)'
                      /\ wire'[i].run = 1
                      /\ \E to \in 1 .. Tip1 : /\ GivenBefore(wire, i)' \in 0 .. to - 1
                                               /\ wire'[i].ids = Ids(GivenBefore(wire, i)', to)
    BY DEF BatchesFollow, Tip1, IsHistory
  <2>1. /\ i + 1 \in 1 .. Len(wire) /\ wire'[i] = wire[i + 1] /\ i + 1 > 1 /\ i + 1 - 1 = i
        /\ i \in 1 .. Len(wire') + 1
    BY <1>1
  <2>2. IsHistory(wire[i + 1])
    BY <2>1
  <2>3. /\ IsHistory(wire[i]) /\ wire[i + 1].run = 1
        /\ \E to \in 1 .. Tip1 : /\ GivenBefore(wire, i + 1) \in 0 .. to - 1
                                 /\ wire[i + 1].ids = Ids(GivenBefore(wire, i + 1), to)
    <3>1. PICK n \in 1 .. Len(wire) : n = i + 1 /\ n > 1 /\ n - 1 = i
      BY <2>1
    <3>2. IsHistory(wire[n])
      BY <3>1, <2>2
    <3>3. /\ IsHistory(wire[n - 1]) /\ wire[n].run = 1
          /\ \E to \in 1 .. Tip1 : /\ GivenBefore(wire, n) \in 0 .. to - 1
                                   /\ wire[n].ids = Ids(GivenBefore(wire, n), to)
      BY <3>1, <3>2 DEF WireFits, BatchesFollow, AfterBatch
    <3> QED BY <3>1, <3>3
  <2>4. GivenBefore(wire, i)' = GivenBefore(wire, i + 1)
    BY <1>2, <2>1, <2>3
  <2>5. i > 1 => wire'[i - 1] = wire[i]
    BY <1>1
  <2> QED BY <2>1, <2>3, <2>4, <2>5 DEF AfterBatch, IsHistory
<1>4. EndsOnce(wire)'
  <2> SUFFICES ASSUME NEW i \in 1 .. Len(wire')
               PROVE  /\ wire'[i].type \in {"done", "server_error"} => i + 1 = Len(wire')
                      /\ wire'[i].type \in {"end", "204", "500"} => i = Len(wire')
                      /\ wire'[i].type = "done" => /\ ClosedRun(1)
                                                   /\ AfterBatch(wire, i)'
                                                   /\ GivenBefore(wire, i)' = Tip1
                      /\ wire'[i].type # "204"
    BY DEF EndsOnce, Tip1, IsHistory, ClosedRun
  <2>1. /\ i + 1 \in 1 .. Len(wire) /\ wire'[i] = wire[i + 1] /\ i + 1 > 1 /\ i + 1 - 1 = i
        /\ i \in 1 .. Len(wire') + 1
    BY <1>1
  <2>2. /\ wire[i + 1].type \in {"done", "server_error"} => i + 1 + 1 = Len(wire)
        /\ wire[i + 1].type \in {"end", "204", "500"} => i + 1 = Len(wire)
        /\ wire[i + 1].type = "done" => /\ ClosedRun(1) /\ IsHistory(wire[i])
                                        /\ GivenBefore(wire, i + 1) = Tip1
        /\ wire[i + 1].type = "204" => i + 1 = 1
    BY <2>1 DEF WireFits, EndsOnce, AfterBatch
  <2>3. IsHistory(wire[i]) => GivenBefore(wire, i)' = GivenBefore(wire, i + 1)
    BY <1>2, <2>1
  <2>4. i > 1 => wire'[i - 1] = wire[i]
    BY <1>1
  <2>5. wire'[i].type # "204"
    BY <2>1, <2>2
  <2>6. /\ wire'[i].type \in {"done", "server_error"} => i + 1 = Len(wire')
        /\ wire'[i].type \in {"end", "204", "500"} => i = Len(wire')
    <3>1. i + 1 + 1 = Len(wire) => i + 1 = Len(wire')
      BY <1>1
    <3>2. i + 1 = Len(wire) => i = Len(wire')
      BY <1>1
    <3> QED BY <2>1, <2>2, <3>1, <3>2
  <2>7. wire'[i].type = "done" => /\ ClosedRun(1)
                                 /\ AfterBatch(wire, i)'
                                 /\ GivenBefore(wire, i)' = Tip1
    BY <2>1, <2>2, <2>3, <2>4 DEF AfterBatch, IsHistory
  <2> QED BY <2>5, <2>6, <2>7
<1>5. ASSUME AllHistory(wire)
      PROVE  /\ AllHistory(wire)'
             /\ GivenAfter(wire)' = GivenAfter(wire)
  <2>1. PICK n \in Nat : n = Len(wire)
    BY <1>1
  <2>2. n \in 1 .. Len(wire') + 1 /\ Len(wire') + 1 = n /\ IsHistory(wire[n])
    BY <1>1, <1>5, <2>1 DEF AllHistory
  <2>3. GivenBefore(wire, n)' = GivenBefore(wire, n + 1)
    BY <1>2, <2>2
  <2>4. GivenAfter(wire)' = GivenBefore(wire, n)'
    BY <2>2 DEF GivenBefore, GivenAfter
  <2>5. AllHistory(wire)'
    BY <1>1, <1>5 DEF AllHistory, IsHistory
  <2> QED BY <2>1, <2>3, <2>4, <2>5 DEF GivenAfter
<1> QED BY <1>1, <1>3, <1>4, <1>5 DEF WireFits

(* The client takes in a batch, which goes on where it is. *)
LEMMA BatchIsGiven ==
  ASSUME Pinned, StreamIInv, Receive, IsHistory(wire[1])
  PROVE  StreamIInv'
<1>1. /\ wire # <<>> /\ WireFits(wire) /\ source = "open" /\ wire' = Tail(wire)
      /\ UNCHANGED <<chain, stream, faults, source, ending>>
      /\ received' = [received EXCEPT ![wire[1].run] = @ \o wire[1].ids]
      /\ lastId' = LastOf(wire[1])
  <2>1. wire # <<>> /\ Head(wire) = wire[1] /\ Head(wire).type = "history"
    BY DEF Receive, IsHistory
  <2>2. WireFits(wire) /\ source = "open" /\ wire' = Tail(wire) /\ UNCHANGED <<chain, stream, faults>>
    BY DEF Receive, StreamIInv
  <2>3. /\ received' = [received EXCEPT ![Head(wire).run] = @ \o Head(wire).ids]
        /\ lastId' = Head(wire).ids[Len(Head(wire).ids)] /\ UNCHANGED <<source, ending>>
    BY <2>1 DEF Receive
  <2> QED BY <2>1, <2>2, <2>3 DEF LastOf
<1>2. /\ wire \in Seq(FrameType) /\ Len(wire) \in Nat \ {0} /\ 1 \in 1 .. Len(wire)
  BY <1>1, EmptySeq DEF WireFits
<1>3. PICK to \in 1 .. Tip1 : lastId \in 0 .. to - 1 /\ wire[1].ids = Ids(lastId, to)
  BY <1>1, <1>2 DEF WireFits, BatchesFollow, GivenBefore
<1>4. wire[1].run = 1
  BY <1>1, <1>2 DEF WireFits, BatchesFollow
<1>5. /\ Tip1 \in 1 .. MaxEvents /\ MaxEvents \in Nat /\ 1 \in 1 .. MaxChain /\ lastId \in 0 .. Tip1
      /\ received \in [1 .. MaxChain -> Seq(1 .. MaxEvents)]
  BY RunInThePath DEF StreamIInv, StreamTypeOK
<1>6. lastId' = to
  <2>1. lastId \in Nat /\ to \in Nat /\ lastId < to
    BY <1>3
  <2> QED BY <1>1, <1>3, <2>1, LastOfIds DEF LastOf
<1>7. received[1] = Ids(0, lastId)
  BY <1>5 DEF StreamIInv, EachOnceInOrder, GivenSoFar
<1>8. received' = [received EXCEPT ![1] = Ids(0, to)]
  <2>1. Ids(0, lastId) \o Ids(lastId, to) = Ids(0, to)
    <3>1. lastId \in Nat /\ to \in Nat /\ 0 <= lastId /\ lastId <= to
      BY <1>3
    <3> QED BY <3>1, IdsConcat
  <2> QED BY <1>1, <1>3, <1>4, <1>5, <1>7, <2>1
<1>9. Len(Ids(0, to)) = to /\ Ids(0, to) \in Seq(1 .. MaxEvents) /\ to \in 0 .. Tip1
  BY <1>3, <1>5 DEF Ids
<1>10. StreamTypeOK'
  <2>1. received' \in [1 .. MaxChain -> Seq(1 .. MaxEvents)]
    BY <1>5, <1>8, <1>9
  <2>2. wire' \in Seq(FrameType) /\ lastId' \in 0 .. MaxEvents
    BY <1>1, <1>2, <1>5, <1>6, <1>9, HeadTailProperties
  <2> QED BY <1>1, <2>1, <2>2 DEF StreamIInv, StreamTypeOK
<1>11. EachOnceInOrder' /\ GivenSoFar' /\ ChainFits'
  <2>1. EachOnceInOrder'
    BY <1>5, <1>8, <1>9 DEF StreamIInv, EachOnceInOrder
  <2>2. GivenSoFar'
    <3>1. received'[1] = Ids(0, to) /\ \A r \in 1 .. MaxChain : r # 1 => received'[r] = received[r]
      BY <1>5, <1>8
    <3>2. Tip1' = Tip1
      BY <1>1 DEF Tip1
    <3> QED BY <1>6, <1>9, <3>1, <3>2 DEF StreamIInv, GivenSoFar
  <2>3. ChainFits'
    BY <1>1 DEF StreamIInv, ChainFits, ClosedRun
  <2> QED BY <2>1, <2>2, <2>3
<1>12. ToldWhenComplete' /\ SourceFits'
  BY <1>1 DEF StreamIInv, SourceFits, ToldWhenComplete
<1>13. /\ WireFits(wire)'
       /\ AllHistory(wire) => /\ AllHistory(wire)'
                             /\ GivenAfter(wire)' = GivenAfter(wire)
  BY <1>1, <1>2, RestOfWire, FrameIsTaken
<1>14. StreamFits'
  BY <1>1, <1>13 DEF StreamIInv, StreamFits
<1> QED BY <1>10, <1>11, <1>12, <1>13, <1>14 DEF StreamIInv

(* Any other frame ends the response, or follows one that does. *)
LEMMA EndIsGiven ==
  ASSUME Pinned, StreamIInv, Receive, ~IsHistory(wire[1])
  PROVE  StreamIInv'
<1>1. /\ wire # <<>> /\ WireFits(wire) /\ source = "open" /\ wire' = Tail(wire)
      /\ UNCHANGED <<chain, stream, faults, received, lastId>>
  <2>1. wire # <<>> /\ Head(wire) = wire[1] /\ Head(wire).type # "history"
    <3>1. wire # <<>>
      BY DEF Receive
    <3>2. Head(wire) = wire[1]
      OBVIOUS
    <3> QED BY <3>1, <3>2 DEF IsHistory
  <2>2. /\ WireFits(wire) /\ source = "open" /\ wire' = Tail(wire)
        /\ UNCHANGED <<chain, stream, faults>>
    BY DEF Receive, StreamIInv
  <2>3. UNCHANGED <<received, lastId>>
    BY <2>1 DEF Receive
  <2> QED BY <2>1, <2>2, <2>3
<1>2. /\ wire \in Seq(FrameType) /\ Len(wire) \in Nat \ {0} /\ 1 \in 1 .. Len(wire)
  BY <1>1, EmptySeq DEF WireFits
<1>3. stream.at = "idle"
  BY <1>2 DEF StreamIInv, StreamFits, AllHistory, StreamTypeOK
<1>4. /\ \/ source' = source /\ ending' = ending
         \/ source' = "closed" /\ ending' = "error"
         \/ source' = "closed" /\ ending' \in {"done", "gone"} /\ ClosedRun(1) /\ lastId = Tip1
         \/ source' = "connecting" /\ ending' = ending /\ Len(wire) = 1
  <2>1. /\ wire[1].type = "end" => Len(wire) = 1
        /\ wire[1].type = "done" => ClosedRun(1) /\ lastId = Tip1
        /\ wire[1].type = "204" => ClosedRun(1) /\ lastId = Tip1
    BY <1>1, <1>2 DEF WireFits, EndsOnce, GivenBefore
  <2>2. Head(wire) = wire[1] /\ Head(wire).type # "history"
    BY DEF Receive, IsHistory
  <2> QED BY <2>1, <2>2 DEF Receive, Finish
<1>5. WireFits(wire)' /\ (Len(wire) = 1 => wire' = <<>>)
  <2>1. WireFits(wire)'
    BY <1>1, <1>2, RestOfWire, FrameIsTaken
  <2> QED BY <1>1, <1>2, <2>1
<1>6. EachOnceInOrder' /\ ChainFits' /\ GivenSoFar'
  BY <1>1 DEF StreamIInv, EachOnceInOrder, ChainFits, GivenSoFar, ClosedRun, Tip1
<1>7. StreamTypeOK'
  BY <1>1, <1>4, <1>5 DEF StreamIInv, StreamTypeOK, WireFits
<1>8. StreamFits' /\ SourceFits'
  BY <1>1, <1>3, <1>4, <1>5 DEF StreamIInv, StreamFits, SourceFits
<1>9. ToldWhenComplete'
  <2>1. Len(chain) \in 1 .. MaxChain /\ 1 \in 1 .. Len(chain)
    BY BoundsAssumption DEF StreamIInv, ChainFits
  <2>2. lastId = Tip1 => Len(received[1]) = chain[1].length
    BY DEF StreamIInv, GivenSoFar, Tip1
  <2> QED BY <1>1, <1>4, <2>1, <2>2 DEF StreamIInv, SourceFits, ToldWhenComplete, LatestInChain,
             ClosedRun
<1> QED BY <1>5, <1>6, <1>7, <1>8, <1>9 DEF StreamIInv

LEMMA StreamNextInvariant ==
  ASSUME Pinned, StreamIInv, [StreamNext]_streamVars PROVE StreamIInv'
<1>1. CASE UNCHANGED streamVars
  <2>1. /\ UNCHANGED <<chain, stream, wire, source, lastId, received, ending, faults>>
    BY <1>1 DEF streamVars
  <2>2. /\ EachOnceInOrder' /\ ToldWhenComplete' /\ ChainFits' /\ GivenSoFar'
        /\ WireFits(wire) => WireFits(wire)'
    BY <2>1, ClientWaits
  <2> QED BY <2>1, <2>2 DEF StreamIInv, StreamTypeOK, StreamFits, SourceFits, AllHistory, IsHistory,
             GivenBefore, GivenAfter, LastOf
<1>2. CASE Receive
  BY <1>2, BatchIsGiven, EndIsGiven
<1> QED BY <1>1, <1>2, HistoryGrowsInvariant, DescribeRunInvariant, ServeFailsInvariant,
           PageInvariant, ConnectInvariant, DropInvariant DEF StreamNext, Serve

(* A stream of the run in the path gives the client the whole of it, each event once and in
   order, before it is told that there is no more. *)
THEOREM TheRunIsTold == ASSUME Pinned PROVE StreamSpec => []TellsTheRun
<1>1. StreamIInv /\ [StreamNext]_streamVars => StreamIInv'
  BY StreamNextInvariant
<1>2. StreamIInv => TellsTheRun
  BY DEF StreamIInv, TellsTheRun
<1> QED BY <1>1, <1>2, StreamInitInvariant, PTL DEF StreamSpec
=============================================================================
