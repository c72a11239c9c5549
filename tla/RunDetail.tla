----------------------------- MODULE RunDetail -----------------------------
(***************************************************************************)
(* The detail of the run under the cursor in the dashboard of `output dev` *)
(* (views/dev/hooks/use_run_detail.ts, panels/runs_panel.tsx): the list is *)
(* polled and sorted anew, so that another run may come under the cursor;  *)
(* each change fetches the run's result and trace, unless they are cached. *)
(* Answers come in any order; a panel that is closed leaves its fetches    *)
(* behind.                                                                 *)
(***************************************************************************)
EXTENDS Naturals, Sequences, FiniteSets, SequencesExt

CONSTANTS
    Count,          \* the runs, numbered in the order of their starts
    RankOf,         \* STATUS_ORDER of the status each run ends with
    CacheMax,       \* RUN_DETAIL_CACHE_MAX
    MaxFetches      \* bound: fetches of one panel

ASSUME RankAssumption == RankOf \in [1 .. Count -> 1 .. 6]
ASSUME CountAssumption == Count \in Nat \ {0} /\ CacheMax \in Nat \ {0} /\ MaxFetches \in Nat

VARIABLES
    ended,      \* the runs that have ended at the server
    listed,     \* the list as polled last: the runs that had ended then
    clampedIndex, \* the cursor, 0 for a panel that is closed
    shown,      \* the detail
    cache,      \* runDetailCache: the least recently used entry comes first
    fetches,    \* answers awaited, each with the number it was given
    last,       \* fetchIdRef
    asked       \* the run that the last fetch of the panel is for, 0 for none

detailVars == <<ended, listed, clampedIndex, shown, cache, fetches, last, asked>>

Runs == 1 .. Count
Nobody == [run |-> 0, result |-> "none", loading |-> FALSE]
Loading(run) == [run |-> run, result |-> "none", loading |-> TRUE]
Results == {"none", "partial", "final"}

DetailTypeOK ==
    /\ ended \subseteq Runs /\ listed \subseteq ended
    /\ clampedIndex \in 0 .. Count
    /\ shown \in [run : 0 .. Count, result : Results, loading : BOOLEAN]
    /\ cache \in Seq(Runs) /\ Len(cache) <= CacheMax /\ IsInjective(cache)
    /\ fetches \subseteq [id : 0 .. MaxFetches, run : Runs, read : Results]
    /\ last \in 0 .. MaxFetches
    /\ asked \in 0 .. Count

DetailInit ==
    /\ ended = {} /\ listed = {} /\ clampedIndex = 0 /\ shown = Nobody
    /\ cache = <<>> /\ fetches = {} /\ last = 0 /\ asked = 0

-----------------------------------------------------------------------------
(* STATUS_ORDER: running ones first, the others by the status they have ended with. *)
Rank(done, run) == IF run \in done THEN RankOf[run] ELSE 0

(* sortRuns: by rank, then the newest first. *)
ComesBefore(done, a, b) ==
    \/ Rank(done, a) < Rank(done, b)
    \/ Rank(done, a) = Rank(done, b) /\ a > b

(* The runs before one in the list. *)
Ahead(done, run) == {other \in Runs : ComesBefore(done, other, run)}

UnderCursor(done, at) == CHOOSE run \in Runs : Cardinality(Ahead(done, run)) + 1 = at

(* entries.delete. *)
Without(run) ==
    IF run \in ToSet(cache)
    THEN RemoveAt(cache, CHOOSE i \in DOMAIN cache : cache[i] = run)
    ELSE cache

(* get: a hit becomes the most recently used. *)
Touched(run) == Append(Without(run), run)

(* set: over the limit, the least recently used goes. *)
Kept(run) ==
    LET new == Touched(run) IN IF Len(new) > CacheMax THEN Tail(new) ELSE new

(* The effect for a run that has come under the cursor, or whose status has changed.
   Only details of runs that had ended are in the cache.  A hit leaves the fetch that is
   under way the last one. *)
Effect(run) ==
    IF run \in ToSet(cache)
    THEN /\ shown' = [run |-> run, result |-> "final", loading |-> FALSE]
         /\ cache' = Touched(run)
         /\ UNCHANGED <<last, fetches, asked>>
    ELSE /\ last < MaxFetches
         /\ last' = last + 1
         /\ fetches' = fetches \cup {[id |-> last', run |-> run, read |-> "none"]}
         /\ shown' = Loading(run)
         /\ asked' = run
         /\ UNCHANGED cache

RunEnds ==
    /\ \E run \in Runs \ ended : ended' = ended \cup {run}
    /\ UNCHANGED <<listed, clampedIndex, shown, cache, fetches, last, asked>>

(* An arrow key: useListSelection. *)
MovesCursor ==
    /\ clampedIndex # 0
    /\ clampedIndex' \in {clampedIndex - 1, clampedIndex + 1} \cap Runs
    /\ Effect(UnderCursor(listed, clampedIndex'))
    /\ UNCHANGED <<ended, listed>>

(* useWorkflowRunsPolling: the list is sorted anew under the same index. *)
PollsRuns ==
    /\ listed # ended
    /\ listed' = ended
    /\ LET before == UnderCursor(listed, clampedIndex)
           after == UnderCursor(ended, clampedIndex) IN
       IF clampedIndex # 0 /\ (before # after \/ after \in ended \ listed)
       THEN Effect(after)
       ELSE UNCHANGED <<shown, cache, fetches, last, asked>>
    /\ UNCHANGED <<ended, clampedIndex>>

(* The panel is opened: the list, or the steps of the run. *)
OpensPanel ==
    /\ clampedIndex = 0
    /\ clampedIndex' \in Runs
    /\ Effect(UnderCursor(listed, clampedIndex'))
    /\ UNCHANGED <<ended, listed>>

(* It is closed: only the last fetch of a closed panel is still good for the cache;
   another panel counts anew. *)
ClosesPanel ==
    /\ clampedIndex # 0
    /\ clampedIndex' = 0 /\ shown' = Nobody /\ last' = 0 /\ asked' = 0
    /\ fetches' = {f \in fetches : f.id = 0}
                    \cup {[f EXCEPT !.id = 0] : f \in {g \in fetches : g.id = last}}
    /\ UNCHANGED <<ended, listed, cache>>

(* The server reads the run: without an end it has no result, or an empty one. *)
FetchReads ==
    /\ \E f \in fetches :
         /\ f.read = "none"
         /\ fetches' = (fetches \ {f}) \cup
               {[f EXCEPT !.read = IF f.run \in ended THEN "final" ELSE "partial"]}
    /\ UNCHANGED <<ended, listed, clampedIndex, shown, cache, last, asked>>

(* Only what isTerminalStatus says of is memoized, and it says nothing of a run that has
   continued as new. *)
IsTerminal(f) == f.read = "final" /\ RankOf[f.run] # 5

(* Slip: an answer is taken without asking for its number. *)
IsAnyAnswer(f) == f.id # 0

(* An answer counts when no fetch of the panel was begun after it. *)
IsLatest(f) == f.id = last

(* The result and the trace are both there, or have failed; what an earlier fetch brings
   is dropped.  A result that failed leaves nothing to show or to keep.  A trace that
   failed is kept as it is, with no steps, if the result is final. *)
FetchAnswers ==
    /\ \E f \in fetches :
         /\ f.read # "none"
         /\ fetches' = fetches \ {f}
         /\ \E failed \in BOOLEAN :
              /\ cache' = IF (f.id = 0 \/ IsLatest(f)) /\ IsTerminal(f) /\ ~failed
                          THEN Kept(f.run) ELSE cache
              /\ shown' = IF f.id # 0 /\ IsLatest(f)
                          THEN [run |-> f.run, loading |-> FALSE,
                                result |-> IF failed THEN "none" ELSE f.read]
                          ELSE shown
    /\ UNCHANGED <<ended, listed, clampedIndex, last, asked>>

DetailNext ==
    \/ RunEnds \/ MovesCursor \/ PollsRuns \/ OpensPanel \/ ClosesPanel
    \/ FetchReads \/ FetchAnswers

DetailSpec == DetailInit /\ [][DetailNext]_detailVars

-----------------------------------------------------------------------------
(* Whatever the order of the answers, the detail is that of the run under the cursor, which
   may have changed without a key, or of the run that the last fetch is for: never of a
   third one that was under the cursor before.  The latter can be another run only once the
   one under the cursor has ended, when its detail came from the cache with that fetch under
   way, whose answer then replaces it (use_run_detail.ts:155-166).  A run that goes on is
   never shown with another's detail, a result that is shown as final is of a run that has
   ended, and so is what the cache keeps. *)
ShowsTheRunUnderTheCursor ==
    /\ clampedIndex # 0 =>
         LET run == UnderCursor(listed, clampedIndex)
         IN  shown.run = run \/ (shown.run = asked /\ run \in ended)
    /\ shown.result = "final" => shown.run \in ended
    /\ ToSet(cache) \subseteq ended
=============================================================================
