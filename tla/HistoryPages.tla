---------------------------- MODULE HistoryPages ----------------------------
(***************************************************************************)
(* The ids of the events of a run's history, which count from 1, and what  *)
(* a reader that resumes makes of a page it may have had in part.          *)
(***************************************************************************)
EXTENDS Naturals, Sequences

(* The ids after one of them, up to another. *)
Ids(from, to) == [i \in 1 .. to - from |-> from + i]

(* The ids of a page above the high-water mark. *)
Above(ids, mark) ==
  LET above[i \in 0 .. Len(ids)] ==
        IF i = 0 THEN <<>>
        ELSE IF ids[i] > mark THEN Append(above[i - 1], ids[i])
        ELSE above[i - 1]
  IN  above[Len(ids)]
=============================================================================
