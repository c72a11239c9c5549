---------------------------- MODULE HistorySpans ----------------------------
(***************************************************************************)
(* How the CLI shows a run: its history is correlated into one span for    *)
(* each activity and child workflow (cli/src/services/workflow_history/    *)
(* correlator.ts, workflow_history.ts), the spans get labels               *)
(* (span_labels.ts) and are drawn as bars under a ruler (waterfall.ts).    *)
(*                                                                         *)
(* An event is its type, its time and, unless it opens a span, the position*)
(* of the event that did.  Times are milliseconds.  A name is the sequence *)
(* of its letters: an identifier, so that it has no " #" of its own.       *)
(***************************************************************************)
EXTENDS Integers, Sequences, SequencesExt, FiniteSetsExt

ActivityTerminalTypes == {"completed", "failed", "timed_out", "canceled"}

ChildTerminalTypes ==
    {"child_completed", "child_failed", "child_timed_out", "child_canceled",
     "child_terminated", "child_start_failed"}

OpenerTypes == {"scheduled", "initiated"}
StartedTypes == {"started", "child_started"}

Clamp(v, low, high) == Min({Max({v, low}), high})

(* Math.round of a / b. *)
Rounded(a, b) == (2 * a + b) \div (2 * b)

-----------------------------------------------------------------------------
(* correlator.ts *)

(* The events attached to an opener's slot: the last one of each sort counts. *)
Attached(events, opener, types) ==
    {i \in DOMAIN events : events[i].type \in types /\ events[i].ref = opener}

StatusFor(events, opener) ==
    LET terminal == Attached(events, opener, ActivityTerminalTypes \cup ChildTerminalTypes)
        started == Attached(events, opener, StartedTypes)
    IN  IF terminal # {}
        THEN IF events[Max(terminal)].type \in {"completed", "child_completed"}
             THEN "completed" ELSE "failed"
        ELSE IF started # {} THEN "running" ELSE "pending"

(* A child starts when it was initiated, an activity when an attempt did; a span that
   has not ended ends where it starts. *)
BuildSpan(events, opener, origin) ==
    LET terminal == Attached(events, opener, ActivityTerminalTypes \cup ChildTerminalTypes)
        started == Attached(events, opener, StartedTypes)
        from == IF events[opener].type = "scheduled" /\ started # {}
                THEN events[Max(started)].time ELSE events[opener].time
        to == IF terminal # {} THEN events[Max(terminal)].time ELSE from
    IN  [opener |-> opener, name |-> events[opener].name, status |-> StatusFor(events, opener),
         start |-> from - origin, end |-> to - origin]

(* Activities of the framework. *)
IsNoise(event) == IsPrefix(<<"__internal#">>, event.name)

(* Activities before children, then by their start; equal starts keep that order. *)
Openers(events) == {i \in DOMAIN events : events[i].type \in OpenerTypes /\ ~IsNoise(events[i])}

Rank(events, i) == IF events[i].type = "scheduled" THEN i ELSE Len(events) + i

Ahead(events, origin, i) ==
    LET start(j) == BuildSpan(events, j, origin).start
    IN  {j \in Openers(events) :
           start(j) < start(i) \/ (start(j) = start(i) /\ Rank(events, j) < Rank(events, i))}

Correlate(events, origin) ==
    [k \in 1 .. Cardinality(Openers(events)) |->
        BuildSpan(events,
                  CHOOSE i \in Openers(events) : Cardinality(Ahead(events, origin, i)) + 1 = k,
                  origin)]

-----------------------------------------------------------------------------
(* workflow_history.ts, span_labels.ts *)

(* To the close of the run, or to the last end seen, and never nothing. *)
TotalDuration(events, spans, origin, closeTime) ==
    IF closeTime - origin > 0 THEN closeTime - origin
    ELSE Max({1} \cup {spans[k].end : k \in DOMAIN spans})

(* The digits of a number: there are fewer than 100000 of anything. *)
Digits(n) ==
    IF n < 10 THEN 1 ELSE IF n < 100 THEN 2 ELSE IF n < 1000 THEN 3 ELSE IF n < 10000 THEN 4 ELSE 5

(* Repeats of a name are numbered in the order of the spans. *)
BuildSpanLabels(spans) ==
    [k \in DOMAIN spans |->
        LET same == {j \in DOMAIN spans : spans[j].name = spans[k].name} IN
        <<spans[k].name,
          IF Cardinality(same) > 1 THEN Cardinality({j \in same : j <= k}) ELSE 0>>]

(* Of a label with a number, " #" and the number follow the name. *)
LabelWidth(label) == Len(label[1]) + (IF label[2] = 0 THEN 0 ELSE 2 + Digits(label[2]))

-----------------------------------------------------------------------------
(* waterfall.ts *)

TickSteps ==
    <<100, 250, 500, 1000, 2000, 5000, 10000, 15000, 30000, 60000, 120000, 300000, 600000,
      900000, 1800000, 3600000, 7200000, 21600000, 43200000, 86400000>>
TargetTicks == 8

PickTickStep(total) ==
    LET enough == {i \in DOMAIN TickSteps : TickSteps[i] * TargetTicks >= total}
    IN  IF enough = {} THEN TickSteps[Len(TickSteps)] ELSE TickSteps[Min(enough)]

BuildTicks(total) ==
    LET step == PickTickStep(total) IN [i \in 1 .. total \div step + 1 |-> (i - 1) * step]

(* The length of a clock: seconds, minutes or hours, and the rest if there is one. *)
ClockLength(ms) ==
    LET seconds == Rounded(ms, 1000)
        minutes == Rounded(ms, 60000)
        parted(n) == Digits(n \div 60) + 1 + (IF n % 60 = 0 THEN 0 ELSE Digits(n % 60) + 1)
    IN  IF seconds < 60 THEN Digits(seconds) + 1
        ELSE IF seconds < 3600 THEN parted(seconds) ELSE parted(minutes)

(* formatTickLabel and formatDurationLabel, of which the layout needs the length. *)
LabelLength(ms) ==
    IF ms = 0 THEN 1 ELSE IF ms < 1000 THEN Digits(ms) + 2 ELSE ClockLength(ms)

(* Slip: the width is rounded for itself. *)
ComputeBarByWidth(span, total, track) ==
    LET from == Clamp(Rounded(span.start * track, total), 0, track - 1)
        width == Rounded((span.end - span.start) * track, total)
    IN  [from |-> from, length |-> Min({Max({width, 1}), track - from}), instant |-> width <= 0]

(* Both edges are placed by their own offset; a bar without width is a mark. *)
ComputeBar(span, total, track) ==
    LET from == Clamp(Rounded(span.start * track, total), 0, track - 1)
        to == Clamp(Rounded(span.end * track, total), from, track)
    IN  [from |-> from, length |-> Min({Max({to - from, 1}), track - from}),
         instant |-> to - from <= 0]

LabelMin == 14
LabelMax == 28

(* What one reads of a label in a gutter of this width: all of it, or as many of its
   letters and then digits as leave room for an ellipsis. *)
PadOrTruncate(label, width) ==
    LET name == label[1]
        digits == width - 1 - Len(name) - 2
    IN  IF LabelWidth(label) <= width THEN [name |-> name, number |-> label[2], cut |-> FALSE]
        ELSE [name |-> SubSeq(name, 1, Min({Len(name), width - 1})),
              number |-> IF digits <= 0 THEN 0
                         ELSE label[2] \div 10 ^ (Digits(label[2]) - digits),
              cut |-> TRUE]

(* The first label at the left, the last at the right, the others about their place. *)
TickStart(k, count, column, length, track) ==
    LET raw == CASE k = 1 -> 0
                 [] k = count /\ k # 1 -> track - length
                 [] OTHER -> column - length \div 2
    IN  Clamp(raw, 0, track - length)

(* A label that does not leave a gap to the one before it is left out. *)
Place(done, start, length) ==
    LET writtenUntil == IF done = <<>> THEN -1 ELSE Last(done).start + Last(done).length
    IN  IF start <= writtenUntil THEN done ELSE Append(done, [start |-> start, length |-> length])

BuildRulerLine(total, track) ==
    LET ticks == BuildTicks(total)
        column(k) == Min({Rounded(ticks[k] * track, total), track - 1})
        line[k \in 0 .. Len(ticks)] ==
          IF k = 0 THEN <<>>
          ELSE LET length == LabelLength(ticks[k])
               IN  Place(line[k - 1], TickStart(k, Len(ticks), column(k), length, track), length)
    IN  line[Len(ticks)]

(* fetchWorkflowHistory and renderWaterfall: the gutter fits the labels within bounds,
   the lane has what is left of the width.  Without spans nothing is drawn. *)
RenderWaterfall(events, closeTime, width) ==
    LET origin == events[1].time
        spans == Correlate(events, origin)
        total == TotalDuration(events, spans, origin, closeTime)
        labels == BuildSpanLabels(spans)
        longestLabel == Max({1} \cup {LabelWidth(labels[k]) : k \in DOMAIN spans})
        gutter == Clamp(longestLabel, LabelMin, LabelMax)
        durations == {LabelLength(spans[k].end - spans[k].start) : k \in DOMAIN spans}
        track == Max({width - gutter - Max({1} \cup durations) - 2, 10})
    IN  [spans |-> spans, labels |-> labels, total |-> total, track |-> track,
         rows |-> [k \in DOMAIN spans |-> PadOrTruncate(labels[k], gutter)],
         bars |-> [k \in DOMAIN spans |-> ComputeBar(spans[k], total, track)],
         ruler |-> IF DOMAIN spans = {} THEN <<>> ELSE BuildRulerLine(total, track)]

-----------------------------------------------------------------------------
(* What a history says of an activity or a child, read from its end. *)
LastWordOn(events, opener) ==
    LET about == {i \in DOMAIN events : events[i].ref = opener /\ events[i].type # "other"}
    IN  IF about = {} THEN "pending"
        ELSE CASE events[Max(about)].type \in StartedTypes -> "running"
               [] events[Max(about)].type \in {"completed", "child_completed"} -> "completed"
               [] OTHER -> "failed"

(* A history as Temporal writes it, drawn in a terminal: what is started and ended was
   opened before, nothing comes after an end, and what is told of one activity or child is
   told at times in this order; of different ones it need not be. *)
IsTimeline(history) ==
    LET events == history.events
        ends == ActivityTerminalTypes \cup ChildTerminalTypes
    IN  /\ Len(events) \in Nat \ {0} /\ DOMAIN events = 1 .. Len(events)
        /\ history.closeTime \in Int /\ history.width \in Int
        /\ \A i \in DOMAIN events :
             /\ events[i].time \in Int
             /\ events[i].type \in OpenerTypes \cup StartedTypes \cup ends \cup {"other"}
             /\ events[i].type \in OpenerTypes => events[i].ref = 0 /\ Len(events[i].name) \in Nat
             /\ events[i].type \in StartedTypes \cup ends =>
                  events[i].ref \in 1 .. i - 1 /\ events[events[i].ref].time <= events[i].time
        /\ \A i, j \in DOMAIN events :
             events[i].type \in StartedTypes \cup ends /\ events[j].type \in ends
             /\ events[i].ref = events[j].ref => i <= j /\ events[i].time <= events[j].time

(* The picture is true to the history: one row for every activity and child but the
   framework's, that says what became of it, in the order of their starts; two rows read
   the same only if neither's label fits the widest gutter, which may cut their numbers
   off; each bar is inside its lane, and the bar of what was over when another began does
   not run into the other's, save a mark and in the last column; the labels of the ruler
   keep apart (correlator.ts, span_labels.ts, waterfall.ts). *)
DrawsWhatHappened(history, told) ==
    LET events == history.events
        spans == told.spans
        rows == DOMAIN spans
        end(b) == b.from + b.length
    IN  /\ {spans[k].opener : k \in rows}
             = {i \in DOMAIN events : events[i].type \in OpenerTypes /\ ~IsNoise(events[i])}
        /\ \A k \in rows : spans[k].status = LastWordOn(events, spans[k].opener)
        /\ \A j, k \in rows :
             j < k => /\ spans[j].opener # spans[k].opener
                      /\ spans[j].start <= spans[k].start
                      /\ told.rows[j] = told.rows[k] =>
                           LabelWidth(told.labels[j]) > LabelMax /\ LabelWidth(told.labels[k]) > LabelMax
                      /\ spans[j].name = spans[k].name => told.labels[j][2] + 1 <= told.labels[k][2]
        /\ \A k \in rows :
             /\ spans[k].start <= spans[k].end
             /\ told.bars[k].from >= 0 /\ told.bars[k].length >= 1
             /\ end(told.bars[k]) <= told.track
        /\ \A j, k \in rows :
             /\ spans[j].end <= spans[k].start
             /\ ~told.bars[j].instant
             /\ told.bars[k].from < told.track - 1
             => end(told.bars[j]) <= told.bars[k].from
        /\ \A k \in DOMAIN told.ruler :
             /\ end([from |-> told.ruler[k].start, length |-> told.ruler[k].length]) <= told.track
             /\ k > 1 => told.ruler[k - 1].start + told.ruler[k - 1].length < told.ruler[k].start
=============================================================================
