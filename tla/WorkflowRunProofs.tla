-------------------------- MODULE WorkflowRunProofs --------------------------
(***************************************************************************)
(* Proofs about WorkflowRun, for any steps, waits and programs and any     *)
(* number of attempts, feedbacks and faults: attempts keep their entries   *)
(* apart, the trace's last word is the outcome, a wait resumes with its    *)
(* own feedback, and the trace file at rest is current.                    *)
(*                                                                         *)
(* Each property speaks of a part of the state that few actions touch.  An *)
(* action reaches the trace through Emit alone, so each part has one lemma *)
(* about Emit, whatever is said, and one per action that does more.        *)
(***************************************************************************)
EXTENDS WorkflowRun, TLAPS

Words == {"start"} \cup Closings
Sayings == {<<"start">>, <<"end">>, <<"error">>, <<"start", "end">>, <<"start", "error">>}
EntriesType == entries \in [Ids -> Seq(Words)]

-----------------------------------------------------------------------------
(***************************************************************************)
(* The trace file.                                                         *)
(***************************************************************************)
(* A write that has met no other is the only one under way and shows all that was asked
   for; at rest an untorn file does. *)
FileKept ==
  /\ FileIsCurrent
  /\ \A w \in writes : w.alone => writes = {w} /\ w.shows = asked

(* A rewrite meets the writes under way, and is alone if there are none. *)
LEMMA EmitKeepsFile == ASSUME FileKept, NEW said, Emit(said) PROVE FileKept'
<1> DEFINE now == asked + Cardinality({id \in DOMAIN said :
                              \E i \in DOMAIN said[id] : Rewrites(id, said[id][i])})
<1>1. \/ UNCHANGED <<asked, writes, file>>
      \/ asked' = now /\ writes' = Rewritten(asked, now) /\ UNCHANGED file
  BY DEF Emit
<1> HIDE DEF now
<1>2. CASE UNCHANGED <<asked, writes, file>>
  BY <1>2 DEF FileKept, FileIsCurrent
<1>3. CASE asked' = now /\ writes' = Rewritten(asked, now) /\ UNCHANGED file
  <2>1. CASE now = asked
    BY <1>3, <2>1 DEF Rewritten, FileKept, FileIsCurrent
  <2>2. CASE now # asked
    <3> DEFINE new == [shows |-> now, alone |-> writes = {}]
    <3>1. writes' = {[w EXCEPT !.alone = FALSE] : w \in writes} \cup {new}
      BY <1>3, <2>2 DEF Rewritten
    <3>2. new \in writes'
      BY <3>1
    <3>3. ASSUME NEW v \in writes', v.alone PROVE writes' = {v} /\ v.shows = asked'
      <4>1. CASE \E w \in writes : v = [w EXCEPT !.alone = FALSE]
        BY <4>1, <3>3
      <4>2. CASE v = new
        <5>1. writes = {}
          BY <4>2, <3>3
        <5> QED BY <5>1, <4>2, <3>1, <1>3
      <4> QED BY <3>1, <4>1, <4>2
    <3> QED BY <3>2, <3>3 DEF FileKept, FileIsCurrent
  <2> QED BY <2>1, <2>2
<1> QED BY <1>1, <1>2, <1>3

(* A write ends: the one that was alone leaves the file current, any other torn. *)
LEMMA WriteEndsKeepsFile == ASSUME FileKept, WriteEnds PROVE FileKept'
<1>1. PICK w \in writes, ok \in BOOLEAN :
        /\ writes' = writes \ {w}
        /\ file' = [shows |-> w.shows, torn |-> ~ok \/ ~w.alone]
        /\ asked' = asked
  BY DEF WriteEnds
<1>2. ASSUME ~file'.torn PROVE file'.shows = asked'
  BY <1>1, <1>2 DEF FileKept
<1>3. ASSUME NEW v \in writes' PROVE ~v.alone
  BY <1>1, <1>3 DEF FileKept
<1> QED BY <1>2, <1>3 DEF FileKept, FileIsCurrent

(* Of the actions, only these two and a crash touch the file but by emitting. *)
LEMMA NextKeepsFile == FileKept /\ [Next]_vars => FileKept'
<1> SUFFICES ASSUME FileKept, [Next]_vars PROVE FileKept'
  OBVIOUS
<1>1. CASE \E said : Emit(said)
  BY <1>1, EmitKeepsFile
<1>2. CASE UNCHANGED Trace
  BY <1>2 DEF Trace, FileKept, FileIsCurrent
<1>3. CASE WorkerCrashes
  BY <1>3 DEF WorkerCrashes, FileKept, FileIsCurrent
<1>4. CASE WriteEnds
  BY <1>4, WriteEndsKeepsFile
<1>5. CASE RunStarts \/ RunIsRefused \/ AwaitsWebhook \/ Resumes \/ Ends
  BY <1>5, <1>1 DEF RunStarts, RunIsRefused, AwaitsWebhook, Resumes, Ends, Lost
<1>6. CASE DestinationsArrive \/ CallsStep \/ RequestsWebhook \/ FailsItsTask \/ IsTerminated
  BY <1>6, <1>2 DEF DestinationsArrive, CallsStep, RequestsWebhook, FailsItsTask,
                    IsTerminated
<1>7. CASE \E a \in Activities : AttemptStarts(a) \/ CompletesHandedOff(a) \/ AttemptTimesOut(a)
  BY <1>7, <1>1, <1>2 DEF AttemptStarts, CompletesHandedOff, AttemptTimesOut
<1>8. CASE \E id \in live : AttemptEnds(id[1], id[2])
  BY <1>8, <1>1 DEF AttemptEnds
<1>9. CASE UNCHANGED vars
  BY <1>9, <1>2 DEF vars, Trace
<1> QED BY <1>3, <1>4, <1>5, <1>6, <1>7, <1>8, <1>9 DEF Next

(* Unless two writes met, a write failed or the worker died in one, the trace file at
   rest shows the run up to the last entry that asks for a rewrite
   (processors/local/index.js). *)
THEOREM FileStaysCurrent == Spec => []FileIsCurrent
<1>1. Init => FileKept
  BY DEF Init, FileKept, FileIsCurrent, NotWritten
<1>2. FileKept => FileIsCurrent
  BY DEF FileKept
<1> QED BY <1>1, <1>2, NextKeepsFile, PTL DEF Spec

-----------------------------------------------------------------------------
(***************************************************************************)
(* The feedbacks.                                                          *)
(***************************************************************************)
(* Feedbacks are buffered until the first handler is there, and by then no wait has got
   any.  A handler whose wait still waits has heard nothing, so the wait is as old as the
   last feedback; a wait that was resumed took one feedback, its first. *)
FeedbackKept ==
  /\ feedback = [sent |-> feedback.sent, buffered |-> feedback.buffered]
  /\ feedback.sent \in Nat /\ feedback.buffered \in Nat
  /\ feedback.buffered = IF handler = <<>> THEN feedback.sent ELSE 0
  /\ wait = [w \in Waits |-> wait[w]]
  /\ \A w \in Waits :
       /\ wait[w] = [at |-> wait[w].at, since |-> wait[w].since, by |-> wait[w].by]
       /\ wait[w].since \in Nat /\ wait[w].by \in Nat
       /\ wait[w].at \in {"waiting", "resumed"} => handler # <<>>
       /\ wait[w].at = "waiting" /\ handler = <<w>> => wait[w].since = feedback.sent
       /\ wait[w].at = "resumed" =>
             wait[w].by = wait[w].since + 1 /\ wait[w].by <= feedback.sent
  /\ \A v, w \in Waits :
       wait[v].at = "resumed" /\ wait[w].at = "resumed" /\ v # w => wait[v].by # wait[w].by

(* The waits, their handler and the feedbacks are as they were. *)
WaitsStay == UNCHANGED <<wait, handler, feedback>>

(* A handler is no missing handler. *)
LEMMA OneIsSome == \A w : <<w>> # <<>>
<1>1. \A w : Len(<<w>>) = 1
  OBVIOUS
<1>2. Len(<<>>) = 0
  OBVIOUS
<1> QED BY <1>1, <1>2

(* A step that leaves the waits alone. *)
LEMMA StayKeepsFeedback == ASSUME FeedbackKept, WaitsStay PROVE FeedbackKept'
BY DEF FeedbackKept, WaitsStay

(* A wait that begins with its request has heard of nothing yet. *)
LEMMA RequestsWebhookKeeps == ASSUME FeedbackKept, RequestsWebhook PROVE FeedbackKept'
<1>1. PICK w \in Waits : wait' = [wait EXCEPT ![w].at = "requesting"]
                         /\ UNCHANGED <<handler, feedback>>
  BY DEF RequestsWebhook
<1>2. wait'[w] = [at |-> "requesting", since |-> wait[w].since, by |-> wait[w].by]
  BY <1>1 DEF FeedbackKept
<1>3. \A v \in Waits \ {w} : wait'[v] = wait[v]
  BY <1>1 DEF FeedbackKept
<1> QED BY <1>1, <1>2, <1>3 DEF FeedbackKept

(* A handler is installed: the first one finds all feedbacks buffered, and nobody was
   resumed before it; any later one finds none. *)
LEMMA AwaitsWebhookKeeps == ASSUME FeedbackKept, AwaitsWebhook PROVE FeedbackKept'
<1>1. CASE WaitsStay
  BY <1>1, StayKeepsFeedback
<1>2. CASE ~WaitsStay
  <2> DEFINE early == feedback.buffered > 0
             since == feedback.sent - feedback.buffered
  <2>1. PICK w \in Waits :
          /\ wait[w].at = "requesting"
          /\ wait' = [wait EXCEPT ![w] =
                 [at |-> IF early THEN "resumed" ELSE "waiting", since |-> since,
                  by |-> IF early THEN since + 1 ELSE 0]]
          /\ handler' = <<w>>
          /\ feedback' = [feedback EXCEPT !.buffered = 0]
    BY <1>2 DEF AwaitsWebhook, Lost, WaitsStay, Server
  <2>2. feedback' = [sent |-> feedback.sent, buffered |-> 0]
    BY <2>1 DEF FeedbackKept
  <2>3. \A v \in Waits \ {w} : wait'[v] = wait[v]
    BY <2>1 DEF FeedbackKept
  <2>4. wait' = [v \in Waits |-> wait'[v]]
    BY <2>1 DEF FeedbackKept
  <2>5. CASE early
    <3>1. handler = <<>> /\ since = 0 /\ feedback.sent > 0
      BY <2>5 DEF FeedbackKept
    <3>2. wait'[w] = [at |-> "resumed", since |-> 0, by |-> 1]
      BY <2>1, <2>5, <3>1 DEF FeedbackKept
    <3>3. \A v \in Waits \ {w} : wait'[v].at \notin {"waiting", "resumed"}
      BY <2>3, <3>1 DEF FeedbackKept
    <3> HIDE DEF early, since
    <3> QED BY <2>1, <2>2, <2>3, <2>4, <3>1, <3>2, <3>3 DEF FeedbackKept
  <2>6. CASE ~early
    <3>1. feedback.buffered = 0 /\ since = feedback.sent
      BY <2>6 DEF FeedbackKept
    <3>2. wait'[w] = [at |-> "waiting", since |-> feedback.sent, by |-> 0]
      BY <2>1, <2>6, <3>1 DEF FeedbackKept
    <3>3. \A v \in Waits \ {w} : handler' # <<v>>
      BY <2>1
    <3> HIDE DEF early, since
    <3> QED BY <2>1, <2>2, <2>3, <2>4, <3>1, <3>2, <3>3 DEF FeedbackKept
  <2> QED BY <2>5, <2>6
<1> QED BY <1>1, <1>2

(* A feedback comes: at most the wait of the handler hears it, and its number is new. *)
LEMMA ResumesKeeps == ASSUME FeedbackKept, Resumes PROVE FeedbackKept'
<1>1. CASE WaitsStay
  BY <1>1, StayKeepsFeedback
<1>2. CASE ~WaitsStay
  <2> DEFINE heard == {w \in Waits : handler = <<w>> /\ wait[w].at = "waiting"}
  <2>1. /\ wait' = [w \in Waits |-> IF w \in heard
               THEN [wait[w] EXCEPT !.at = "resumed", !.by = feedback.sent + 1] ELSE wait[w]]
        /\ feedback' = [sent |-> feedback.sent + 1,
                        buffered |-> feedback.buffered + IF handler = <<>> THEN 1 ELSE 0]
        /\ handler' = handler
    BY <1>2 DEF Resumes, Lost, WaitsStay, Server
  <2>2. ASSUME NEW w \in Waits
        PROVE  \/ w \notin heard /\ wait'[w] = wait[w]
               \/ w \in heard /\ wait'[w] = [at |-> "resumed", since |-> feedback.sent,
                                             by |-> feedback.sent + 1]
    <3>1. CASE w \in heard
      <4>1. wait'[w] = [wait[w] EXCEPT !.at = "resumed", !.by = feedback.sent + 1]
        BY <2>1, <3>1
      <4>2. wait[w].since = feedback.sent
        BY <3>1 DEF FeedbackKept
      <4>3. wait[w] = [at |-> wait[w].at, since |-> wait[w].since, by |-> wait[w].by]
        BY DEF FeedbackKept
      <4> HIDE DEF heard
      <4> QED BY <3>1, <4>1, <4>2, <4>3
    <3>2. CASE w \notin heard
      BY <2>1, <3>2
    <3> QED BY <3>1, <3>2
  <2>3. \A v, w \in heard : v = w
    OBVIOUS
  <2>4. \A w \in Waits \ heard : ~(wait[w].at = "waiting" /\ handler = <<w>>)
    OBVIOUS
  <2>5. heard # {} => handler # <<>>
    BY OneIsSome
  <2> HIDE DEF heard
  <2>6. feedback'.sent \in Nat /\ feedback'.buffered \in Nat
        /\ feedback' = [sent |-> feedback'.sent, buffered |-> feedback'.buffered]
        /\ feedback'.sent = feedback.sent + 1
        /\ feedback'.buffered = IF handler' = <<>> THEN feedback'.sent ELSE 0
    <3>1. /\ feedback.sent \in Nat
          /\ feedback.buffered = IF handler = <<>> THEN feedback.sent ELSE 0
      BY DEF FeedbackKept
    <3> DEFINE heardBy == IF handler = <<>> THEN 1 ELSE 0
    <3>2. /\ feedback' = [sent |-> feedback.sent + 1, buffered |-> feedback.buffered + heardBy]
          /\ handler' = handler
      BY <2>1
    <3>3. feedback.buffered + heardBy = IF handler = <<>> THEN feedback.sent + 1 ELSE 0
      <4>1. CASE handler = <<>>
        BY <3>1, <4>1
      <4>2. CASE handler # <<>>
        BY <3>1, <4>2
      <4> QED BY <4>1, <4>2
    <3>4. feedback.buffered + heardBy \in Nat
      BY <3>1, <3>3
    <3> HIDE DEF heardBy
    <3>5. feedback'.sent = feedback.sent + 1 /\ feedback'.buffered = feedback.buffered + heardBy
      BY <3>2
    <3>6. feedback'.sent \in Nat /\ feedback'.buffered \in Nat
      BY <3>1, <3>4, <3>5
    <3>7. feedback' = [sent |-> feedback'.sent, buffered |-> feedback'.buffered]
      BY <3>2
    <3>8. feedback'.buffered = IF handler' = <<>> THEN feedback'.sent ELSE 0
      BY <3>2, <3>3, <3>5
    <3> QED BY <3>5, <3>6, <3>7, <3>8
  <2>7. wait' = [w \in Waits |-> wait'[w]]
    BY <2>1
  <2>8. ASSUME NEW w \in Waits
        PROVE  /\ wait'[w] = [at |-> wait'[w].at, since |-> wait'[w].since, by |-> wait'[w].by]
               /\ wait'[w].since \in Nat /\ wait'[w].by \in Nat
               /\ wait'[w].at \in {"waiting", "resumed"} => handler' # <<>>
               /\ wait'[w].at = "waiting" /\ handler' = <<w>> => wait'[w].since = feedback'.sent
               /\ wait'[w].at = "resumed" =>
                     wait'[w].by = wait'[w].since + 1 /\ wait'[w].by <= feedback'.sent
    <3>1. feedback.sent \in Nat
      BY DEF FeedbackKept
    <3>2. CASE w \in heard
      <4>1. wait'[w] = [at |-> "resumed", since |-> feedback.sent, by |-> feedback.sent + 1]
        BY <2>2, <3>2
      <4>2. handler' # <<>>
        BY <2>1, <2>5, <3>2
      <4> QED BY <4>1, <4>2, <3>1, <2>6
    <3>3. CASE w \notin heard
      <4>1. wait'[w] = wait[w] /\ handler' = handler
        BY <2>1, <2>2, <3>3
      <4>2. /\ wait[w] = [at |-> wait[w].at, since |-> wait[w].since, by |-> wait[w].by]
            /\ wait[w].since \in Nat /\ wait[w].by \in Nat
            /\ wait[w].at \in {"waiting", "resumed"} => handler # <<>>
            /\ wait[w].at = "resumed" =>
                  wait[w].by = wait[w].since + 1 /\ wait[w].by <= feedback.sent
        BY DEF FeedbackKept
      <4>3. ~(wait[w].at = "waiting" /\ handler = <<w>>)
        BY <2>4, <3>3
      <4> QED BY <4>1, <4>2, <4>3, <3>1, <2>6
    <3> QED BY <3>2, <3>3
  <2>9. ASSUME NEW v \in Waits, NEW w \in Waits, v # w,
               wait'[v].at = "resumed", wait'[w].at = "resumed"
        PROVE  wait'[v].by # wait'[w].by
    <3>1. CASE v \in heard
      BY <3>1, <2>2, <2>3, <2>9 DEF FeedbackKept
    <3>2. CASE w \in heard
      BY <3>2, <2>2, <2>3, <2>9 DEF FeedbackKept
    <3>3. CASE v \notin heard /\ w \notin heard
      BY <3>3, <2>2, <2>9 DEF FeedbackKept
    <3> QED BY <3>1, <3>2, <3>3
  <2> QED BY <2>6, <2>7, <2>8, <2>9 DEF FeedbackKept
<1> QED BY <1>1, <1>2

(* All other actions leave the waits alone. *)
LEMMA NextKeepsFeedback == FeedbackKept /\ [Next]_vars => FeedbackKept'
<1> SUFFICES ASSUME FeedbackKept, [Next]_vars PROVE FeedbackKept'
  OBVIOUS
<1>1. CASE RequestsWebhook \/ AwaitsWebhook \/ Resumes
  BY <1>1, RequestsWebhookKeeps, AwaitsWebhookKeeps, ResumesKeeps
<1>2. CASE RunStarts \/ RunIsRefused \/ DestinationsArrive \/ CallsStep \/ Ends
           \/ FailsItsTask \/ IsTerminated
  BY <1>2, StayKeepsFeedback DEF RunStarts, RunIsRefused, DestinationsArrive, CallsStep,
       Ends, FailsItsTask, IsTerminated, Lost, Server, WaitsStay
<1>3. CASE \E a \in Activities : AttemptStarts(a) \/ CompletesHandedOff(a) \/ AttemptTimesOut(a)
  BY <1>3, StayKeepsFeedback DEF AttemptStarts, CompletesHandedOff, AttemptTimesOut,
       NoWorkflow, WaitsStay
<1>4. CASE \E id \in live : AttemptEnds(id[1], id[2])
  BY <1>4, StayKeepsFeedback DEF AttemptEnds, NoWorkflow, WaitsStay
<1>5. CASE WriteEnds \/ WorkerCrashes \/ UNCHANGED vars
  BY <1>5, StayKeepsFeedback DEF WriteEnds, WorkerCrashes, Server, vars, WaitsStay
<1> QED BY <1>1, <1>2, <1>3, <1>4, <1>5 DEF Next

(* However many waits a run begins and however many feedbacks it is given, a wait resumes
   with the first feedback after its handler came, and with nobody else's
   (interface/webhook.js). *)
THEOREM ResumesItsOwn == Spec => []ResumesWithItsFeedback
<1>1. Init => FeedbackKept
  BY DEF Init, FeedbackKept, NoWait
<1>2. FeedbackKept => ResumesWithItsFeedback
  BY DEF FeedbackKept, ResumesWithItsFeedback
<1> QED BY <1>1, <1>2, NextKeepsFeedback, PTL DEF Spec

-----------------------------------------------------------------------------
(***************************************************************************)
(* What is said of each id.                                                *)
(***************************************************************************)
Speaks(said) == \A id \in DOMAIN said : said[id] \in Seq(Words)

(* Whoever is not spoken of keeps his entries, the others' grow by what is said. *)
LEMMA Emitted ==
  ASSUME EntriesType, NEW said, Speaks(said), Emit(said)
  PROVE  /\ EntriesType'
         /\ \A id \in Ids : id \notin DOMAIN said => entries'[id] = entries[id]
         /\ \A id \in Ids \cap DOMAIN said :
              entries'[id] = IF traced THEN entries[id] \o said[id] ELSE entries[id]
<1>1. CASE traced
  <2>1. entries' = [id \in Ids |-> IF id \in DOMAIN said THEN entries[id] \o said[id] ELSE entries[id]]
    BY <1>1 DEF Emit
  <2>2. ASSUME NEW id \in Ids, id \in DOMAIN said PROVE entries[id] \o said[id] \in Seq(Words)
    BY <2>2 DEF EntriesType, Speaks
  <2> QED BY <1>1, <2>1, <2>2 DEF EntriesType
<1>2. CASE ~traced
  <2>1. entries' = entries
    BY <1>2 DEF Emit
  <2> QED BY <1>2, <2>1 DEF EntriesType
<1> QED BY <1>1, <1>2

(* What the actions say. *)
LEMMA Said ==
  /\ \A id, words : words \in Sayings => Speaks(Of(id, words)) /\ DOMAIN Of(id, words) = {id}
                                       /\ Of(id, words)[id] = words
  /\ \A S : Speaks([id \in S |-> <<"end">>])
  /\ \A word \in Closings : <<word>> \in Sayings
  /\ \A words \in Sayings : words \in Seq(Words) /\ Len(words) > 0
<1>1. Sayings \subseteq Seq(Words)
  BY DEF Sayings, Words, Closings
<1>2. \A words \in Sayings : Len(words) > 0
  BY DEF Sayings
<1> QED BY <1>1, <1>2 DEF Of, Speaks, Sayings, Closings

(* The ids of attempts, of the run and of the waits are three kinds. *)
LEMMA IdsApart ==
  /\ \A a \in Activities : MaxAttempts[a] \in Nat \ {0}
  /\ \A a \in Activities : \A n \in 1 .. MaxAttempts[a] : <<a, n>> \in Attempts
  /\ \A id \in Attempts : \E a \in Activities : \E n \in 1 .. MaxAttempts[a] : id = <<a, n>>
  /\ Attempts \subseteq Ids /\ Root \in Ids /\ Root \notin Attempts
  /\ \A w \in Waits : Webhook(w) \in Ids /\ Webhook(w) \notin Attempts
<1>1. \A a \in Activities : MaxAttempts[a] \in Nat \ {0}
  BY BoundsAssumption DEF Activities
<1>2. \A a \in Activities : \A n \in 1 .. MaxAttempts[a] : <<a, n>> \in Attempts
  BY DEF Attempts
<1>3. \A id \in Attempts : \E a \in Activities : \E n \in 1 .. MaxAttempts[a] : id = <<a, n>>
  BY DEF Attempts
<1>4. Root \notin Attempts
  BY <1>1, <1>3 DEF Root
<1>5. \A w \in Waits : Webhook(w) \notin Attempts
  BY <1>1, <1>3 DEF Webhook
<1> QED BY <1>1, <1>2, <1>3, <1>4, <1>5 DEF Ids

(* The outcome and the words for it. *)
LEMMA Outcomes ==
  ASSUME NEW failure \in {"none", "continue_as_new", "cancellation", "fatal", "temporal"}
  PROVE  /\ Outcome(failure)[1] =
               IF Outcome(failure)[2] \in {"completed", "continued"} THEN "end" ELSE "error"
         /\ Outcome(failure)[1] \in Closings
         /\ Outcome(failure)[1] # "none"
BY DEF Outcome, Closings

-----------------------------------------------------------------------------
(***************************************************************************)
(* The activities at the server.                                           *)
(***************************************************************************)
Ats == {"idle", "queued", "running", "handed_off", "done", "failed"}
Progress == [at : Ats, attempt : Nat]

(* An activity has an attempt once it was called, and then never more than it may have;
   what is executed is an attempt; nothing is called before the run has started, or for a
   wait that has not begun. *)
ActKept ==
  /\ act \in [Activities -> Progress]
  /\ \A a \in Activities : IF act[a].at = "idle" THEN act[a].attempt = 0
                            ELSE act[a].attempt \in 1 .. MaxAttempts[a]
  /\ live \subseteq Attempts
  /\ code = "pending" => act["destinations"].at = "idle"
  /\ \A w \in Waits : wait[w].at = "none" => act[w].at = "idle"

(* Attempt n of the activity is still to come. *)
Fresh(a, n) == n > act[a].attempt \/ (n = act[a].attempt /\ act[a].at = "queued")

(* No attempt is to come that was not before. *)
NoneRenewed ==
  \A a \in Activities : \A n \in 1 .. MaxAttempts[a] : Fresh(a, n)' => Fresh(a, n)

(* A run that has started and a wait that has begun stay so. *)
Onwards ==
  /\ code' = "pending" => code = "pending"
  /\ \A w \in Waits : wait'[w].at = "none" => wait[w].at = "none"

(* No step takes the run or a wait back to its beginning. *)
LEMMA NextOnwards == FeedbackKept /\ [Next]_vars => Onwards
<1> SUFFICES ASSUME FeedbackKept, [Next]_vars PROVE Onwards
  OBVIOUS
<1>1. CASE UNCHANGED wait
  <2>1. code' = "pending" => code = "pending"
    BY DEF Next, RunStarts, RunIsRefused, DestinationsArrive, CallsStep, RequestsWebhook,
           AwaitsWebhook, Resumes, Ends, FailsItsTask, IsTerminated, AttemptStarts,
           CompletesHandedOff, AttemptTimesOut, AttemptEnds, WriteEnds, WorkerCrashes, Lost,
           NoWorkflow, vars
  <2> QED BY <1>1, <2>1 DEF Onwards
<1>2. CASE RequestsWebhook
  BY <1>2 DEF RequestsWebhook, Onwards, FeedbackKept
<1>3. CASE AwaitsWebhook
  <2>1. code' = code
    BY <1>3 DEF AwaitsWebhook, Lost
  <2>2. CASE wait' = wait
    BY <2>1, <2>2 DEF Onwards
  <2>3. CASE wait' # wait
    <3>0. PICK w \in Waits : \E new : new.at # "none" /\ wait' = [wait EXCEPT ![w] = new]
      BY <1>3, <2>3 DEF AwaitsWebhook, Lost, Server
    <3>1. PICK new : new.at # "none" /\ wait' = [wait EXCEPT ![w] = new]
      BY <3>0
    <3>2. ASSUME NEW v \in Waits, wait'[v].at = "none" PROVE wait[v].at = "none"
      <4>1. v # w
        BY <3>1, <3>2 DEF FeedbackKept
      <4> QED BY <3>1, <3>2, <4>1 DEF FeedbackKept
    <3> QED BY <2>1, <3>2 DEF Onwards
  <2> QED BY <2>2, <2>3
<1>4. CASE Resumes
  <2>1. code' = code
    BY <1>4 DEF Resumes, Lost
  <2>2. CASE wait' = wait
    BY <2>1, <2>2 DEF Onwards
  <2>3. CASE wait' # wait
    <3>1. PICK S, n : wait' = [w \in Waits |-> IF w \in S
                        THEN [wait[w] EXCEPT !.at = "resumed", !.by = n] ELSE wait[w]]
      BY <1>4, <2>3 DEF Resumes, Lost, Server
    <3>2. ASSUME NEW v \in Waits, wait'[v].at = "none" PROVE wait[v].at = "none"
      <4>1. wait[v] = [at |-> wait[v].at, since |-> wait[v].since, by |-> wait[v].by]
        BY DEF FeedbackKept
      <4>2. [wait[v] EXCEPT !.at = "resumed", !.by = n].at = "resumed"
        BY <4>1
      <4> QED BY <3>1, <3>2, <4>2
    <3> QED BY <2>1, <3>2 DEF Onwards
  <2> QED BY <2>2, <2>3
<1>5. UNCHANGED wait \/ RequestsWebhook \/ AwaitsWebhook \/ Resumes
  BY DEF Next, RunStarts, RunIsRefused, DestinationsArrive, CallsStep,
         Ends, FailsItsTask, IsTerminated, AttemptStarts,
         CompletesHandedOff, AttemptTimesOut, AttemptEnds, WriteEnds, WorkerCrashes, Lost,
         Server, NoWorkflow, vars
<1> QED BY <1>1, <1>2, <1>3, <1>4, <1>5

(* A wait that begins has begun. *)
LEMMA RequestsSoon ==
  ASSUME FeedbackKept, NEW w \in Waits, wait' = [wait EXCEPT ![w].at = "requesting"]
  PROVE  wait'[w].at # "none"
BY DEF FeedbackKept

(* A step that leaves the activities alone, but perhaps ends some executions. *)
LEMMA ActStays ==
  ASSUME ActKept, Onwards, act' = act, live' \subseteq live
  PROVE  ActKept' /\ NoneRenewed
BY DEF ActKept, Onwards, NoneRenewed, Fresh

(* An activity goes on to `new`. *)
LEMMA ActChanges ==
  ASSUME ActKept, Onwards, NEW a \in Activities, NEW new \in Progress,
         act' = [act EXCEPT ![a] = new],
         new.at # "idle", new.attempt \in 1 .. MaxAttempts[a],
         \/ new.attempt > act[a].attempt
         \/ new.attempt = act[a].attempt /\ new.at # "queued",
         act[a].at = "idle" => code' # "pending" /\ (a \in Waits => wait'[a].at # "none"),
         live' \subseteq Attempts
  PROVE  ActKept' /\ NoneRenewed
<1>1. act'[a] = new /\ \A b \in Activities \ {a} : act'[b] = act[b]
  BY DEF ActKept
<1>2. act' \in [Activities -> Progress]
  BY DEF ActKept
<1>3. act[a].attempt \in Nat /\ new.attempt \in Nat
  BY DEF ActKept, Progress
<1>4. ASSUME NEW b \in Activities, NEW n \in 1 .. MaxAttempts[b], Fresh(b, n)'
      PROVE  Fresh(b, n)
  <2>1. CASE b = a
    BY <1>1, <1>3, <1>4, <2>1, IdsApart DEF Fresh
  <2>2. CASE b # a
    BY <1>1, <1>4, <2>2 DEF Fresh
  <2> QED BY <2>1, <2>2
<1>5. code' = "pending" => act'["destinations"].at = "idle"
  BY <1>1 DEF ActKept, Onwards, Activities
<1>6. ASSUME NEW w \in Waits, wait'[w].at = "none" PROVE act'[w].at = "idle"
  BY <1>1, <1>6 DEF ActKept, Onwards, Activities
<1>7. \A b \in Activities : IF act'[b].at = "idle" THEN act'[b].attempt = 0
                             ELSE act'[b].attempt \in 1 .. MaxAttempts[b]
  BY <1>1 DEF ActKept
<1> QED BY <1>2, <1>4, <1>5, <1>6, <1>7 DEF ActKept, NoneRenewed

(* An activity is called for the first time. *)
LEMMA ActCalled ==
  ASSUME ActKept, Onwards, NEW a \in Activities, act[a].at = "idle", live' = live,
         act' = [act EXCEPT ![a] = [at |-> "queued", attempt |-> 1]],
         code' # "pending", a \in Waits => wait'[a].at # "none"
  PROVE  ActKept' /\ NoneRenewed
<1> DEFINE new == [at |-> "queued", attempt |-> 1]
<1>1. new \in Progress /\ new.at # "idle" /\ new.attempt = 1
  BY DEF Progress, Ats
<1>2. 1 \in 1 .. MaxAttempts[a]
  BY IdsApart
<1>3. act[a].attempt = 0 /\ live' \subseteq Attempts
  BY DEF ActKept
<1>4. act' = [act EXCEPT ![a] = new]
  OBVIOUS
<1> HIDE DEF new
<1>5. new.attempt > act[a].attempt
  BY <1>1, <1>3
<1> QED BY <1>1, <1>2, <1>3, <1>4, <1>5, ActChanges

(* An attempt that was executed has a report, or is given up. *)
LEMMA ActGoesOn ==
  ASSUME ActKept, Onwards, NEW a \in Activities, act[a].at \in {"running", "handed_off"},
         NEW at \in Ats \ {"idle"}, live' \subseteq live,
         at = "queued" => act[a].attempt < MaxAttempts[a],
         act' = [act EXCEPT ![a] = [at |-> at, attempt |->
                   IF at = "queued" THEN act[a].attempt + 1 ELSE act[a].attempt]]
  PROVE  ActKept' /\ NoneRenewed
<1> DEFINE n == IF at = "queued" THEN act[a].attempt + 1 ELSE act[a].attempt
<1>1. act[a].attempt \in 1 .. MaxAttempts[a] /\ MaxAttempts[a] \in Nat
  BY IdsApart DEF ActKept
<1>2. n \in 1 .. MaxAttempts[a] /\ n \in Nat
  BY <1>1
<1>3. n > act[a].attempt \/ (n = act[a].attempt /\ at # "queued")
  BY <1>1
<1>4. act' = [act EXCEPT ![a] = [at |-> at, attempt |-> n]]
  OBVIOUS
<1>5. live' \subseteq Attempts
  BY DEF ActKept
<1> HIDE DEF n
<1>6. [at |-> at, attempt |-> n] \in Progress
  BY <1>2 DEF Progress
<1> QED BY <1>2, <1>3, <1>4, <1>5, <1>6, ActChanges

(* An attempt's report counts only while the attempt does. *)
LEMMA ActReported ==
  ASSUME ActKept, Onwards, NEW a \in Activities, NEW n \in 1 .. MaxAttempts[a],
         NEW at \in {"done", "handed_off", "failed", "queued"},
         at = "queued" => n < MaxAttempts[a],
         Reported(a, n, at), live' \subseteq live
  PROVE  ActKept' /\ NoneRenewed
<1>1. CASE act' = act
  BY <1>1, ActStays
<1>2. CASE act' # act
  <2>1. /\ act[a].at = "running" /\ act[a].attempt = n
        /\ act' = [act EXCEPT ![a] = [at |-> at, attempt |-> IF at = "queued" THEN n + 1 ELSE n]]
    BY <1>2 DEF Reported
  <2> QED BY <2>1, ActGoesOn DEF Ats
<1> QED BY <1>1, <1>2

(* What the run itself does to its activities. *)
LEMMA RunKeepsAct ==
  ASSUME FeedbackKept, ActKept, Onwards, RunStarts \/ CallsStep \/ RequestsWebhook
  PROVE  ActKept' /\ NoneRenewed
<1>1. CASE RunStarts
  <2>1. \/ act' = act
        \/ /\ act' = [act EXCEPT !["destinations"] = [at |-> "queued", attempt |-> 1]]
           /\ code' = "resolving"
    BY <1>1 DEF RunStarts, Lost, Server
  <2>2. live' = live /\ code = "pending" /\ "destinations" \in Activities \ Waits
    BY <1>1, NamesAssumption DEF RunStarts, Lost, Activities
  <2>3. act["destinations"].at = "idle"
    BY <2>2 DEF ActKept
  <2> QED BY <2>1, <2>2, <2>3, ActStays, ActCalled
<1>2. CASE CallsStep
  <2>1. PICK s \in Steps :
          /\ act[s].at = "idle" /\ live' = live /\ code' = "running"
          /\ act' = [act EXCEPT ![s] = [at |-> "queued", attempt |-> 1]]
    BY <1>2 DEF CallsStep
  <2>2. s \in Activities /\ s \notin Waits
    BY NamesAssumption DEF Activities
  <2> QED BY <2>1, <2>2, ActCalled
<1>3. CASE RequestsWebhook
  <2>1. PICK w \in Waits :
          /\ wait[w].at = "none" /\ wait' = [wait EXCEPT ![w].at = "requesting"]
          /\ act' = [act EXCEPT ![w] = [at |-> "queued", attempt |-> 1]]
          /\ live' = live /\ code' = "running"
    BY <1>3 DEF RequestsWebhook
  <2>2. w \in Activities /\ act[w].at = "idle"
    BY <2>1 DEF ActKept, Activities
  <2>3. wait'[w].at # "none"
    BY <2>1, <1>3, RequestsSoon
  <2> QED BY <2>1, <2>2, <2>3, ActCalled
<1> QED BY <1>1, <1>2, <1>3

(* What the server and the workers do to them. *)
LEMMA AttemptsKeepAct ==
  ASSUME ActKept, Onwards, NEW a \in Activities,
         AttemptStarts(a) \/ CompletesHandedOff(a) \/ AttemptTimesOut(a)
  PROVE  ActKept' /\ NoneRenewed
<1>1. CASE AttemptStarts(a)
  <2> DEFINE new == [at |-> "running", attempt |-> act[a].attempt]
  <2>1. /\ act[a].at = "queued" /\ live' = live \cup {<<a, act[a].attempt>>}
        /\ act' = [act EXCEPT ![a].at = "running"]
    BY <1>1 DEF AttemptStarts
  <2>2. act[a].attempt \in 1 .. MaxAttempts[a] /\ act[a] \in Progress
    BY <2>1 DEF ActKept
  <2>3. act' = [act EXCEPT ![a] = new]
    <3>1. [act[a] EXCEPT !.at = "running"] = new
      BY <2>2 DEF Progress
    <3> QED BY <2>1, <3>1 DEF ActKept
  <2>4. new \in Progress /\ new.at = "running" /\ new.attempt = act[a].attempt
    BY <2>2 DEF Progress, Ats
  <2>5. live' \subseteq Attempts
    BY <2>1, <2>2, IdsApart DEF ActKept
  <2> HIDE DEF new
  <2> QED BY <2>1, <2>2, <2>3, <2>4, <2>5, ActChanges
<1>2. CASE CompletesHandedOff(a)
  <2>1. PICK at \in {"done", "failed"} : act' = [act EXCEPT ![a].at = at]
    BY <1>2 DEF CompletesHandedOff
  <2>2. act[a].at = "handed_off" /\ live' = live /\ act[a] \in Progress
    BY <1>2 DEF CompletesHandedOff, ActKept
  <2>3. act' = [act EXCEPT ![a] = [at |-> at, attempt |-> act[a].attempt]]
    <3>1. [act[a] EXCEPT !.at = at] = [at |-> at, attempt |-> act[a].attempt]
      BY <2>2 DEF Progress
    <3> QED BY <2>1, <3>1 DEF ActKept
  <2> QED BY <2>2, <2>3, ActGoesOn DEF Ats
<1>3. CASE AttemptTimesOut(a)
  <2> DEFINE at == Retried(a, act[a].attempt)
  <2>1. /\ act[a].at \in {"running", "handed_off"} /\ live' = live
        /\ act' = [act EXCEPT ![a] = [at |-> at, attempt |->
              IF act[a].attempt < MaxAttempts[a] THEN act[a].attempt + 1 ELSE act[a].attempt]]
    BY <1>3 DEF AttemptTimesOut
  <2>2. at \in Ats \ {"idle"} /\ (at = "queued" <=> act[a].attempt < MaxAttempts[a])
    BY DEF Retried, Ats
  <2> HIDE DEF at
  <2> QED BY <2>1, <2>2, ActGoesOn
<1> QED BY <1>1, <1>2, <1>3

(* What the end of an attempt does to its activity. *)
LEMMA AttemptEndsKeepsAct ==
  ASSUME ActKept, Onwards, NEW a \in Activities, NEW n \in 1 .. MaxAttempts[a],
         AttemptEnds(a, n)
  PROVE  ActKept' /\ NoneRenewed
<1>1. PICK at \in {"done", "handed_off", "failed", "queued"} :
        Reported(a, n, at) /\ (at = "queued" => n < MaxAttempts[a])
  BY DEF AttemptEnds, Retried
<1>2. live' \subseteq live
  BY DEF AttemptEnds
<1> QED BY <1>1, <1>2, ActReported

(* However an activity goes on, it keeps to its attempts and never repeats one. *)
LEMMA NextKeepsAct == FeedbackKept /\ ActKept /\ [Next]_vars => ActKept' /\ NoneRenewed
<1> SUFFICES ASSUME FeedbackKept, ActKept, [Next]_vars PROVE ActKept' /\ NoneRenewed
  OBVIOUS
<1>0. Onwards
  BY NextOnwards
<1>1. CASE act' = act /\ live' \subseteq live
  BY <1>0, <1>1, ActStays
<1>2. CASE RunIsRefused \/ DestinationsArrive \/ AwaitsWebhook \/ Resumes \/ Ends
           \/ FailsItsTask \/ IsTerminated \/ WriteEnds \/ WorkerCrashes \/ UNCHANGED vars
  BY <1>1, <1>2 DEF RunIsRefused, DestinationsArrive, AwaitsWebhook, Resumes, Ends,
       FailsItsTask, IsTerminated, WriteEnds, WorkerCrashes, Lost, Server, vars
<1>3. ASSUME NEW id \in live, AttemptEnds(id[1], id[2]) PROVE ActKept' /\ NoneRenewed
  <2>1. PICK a \in Activities : \E n \in 1 .. MaxAttempts[a] : id = <<a, n>>
    BY IdsApart DEF ActKept
  <2>2. PICK n \in 1 .. MaxAttempts[a] : id = <<a, n>>
    BY <2>1
  <2> QED BY <1>0, <1>3, <2>2, AttemptEndsKeepsAct
<1> QED BY <1>0, <1>2, <1>3, RunKeepsAct, AttemptsKeepAct DEF Next

-----------------------------------------------------------------------------
(***************************************************************************)
(* The run and its trace.                                                  *)
(***************************************************************************)
(* What is kept: the words are words, and the last one tells the outcome. *)
OutcomeKept == EntriesType /\ TraceTellsOutcome

(* A word about the run of an open run may be any: there is no outcome yet. *)
LEMMA OpenSpeaks ==
  ASSUME OutcomeKept, NEW said, Speaks(said), Emit(said), status' = "running"
  PROVE  OutcomeKept'
BY Emitted DEF OutcomeKept, TraceTellsOutcome

(* Words about others change nothing about the run. *)
LEMMA OthersSpeak ==
  ASSUME OutcomeKept, NEW said, Speaks(said), Emit(said), Root \notin DOMAIN said,
         UNCHANGED <<status, traced>>
  PROVE  OutcomeKept'
<1>1. EntriesType' /\ entries'[Root] = entries[Root]
  BY Emitted, IdsApart DEF OutcomeKept
<1> QED BY <1>1 DEF OutcomeKept, TraceTellsOutcome

(* The run closes with the word for its outcome. *)
LEMMA ClosesWith ==
  ASSUME OutcomeKept, NEW words \in Sayings, Emit(Of(Root, words)), UNCHANGED traced,
         Last(words) = IF status' \in {"completed", "continued"} THEN "end" ELSE "error"
  PROVE  OutcomeKept'
<1> DEFINE said == Of(Root, words)
<1>0. Speaks(said) /\ DOMAIN said = {Root} /\ said[Root] = words
  BY Said
<1> HIDE DEF said
<1>a. Emit(said)
  BY DEF said
<1>1. EntriesType'
  BY <1>0, <1>a, Emitted DEF OutcomeKept
<1>2. CASE traced
  <2>1. entries'[Root] = entries[Root] \o words
    BY <1>0, <1>a, <1>2, Emitted, IdsApart DEF OutcomeKept
  <2>2. entries[Root] \in Seq(Words) /\ words \in Seq(Words) /\ Len(words) > 0
    <3>1. entries[Root] \in Seq(Words)
      BY IdsApart DEF OutcomeKept, EntriesType
    <3>2. words \in Seq(Words) /\ Len(words) > 0
      BY Said
    <3> QED BY <3>1, <3>2
  <2>3. Last(entries'[Root]) = Last(words)
    BY <2>1, <2>2 DEF Last
  <2> QED BY <1>1, <2>3 DEF OutcomeKept, TraceTellsOutcome
<1>3. CASE ~traced
  BY <1>1, <1>3 DEF OutcomeKept, TraceTellsOutcome
<1> QED BY <1>2, <1>3

(* The end of the function: if the task is given again, the run is still open. *)
LEMMA EndsKeepsOutcome == ASSUME OutcomeKept, Ends PROVE OutcomeKept'
<1> PICK failure \in {"none", "continue_as_new", "cancellation", "fatal", "temporal"} :
      LET new == IF Outcome(failure)[1] = "none" THEN Nothing
                 ELSE Of(Root, <<Outcome(failure)[1]>>) IN
      \/ Lost(new) /\ status = "running"
      \/ Emit(new) /\ status' = Outcome(failure)[2] /\ traced' = traced
  BY DEF Ends, Open
<1> DEFINE word == Outcome(failure)[1]
<1>1. word \in Closings /\ <<word>> \in Sayings /\ Last(<<word>>) = word
  BY Outcomes, Said DEF Last
<1>2. \/ Lost(Of(Root, <<word>>)) /\ status = "running"
      \/ Emit(Of(Root, <<word>>)) /\ status' = Outcome(failure)[2] /\ traced' = traced
  BY Outcomes
<1>3. CASE Lost(Of(Root, <<word>>)) /\ status = "running"
  BY <1>1, <1>3, Said, OpenSpeaks DEF Lost, Server
<1>4. CASE Emit(Of(Root, <<word>>)) /\ status' = Outcome(failure)[2] /\ traced' = traced
  BY <1>1, <1>4, Outcomes, ClosesWith
<1> QED BY <1>2, <1>3, <1>4

(* A run refused at once has failed, and its trace says so. *)
LEMMA RunIsRefusedKeepsOutcome == ASSUME OutcomeKept, RunIsRefused PROVE OutcomeKept'
<1>1. <<"start", "error">> \in Sayings /\ Last(<<"start", "error">>) = "error"
  BY DEF Sayings, Last
<1>2. CASE Lost(Of(Root, <<"start", "error">>)) /\ status = "running"
  BY <1>1, <1>2, Said, OpenSpeaks DEF Lost, Server
<1>3. CASE Emit(Of(Root, <<"start", "error">>)) /\ status' = "failed" /\ traced' = traced
  BY <1>1, <1>3, ClosesWith
<1> QED BY <1>2, <1>3 DEF RunIsRefused, Open

(* The other actions either speak of others or leave the run as it is. *)
LEMMA NextKeepsOutcome ==
  FeedbackKept /\ ActKept /\ OutcomeKept /\ [Next]_vars => OutcomeKept'
<1> SUFFICES ASSUME FeedbackKept, ActKept, OutcomeKept, [Next]_vars PROVE OutcomeKept'
  OBVIOUS
<1>1. CASE UNCHANGED <<status, traced, entries>>
  BY <1>1 DEF OutcomeKept, EntriesType, TraceTellsOutcome
<1>2. CASE RunStarts
  <2>1. Emit(Of(Root, <<"start">>)) /\ status' = "running"
    BY <1>2 DEF RunStarts, Lost, Server, Open
  <2> QED BY <2>1, Said, OpenSpeaks DEF Sayings
<1>3. CASE AwaitsWebhook
  <2> DEFINE words(early) == IF early THEN <<"start", "end">> ELSE <<"start">>
  <2>1. PICK w \in Waits, early \in BOOLEAN : Emit(Of(Webhook(w), words(early)))
    BY <1>3 DEF AwaitsWebhook, Lost
  <2>2. status' = "running"
    BY <1>3 DEF AwaitsWebhook, Lost, Server, Open
  <2>3. words(early) \in Sayings
    BY DEF Sayings
  <2> HIDE DEF words
  <2> QED BY <2>1, <2>2, <2>3, Said, OpenSpeaks
<1>4. CASE Resumes
  <2>1. PICK S : Emit([id \in S |-> <<"end">>]) /\ status' = "running"
    BY <1>4 DEF Resumes, Lost, Server, Open
  <2> QED BY <2>1, Said, OpenSpeaks
<1>5. ASSUME NEW a \in Activities, AttemptStarts(a) PROVE OutcomeKept'
  <2>1. PICK id : Emit(Of(id, <<"start">>)) /\ status' = "running"
    BY <1>5 DEF AttemptStarts, NoWorkflow, Open
  <2> QED BY <2>1, Said, OpenSpeaks DEF Sayings
<1>6. ASSUME NEW id \in live, AttemptEnds(id[1], id[2]) PROVE OutcomeKept'
  <2>1. id \in Attempts /\ EntryOf(id[1], id[2]) = id
    BY IdsApart DEF ActKept, EntryOf
  <2>2. PICK words \in Sayings : Emit(Of(id, words))
    <3>1. <<"end">> \in Sayings /\ <<"error">> \in Sayings
      BY DEF Sayings
    <3> QED BY <1>6, <2>1, <3>1 DEF AttemptEnds
  <2>3. UNCHANGED <<status, traced>>
    BY <1>6 DEF AttemptEnds, NoWorkflow
  <2>4. Speaks(Of(id, words)) /\ Root \notin DOMAIN Of(id, words)
    <3>1. DOMAIN Of(id, words) = {id} /\ id # Root
      BY <2>1, IdsApart, Said
    <3> QED BY <3>1, Said
  <2> QED BY <2>2, <2>3, <2>4, OthersSpeak
<1>7. CASE IsTerminated
  BY <1>7 DEF IsTerminated, Trace, OutcomeKept, EntriesType, TraceTellsOutcome
<1>8. CASE DestinationsArrive \/ CallsStep \/ RequestsWebhook \/ FailsItsTask
           \/ WriteEnds \/ WorkerCrashes \/ UNCHANGED vars
  BY <1>1, <1>8 DEF DestinationsArrive, CallsStep, RequestsWebhook, FailsItsTask, WriteEnds,
       WorkerCrashes, Server, Trace, vars
<1>9. ASSUME NEW a \in Activities, CompletesHandedOff(a) \/ AttemptTimesOut(a)
      PROVE  OutcomeKept'
  BY <1>1, <1>9 DEF CompletesHandedOff, AttemptTimesOut, NoWorkflow, Trace
<1> QED BY <1>2, <1>3, <1>4, <1>5, <1>6, <1>7, <1>8, <1>9, EndsKeepsOutcome,
          RunIsRefusedKeepsOutcome DEF Next

(* Initially nothing was called and nothing said. *)
LEMMA InitKeeps == Init => FeedbackKept /\ ActKept /\ OutcomeKept
<1> SUFFICES ASSUME Init PROVE FeedbackKept /\ ActKept /\ OutcomeKept
  OBVIOUS
<1>1. FeedbackKept
  BY DEF Init, FeedbackKept, NoWait
<1>2. ActKept
  BY DEF Init, ActKept, Progress, Ats, Activities
<1>3. OutcomeKept
  BY DEF Init, OutcomeKept, EntriesType, TraceTellsOutcome
<1> QED BY <1>1, <1>2, <1>3

(* Whichever task of the run is given twice, and whatever it says then, the last word of
   its trace is how it closed (interceptors/workflow.js). *)
THEOREM LastWordIsOutcome == Spec => []TraceTellsOutcome
<1> DEFINE IInv == FeedbackKept /\ ActKept /\ OutcomeKept
<1>1. IInv /\ [Next]_vars => IInv'
  BY NextKeepsFeedback, NextKeepsAct, NextKeepsOutcome
<1>2. IInv => TraceTellsOutcome
  BY DEF OutcomeKept
<1>3. Init => IInv
  BY InitKeeps
<1> HIDE DEF IInv
<1> QED BY <1>1, <1>2, <1>3, PTL DEF Spec

-----------------------------------------------------------------------------
(***************************************************************************)
(* The attempts in the trace.                                              *)
(***************************************************************************)
(* What was said of an attempt says how far it is: nothing while it is to come, its start
   while it is executed. *)
ApartKept ==
  /\ EntriesType /\ AttemptsApart
  /\ \A a \in Activities : \A n \in 1 .. MaxAttempts[a] :
       Fresh(a, n) => entries[<<a, n>>] = <<>> /\ <<a, n>> \notin live
  /\ \A id \in live : entries[id] = IF traced THEN <<"start">> ELSE <<>>

(* Nothing is said of the attempts. *)
LEMMA ApartStays ==
  ASSUME ApartKept, NoneRenewed, EntriesType', live \subseteq Attempts, live' \subseteq live,
         \A id \in Attempts : entries'[id] = entries[id], traced' = traced
  PROVE  ApartKept'
<1>1. AttemptsApart'
  BY DEF ApartKept, AttemptsApart
<1>2. \A a \in Activities : \A n \in 1 .. MaxAttempts[a] :
        Fresh(a, n)' => entries'[<<a, n>>] = <<>> /\ <<a, n>> \notin live'
  BY IdsApart DEF ApartKept, NoneRenewed
<1>3. \A id \in live' : entries'[id] = IF traced' THEN <<"start">> ELSE <<>>
  BY DEF ApartKept
<1> QED BY <1>1, <1>2, <1>3 DEF ApartKept

(* Something is said, but of no attempt. *)
LEMMA OthersSpoken ==
  ASSUME ApartKept, NoneRenewed, live \subseteq Attempts, live' = live, traced' = traced,
         NEW said, Speaks(said), Emit(said), DOMAIN said \cap Attempts = {}
  PROVE  ApartKept'
BY Emitted, IdsApart, ApartStays DEF ApartKept

(* Two words one after the other. *)
LEMMA Joined == ASSUME NEW v, NEW w PROVE <<v>> \o <<w>> = <<v, w>>
<1> DEFINE s == <<v>> \o <<w>>
           t == <<v, w>>
<1>1. s \in Seq({v, w}) /\ t \in Seq({v, w})
  OBVIOUS
<1>2. Len(s) = 2 /\ Len(t) = 2
  OBVIOUS
<1>3. s[1] = v /\ s[2] = w /\ t[1] = v /\ t[2] = w
  OBVIOUS
<1> HIDE DEF s, t
<1>4. \A i \in 1 .. 2 : s[i] = t[i]
  BY <1>3
<1>5. s = t
  BY <1>1, <1>2, <1>4
<1> QED BY <1>5 DEF s, t

(* Something is said of one attempt that is not to come. *)
LEMMA OneSpoken ==
  ASSUME ApartKept, NoneRenewed, NEW a \in Activities, NEW n \in 1 .. MaxAttempts[a],
         NEW words \in Sayings, Emit(Of(<<a, n>>, words)), traced' = traced,
         ~Fresh(a, n)',
         live' \subseteq live \cup {<<a, n>>},
         LET now == IF traced THEN entries[<<a, n>>] \o words ELSE entries[<<a, n>>] IN
         /\ now \in {<<>>, <<"start">>, <<"start", "end">>, <<"start", "error">>}
         /\ <<a, n>> \in live' => now = IF traced THEN <<"start">> ELSE <<>>,
         live \subseteq Attempts
  PROVE  ApartKept'
<1> DEFINE said == Of(<<a, n>>, words)
<1>1. Speaks(said) /\ DOMAIN said = {<<a, n>>} /\ said[<<a, n>>] = words
  BY Said
<1>2. <<a, n>> \in Attempts /\ <<a, n>> \in Ids
  BY IdsApart
<1>3. Emit(said)
  OBVIOUS
<1> HIDE DEF said
<1>4. /\ EntriesType'
      /\ \A id \in Attempts \ {<<a, n>>} : entries'[id] = entries[id]
      /\ entries'[<<a, n>>] = IF traced THEN entries[<<a, n>>] \o words ELSE entries[<<a, n>>]
  BY <1>1, <1>2, <1>3, Emitted, IdsApart DEF ApartKept
<1>5. AttemptsApart'
  BY <1>4 DEF ApartKept, AttemptsApart
<1>6. ASSUME NEW b \in Activities, NEW m \in 1 .. MaxAttempts[b], Fresh(b, m)'
      PROVE  entries'[<<b, m>>] = <<>> /\ <<b, m>> \notin live'
  <2>1. <<b, m>> # <<a, n>>
    BY <1>6
  <2>2. entries[<<b, m>>] = <<>> /\ <<b, m>> \notin live /\ <<b, m>> \in Attempts
    BY <1>6, IdsApart DEF NoneRenewed, ApartKept
  <2> QED BY <1>4, <2>1, <2>2
<1>7. ASSUME NEW id \in live' PROVE entries'[id] = IF traced' THEN <<"start">> ELSE <<>>
  BY <1>4, <1>7 DEF ApartKept
<1> QED BY <1>4, <1>5, <1>6, <1>7 DEF ApartKept

(* An attempt that starts was to come, and is not any more. *)
LEMMA AttemptStartsKeepsApart ==
  ASSUME ActKept, ApartKept, NoneRenewed, NEW a \in Activities, AttemptStarts(a)
  PROVE  ApartKept'
<1>0. act[a].at = "queued" /\ act[a].attempt \in 1 .. MaxAttempts[a]
  BY DEF AttemptStarts, ActKept
<1> PICK n \in 1 .. MaxAttempts[a] : n = act[a].attempt
  BY <1>0
<1>1. /\ act[a].at = "queued" /\ act' = [act EXCEPT ![a].at = "running"]
      /\ live' = live \cup {<<a, n>>} /\ Emit(Of(<<a, n>>, <<"start">>)) /\ traced' = traced
  BY DEF AttemptStarts, EntryOf, NoWorkflow
<1>2. n \in 1 .. MaxAttempts[a] /\ act[a] \in Progress /\ MaxAttempts[a] \in Nat
  BY <1>1, IdsApart DEF ActKept
<1>3. Fresh(a, n) /\ entries[<<a, n>>] = <<>>
  BY <1>1, <1>2 DEF Fresh, ApartKept
<1>4. act'[a].attempt = n /\ act'[a].at = "running"
  BY <1>1, <1>2 DEF ActKept, Progress
<1>5. ~Fresh(a, n)'
  <2>1. ~(n > n) /\ "running" # "queued"
    BY <1>2
  <2> QED BY <1>2, <1>4, <2>1 DEF Fresh
<1>6. <<"start">> \in Sayings /\ <<>> \o <<"start">> = <<"start">>
  BY DEF Sayings
<1> DEFINE now == IF traced THEN entries[<<a, n>>] \o <<"start">> ELSE entries[<<a, n>>]
<1>7. now = IF traced THEN <<"start">> ELSE <<>>
  BY <1>3, <1>6
<1>8. now \in {<<>>, <<"start">>, <<"start", "end">>, <<"start", "error">>}
  BY <1>7
<1>9. live \subseteq Attempts
  BY DEF ActKept
<1>10. live' \subseteq live \cup {<<a, n>>} /\ Emit(Of(<<a, n>>, <<"start">>)) /\ traced' = traced
  BY <1>1
<1> QED BY <1>2, <1>5, <1>6, <1>7, <1>8, <1>9, <1>10, OneSpoken

(* An attempt that ends was executed: its start was all that was said of it. *)
LEMMA AttemptEndsKeepsApart ==
  ASSUME ActKept, ApartKept, NoneRenewed,
         NEW a \in Activities, NEW n \in 1 .. MaxAttempts[a], AttemptEnds(a, n)
  PROVE  ApartKept'
<1>1. PICK word \in Closings : Emit(Of(<<a, n>>, <<word>>))
  BY DEF AttemptEnds, EntryOf, Closings
<1>2. <<a, n>> \in live /\ live' = live \ {<<a, n>>} /\ traced' = traced
  BY DEF AttemptEnds, NoWorkflow
<1>3. ~Fresh(a, n)' /\ entries[<<a, n>>] = IF traced THEN <<"start">> ELSE <<>>
  BY <1>2 DEF ApartKept, NoneRenewed
<1>4. <<word>> \in Sayings /\ word \in {"end", "error"}
  BY Said DEF Closings
<1> DEFINE now == IF traced THEN entries[<<a, n>>] \o <<word>> ELSE entries[<<a, n>>]
<1>5. now \in {<<>>, <<"start", "end">>, <<"start", "error">>}
  <2>1. <<"start">> \o <<word>> = <<"start", word>>
    BY Joined
  <2> QED BY <1>3, <1>4, <2>1
<1>6. live \subseteq Attempts /\ <<a, n>> \notin live' /\ live' \subseteq live \cup {<<a, n>>}
  BY <1>2 DEF ActKept
<1> QED BY <1>1, <1>2, <1>3, <1>4, <1>5, <1>6, OneSpoken

(* The other actions speak of the run and its waits, or of nobody. *)
LEMMA NextKeepsApart ==
  FeedbackKept /\ ActKept /\ ApartKept /\ [Next]_vars => ApartKept'
<1> SUFFICES ASSUME FeedbackKept, ActKept, ApartKept, [Next]_vars PROVE ApartKept'
  OBVIOUS
<1>0. NoneRenewed /\ live \subseteq Attempts
  BY NextKeepsAct DEF ActKept
<1>1. CASE entries' = entries /\ live' \subseteq live /\ traced' = traced
  BY <1>0, <1>1, ApartStays DEF ApartKept, EntriesType
<1>2. CASE RunStarts \/ RunIsRefused \/ Ends \/ AwaitsWebhook
  <2>1. live' = live /\ traced' = traced
    BY <1>2 DEF RunStarts, RunIsRefused, Ends, AwaitsWebhook, Lost
  <2>2. \E words \in Sayings : \E id \in {Root} \cup {Webhook(w) : w \in Waits} : Emit(Of(id, words))
    <3>1. CASE RunStarts
      BY <3>1 DEF RunStarts, Lost, Sayings
    <3>2. CASE RunIsRefused
      BY <3>2 DEF RunIsRefused, Lost, Sayings
    <3>3. CASE Ends
      <4>1. PICK failure \in {"none", "continue_as_new", "cancellation", "fatal", "temporal"} :
              LET new == IF Outcome(failure)[1] = "none" THEN Nothing
                         ELSE Of(Root, <<Outcome(failure)[1]>>) IN
              Emit(new)
        BY <3>3 DEF Ends, Lost
      <4>2. Emit(Of(Root, <<Outcome(failure)[1]>>)) /\ <<Outcome(failure)[1]>> \in Sayings
        BY <4>1, Outcomes, Said
      <4> QED BY <4>2
    <3>4. CASE AwaitsWebhook
      <4>1. PICK w \in Waits, early \in BOOLEAN :
              LET new == Of(Webhook(w), IF early THEN <<"start", "end">> ELSE <<"start">>) IN
              Emit(new)
        BY <3>4 DEF AwaitsWebhook, Lost
      <4>2. (IF early THEN <<"start", "end">> ELSE <<"start">>) \in Sayings
        BY DEF Sayings
      <4> QED BY <4>1, <4>2
    <3> QED BY <1>2, <3>1, <3>2, <3>3, <3>4
  <2>3. PICK words \in Sayings :
          \E id \in {Root} \cup {Webhook(w) : w \in Waits} : Emit(Of(id, words))
    BY <2>2
  <2>4. PICK id \in {Root} \cup {Webhook(w) : w \in Waits} : Emit(Of(id, words))
    BY <2>3
  <2>5. Speaks(Of(id, words)) /\ DOMAIN Of(id, words) = {id} /\ id \notin Attempts
    BY <2>4, Said, IdsApart
  <2> QED BY <1>0, <2>1, <2>4, <2>5, OthersSpoken
<1>3. CASE Resumes
  <2>1. PICK S \in SUBSET {Webhook(w) : w \in Waits} : Emit([id \in S |-> <<"end">>])
    BY <1>3 DEF Resumes, Lost
  <2>2. live' = live /\ traced' = traced
    BY <1>3 DEF Resumes, Lost
  <2> DEFINE said == [id \in S |-> <<"end">>]
  <2>3. Speaks(said) /\ DOMAIN said = S /\ S \cap Attempts = {} /\ Emit(said)
    BY <2>1, Said, IdsApart
  <2> HIDE DEF said
  <2> QED BY <1>0, <2>2, <2>3, OthersSpoken
<1>4. CASE DestinationsArrive \/ CallsStep \/ RequestsWebhook \/ FailsItsTask \/ IsTerminated
           \/ WriteEnds \/ WorkerCrashes \/ UNCHANGED vars
  BY <1>1, <1>4 DEF DestinationsArrive, CallsStep, RequestsWebhook, FailsItsTask, IsTerminated,
       WriteEnds, WorkerCrashes, Server, Trace, vars
<1>5. ASSUME NEW a \in Activities, CompletesHandedOff(a) \/ AttemptTimesOut(a) PROVE ApartKept'
  BY <1>1, <1>5 DEF CompletesHandedOff, AttemptTimesOut, NoWorkflow, Trace
<1>6. ASSUME NEW a \in Activities, AttemptStarts(a) PROVE ApartKept'
  BY <1>0, <1>6, AttemptStartsKeepsApart
<1>7. ASSUME NEW id \in live, AttemptEnds(id[1], id[2]) PROVE ApartKept'
  <2>1. PICK a \in Activities : \E n \in 1 .. MaxAttempts[a] : id = <<a, n>>
    BY <1>0, IdsApart
  <2>2. PICK n \in 1 .. MaxAttempts[a] : id = <<a, n>>
    BY <2>1
  <2> QED BY <1>0, <1>7, <2>2, AttemptEndsKeepsApart
<1> QED BY <1>2, <1>3, <1>4, <1>5, <1>6, <1>7 DEF Next

(* With any number of attempts, and workers still executing some that were given up, each
   attempt is started once and closed at most once in the trace
   (interceptors/activity.js). *)
THEOREM AttemptsStayApart == Spec => []AttemptsApart
<1> DEFINE IInv == FeedbackKept /\ ActKept /\ ApartKept
<1>1. IInv /\ [Next]_vars => IInv'
  BY NextKeepsFeedback, NextKeepsAct, NextKeepsApart
<1>2. IInv => AttemptsApart
  BY DEF ApartKept
<1>3. Init => IInv
  <2>1. Init => ApartKept
    BY IdsApart DEF Init, ApartKept, EntriesType, AttemptsApart
  <2> QED BY <2>1, InitKeeps
<1> HIDE DEF IInv
<1> QED BY <1>1, <1>2, <1>3, PTL DEF Spec
=============================================================================
