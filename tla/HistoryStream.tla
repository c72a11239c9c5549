---------------------------- MODULE HistoryStream ----------------------------
(***************************************************************************)
(* GET /workflow/:id/history/stream of the API: the history of a run as    *)
(* Server-Sent Events.  A browser's EventSource reads them, and connects   *)
(* again by itself whenever the response ends or the network drops it,     *)
(* with the id of the last batch it was given (Last-Event-ID).  What was   *)
(* on its way is then lost; the run meanwhile goes on, closes, or          *)
(* continues as a new run.                                                 *)
(*   api/src/handlers/workflow_history_stream.js                           *)
(*   api/src/clients/temporal/workflow/stream_history.js                   *)
(***************************************************************************)
EXTENDS Naturals, Sequences, HistoryPages

CONSTANTS
  Pinned,     \* is the run id in the path (/workflow/:id/runs/:rid/history/stream)?
  MaximumPageSize,   \* maximumPageSize
  MaxEvents,  \* bound on the events of a run
  MaxChain,   \* bound on the runs of the workflow id
  MaxFaults   \* bound on the connections dropped and the calls failed

ASSUME PinnedAssumption == Pinned \in BOOLEAN
ASSUME BoundsAssumption ==
  {MaximumPageSize, MaxEvents, MaxChain} \subseteq Nat \ {0} /\ MaxFaults \in Nat

VARIABLES
  chain,     \* at Temporal: per run the number of its events and its status
  stream,    \* the handler's generator, or Idle
  wire,      \* what the handler has written and the client has not read
  source,    \* the EventSource: "connecting", "open" or "closed"
  lastId,    \* its last event id, 0 for none
  received,  \* per run, the ids of the events the client was given, in order
  ending,    \* what closed it: the run's end ("done", "gone") or an error
  faults

streamVars == <<chain, stream, wire, source, lastId, received, ending, faults>>

-----------------------------------------------------------------------------
(***************************************************************************)
(* The runs of one workflow id; the last event of a closed run is the      *)
(* terminal one.                                                           *)
(***************************************************************************)
FirstOfRun == [length |-> 1, status |-> "running"]
LatestInChain == Len(chain)
ClosedRun(r) == chain[r].status # "running"

HistoryGrows ==
  /\ ~ClosedRun(LatestInChain)
  /\ chain[LatestInChain].length < MaxEvents
  /\ \/ chain' = [chain EXCEPT ![LatestInChain].length = @ + 1]
     \/ chain' = [chain EXCEPT
          ![LatestInChain] = [length |-> @.length + 1, status |-> "closed"]]
     \/ /\ LatestInChain < MaxChain
        /\ chain' = Append([chain EXCEPT
             ![LatestInChain] = [length |-> @.length + 1, status |-> "continued"]], FirstOfRun)
  /\ UNCHANGED <<stream, wire, source, lastId, received, ending, faults>>
-----------------------------------------------------------------------------
(***************************************************************************)
(* The handler and the generator it reads from.                            *)
(***************************************************************************)
Idle == [at |-> "idle", run |-> 0, from |-> 0, filter |-> 0]

History(r, ids) == [type |-> "history", run |-> r, ids |-> ids]
Frame(type) == [type |-> type]

Fault == faults < MaxFaults /\ faults' = faults + 1

\* The run the route is about: the one in the path, which is the first here, or the latest.
ResolvedRun == IF Pinned THEN 1 ELSE LatestInChain

\* Slip: a reconnect is past the end one event too early.
NothingLeftEarly(r) == ClosedRun(r) /\ stream.filter # 0 /\ stream.filter + 1 >= chain[r].length

\* Slip: every reconnect is answered with a stream.
NothingLeftNever(r) == FALSE

\* A reconnect that has the terminal event of a closed run.
NothingLeft(r) == ClosedRun(r) /\ stream.filter # 0 /\ stream.filter >= chain[r].length

\* The first next(): the description decides between 204, which stops an EventSource,
\* and 200.
DescribeRun ==
  /\ stream.at = "describe"
  /\ IF NothingLeft(ResolvedRun)
     THEN stream' = Idle /\ wire' = Append(wire, Frame("204"))
     ELSE stream' = [stream EXCEPT !.at = "page", !.run = ResolvedRun] /\ UNCHANGED wire
  /\ UNCHANGED <<chain, source, lastId, received, ending, faults>>

\* It fails before any header is sent: an ordinary error response.
DescribeRunFails ==
  /\ stream.at = "describe"
  /\ Fault
  /\ stream' = Idle
  /\ wire' = Append(wire, Frame("500"))
  /\ UNCHANGED <<chain, source, lastId, received, ending>>

\* The last event of the page that starts after stream.from.
PageEnd ==
  IF stream.from + MaximumPageSize < chain[stream.run].length
  THEN stream.from + MaximumPageSize ELSE chain[stream.run].length

\* The events of a page the client has not had yet, by the high-water mark.
Batch(ids) == Above(ids, stream.filter)

\* What is written for a page: its batch, and "done" with the terminal event.
Frames(ids, terminal) ==
  (IF ids # <<>> THEN <<History(stream.run, ids)>> ELSE <<>>)
    \o (IF terminal THEN <<Frame("done"), Frame("end")>> ELSE <<>>)

\* One turn of the generator's loop.  The call blocks when it has caught up with an open
\* run; the page with the terminal event is the last one.
Page ==
  /\ stream.at = "page"
  /\ stream.from < chain[stream.run].length
  /\ LET terminal == ClosedRun(stream.run) /\ PageEnd = chain[stream.run].length
         batch == Batch(Ids(stream.from, PageEnd))
     IN  /\ wire' = wire \o Frames(batch, terminal)
         /\ stream' =
              IF terminal THEN Idle
              ELSE [stream EXCEPT
                     !.from = PageEnd,
                     !.filter = IF batch = <<>> THEN @ ELSE batch[Len(batch)]]
  /\ UNCHANGED <<chain, source, lastId, received, ending, faults>>

\* A call fails after the headers: a server_error event, and the response ends.
PageFails ==
  /\ stream.at = "page"
  /\ Fault
  /\ stream' = Idle
  /\ wire' = wire \o <<Frame("server_error"), Frame("end")>>
  /\ UNCHANGED <<chain, source, lastId, received, ending>>
-----------------------------------------------------------------------------
(***************************************************************************)
(* The EventSource.                                                        *)
(***************************************************************************)
\* It connects, for the first time or again, with the last event id it was given.
Connect ==
  /\ source = "connecting"
  /\ source' = "open"
  /\ stream' = [Idle EXCEPT !.at = "describe", !.filter = lastId]
  /\ UNCHANGED <<chain, wire, lastId, received, ending, faults>>

Finish(how) == source' = "closed" /\ ending' = how

\* The next frame.  The client closes the source on "done" if it cares to; the end of a
\* 200 makes it connect again, any other status stops it.
Receive ==
  /\ source = "open"
  /\ wire # <<>>
  /\ LET frame == Head(wire)
     IN  /\ \/ /\ frame.type = "history"
               /\ received' = [received EXCEPT ![frame.run] = @ \o frame.ids]
               /\ lastId' = frame.ids[Len(frame.ids)]
               /\ UNCHANGED <<source, ending>>
            \/ /\ frame.type = "done"
               /\ Finish("done") \/ UNCHANGED <<source, ending>>
               /\ UNCHANGED <<lastId, received>>
            \/ /\ frame.type = "server_error"
               /\ UNCHANGED <<source, ending, lastId, received>>
            \/ /\ frame.type = "end"
               /\ source' = "connecting"
               /\ UNCHANGED <<ending, lastId, received>>
            \/ /\ frame.type = "204"
               /\ Finish("gone")
               /\ UNCHANGED <<lastId, received>>
            \/ /\ frame.type = "500"
               /\ Finish("error")
               /\ UNCHANGED <<lastId, received>>
  /\ wire' = Tail(wire)
  /\ UNCHANGED <<chain, stream, faults>>

\* The network drops the connection: what was under way is lost, and the handler, whose
\* socket is gone, can no longer be heard.
Drop ==
  /\ source = "open"
  /\ Fault
  /\ source' = "connecting"
  /\ wire' = <<>>
  /\ stream' = Idle
  /\ UNCHANGED <<chain, lastId, received, ending>>

StreamInit ==
  /\ chain = <<FirstOfRun>>
  /\ stream = Idle
  /\ wire = <<>>
  /\ source = "connecting"
  /\ lastId = 0
  /\ received = [r \in 1 .. MaxChain |-> <<>>]
  /\ ending = "none"
  /\ faults = 0

Serve == DescribeRun \/ DescribeRunFails \/ Page \/ PageFails

StreamNext == HistoryGrows \/ Serve \/ Connect \/ Receive \/ Drop

StreamSpec == StreamInit /\ [][StreamNext]_streamVars

\* The server answers, the EventSource reads and connects again; nothing makes the
\* workflow move.
StreamFairSpec ==
  StreamSpec /\ WF_streamVars(Serve) /\ WF_streamVars(Connect) /\ WF_streamVars(Receive)
-----------------------------------------------------------------------------
FrameType ==
  [type : {"history"}, run : 1 .. MaxChain, ids : Seq(1 .. MaxEvents)]
    \cup [type : {"done", "end", "server_error", "204", "500"}]

ChainedRun == [length : 1 .. MaxEvents, status : {"running", "closed", "continued"}]

\* Type invariant: the generator's cursors never pass the run's last event, and only the
\* frames of the handler are on the wire.
StreamTypeOK ==
  /\ chain \in Seq(ChainedRun)
  /\ stream \in [at : {"idle", "describe", "page"}, run : 0 .. MaxChain,
                 from : 0 .. MaxEvents, filter : 0 .. MaxEvents]
  /\ wire \in Seq(FrameType)
  /\ source \in {"connecting", "open", "closed"}
  /\ lastId \in 0 .. MaxEvents
  /\ received \in [1 .. MaxChain -> Seq(1 .. MaxEvents)]
  /\ ending \in {"none", "done", "gone", "error"}
  /\ faults \in 0 .. MaxFaults

\* However often the connection is dropped and wherever, the client is given the events
\* of the run from the first on, each once and in order.
EachOnceInOrder ==
  \A r \in 1 .. MaxChain : received[r] = Ids(0, Len(received[r]))

\* A client that is told that there is no more, by "done" or by 204, has had every event.
ToldWhenComplete ==
  ending \in {"done", "gone"} =>
    \E r \in 1 .. LatestInChain : ClosedRun(r) /\ Len(received[r]) = chain[r].length

\* The client is given the whole run, once, before it is told so.
TellsTheRun == StreamTypeOK /\ EachOnceInOrder /\ ToldWhenComplete

\* An EventSource does not go on connecting for ever to a run that is closed, not even
\* when "done" is lost or the client leaves the source open.
ComesToRest == ClosedRun(1) ~> source = "closed"

==============================================================================
