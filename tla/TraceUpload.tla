----------------------------- MODULE TraceUpload -----------------------------
(***************************************************************************)
(* The remote trace of one workflow run: the sinks and interceptors emit   *)
(* its entries, tracing/processors/s3 adds each to a sorted set in Redis,  *)
(* and the entry that ends the root workflow waits for stragglers, builds  *)
(* the tree of what Redis holds (tools/build_trace_tree.js), uploads it and*)
(* deletes the set.                                                        *)
(*                                                                         *)
(* The entries of several worker processes land in any order, some not at  *)
(* all; an attempt that timed out goes on and emits after the workflow has *)
(* ended; a sink is called again when the workflow task that called it is  *)
(* retried, so the end of the root may come more than once.  Each worker   *)
(* stamps its entries by its own clock, which may be ahead or behind.      *)
(***************************************************************************)
EXTENDS Integers, FiniteSets

CONSTANTS
  Root,      \* trace id of the root workflow: its run id
  Spans,     \* trace ids of the activity attempts and of what they trace inside
  ParentOf,  \* per span: the id its START entry names as parentId
  Inner,     \* the spans traced inside an attempt, whose END names a parentId too
  Hosts,     \* the workers
  ClockOf,   \* how far the clock of each is ahead, in entries emitted meanwhile
  Starter,   \* the worker that starts the workflow
  MaxEnds    \* bound on the deliveries of the root's END (1 + task retries)

Ids == Spans \cup {Root}

ASSUME RootAssumption == Root \notin Spans
ASSUME ParentAssumption == ParentOf \in [Spans -> Ids]
ASSUME InnerAssumption == Inner \subseteq Spans
ASSUME ClockAssumption == ClockOf \in [Hosts -> Int] /\ Starter \in Hosts
ASSUME MaxEndsAssumption == MaxEnds \in Nat \ {0}

VARIABLES
  emitted,   \* every entry emitted so far
  inflight,  \* those whose addEntry has not reached Redis
  redis,     \* the sorted set traces/<runId>
  ttl,       \* whether the key has an expiry
  job,       \* per delivery of the root's END: where its exec() is
  content,   \* per delivery: what getEntries returned
  shown,     \* every entry that some upload has put in the file
  file       \* the trace file in S3, NoTree before the first upload

traceVars == <<emitted, inflight, redis, ttl, job, content, shown, file>>

Ends == 1 .. MaxEnds
Entry == [id : Ids, action : {"start", "end"}, by : Hosts, at : Int]
NoTree == [root |-> "none", nodes |-> {}]

\* Date.now() of the worker: how many entries there were, off by its clock.
Stamp(n, h) == n + ClockOf[h]

\* How many entries had been emitted with this one.
Order(e) == e.at - ClockOf[e.by]

RootStart == [id |-> Root, action |-> "start", by |-> Starter, at |-> Stamp(1, Starter)]
IsRootEnd(e) == e.id = Root /\ e.action = "end"

TraceInit ==
  /\ emitted = {RootStart}
  /\ inflight = {RootStart}
  /\ redis = {}
  /\ ttl = FALSE
  /\ job = [k \in Ends |-> "none"]
  /\ content = [k \in Ends |-> {}]
  /\ shown = {}
  /\ file = NoTree
-----------------------------------------------------------------------------
(***************************************************************************)
(* build_trace_tree.js                                                     *)
(***************************************************************************)
\* The entries of the workflow and the END of an attempt name no parentId.
Parentless(e) == e.id = Root \/ (e.action = "end" /\ e.id \notin Inner)

\* The order of the sorted set: by timestamp, then by the text of the entry, which puts
\* an END ({"action"...) before a START ({"kind"...).  Two ENDs come in either order.
ComesBefore(e, x) == e.at < x.at \/ (e.at = x.at /\ (x.action = "end" => e.action = "end"))

\* Slip: entries are looked at from the newest.
NewestParentless(entries) ==
  CHOOSE e \in entries : Parentless(e) /\ \A x \in entries : Parentless(x) => ComesBefore(x, e)

\* entries.find( e => !e.parentId ), in the order of the sorted set.
FirstParentless(entries) ==
  CHOOSE e \in entries : Parentless(e) /\ \A x \in entries : Parentless(x) => ComesBefore(e, x)

\* null when every entry has a parent, else the root and the nodes that hang from it:
\* those whose START is there, and so for each of their parents.
BuildTree(entries) ==
  IF \A e \in entries : ~Parentless(e)
  THEN NoTree
  ELSE LET top == FirstParentless(entries).id
           started == {e.id : e \in {x \in entries : x.action = "start"}}
           hangs[id \in Ids] ==
             id = top \/ (id \in started \ {Root} /\ hangs[ParentOf[id]])
       IN  [root |-> top, nodes |-> {id \in Ids : hangs[id]}]
-----------------------------------------------------------------------------
(***************************************************************************)
(* The emitters: interceptors/activity.js and sinks.js.                    *)
(***************************************************************************)
Was(id, action) == \E e \in emitted : e.id = id /\ e.action = action

Emit(id, action, h) ==
  LET e == [id |-> id, action |-> action, by |-> h, at |-> Stamp(Cardinality(emitted) + 1, h)]
  IN  emitted' = emitted \cup {e} /\ inflight' = inflight \cup {e}

\* A span starts under a parent that has started and not ended: an attempt on whichever
\* worker polls it, what it traces inside on the same one.
SpanStarts(s) ==
  /\ ~Was(s, "start")
  /\ ~Was(ParentOf[s], "end")
  /\ \E p \in emitted, h \in Hosts :
       /\ p.id = ParentOf[s] /\ p.action = "start"
       /\ p.id = Root \/ h = p.by
       /\ Emit(s, "start", h)
  /\ UNCHANGED <<redis, ttl, job, content, shown, file>>

\* END or ERROR of a span, after that of the workflow if the attempt was given up.
SpanEnds(s) ==
  /\ ~Was(s, "end")
  /\ \A c \in Spans : ParentOf[c] = s /\ Was(c, "start") => Was(c, "end")
  /\ \E e \in emitted : e.id = s /\ e.action = "start" /\ Emit(s, "end", e.by)
  /\ UNCHANGED <<redis, ttl, job, content, shown, file>>

\* END or ERROR of the root workflow, again when its last task is retried, by the worker
\* that has the task.
RootEnds ==
  /\ \E k \in Ends :
       /\ job[k] = "none" /\ \A i \in 1 .. k - 1 : job[i] # "none"
       /\ job' = [job EXCEPT ![k] = "adding"]
  /\ \E h \in Hosts : Emit(Root, "end", h)
  /\ UNCHANGED <<redis, ttl, content, shown, file>>
-----------------------------------------------------------------------------
(***************************************************************************)
(* exec() of the S3 processor.                                             *)
(***************************************************************************)
\* Slip: zAdd alone.
AddUnexpiring(e) == redis' = redis \cup {e} /\ UNCHANGED ttl

\* addEntry: zAdd and expire, in one MULTI.
AddEntry(e) == redis' = redis \cup {e} /\ ttl' = TRUE

\* The delivery an END of the root belongs to.
Delivery(e) == Cardinality({x \in emitted : IsRootEnd(x) /\ Order(x) <= Order(e)})

\* addEntry is done; the END of the root goes on to wait for stragglers.  An entry that
\* fails to land, or whose process dies first, stays in flight for ever.
Land(e) ==
  /\ inflight' = inflight \ {e}
  /\ AddEntry(e)
  /\ job' = IF IsRootEnd(e) THEN [job EXCEPT ![Delivery(e)] = "waiting"] ELSE job
  /\ UNCHANGED <<emitted, content, shown, file>>

\* The delay has passed: getEntries, and an upload begins unless there is no tree.
Read(k) ==
  /\ job[k] = "waiting"
  /\ content' = [content EXCEPT ![k] = redis]
  /\ job' = [job EXCEPT ![k] = IF BuildTree(redis) = NoTree THEN "over" ELSE "uploading"]
  /\ UNCHANGED <<emitted, inflight, redis, ttl, shown, file>>

Upload(k) ==
  /\ job[k] = "uploading"
  /\ file' = BuildTree(content[k])
  /\ shown' = shown \cup content[k]
  /\ job' = [job EXCEPT ![k] = "busting"]
  /\ UNCHANGED <<emitted, inflight, redis, ttl, content>>

\* bustEntries deletes the key, with whatever landed since the read.
Bust(k) ==
  /\ job[k] = "busting"
  /\ redis' = {}
  /\ ttl' = FALSE
  /\ job' = [job EXCEPT ![k] = "over"]
  /\ content' = [content EXCEPT ![k] = {}]
  /\ UNCHANGED <<emitted, inflight, shown, file>>

\* Slip: the key is deleted when the upload fails.
AbandonAndBust(k) ==
  /\ job[k] \in {"waiting", "uploading", "busting"}
  /\ job' = [job EXCEPT ![k] = "busting"]
  /\ UNCHANGED <<emitted, inflight, redis, ttl, content, shown, file>>

\* Redis or S3 fails, or the process exits in the delay or during the upload (its
\* shutdown awaits no trace): the listener logs it and exec() is over.
Abandon(k) ==
  /\ job[k] \in {"waiting", "uploading", "busting"}
  /\ job' = [job EXCEPT ![k] = "over"]
  /\ content' = [content EXCEPT ![k] = {}]
  /\ UNCHANGED <<emitted, inflight, redis, ttl, shown, file>>

\* The TTL is days, the delay seconds: nobody is between a read and a delete.
Expire ==
  /\ ttl
  /\ \A k \in Ends : job[k] \in {"none", "adding", "over"}
  /\ redis' = {}
  /\ ttl' = FALSE
  /\ UNCHANGED <<emitted, inflight, job, content, shown, file>>

TraceNext ==
  \/ \E s \in Spans : SpanStarts(s) \/ SpanEnds(s)
  \/ RootEnds
  \/ \E e \in inflight : Land(e)
  \/ \E k \in Ends : Read(k) \/ Upload(k) \/ Bust(k) \/ Abandon(k)
  \/ Expire

\* Timers run out, the delay and the expiry, and the calls of exec() end one way or
\* another.  No entry need ever land.
TraceFairness ==
  /\ \A k \in Ends : WF_traceVars(Read(k) \/ Upload(k) \/ Bust(k) \/ Abandon(k))
  /\ WF_traceVars(Expire)

TraceSpec == TraceInit /\ [][TraceNext]_traceVars
TraceFairSpec == TraceSpec /\ TraceFairness
-----------------------------------------------------------------------------
Phases == {"none", "adding", "waiting", "uploading", "busting", "over"}

\* Type invariant: Redis, a read and the file hold entries that were emitted, no others.
TraceTypeOK ==
  /\ emitted \subseteq Entry
  /\ inflight \subseteq emitted
  /\ redis \subseteq emitted
  /\ ttl \in BOOLEAN
  /\ job \in [Ends -> Phases]
  /\ content \in [Ends -> SUBSET emitted]
  /\ shown \subseteq emitted
  /\ file.nodes \subseteq Ids

-----------------------------------------------------------------------------
(***************************************************************************)
(* What must hold.                                                         *)
(***************************************************************************)
Complete(entries) == RootStart \in entries

\* No worker behind the one that started the workflow has ended an attempt.
NobodyBehind(entries) ==
  \A e \in entries : Parentless(e) /\ e.id # Root => ClockOf[e.by] >= ClockOf[Starter]

\* The tree of a read that has the START of the workflow leaves out no span whose START
\* was read and whose parent is in it, in whatever order the entries landed and however
\* the clocks of the workers differ; and the workflow is its root, unless the END of an
\* attempt was stamped by a worker whose clock is behind that of the worker that started
\* the workflow, which the code may take for the root instead.
ShowsTheWorkflow ==
  \A k \in Ends :
    Complete(content[k]) =>
      LET tree == BuildTree(content[k])
      IN  /\ NobodyBehind(content[k]) => tree.root = Root
          /\ \A s \in Spans :
               (\E e \in content[k] : e.id = s /\ e.action = "start")
               /\ ParentOf[s] \in tree.nodes => s \in tree.nodes

\* What Redis held when exec() read it is deleted only once it is in the file; only
\* the expiry takes it away otherwise, however uploads and workers fail.
DeletedOnlyWhenShown ==
  [][\A k \in Ends : job[k] = "busting" /\ job'[k] = "over" /\ redis' = {} =>
       content[k] \subseteq shown]_traceVars

\* Redis keeps nothing of a run for ever, not even when its upload failed.
NothingLeftInRedis == []<>(redis = {})

=============================================================================
