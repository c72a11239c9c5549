---------------------------- MODULE MCTraceUpload ----------------------------
\* Every span of the small instance is an attempt of the root workflow, except a call
\* that a step traces inside itself.  One worker's clock is two entries behind.
EXTENDS TraceUpload, TLC

CONSTANTS root, step, call, on_time, behind

MCParentOf == [s \in Spans |-> IF s = call THEN step ELSE root]
MCInner == Spans \cap {call}
MCClockOf == [h \in Hosts |-> IF h = behind THEN -2 ELSE 0]
=============================================================================
