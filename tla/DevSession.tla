---------------------------- MODULE DevSession -----------------------------
(***************************************************************************)
(* One `output dev` (sdk/cli/src/commands/dev/index.ts): it looks for a    *)
(* stack of the project, starts one or attaches to it, shows the dashboard *)
(* and must not leave behind what it started, however it ends: a signal,   *)
(* Ctrl-C, a crash, a stack that never gets healthy, or a compose that     *)
(* exits.                                                                  *)
(*                                                                         *)
(* Docker is outside: the stack moves by itself.  `docker compose down` is *)
(* a synchronous call, so that a clean-up is one step.                     *)
(***************************************************************************)
VARIABLES
    inBackground, \* --detached was given
    prior,      \* the stack when `docker compose ps` was asked
    stack,      \* the containers of the project
    stackState, \* what it said, "unanswered" counting as "none"
    step,       \* where run() is
    owns,       \* ownsStack
    up,         \* the foreground `docker compose up`
    phase,      \* the dashboard's phase
    ui,         \* Ink: unmounted with an error or without
    screen,     \* the terminal's buffer
    cleaningUp, \* state.cleaningUp
    down,       \* the last `docker compose down`
    exit        \* how the process ended

vars == <<inBackground, prior, stack, stackState, step, owns, up, phase, ui, screen, cleaningUp,
          down, exit>>

(* classifyStackState: nothing live, something live, all of it healthy. *)
StackStates == {"none", "partial", "running"}

TypeOK ==
    /\ inBackground \in BOOLEAN /\ owns \in BOOLEAN /\ cleaningUp \in BOOLEAN
    /\ prior \in StackStates /\ stack \in StackStates
    /\ stackState \in StackStates \cup {"unasked", "unanswered"}
    /\ step \in {"detecting", "probing", "reconciling", "starting", "mounted", "over"}
    /\ up \in {"none", "running", "stopping", "gone"}
    /\ phase \in {"waiting", "running", "failed"}
    /\ ui \in {"none", "mounted", "left", "left_error"}
    /\ screen \in {"normal", "alternate"}
    /\ down \in {"no", "done", "failed"}
    /\ exit \in {"no", "zero", "one", "killed"}
    /\ step = "over" <=> exit # "no"
    /\ up # "none" => owns

Init ==
    /\ inBackground \in BOOLEAN
    /\ stack \in StackStates /\ prior = stack
    /\ stackState = "unasked" /\ step = "detecting" /\ owns = FALSE /\ up = "none"
    /\ phase = "waiting" /\ ui = "none" /\ screen = "normal"
    /\ cleaningUp = FALSE /\ down = "no" /\ exit = "no"

Exit(code) == step' = "over" /\ exit' = code

-----------------------------------------------------------------------------
(* Until the dashboard is there *)

NotYet == UNCHANGED <<inBackground, owns, up, phase, ui, screen, cleaningUp, down>>

(* getServiceStatusOrWarn: a query that fails counts as an empty answer. *)
Detects ==
    /\ step = "detecting"
    /\ prior' = stack
    /\ stackState' \in {stack, "unanswered"}
    /\ step' = CASE stackState' \in {"none", "unanswered"} -> "probing"
                 [] stackState' = "partial" \/ (inBackground /\ stackState' = "running") -> "reconciling"
                 [] OTHER -> "starting"
    /\ UNCHANGED <<stack, exit>> /\ NotYet

(* probePorts: a healthy stack holds its ports, and so may any other process; a partial
   one need not. *)
Probes ==
    /\ step = "probing"
    /\ \/ /\ stack # "running"
          /\ step' = IF inBackground THEN "reconciling" ELSE "starting"
          /\ UNCHANGED exit
       \/ Exit("one")
    /\ UNCHANGED <<prior, stack, stackState>> /\ NotYet

(* upDetachedOrError: `up -d` brings the stack up, or fails with part of it up. *)
Reconciles ==
    /\ step = "reconciling"
    /\ \/ /\ stack' \in {"partial", "running"}
          /\ IF inBackground THEN Exit("zero") ELSE step' = "starting" /\ UNCHANGED exit
       \/ stack' \in StackStates /\ Exit("one")
    /\ UNCHANGED <<prior, stackState>> /\ NotYet

(* We own the stack only when we started it ourselves. *)
OwnsStack(state) == state \in {"none", "unanswered"}

(* The listeners are there, the dashboard is rendered and, for a stack of one's own,
   compose is spawned.  A spawn that throws goes to the catch clause. *)
Mounts ==
    /\ step = "starting"
    /\ step' = "mounted" /\ screen' = "alternate" /\ owns' = OwnsStack(stackState)
    /\ \/ up' = (IF owns' THEN "running" ELSE "none") /\ ui' = "mounted"
       \/ owns' /\ up' = "none" /\ ui' = "left_error"
    /\ UNCHANGED <<inBackground, prior, stack, stackState, phase, cleaningUp, down, exit>>

-----------------------------------------------------------------------------
(* Docker *)

Mounted == step = "mounted"

(* Containers start while compose is up, get healthy or fall ill, and somebody may stop
   them: the services panel, another terminal. *)
StackMoves ==
    /\ step # "over"
    /\ stack' \in StackStates \ {stack}
    /\ stack = "none" => up = "running" /\ stack' = "partial"
    /\ UNCHANGED <<inBackground, prior, stackState, step, owns, up, phase, ui, screen, cleaningUp,
                   down, exit>>

(* Ink leaves once. *)
Leaves(how) == ui' = IF ui = "mounted" THEN how ELSE ui

(* onExit: what we stopped ourselves is no news; zero means that all containers have
   been stopped. *)
OnExit(code) ==
    IF cleaningUp THEN UNCHANGED ui
    ELSE Leaves(IF code = "zero" THEN "left" ELSE "left_error")

(* Compose closes, or could not be run at all. *)
UpExits ==
    /\ Mounted /\ up \in {"running", "stopping"}
    /\ up' = "gone"
    /\ \/ stack = "none" /\ OnExit("zero")
       \/ OnExit("other")
    /\ UNCHANGED <<inBackground, prior, stack, stackState, step, owns, phase, screen, cleaningUp,
                   down, exit>>

-----------------------------------------------------------------------------
(* The dashboard waits for the services (useHealthPolling) *)

(* A tick within two minutes: all healthy, one of them failed, or neither yet. *)
HealthArrives ==
    /\ Mounted /\ ui = "mounted" /\ phase = "waiting"
    /\ \/ stack = "running" /\ phase' = "running"
       \/ stack # "running" /\ phase' = "failed"
    /\ UNCHANGED <<inBackground, prior, stack, stackState, step, owns, up, ui, screen, cleaningUp,
                   down, exit>>

(* Slip: an attached session has no deadline. *)
OwnHealthTimesOut ==
    /\ Mounted /\ ui = "mounted" /\ phase = "waiting" /\ owns
    /\ Leaves("left_error")
    /\ UNCHANGED <<inBackground, prior, stack, stackState, step, owns, up, phase, screen, cleaningUp,
                   down, exit>>

(* The two minutes are over: fatal only for a stack of one's own. *)
HealthTimesOut ==
    /\ Mounted /\ ui = "mounted" /\ phase = "waiting"
    /\ IF owns THEN Leaves("left_error") /\ UNCHANGED phase
       ELSE phase' = "running" /\ UNCHANGED ui
    /\ UNCHANGED <<inBackground, prior, stack, stackState, step, owns, up, screen, cleaningUp, down,
                   exit>>

-----------------------------------------------------------------------------
(* The ways out *)

(* teardownIfOwned: compose is told to stop, then everything is taken down; that may
   fail. *)
TearsDown(result) ==
    IF owns
    THEN /\ up' = IF up = "running" THEN "stopping" ELSE up
         /\ down' = result
         /\ stack' = IF result = "done" THEN "none" ELSE stack
    ELSE result = "done" /\ UNCHANGED <<up, down, stack>>

Cleanup(result) == cleaningUp' = TRUE /\ TearsDown(result)

Fixed == UNCHANGED <<inBackground, prior, stackState, owns, phase>>

(* SIGINT, SIGTERM: clean up, log a failure, restore the terminal. *)
HandlesSignal ==
    /\ Mounted
    /\ \E result \in {"done", "failed"} : Cleanup(result)
    /\ Leaves("left") /\ screen' = "normal"
    /\ Fixed /\ UNCHANGED <<step, exit>>

(* Ctrl-C in the dashboard, which reads keys raw. *)
CtrlC ==
    /\ Mounted /\ ui = "mounted"
    /\ \E result \in {"done", "failed"} :
         /\ Cleanup(result)
         /\ Leaves(IF result = "done" THEN "left" ELSE "left_error")
    /\ Fixed /\ UNCHANGED <<step, screen, exit>>

(* An uncaught error: clean up first, then restore the terminal and exit. *)
HandlesFatalError ==
    /\ Mounted
    /\ \E result \in {"done", "failed"} : Cleanup(result)
    /\ Leaves("left") /\ screen' = "normal"
    /\ Exit("one") /\ Fixed

(* waitUntilExit resolves; the process then lasts as long as compose. *)
Finishes ==
    /\ Mounted /\ ui = "left" /\ up \in {"none", "gone"}
    /\ screen' = "normal" /\ Exit("zero")
    /\ Fixed /\ UNCHANGED <<stack, up, ui, cleaningUp, down>>

(* Slip: the catch clause leaves the stack to the user. *)
FinishesWithoutTeardown ==
    /\ Mounted /\ ui = "left_error"
    /\ UNCHANGED <<stack, up, down>>
    /\ screen' = "normal" /\ Exit("one")
    /\ Fixed /\ UNCHANGED <<ui, cleaningUp>>

(* waitUntilExit rejects, or the spawn threw: the stack is torn down unless a clean-up
   has already been tried. *)
FinishesWithError ==
    /\ Mounted /\ ui = "left_error"
    /\ IF cleaningUp THEN UNCHANGED <<stack, up, down>>
       ELSE \E result \in {"done", "failed"} : TearsDown(result)
    /\ screen' = "normal" /\ Exit("one")
    /\ Fixed /\ UNCHANGED <<ui, cleaningUp>>

(* Nothing can be done about SIGKILL, nor about a signal before the listeners. *)
IsKilled ==
    /\ step # "over"
    /\ Exit("killed")
    /\ Fixed /\ UNCHANGED <<stack, up, ui, screen, cleaningUp, down>>

Next ==
    \/ Detects \/ Probes \/ Reconciles \/ Mounts
    \/ StackMoves \/ UpExits
    \/ HealthArrives \/ HealthTimesOut
    \/ HandlesSignal \/ CtrlC \/ HandlesFatalError
    \/ Finishes \/ FinishesWithError \/ IsKilled

(* The command goes on; the health check has its deadline; a compose that was told to
   stop stops.  The stack, the user and the signals owe nothing. *)
Fairness ==
    /\ WF_vars(Detects \/ Probes \/ Reconciles \/ Mounts)
    /\ WF_vars(HealthTimesOut)
    /\ WF_vars(up = "stopping" /\ UpExits)
    /\ WF_vars(Finishes) /\ WF_vars(FinishesWithError)

Spec == Init /\ [][Next]_vars /\ Fairness

-----------------------------------------------------------------------------
(* A stack that this command started is not left running when it ends, on whichever
   path: only a `docker compose down` that fails, or a kill, can leave it
   (commands/dev/index.ts:136, :292). *)
OwnedStackGoes ==
    step = "over" /\ owns /\ exit # "killed" /\ down # "failed" => stack = "none"

(* A stack that `docker compose ps` reported, all of it or part, belongs to somebody else
   and is never taken down, whatever becomes of it meanwhile
   (commands/dev/index.ts:117). *)
OthersStackStays == stackState \in {"partial", "running"} => down = "no"

(* The stack goes with the command that owns it, and with no other. *)
StackGoesWithItsOwner == TypeOK /\ OwnedStackGoes /\ OthersStackStays

(* A command that was told to quit ends with the terminal restored, and the dashboard
   does not wait for ever: it shows the stack, or the failure, or ends
   (views/dev/hooks/use_poll.ts:85). *)
QuitsAndSettles ==
    /\ cleaningUp \/ ui \in {"left", "left_error"} ~> step = "over"
    /\ step = "mounted" ~> phase # "waiting" \/ step = "over"
    /\ [](step = "over" /\ exit # "killed" => screen = "normal")
=============================================================================
