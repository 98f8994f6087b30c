------------------------------ MODULE TaskApi ------------------------------
(***************************************************************************)
(* One task as a client of the HTTP API sees it: POST /tasks spawns the    *)
(* run in the background, and the other endpoints read the run's monitor,  *)
(* or raise its cancel event, between any two of its steps.                *)
(*                                                                         *)
(* Handlers run on the run's own event loop and do not await between       *)
(* reading and answering, so each is one action.  The event stream is a    *)
(* loop that wakes from its sleep: one action per turn of it.              *)
(***************************************************************************)
EXTENDS OuterLoop

VARIABLES
  registered,   \* the registry has the task's monitor and its background task
  stream,       \* a client's GET /tasks/{id}/stream
  frame         \* the last snapshot the stream sent

apiVars == <<registered, stream, frame>>
allVars == <<vars, apiVars>>

\* RunMonitor.progress, without the current step.
Progress == [completed |-> completed, total |-> planSize]

\* _stream_snapshot; totals of tokens are left out.
Snapshot == [status |-> taskState, progress |-> Progress]

NoFrame == [status |-> "none", progress |-> [completed |-> 0, total |-> 0]]

ApiInit ==
  /\ Init
  /\ registered = FALSE
  /\ stream = "closed" /\ frame = NoFrame

----------------------------------------------------------------------------
(* What GET /tasks/{id}, /result and /plan answer; they change nothing *)

\* _require_monitor does not raise 404.
Known == registered

GetStatus == IF Known THEN Snapshot ELSE [status |-> "404", progress |-> NoFrame.progress]

GetResult ==
  CASE ~Known -> "404"
    [] Known /\ finalResult = "none" -> "409"
    [] Known /\ finalResult # "none" -> finalResult

GetPlan ==
  CASE ~Known -> "404"
    [] Known /\ planSize = 0 -> "409"
    [] Known /\ planSize > 0 -> "plan"

----------------------------------------------------------------------------
(* POST /tasks and POST /tasks/{id}/cancel *)

\* _spawn_run: a monitor in state pending, and a run that has not begun.
SubmitTask ==
  /\ ~registered
  /\ registered' = TRUE
  /\ UNCHANGED <<vars, stream, frame>>

CancelTask ==
  /\ Known
  /\ RequestCancel
  /\ UNCHANGED apiVars

----------------------------------------------------------------------------
(* GET /tasks/{id}/stream *)

OpenStream ==
  /\ Known /\ stream = "closed"
  /\ stream' = "open"
  /\ UNCHANGED <<vars, registered, frame>>

\* Mutant of EndsStream: only success ends it.
EndsOnSuccess == taskState = "completed"

\* _TERMINAL_STATES
EndsStream == taskState \in TerminalState

\* Mutant of KeyChanged: the status is left out of the key.
CountChanged == completed # frame.progress.completed

\* A frame is sent when its key changed.  The key has no total: a merge that only
\* changes the plan shows with the next change.  current_step, which only adds
\* frames, is left out.
KeyChanged == taskState # frame.status \/ completed # frame.progress.completed

StreamTick ==
  /\ stream = "open"
  /\ frame' = IF KeyChanged THEN Snapshot ELSE frame
  /\ stream' = IF EndsStream THEN "ended" ELSE "open"
  /\ UNCHANGED <<vars, registered>>

----------------------------------------------------------------------------

RunStep == registered /\ Run /\ UNCHANGED apiVars

ApiNext == SubmitTask \/ RunStep \/ CancelTask \/ OpenStream \/ StreamTick

\* The event loop goes on with the run and wakes the stream; no client has to come.
ApiSpec == ApiInit /\ [][ApiNext]_allVars /\ WF_allVars(RunStep) /\ WF_allVars(StreamTick)

----------------------------------------------------------------------------
(* Safety *)

\* A stream that ended has shown its client the end: the terminal state and the counts
\* that GET status answers from then on, and GET result has an answer.
StreamShowsEnd ==
  stream = "ended" => /\ frame = GetStatus /\ frame.status \in TerminalState
                      /\ GetResult \notin {"404", "409"}

\* Progress as a client watches it never falls back, never exceeds its total, and has
\* a total only when GET plan has an answer.
ProgressSound ==
  [][/\ frame.progress.completed <= frame'.progress.completed
     /\ frame'.progress.completed <= frame'.progress.total
     /\ frame'.progress.total > 0 => GetPlan' = "plan"]_allVars

----------------------------------------------------------------------------
(* Liveness *)

\* Every stream ends, however little the run got done, unless the run dies.
StreamsEnd == stream = "open" ~> stream = "ended" \/ at = "crashed"
=============================================================================
