------------------------------ MODULE TaskState ------------------------------
(***************************************************************************)
(* The task lifecycle of the EmberVM control plane, as data: the states,   *)
(* the transition table and the forward rank that the op-log projection    *)
(* derives its guard from.  Source: control/lib/embervm/task_state.ex.     *)
(***************************************************************************)
EXTENDS Naturals

States == {"queued", "assigned", "running", "succeeded",
           "failed_retryable", "failed_permanent", "dead_lettered"}

TerminalStates == {"succeeded", "failed_permanent", "dead_lettered"}

InFlightStates == {"assigned", "running"}

\* <<state, event, next state>>; a pair with no triple is an illegal transition.
Transitions ==
  {<<"queued", "assign", "assigned">>,
   <<"queued", "expire", "failed_permanent">>,
   <<"assigned", "start", "running">>,
   <<"assigned", "fail_retryable", "failed_retryable">>,
   <<"assigned", "fail_permanent", "failed_permanent">>,
   <<"running", "succeed", "succeeded">>,
   <<"running", "fail_retryable", "failed_retryable">>,
   <<"running", "fail_permanent", "failed_permanent">>,
   <<"failed_retryable", "retry", "queued">>,
   <<"failed_permanent", "dead_letter", "dead_lettered">>,
   <<"dead_lettered", "redrive", "queued">>}

\* The order of normal progress: every way a run can end ranks above running.
ForwardRank(state) ==
  CASE state = "queued"   -> 0
    [] state = "assigned" -> 1
    [] state = "running"  -> 2
    [] OTHER              -> 3

\* The states an append that moves a row to `target' may move it from.
StatesBelow(target) ==
  {state \in States : ForwardRank(state) < ForwardRank(target)}

=============================================================================
