------------------------------ MODULE MCAgents ------------------------------
(*****************************************************************************)
(* The agent for TLC: the jobs of both agents, what a turn of Pi and of the  *)
(* local agent does, console authorizations, and the chat the user sees.  A  *)
(* behaviour is about one of them: `part' says which, and the others stay as *)
(* they began.                                                               *)
(*****************************************************************************)
EXTENDS AgentJobsProofs, Integers, Sequences, FiniteSets

CONSTANTS j1, j2, a1, a2, a3, s1, NONE

MCSessionOf == [j \in Jobs |-> s1]

(* One edit, and two of which the second undoes the first.                    *)
Change(old, new) == [oldText |-> old, newText |-> new]

TurnEdits == {<<Change("a", "b")>>, <<Change("a", "b"), Change("b", "a")>>}

(* What a user may ask the local agent: a verb, how many paths the message    *)
(* quotes, and whether the first one is mentioned again.                      *)
Ask(verb, operands, mentions) ==
  [verb |-> verb, operands |-> operands, mentions |-> mentions]

TurnMessages ==
  {Ask(v, 2, TRUE) : v \in {"move", "tag"}}
    \cup {Ask(v, 1, TRUE) : v \in {"move", "mkdir", "trash", "read"}}
    \cup {Ask(v, 1, FALSE) : v \in {"read", "search"}}
    \cup {Ask(v, 0, FALSE) : v \in {"stat", "other"}}

(* Two sessions of one root exist, a third may be created.                    *)
ChatRows == [s \in {"a", "b", "c"} |-> IF s = "c" THEN NONE ELSE "r"]

VARIABLE part     \* the component this behaviour is about

VARIABLES
  t_turn, t_log, t_tool, t_approval, t_cancelled, t_file

VARIABLES
  c_approval, c_operation, c_job, c_note, c_auth, c_overdue, c_socket,
  c_opened

VARIABLES
  v_rows, v_log, v_root, v_session, v_transcript, v_seen, v_stream,
  v_activeJob, v_submitting, v_calls, v_lost, v_actions

Local == INSTANCE AgentJobsProofs WITH
  LocalFallback <- TRUE, MaxCrashes <- 1

Turn == INSTANCE AgentTurns WITH
  turn <- t_turn, log <- t_log, tool <- t_tool, approval <- t_approval,
  cancelled <- t_cancelled, file <- t_file, Words <- {"a", "b"},
  Edits <- TurnEdits, Messages <- TurnMessages, MaxTools <- 2, MaxWrites <- 1

Console == INSTANCE ConsoleAccess WITH
  approval <- c_approval, operation <- c_operation, job <- c_job,
  note <- c_note, auth <- c_auth, overdue <- c_overdue, socket <- c_socket,
  opened <- c_opened, Auths <- {a1, a2, a3}

Chat == INSTANCE ChatView WITH
  rows <- v_rows, log <- v_log, root <- v_root, session <- v_session,
  transcript <- v_transcript, seen <- v_seen, stream <- v_stream,
  activeJob <- v_activeJob, submitting <- v_submitting, calls <- v_calls,
  lost <- v_lost, actions <- v_actions, Sessions <- {"a", "b", "c"},
  Roots <- {"r", "s"}, FirstRows <- ChatRows, Calls <- {1, 2}, Limit <- 9,
  MaxLog <- 3, MaxActions <- 2

piVars ==
  <<jobStatus, notif, created, sessions, appr, apprJob, apprKind, told, api,
    applying, direct, turn, call, worker, effects, granted, shielded, crashes>>

turnsVars ==
  <<t_turn, t_log, t_tool, t_approval, t_cancelled, t_file>>

consoleVars ==
  <<c_approval, c_operation, c_job, c_note, c_auth, c_overdue, c_socket,
    c_opened>>

chatVars ==
  <<v_rows, v_log, v_root, v_session, v_transcript, v_seen, v_stream,
    v_activeJob, v_submitting, v_calls, v_lost, v_actions>>

mcVars ==
  <<part, piVars, turnsVars, consoleVars, chatVars>>

MCInit ==
  /\ part \in {"pi", "local", "turns", "console", "chat"}
  /\ Init
  /\ Turn!Init
  /\ part # "turns" => /\ t_turn.agent = "local" /\ t_turn.message.verb = "stat"
                        /\ t_file.text = CHOOSE text \in Turn!Texts : TRUE
  /\ Console!Init
  /\ Chat!Init
  /\ part # "chat" => v_root = "r" /\ v_calls[2] = NONE

OnlyPi ==
  /\ part = "pi"
  /\ UNCHANGED <<part, turnsVars, consoleVars, chatVars>>

OnlyLocal ==
  /\ part = "local"
  /\ UNCHANGED <<part, turnsVars, consoleVars, chatVars>>

OnlyTurn ==
  /\ part = "turns"
  /\ UNCHANGED <<part, piVars, consoleVars, chatVars>>

OnlyConsole ==
  /\ part = "console"
  /\ UNCHANGED <<part, piVars, turnsVars, chatVars>>

OnlyChat ==
  /\ part = "chat"
  /\ UNCHANGED <<part, piVars, turnsVars, consoleVars>>

MCNext ==
  \/ OnlyPi /\ Next
  \/ OnlyLocal /\ Local!Next
  \/ OnlyTurn /\ Turn!Next
  \/ OnlyConsole /\ Console!Next
  \/ OnlyChat /\ Chat!Next

MCSpec == MCInit /\ [][MCNext]_mcVars

(* The jobs of Pi alone, with the fairness of AgentJobs.                      *)
LiveInit == part = "pi" /\ MCInit

LiveSpec == LiveInit /\ [][MCNext]_mcVars /\ Fairness

(* The jobs of the local agent alone.                                         *)
LocalInit == part = "local" /\ MCInit

LocalSpec == LocalInit /\ [][MCNext]_mcVars

-----------------------------------------------------------------------------
\* See AgentJobs: a waiting job of Pi has an approval the user can decide.
PiJobsCanMove == part = "pi" => WaitingJobsCanMove

\* What the user is told is what happened: a session is told of the end of a job of
\* Pi only once it has ended (AgentJobs), the events of a turn agree with what its
\* tools did (AgentTurns), and the chat with the transcript of the session it shows
\* (ChatView).
WhatIsToldIsTrue ==
  /\ part = "pi" => ToldJobsHaveEnded
  /\ Turn!EventsTellTheResult
  /\ Chat!ChatTellsTheSession

\* Every component keeps the types of its variables, or the inductive invariant
\* its proofs rest on.
Typed ==
  /\ part = "pi" => ToldInv
  /\ part = "local" => Local!ToldInv
  /\ part = "turns" => Turn!TypeOK
  /\ part = "console" => Console!TypeOK
  /\ part = "chat" => Chat!TypeOK

\* An approval is used for what it was given: an approved edit is applied to the
\* text the file has then (AgentTurns), and a console is only opened with an
\* authorization that was approved (ConsoleAccess).
ApprovalsAreCurrent ==
  Typed /\ Turn!EditsUseFreshText /\ Console!ConsoleNeedsApproval

\* What has ended is not revived: a turn that was cancelled does not end as
\* completed (AgentTurns), an authorization that has run out opens no console,
\* and the job of a console that has ended is only moved by a failed start
\* (ConsoleAccess).
EndsAreFinal ==
  /\ Turn!CancelledIsNotCompleted
  /\ Console!AuthorizationEnds /\ Console!EndedJobOnlyFails
=============================================================================
