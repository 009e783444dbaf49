------------------------------ MODULE AgentTurns ------------------------------
(***************************************************************************)
(* One turn of an agent, from the message to the result it returns to the  *)
(* worker: the Pi agent with its tools (packages/agent/src/pi-agent.ts)    *)
(* and the local fallback (read-only-agent.ts).  A turn runs between       *)
(* awaits with the user, who decides approvals or cancels the job, and     *)
(* with other programs that write the file an edit is about.               *)
(*                                                                         *)
(* A file's text is a sequence of words, with a count of the writes other  *)
(* programs made.  The events the turn emits are kept in order.            *)
(***************************************************************************)
EXTENDS Naturals, Sequences, FiniteSets, SequencesExt

CONSTANTS Words,        \* what a text is made of
          Edits,        \* the replacements asked for: sequences of [oldText, newText]
          Messages,     \* what the user asks the fallback agent for
          MaxTools,     \* how many tools the model calls in a turn
          MaxWrites,    \* how often another program writes the file
          NONE

VARIABLES turn,         \* [agent, pc, message, apiKey, model, policy, started, latest, tools, result]
          log,          \* the events emitted, in order
          tool,         \* the tool call in hand
          approval,     \* the status of its approval, NONE without one
          cancelled,    \* the job was cancelled
          file          \* [text, writes]

vars == <<turn, log, tool, approval, cancelled, file>>

NoTool == [name |-> NONE, pc |-> "none", edits |-> <<>>, text |-> <<>>, base |-> 0, decided |-> 0]
Texts == UNION {[1..n -> Words] : n \in 0..2}

emit(type) == log' = Append(log, type)

Return(status) == turn' = [turn EXCEPT !.pc = "returned", !.result = status]
-----------------------------------------------------------------------------
(* The operators of the tools. *)

\* String.replace with a string: the first occurrence only.
replace(text, edit) ==
  LET at == {i \in 1..Len(text) : text[i] = edit.oldText}
  IN  IF at = {} THEN text
      ELSE [text EXCEPT ![CHOOSE i \in at : \A j \in at : i <= j] = edit.newText]

\* The text after all the edits, NONE when one does not find its oldText.
buildEditPreview(text, edits) ==
  FoldLeft(LAMBDA acc, edit :
             IF acc = NONE THEN NONE
             ELSE IF \E i \in 1..Len(acc) : acc[i] = edit.oldText THEN replace(acc, edit) ELSE NONE,
           text, edits)

\* The largest part of the model's answer that is text, "" without one.
extractAssistantText(parts) == IF "text" \in parts THEN "text" ELSE ""

isMutationRequest(msg) == msg.verb \in {"move", "mkdir", "trash", "tag"} \/ msg.mentions

parseMutationProposal(msg) ==
  IF ~isMutationRequest(msg) THEN NONE
  ELSE CASE msg.verb = "mkdir" /\ msg.operands >= 1 -> "mkdir"
         [] msg.verb = "move" /\ msg.operands = 2 -> "move"
         [] msg.verb = "trash" /\ msg.operands >= 1 -> "trash"
         [] msg.verb = "tag" /\ msg.operands = 2 -> "tag"
         [] OTHER -> NONE

extractPathTool(msg) ==
  IF msg.verb \in {"stat", "read", "preview"} /\ msg.operands >= 1 THEN msg.verb ELSE NONE

extractSearchQuery(msg) == msg.verb = "search" /\ msg.operands >= 1
-----------------------------------------------------------------------------
Init ==
  /\ turn \in [agent : {"pi", "local"}, pc : {"start"}, message : Messages, apiKey : BOOLEAN,
               model : BOOLEAN, policy : {"disabled", "ask"}, started : {FALSE}, latest : {""},
               tools : {0}, result : {NONE}]
  /\ turn.agent = "local" => turn.apiKey /\ turn.model /\ turn.policy = "ask"
  /\ turn.agent = "pi" => turn.message = CHOOSE msg \in Messages : TRUE
  /\ log = <<>> /\ tool = NoTool /\ approval = NONE /\ cancelled = FALSE
  /\ file \in [text : Texts, writes : {0}]

(* The Pi agent. *)

Pi(pc) == turn.agent = "pi" /\ turn.pc = pc

\* A turn that throws: a cancelled one is only cancelled, any other says
\* that it started before it says that it failed.
Throws ==
  IF cancelled THEN Return("cancelled") /\ UNCHANGED log
  ELSE /\ log' = log \o (IF turn.started THEN <<"failed">> ELSE <<"started", "failed">>)
       /\ Return("failed")

\* The key, the model and the provider session; each of them may be missing.
runPiSdkAgentTurn ==
  /\ Pi("start")
  /\ \/ ~turn.apiKey /\ Throws
     \/ turn.apiKey /\ cancelled /\ Return("cancelled") /\ UNCHANGED log
     \/ turn.apiKey /\ ~cancelled /\ ~turn.model /\ Throws
     \/ /\ turn.apiKey /\ ~cancelled /\ turn.model
        /\ turn' = [turn EXCEPT !.pc = "prompt"] /\ UNCHANGED log
  /\ UNCHANGED <<tool, approval, cancelled, file>>

\* agent_start of the provider's session
PiStarts ==
  /\ Pi("prompt") /\ ~turn.started
  /\ turn' = [turn EXCEPT !.started = TRUE] /\ emit("started")
  /\ UNCHANGED <<tool, approval, cancelled, file>>

\* message_end of the assistant: only the last one is kept.
PiMessage ==
  /\ Pi("prompt") /\ turn.started /\ tool = NoTool
  /\ \E parts \in {{}, {"text"}, {"text", "thinking"}} :
       turn' = [turn EXCEPT !.latest = extractAssistantText(parts)]
  /\ UNCHANGED <<log, tool, approval, cancelled, file>>

\* tool_execution_start
PiCallsTool ==
  /\ Pi("prompt") /\ turn.started /\ tool = NoTool /\ turn.tools < MaxTools
  /\ \E name \in {"read", "ls", "find", "grep", "bash", "edit", "write"}, edits \in Edits \union {<<>>} :
       /\ name # "edit" => edits = <<>>
       /\ tool' = [NoTool EXCEPT !.name = name, !.edits = edits, !.pc = "called"]
  /\ turn' = [turn EXCEPT !.tools = @ + 1]
  /\ emit("tool started")
  /\ UNCHANGED <<approval, cancelled, file>>

\* tool_execution_end
ToolEnds(outcome) ==
  /\ tool' = NoTool /\ approval' = NONE
  /\ emit(IF outcome = "error" THEN "tool failed" ELSE "tool completed")

\* read, ls, find and grep answer from the root, or throw.
ReadingTool ==
  /\ Pi("prompt") /\ tool.pc = "called" /\ tool.name \in {"read", "ls", "find", "grep"}
  /\ \E outcome \in IF turn.policy = "disabled" THEN {"denied"} ELSE {"text", "error"} : ToolEnds(outcome)
  /\ UNCHANGED <<turn, cancelled, file>>

\* An edit must find its words before anyone is asked, a write needs a safe
\* target; then the policy is asked.
GatedTool ==
  /\ Pi("prompt") /\ tool.pc = "called" /\ tool.name \in {"bash", "edit", "write"}
  /\ \/ /\ tool.name = "edit" /\ tool.edits = <<>> /\ ToolEnds("text")
     \/ /\ tool.name = "edit" /\ tool.edits # <<>>
        /\ buildEditPreview(file.text, tool.edits) = NONE /\ ToolEnds("error")
     \/ /\ tool.name = "write" /\ ToolEnds("error")
     \/ /\ tool.name = "edit" => tool.edits # <<>> /\ buildEditPreview(file.text, tool.edits) # NONE
        /\ turn.policy = "disabled" /\ ToolEnds("denied")
     \/ /\ tool.name = "edit" => tool.edits # <<>> /\ buildEditPreview(file.text, tool.edits) # NONE
        /\ turn.policy # "disabled"
        /\ tool' = [tool EXCEPT !.pc = "waits",
                      !.text = IF tool.name = "edit" THEN buildEditPreview(file.text, tool.edits) ELSE <<>>,
                      !.base = file.writes]
        /\ approval' = "pending" /\ emit("approval pending")
  /\ UNCHANGED <<turn, cancelled, file>>

\* The poll that sees the decision, or the cancellation.
waitForApprovalDecision ==
  /\ Pi("prompt") /\ tool.pc = "waits"
  /\ \/ cancelled /\ ToolEnds("stopped")
     \/ ~cancelled /\ approval \in {"rejected", "expired"} /\ ToolEnds("refused")
     \/ /\ ~cancelled /\ approval = "approved"
        /\ tool' = [tool EXCEPT !.pc = "approved"] /\ UNCHANGED <<log, approval>>
  /\ UNCHANGED <<turn, cancelled, file>>

\* bash runs the command and answers with its output, whatever its exit code.
BashTool ==
  /\ Pi("prompt") /\ tool.pc = "approved" /\ tool.name = "bash"
  /\ \E outcome \in {"text", "error"} : ToolEnds(outcome)
  /\ UNCHANGED <<turn, cancelled, file>>

\* write: the whole content, to a target that is checked again
WriteTool ==
  /\ Pi("prompt") /\ tool.pc = "approved" /\ tool.name = "write"
  /\ \/ ToolEnds("error") /\ UNCHANGED file
     \/ ToolEnds("text") /\ \E w \in Words : file' = [file EXCEPT !.text = <<w>>]
  /\ UNCHANGED <<turn, cancelled>>

\* Mutant: the text that was previewed for the approval is written.
edit_reads_preview ==
  /\ Pi("prompt") /\ tool.pc = "approved" /\ tool.name = "edit"
  /\ tool' = [tool EXCEPT !.pc = "writes"] /\ UNCHANGED <<log, approval>>
  /\ UNCHANGED <<turn, cancelled, file>>

\* edit: a fresh preview of the file as it is now ...
EditReads ==
  /\ Pi("prompt") /\ tool.pc = "approved" /\ tool.name = "edit"
  /\ LET fresh == buildEditPreview(file.text, tool.edits)
     IN  IF fresh = NONE THEN ToolEnds("error")
         ELSE /\ tool' = [tool EXCEPT !.pc = "writes", !.text = fresh, !.base = file.writes]
              /\ UNCHANGED <<log, approval>>
  /\ UNCHANGED <<turn, cancelled, file>>

\* ... and the write of it.
EditWrites ==
  /\ Pi("prompt") /\ tool.pc = "writes"
  /\ file' = [file EXCEPT !.text = tool.text]
  /\ ToolEnds("text")
  /\ UNCHANGED <<turn, cancelled>>

\* Mutant: the summary is told without looking at the cancellation.
pi_idle_unchecked ==
  /\ Pi("prompt") /\ tool = NoTool /\ turn.started
  /\ log' = log \o (IF turn.latest # "" THEN <<"message">> ELSE <<>>) \o <<"completed">>
  /\ Return("completed")
  /\ UNCHANGED <<tool, approval, cancelled, file>>

\* prompt and waitForIdle return: the last text is the message.
PiIdle ==
  /\ Pi("prompt") /\ tool = NoTool /\ turn.started
  /\ IF cancelled THEN Return("cancelled") /\ UNCHANGED log
     ELSE /\ log' = log \o (IF turn.latest # "" THEN <<"message">> ELSE <<>>) \o <<"completed">>
          /\ Return("completed")
  /\ UNCHANGED <<tool, approval, cancelled, file>>

\* The provider fails, before or after the session said that it started.
PiFails ==
  /\ Pi("prompt") /\ tool = NoTool /\ Throws
  /\ UNCHANGED <<tool, approval, cancelled, file>>
-----------------------------------------------------------------------------
(* The local fallback agent. *)

Local(pc) == turn.agent = "local" /\ turn.pc = pc
Calls(name) ==
  /\ tool' = [NoTool EXCEPT !.name = name, !.pc = "called"]
  /\ turn' = [turn EXCEPT !.pc = "tool", !.tools = @ + 1]

complete(events) == log' = log \o events \o <<"message", "completed">> /\ Return("completed")

LocalStarts ==
  /\ Local("start")
  /\ emit("started") /\ turn' = [turn EXCEPT !.pc = "read message", !.started = TRUE]
  /\ UNCHANGED <<tool, approval, cancelled, file>>

\* The message decides: a proposal, a refusal, one tool, a search or a listing.
runReadOnlyAgentTurn ==
  /\ Local("read message")
  /\ LET msg == turn.message
     IN  IF cancelled THEN Return("cancelled") /\ UNCHANGED <<log, tool, approval>>
         ELSE CASE parseMutationProposal(msg) # NONE ->
                     /\ approval' = "pending"
                     /\ log' = log \o <<"approval pending", "message">>
                     /\ Return("waiting_approval") /\ UNCHANGED tool
                [] parseMutationProposal(msg) = NONE /\ isMutationRequest(msg) ->
                     complete(<<>>) /\ UNCHANGED <<tool, approval>>
                [] ~isMutationRequest(msg) /\ extractPathTool(msg) # NONE ->
                     emit("tool started") /\ Calls(extractPathTool(msg)) /\ UNCHANGED approval
                [] ~isMutationRequest(msg) /\ extractPathTool(msg) = NONE /\ extractSearchQuery(msg) ->
                     emit("tool started") /\ Calls("query_index") /\ UNCHANGED approval
                [] OTHER -> emit("tool started") /\ Calls("list_dir") /\ UNCHANGED approval
  /\ UNCHANGED <<cancelled, file>>

\* Mutant: the error of a tool is told, the end of the turn is not.
fail_tool_quietly ==
  /\ log' = Append(log, "tool failed") /\ Return("failed")

failTool == log' = log \o <<"tool failed", "failed">> /\ Return("failed")

\* Every tool looks for the cancellation after its await.
PathTool ==
  /\ Local("tool") /\ tool.name \in {"stat", "read", "preview", "list_dir"}
  /\ \/ cancelled /\ Return("cancelled") /\ UNCHANGED log
     \/ ~cancelled /\ complete(<<"tool completed">>)
     \/ failTool
  /\ tool' = NoTool /\ UNCHANGED <<approval, cancelled, file>>

\* The index first; without a match the names are searched.
runIndexSearch ==
  /\ Local("tool") /\ tool.name = "query_index"
  /\ \/ cancelled /\ Return("cancelled") /\ tool' = NoTool /\ UNCHANGED log
     \/ failTool /\ tool' = NoTool
     \/ ~cancelled /\ complete(<<"tool completed">>) /\ tool' = NoTool
     \/ /\ ~cancelled
        /\ log' = log \o <<"tool completed", "tool started">>
        /\ tool' = [tool EXCEPT !.name = "search_files"] /\ UNCHANGED turn
  /\ UNCHANGED <<approval, cancelled, file>>

runSearch ==
  /\ Local("tool") /\ tool.name = "search_files"
  /\ \/ cancelled /\ Return("cancelled") /\ UNCHANGED log
     \/ ~cancelled /\ complete(<<"tool completed">>)
     \/ failTool
  /\ tool' = NoTool /\ UNCHANGED <<approval, cancelled, file>>
-----------------------------------------------------------------------------
(* The others. *)

Decide ==
  /\ turn.agent = "pi" /\ approval = "pending" /\ turn.pc # "returned"
  /\ \E status \in {"approved", "rejected"} :
       /\ approval' = status
       /\ tool' = [tool EXCEPT !.decided = file.writes]
  /\ UNCHANGED <<turn, log, cancelled, file>>

\* Cancelling the job expires what still waits.
Cancel ==
  /\ ~cancelled /\ turn.pc # "returned" /\ cancelled' = TRUE
  /\ approval' = IF approval = "pending" THEN "expired" ELSE approval
  /\ UNCHANGED <<turn, log, tool, file>>

OtherWrites ==
  /\ turn.agent = "pi" /\ turn.pc # "returned" /\ file.writes < MaxWrites
  /\ \E text \in Texts : file' = [text |-> text, writes |-> file.writes + 1]
  /\ UNCHANGED <<turn, log, tool, approval, cancelled>>

Next ==
  \/ runPiSdkAgentTurn \/ PiStarts \/ PiMessage \/ PiCallsTool \/ ReadingTool \/ GatedTool
  \/ waitForApprovalDecision \/ BashTool \/ WriteTool \/ EditReads \/ EditWrites \/ PiIdle \/ PiFails
  \/ LocalStarts \/ runReadOnlyAgentTurn \/ PathTool \/ runIndexSearch \/ runSearch
  \/ Decide \/ Cancel \/ OtherWrites

Spec == Init /\ [][Next]_vars
-----------------------------------------------------------------------------
TypeOK ==
  /\ turn.pc \in {"start", "prompt", "read message", "tool", "returned"}
  /\ turn.result \in {NONE, "completed", "failed", "cancelled", "waiting_approval"}
  /\ approval \in {NONE, "pending", "approved", "rejected", "expired"}
  /\ file.text \in Texts /\ file.writes \in 0..MaxWrites /\ turn.tools \in 0..MaxTools

\* The session's events tell what the worker is told: a turn that returned
\* completed or failed said so once, as its last event and after it said that
\* it started; a turn that found itself cancelled said neither; and every
\* tool call the transcript shows as ended is one that was shown to start.
EventsTellTheResult ==
  LET count(type) == Cardinality({i \in 1..Len(log) : log[i] = type})
      ends == {i \in 1..Len(log) : log[i] \in {"completed", "failed"}}
  IN  /\ ends # {} => ends = {Len(log)} /\ log[1] = "started" /\ count("started") = 1
      /\ turn.pc = "returned" =>
           IF turn.result \in {"completed", "failed"} THEN ends # {} /\ log[Len(log)] = turn.result
           ELSE ends = {}
      /\ \A i \in 1..Len(log) : log[i] \in {"tool completed", "tool failed"} =>
           \E j \in 1..(i - 1) : log[j] = "tool started"

\* A cancellation that was there before the turn's last look is respected: a
\* turn returns completed only when the job was not cancelled at that step.
CancelledIsNotCompleted ==
  [][(turn'.result = "completed" /\ turn.result = NONE) => ~cancelled]_vars

\* The edit that is written is made from the file as it was at or after the
\* user's decision: what others wrote while the approval waited stays.
EditsUseFreshText == tool.pc = "writes" => tool.base >= tool.decided
=============================================================================
