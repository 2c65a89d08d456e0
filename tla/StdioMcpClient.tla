--------------------------- MODULE StdioMcpClient ---------------------------
(***************************************************************************)
(* crates/barqium-mcp/src/client/stdio.rs: concurrent calls of one client  *)
(* over the two pipes of a subprocess.  A call writes its request under    *)
(* the lock of stdin, then takes the lock of stdout and reads lines until  *)
(* one has its id; lines that are not its own are thrown away.             *)
(*                                                                         *)
(* The subprocess answers in any order, sends notifications, and may exit. *)
(* A caller may drop its call: read_line then loses what it has read of a  *)
(* line, and the rest of the line is no JSON.                              *)
(***************************************************************************)
EXTENDS Integers, Sequences, SequencesExt

CONSTANTS
  ToolCalls,        \* the calls of call_tool
  NoCall,           \* no call holds the lock
  MaxNotifications  \* bound: notifications sent

ASSUME McpAssumption == NoCall \notin ToolCalls

VARIABLES
  id_counter,
  calls,      \* by call, [phase, id]
  requests,   \* ids the subprocess has yet to answer
  stdout,     \* lines in the pipe: an id, 0 for a notification, or Torn
  reader,     \* the call that holds the lock of stdout
  alive,      \* the subprocess runs
  notified,   \* notifications sent so far
  discarded   \* ids whose answer was read by another call, or torn

mcpVars == <<id_counter, calls, requests, stdout, reader, alive, notified, discarded>>

Torn == -1
Ended == {"ok", "failed", "dropped"}

McpInit ==
  /\ id_counter = 1
  /\ calls = [c \in ToolCalls |-> [phase |-> "idle", id |-> 0]]
  /\ requests = {}
  /\ stdout = << >>
  /\ reader = NoCall
  /\ alive = TRUE
  /\ notified = 0
  /\ discarded = {}

-----------------------------------------------------------------------------
(* call_tool up to the end of write_line, which fails on a closed pipe.    *)
call_tool(c) ==
  /\ calls[c].phase = "idle"
  /\ id_counter' = id_counter + 1
  /\ \/ /\ alive
        /\ calls' = [calls EXCEPT ![c] = [phase |-> "written", id |-> id_counter]]
        /\ requests' = requests \cup {id_counter}
     \/ /\ ~ alive
        /\ calls' = [calls EXCEPT ![c] = [phase |-> "failed", id |-> id_counter]]
        /\ UNCHANGED requests
  /\ UNCHANGED <<stdout, reader, alive, notified, discarded>>

lock(c) ==
  /\ calls[c].phase = "written"
  /\ reader = NoCall
  /\ reader' = c
  /\ calls' = [calls EXCEPT ![c].phase = "reading"]
  /\ UNCHANGED <<id_counter, requests, stdout, alive, notified, discarded>>

(* The end of rpc: its guard of stdout is dropped.                         *)
Return(c, how) ==
  /\ calls' = [calls EXCEPT ![c].phase = how]
  /\ reader' = NoCall

(* One turn of the loop: the answer may be an error, a torn line is one.   *)
read_line(c) ==
  /\ reader = c
  /\ stdout # << >>
  /\ stdout' = Tail(stdout)
  /\ \/ /\ Head(stdout) = calls[c].id
        /\ \E how \in {"ok", "failed"} : Return(c, how)
        /\ UNCHANGED discarded
     \/ /\ Head(stdout) = Torn
        /\ Return(c, "failed")
        /\ UNCHANGED discarded
     \/ /\ Head(stdout) \notin {calls[c].id, Torn}
        /\ discarded' = discarded \cup {Head(stdout)}
        /\ UNCHANGED <<calls, reader>>
  /\ UNCHANGED <<id_counter, requests, alive, notified>>

(* A slip: the empty line at the end of the stream is skipped like others. *)
EofSkipped(c) == reader = c /\ stdout = << >> /\ ~ alive /\ UNCHANGED mcpVars

(* "subprocess closed stdout"                                              *)
Eof(c) ==
  /\ reader = c
  /\ stdout = << >>
  /\ ~ alive
  /\ Return(c, "failed")
  /\ UNCHANGED <<id_counter, requests, stdout, alive, notified, discarded>>

(* The future is dropped, in the middle of a line or between two.          *)
DropCall(c) ==
  \/ /\ calls[c].phase = "written"
     /\ calls' = [calls EXCEPT ![c].phase = "dropped"]
     /\ UNCHANGED <<reader, stdout, discarded, id_counter, requests, alive, notified>>
  \/ /\ calls[c].phase = "reading"
     /\ Return(c, "dropped")
     /\ \/ UNCHANGED <<stdout, discarded>>
        \/ /\ stdout # << >>
           /\ Head(stdout) # Torn
           /\ stdout' = <<Torn>> \o Tail(stdout)
           /\ discarded' = discarded \cup {Head(stdout)}
     /\ UNCHANGED <<id_counter, requests, alive, notified>>

-----------------------------------------------------------------------------
Respond(i) ==
  /\ alive
  /\ i \in requests
  /\ requests' = requests \ {i}
  /\ stdout' = Append(stdout, i)
  /\ UNCHANGED <<id_counter, calls, reader, alive, notified, discarded>>

Notification ==
  /\ alive
  /\ notified < MaxNotifications
  /\ notified' = notified + 1
  /\ stdout' = Append(stdout, 0)
  /\ UNCHANGED <<id_counter, calls, requests, reader, alive, discarded>>

Exit ==
  /\ alive
  /\ alive' = FALSE
  /\ UNCHANGED <<id_counter, calls, requests, stdout, reader, notified, discarded>>

McpNext ==
  \/ \E c \in ToolCalls : call_tool(c) \/ lock(c) \/ read_line(c) \/ Eof(c) \/ DropCall(c)
  \/ \E i \in requests : Respond(i)
  \/ Notification
  \/ Exit

(* Tasks are scheduled, the lock is handed on, and a subprocess that does  *)
(* not exit answers.                                                       *)
McpFairness ==
  /\ \A c \in ToolCalls : WF_mcpVars(lock(c)) /\ WF_mcpVars(read_line(c)) /\ WF_mcpVars(Eof(c))
  /\ WF_mcpVars(\E i \in requests : Respond(i))

McpSpec == McpInit /\ [][McpNext]_mcpVars /\ McpFairness

-----------------------------------------------------------------------------
Waits(c) == calls[c].phase \in {"written", "reading"}

(* A call returns, in the end, unless its own answer was thrown away by    *)
(* another call or torn by one that was dropped ("Skip notifications and   *)
(* responses for other ids", stdio.rs:149): nothing else can hold it up,   *)
(* neither the lock, nor notifications, nor the end of the subprocess.     *)
CallsReturn == \A c \in ToolCalls : Waits(c) ~> (calls[c].phase \in Ended \/ calls[c].id \in discarded)

(* The answer a call waits for is on its way, in the pipe, or known to be  *)
(* thrown away; and no two calls wait for the same one.                    *)
AnswerAccounted ==
  \A c \in ToolCalls : Waits(c) =>
    /\ calls[c].id \in requests \cup ToSet(stdout) \cup discarded
    /\ \A d \in ToolCalls \ {c} : calls[d].id # calls[c].id

=============================================================================
