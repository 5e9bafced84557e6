------------------------------ MODULE McpServer -----------------------------
(***************************************************************************)
(* A session with the MCP server (treesmith-mcp: serve, protocol.rs,       *)
(* tools.rs): JSON-RPC over stdin and stdout, in front of the workspace    *)
(* that WarmTree keeps warm.                                               *)
(*                                                                         *)
(* The client writes lines and takes answers when it likes; either pipe    *)
(* may be full.  The request loop reads a line, routes it, and writes the  *)
(* answer before it reads the next.  A tools/call runs against the         *)
(* workspace; the loop is back once WarmTree is idle again.                *)
(***************************************************************************)
EXTENDS WarmTree, Sequences, SequencesExt

CONSTANTS
  RequestIds,   \* ids of requests; the client has each once on its way
  NoRequest,    \* the id of a notification, of what is not JSON, of nothing
  Inputs,       \* what the client sends
  PipeSize      \* how many lines a pipe holds

(* What a line is, as the loop tells them apart: no text, text that is not *)
(* UTF-8, text that is not JSON, or a message with a method.  query stands *)
(* for the tools that read, write for the tools that write, and other for  *)
(* a call of no tool or without the arguments it needs.                    *)
Methods ==
  {"initialize", "notifications/initialized", "ping", "tools/list", "unknown",
   "call query", "call write", "call other"}
Calls   == {"call query", "call write", "call other"}
Line    == [is : {"blank", "not UTF-8", "not JSON"}, id : {NoRequest}]
             \cup [is : Methods, id : RequestIds \cup {NoRequest}]

Replies == {"parse error", "error", "result", "tool result", "tool error"}
NoLine == [is |-> "blank", id |-> NoRequest]

ASSUME SessionAssumption ==
  NoRequest \notin RequestIds /\ Inputs \subseteq Line /\ PipeSize \in Nat \ {0}

VARIABLES
  stdin,     \* lines the loop has not read
  stdout,    \* answers the client has not taken
  current,   \* the line the loop is at
  reply,     \* what it is to be answered with, once that is known
  session,   \* "open", "closed": no more lines will come, "over"
  owed,      \* history: requests that the client sent and has no answer to
  acked      \* history: the last write that was done, until the file changes

sessionVars == <<stdin, stdout, current, reply, session, owed, acked>>
allVars == <<vars, sessionVars>>

NoAck == [file |-> Toml, bytes |-> Alien]

SessionTypeOK ==
  /\ stdin \in Seq(Inputs)
  /\ stdout \in Seq([id : RequestIds \cup {NoRequest}, is : Replies])
  /\ current \in Inputs \cup {NoLine}
  /\ reply \in Replies \cup {"none"}
  /\ session \in {"open", "closed", "over"}
  /\ owed \in Seq(RequestIds)

SessionInit ==
  /\ Init
  /\ stdin = <<>> /\ stdout = <<>> /\ current = NoLine /\ reply = "none"
  /\ session = "over" /\ owed = <<>> /\ acked = NoAck

-----------------------------------------------------------------------------
(* The client sends a line: a request is one with an id, whatever it asks. *)
Send(line) ==
  /\ session = "open"
  /\ Len(stdin) < PipeSize
  /\ line.id \notin ToSet(owed)
  /\ stdin' = Append(stdin, line)
  /\ owed' = IF line.id = NoRequest THEN owed ELSE Append(owed, line.id)
  /\ UNCHANGED <<vars, stdout, current, reply, session, acked>>

(* It takes an answer; one without an id it can only take note of.         *)
Receive ==
  /\ stdout # <<>>
  /\ stdout' = Tail(stdout)
  /\ \/ stdout[1].id \notin ToSet(owed) /\ UNCHANGED owed
     \/ \E i \in DOMAIN owed : owed[i] = stdout[1].id /\ owed' = RemoveAt(owed, i)
  /\ UNCHANGED <<vars, stdin, current, reply, session, acked>>

(* It closes its end: the server reads what is left, then the end of file. *)
CloseInput ==
  /\ session = "open"
  /\ session' = "closed"
  /\ UNCHANGED <<vars, stdin, stdout, current, reply, owed, acked>>

-----------------------------------------------------------------------------
(* Mutant: what is no known method is an error, id or not.                 *)
RouteUnknown(line) ==
  CASE line.is = "not JSON" -> "parse error"
    [] line.is = "unknown" -> "error"
    [] line.is \in {"blank", "notifications/initialized"} -> "ignore"
    [] line.is \notin {"not JSON", "unknown", "blank", "notifications/initialized"} ->
         IF line.id = NoRequest THEN "ignore" ELSE IF line.is \in Calls THEN "call" ELSE "result"

(* What becomes of a line that could be read (serve and route).  What is   *)
(* not JSON is answered, with a null id.                                   *)
Route(line) ==
  CASE line.is = "not JSON" -> "parse error"
    [] line.is \in {"blank", "notifications/initialized"} -> "ignore"
    [] line.is \in Methods \ {"notifications/initialized"} ->
         IF line.id = NoRequest THEN "ignore"
         ELSE IF line.is \in Calls THEN "call"
         ELSE IF line.is = "unknown" THEN "error"
         ELSE "result"

ReadLine(line) ==
  /\ pc = "idle" /\ current = NoLine
  /\ stdin # <<>> /\ line = stdin[1] /\ line.is # "not UTF-8"
  /\ stdin' = Tail(stdin)

(* A line that needs no workspace.                                         *)
Handle(line) ==
  /\ ReadLine(line)
  /\ Route(line) # "call"
  /\ IF Route(line) = "ignore"
       THEN UNCHANGED <<current, reply>>
       ELSE current' = line /\ reply' = Route(line)
  /\ UNCHANGED <<vars, stdout, session, owed, acked>>

(* handle_message of a call takes the workspace and refreshes it first.    *)
StartCall(line) ==
  /\ ReadLine(line)
  /\ Route(line) = "call"
  /\ BeginCall
  /\ current' = line
  /\ UNCHANGED <<stdout, reply, session, owed, acked>>

(* write_message, once the pipe has room.                                  *)
WriteMessage ==
  /\ reply # "none" /\ Len(stdout) < PipeSize
  /\ stdout' = Append(stdout, [id |-> current.id, is |-> reply])
  /\ reply' = "none" /\ current' = NoLine
  /\ UNCHANGED <<vars, stdin, session, owed, acked>>

-----------------------------------------------------------------------------
(* dispatch and run: only a tool that writes, and only one that is not     *)
(* refused, goes to the disk.                                              *)
Dispatch ==
  \/ Answer
  \/ /\ current.is = "call write"
     /\ \/ \E id \in Ids, v \in Vals : SetField(id, v)
        \/ \E id \in Ids, f \in Files, v \in Vals : Forge(id, f, v)

(* A refusal, a failed write and a report with findings are errors of the  *)
(* tool, never of the protocol.  So is a write that is done when the item  *)
(* has vanished from its file before the graph read it (mutate_result).    *)
Outcomes ==
  CASE pc = "exec" /\ current.is = "call query" -> {"tool result", "tool error"}
    [] pc = "exec" /\ current.is # "call query" -> {"tool error"}
    [] pc \in {"truncate", "fill"}              -> {"tool error"}
    [] pc \notin {"exec", "truncate", "fill"}   ->
         IF acked = NoAck THEN {"tool result", "tool error"} ELSE {"tool result"}

(* Mutant: a write that fails is left without an answer.                   *)
ConcludeWritten ==
  IF pc' # "idle" \/ current = NoLine
    THEN UNCHANGED <<current, reply>>
    ELSE IF pc = "fill" THEN current' = NoLine /\ UNCHANGED reply
    ELSE reply' \in Outcomes /\ UNCHANGED current

(* A call is over when the server is idle again.                           *)
Conclude ==
  IF pc' # "idle" \/ current = NoLine
    THEN UNCHANGED <<current, reply>>
    ELSE reply' \in Outcomes /\ UNCHANGED current

(* The write that is done counts until its file is changed again.          *)
Acknowledge ==
  acked' = IF pc = "fill" /\ pc' = "refresh"
             THEN [file |-> write.file, bytes |-> write.bytes]
           ELSE IF disk'[acked.file] # disk[acked.file] THEN NoAck
           ELSE acked

(* The server's own steps, up to the tool, and from it to the end of a     *)
(* write.                                                                  *)
Work ==
  /\ \/ \E f \in Files : WalkOne(f) \/ ParseOne(f) \/ RefreshOne(f)
     \/ \E outcome \in {"alive", "failed"} : StartWatcher(outcome)
     \/ ReloadConfig \/ Dispatch \/ Truncate \/ Fill
  /\ Acknowledge
  /\ Conclude
  /\ UNCHANGED <<stdin, stdout, session, owed>>

-----------------------------------------------------------------------------
(* The client launches the server; what it sends waits for the scan.       *)
Launch ==
  /\ Open
  /\ session' = "open"
  /\ UNCHANGED <<stdin, stdout, current, reply, owed, acked>>

(* The process is gone and with it both pipes.                             *)
Gone ==
  /\ stdin' = <<>> /\ stdout' = <<>> /\ current' = NoLine /\ reply' = "none"
  /\ session' = "over" /\ owed' = <<>> /\ acked' = NoAck

Die == Kill /\ Gone

(* serve ends at the end of file, and with an error at a line that is not  *)
(* UTF-8.  The client has taken what was answered before.                  *)
End ==
  /\ pc = "idle" /\ current = NoLine /\ stdout = <<>>
  /\ \/ stdin = <<>> /\ session = "closed"
     \/ stdin # <<>> /\ stdin[1].is = "not UTF-8"
  /\ Gone
  /\ pc' = "down" /\ then' = "watch"
  /\ watcher' = "unborn" /\ chan' = {} /\ dirty' = {}
  /\ files' = [f \in Files |-> None] /\ repo' = {} /\ todo' = {} /\ cand' = {}
  /\ config' = DefaultConfig /\ write' = NoWrite
  /\ missed' = {} /\ excused' = {}
  /\ UNCHANGED <<disk, bounds>>

-----------------------------------------------------------------------------
(* The request loop is one thread.                                         *)
Loop ==
  \/ \E line \in Inputs : Handle(line) \/ StartCall(line)
  \/ Work \/ WriteMessage \/ End

Elsewhere == Acknowledge /\ UNCHANGED <<stdin, stdout, current, reply, session, owed>>

WatcherThread(f) == (Deliver(f) \/ DropError(f)) /\ Elsewhere

SessionNext ==
  \/ Loop \/ Launch \/ Die
  \/ \E line \in Inputs : Send(line)
  \/ Receive \/ CloseInput
  \/ \E f \in Files : WatcherThread(f)
  \/ \E f \in Files : \E content \in EditContents \cap HeldBy(f) :
       Edit(f, content) /\ Elsewhere

(***************************************************************************)
(* The loop never stops, the watcher's thread takes every event, and the   *)
(* client takes its answers: the server waits for it with a full pipe.     *)
(* Nobody has to send, to edit or to launch the server.                    *)
(***************************************************************************)
SessionFairness ==
  /\ WF_allVars(Loop) /\ WF_allVars(Receive)
  /\ \A f \in Files : WF_allVars(WatcherThread(f))

SessionSpec == SessionInit /\ [][SessionNext]_allVars
FairSessionSpec == SessionSpec /\ SessionFairness

-----------------------------------------------------------------------------
IdsOf(lines) == [i \in DOMAIN lines |-> lines[i].id]
InHand == IF current = NoLine THEN <<>> ELSE <<current>>

(* What is answered and not yet taken, under way, or not yet read.         *)
Pipeline == IdsOf(stdout) \o IdsOf(InHand) \o IdsOf(stdin)

(* p holds the requests of o, each once and in the order of o, and what is *)
(* no request.                                                             *)
Matches(o, p) ==
  /\ ToSet(o) = ToSet(p) \ {NoRequest}
  /\ \A k, l \in DOMAIN p : p[k] = p[l] /\ p[k] # NoRequest => k = l
  /\ \A i, j \in DOMAIN o :
       i < j => \E k, l \in DOMAIN p : k < l /\ p[k] = o[i] /\ p[l] = o[j]

(* The books of the client and of the server agree: what is owed to the    *)
(* client is, in the order it asked, answered and not yet taken, under     *)
(* way, or not yet read.  No request is answered twice or out of order, no *)
(* notification is, and none is forgotten while calls fail, writes fail    *)
(* and pipes are full.                                                     *)
AnswersMatchRequests ==
  /\ \A answer \in ToSet(stdout) : answer.id = NoRequest => answer.is = "parse error"
  /\ Matches(owed, Pipeline)

(* "Writes made through the server refresh the graph as part of the write  *)
(* path itself" (docs/mcp.md:115): whatever the watcher says or loses, a   *)
(* call that follows a write finds what was written, as long as nobody     *)
(* else changed the file.                                                  *)
ReadsOwnWrites ==
  pc \in {"idle", "exec"} /\ acked # NoAck =>
    /\ disk[acked.file] = acked.bytes
    /\ files[acked.file] = ParseFile(acked.bytes)

(* Every request is answered, or the session ends.                         *)
RequestsAnswered ==
  \A id \in RequestIds : (id \in ToSet(owed)) ~> (id \notin ToSet(owed))
=============================================================================
