--------------------------- MODULE ChangeLogFile ---------------------------
(* How the change log gets into changelog.txt (handlers/changelog.go, Write  *)
(* and GetChanges).  Write points the output of the standard logger, which   *)
(* the whole process shares, at the file, logs the change log through it and *)
(* points it back at stderr.  Requests call Write concurrently, and the      *)
(* websocket code logs its own lines through the same logger.                *)
(*                                                                           *)
(* An element of Call is one call of Write, with a file handle of its own.   *)
(* The logger's mutex makes SetOutput and Printf atomic; nothing makes their *)
(* sequence atomic.                                                          *)
EXTENDS Integers, Sequences, Functions

CONSTANTS Call,      \* the calls of Write
          Socket,    \* author of the lines of the websocket code
          MaxLines   \* bound: lines the websocket code logs

ASSUME FileAssumption ==
  Socket \notin Call /\ "stderr" \notin Call /\ MaxLines \in Nat

VARIABLES
  dest,       \* where the standard logger writes: "stderr" or a call's handle
  pc,         \* pc[c]: the next statement of the call
  handle,     \* handle[c]: the handle os.OpenFile gave: none, nil, open, closed
  file,       \* changelog.txt: the author of each line, in order
  lines,      \* lines the websocket code has logged
  overlapped  \* history: the calls that ran while another one did

vars == <<dest, pc, handle, file, lines, overlapped>>

Running == {c \in Call : pc[c] \notin {"called", "done"}}

Init ==
  /\ dest = "stderr"
  /\ pc = [c \in Call |-> "called"]
  /\ handle = [c \in Call |-> "none"]
  /\ file = <<>>
  /\ lines = 0
  /\ overlapped = {}

Goto(c, l) == pc' = [pc EXCEPT ![c] = l]

(* A line logged now: a write to a nil or closed handle is an error the      *)
(* logger drops.                                                             *)
Log(author) ==
  file' = IF dest \in Call /\ handle[dest] = "open"
            THEN Append(file, author) ELSE file

(* Mutant of Open: the call goes straight on to print its entry.             *)
OpenSetsNothing(c) ==
  /\ pc[c] = "called"
  /\ \E h \in {"open", "nil"} : handle' = [handle EXCEPT ![c] = h]
  /\ overlapped' = IF Running = {} THEN overlapped
                   ELSE overlapped \cup Running \cup {c}
  /\ Goto(c, "print")
  /\ UNCHANGED <<dest, file, lines>>

(* An error of os.OpenFile is noted, and the call goes on with a nil handle. *)
Open(c) ==
  /\ pc[c] = "called"
  /\ \E h \in {"open", "nil"} : handle' = [handle EXCEPT ![c] = h]
  /\ overlapped' = IF Running = {} THEN overlapped
                   ELSE overlapped \cup Running \cup {c}
  /\ Goto(c, "set")
  /\ UNCHANGED <<dest, file, lines>>

SetOutput(c) ==
  /\ pc[c] = "set"
  /\ dest' = c
  /\ Goto(c, "print")
  /\ UNCHANGED <<handle, file, lines, overlapped>>

Printf(c) ==
  /\ pc[c] = "print"
  /\ Log(c)
  /\ Goto(c, "reset")
  /\ UNCHANGED <<dest, handle, lines, overlapped>>

(* Mutant of Reset: the file is closed with the output still on it.          *)
ResetForgotten(c) ==
  /\ pc[c] = "reset"
  /\ Goto(c, "close")
  /\ UNCHANGED <<dest, handle, file, lines, overlapped>>

(* Mutant of Reset: the file is closed first and the output restored after.  *)
ResetAfterClose(c) ==
  \/ /\ pc[c] = "reset" /\ handle[c] = "open"
     /\ handle' = [handle EXCEPT ![c] = "closed"]
     /\ UNCHANGED <<dest, pc, file, lines, overlapped>>
  \/ /\ pc[c] = "reset" /\ handle[c] # "open"
     /\ dest' = "stderr"
     /\ Goto(c, "close")
     /\ UNCHANGED <<handle, file, lines, overlapped>>

Reset(c) ==
  /\ pc[c] = "reset"
  /\ dest' = "stderr"
  /\ Goto(c, "close")
  /\ UNCHANGED <<handle, file, lines, overlapped>>

Close(c) ==
  /\ pc[c] = "close"
  /\ handle' = [handle EXCEPT ![c] = IF @ = "open" THEN "closed" ELSE @]
  /\ Goto(c, "done")
  /\ UNCHANGED <<dest, file, lines, overlapped>>

(* run() and ServeWebsocket log that a socket came or went, or a message.    *)
SocketLine ==
  /\ lines < MaxLines
  /\ lines' = lines + 1
  /\ Log(Socket)
  /\ UNCHANGED <<dest, pc, handle, overlapped>>

Write(c) == Open(c) \/ SetOutput(c) \/ Printf(c) \/ Reset(c) \/ Close(c)

Next == SocketLine \/ \E c \in Call : Write(c)

Spec == Init /\ [][Next]_vars

-----------------------------------------------------------------------------
TypeOK ==
  /\ dest \in {"stderr"} \cup Call
  /\ pc \in [Call -> {"called", "set", "print", "reset", "close", "done"}]
  /\ handle \in [Call -> {"none", "nil", "open", "closed"}]
  /\ file \in Seq(Call \cup {Socket})
  /\ lines \in 0..MaxLines
  /\ overlapped \subseteq Call

(* The logger of the process never points at a file that has been closed,    *)
(* however calls of Write overlap: no line of any part of the server is      *)
(* dropped for that.                                                         *)
NeverOnClosed == dest \in Call => handle[dest] # "closed"

(* When no Write is in progress the logger is back on stderr, so that the    *)
(* websocket lines of a quiet server do not end up in the change log.        *)
EndsOnStderr == Running = {} => dest = "stderr"

(* changelog.go 77: Write appends to the change log file.  A call that no    *)
(* other call overlapped and that could open the file has done so, whatever  *)
(* the websocket code logged meanwhile.                                      *)
AloneAppends ==
  \A c \in Call :
    pc[c] = "done" /\ handle[c] = "closed" /\ c \notin overlapped
      => c \in Range(file)

-----------------------------------------------------------------------------
(* The inductive invariant.  The logger points at a call's handle only       *)
(* between its SetOutput and a reset, while the handle is not closed.        *)

HandleOf ==
  \A c \in Call :
    /\ pc[c] = "called" => handle[c] = "none"
    /\ pc[c] \in {"set", "print", "reset", "close"}
         => handle[c] \in {"nil", "open"}

DestOfRunning == dest \in Call => pc[dest] \in {"print", "reset"}

(* A call nothing has overlapped runs alone, prints to its own handle and    *)
(* has then put its entry in the file.                                       *)
RunsAlone ==
  \A c \in Running \ overlapped : Running = {c}

PrintsToOwn ==
  \A c \in Call \ overlapped : pc[c] = "print" => dest = c

HasPrinted ==
  \A c \in Call \ overlapped :
    pc[c] \in {"reset", "close", "done"} /\ handle[c] \in {"open", "closed"}
      => c \in Range(file)

LoggerInv ==
  TypeOK /\ HandleOf /\ DestOfRunning /\ RunsAlone /\ PrintsToOwn /\ HasPrinted

=============================================================================
