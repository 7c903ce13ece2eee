----------------------------- MODULE JsonLineClient -----------------------------
(***************************************************************************)
(* The client half of scripts/codex_runtime_probe.py: JsonLineRpcClient    *)
(* and the app-server process it talks to. The main thread writes requests *)
(* to the child's stdin; a daemon thread moves the lines of its stdout     *)
(* into a queue, and None after the last one; close() closes stdin, waits, *)
(* terminates, waits, kills and waits.                                     *)
(*                                                                         *)
(* This module holds the client's state, what the child and the reading    *)
(* thread do on their own, and the effect of each thing the main thread    *)
(* does to the client. RuntimeProbe says when the main thread does it.     *)
(*                                                                         *)
(* A line is a result for a request id, a notification, or "junk": every   *)
(* line that makes request() raise whatever its id (an error answer, no    *)
(* result, a request of the server, an oversized or non-JSON line, a       *)
(* result for an id that is never used).                                   *)
(***************************************************************************)
EXTENDS Naturals, Sequences

CONSTANTS
    Requests,  \* requests the main thread makes at most
    Timeout,   \* the deadline of a request, in ticks of the clock
    Grace,     \* the longest wait of close(), in ticks of the clock
    MaxLines   \* bound: lines in the pipe, and in the queue

ASSUME ClientAssumption ==
    /\ Requests \in Nat /\ Timeout \in Nat \ {0} /\ Grace \in Nat
    /\ MaxLines \in Nat \ {0}

VARIABLES
    child,   \* the app-server: "none", "running" or "exited"
    signal,  \* the last signal it was sent: "none", "term" or "kill"
    stdin,   \* its stdin: "open" or "closed"
    stdout,  \* lines it has written and nobody has read
    reader,  \* _read_stdout: "off", "reading" or "done"
    queue,   \* _response_lines
    nextId,  \* _next_id
    clock    \* ticks left of the wait the main thread is in

clientVars == <<child, signal, stdin, stdout, reader, queue, nextId, clock>>

Line ==
    [kind : {"result"}, id : 0 .. Requests - 1] \cup [kind : {"notification", "junk"}]

Eof == [kind |-> "eof"]

ClientTypeOK ==
    /\ child \in {"none", "running", "exited"}
    /\ signal \in {"none", "term", "kill"}
    /\ stdin \in {"open", "closed"}
    /\ stdout \in Seq(Line)
    /\ reader \in {"off", "reading", "done"}
    /\ queue \in Seq(Line \cup {Eof})
    /\ nextId \in 0 .. Requests
    /\ clock \in Nat

ClientInit ==
    /\ child = "none"
    /\ signal = "none"
    /\ stdin = "closed"
    /\ stdout = <<>>
    /\ reader = "off"
    /\ queue = <<>>
    /\ nextId = 0
    /\ clock = 0

-----------------------------------------------------------------------------
(* The child, a process of its own: it writes what it likes until it       *)
(* closes its stdout, and ends when it likes; a killed one ends.           *)

Write(line) ==
    /\ child = "running" /\ reader = "reading"
    /\ Len(stdout) < MaxLines
    /\ stdout' = Append(stdout, line)
    /\ UNCHANGED <<child, signal, stdin, reader, queue, nextId, clock>>

End ==
    /\ child = "running"
    /\ child' = "exited"
    /\ UNCHANGED <<signal, stdin, stdout, reader, queue, nextId, clock>>

Die == signal = "kill" /\ End

-----------------------------------------------------------------------------
(* The thread that runs _read_stdout.                                      *)

ReadLine ==
    /\ reader = "reading"
    /\ stdout # <<>>
    /\ Len(queue) < MaxLines
    /\ queue' = Append(queue, Head(stdout))
    /\ stdout' = Tail(stdout)
    /\ UNCHANGED <<child, signal, stdin, reader, nextId, clock>>

(* The child has exited or, while it runs on, closed its stdout.           *)
ReadEof ==
    /\ reader = "reading"
    /\ stdout = <<>>
    /\ queue' = Append(queue, Eof)
    /\ reader' = "done"
    /\ UNCHANGED <<child, signal, stdin, stdout, nextId, clock>>

ReadStdout == ReadLine \/ ReadEof

-----------------------------------------------------------------------------
(* What the main thread does to the client.                                *)

Tick ==
    /\ clock > 0
    /\ clock' = clock - 1
    /\ UNCHANGED <<child, signal, stdin, stdout, reader, queue, nextId>>

(* Popen and JsonLineRpcClient.__init__.                                   *)
Connect ==
    /\ child' = "running"
    /\ stdin' = "open"
    /\ reader' = "reading"
    /\ UNCHANGED <<signal, stdout, queue, nextId, clock>>

(* _send writes to a pipe that has no reader once the child has exited; it *)
(* has none either if the child runs on and has closed its stdin, so that  *)
(* a write may fail at any time.                                           *)
Connected == child # "exited"

(* The id is taken before the request is sent, the deadline set after it.  *)
SendRequest ==
    /\ Connected
    /\ nextId' = nextId + 1
    /\ clock' = Timeout
    /\ UNCHANGED <<child, signal, stdin, stdout, reader, queue>>

SendFails ==
    /\ nextId' = nextId + 1
    /\ UNCHANGED <<child, signal, stdin, stdout, reader, queue, clock>>

(* Mutant: the deadline begins anew with each line. *)
TakeAndWait ==
    /\ queue' = Tail(queue)
    /\ clock' = Timeout
    /\ UNCHANGED <<child, signal, stdin, stdout, reader, nextId>>

Take ==
    /\ queue' = Tail(queue)
    /\ UNCHANGED <<child, signal, stdin, stdout, reader, nextId, clock>>

(* Mutant: any result will do. *)
AnyResult(line) == line.kind = "result"

(* The answer to the request whose id was taken last.                      *)
IsAnswer(line) == line.kind = "result" /\ line.id + 1 = nextId

IsNotification(line) == line.kind = "notification"

CloseStdin ==
    /\ stdin' = "closed"
    /\ clock' = Grace
    /\ UNCHANGED <<child, signal, stdout, reader, queue, nextId>>

(* terminate() and kill() signal a child that has not been waited for.     *)
SendSignal(s) ==
    /\ signal' = s
    /\ clock' = Grace
    /\ UNCHANGED <<child, stdin, stdout, reader, queue, nextId>>

(* The wait returns and the client is dropped: its queue, and what is left *)
(* in a pipe that has lost its writer, are never looked at again.          *)
Drop ==
    /\ clock' = 0
    /\ stdout' = <<>>
    /\ reader' = "done"
    /\ queue' = <<>>
    /\ UNCHANGED <<child, signal, stdin, nextId>>
=============================================================================
