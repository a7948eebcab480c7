------------------------------ MODULE Control ------------------------------
(***************************************************************************)
(* One control connection: tasks that issue commands, the queue of those   *)
(* that wait, tor's answers in the order of the commands, and the reader.  *)
(*   src/crates/core/src/transport/control/{mod,reply,events}.rs           *)
(* A line names its command, the shape of the reply it is of and its place *)
(* in it.  A shape is the kinds of the lines: "more", a data block ("data",*)
(* "text", "dot"), "end"; events come between any two of them.             *)
(***************************************************************************)
EXTENDS Naturals, Sequences, Functions

CONSTANTS
  Cmds,        \* 1..n: commands, in the order they are issued
  Shapes,      \* the line sequences tor answers with
  MaxEvents    \* asynchronous events

\* The line i of a reply of this shape is its last one: CCC and a space, not in
\* a data block.
Ends(shape, i) ==
  /\ shape[i] = "end"
  /\ ~\E a \in 1..(i - 1) : shape[a] = "data" /\ \A b \in (a + 1)..(i - 1) : shape[b] # "dot"

ASSUME ControlAssumption ==
  /\ \A c \in Cmds : c \in Nat \ {0} /\ 1..c \subseteq Cmds
  /\ \A shape \in Shapes :
       /\ shape \in Seq({"more", "data", "text", "dot", "end"}) /\ shape # <<>>
       /\ \A i \in DOMAIN shape : Ends(shape, i) <=> i = Len(shape)

VARIABLES
  cmd,       \* every command: its state and the reply it was given
  pending,   \* Shared::pending
  torQueue,  \* commands tor has read and not answered
  lines,     \* lines on the way to the reader, each with its command
  parser,    \* ReplyParser: the lines of the reply in progress
  socket,    \* "up", "down" on tor's side, or "broken": a write has failed
  reading,   \* the reader loop runs
  events, torn

controlVars == <<cmd, pending, torQueue, lines, parser, socket, reading, events, torn>>

NoReply == <<>>

Line(c, shape, i) == [of |-> c, shape |-> shape, at |-> i]
EventLine == Line(0, <<"event">>, 1)
Kind(line) == line.shape[line.at]

ControlInit ==
  /\ cmd = [c \in Cmds |-> [st |-> "new", reply |-> NoReply]]
  /\ pending = <<>> /\ torQueue = <<>> /\ lines = <<>> /\ parser = <<>>
  /\ socket = "up" /\ reading = TRUE /\ events = 0 /\ torn = FALSE

Set(cs, how) == [c \in Cmds |-> IF c \in cs THEN [cmd[c] EXCEPT !.st = how] ELSE cmd[c]]
Waits(c) == cmd[c].st = "waits"
Issues(c) == cmd[c].st = "new" /\ \A b \in 1..(c - 1) : cmd[b].st # "new"

-----------------------------------------------------------------------------
(* cmd(): the budget, the write under the lock, the wait *)

Cmd_Limited(c) ==
  /\ Issues(c) /\ cmd' = Set({c}, "limited")
  /\ UNCHANGED <<pending, torQueue, lines, parser, socket, reading, events, torn>>

Cmd_Written(c) ==
  /\ Issues(c) /\ socket # "broken"
  /\ cmd' = Set({c}, "waits")
  /\ pending' = Append(pending, c)
  /\ torQueue' = IF socket = "up" THEN Append(torQueue, c) ELSE torQueue
  /\ UNCHANGED <<lines, parser, socket, reading, events, torn>>

\* A write fails, and every later one: the command was not queued yet, so
\* the waiter that is dropped is the last one before it.
Cmd_NotWritten(c) ==
  LET last == IF pending = <<>> THEN {} ELSE {pending[Len(pending)]} IN
  /\ Issues(c) /\ socket # "up" /\ socket' = "broken"
  /\ cmd' = [Set({b \in last : Waits(b)}, "closed") EXCEPT ![c].st = "failed"]
  /\ pending' = IF pending = <<>> THEN <<>> ELSE SubSeq(pending, 1, Len(pending) - 1)
  /\ UNCHANGED <<torQueue, lines, parser, reading, events, torn>>

\* The issuing task is aborted (Transport::stop) after the bytes went out and
\* before the waiter is queued.
Cmd_Aborted(c) ==
  /\ Issues(c) /\ socket = "up"
  /\ cmd' = Set({c}, "aborted")
  /\ torQueue' = Append(torQueue, c) /\ torn' = TRUE
  /\ UNCHANGED <<pending, lines, parser, socket, reading, events>>

\* As it would be if a command that gives up left the queue.
Cmd_TimesOut_Leaves(c) ==
  /\ Waits(c) /\ cmd' = Set({c}, "timedout")
  /\ pending' = SelectSeq(pending, LAMBDA b : b # c)
  /\ UNCHANGED <<torQueue, lines, parser, socket, reading, events, torn>>

\* Thirty seconds: the waiter is gone, its place in the queue stays.
Cmd_TimesOut(c) ==
  /\ Waits(c) /\ cmd' = Set({c}, "timedout")
  /\ UNCHANGED <<pending, torQueue, lines, parser, socket, reading, events, torn>>

-----------------------------------------------------------------------------
(* Tor *)

Answers ==
  /\ socket = "up" /\ torQueue # <<>> /\ torQueue' = Tail(torQueue)
  /\ \E shape \in Shapes :
       lines' = lines \o [i \in DOMAIN shape |-> Line(Head(torQueue), shape, i)]
  /\ UNCHANGED <<cmd, pending, parser, socket, reading, events, torn>>

\* An event, also between the lines of a reply.
Event ==
  /\ socket = "up" /\ events < MaxEvents /\ events' = events + 1
  /\ \E i \in 0..Len(lines) :
       lines' = SubSeq(lines, 1, i) \o <<EventLine>> \o SubSeq(lines, i + 1, Len(lines))
  /\ UNCHANGED <<cmd, pending, torQueue, parser, socket, reading, torn>>

Breaks ==
  /\ socket = "up" /\ socket' = "down"
  /\ UNCHANGED <<cmd, pending, torQueue, lines, parser, reading, events, torn>>

-----------------------------------------------------------------------------
(* reader_loop and ReplyParser::feed *)

\* Inside a data block until the lone dot.
InBlock(p) ==
  \E i \in DOMAIN p : Kind(p[i]) = "data" /\ \A j \in (i + 1)..Len(p) : Kind(p[j]) # "dot"

Complete(p, line) == ~InBlock(p) /\ Kind(line) = "end"

Feed ==
  LET line == Head(lines)
      whole == Append(parser, line)
  IN
  /\ reading /\ lines # <<>> /\ lines' = Tail(lines)
  /\ \/ Kind(line) = "event" /\ UNCHANGED <<cmd, pending, parser>>
     \/ /\ Kind(line) # "event" /\ ~Complete(parser, line)
        /\ parser' = whole /\ UNCHANGED <<cmd, pending>>
     \/ /\ Kind(line) # "event" /\ Complete(parser, line)
        /\ parser' = <<>>
        /\ IF pending = <<>>
             THEN UNCHANGED <<cmd, pending>>
             ELSE /\ pending' = Tail(pending)
                  /\ cmd' = IF Waits(Head(pending))
                              THEN [cmd EXCEPT ![Head(pending)] = [st |-> "done", reply |-> whole]]
                              ELSE cmd
  /\ UNCHANGED <<torQueue, socket, reading, events, torn>>

\* The end of the stream, after what was on the way, or a line that is no
\* reply: every waiter is failed.
ReaderEnds ==
  /\ reading /\ reading' = FALSE
  /\ socket # "up" => lines = <<>>
  /\ pending' = <<>> /\ lines' = <<>>
  /\ cmd' = Set({c \in Range(pending) : Waits(c)}, "closed")
  /\ UNCHANGED <<torQueue, parser, socket, events, torn>>

ControlNext ==
  \/ \E c \in Cmds : \/ Cmd_Limited(c) \/ Cmd_Written(c) \/ Cmd_NotWritten(c)
                     \/ Cmd_Aborted(c) \/ Cmd_TimesOut(c)
  \/ Answers \/ Event \/ Breaks \/ Feed \/ ReaderEnds

ControlSpec == ControlInit /\ [][ControlNext]_controlVars

-----------------------------------------------------------------------------
(* Properties *)

(* Every command that gets a reply gets its own, whole: commands that time *)
(* out and are answered later, writes that fail, events between the lines  *)
(* and unsolicited replies never shift the answers.  The exception is a    *)
(* task aborted between the write and the queue (`torn`).                  *)
ReplyIsOwn ==
  ~torn => \A c \in Cmds : cmd[c].st = "done" =>
    /\ \A i \in DOMAIN cmd[c].reply : cmd[c].reply[i].of = c
    /\ [i \in DOMAIN cmd[c].reply |-> Kind(cmd[c].reply[i])] \in Shapes

=============================================================================
