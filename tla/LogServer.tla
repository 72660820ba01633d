----------------------------- MODULE LogServer -----------------------------
(***************************************************************************)
(* The output of the program, sent over the network: the two Loggers of    *)
(* GameEngine/Network/Logger.cpp, and the log server's two threads, one    *)
(* for each stream, in LogServer/src.                                      *)
(*                                                                         *)
(* What makes it delicate are descriptors, which are numbers: the kernel   *)
(* gives the lowest that is free, and a number that is kept after its      *)
(* socket was closed means whatever is opened next.  A table of them is a  *)
(* function from numbers to what they stand for.                           *)
(*                                                                         *)
(* Faults: the program may die and be started again, the server may die, a *)
(* connection may be reset and a port be taken.  A line is written and     *)
(* received as a whole (recv may split it), and what the programs say of   *)
(* themselves, the Loggers' last words for one, is left out.               *)
(***************************************************************************)
EXTENDS Naturals, Sequences, FiniteSetsExt

CONSTANTS MaxRuns,   \* how often the program may be started
          MaxLost,   \* how many connections may be reset
          MaxLines   \* how many lines it sends, in all

ASSUME BoundAssumption == MaxRuns \in Nat \ {0} /\ {MaxLost, MaxLines} \subseteq Nat

Streams == {"out", "err"}
Standard == [out |-> 1, err |-> 2]
Descriptors == 1 .. 6

Free == <<"free">>
Terminal == <<"terminal">>
Other == <<"other">>
Listener(s) == <<"listener", s>>
Connection(s, r) == <<"connection", s, r>>
Listeners == {Listener(s) : s \in Streams}
Connections == {Connection(s, r) : s \in Streams, r \in 1 .. MaxRuns}

\* The server.  Its threads are alike; at says where each is.
VARIABLES at, serverSocket, clientSocket, connected,
          held,      \* what the accept that it waits in was called with
          files,     \* the server's descriptors
          listening, \* the streams whose port is open, with
          pending,   \* the connections that nobody has accepted
          printed    \* what has come out

\* The program, and what its connections carry.
VARIABLES state, runs,
          logger,    \* the number that each Logger has kept, 0 for none
          own,       \* the program's descriptors
          wire,      \* lines under way
          lost       \* connections that have been reset

\* History, read by no action.  written: how many lines, to each connection.
\* first: the first connection that each port has had.  foreign: a socket has
\* been closed that was not the closer's.  failed: the calls that have.
VARIABLES written, first, foreign, failed

serverVars == <<at, serverSocket, clientSocket, connected, held, files, listening,
                pending, printed>>
programVars == <<state, runs, logger, own, wire, lost>>
history == <<written, first, foreign, failed>>
logVars == <<serverVars, programVars, history>>

Empty == [n \in Descriptors |-> IF n \in {1, 2} THEN Terminal ELSE Free]

LogInit ==
  /\ at = [s \in Streams |-> "socket"]
  /\ serverSocket = [s \in Streams |-> 0] /\ clientSocket = [s \in Streams |-> 0]
  /\ connected = [s \in Streams |-> FALSE]
  /\ held = [s \in Streams |-> Free]
  /\ files = Empty
  /\ listening = {}
  /\ pending = [s \in Streams |-> <<>>]
  /\ printed = [s \in Streams |-> <<>>]
  /\ state = "off" /\ runs = 0
  /\ logger = [s \in Streams |-> 0]
  /\ own = Empty
  /\ wire = [c \in Connections |-> <<>>]
  /\ lost = {}
  /\ written = [c \in Connections |-> 0]
  /\ first = [s \in Streams |-> Free]
  /\ foreign = FALSE /\ failed = {}

-----------------------------------------------------------------------------
Lowest(table) == CHOOSE n \in Descriptors :
                   table[n] = Free /\ \A m \in Descriptors : table[m] = Free => n <= m

\* close, of a number that may stand for nothing.
Closed(table, n) == IF n \in Descriptors THEN [table EXCEPT ![n] = Free] ELSE table
At(table, n) == IF n \in Descriptors THEN table[n] ELSE Free

\* A port is open as long as a descriptor or a call holds its socket.
Remaining(table, calls) ==
  {s \in listening : Listener(s) \in {table[n] : n \in Descriptors} \union
                                     {calls[t] : t \in Streams}}

\* A socket of that stream, or nothing.
OfStream(socket, s) == socket = Free \/ (Len(socket) > 1 /\ socket[2] = s)

-----------------------------------------------------------------------------
(***************************************************************************)
(* The server's thread_main.                                               *)
(***************************************************************************)
Goes(s, from, to) == /\ at[s] = from
                     /\ at' = [at EXCEPT ![s] = to]
                     /\ UNCHANGED <<programVars, written, first>>

\* socket.  (setsockopt's failure is only told.)
Open(s) ==
  /\ Goes(s, "socket", "bind")
  /\ serverSocket' = [serverSocket EXCEPT ![s] = Lowest(files)]
  /\ files' = [files EXCEPT ![Lowest(files)] = Listener(s)]
  /\ UNCHANGED <<clientSocket, connected, held, listening, pending, printed,
                 foreign, failed>>

EarlyConnectedMutant(s) ==
  /\ Goes(s, "bind", "accept")
  /\ \/ /\ listening' = listening \union {s}
        /\ UNCHANGED <<files, foreign, failed>>
     \/ /\ files' = Closed(files, serverSocket[s])
        /\ foreign' = (foreign \/ ~OfStream(At(files, serverSocket[s]), s))
        /\ failed' = failed \union {"bind"}
        /\ UNCHANGED listening
  /\ connected' = [connected EXCEPT ![s] = TRUE]
  /\ UNCHANGED <<serverSocket, clientSocket, held, pending, printed>>

NeverConnectedMutant(s) ==
  /\ Goes(s, "bind", "accept")
  /\ \/ /\ At(files, serverSocket[s]) = Listener(s)
        /\ listening' = listening \union {s}
        /\ UNCHANGED <<files, foreign, failed>>
     \/ /\ files' = Closed(files, serverSocket[s])
        /\ foreign' = (foreign \/ ~OfStream(At(files, serverSocket[s]), s))
        /\ failed' = failed \union {"bind"}
        /\ UNCHANGED listening
  /\ UNCHANGED <<serverSocket, clientSocket, connected, held, pending, printed>>

\* bind and listen.  One that fails closes the socket, and the constructor
\* returns without a sign of it but connected.
Bind(s) ==
  /\ Goes(s, "bind", "accept")
  /\ \/ /\ At(files, serverSocket[s]) = Listener(s)
        /\ listening' = listening \union {s}
        /\ connected' = [connected EXCEPT ![s] = TRUE]
        /\ UNCHANGED <<files, foreign, failed>>
     \/ /\ files' = Closed(files, serverSocket[s])
        /\ foreign' = (foreign \/ ~OfStream(At(files, serverSocket[s]), s))
        /\ failed' = failed \union {"bind"}
        /\ UNCHANGED <<listening, connected>>
  /\ UNCHANGED <<serverSocket, clientSocket, held, pending, printed>>

\* accept is called, and waits for a connection if it was given a listening
\* socket, whosever that is; and returns -1 if not.
AcceptCall(s) ==
  LET socket == At(files, serverSocket[s])
      listens == \E t \in listening : socket = Listener(t)
  IN /\ Goes(s, "accept", IF listens THEN "accepting" ELSE "receive")
     /\ held' = [held EXCEPT ![s] = IF listens THEN socket ELSE Free]
     /\ UNCHANGED <<serverSocket, clientSocket, connected, files, listening, pending, printed,
                    foreign, failed>>

AcceptReturn(s) ==
  LET t == held[s][2]
  IN /\ Goes(s, "accepting", "receive")
     /\ pending[t] # <<>>
     /\ pending' = [pending EXCEPT ![t] = Tail(@)]
     /\ clientSocket' = [clientSocket EXCEPT ![s] = Lowest(files)]
     /\ files' = [files EXCEPT ![Lowest(files)] = Head(pending[t])]
     /\ held' = [held EXCEPT ![s] = Free]
     /\ listening' = Remaining(files', held')
     /\ UNCHANGED <<serverSocket, connected, printed, foreign, failed>>

\* What recv gives of a connection: a line, an error, or, once the program has
\* closed its end, 0 at once and for ever, which changes nothing.  (One that waits
\* would keep its socket over another thread's close, for a line; here it does not.)
Broken(socket) == socket \notin Connections \/ socket \in lost

\* ReceiveMsg in the loop, and the output of what it returns.
ReceiveMsg(s) ==
  /\ at[s] = "receive" /\ connected[s]
  /\ LET socket == At(files, clientSocket[s])
     IN \/ /\ Broken(socket)
           /\ connected' = [connected EXCEPT ![s] = FALSE]
           /\ UNCHANGED <<printed, wire>>
        \/ /\ ~Broken(socket) /\ wire[socket] # <<>>
           /\ printed' = [printed EXCEPT ![s] = Append(@, Head(wire[socket]))]
           /\ wire' = [wire EXCEPT ![socket] = Tail(@)]
           /\ UNCHANGED connected
  /\ UNCHANGED <<at, serverSocket, clientSocket, held, files, listening, pending,
                 state, runs, logger, own, lost, history>>

CloseNumber(s, n) ==
  /\ files' = Closed(files, n)
  /\ listening' = Remaining(files', held)
  /\ foreign' = (foreign \/ ~OfStream(At(files, n), s))
  /\ UNCHANGED <<serverSocket, clientSocket, connected, held, pending, printed, failed>>

\* The destructor, at the end of the thread.
Destroy(s) ==
  \/ /\ ~connected[s]
     /\ Goes(s, "receive", "half")
     /\ CloseNumber(s, serverSocket[s])
  \/ /\ Goes(s, "half", "ended")
     /\ CloseNumber(s, clientSocket[s])

Thread(s) == Open(s) \/ Bind(s) \/ AcceptCall(s) \/ AcceptReturn(s) \/ ReceiveMsg(s) \/ Destroy(s)

-----------------------------------------------------------------------------
(***************************************************************************)
(* The program.                                                            *)
(***************************************************************************)
Start ==
  /\ state = "off" /\ runs < MaxRuns
  /\ state' = "out"
  /\ runs' = runs + 1
  /\ UNCHANGED <<serverVars, logger, own, wire, lost, history>>

UnkeptSocketMutant(s) ==
  /\ state = s
  /\ state' = IF s = "out" THEN "err" ELSE "opening"
  /\ logger' = [logger EXCEPT ![s] = Lowest(own)]
  /\ \/ LET c == Connection(s, runs)
        IN /\ s \in listening
           /\ pending' = [pending EXCEPT ![s] = Append(@, c)]
           /\ own' = [own EXCEPT ![Standard[s]] = c]
           /\ first' = [first EXCEPT ![s] = IF @ = Free THEN c ELSE @]
           /\ UNCHANGED failed
     \/ /\ failed' = failed \union {"connect"}
        /\ UNCHANGED <<pending, own, first>>
  /\ UNCHANGED <<at, serverSocket, clientSocket, connected, held, files, listening, printed,
                 runs, wire, lost, written, foreign>>

\* Logger's constructor: the number is kept, whether the socket is or not.  A
\* Logger that is connected has its stream redirected; a port that is not open
\* refuses it, and anything else may be in the way as well.
NewLogger(s) ==
  /\ state = s
  /\ state' = IF s = "out" THEN "err" ELSE "opening"
  /\ logger' = [logger EXCEPT ![s] = Lowest(own)]
  /\ \/ LET c == Connection(s, runs)
        IN /\ s \in listening
           /\ pending' = [pending EXCEPT ![s] = Append(@, c)]
           /\ own' = [own EXCEPT ![Lowest(own)] = c, ![Standard[s]] = c]
           /\ first' = [first EXCEPT ![s] = IF @ = Free THEN c ELSE @]
           /\ UNCHANGED failed
     \/ /\ failed' = failed \union {"connect"}
        /\ UNCHANGED <<pending, own, first>>
  /\ UNCHANGED <<at, serverSocket, clientSocket, connected, held, files, listening, printed,
                 runs, wire, lost, written, foreign>>

\* GameEngine::Init goes on to open windows and sound, and with them
\* descriptors, one here for all.
OpenOther ==
  /\ state = "opening"
  /\ state' = "running"
  /\ own' = [own EXCEPT ![Lowest(own)] = Other]
  /\ UNCHANGED <<serverVars, runs, logger, wire, lost, history>>

\* The program is gone, and its descriptors with it.
Gone == /\ state' = "off"
        /\ own' = Empty
        /\ logger' = [s \in Streams |-> 0]

\* The server's end of a connection is open, or on its way to be.
Reaches(c) == /\ c \notin lost
              /\ \/ \E n \in Descriptors : files[n] = c
                 \/ \E s \in listening : \E i \in DOMAIN pending[s] : pending[s][i] = c

LinesWritten == MapThenSumSet(LAMBDA c : written[c], Connections)

\* A line.  One that cannot arrive is lost, and may end the program: nothing
\* has told the system to spare it SIGPIPE.
Write(s) ==
  LET c == own[Standard[s]]
  IN /\ state = "running"
     /\ c \in Connections
     /\ LinesWritten < MaxLines
     /\ written' = [written EXCEPT ![c] = @ + 1]
     /\ wire' = IF Reaches(c) THEN [wire EXCEPT ![c] = Append(@, <<s, runs, written'[c]>>)] ELSE wire
     /\ \/ UNCHANGED <<state, own, logger>>
        \/ ~Reaches(c) /\ Gone
     /\ UNCHANGED <<serverVars, runs, lost, first, foreign, failed>>

\* Logger::Close, by the destructors, in their order.
CloseLogger(s) ==
  /\ state = IF s = "out" THEN "running" ELSE "closing"
  /\ state' = IF s = "out" THEN "closing" ELSE "closed"
  /\ own' = Closed(own, logger[s])
  /\ foreign' = (foreign \/ ~OfStream(At(own, logger[s]), s))
  /\ UNCHANGED <<serverVars, runs, logger, wire, lost, written, first, failed>>

\* It ends, or dies of something.
Exit == /\ state # "off"
        /\ Gone
        /\ UNCHANGED <<serverVars, runs, wire, lost, history>>

Program == \/ Start
           \/ \E s \in Streams : NewLogger(s) \/ Write(s) \/ CloseLogger(s)
           \/ OpenOther
           \/ Exit

-----------------------------------------------------------------------------
\* The server dies, or a connection is reset, with what it carries.  (One that
\* is reset before it is accepted shows it no sooner.)
KillServer ==
  /\ \E s \in Streams : at[s] # "dead"
  /\ at' = [s \in Streams |-> "dead"]
  /\ files' = Empty
  /\ held' = [s \in Streams |-> Free]
  /\ listening' = {}
  /\ pending' = [s \in Streams |-> <<>>]
  /\ serverSocket' = [s \in Streams |-> 0] /\ clientSocket' = [s \in Streams |-> 0]
  /\ connected' = [s \in Streams |-> FALSE]
  /\ UNCHANGED <<printed, programVars, history>>

Reset(c) ==
  /\ \E n \in Descriptors : files[n] = c
  /\ Cardinality(lost) < MaxLost
  /\ lost' = lost \union {c}
  /\ wire' = [wire EXCEPT ![c] = <<>>]
  /\ UNCHANGED <<serverVars, state, runs, logger, own, history>>

LogNext == \/ \E s \in Streams : Open(s)
           \/ \E s \in Streams : Bind(s)
           \/ \E s \in Streams : AcceptCall(s)
           \/ \E s \in Streams : AcceptReturn(s)
           \/ \E s \in Streams : ReceiveMsg(s)
           \/ \E s \in Streams : Destroy(s)
           \/ Program
           \/ KillServer
           \/ \E c \in Connections : Reset(c)

\* The server's threads run.
LogFairness == \A s \in Streams : WF_logVars(Thread(s))

LogSpec == LogInit /\ [][LogNext]_logVars /\ LogFairness

-----------------------------------------------------------------------------
Line == Streams \X (1 .. MaxRuns) \X (Nat \ {0})

ServerTypes ==
  /\ at \in [Streams -> {"socket", "bind", "accept", "accepting", "receive", "half",
                         "ended", "dead"}]
  /\ serverSocket \in [Streams -> {0} \union Descriptors]
  /\ clientSocket \in [Streams -> {0} \union Descriptors]
  /\ connected \in [Streams -> BOOLEAN]
  /\ held \in [Streams -> {Free} \union Listeners]
  /\ files \in [Descriptors -> {Free, Terminal} \union Listeners \union Connections]
  /\ listening \subseteq Streams
  /\ pending \in [Streams -> Seq(Connections)]
  /\ printed \in [Streams -> Seq(Line)]

ProgramTypes ==
  /\ state \in {"off", "out", "err", "opening", "running", "closing", "closed"}
  /\ runs \in 0 .. MaxRuns
  /\ logger \in [Streams -> {0} \union Descriptors]
  /\ own \in [Descriptors -> {Free, Terminal, Other} \union Connections]
  /\ wire \in [Connections -> Seq(Line)]
  /\ lost \subseteq Connections

LogTypeOK == /\ ServerTypes
             /\ ProgramTypes
             /\ written \in [Connections -> Nat]
             /\ failed \subseteq {"bind", "connect"} /\ foreign \in BOOLEAN

\* What the server prints on a stream is what one run of the program has
\* written on that stream, from its first line on, without a gap and in order,
\* though a thread whose port was taken accepts the other one's connections,
\* by a number that it has closed (Logger_server's constructor, and connected).
PrintedAsWritten ==
  \A s \in Streams : \E r \in 1 .. MaxRuns :
    /\ Len(printed[s]) <= written[Connection(s, r)]
    /\ \A i \in DOMAIN printed[s] : printed[s][i] = <<s, r, i>>

\* As long as every bind and every connect succeeds, the descriptors that the
\* destructors of Logger and Logger_server close are those of their own
\* sockets, whatever else the program and the other thread have open.
ClosesOnlyItsOwn == foreign => failed # {}

\* What is written to the first connection that a port has had is printed, be
\* the program still there or not, unless the connection is reset, the server
\* dies, or a port was taken (the loop of thread_main).
AllIsPrinted ==
  \A s \in Streams : \A i \in 1 .. MaxLines :
    (first[s] # Free /\ written[first[s]] >= i)
      ~> \/ Len(printed[s]) >= i
         \/ first[s] \in lost \/ at[s] = "dead" \/ "bind" \in failed
=============================================================================
