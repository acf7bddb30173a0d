------------------------------ MODULE Channel ------------------------------
(***************************************************************************)
(* The Unix sockets below the module Supervisor: operators' lmctl talks to *)
(* the ControlServer thread, and the control and poll threads talk to a    *)
(* managed process through IpcClient.  Both servers serve one connection   *)
(* at a time.  The main thread joins the poller and then runs              *)
(* ControlServer::stop().                                                  *)
(*                                                                         *)
(* A send to a peer that has closed its end raises SIGPIPE, which nobody   *)
(* ignores: it ends the sender's process.                                  *)
(***************************************************************************)
EXTENDS Integers, Sequences, FiniteSets

CONSTANTS
  Operators,      \* runs of lmctl, one command each
  Backlog,        \* listen(fd, 16)
  MaxAsks,        \* how many requests the poll and control threads make
  MaxFaults       \* how often a child hangs or crashes, or an lmctl is killed

ASSUME ChannelAssumption ==
  /\ IsFiniteSet(Operators) /\ Operators \cap {"poll", "control", "-"} = {}
  /\ Backlog \in Nat /\ MaxAsks \in Nat /\ MaxFaults \in Nat

VARIABLES
  queue,          \* connections that wait for accept()
  server,         \* what each server is doing, and with which connection
  client,         \* how far each client is with its request
  running,        \* ControlServer::running_
  main,
  alive,          \* the supervisor's process
  asks, faults

vars == <<queue, server, client, running, main, alive, asks, faults>>

Servers == {"control", "child"}
Askers == {"poll", "control"}       \* the threads that use IpcClient
Clients == Operators \cup Askers
ServerOf(c) == IF c \in Operators THEN "control" ELSE "child"

\* A connection: its client, "-" once that has closed its end, and whether the
\* command line has been sent.
Conns == [from : Clients \cup {"-"}, line : BOOLEAN]
NoConn == [from |-> "-", line |-> FALSE]

ServerPoints == {"accept", "read", "handle", "forward", "hung", "reply", "close",
                 "test", "ended"}
ClientPoints == {"idle", "connect", "send", "wait", "answered", "done"}
MainPoints == {"run", "join_poll", "poke", "join", "stopped", "dead"}

Init ==
  /\ queue = [s \in Servers |-> <<>>]
  /\ server = [s \in Servers |-> [at |-> "accept", conn |-> NoConn]]
  /\ client = [c \in Clients |-> "idle"]
  /\ running = TRUE
  /\ main = "run"
  /\ alive = TRUE
  /\ asks = 0 /\ faults = 0

Listening(s) == server[s].at # "ended"
Full(s) == Len(queue[s]) > Backlog

\* The connection of c is open at the server's end.
Connected(c) ==
  LET s == ServerOf(c) IN
  /\ \/ server[s].conn.from = c
     \/ \E i \in 1..Len(queue[s]) : queue[s][i].from = c

\* Every connection of the clients C after the change f.
Changed(C, f(_)) ==
  LET g(k) == IF k.from \in C THEN f(k) ELSE k IN
  /\ queue' = [s \in Servers |-> [i \in 1..Len(queue[s]) |-> g(queue[s][i])]]
  /\ server' = [s \in Servers |-> [server[s] EXCEPT !.conn = g(@)]]

HangUp(C) == LET gone(k) == [k EXCEPT !.from = "-"] IN Changed(C, gone)

Fault == faults < MaxFaults /\ faults' = faults + 1

--------------------------------------------------------------------------
\* The ends of the two processes.

\* Its threads are gone and so are all its descriptors.
SupervisorDies ==
  /\ alive' = FALSE
  /\ main' = "dead"
  /\ client' = [c \in Clients |-> IF c \in Askers THEN "done" ELSE client[c]]
  /\ LET gone(k) == IF k.from \in Askers THEN [k EXCEPT !.from = "-"] ELSE k IN
       /\ queue' = [control |-> <<>>,
                    child |-> [i \in 1..Len(queue["child"]) |-> gone(queue["child"][i])]]
       /\ server' = [control |-> [at |-> "ended", conn |-> NoConn],
                     child |-> [server["child"] EXCEPT !.conn = gone(@)]]
  /\ UNCHANGED <<running, asks>>

\* The server s closes its listener and every connection it has.
Ends(s) ==
  /\ server' = [server EXCEPT ![s] = [at |-> "ended", conn |-> NoConn]]
  /\ queue' = [queue EXCEPT ![s] = <<>>]

--------------------------------------------------------------------------
\* The server loops: ControlServer::run_ and DummyProcess::run.

Server(s, from, to) ==
  /\ server[s].at = from
  /\ server' = [server EXCEPT ![s].at = to]
  /\ UNCHANGED <<queue, running, main, alive>>

Accept(s) ==
  /\ server[s].at = "accept" /\ queue[s] # <<>>
  /\ server' = [server EXCEPT ![s] = [at |-> "read", conn |-> Head(queue[s])]]
  /\ queue' = [queue EXCEPT ![s] = Tail(@)]
  /\ UNCHANGED <<client, running, main, alive, asks, faults>>

\* Byte by byte, to the end of the line or of the connection: no deadline.
Read(s) ==
  /\ server[s].conn.line \/ server[s].conn.from = "-"
  /\ Server(s, "read", "handle")
  /\ UNCHANGED <<client, asks, faults>>

\* A command that needs no child, the empty one among them.
Handle(s) == Server(s, "handle", "reply") /\ UNCHANGED <<client, asks, faults>>

\* A command that makes the control thread ask the child: child, mode, start.
Forward ==
  /\ Server("control", "handle", "forward")
  /\ server["control"].conn.line
  /\ asks < MaxAsks /\ asks' = asks + 1
  /\ client' = [client EXCEPT !["control"] = "connect"]
  /\ UNCHANGED faults

Forwarded ==
  /\ client["control"] = "idle"
  /\ Server("control", "forward", "reply")
  /\ UNCHANGED <<client, asks, faults>>

\* (Mutation of Reply: the connection is left open.)
ReplyKeepsOpen(s) ==
  /\ Server(s, "reply", "test")
  /\ server[s].conn.from # "-"
  /\ client' = [client EXCEPT ![server[s].conn.from] = "answered"]
  /\ UNCHANGED <<asks, faults>>

Reply(s) ==
  /\ Server(s, "reply", "close")
  /\ server[s].conn.from # "-"
  /\ client' = [client EXCEPT ![server[s].conn.from] = "answered"]
  /\ UNCHANGED <<asks, faults>>

\* The caller has gone: it was killed, has given up, or is ControlServer::stop().
ReplyBroken(s) ==
  /\ server[s].at = "reply" /\ server[s].conn.from = "-"
  /\ IF s = "control" THEN SupervisorDies
     ELSE Ends(s) /\ UNCHANGED <<client, running, main, alive, asks>>
  /\ UNCHANGED faults

\* lmctl reads to the end of the connection, IpcClient to the end of the line.
Close(s) ==
  /\ server[s].at = "close"
  /\ server' = [server EXCEPT ![s] = [at |-> "test", conn |-> NoConn]]
  /\ client' = [c \in Clients |-> IF c \in Operators /\ c = server[s].conn.from
                                  THEN "done" ELSE client[c]]
  /\ UNCHANGED <<queue, running, main, alive, asks, faults>>

\* while (running_)
Loop(s) ==
  /\ running \/ s = "child"
  /\ Server(s, "test", "accept")
  /\ UNCHANGED <<client, asks, faults>>

LoopEnds ==
  /\ server["control"].at = "test" /\ ~running
  /\ Ends("control")
  /\ UNCHANGED <<client, running, main, alive, asks, faults>>

ServerStep(s) ==
  \/ Accept(s) \/ Read(s) \/ Handle(s) \/ Reply(s) \/ ReplyBroken(s) \/ Close(s)
  \/ Loop(s)
  \/ s = "control" /\ (Forward \/ Forwarded \/ LoopEnds)

\* HANG, or SET_DELAY_MS with a long delay, which is over at some time.
Hang == Server("child", "handle", "hung") /\ Fault /\ UNCHANGED <<client, asks>>
Wake == Server("child", "hung", "reply") /\ UNCHANGED <<client, asks, faults>>

Crash ==
  /\ Listening("child") /\ Fault
  /\ Ends("child")
  /\ UNCHANGED <<client, running, main, alive, asks>>

--------------------------------------------------------------------------
\* The clients: run_request of lmctl and IpcClient::request.

Client(c, from, to) ==
  /\ client[c] = from
  /\ client' = [client EXCEPT ![c] = to]
  /\ UNCHANGED <<running, main, alive, asks>>

Command(o) == Client(o, "idle", "connect") /\ UNCHANGED <<queue, server, faults>>

\* Each pass of the poll loop, until bg_running_ is reset.
Poll ==
  /\ main = "run" /\ client["poll"] = "idle"
  /\ asks < MaxAsks /\ asks' = asks + 1
  /\ client' = [client EXCEPT !["poll"] = "connect"]
  /\ UNCHANGED <<queue, server, running, main, alive, faults>>

\* (Mutation of Connect: it never has to wait.)
ConnectAnyway(c) ==
  LET s == ServerOf(c) IN
  /\ Listening(s)
  /\ Client(c, "connect", "send")
  /\ queue' = [queue EXCEPT ![s] = Append(@, [from |-> c, line |-> FALSE])]
  /\ UNCHANGED <<server, faults>>

\* connect() sleeps while the backlog is full.  The time limits of the socket
\* are set after it.
Connect(c) ==
  LET s == ServerOf(c) IN
  /\ Listening(s) /\ ~Full(s)
  /\ Client(c, "connect", "send")
  /\ queue' = [queue EXCEPT ![s] = Append(@, [from |-> c, line |-> FALSE])]
  /\ UNCHANGED <<server, faults>>

\* An lmctl gives up; IpcClient does when its deadline has passed.
Refused(c) ==
  /\ ~Listening(ServerOf(c))
  /\ Client(c, "connect", IF c \in Operators THEN "done" ELSE "idle")
  /\ UNCHANGED <<queue, server, faults>>

Send(c) ==
  /\ Client(c, "send", "wait")
  /\ Connected(c)
  /\ LET sent(k) == [k EXCEPT !.line = TRUE] IN Changed({c}, sent)
  /\ UNCHANGED faults

\* The server has closed its end since: SIGPIPE.
SendBroken(c) ==
  /\ client[c] = "send" /\ ~Connected(c)
  /\ IF c \in Askers THEN SupervisorDies
     ELSE Client(c, "send", "done") /\ UNCHANGED <<queue, server>>
  /\ UNCHANGED faults

\* (Mutation of TimeOut: only the time before the request is limited.)
TimeOutConnecting(c) ==
  /\ c \in Askers
  /\ Client(c, "send", "idle")
  /\ HangUp({c})
  /\ UNCHANGED faults

\* (Mutation of TimeOut: the exception leaves the descriptor open.)
TimeOutLeaks(c) ==
  /\ c \in Askers
  /\ Client(c, "send", "idle") \/ Client(c, "wait", "idle")
  /\ UNCHANGED <<queue, server, faults>>

\* The request's time is over, before it is sent or before it is answered.
TimeOut(c) ==
  /\ c \in Askers
  /\ Client(c, "send", "idle") \/ Client(c, "wait", "idle")
  /\ HangUp({c})
  /\ UNCHANGED faults

\* The connection ends without an answer.
Eof(c) ==
  /\ ~Connected(c)
  /\ \/ Client(c, "wait", IF c \in Operators THEN "done" ELSE "idle")
     \/ c \in Operators /\ Client(c, "answered", "done")
  /\ UNCHANGED <<queue, server, faults>>

Return(c) ==
  /\ c \in Askers
  /\ Client(c, "answered", "idle")
  /\ HangUp({c})
  /\ UNCHANGED faults

ClientStep(c) ==
  Connect(c) \/ Refused(c) \/ Send(c) \/ SendBroken(c) \/ TimeOut(c) \/ Eof(c)
  \/ Return(c)

\* An operator interrupts lmctl.
Killed(o) ==
  /\ \/ Client(o, "connect", "done") \/ Client(o, "send", "done")
     \/ Client(o, "wait", "done")
  /\ HangUp({o})
  /\ Fault

--------------------------------------------------------------------------
\* The main thread, after SIGINT or SIGTERM.

Main(from, to) ==
  /\ main = from
  /\ main' = to
  /\ UNCHANGED <<server, client, alive, asks, faults>>

Signal == Main("run", "join_poll") /\ UNCHANGED <<queue, running>>

\* stop_background_threads(), then stop() resets running_ ...
StopFlag ==
  /\ client["poll"] = "idle"
  /\ Main("join_poll", "poke")
  /\ running' = FALSE
  /\ UNCHANGED queue

\* (Mutation of Poke: the thread is only joined.)
PokeNobody == Main("poke", "join") /\ UNCHANGED <<queue, running>>

\* ... and connects once and closes, to wake accept().
Poke ==
  /\ Main("poke", "join")
  /\ ~Full("control")
  /\ queue' = IF Listening("control") THEN [queue EXCEPT !["control"] = Append(@, NoConn)]
              ELSE queue
  /\ UNCHANGED running

Join ==
  /\ ~Listening("control")
  /\ Main("join", "stopped")
  /\ UNCHANGED <<queue, running>>

MainStep == StopFlag \/ Poke \/ Join

--------------------------------------------------------------------------
Next ==
  \/ \E s \in Servers : ServerStep(s)
  \/ Hang \/ Wake \/ Crash
  \/ \E c \in Clients : ClientStep(c)
  \/ \E o \in Operators : Command(o) \/ Killed(o)
  \/ Poll \/ Signal \/ MainStep

Spec == Init /\ [][Next]_vars

\* The threads of the supervisor run, and so do an lmctl that has started and a
\* child that is not hung.  Deadlines pass.  Faults, operators and signals owe
\* nothing, nor does a hung child.
Fairness ==
  /\ \A s \in Servers : WF_vars(ServerStep(s))
  /\ \A c \in Clients : WF_vars(ClientStep(c))
  /\ WF_vars(MainStep)

FairSpec == Spec /\ Fairness

--------------------------------------------------------------------------
TypeOK ==
  /\ queue \in [Servers -> Seq(Conns)]
  /\ \A s \in Servers : Len(queue[s]) <= Backlog + 1
  /\ server \in [Servers -> [at : ServerPoints, conn : Conns]]
  /\ client \in [Clients -> ClientPoints]
  /\ running \in BOOLEAN /\ alive \in BOOLEAN
  /\ main \in MainPoints
  /\ asks \in 0..MaxAsks /\ faults \in 0..MaxFaults

\* No way out of a request leaves a connection open: one that is open at the
\* server's end belongs to a request still under way, and to one only.
NoStrayConnection ==
  \A c \in Clients :
    /\ Connected(c) => client[c] \in {"send", "wait", "answered"}
    /\ \A s \in Servers : \A i \in 1..Len(queue[s]) :
         queue[s][i].from = c =>
           /\ server[s].conn.from # c
           /\ \A j \in 1..Len(queue[s]) : queue[s][j].from = c => j = i

\* An answer meets the request it answers, once: a server replies only to a client
\* that waits for it, never to one that has given up, has been answered or is
\* about to ask something else.
AnswerAwaited ==
  [][\A s \in Servers : Reply(s) => client[server[s].conn.from] = "wait"]_vars

\* Every request of a supervisor thread to a child ends, whatever the child
\* does: a stuck child does not block the supervisor.
CallEnds ==
  \A c \in Askers : client[c] = "connect" ~> client[c] \in {"idle", "done"}

\* Every lmctl ends: its command is answered, or the supervisor is gone.
CommandReplied == \A o \in Operators : client[o] = "connect" ~> client[o] = "done"

\* The shutdown of the poller and of the control server ends, with a child that
\* hangs and whatever the control thread is doing when stop() comes.
StopEnds == main = "join_poll" ~> main \in {"stopped", "dead"}

\* ControlServer::stop() stops the control server, not the program.
StopsCleanly == ~running => alive
==========================================================================
