--------------------------- MODULE ChannelProofs ---------------------------
(***************************************************************************)
(* The types of Channel, that no connection is left open, and that every   *)
(* answer meets the request it answers.                                    *)
(***************************************************************************)
EXTENDS Channel, SequenceTheorems, TLAPS

OpenPoints == {"send", "wait", "answered"}

\* Each server has connections of its own clients only.
Routed ==
  \A s \in Servers :
    /\ server[s].conn.from = "-" \/ ServerOf(server[s].conn.from) = s
    /\ \A i \in 1..Len(queue[s]) :
         queue[s][i].from = "-" \/ ServerOf(queue[s][i].from) = s

\* A client has one connection at most ...
Unique ==
  \A c \in Clients : \A s \in Servers : \A i \in 1..Len(queue[s]) :
    queue[s][i].from = c =>
      /\ server[s].conn.from # c
      /\ \A j \in 1..Len(queue[s]) : queue[s][j].from = c => j = i

\* ... and only while it has a request under way.
Open == \A c \in Clients : Connected(c) => client[c] \in OpenPoints

\* The control thread asks the child only while it serves a command.
Asking == client["control"] \in {"idle", "done"} \/ server["control"].at = "forward"

Inv == TypeOK /\ Routed /\ Unique /\ Open /\ Asking

\* A step that opens no connection: each stays where it was, or is closed.
Thinned ==
  \A s \in Servers :
    /\ 1..Len(queue'[s]) \subseteq 1..Len(queue[s])
    /\ \A i \in 1..Len(queue'[s]) : queue'[s][i].from \in {queue[s][i].from, "-"}
    /\ server'[s].conn.from \in {server[s].conn.from, "-"}

\* No client is called "-".
LEMMA DashIsNoClient == "-" \notin Clients
BY ChannelAssumption DEF Clients, Askers

\* What a step that opens nothing leaves true.
LEMMA ThinnedKeeps ==
  ASSUME Routed, Unique, Thinned
  PROVE  /\ Routed' /\ Unique'
         /\ \A c \in Clients : Connected(c)' => Connected(c)
<1>1. Routed'
  BY DEF Routed, Thinned
<1>2. Unique'
  <2>1. ASSUME NEW c \in Clients, NEW s \in Servers, NEW i \in 1..Len(queue'[s]),
               queue'[s][i].from = c
        PROVE  /\ server'[s].conn.from # c
               /\ \A j \in 1..Len(queue'[s]) : queue'[s][j].from = c => j = i
    <3>1. \A j \in 1..Len(queue'[s]) :
            queue'[s][j].from = c => j \in 1..Len(queue[s]) /\ queue[s][j].from = c
      BY DashIsNoClient DEF Thinned
    <3>2. server'[s].conn.from = c => server[s].conn.from = c
      BY DashIsNoClient DEF Thinned
    <3>q. QED  BY <2>1, <3>1, <3>2 DEF Unique
  <2>q. QED  BY <2>1 DEF Unique
<1>3. ASSUME NEW c \in Clients, Connected(c)'
      PROVE  Connected(c)
  <2> DEFINE s == ServerOf(c)
  <2>1. s \in Servers  BY DEF ServerOf, Servers
  <2>2. server'[s].conn.from = c \/ \E i \in 1..Len(queue'[s]) : queue'[s][i].from = c
    BY <1>3 DEF Connected
  <2>3. server[s].conn.from = c \/ \E i \in 1..Len(queue[s]) : queue[s][i].from = c
    BY <2>1, <2>2, DashIsNoClient DEF Thinned
  <2>q. QED  BY <2>3 DEF Connected
<1>q. QED  BY <1>1, <1>2, <1>3

\* Nothing changes but, perhaps, what the servers are at.
LEMMA SameConnections ==
  ASSUME TypeOK, queue' = queue,
         \A s \in Servers : server'[s].conn = server[s].conn
  PROVE  Thinned
BY DEF TypeOK, Thinned

\* Connections that are mapped one by one.
LEMMA MappedSeq ==
  ASSUME NEW q \in Seq(Conns), NEW m, m = [i \in 1..Len(q) |-> m[i]],
         \A i \in 1..Len(q) : m[i] \in Conns
  PROVE  m \in Seq(Conns) /\ Len(m) = Len(q)
<1>1. Len(q) \in Nat  OBVIOUS
<1>2. m \in [1..Len(q) -> Conns]  OBVIOUS
<1>3. m \in Seq(Conns)  BY <1>1, <1>2, SeqDef
<1>4. Len(m) \in Nat /\ DOMAIN m = 1..Len(m)  BY <1>3, LenProperties
<1>5. 1..Len(m) = 1..Len(q)  BY <1>2, <1>4
<1>q. QED  BY <1>1, <1>3, <1>4, <1>5

\* Connections that are mapped one by one and keep their client or lose it.
LEMMA MappedThins ==
  ASSUME TypeOK, NEW h \in [Conns -> Conns],
         \A k \in Conns : h[k].from \in {k.from, "-"},
         queue' = [s \in Servers |-> [i \in 1..Len(queue[s]) |-> h[queue[s][i]]]],
         server' = [s \in Servers |-> [server[s] EXCEPT !.conn = h[@]]]
  PROVE  /\ queue' \in [Servers -> Seq(Conns)]
         /\ \A s \in Servers :
              /\ Len(queue'[s]) = Len(queue[s])
              /\ \A i \in 1..Len(queue[s]) : queue'[s][i] = h[queue[s][i]]
         /\ server' \in [Servers -> [at : ServerPoints, conn : Conns]]
         /\ \A s \in Servers :
              server'[s].at = server[s].at /\ server'[s].conn = h[server[s].conn]
         /\ Thinned
<1>1. ASSUME NEW s \in Servers
      PROVE  /\ queue'[s] \in Seq(Conns) /\ Len(queue'[s]) = Len(queue[s])
             /\ \A i \in 1..Len(queue[s]) : queue'[s][i] = h[queue[s][i]]
  <2>1. queue[s] \in Seq(Conns)  BY DEF TypeOK
  <2>2. queue'[s] = [i \in 1..Len(queue[s]) |-> h[queue[s][i]]]  OBVIOUS
  <2>3. \A i \in 1..Len(queue[s]) : queue[s][i] \in Conns  BY <2>1
  <2>4. \A i \in 1..Len(queue[s]) : queue'[s][i] = h[queue[s][i]]  BY <2>2
  <2>5. \A i \in 1..Len(queue[s]) : queue'[s][i] \in Conns  BY <2>3, <2>4
  <2>q. QED  BY <2>1, <2>2, <2>4, <2>5, MappedSeq
<1>2. ASSUME NEW s \in Servers
      PROVE  /\ server'[s].at = server[s].at /\ server'[s].conn = h[server[s].conn]
             /\ server'[s] \in [at : ServerPoints, conn : Conns]
  BY DEF TypeOK
<1>3. queue' \in [Servers -> Seq(Conns)]  BY <1>1
<1>4. server' \in [Servers -> [at : ServerPoints, conn : Conns]]  BY <1>2
<1>5. \A s \in Servers : server[s].conn \in Conns /\ queue[s] \in Seq(Conns)
  BY DEF TypeOK
<1>6. \A s \in Servers : \A i \in 1..Len(queue[s]) : queue[s][i] \in Conns
  BY <1>5
<1>7. Thinned  BY <1>1, <1>2, <1>5, <1>6 DEF Thinned
<1>q. QED  BY <1>1, <1>2, <1>3, <1>4, <1>7

\* Connections that are mapped one by one, and nothing else of them.
Mapped ==
  /\ queue' \in [Servers -> Seq(Conns)]
  /\ \A s \in Servers : Len(queue'[s]) = Len(queue[s])
  /\ server' \in [Servers -> [at : ServerPoints, conn : Conns]]
  /\ \A s \in Servers : server'[s].at = server[s].at
  /\ Thinned

\* Clients that hang up have no connection left.
LEMMA HangUpThins ==
  ASSUME TypeOK, NEW C \in SUBSET Clients, HangUp(C)
  PROVE  Mapped /\ \A c \in C : ~Connected(c)'
<1> DEFINE h == [k \in Conns |-> IF k.from \in C THEN [k EXCEPT !.from = "-"] ELSE k]
<1>1. /\ h \in [Conns -> Conns]
      /\ \A k \in Conns : h[k].from \in {k.from, "-"} /\ h[k].from \notin C
  BY DashIsNoClient DEF Conns
<1>2. \A s \in Servers : server[s].conn \in Conns /\ queue[s] \in Seq(Conns)
  BY DEF TypeOK
<1>3. \A s \in Servers : \A i \in 1..Len(queue[s]) : queue[s][i] \in Conns
  BY <1>2
<1>4. queue' = [s \in Servers |-> [i \in 1..Len(queue[s]) |-> h[queue[s][i]]]]
  BY <1>3 DEF HangUp, Changed
<1>5. server' = [s \in Servers |-> [server[s] EXCEPT !.conn = h[@]]]
  BY <1>2 DEF HangUp, Changed
<1> HIDE DEF h
<1>6. Mapped  BY <1>1, <1>4, <1>5, MappedThins DEF Mapped
<1>7. /\ \A s \in Servers : server'[s].conn = h[server[s].conn]
      /\ \A s \in Servers : Len(queue'[s]) = Len(queue[s])
      /\ \A s \in Servers : \A i \in 1..Len(queue[s]) : queue'[s][i] = h[queue[s][i]]
  BY <1>1, <1>4, <1>5, MappedThins
<1>8. \A c \in C : ~Connected(c)'
  BY <1>1, <1>2, <1>3, <1>7 DEF Connected, ServerOf, Servers
<1>q. QED  BY <1>6, <1>8

\* Sending a line opens and closes nothing.
LEMMA SentThins ==
  ASSUME TypeOK, NEW c \in Clients,
         LET sent(k) == [k EXCEPT !.line = TRUE] IN Changed({c}, sent)
  PROVE  Mapped
<1> DEFINE h == [k \in Conns |-> IF k.from \in {c} THEN [k EXCEPT !.line = TRUE] ELSE k]
<1>1. /\ h \in [Conns -> Conns]
      /\ \A k \in Conns : h[k].from \in {k.from, "-"}
  BY DEF Conns
<1>2. \A s \in Servers : server[s].conn \in Conns /\ queue[s] \in Seq(Conns)
  BY DEF TypeOK
<1>3. \A s \in Servers : \A i \in 1..Len(queue[s]) : queue[s][i] \in Conns
  BY <1>2
<1>4. queue' = [s \in Servers |-> [i \in 1..Len(queue[s]) |-> h[queue[s][i]]]]
  BY <1>3 DEF Changed
<1>5. server' = [s \in Servers |-> [server[s] EXCEPT !.conn = h[@]]]
  BY <1>2 DEF Changed
<1> HIDE DEF h
<1>q. QED  BY <1>1, <1>4, <1>5, MappedThins DEF Mapped

--------------------------------------------------------------------------
\* The invariant after a step that opens no connection, and takes no client with
\* an open one out of its request.
LEMMA KeptByThinning ==
  ASSUME Inv, TypeOK', Thinned, Asking',
         \A c \in Clients :
           Connected(c)' /\ client[c] \in OpenPoints => client'[c] \in OpenPoints
  PROVE  Inv'
BY ThinnedKeeps DEF Inv, Open

\* One client moves.
LEMMA TypesOfClients ==
  ASSUME TypeOK, NEW c \in Clients, NEW p \in ClientPoints,
         client' = [client EXCEPT ![c] = p]
  PROVE  /\ client' \in [Clients -> ClientPoints]
         /\ client'[c] = p
         /\ \A d \in Clients \ {c} : client'[d] = client[d]
BY DEF TypeOK

\* The steps of a server that change no connection.
LEMMA ServerMoves ==
  ASSUME Inv, NEW s \in Servers, NEW from \in ServerPoints, NEW to \in ServerPoints,
         Server(s, from, to)
  PROVE  /\ Thinned
         /\ server' \in [Servers -> [at : ServerPoints, conn : Conns]]
         /\ server'[s].at = to /\ \A r \in Servers \ {s} : server'[r].at = server[r].at
         /\ \A r \in Servers : server'[r].conn = server[r].conn
         /\ UNCHANGED <<queue, running, main, alive>>
<1>1. server' \in [Servers -> [at : ServerPoints, conn : Conns]]
  BY DEF Server, Inv, TypeOK
<1>2. /\ server'[s].at = to /\ \A r \in Servers \ {s} : server'[r].at = server[r].at
      /\ \A r \in Servers : server'[r].conn = server[r].conn
  BY DEF Server, Inv, TypeOK
<1>3. UNCHANGED <<queue, running, main, alive>>  BY DEF Server
<1>q. QED  BY <1>1, <1>2, <1>3, SameConnections DEF Inv

\* The bound on faults.
LEMMA FaultCounted ==
  ASSUME TypeOK, Fault PROVE faults' \in 0..MaxFaults
BY ChannelAssumption DEF Fault, TypeOK

\* The names that are both a server's and a client's are in both sets.
LEMMA Askings == "control" \in Clients /\ "poll" \in Clients /\ "control" \in Servers
BY DEF Clients, Askers, Servers

\* The steps of the servers that change no connection.
LEMMA Pass ==
  ASSUME Inv, NEW s \in Servers,
         \/ Read(s) \/ Handle(s) \/ Loop(s)
         \/ Forward \/ Forwarded \/ Hang \/ Wake \/ Reply(s)
  PROVE  Inv'
<1>1. CASE Read(s)
  <2>1. Server(s, "read", "handle")  BY <1>1 DEF Read
  <2>2. TypeOK' /\ Thinned
    BY <1>1, <2>1, ServerMoves DEF Read, Inv, TypeOK, ServerPoints
  <2>3. Asking'
    BY <1>1, <2>1, ServerMoves, Askings DEF Read, Inv, Asking, Server, ServerPoints
  <2>q. QED  BY <1>1, <2>2, <2>3, KeptByThinning DEF Read
<1>2. CASE Handle(s)
  <2>1. Server(s, "handle", "reply")  BY <1>2 DEF Handle
  <2>2. TypeOK' /\ Thinned
    BY <1>2, <2>1, ServerMoves DEF Handle, Inv, TypeOK, ServerPoints
  <2>3. Asking'
    BY <1>2, <2>1, ServerMoves, Askings DEF Handle, Inv, Asking, Server, ServerPoints
  <2>q. QED  BY <1>2, <2>2, <2>3, KeptByThinning DEF Handle
<1>3. CASE Loop(s)
  <2>1. Server(s, "test", "accept")  BY <1>3 DEF Loop
  <2>2. TypeOK' /\ Thinned
    BY <1>3, <2>1, ServerMoves DEF Loop, Inv, TypeOK, ServerPoints
  <2>3. Asking'
    BY <1>3, <2>1, ServerMoves, Askings DEF Loop, Inv, Asking, Server, ServerPoints
  <2>q. QED  BY <1>3, <2>2, <2>3, KeptByThinning DEF Loop
<1>4. CASE Forward
  <2>1. /\ Server("control", "handle", "forward")
        /\ client' = [client EXCEPT !["control"] = "connect"]
        /\ asks < MaxAsks /\ asks' = asks + 1 /\ UNCHANGED faults
    BY <1>4 DEF Forward
  <2>2. client["control"] \in {"idle", "done"}
    BY <2>1, Askings DEF Inv, Asking, Server
  <2>3. /\ client' \in [Clients -> ClientPoints] /\ client'["control"] = "connect"
        /\ \A d \in Clients \ {"control"} : client'[d] = client[d]
    BY <2>1, Askings, TypesOfClients DEF Inv, ClientPoints
  <2>m. /\ Thinned /\ server' \in [Servers -> [at : ServerPoints, conn : Conns]]
        /\ UNCHANGED <<queue, running, main, alive>>
    BY <2>1, Askings, ServerMoves DEF ServerPoints
  <2>4. Thinned /\ TypeOK'
    BY <2>1, <2>3, <2>m, ChannelAssumption DEF Inv, TypeOK
  <2>5. Asking'
    BY <2>1, Askings, ServerMoves DEF Asking, ServerPoints
  <2>q. QED  BY <2>2, <2>3, <2>4, <2>5, KeptByThinning DEF OpenPoints
<1>5. CASE Forwarded
  <2>1. /\ Server("control", "forward", "reply") /\ client["control"] = "idle"
        /\ UNCHANGED <<client, asks, faults>>
    BY <1>5 DEF Forwarded
  <2>2. TypeOK' /\ Thinned
    BY <2>1, Askings, ServerMoves DEF Inv, TypeOK, ServerPoints
  <2>q. QED  BY <2>1, <2>2, KeptByThinning DEF Asking
<1>6. CASE Hang
  <2>1. "child" \in Servers /\ "child" # "control"  BY DEF Servers
  <2>2. Server("child", "handle", "hung") /\ Fault /\ UNCHANGED <<client, asks>>
    BY <1>6 DEF Hang
  <2>3. TypeOK' /\ Thinned
    BY <2>1, <2>2, ServerMoves, FaultCounted DEF Inv, TypeOK, ServerPoints
  <2>4. Asking'
    BY <2>1, <2>2, Askings, ServerMoves DEF Inv, Asking, ServerPoints
  <2>q. QED  BY <2>2, <2>3, <2>4, KeptByThinning
<1>7. CASE Wake
  <2>1. "child" \in Servers /\ "child" # "control"  BY DEF Servers
  <2>2. Server("child", "hung", "reply") /\ UNCHANGED <<client, asks, faults>>
    BY <1>7 DEF Wake
  <2>3. TypeOK' /\ Thinned
    BY <2>1, <2>2, ServerMoves DEF Inv, TypeOK, ServerPoints
  <2>4. Asking'
    BY <2>1, <2>2, Askings, ServerMoves DEF Inv, Asking, ServerPoints
  <2>q. QED  BY <2>2, <2>3, <2>4, KeptByThinning
<1>8. CASE Reply(s)
  <2> DEFINE c == server[s].conn.from
  <2>1. /\ Server(s, "reply", "close") /\ c # "-"
        /\ client' = [client EXCEPT ![c] = "answered"] /\ UNCHANGED <<asks, faults>>
    BY <1>8 DEF Reply
  <2>2. c \in Clients
    BY <2>1 DEF Inv, TypeOK, Conns
  <2>3. /\ client' \in [Clients -> ClientPoints] /\ client'[c] = "answered"
        /\ \A d \in Clients \ {c} : client'[d] = client[d]
    BY <2>1, <2>2, TypesOfClients DEF Inv, ClientPoints
  <2>4. Thinned /\ TypeOK'
    BY <2>1, <2>3, ServerMoves DEF Inv, TypeOK, ServerPoints
  <2>5. c # "control" \/ s # "control"
    BY ChannelAssumption DEF Inv, Routed, ServerOf
  <2>6. Asking'
    <3>1. CASE s = "control"
      BY <2>1, <2>3, <2>5, <3>1, Askings, ServerMoves
         DEF Inv, Asking, Server, ServerPoints
    <3>2. CASE s # "control" /\ c = "control"
      <4>1. client["control"] \in OpenPoints
        BY <2>2, <3>2 DEF Inv, Open, Connected, Routed
      <4>2. server["control"].at = "forward"
        BY <4>1 DEF Inv, Asking, OpenPoints
      <4>q. QED  BY <2>1, <3>2, <4>2, Askings, ServerMoves DEF Asking, ServerPoints
    <3>3. CASE s # "control" /\ c # "control"
      <4>1. client'["control"] = client["control"]
        BY <2>3, <3>3, Askings
      <4>2. server'["control"].at = server["control"].at
        BY <2>1, <3>3, Askings, ServerMoves DEF ServerPoints
      <4>q. QED  BY <4>1, <4>2 DEF Inv, Asking
    <3>q. QED  BY <3>1, <3>2, <3>3
  <2>q. QED  BY <2>3, <2>4, <2>6, KeptByThinning DEF OpenPoints
<1>q. QED  BY <1>1, <1>2, <1>3, <1>4, <1>5, <1>6, <1>7, <1>8

\* A server takes a connection from its backlog.
LEMMA Taken ==
  ASSUME Inv, NEW s \in Servers, Accept(s)
  PROVE  Inv'
<1> DEFINE Q == queue[s]
<1>1. /\ server[s].at = "accept" /\ Q # <<>>
      /\ server' = [server EXCEPT ![s] = [at |-> "read", conn |-> Head(Q)]]
      /\ queue' = [queue EXCEPT ![s] = Tail(Q)]
      /\ UNCHANGED <<client, running, main, alive, asks, faults>>
  BY DEF Accept
<1>2. /\ Q \in Seq(Conns) /\ queue \in [Servers -> Seq(Conns)]
      /\ server \in [Servers -> [at : ServerPoints, conn : Conns]]
      /\ Len(Q) <= Backlog + 1 /\ Backlog \in Nat
  BY ChannelAssumption DEF Inv, TypeOK
<1>3. /\ Head(Q) = Q[1] /\ Head(Q) \in Conns /\ Tail(Q) \in Seq(Conns)
      /\ Len(Q) \in Nat /\ Len(Q) > 0 /\ Len(Tail(Q)) = Len(Q) - 1
      /\ \A i \in 1..Len(Tail(Q)) : Tail(Q)[i] = Q[i+1]
  BY <1>1, <1>2, HeadTailProperties, EmptySeq
<1>4. /\ queue'[s] = Tail(Q) /\ \A r \in Servers \ {s} : queue'[r] = queue[r]
      /\ server'[s].conn = Q[1] /\ server'[s].at = "read"
      /\ \A r \in Servers \ {s} : server'[r] = server[r]
  BY <1>1, <1>2, <1>3
<1> DEFINE T == Tail(Q)
<1>s. /\ 1 \in 1..Len(Q) /\ Len(T) \in Nat /\ Len(T) <= Backlog + 1
      /\ \A i \in 1..Len(T) : /\ i \in Int /\ i + 1 \in 1..Len(Q) /\ i + 1 # 1
                              /\ T[i] = Q[i+1]
  <2> HIDE DEF T, Q
  <2>1. Len(Q) \in Nat /\ Len(Q) > 0 /\ Len(T) = Len(Q) - 1 /\ Len(Q) <= Backlog + 1
        /\ Backlog \in Nat
    BY <1>2, <1>3 DEF T
  <2>2. \A i \in 1..Len(T) : T[i] = Q[i+1]
    BY <1>3 DEF T
  <2>q. QED  BY <2>1, <2>2
<1>t. queue'[s] = T /\ server'[s].conn = Q[1] /\ T \in Seq(Conns)
  BY <1>3, <1>4
<1> HIDE DEF T
<1>5. TypeOK'
  <2>1. queue' \in [Servers -> Seq(Conns)] /\ server' \in [Servers -> [at : ServerPoints, conn : Conns]]
    BY <1>1, <1>2, <1>3 DEF ServerPoints
  <2>2. \A r \in Servers : Len(queue'[r]) <= Backlog + 1
    BY <1>s, <1>t, <1>4 DEF Inv, TypeOK
  <2>q. QED  BY <1>1, <2>1, <2>2 DEF Inv, TypeOK
<1>6. Routed'
  <2>1. ASSUME NEW r \in Servers
        PROVE  /\ server'[r].conn.from = "-" \/ ServerOf(server'[r].conn.from) = r
               /\ \A i \in 1..Len(queue'[r]) :
                    queue'[r][i].from = "-" \/ ServerOf(queue'[r][i].from) = r
    <3>1. CASE r # s  BY <1>4, <3>1 DEF Inv, Routed
    <3>2. CASE r = s
      <4>1. \A j \in 1..Len(Q) : Q[j].from = "-" \/ ServerOf(Q[j].from) = s
        BY DEF Inv, Routed
      <4>q. QED  BY <1>s, <1>t, <3>2, <4>1
    <3>q. QED  BY <3>1, <3>2
  <2>q. QED  BY <2>1 DEF Routed, ServerOf
<1>7. Unique'
  <2>1. ASSUME NEW c \in Clients, NEW r \in Servers, NEW i \in 1..Len(queue'[r]),
               queue'[r][i].from = c
        PROVE  /\ server'[r].conn.from # c
               /\ \A j \in 1..Len(queue'[r]) : queue'[r][j].from = c => j = i
    <3>1. CASE r # s
      BY <1>4, <2>1, <3>1 DEF Inv, Unique
    <3>2. CASE r = s
      <4>1. i + 1 \in 1..Len(Q) /\ Q[i+1].from = c /\ 1 \in 1..Len(Q) /\ i + 1 # 1
        BY <1>s, <1>t, <2>1, <3>2
      <4>2. Q[1].from # c
        BY <4>1 DEF Inv, Unique
      <4>3. ASSUME NEW j \in 1..Len(queue'[r]), queue'[r][j].from = c
            PROVE  j = i
        <5>1. j + 1 \in 1..Len(Q) /\ Q[j+1].from = c
          BY <1>s, <1>t, <4>3, <3>2
        <5>2. j + 1 = i + 1
          BY <4>1, <5>1 DEF Inv, Unique
        <5>q. QED  BY <5>2, <1>s, <1>t, <3>2
      <4>q. QED  BY <1>4, <3>2, <4>2, <4>3
    <3>q. QED  BY <3>1, <3>2
  <2>q. QED  BY <2>1 DEF Unique
<1>8. Open'
  <2>1. ASSUME NEW c \in Clients, Connected(c)'
        PROVE  Connected(c)
    <3> DEFINE r == ServerOf(c)
    <3>1. r \in Servers  BY DEF ServerOf, Servers
    <3>2. server'[r].conn.from = c \/ \E i \in 1..Len(queue'[r]) : queue'[r][i].from = c
      BY <2>1 DEF Connected
    <3>3. CASE r # s
      BY <1>4, <3>1, <3>2, <3>3 DEF Connected
    <3>4. CASE r = s
      <4>1. \E i \in 1..Len(Q) : Q[i].from = c
        BY <1>s, <1>t, <3>2, <3>4
      <4>q. QED  BY <3>4, <4>1 DEF Connected
    <3>q. QED  BY <3>3, <3>4
  <2>q. QED  BY <1>1, <2>1 DEF Inv, Open
<1>9. Asking'
  BY <1>1, <1>4, Askings DEF Inv, Asking
<1>q. QED  BY <1>5, <1>6, <1>7, <1>8, <1>9 DEF Inv

\* A connection k is added to the queue of s; its client had none.
LEMMA Added ==
  ASSUME Inv, NEW s \in Servers, NEW k \in Conns, ~Full(s),
         k.from = "-" \/ (ServerOf(k.from) = s /\ ~Connected(k.from)
                          /\ client'[k.from] \in OpenPoints),
         queue' = [queue EXCEPT ![s] = Append(@, k)], UNCHANGED server,
         client' \in [Clients -> ClientPoints],
         \A c \in Clients \ {k.from} : client'[c] = client[c],
         k.from = "control" => client["control"] \notin {"idle", "done"},
         running' \in BOOLEAN, main' \in MainPoints, UNCHANGED <<alive, asks, faults>>
  PROVE  Inv'
<1> DEFINE Q == queue[s]
<1>1. /\ Q \in Seq(Conns) /\ queue \in [Servers -> Seq(Conns)] /\ Len(Q) \in Nat
      /\ Len(Q) <= Backlog /\ Backlog \in Nat
  BY ChannelAssumption DEF Inv, TypeOK, Full
<1>2. /\ queue'[s] \in Seq(Conns) /\ Len(queue'[s]) = Len(Q) + 1
      /\ \A i \in 1..Len(Q) : queue'[s][i] = Q[i]
      /\ queue'[s][Len(Q) + 1] = k
      /\ \A r \in Servers \ {s} : queue'[r] = queue[r]
  BY <1>1
<1>3. TypeOK'
  <2>1. queue' \in [Servers -> Seq(Conns)]  BY <1>1, <1>2
  <2>2. \A r \in Servers : Len(queue'[r]) <= Backlog + 1
    BY <1>1, <1>2 DEF Inv, TypeOK
  <2>q. QED  BY <2>1, <2>2 DEF Inv, TypeOK
<1>4. Routed'
  <2>1. ASSUME NEW r \in Servers, NEW i \in 1..Len(queue'[r])
        PROVE  queue'[r][i].from = "-" \/ ServerOf(queue'[r][i].from) = r
    BY <1>1, <1>2 DEF Inv, Routed
  <2>q. QED  BY <2>1 DEF Inv, Routed, ServerOf
<1>5. k.from # "-" =>
        server[s].conn.from # k.from /\ \A i \in 1..Len(Q) : Q[i].from # k.from
  BY DEF Connected
<1>6. Unique'
  <2>1. ASSUME NEW c \in Clients, NEW r \in Servers, NEW i \in 1..Len(queue'[r]),
               queue'[r][i].from = c
        PROVE  /\ server'[r].conn.from # c
               /\ \A j \in 1..Len(queue'[r]) : queue'[r][j].from = c => j = i
    <3>0. c # "-"  BY DashIsNoClient
    <3>1. CASE r # s
      BY <1>2, <2>1, <3>1 DEF Inv, Unique
    <3>2. CASE r = s /\ c = k.from
      BY <1>1, <1>2, <1>5, <2>1, <3>0, <3>2
    <3>3. CASE r = s /\ c # k.from
      <4>1. i \in 1..Len(Q) /\ Q[i].from = c
        BY <1>1, <1>2, <2>1, <3>3
      <4>2. \A j \in 1..Len(queue'[r]) : queue'[r][j].from = c => j \in 1..Len(Q) /\ Q[j].from = c
        BY <1>1, <1>2, <3>3
      <4>q. QED  BY <3>3, <4>1, <4>2 DEF Inv, Unique
    <3>q. QED  BY <3>1, <3>2, <3>3
  <2>q. QED  BY <2>1 DEF Unique
<1>7. Open'
  <2>1. ASSUME NEW c \in Clients, Connected(c)', c # k.from
        PROVE  Connected(c)
    <3> DEFINE r == ServerOf(c)
    <3>1. r \in Servers  BY DEF ServerOf, Servers
    <3>2. server[r].conn.from = c \/ \E i \in 1..Len(queue'[r]) : queue'[r][i].from = c
      BY <2>1 DEF Connected
    <3>3. server[r].conn.from = c \/ \E i \in 1..Len(queue[r]) : queue[r][i].from = c
      BY <1>1, <1>2, <2>1, <3>1, <3>2
    <3>q. QED  BY <3>3 DEF Connected
  <2>q. QED  BY <2>1, DashIsNoClient DEF Inv, Open
<1>8. Asking'
  BY Askings DEF Inv, Asking
<1>q. QED  BY <1>3, <1>4, <1>6, <1>7, <1>8 DEF Inv

--------------------------------------------------------------------------
\* The steps that close connections.

\* A server ends, with what is queued, or closes the connection it has.
Closing(s) ==
  /\ \A r \in Servers \ {s} : server'[r] = server[r] /\ queue'[r] = queue[r]
  /\ server'[s].conn = NoConn
  /\ queue'[s] \in {queue[s], <<>>}

\* Closing opens nothing.
LEMMA ClosingThins ==
  ASSUME TypeOK, NEW s \in Servers, Closing(s)
  PROVE  Thinned
<1>1. \A r \in Servers : Len(queue[r]) \in Nat
  BY DEF TypeOK
<1>2. queue'[s] = queue[s] \/ (queue'[s] = <<>> /\ Len(queue'[s]) = 0)
  BY DEF Closing
<1>q. QED  BY <1>1, <1>2 DEF Closing, Thinned, NoConn

\* A server that ends has neither connections nor a backlog.
LEMMA EndsClose ==
  ASSUME TypeOK, NEW s \in Servers, Ends(s)
  PROVE  /\ Closing(s) /\ server'[s].at = "ended"
         /\ queue' \in [Servers -> Seq(Conns)]
         /\ \A r \in Servers : Len(queue'[r]) <= Backlog + 1
         /\ server' \in [Servers -> [at : ServerPoints, conn : Conns]]
<1>1. NoConn \in Conns  BY DEF NoConn, Conns
<1>2. server' \in [Servers -> [at : ServerPoints, conn : Conns]]
  BY <1>1 DEF Ends, TypeOK, ServerPoints
<1>3. <<>> \in Seq(Conns) /\ Len(<<>>) = 0  BY EmptySeq
<1>4. queue' \in [Servers -> Seq(Conns)]  BY <1>3 DEF Ends, TypeOK
<1>5. \A r \in Servers : Len(queue'[r]) <= Backlog + 1
  BY <1>3, ChannelAssumption DEF Ends, TypeOK
<1>6. Closing(s) /\ server'[s].at = "ended"
  BY DEF Ends, TypeOK, Closing
<1>q. QED  BY <1>2, <1>4, <1>5, <1>6

\* The supervisor's end closes all connections of its threads.
LEMMA Death ==
  ASSUME Inv, SupervisorDies, UNCHANGED faults
  PROVE  Inv'
<1>1. /\ NoConn \in Conns /\ NoConn.from = "-" /\ "child" # "control"
      /\ "control" \in Servers /\ "child" \in Servers
      /\ Servers = {"control", "child"} /\ Askers \subseteq Clients
  BY DEF NoConn, Conns, Servers, Clients
<1> DEFINE h == [k \in Conns |-> IF k.from \in Askers THEN [k EXCEPT !.from = "-"] ELSE k]
<1> DEFINE Q == queue["child"]
<1>2. /\ h \in [Conns -> Conns]
      /\ \A k \in Conns : h[k].from \in {k.from, "-"} /\ h[k].from \notin Askers
  BY <1>1, DashIsNoClient DEF Conns
<1>3. /\ Q \in Seq(Conns) /\ server["child"].conn \in Conns
      /\ Len(Q) \in Nat /\ \A i \in 1..Len(Q) : Q[i] \in Conns
      /\ server["child"].at \in ServerPoints
  BY <1>1 DEF Inv, TypeOK
<1>4. /\ queue' = [control |-> <<>>, child |-> [i \in 1..Len(Q) |-> h[Q[i]]]]
      /\ server' = [control |-> [at |-> "ended", conn |-> NoConn],
                    child |-> [server["child"] EXCEPT !.conn = h[@]]]
  BY <1>3 DEF SupervisorDies
<1>5. /\ alive' = FALSE /\ main' = "dead" /\ UNCHANGED <<running, asks, faults>>
      /\ client' = [c \in Clients |-> IF c \in Askers THEN "done" ELSE client[c]]
  BY DEF SupervisorDies
<1> HIDE DEF h
<1>6. /\ queue'["control"] = <<>> /\ server'["control"].conn = NoConn
      /\ queue'["child"] = [i \in 1..Len(Q) |-> h[Q[i]]]
      /\ server'["child"].conn = h[server["child"].conn]
      /\ server'["child"] \in [at : ServerPoints, conn : Conns]
      /\ server'["control"] \in [at : ServerPoints, conn : Conns]
  BY <1>1, <1>2, <1>3, <1>4, EmptySeq DEF Inv, TypeOK, ServerPoints
<1>7. /\ queue'["child"] \in Seq(Conns) /\ Len(queue'["child"]) = Len(Q)
      /\ \A i \in 1..Len(Q) : queue'["child"][i] = h[Q[i]]
  <2>1. \A i \in 1..Len(Q) : queue'["child"][i] = h[Q[i]]  BY <1>6
  <2>2. \A i \in 1..Len(Q) : queue'["child"][i] \in Conns  BY <1>2, <1>3, <2>1
  <2>3. queue'["child"] = [i \in 1..Len(Q) |-> queue'["child"][i]]  BY <1>6, <2>1
  <2>q. QED  BY <1>3, <2>1, <2>2, <2>3, MappedSeq
<1>8. TypeOK'
  <2>1. queue' \in [Servers -> Seq(Conns)]
    <3>1. queue' = [control |-> queue'["control"], child |-> queue'["child"]]
      BY <1>4
    <3>2. queue'["control"] \in Seq(Conns) /\ queue'["child"] \in Seq(Conns)
      BY <1>6, <1>7, EmptySeq
    <3>q. QED  BY <1>1, <3>1, <3>2
  <2>2. \A r \in Servers : Len(queue'[r]) <= Backlog + 1
    BY <1>1, <1>6, <1>7, EmptySeq, ChannelAssumption DEF Inv, TypeOK
  <2>3. server' \in [Servers -> [at : ServerPoints, conn : Conns]]
    BY <1>1, <1>4, <1>6
  <2>4. client' \in [Clients -> ClientPoints]
    BY <1>5 DEF Inv, TypeOK, ClientPoints
  <2>q. QED  BY <1>5, <2>1, <2>2, <2>3, <2>4 DEF Inv, TypeOK, MainPoints
<1>9. Thinned
  <2>1. Len(queue'["control"]) = 0 /\ 1..0 = {}  BY <1>6, EmptySeq
  <2>2. \A i \in 1..Len(Q) : queue'["child"][i].from \in {Q[i].from, "-"}
    BY <1>2, <1>3, <1>7
  <2>3. server'["child"].conn.from \in {server["child"].conn.from, "-"}
    BY <1>2, <1>3, <1>6
  <2>q. QED  BY <1>1, <1>6, <1>7, <2>1, <2>2, <2>3 DEF Thinned
<1>10. Asking'
  BY <1>5, Askings DEF Asking, Askers
<1>11. ASSUME NEW c \in Clients, Connected(c)'
       PROVE  c \notin Askers
  <2>1. SUFFICES ASSUME c \in Askers PROVE FALSE  OBVIOUS
  <2>2. ServerOf(c) = "child"  BY <2>1, ChannelAssumption DEF ServerOf, Askers
  <2>3. server'["child"].conn.from # c
    BY <1>2, <1>3, <1>6, <2>1
  <2>4. \A i \in 1..Len(queue'["child"]) : queue'["child"][i].from # c
    BY <1>2, <1>3, <1>7, <2>1
  <2>q. QED  BY <1>11, <2>2, <2>3, <2>4 DEF Connected, ServerOf
<1>12. \A c \in Clients : Connected(c)' /\ client[c] \in OpenPoints => client'[c] \in OpenPoints
  BY <1>5, <1>11
<1>q. QED  BY <1>8, <1>9, <1>10, <1>12, KeptByThinning

\* The steps of the servers that close connections.
LEMMA ServerCloses ==
  ASSUME Inv, NEW s \in Servers,
         Close(s) \/ ReplyBroken(s) \/ LoopEnds \/ Crash
  PROVE  Inv'
<1>1. CASE Close(s)
  <2> DEFINE c == server[s].conn.from
  <2>1. /\ server[s].at = "close"
        /\ server' = [server EXCEPT ![s] = [at |-> "test", conn |-> NoConn]]
        /\ client' = [d \in Clients |-> IF d \in Operators /\ d = c THEN "done" ELSE client[d]]
        /\ UNCHANGED <<queue, running, main, alive, asks, faults>>
    BY <1>1 DEF Close
  <2>2. NoConn \in Conns  BY DEF NoConn, Conns
  <2>3. /\ server' \in [Servers -> [at : ServerPoints, conn : Conns]]
        /\ server'[s].at = "test" /\ server'[s].conn = NoConn
        /\ \A r \in Servers \ {s} : server'[r] = server[r]
    BY <2>1, <2>2 DEF Inv, TypeOK, ServerPoints
  <2>4. Closing(s)  BY <2>1, <2>3 DEF Closing
  <2>5. Thinned  BY <2>4, ClosingThins DEF Inv
  <2>6. TypeOK'
    <3>1. client' \in [Clients -> ClientPoints]
      BY <2>1 DEF Inv, TypeOK, ClientPoints
    <3>q. QED  BY <2>1, <2>3, <3>1 DEF Inv, TypeOK
  <2>7. Asking'
    <3>1. "control" \notin Operators  BY ChannelAssumption
    <3>2. client'["control"] = client["control"]  BY <2>1, <3>1, Askings
    <3>q. QED  BY <2>1, <2>3, <3>2, Askings DEF Inv, Asking
  <2>8. ASSUME NEW d \in Clients, Connected(d)'
        PROVE  ~(d \in Operators /\ d = c)
    <3>1. SUFFICES ASSUME d \in Operators, d = c PROVE FALSE  OBVIOUS
    <3>2. ServerOf(d) = s
      BY <3>1, ChannelAssumption DEF Inv, Routed
    <3>3. server'[s].conn.from # d
      BY <2>3, DashIsNoClient DEF NoConn
    <3>4. \A i \in 1..Len(queue[s]) : queue[s][i].from # d
      BY <3>1 DEF Inv, Unique
    <3>q. QED  BY <2>1, <2>8, <3>2, <3>3, <3>4 DEF Connected, ServerOf
  <2>9. \A d \in Clients :
          Connected(d)' /\ client[d] \in OpenPoints => client'[d] \in OpenPoints
    BY <2>1, <2>8
  <2>q. QED  BY <2>5, <2>6, <2>7, <2>9, KeptByThinning
<1>2. ASSUME NEW r \in Servers, Ends(r), server["control"].at # "forward" \/ r # "control",
             UNCHANGED <<client, running, main, alive, asks>>, faults' \in 0..MaxFaults
      PROVE  Inv'
  <2>1. Thinned  BY <1>2, EndsClose, ClosingThins DEF Inv
  <2>2. TypeOK'  BY <1>2, EndsClose DEF Inv, TypeOK
  <2>3. Asking'  BY <1>2, EndsClose, Askings DEF Inv, Asking, Closing
  <2>q. QED  BY <1>2, <2>1, <2>2, <2>3, KeptByThinning
<1>3. CASE ReplyBroken(s)
  <2>1. CASE s = "control"
    BY <1>3, <2>1, Death DEF ReplyBroken
  <2>2. CASE s # "control"
    BY <1>2, <1>3, <2>2 DEF ReplyBroken, Inv, TypeOK
  <2>q. QED  BY <2>1, <2>2
<1>4. CASE LoopEnds
  BY <1>2, <1>4, Askings DEF LoopEnds, Inv, TypeOK
<1>5. CASE Crash
  <2>1. "child" \in Servers /\ "child" # "control"  BY DEF Servers
  <2>q. QED  BY <1>2, <1>5, <2>1, FaultCounted DEF Crash, Inv
<1>q. QED  BY <1>1, <1>3, <1>4, <1>5

--------------------------------------------------------------------------
\* The clients.

\* What a client's step is.
LEMMA ClientMoves ==
  ASSUME Inv, NEW c \in Clients, NEW from \in ClientPoints, NEW to \in ClientPoints,
         Client(c, from, to)
  PROVE  /\ client' \in [Clients -> ClientPoints]
         /\ client[c] = from /\ client'[c] = to
         /\ \A d \in Clients \ {c} : client'[d] = client[d]
         /\ UNCHANGED <<running, main, alive, asks>>
BY TypesOfClients DEF Client, Inv

\* A client goes on without touching a connection, from where it has none or to
\* where it may have one.
LEMMA ClientQuiet ==
  ASSUME Inv, NEW c \in Clients, NEW from \in ClientPoints, NEW to \in ClientPoints,
         Client(c, from, to), UNCHANGED <<queue, server, faults>>,
         ~Connected(c) \/ to \in OpenPoints,
         c = "control" => to \in {"idle", "done"} \/ from \notin {"idle", "done"}
  PROVE  Inv'
<1>1. Thinned /\ TypeOK'
  BY ClientMoves, SameConnections DEF Inv, TypeOK
<1>2. Asking'
  BY ClientMoves, Askings DEF Inv, Asking
<1>3. \A d \in Clients : Connected(d)' => Connected(d)
  BY DEF Connected
<1>4. \A d \in Clients :
        Connected(d)' /\ client[d] \in OpenPoints => client'[d] \in OpenPoints
  BY <1>3, ClientMoves
<1>q. QED  BY <1>1, <1>2, <1>4, KeptByThinning

\* A client closes its connection and leaves its request.
LEMMA ClientLeaves ==
  ASSUME Inv, NEW c \in Clients, NEW from \in ClientPoints,
         NEW to \in {"idle", "done"}, Client(c, from, to), HangUp({c}),
         faults' \in 0..MaxFaults
  PROVE  Inv'
<1>1. to \in ClientPoints  BY DEF ClientPoints
<1>2. Mapped /\ ~Connected(c)'
  BY HangUpThins DEF Inv
<1>3. TypeOK'
  BY <1>1, <1>2, ClientMoves DEF Inv, TypeOK, Mapped
<1>4. Asking'
  BY <1>1, <1>2, ClientMoves, Askings DEF Inv, Asking, Mapped
<1>5. \A d \in Clients :
        Connected(d)' /\ client[d] \in OpenPoints => client'[d] \in OpenPoints
  BY <1>1, <1>2, ClientMoves
<1>q. QED  BY <1>2, <1>3, <1>4, <1>5, KeptByThinning DEF Mapped

\* The steps of a client that is in a request.
LEMMA ClientSteps ==
  ASSUME Inv, NEW c \in Clients, ClientStep(c)
  PROVE  Inv'
<1>1. CASE Connect(c)
  <2> DEFINE s == ServerOf(c)
             k == [from |-> c, line |-> FALSE]
  <2>1. s \in Servers /\ k \in Conns  BY DEF ServerOf, Servers, Conns
  <2>2. /\ ~Full(s) /\ Client(c, "connect", "send")
        /\ queue' = [queue EXCEPT ![s] = Append(@, k)] /\ UNCHANGED <<server, faults>>
    BY <1>1 DEF Connect
  <2>3. /\ client' \in [Clients -> ClientPoints] /\ client[c] = "connect"
        /\ client'[c] \in OpenPoints /\ \A d \in Clients \ {c} : client'[d] = client[d]
        /\ UNCHANGED <<running, main, alive, asks>>
    BY <2>2, ClientMoves DEF ClientPoints, OpenPoints
  <2>4. ~Connected(c)
    BY <2>3 DEF Inv, Open, OpenPoints
  <2>5. running' \in BOOLEAN /\ main' \in MainPoints
    BY <2>3 DEF Inv, TypeOK
  <2>q. QED  BY <2>1, <2>2, <2>3, <2>4, <2>5, Added
<1>2. CASE Refused(c)
  <2>1. PICK to \in {"done", "idle"} : Client(c, "connect", to)
    BY <1>2 DEF Refused
  <2>2. ~Connected(c)
    BY <2>1 DEF Inv, Open, OpenPoints, Client
  <2>q. QED  BY <1>2, <2>1, <2>2, ClientQuiet DEF Refused, ClientPoints
<1>3. CASE Send(c)
  <2>1. Client(c, "send", "wait") /\ UNCHANGED faults  BY <1>3 DEF Send
  <2>2. Mapped  BY <1>3, SentThins DEF Send, Inv
  <2>3. /\ client' \in [Clients -> ClientPoints] /\ client[c] = "send"
        /\ client'[c] = "wait" /\ \A d \in Clients \ {c} : client'[d] = client[d]
        /\ UNCHANGED <<running, main, alive, asks>>
    BY <2>1, ClientMoves DEF ClientPoints
  <2>4. TypeOK'  BY <2>1, <2>2, <2>3 DEF Inv, TypeOK, Mapped
  <2>5. Asking'  BY <2>2, <2>3, Askings DEF Inv, Asking, Mapped
  <2>q. QED  BY <2>2, <2>3, <2>4, <2>5, KeptByThinning DEF Mapped, OpenPoints
<1>4. CASE SendBroken(c)
  <2>1. CASE c \in Askers
    BY <1>4, <2>1, Death DEF SendBroken
  <2>2. CASE c \notin Askers
    BY <1>4, <2>2, ClientQuiet DEF SendBroken, ClientPoints
  <2>q. QED  BY <2>1, <2>2
<1>5. CASE TimeOut(c)
  BY <1>5, ClientLeaves DEF TimeOut, ClientPoints, Inv, TypeOK
<1>6. CASE Eof(c)
  <2>1. ~Connected(c) /\ UNCHANGED <<queue, server, faults>>  BY <1>6 DEF Eof
  <2>2. PICK from \in {"wait", "answered"}, to \in {"done", "idle"} : Client(c, from, to)
    BY <1>6 DEF Eof
  <2>q. QED  BY <2>1, <2>2, ClientQuiet DEF ClientPoints
<1>7. CASE Return(c)
  BY <1>7, ClientLeaves DEF Return, ClientPoints, Inv, TypeOK
<1>q. QED  BY <1>1, <1>2, <1>3, <1>4, <1>5, <1>6, <1>7 DEF ClientStep

\* The beginning of an lmctl, and its end by a signal.
LEMMA OperatorSteps ==
  ASSUME Inv, NEW o \in Operators, Command(o) \/ Killed(o)
  PROVE  Inv'
<1>1. o \in Clients /\ o # "control"  BY ChannelAssumption DEF Clients
<1>2. CASE Command(o)
  <2>1. Client(o, "idle", "connect") /\ UNCHANGED <<queue, server, faults>>
    BY <1>2 DEF Command
  <2>2. ~Connected(o)
    BY <1>1, <2>1 DEF Inv, Open, OpenPoints, Client
  <2>q. QED  BY <1>1, <2>1, <2>2, ClientQuiet DEF ClientPoints
<1>3. CASE Killed(o)
  <2>1. PICK from \in {"connect", "send", "wait"} : Client(o, from, "done")
    BY <1>3 DEF Killed
  <2>2. HangUp({o}) /\ faults' \in 0..MaxFaults
    BY <1>3, FaultCounted DEF Killed, Inv
  <2>q. QED  BY <1>1, <2>1, <2>2, ClientLeaves DEF ClientPoints
<1>q. QED  BY <1>2, <1>3

\* The poller begins a request: it has no connection yet.
LEMMA PollStep ==
  ASSUME Inv, Poll
  PROVE  Inv'
<1>1. /\ client["poll"] = "idle" /\ client' = [client EXCEPT !["poll"] = "connect"]
      /\ asks < MaxAsks /\ asks' = asks + 1
      /\ UNCHANGED <<queue, server, running, main, alive, faults>>
  BY DEF Poll
<1>2. /\ client' \in [Clients -> ClientPoints] /\ client'["poll"] = "connect"
      /\ \A d \in Clients \ {"poll"} : client'[d] = client[d]
  BY <1>1, Askings, TypesOfClients DEF Inv, ClientPoints
<1>3. Thinned /\ TypeOK'
  BY <1>1, <1>2, SameConnections, ChannelAssumption DEF Inv, TypeOK
<1>4. Asking'
  BY <1>1, <1>2, Askings DEF Inv, Asking
<1>q. QED  BY <1>1, <1>2, <1>3, <1>4, KeptByThinning DEF OpenPoints

\* Only Poke touches a connection: it adds one of nobody.
LEMMA MainSteps ==
  ASSUME Inv, Signal \/ MainStep
  PROVE  Inv'
<1>0. main' \in MainPoints /\ running' \in BOOLEAN
  BY DEF Signal, MainStep, StopFlag, Poke, Join, Main, MainPoints, Inv, TypeOK
<1>1. UNCHANGED <<server, client, alive, asks, faults>>
  BY DEF Signal, MainStep, StopFlag, Poke, Join, Main
<1>2. CASE UNCHANGED queue
  <2>1. Thinned /\ TypeOK'
    BY <1>0, <1>1, <1>2, SameConnections DEF Inv, TypeOK
  <2>2. Asking'  BY <1>1 DEF Inv, Asking
  <2>q. QED  BY <1>1, <2>1, <2>2, KeptByThinning
<1>3. CASE queue' # queue
  <2>1. Poke /\ ~Full("control")
        /\ queue' = [queue EXCEPT !["control"] = Append(@, NoConn)]
    BY <1>3 DEF Signal, MainStep, StopFlag, Poke, Join, Main
  <2>2. NoConn \in Conns /\ NoConn.from = "-" /\ client' \in [Clients -> ClientPoints]
    BY <1>1 DEF NoConn, Conns, Inv, TypeOK
  <2>q. QED  BY <1>0, <1>1, <2>1, <2>2, Askings, Added
<1>q. QED  BY <1>2, <1>3

--------------------------------------------------------------------------
\* The invariant holds at the start ...
LEMMA InvInit == Init => Inv
<1> SUFFICES ASSUME Init PROVE Inv  OBVIOUS
<1>1. NoConn \in Conns /\ NoConn.from = "-"  BY DEF NoConn, Conns
<1>2. <<>> \in Seq(Conns) /\ Len(<<>>) = 0 /\ 1..0 = {}  BY EmptySeq
<1>3. TypeOK
  BY <1>1, <1>2, ChannelAssumption DEF Init, TypeOK, ServerPoints, ClientPoints, MainPoints
<1>4. \A c \in Clients : ~Connected(c)
  BY <1>1, <1>2, DashIsNoClient DEF Init, Connected, ServerOf, Servers
<1>5. Routed /\ Unique
  BY <1>1, <1>2 DEF Init, Routed, Unique
<1>6. Asking  BY Askings DEF Init, Asking
<1>q. QED  BY <1>3, <1>4, <1>5, <1>6 DEF Inv, Open

\* ... every step keeps it ...
LEMMA InvNext == Inv /\ [Next]_vars => Inv'
<1> SUFFICES ASSUME Inv, [Next]_vars PROVE Inv'  OBVIOUS
<1>1. ASSUME NEW s \in Servers, ServerStep(s) PROVE Inv'
  BY <1>1, Taken, Pass, ServerCloses DEF ServerStep
<1>2. CASE Hang \/ Wake  BY <1>2, Askings, Pass
<1>3. CASE Crash  BY <1>3, Askings, ServerCloses
<1>4. ASSUME NEW c \in Clients, ClientStep(c) PROVE Inv'
  BY <1>4, ClientSteps
<1>5. ASSUME NEW o \in Operators, Command(o) \/ Killed(o) PROVE Inv'
  BY <1>5, OperatorSteps
<1>6. CASE Poll  BY <1>6, PollStep
<1>7. CASE Signal \/ MainStep  BY <1>7, MainSteps
<1>8. CASE UNCHANGED vars
  <2>1. TypeOK' /\ Thinned
    BY <1>8, SameConnections DEF vars, Inv, TypeOK
  <2>2. Asking' /\ UNCHANGED client  BY <1>8 DEF vars, Inv, Asking
  <2>q. QED  BY <2>1, <2>2, KeptByThinning
<1>q. QED  BY <1>1, <1>2, <1>3, <1>4, <1>5, <1>6, <1>7, <1>8 DEF Next

\* ... and so it always holds.
LEMMA ChannelInvariant == Spec => []Inv
BY InvInit, InvNext, PTL DEF Spec

\* Types, and the length of every backlog, for any operators, any backlog and any
\* number of requests and faults.
THEOREM ChannelTypes == Spec => []TypeOK
<1>1. Inv => TypeOK  BY DEF Inv
<1>q. QED  BY <1>1, ChannelInvariant, PTL

\* IpcClient::request and lmctl leave no connection open, whichever way out of
\* the request they take and whatever the server does meanwhile.
THEOREM NoConnectionLeft == Spec => []NoStrayConnection
<1>1. Inv => NoStrayConnection
  BY DEF Inv, Unique, Open, OpenPoints, NoStrayConnection
<1>q. QED  BY <1>1, ChannelInvariant, PTL

--------------------------------------------------------------------------
(***************************************************************************)
(* An answer meets the request it answers.  The server's end of each       *)
(* connection tells how far its client is: the invariant that is needed    *)
(* says so.                                                                *)
(***************************************************************************)

\* The client of a connection that is not answered yet.
StepOf(k) == IF k.line THEN "wait" ELSE "send"

\* A client that holds a connection is where its connection says.
InStep ==
  \A s \in Servers :
    /\ \A i \in 1..Len(queue[s]) :
         queue[s][i].from # "-" => client[queue[s][i].from] = StepOf(queue[s][i])
    /\ LET k == server[s].conn IN
       k.from # "-" =>
         /\ client[k.from] = IF server[s].at = "close" THEN "answered" ELSE StepOf(k)
         /\ server[s].at \in {"handle", "forward", "hung", "reply"} => k.line

\* What is left of the connections is left as it was.
Surviving ==
  \A s \in Servers :
    /\ \A i \in 1..Len(queue'[s]) :
         queue'[s][i].from # "-" => i \in 1..Len(queue[s]) /\ queue'[s][i] = queue[s][i]
    /\ server'[s].conn.from # "-" =>
         server'[s].conn = server[s].conn /\ server'[s].at = server[s].at

\* Whoever a connection names has a connection.
NamedConnected ==
  \A s \in Servers :
    /\ server[s].conn.from # "-" =>
         server[s].conn.from \in Clients /\ Connected(server[s].conn.from)
    /\ \A i \in 1..Len(queue[s]) :
         queue[s][i].from # "-" => queue[s][i].from \in Clients /\ Connected(queue[s][i].from)

LEMMA Names ==
  ASSUME Inv PROVE NamedConnected
<1>1. ASSUME NEW s \in Servers
      PROVE  /\ server[s].conn \in Conns /\ queue[s] \in Seq(Conns)
             /\ \A i \in 1..Len(queue[s]) : queue[s][i] \in Conns
  <2>1. server[s].conn \in Conns /\ queue[s] \in Seq(Conns)  BY DEF Inv, TypeOK
  <2>q. QED  BY <2>1
<1>q. QED  BY <1>1 DEF NamedConnected, Inv, Routed, Connected, Conns

LEMMA NamesAfter ==
  ASSUME Inv' PROVE NamedConnected'
BY Names, PTL

\* A step that only closes connections, and moves no client that keeps one.
LEMMA InStepKept ==
  ASSUME Inv', InStep, Surviving,
         \A c \in Clients : Connected(c)' => client'[c] = client[c]
  PROVE  InStep'
<1>1. NamedConnected'  BY NamesAfter
<1>2. ASSUME NEW s \in Servers, NEW i \in 1..Len(queue'[s]), queue'[s][i].from # "-"
      PROVE  client'[queue'[s][i].from] = StepOf(queue'[s][i])
  <2>1. i \in 1..Len(queue[s]) /\ queue'[s][i] = queue[s][i]
    BY <1>2 DEF Surviving
  <2>2. client[queue[s][i].from] = StepOf(queue[s][i])
    BY <1>2, <2>1 DEF InStep
  <2>3. client'[queue'[s][i].from] = client[queue'[s][i].from]
    BY <1>1, <1>2 DEF NamedConnected
  <2>q. QED  BY <2>1, <2>2, <2>3
<1>3. ASSUME NEW s \in Servers, server'[s].conn.from # "-"
      PROVE  /\ client'[server'[s].conn.from] =
                  IF server'[s].at = "close" THEN "answered" ELSE StepOf(server'[s].conn)
             /\ server'[s].at \in {"handle", "forward", "hung", "reply"} => server'[s].conn.line
  <2>1. server'[s].conn = server[s].conn /\ server'[s].at = server[s].at
    BY <1>3 DEF Surviving
  <2>2. client'[server'[s].conn.from] = client[server'[s].conn.from]
    BY <1>1, <1>3 DEF NamedConnected
  <2>q. QED  BY <1>3, <2>1, <2>2 DEF InStep
<1>q. QED  BY <1>2, <1>3 DEF InStep, StepOf

\* A server goes on with the connection it has: it handles, forwards and answers
\* a line that it has read.
LEMMA InStepServed ==
  ASSUME Inv, Inv', InStep, NEW s \in Servers,
         NEW from \in ServerPoints \ {"close"}, NEW to \in ServerPoints \ {"close"},
         Server(s, from, to),
         to \in {"handle", "forward", "hung", "reply"} =>
           \/ from \in {"handle", "forward", "hung", "reply"}
           \/ server[s].conn.line \/ server[s].conn.from = "-",
         \A c \in Clients : Connected(c) => client'[c] = client[c]
  PROVE  InStep'
<1>1. /\ server'[s].at = to /\ server[s].at = from /\ queue' = queue
      /\ \A r \in Servers \ {s} : server'[r].at = server[r].at
      /\ \A r \in Servers : server'[r].conn = server[r].conn
  BY ServerMoves DEF Server
<1>2. NamedConnected  BY Names
<1>3. ASSUME NEW r \in Servers, NEW i \in 1..Len(queue'[r]), queue'[r][i].from # "-"
      PROVE  client'[queue'[r][i].from] = StepOf(queue'[r][i])
  BY <1>1, <1>2, <1>3 DEF InStep, NamedConnected
<1>4. ASSUME NEW r \in Servers, server'[r].conn.from # "-"
      PROVE  /\ client'[server'[r].conn.from] =
                  IF server'[r].at = "close" THEN "answered" ELSE StepOf(server'[r].conn)
             /\ server'[r].at \in {"handle", "forward", "hung", "reply"} => server'[r].conn.line
  <2>1. client'[server'[r].conn.from] = client[server[r].conn.from]
    BY <1>1, <1>2, <1>4 DEF NamedConnected
  <2>2. /\ client[server[r].conn.from] =
             IF server[r].at = "close" THEN "answered" ELSE StepOf(server[r].conn)
        /\ server[r].at \in {"handle", "forward", "hung", "reply"} => server[r].conn.line
    BY <1>1, <1>4 DEF InStep
  <2>3. CASE r = s
    BY <1>1, <1>4, <2>1, <2>2, <2>3
  <2>4. CASE r # s
    BY <1>1, <2>1, <2>2, <2>4
  <2>q. QED  BY <2>3, <2>4
<1>q. QED  BY <1>3, <1>4 DEF InStep, StepOf

\* The client that is answered has its connection there and nowhere else.
LEMMA InStepAnswered ==
  ASSUME Inv, Inv', InStep, NEW s \in Servers, Reply(s)
  PROVE  InStep'
<1> DEFINE c == server[s].conn.from
<1>1. /\ Server(s, "reply", "close") /\ c # "-"
      /\ client' = [client EXCEPT ![c] = "answered"]
  BY DEF Reply
<1>2. c \in Clients /\ ServerOf(c) = s
  BY <1>1 DEF Inv, TypeOK, Conns, Routed
<1>3. /\ client'[c] = "answered" /\ \A d \in Clients \ {c} : client'[d] = client[d]
  BY <1>1, <1>2, TypesOfClients DEF Inv, ClientPoints
<1>4. /\ server'[s].at = "close" /\ queue' = queue
      /\ \A r \in Servers \ {s} : server'[r].at = server[r].at
      /\ \A r \in Servers : server'[r].conn = server[r].conn
  BY <1>1, ServerMoves DEF ServerPoints
<1>5. \A r \in Servers \ {s} : server[r].conn.from # c
  BY <1>1, <1>2 DEF Inv, Routed
<1>6. \A r \in Servers : \A i \in 1..Len(queue[r]) : queue[r][i].from # c
  BY <1>1, <1>2 DEF Inv, Routed, Unique
<1>7. NamedConnected  BY Names
<1>8. ASSUME NEW r \in Servers, NEW i \in 1..Len(queue'[r]), queue'[r][i].from # "-"
      PROVE  client'[queue'[r][i].from] = StepOf(queue'[r][i])
  BY <1>3, <1>4, <1>6, <1>7, <1>8 DEF InStep, NamedConnected
<1>9. ASSUME NEW r \in Servers, server'[r].conn.from # "-"
      PROVE  /\ client'[server'[r].conn.from] =
                  IF server'[r].at = "close" THEN "answered" ELSE StepOf(server'[r].conn)
             /\ server'[r].at \in {"handle", "forward", "hung", "reply"} => server'[r].conn.line
  <2>1. CASE r = s
    BY <1>3, <1>4, <2>1
  <2>2. CASE r # s
    BY <1>3, <1>4, <1>5, <1>7, <1>9, <2>2 DEF InStep, NamedConnected
  <2>q. QED  BY <2>1, <2>2
<1> HIDE DEF c
<1>q. QED  BY <1>8, <1>9 DEF InStep, StepOf

\* The connection accepted is the oldest of the queue.
LEMMA InStepTaken ==
  ASSUME Inv, Inv', InStep, NEW s \in Servers, Accept(s)
  PROVE  InStep'
<1> DEFINE Q == queue[s]
<1>1. /\ Q # <<>>
      /\ server' = [server EXCEPT ![s] = [at |-> "read", conn |-> Head(Q)]]
      /\ queue' = [queue EXCEPT ![s] = Tail(Q)] /\ UNCHANGED client
  BY DEF Accept
<1>2. /\ Q \in Seq(Conns) /\ queue \in [Servers -> Seq(Conns)]
      /\ server \in [Servers -> [at : ServerPoints, conn : Conns]]
  BY DEF Inv, TypeOK
<1>3. /\ Head(Q) = Q[1] /\ Len(Q) \in Nat /\ Len(Q) > 0 /\ Len(Tail(Q)) = Len(Q) - 1
      /\ \A i \in 1..Len(Tail(Q)) : Tail(Q)[i] = Q[i+1]
  BY <1>1, <1>2, HeadTailProperties, EmptySeq
<1>4. /\ queue'[s] = Tail(Q) /\ \A r \in Servers \ {s} : queue'[r] = queue[r]
      /\ server'[s].conn = Q[1] /\ server'[s].at = "read"
      /\ \A r \in Servers \ {s} : server'[r] = server[r]
  BY <1>1, <1>2, <1>3
<1>5. \A i \in 1..Len(Tail(Q)) : i + 1 \in 1..Len(Q)
  BY <1>3
<1>6. ASSUME NEW r \in Servers, NEW i \in 1..Len(queue'[r]), queue'[r][i].from # "-"
      PROVE  client'[queue'[r][i].from] = StepOf(queue'[r][i])
  <2>1. CASE r = s
    <3>1. i + 1 \in 1..Len(Q) /\ queue'[r][i] = Q[i+1]
      BY <1>3, <1>4, <1>5, <2>1
    <3>2. client[Q[i+1].from] = StepOf(Q[i+1])
      BY <1>6, <3>1 DEF InStep
    <3>q. QED  BY <1>1, <3>1, <3>2
  <2>2. CASE r # s
    BY <1>1, <1>4, <1>6, <2>2 DEF InStep
  <2>q. QED  BY <2>1, <2>2
<1>7. ASSUME NEW r \in Servers, server'[r].conn.from # "-"
      PROVE  /\ client'[server'[r].conn.from] =
                  IF server'[r].at = "close" THEN "answered" ELSE StepOf(server'[r].conn)
             /\ server'[r].at \in {"handle", "forward", "hung", "reply"} => server'[r].conn.line
  <2>1. CASE r = s
    <3>1. 1 \in 1..Len(Q)  BY <1>3
    <3>2. client[Q[1].from] = StepOf(Q[1])
      BY <1>4, <1>7, <2>1, <3>1 DEF InStep
    <3>q. QED  BY <1>1, <1>4, <2>1, <3>2
  <2>2. CASE r # s
    BY <1>1, <1>4, <1>7, <2>2 DEF InStep
  <2>q. QED  BY <2>1, <2>2
<1>q. QED  BY <1>6, <1>7 DEF InStep, StepOf

\* A connection is added, of a client that has nothing else to send it for.
LEMMA InStepAdded ==
  ASSUME Inv, InStep, NEW s \in Servers, NEW k \in Conns,
         queue' = [queue EXCEPT ![s] = Append(@, k)], UNCHANGED server,
         k.from # "-" => client'[k.from] = StepOf(k),
         \A c \in Clients : Connected(c) => client'[c] = client[c]
  PROVE  InStep'
<1> DEFINE Q == queue[s]
<1>1. Q \in Seq(Conns) /\ queue \in [Servers -> Seq(Conns)] /\ Len(Q) \in Nat
  BY DEF Inv, TypeOK
<1>2. /\ Len(queue'[s]) = Len(Q) + 1
      /\ \A i \in 1..Len(Q) : queue'[s][i] = Q[i]
      /\ queue'[s][Len(Q) + 1] = k
      /\ \A r \in Servers \ {s} : queue'[r] = queue[r]
  BY <1>1
<1>3. NamedConnected  BY Names
<1>4. ASSUME NEW r \in Servers, NEW i \in 1..Len(queue'[r]), queue'[r][i].from # "-"
      PROVE  client'[queue'[r][i].from] = StepOf(queue'[r][i])
  <2>1. CASE i \in 1..Len(queue[r]) /\ queue'[r][i] = queue[r][i]
    BY <1>3, <1>4, <2>1 DEF InStep, NamedConnected
  <2>2. CASE queue'[r][i] = k
    BY <1>4, <2>2
  <2>3. r = s => i \in 1..Len(Q) \/ i = Len(Q) + 1
    BY <1>1, <1>2
  <2>q. QED  BY <1>2, <2>1, <2>2, <2>3
<1>5. ASSUME NEW r \in Servers, server'[r].conn.from # "-"
      PROVE  /\ client'[server'[r].conn.from] =
                  IF server'[r].at = "close" THEN "answered" ELSE StepOf(server'[r].conn)
             /\ server'[r].at \in {"handle", "forward", "hung", "reply"} => server'[r].conn.line
  BY <1>3, <1>5 DEF InStep, NamedConnected
<1>q. QED  BY <1>4, <1>5 DEF InStep, StepOf

\* A client that hangs up takes no other client's connection with it.
LEMMA HangUpSurvives ==
  ASSUME TypeOK, NEW C \in SUBSET Clients, HangUp(C)
  PROVE  Surviving
<1> DEFINE h == [k \in Conns |-> IF k.from \in C THEN [k EXCEPT !.from = "-"] ELSE k]
<1>1. /\ h \in [Conns -> Conns]
      /\ \A k \in Conns : h[k].from \in {k.from, "-"}
      /\ \A k \in Conns : h[k].from # "-" => h[k] = k
  BY DashIsNoClient DEF Conns
<1>2. \A s \in Servers : server[s].conn \in Conns /\ queue[s] \in Seq(Conns)
  BY DEF TypeOK
<1>3. \A s \in Servers : \A i \in 1..Len(queue[s]) : queue[s][i] \in Conns
  BY <1>2
<1>4. queue' = [s \in Servers |-> [i \in 1..Len(queue[s]) |-> h[queue[s][i]]]]
  BY <1>3 DEF HangUp, Changed
<1>5. server' = [s \in Servers |-> [server[s] EXCEPT !.conn = h[@]]]
  BY <1>2 DEF HangUp, Changed
<1> HIDE DEF h
<1>6. /\ \A s \in Servers :
           server'[s].at = server[s].at /\ server'[s].conn = h[server[s].conn]
      /\ \A s \in Servers : Len(queue'[s]) = Len(queue[s])
      /\ \A s \in Servers : \A i \in 1..Len(queue[s]) : queue'[s][i] = h[queue[s][i]]
  BY <1>1, <1>4, <1>5, MappedThins
<1>q. QED  BY <1>1, <1>2, <1>3, <1>6 DEF Surviving

\* A client that leaves its request leaves the others in step.
LEMMA InStepLeft ==
  ASSUME Inv, Inv', InStep, NEW c \in Clients, NEW from \in ClientPoints,
         NEW to \in ClientPoints, Client(c, from, to), HangUp({c})
  PROVE  InStep'
<1>1. Surviving /\ ~Connected(c)'
  BY HangUpSurvives, HangUpThins DEF Inv
<1>2. \A d \in Clients \ {c} : client'[d] = client[d]
  BY ClientMoves
<1>q. QED  BY <1>1, <1>2, InStepKept

\* Nothing happens to a connection, and no client that has one moves.
LEMMA InStepQuiet ==
  ASSUME Inv', InStep, UNCHANGED <<queue, server>>,
         \A c \in Clients : Connected(c) => client'[c] = client[c]
  PROVE  InStep'
<1>1. Surviving  BY DEF Surviving
<1>2. \A c \in Clients : Connected(c)' => Connected(c)  BY DEF Connected
<1>q. QED  BY <1>1, <1>2, InStepKept

\* A server closes what it has.
LEMMA InStepClosed ==
  ASSUME Inv, Inv', InStep, NEW s \in Servers, Closing(s),
         \A c \in Clients : Connected(c)' => client'[c] = client[c]
  PROVE  InStep'
<1>1. \A r \in Servers : Len(queue[r]) \in Nat
  BY DEF Inv, TypeOK
<1>2. queue'[s] = queue[s] \/ (queue'[s] = <<>> /\ Len(queue'[s]) = 0)
  BY DEF Closing
<1>3. Surviving
  BY <1>1, <1>2 DEF Closing, Surviving, NoConn
<1>q. QED  BY <1>3, InStepKept

\* The line of c has been sent: on the one connection c has.
LEMMA InStepSent ==
  ASSUME Inv, Inv', InStep, NEW c \in Clients, Send(c)
  PROVE  InStep'
<1> DEFINE h == [k \in Conns |-> IF k.from \in {c} THEN [k EXCEPT !.line = TRUE] ELSE k]
<1>1. /\ h \in [Conns -> Conns]
      /\ \A k \in Conns : h[k].from = k.from
      /\ \A k \in Conns : IF k.from = c THEN h[k].line = TRUE ELSE h[k] = k
  BY DEF Conns
<1>2. \A s \in Servers : server[s].conn \in Conns /\ queue[s] \in Seq(Conns)
  BY DEF Inv, TypeOK
<1>3. \A s \in Servers : \A i \in 1..Len(queue[s]) : queue[s][i] \in Conns
  BY <1>2
<1>4. queue' = [s \in Servers |-> [i \in 1..Len(queue[s]) |-> h[queue[s][i]]]]
  BY <1>3 DEF Send, Changed
<1>5. server' = [s \in Servers |-> [server[s] EXCEPT !.conn = h[@]]]
  BY <1>2 DEF Send, Changed
<1> HIDE DEF h
<1>6. /\ \A s \in Servers :
           server'[s].at = server[s].at /\ server'[s].conn = h[server[s].conn]
      /\ \A s \in Servers : Len(queue'[s]) = Len(queue[s])
      /\ \A s \in Servers : \A i \in 1..Len(queue[s]) : queue'[s][i] = h[queue[s][i]]
  BY <1>1, <1>4, <1>5, MappedThins DEF Inv
<1>7. /\ client[c] = "send" /\ client'[c] = "wait"
      /\ \A d \in Clients \ {c} : client'[d] = client[d]
  BY ClientMoves DEF Send, ClientPoints
<1>8. NamedConnected  BY Names
<1>9. ASSUME NEW s \in Servers, NEW i \in 1..Len(queue'[s]), queue'[s][i].from # "-"
      PROVE  client'[queue'[s][i].from] = StepOf(queue'[s][i])
  <2> DEFINE k == queue[s][i]
  <2>1. i \in 1..Len(queue[s]) /\ queue'[s][i] = h[k] /\ k \in Conns /\ k.from # "-"
    BY <1>1, <1>3, <1>6, <1>9
  <2>2. client[k.from] = StepOf(k) /\ k.from \in Clients
    BY <1>8, <2>1 DEF InStep, NamedConnected
  <2> HIDE DEF k
  <2>q. QED  BY <1>1, <1>7, <2>1, <2>2 DEF StepOf
<1>10. ASSUME NEW s \in Servers, server'[s].conn.from # "-"
       PROVE  /\ client'[server'[s].conn.from] =
                   IF server'[s].at = "close" THEN "answered" ELSE StepOf(server'[s].conn)
              /\ server'[s].at \in {"handle", "forward", "hung", "reply"} => server'[s].conn.line
  <2> DEFINE k == server[s].conn
  <2>1. server'[s].conn = h[k] /\ server'[s].at = server[s].at /\ k \in Conns /\ k.from # "-"
    BY <1>1, <1>2, <1>6, <1>10
  <2>2. /\ client[k.from] = IF server[s].at = "close" THEN "answered" ELSE StepOf(k)
        /\ server[s].at \in {"handle", "forward", "hung", "reply"} => k.line
        /\ k.from \in Clients
    BY <1>8, <2>1 DEF InStep, NamedConnected
  <2> HIDE DEF k
  <2>q. QED  BY <1>1, <1>7, <2>1, <2>2 DEF StepOf
<1>q. QED  BY <1>9, <1>10 DEF InStep, StepOf

\* The supervisor's end leaves what is between others.
LEMMA InStepDeath ==
  ASSUME Inv, Inv', InStep, SupervisorDies
  PROVE  InStep'
<1>1. /\ NoConn \in Conns /\ NoConn.from = "-" /\ "child" # "control"
      /\ "control" \in Servers /\ "child" \in Servers /\ Servers = {"control", "child"}
  BY DEF NoConn, Conns, Servers
<1> DEFINE h == [k \in Conns |-> IF k.from \in Askers THEN [k EXCEPT !.from = "-"] ELSE k]
           Q == queue["child"]
<1>2. \A k \in Conns : /\ h[k].from \notin Askers
                       /\ h[k].from # "-" => h[k] = k
  BY ChannelAssumption DEF Conns, Askers
<1>3. /\ Len(Q) \in Nat /\ \A i \in 1..Len(Q) : Q[i] \in Conns
      /\ server["child"].conn \in Conns
      /\ server["child"] \in [at : ServerPoints, conn : Conns]
  <2>1. Q \in Seq(Conns) /\ server["child"] \in [at : ServerPoints, conn : Conns]
    BY <1>1 DEF Inv, TypeOK
  <2>q. QED  BY <2>1
<1>4. /\ queue' = [control |-> <<>>, child |-> [i \in 1..Len(Q) |-> h[Q[i]]]]
      /\ server' = [control |-> [at |-> "ended", conn |-> NoConn],
                    child |-> [server["child"] EXCEPT !.conn = h[@]]]
  BY <1>3 DEF SupervisorDies
<1>5. client' = [c \in Clients |-> IF c \in Askers THEN "done" ELSE client[c]]
  BY DEF SupervisorDies
<1> HIDE DEF h
<1>6. /\ Len(queue'["control"]) = 0 /\ 1..0 = {} /\ server'["control"].conn = NoConn
      /\ server'["child"].conn = h[server["child"].conn]
      /\ server'["child"].at = server["child"].at
      /\ \A i \in 1..Len(Q) : queue'["child"][i] = h[Q[i]]
  BY <1>1, <1>3, <1>4, EmptySeq
<1>7. Len(queue'["child"]) = Len(Q)
  <2>1. queue'["child"] = [i \in 1..Len(Q) |-> h[Q[i]]]  BY <1>4
  <2>2. queue'["child"] \in Seq(Conns)  BY <1>1 DEF Inv, TypeOK
  <2>3. DOMAIN queue'["child"] = 1..Len(queue'["child"]) /\ Len(queue'["child"]) \in Nat
    BY <2>2, LenProperties
  <2>4. DOMAIN queue'["child"] = 1..Len(Q)  BY <2>1
  <2> HIDE DEF Q
  <2>q. QED  BY <1>3, <2>3, <2>4
<1>8. Surviving
  BY <1>1, <1>2, <1>3, <1>6, <1>7 DEF Surviving
<1>9. ASSUME NEW c \in Clients, Connected(c)'
      PROVE  c \notin Askers
  <2>1. SUFFICES ASSUME c \in Askers PROVE FALSE  OBVIOUS
  <2>2. ServerOf(c) = "child"  BY <2>1, ChannelAssumption DEF ServerOf, Askers
  <2>3. server'["child"].conn.from # c
    BY <1>2, <1>3, <1>6, <2>1
  <2>4. \A i \in 1..Len(queue'["child"]) : queue'["child"][i].from # c
    BY <1>2, <1>3, <1>6, <1>7, <2>1
  <2>q. QED  BY <1>9, <2>2, <2>3, <2>4 DEF Connected, ServerOf
<1>10. \A c \in Clients : Connected(c)' => client'[c] = client[c]
  BY <1>5, <1>9
<1>q. QED  BY <1>8, <1>10, InStepKept

\* The steps of the servers ...
LEMMA InStepServers ==
  ASSUME Inv, Inv', InStep, NEW s \in Servers, ServerStep(s) \/ Hang \/ Wake \/ Crash
  PROVE  InStep'
<1>0. "child" \in Servers /\ "control" \in Servers  BY DEF Servers
<1>1. CASE Accept(s)  BY <1>1, InStepTaken
<1>2. CASE Read(s)
  BY <1>2, InStepServed DEF Read, ServerPoints
<1>3. CASE Handle(s)
  BY <1>3, InStepServed DEF Handle, ServerPoints
<1>4. CASE Reply(s)  BY <1>4, InStepAnswered
<1>5. CASE ReplyBroken(s) /\ s = "control"
  BY <1>5, InStepDeath DEF ReplyBroken
<1>6. CASE ReplyBroken(s) /\ s # "control"
  BY <1>6, EndsClose, InStepClosed DEF ReplyBroken, Inv
<1>7. CASE Close(s)
  <2> DEFINE c == server[s].conn.from
  <2>1. /\ server' = [server EXCEPT ![s] = [at |-> "test", conn |-> NoConn]]
        /\ client' = [d \in Clients |-> IF d \in Operators /\ d = c THEN "done" ELSE client[d]]
        /\ UNCHANGED queue
    BY <1>7 DEF Close
  <2>2. server'[s].conn = NoConn /\ \A r \in Servers \ {s} : server'[r] = server[r]
    BY <2>1 DEF Inv, TypeOK
  <2>3. Closing(s)  BY <2>1, <2>2 DEF Closing
  <2>4. ASSUME NEW d \in Clients, Connected(d)', d \in Operators, d = c
        PROVE  FALSE
    <3>1. ServerOf(d) = s
      BY <2>4, ChannelAssumption DEF Inv, Routed
    <3>2. server'[s].conn.from # d
      BY <2>2, DashIsNoClient DEF NoConn
    <3>3. \A i \in 1..Len(queue[s]) : queue[s][i].from # d
      BY <2>4 DEF Inv, Unique
    <3>q. QED  BY <2>1, <2>4, <3>1, <3>2, <3>3 DEF Connected, ServerOf
  <2>5. \A d \in Clients : Connected(d)' => client'[d] = client[d]
    BY <2>1, <2>4
  <2>q. QED  BY <2>3, <2>5, InStepClosed
<1>8. CASE Loop(s)
  BY <1>8, InStepServed DEF Loop, ServerPoints
<1>9. CASE Forward
  <2>1. Server("control", "handle", "forward") /\ client' = [client EXCEPT !["control"] = "connect"]
    BY <1>9 DEF Forward
  <2>2. ~Connected("control")
    BY <2>1, Askings DEF Inv, Asking, Open, OpenPoints, Server
  <2>3. \A c \in Clients : Connected(c) => client'[c] = client[c]
    BY <2>1, <2>2 DEF Inv, TypeOK
  <2>q. QED  BY <1>0, <2>1, <2>3, InStepServed DEF ServerPoints
<1>10. CASE Forwarded
  BY <1>0, <1>10, InStepServed DEF Forwarded, ServerPoints
<1>11. CASE LoopEnds
  BY <1>0, <1>11, EndsClose, InStepClosed DEF LoopEnds, Inv
<1>12. CASE Hang
  BY <1>0, <1>12, InStepServed DEF Hang, ServerPoints
<1>13. CASE Wake
  BY <1>0, <1>13, InStepServed DEF Wake, ServerPoints
<1>14. CASE Crash
  BY <1>0, <1>14, EndsClose, InStepClosed DEF Crash, Inv
<1>q. QED
  BY <1>1, <1>2, <1>3, <1>4, <1>5, <1>6, <1>7, <1>8, <1>9, <1>10, <1>11, <1>12, <1>13, <1>14
  DEF ServerStep

\* ... those of the clients ...
LEMMA InStepClients ==
  ASSUME Inv, Inv', InStep, NEW c \in Clients, ClientStep(c)
  PROVE  InStep'
<1>1. CASE Connect(c)
  <2> DEFINE k == [from |-> c, line |-> FALSE]
  <2>1. /\ ServerOf(c) \in Servers /\ k \in Conns /\ StepOf(k) = "send"
        /\ k.from = c
    BY DEF ServerOf, Servers, Conns, StepOf
  <2>2. /\ Client(c, "connect", "send") /\ UNCHANGED server
        /\ queue' = [queue EXCEPT ![ServerOf(c)] = Append(@, k)]
    BY <1>1 DEF Connect
  <2>3. /\ client[c] = "connect" /\ client'[c] = "send"
        /\ \A d \in Clients \ {c} : client'[d] = client[d]
    BY <2>2, ClientMoves DEF ClientPoints
  <2>4. ~Connected(c)
    BY <2>3 DEF Inv, Open, OpenPoints
  <2> HIDE DEF k
  <2>q. QED  BY <2>1, <2>2, <2>3, <2>4, InStepAdded
<1>2. CASE Refused(c)
  <2>1. client[c] = "connect" /\ \A d \in Clients \ {c} : client'[d] = client[d]
    BY <1>2 DEF Refused, Client, Inv, TypeOK
  <2>2. ~Connected(c)
    BY <2>1 DEF Inv, Open, OpenPoints
  <2>q. QED  BY <1>2, <2>1, <2>2, InStepQuiet DEF Refused
<1>3. CASE Send(c)  BY <1>3, InStepSent
<1>4. CASE SendBroken(c) /\ c \in Askers
  BY <1>4, InStepDeath DEF SendBroken
<1>5. CASE SendBroken(c) /\ c \notin Askers
  BY <1>5, InStepQuiet DEF SendBroken, Client, Inv, TypeOK
<1>6. CASE TimeOut(c)
  BY <1>6, InStepLeft DEF TimeOut, ClientPoints
<1>7. CASE Eof(c)
  BY <1>7, InStepQuiet DEF Eof, Client, Inv, TypeOK
<1>8. CASE Return(c)
  BY <1>8, InStepLeft DEF Return, ClientPoints
<1>q. QED
  BY <1>1, <1>2, <1>3, <1>4, <1>5, <1>6, <1>7, <1>8 DEF ClientStep

\* ... and all others.
LEMMA InStepNext ==
  ASSUME Inv, Inv', InStep, [Next]_vars
  PROVE  InStep'
<1>1. ASSUME NEW s \in Servers, ServerStep(s) PROVE InStep'
  BY <1>1, InStepServers
<1>2. CASE Hang \/ Wake \/ Crash
  BY <1>2, Askings, InStepServers
<1>3. ASSUME NEW c \in Clients, ClientStep(c) PROVE InStep'
  BY <1>3, InStepClients
<1>4. ASSUME NEW o \in Operators, Command(o) PROVE InStep'
  <2>1. o \in Clients /\ client[o] = "idle" /\ UNCHANGED <<queue, server>>
        /\ \A d \in Clients \ {o} : client'[d] = client[d]
    BY <1>4 DEF Command, Client, Clients, Inv, TypeOK
  <2>2. ~Connected(o)  BY <2>1 DEF Inv, Open, OpenPoints
  <2>q. QED  BY <2>1, <2>2, InStepQuiet
<1>5. ASSUME NEW o \in Operators, Killed(o) PROVE InStep'
  <2>1. o \in Clients  BY DEF Clients
  <2>2. PICK from \in {"connect", "send", "wait"} : Client(o, from, "done")
    BY <1>5 DEF Killed
  <2>q. QED  BY <1>5, <2>1, <2>2, InStepLeft DEF Killed, ClientPoints
<1>6. CASE Poll
  <2>1. client["poll"] = "idle" /\ client' = [client EXCEPT !["poll"] = "connect"]
        /\ UNCHANGED <<queue, server>>
    BY <1>6 DEF Poll
  <2>2. ~Connected("poll")
    BY <2>1, Askings DEF Inv, Open, OpenPoints
  <2>3. \A c \in Clients : Connected(c) => client'[c] = client[c]
    BY <2>1, <2>2 DEF Inv, TypeOK
  <2>q. QED  BY <2>1, <2>3, InStepQuiet
<1>7. CASE Signal \/ MainStep
  <2>1. UNCHANGED <<server, client>>
    BY <1>7 DEF Signal, MainStep, StopFlag, Poke, Join, Main
  <2>2. CASE UNCHANGED queue
    BY <2>1, <2>2, InStepQuiet
  <2>3. CASE queue' # queue
    <3>1. queue' = [queue EXCEPT !["control"] = Append(@, NoConn)]
      BY <1>7, <2>3 DEF Signal, MainStep, StopFlag, Poke, Join, Main
    <3>2. NoConn \in Conns /\ NoConn.from = "-"  BY DEF NoConn, Conns
    <3>q. QED  BY <2>1, <3>1, <3>2, Askings, InStepAdded
  <2>q. QED  BY <2>2, <2>3
<1>8. CASE UNCHANGED vars
  BY <1>8, InStepQuiet DEF vars
<1>q. QED
  BY <1>1, <1>2, <1>3, <1>4, <1>5, <1>6, <1>7, <1>8 DEF Next

\* Nobody has a connection at the start.
LEMMA InStepInit == Init => InStep
<1> SUFFICES ASSUME Init PROVE InStep  OBVIOUS
<1>1. NoConn.from = "-" /\ Len(<<>>) = 0 /\ 1..0 = {}  BY EmptySeq DEF NoConn
<1>q. QED  BY <1>1 DEF Init, InStep

\* ipc_client.cpp, IpcClient::request, and lmctl's run_request against the server
\* loops: a server's reply finds its client waiting for it, whatever has timed
\* out, hung up or been served before it.
THEOREM AnswersAwaited == Spec => AnswerAwaited
<1>1. ASSUME InStep, NEW s \in Servers, Reply(s)
      PROVE  client[server[s].conn.from] = "wait"
  BY <1>1 DEF InStep, StepOf, Reply, Server
<1>2. InStep => [\A s \in Servers : Reply(s) => client[server[s].conn.from] = "wait"]_vars
  BY <1>1
<1>3. Init => Inv /\ InStep
  BY InvInit, InStepInit
<1>4. Inv /\ InStep /\ [Next]_vars => Inv' /\ InStep'
  BY InvNext, InStepNext
<1>q. QED  BY <1>2, <1>3, <1>4, PTL DEF Spec, AnswerAwaited
============================================================================
