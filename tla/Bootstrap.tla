------------------------------ MODULE Bootstrap ------------------------------
(***************************************************************************)
(* The TCP bootstrap (src/src/bootstrap): how the processes of a job find  *)
(* each other from a unique id, form a ring, learn each other's addresses, *)
(* and then gather, exchange and synchronise, all together or in groups.   *)
(*                                                                         *)
(* A process executes a list of socket operations, todo.  Process N is the *)
(* thread rank 0 starts to introduce the ranks to each other.  An address  *)
(* is <<kind, rank>>: "root" is the one in the unique id, "contact" the    *)
(* socket on which a rank hears from the root, "listen" the one on which   *)
(* it hears from other ranks.  A connection carries a stream of messages   *)
(* in one direction.  ERROR aborts the process: its sockets are closed,    *)
(* and whoever reads from one of them when it is empty aborts as well.     *)
(***************************************************************************)
EXTENDS Integers, Sequences, FiniteSets, TLC, SequencesExt

CONSTANTS N,        \* nRanks
          Absent,   \* ranks that are never started
          Hosts,    \* the host of each rank
          Ifs,      \* the interfaces of each host, in the order of getifaddrs
          Pods,     \* the fabric pod of each rank's device, NoPod if unknown
          NoPod,
          Timeouts  \* a rank may time out before its call returns

VARIABLES plan,      \* the calls all ranks make after initialize
          todo,      \* what each process has still to do
          listening, \* addresses with a listening socket
          backlog,   \* connections not accepted yet, per address
          stream,    \* messages under way on each connection
          sock,      \* the sockets of each process
          buf,       \* the data of the call in progress, and its recv_buf
          begun,     \* the calls each rank has begun
          out,       \* what each rank got from the calls that have ended
          dead       \* processes that have aborted

vars == <<plan, todo, listening, backlog, stream, sock, buf, begun, out, dead>>

Ranks == 0 .. N - 1
RootThread == N
Procs == 0 .. N
Nothing == <<>>
-----------------------------------------------------------------------------
(* The interface a rank binds to.  A list of names selects, with ^ it      *)
(* excludes; each name of an interface is taken once, whatever families it *)
(* has.                                                                    *)
matchIfList(if, names) == names = {} \/ if.name \in names

findInterfaces(ifs, names, searchNot) ==
    SelectSeq(ifs, LAMBDA if : /\ ~(if.family = "inet6" /\ if.name = "lo")
                               /\ matchIfList(if, names) # searchNot)

FindInterfaces(ifs, ifname) ==
    LET Found(names, searchNot) == findInterfaces(ifs, names, searchNot)
    IN  CASE ifname # "" -> Found({ifname}, FALSE)
          [] OTHER ->
               LET first == Found({"docker", "lo"}, TRUE)
                   second == Found({"docker"}, FALSE)
               IN  IF first # <<>> THEN first
                   ELSE IF second # <<>> THEN second
                   ELSE Found({"lo"}, FALSE)

netInit(r) == FindInterfaces(Ifs[Hosts[r]], "")[1].addr

(* The ranks whose address is that of r, from the gathered addresses.      *)
getNranksPerNode(r, addresses) ==
    {i \in Ranks : addresses[i] = addresses[r]}
matchIpcCapableRanks(r, pods) == {i \in Ranks : pods[i] = pods[r]}
-----------------------------------------------------------------------------
(* What a process executes: steps on a socket, identified by a key, that   *)
(* is connected to or accepted at an address; messages from and to a slot  *)
(* of buf; and the beginning and end of a call.                            *)
Step(op, at, key) == [op |-> op, at |-> at, key |-> key]
Message(op, key, slot) == [op |-> op, key |-> key, slot |-> slot]
Mark(op, k) == [op |-> op, call |-> k]

Key(name) == <<name, 0, 0>>
Out(peer, tag) == <<"out", peer, tag>>
In(peer, tag) == <<"in", peer, tag>>

bindAndListen(at) == <<Step("bindAndListen", at, Key("none"))>>
connect(at, key) ==
    <<Step("startConnect", at, key), Step("finalizeConnect", at, key)>>
accept(at, key) ==
    <<Step("tryAccept", at, key), Step("finalizeAccept", at, key)>>

send(peer, tag, slot) ==
    <<Step("getPeerSendSocket", <<"listen", peer>>, Out(peer, tag)),
      Message("netSend", Out(peer, tag), slot)>>
recv(r, peer, tag, slot) ==
    <<Step("getPeerRecvSocket", <<"listen", r>>, In(peer, tag)),
      Message("netRecv", In(peer, tag), slot)>>

(* The ring: at each step the slice received in the one before is passed   *)
(* on.                                                                     *)
allGather(r) ==
    FlattenSeq([i \in 1 .. N - 1 |->
        <<Message("netSend", Key("ringSend"), (r - i + 1 + N) % N),
          Message("netRecv", Key("ringRecv"), (r - i + N) % N)>>])

Position(r, ranks) == (CHOOSE i \in DOMAIN ranks : ranks[i] = r) - 1

groupAllGather(r, ranks) ==
    LET n == Len(ranks)
        pos == Position(r, ranks)
        At(i) == ranks[(i % n) + 1]
    IN  FlattenSeq([i \in 1 .. n - 1 |->
            send(At(pos + 1), i - 1, (pos - i + 1 + n) % n) \o
            recv(r, At(pos - 1 + n), i - 1, (pos - i + n) % n)])

(* The same from a start, a stride and a count of ranks.                   *)
groupAllGatherStrided(r, ranks) ==
    LET start == ranks[1]
        stride == IF Len(ranks) > 1 THEN ranks[2] - ranks[1] ELSE 1
        n == Len(ranks)
        pos == (r - start) \div stride
        At(i) == start + (i % n) * stride
    IN  FlattenSeq([i \in 1 .. n - 1 |->
            send(At(pos + 1), i - 1, (pos - i + 1 + n) % n) \o
            recv(r, At(pos - 1 + n), i - 1, (pos - i + n) % n)])

(* Pairwise, into recv_buf: the slots from N on.                           *)
groupAlltoall(r, ranks) ==
    LET n == Len(ranks)
        pos == Position(r, ranks)
        At(i) == ranks[(i % n) + 1]
    IN  FlattenSeq([s \in 1 .. n - 1 |->
            send(At(pos + s), s, (pos + s) % n) \o
            recv(r, At(pos + n - s), s, N + ((pos + n - s) % n))])

groupBarrier(r, ranks) ==
    LET others == SelectSeq(ranks, LAMBDA q : q # r)
    IN  FlattenSeq([i \in DOMAIN others |->
                        send(others[i], 0, Position(r, ranks))]) \o
        FlattenSeq([i \in DOMAIN others |-> recv(r, others[i], 0, N)])

(* A rank whose device's pod is unknown does not take part.                *)
detectIpcCapableRanks(r) == IF Pods[r] = NoPod THEN <<>> ELSE allGather(r)

Program(r, c) ==
    CASE c.f \in {"allGather", "barrier"} -> allGather(r)
      [] c.f = "groupAllGather" -> groupAllGather(r, c.ranks)
      [] c.f = "groupAllGatherStrided" -> groupAllGatherStrided(r, c.ranks)
      [] c.f = "groupAlltoall" -> groupAlltoall(r, c.ranks)
      [] c.f = "groupBarrier" -> groupBarrier(r, c.ranks)
      [] c.f = "getIpcCapableRanks" -> detectIpcCapableRanks(r)

Calls(r, calls) ==
    FlattenSeq([k \in DOMAIN calls |->
        IF r \notin ToSet(calls[k].ranks) THEN <<>>
        ELSE <<Mark("begin", k)>> \o Program(r, calls[k]) \o <<Mark("end", k)>>])
-----------------------------------------------------------------------------
(* A rank tells the root where it listens, hears from it who comes next,   *)
(* connects to that rank and is connected to by the one before.            *)
establishConnections(r) ==
    bindAndListen(<<"listen", r>>) \o bindAndListen(<<"contact", r>>) \o
    connect(<<"root", 0>>, Key("toRoot")) \o
    <<Step("sendInfo", <<"contact", r>>, Key("toRoot"))>> \o
    accept(<<"contact", r>>, Key("fromRoot")) \o
    <<Step("recvNext", <<"contact", r>>, Key("fromRoot"))>> \o
    accept(<<"listen", r>>, Key("ringRecv")) \o
    <<Mark("begin", 0)>> \o allGather(r) \o <<Mark("end", 0)>>

bootstrapCreateRoot ==
    bindAndListen(<<"root", 0>>) \o <<Step("rootThread", <<"root", 0>>, Key("none"))>>

initialize(r) ==
    (IF r = 0 THEN bootstrapCreateRoot ELSE <<>>) \o establishConnections(r)

getRemoteAddresses ==
    accept(<<"root", 0>>, Key("rank")) \o
    <<Step("recvInfo", <<"root", 0>>, Key("rank"))>>
sendHandleToPeer(peer) ==
    connect(<<"contact", peer>>, Key("rank")) \o
    <<Step("sendNext", <<"contact", peer>>, Key("rank"))>>
bootstrapRoot ==
    FlattenSeq([i \in 1 .. N |-> getRemoteAddresses]) \o
    FlattenSeq([i \in 1 .. N |-> sendHandleToPeer(i - 1)])

(* The destructor closes the sockets, then waits for the root thread.      *)
close == <<Step("close", <<"listen", 0>>, Key("none"))>>

Init(calls) ==
    /\ plan = calls
    /\ todo = [p \in Procs |->
                 IF p = RootThread \/ p \in Absent THEN <<>>
                 ELSE initialize(p) \o Calls(p, calls) \o close]
    /\ listening = {}
    /\ backlog = [a \in {"root", "contact", "listen"} \X Ranks |-> <<>>]
    /\ stream = <<>>
    /\ sock = [p \in Procs |-> <<>>]
    /\ buf = [p \in Procs |-> [i \in 0 .. 2 * N - 1 |-> Nothing]]
    /\ begun = [p \in Ranks |-> {}]
    /\ out = [p \in Ranks |-> <<>>]
    /\ dead = {}
-----------------------------------------------------------------------------
Do(p, op) == todo[p] # <<>> /\ Head(todo[p]).op = op
Now(p) == Head(todo[p])
Then(p, steps) == todo' = [todo EXCEPT ![p] = steps \o Tail(@)]
Have(p, key, c) == sock' = [sock EXCEPT ![p] = (key :> c) @@ @]
Put(c, m) == stream' = [stream EXCEPT ![c] = Append(@, m)]
Take(c) == stream' = [stream EXCEPT ![c] = Tail(@)]

(* The processes that go when p does, and whether the writing end of a     *)
(* connection is closed.                                                   *)
Process(p) == IF p \in {0, RootThread} THEN {0, RootThread} ELSE {p}
Closed(c) == todo[c.from] = <<>>

ERROR(p) ==
    /\ dead' = dead \cup Process(p)
    /\ todo' = [q \in Procs |-> IF q \in Process(p) THEN <<>> ELSE todo[q]]
    /\ listening' = {a \in listening : a[2] \notin Process(p)}
    /\ UNCHANGED <<plan, backlog, stream, sock, buf, begun, out>>

BindAndListen(p) ==
    /\ Do(p, "bindAndListen")
    /\ listening' = listening \cup {Now(p).at}
    /\ Then(p, <<>>)
    /\ UNCHANGED <<plan, backlog, stream, sock, buf, begun, out, dead>>

(* A connection that is refused is tried again.                            *)
StartConnect(p) ==
    /\ Do(p, "startConnect")
    /\ Now(p).at \in listening
    /\ LET c == [from |-> p, at |-> Now(p).at, key |-> Now(p).key]
       IN  /\ backlog' = [backlog EXCEPT ![c.at] = Append(@, c)]
           /\ stream' = (c :> <<>>) @@ stream
           /\ Have(p, c.key, c)
    /\ Then(p, <<>>)
    /\ UNCHANGED <<plan, listening, buf, begun, out, dead>>

FinalizeConnect(p) ==
    /\ Do(p, "finalizeConnect")
    /\ Put(sock[p][Now(p).key], <<"magic">>)
    /\ Then(p, <<>>)
    /\ UNCHANGED <<plan, listening, backlog, sock, buf, begun, out, dead>>

TryAccept(p) ==
    /\ Do(p, "tryAccept")
    /\ backlog[Now(p).at] # <<>>
    /\ Have(p, Now(p).key, Head(backlog[Now(p).at]))
    /\ backlog' = [backlog EXCEPT ![Now(p).at] = Tail(@)]
    /\ Then(p, <<>>)
    /\ UNCHANGED <<plan, listening, stream, buf, begun, out, dead>>

(* What follows once a message is there; if none will come, or it is not   *)
(* the one expected, p aborts.                                             *)
Received(p, key, Expected(_), Follow(_)) ==
    LET c == sock[p][key]
    IN  IF stream[c] = <<>> THEN Closed(c) /\ ERROR(p)
        ELSE IF ~Expected(Head(stream[c])) THEN ERROR(p)
        ELSE Take(c) /\ Follow(Head(stream[c]))

AnyMessage(m) == TRUE

FinalizeAccept(p) ==
    /\ Do(p, "finalizeAccept")
    /\ Received(p, Now(p).key, LAMBDA m : m = <<"magic">>, LAMBDA m :
         /\ Then(p, <<>>)
         /\ UNCHANGED <<plan, listening, backlog, sock, buf, begun, out, dead>>)

(* TimeoutOfConnects is Timeout without one for accept.                    *)
TimeoutOfConnects(p) ==
    /\ Timeouts /\ p # RootThread /\ 0 \notin begun[p]
    /\ Do(p, "startConnect") \/ Do(p, "finalizeConnect")
    /\ ERROR(p)

(* A connect or accept of establishConnections that takes too long.        *)
Timeout(p) ==
    /\ Timeouts /\ p # RootThread /\ 0 \notin begun[p]
    /\ \E op \in {"startConnect", "finalizeConnect", "tryAccept",
                  "finalizeAccept"} : Do(p, op)
    /\ ERROR(p)
-----------------------------------------------------------------------------
(* Sockets between two ranks are connected for a peer and a tag when they  *)
(* are first used.  The receiver accepts until it has the one it wants.    *)
GetPeerSendSocket(p) ==
    /\ Do(p, "getPeerSendSocket")
    /\ Then(p, IF Now(p).key \in DOMAIN sock[p] THEN <<>>
               ELSE connect(Now(p).at, Now(p).key) \o
                    <<Step("hello", Now(p).at, Now(p).key)>>)
    /\ UNCHANGED <<plan, listening, backlog, stream, sock, buf, begun, out, dead>>

Hello(p) ==
    /\ Do(p, "hello")
    /\ Put(sock[p][Now(p).key], <<p, Now(p).key[3]>>)
    /\ Then(p, <<>>)
    /\ UNCHANGED <<plan, listening, backlog, sock, buf, begun, out, dead>>

GetPeerRecvSocket(p) ==
    /\ Do(p, "getPeerRecvSocket")
    /\ Then(p, IF Now(p).key \in DOMAIN sock[p] THEN <<>>
               ELSE accept(Now(p).at, Key("peer")) \o
                    <<Step("welcome", Now(p).at, Key("peer")), Now(p)>>)
    /\ UNCHANGED <<plan, listening, backlog, stream, sock, buf, begun, out, dead>>

Welcome(p) ==
    /\ Do(p, "welcome")
    /\ Received(p, Key("peer"), AnyMessage, LAMBDA m :
         /\ Have(p, In(m[1], m[2]), sock[p][Key("peer")])
         /\ Then(p, <<>>)
         /\ UNCHANGED <<plan, listening, backlog, buf, begun, out, dead>>)

(* A message is its size and its data; a longer one than asked for is an   *)
(* error.                                                                  *)
Current(p) == CHOOSE k \in begun[p] : \A j \in begun[p] : j <= k
Size(p) == IF Current(p) = 0 THEN 1 ELSE plan[Current(p)].size

NetSend(p) ==
    /\ Do(p, "netSend")
    /\ Put(sock[p][Now(p).key], [size |-> Size(p), data |-> buf[p][Now(p).slot]])
    /\ Then(p, <<>>)
    /\ UNCHANGED <<plan, listening, backlog, sock, buf, begun, out, dead>>

(* Sending to a process that has gone may be noticed.                      *)
SendFails(p) ==
    /\ Do(p, "netSend")
    /\ sock[p][Now(p).key].at[2] \in dead
    /\ ERROR(p)

NetRecv(p) ==
    /\ Do(p, "netRecv")
    /\ Received(p, Now(p).key, LAMBDA m : m.size <= Size(p), LAMBDA m :
         /\ buf' = [buf EXCEPT ![p][Now(p).slot] = m.data]
         /\ Then(p, <<>>)
         /\ UNCHANGED <<plan, listening, backlog, sock, begun, out, dead>>)
-----------------------------------------------------------------------------
(* Rank and root.                                                          *)
SendInfo(p) ==
    /\ Do(p, "sendInfo")
    /\ Put(sock[p][Key("toRoot")],
           [rank |-> p, contact |-> <<"contact", p>>, listen |-> <<"listen", p>>])
    /\ Then(p, <<>>)
    /\ UNCHANGED <<plan, listening, backlog, sock, buf, begun, out, dead>>

RecvInfo(p) ==
    /\ Do(p, "recvInfo")
    /\ Received(p, Now(p).key, LAMBDA m : buf[p][m.rank] = Nothing, LAMBDA m :
         /\ buf' = [buf EXCEPT ![p][m.rank] = m.listen,
                               ![p][N + m.rank] = m.contact]
         /\ Then(p, <<>>)
         /\ UNCHANGED <<plan, listening, backlog, sock, begun, out, dead>>)

SendNext(p) ==
    /\ Do(p, "sendNext")
    /\ Put(sock[p][Now(p).key], buf[p][(Now(p).at[2] + 1) % N])
    /\ Then(p, <<>>)
    /\ UNCHANGED <<plan, listening, backlog, sock, buf, begun, out, dead>>

RecvNext(p) ==
    /\ Do(p, "recvNext")
    /\ Received(p, Now(p).key, AnyMessage, LAMBDA m :
         /\ listening' = listening \ {Now(p).at}
         /\ Then(p, connect(m, Key("ringSend")))
         /\ UNCHANGED <<plan, backlog, sock, buf, begun, out, dead>>)

RunRootThread(p) ==
    /\ Do(p, "rootThread")
    /\ todo' = [todo EXCEPT ![p] = Tail(@), ![RootThread] = bootstrapRoot]
    /\ UNCHANGED <<plan, listening, backlog, stream, sock, buf, begun, out, dead>>
-----------------------------------------------------------------------------
(* What a rank passes to a call, and what it gets.                         *)
Contribution(p, k) ==
    LET c == plan[k]
        pos == Position(p, c.ranks)
    IN  [i \in 0 .. 2 * N - 1 |->
           CASE k = 0 -> IF i = p THEN <<netInit(p)>> ELSE Nothing
             [] k > 0 /\ c.f = "getIpcCapableRanks" ->
                  IF i = p THEN <<Pods[p]>> ELSE Nothing
             [] k > 0 /\ c.f = "groupAlltoall" -> <<k, p, i>>
             [] OTHER -> IF i = pos THEN <<k, p>> ELSE Nothing]

Result(p, k) ==
    LET c == plan[k]
        pos == Position(p, c.ranks)
    IN  IF k = 0 THEN [i \in Ranks |-> buf[p][i]]
        ELSE [i \in 0 .. Len(c.ranks) - 1 |->
                IF c.f = "groupAlltoall" /\ i # pos THEN buf[p][N + i]
                ELSE buf[p][i]]

Begin(p) ==
    /\ Do(p, "begin")
    /\ buf' = [buf EXCEPT ![p] = Contribution(p, Now(p).call)]
    /\ begun' = [begun EXCEPT ![p] = @ \cup {Now(p).call}]
    /\ Then(p, <<>>)
    /\ UNCHANGED <<plan, listening, backlog, stream, sock, out, dead>>

End(p) ==
    /\ Do(p, "end")
    /\ out' = [out EXCEPT ![p] = (Now(p).call :> Result(p, Now(p).call)) @@ @]
    /\ Then(p, <<>>)
    /\ UNCHANGED <<plan, listening, backlog, stream, sock, buf, begun, dead>>

Close(p) ==
    /\ Do(p, "close")
    /\ listening' = {a \in listening : a[2] # p}
    /\ sock' = [sock EXCEPT ![p] = <<>>]
    /\ Then(p, <<>>)
    /\ UNCHANGED <<plan, backlog, stream, buf, begun, out, dead>>

Act(p) ==
    \/ BindAndListen(p) \/ StartConnect(p) \/ FinalizeConnect(p)
    \/ TryAccept(p) \/ FinalizeAccept(p)
    \/ GetPeerSendSocket(p) \/ Hello(p) \/ GetPeerRecvSocket(p) \/ Welcome(p)
    \/ NetSend(p) \/ SendFails(p) \/ NetRecv(p)
    \/ SendInfo(p) \/ RecvInfo(p) \/ SendNext(p) \/ RecvNext(p)
    \/ RunRootThread(p) \/ Begin(p) \/ End(p) \/ Close(p)

Next == \E p \in Procs : Act(p) \/ Timeout(p)
-----------------------------------------------------------------------------
(* What each slot holds after a call that nothing disturbed.               *)
Promised(p, k) ==
    LET c == plan[k]
    IN  CASE k = 0 -> [i \in Ranks |-> <<netInit(i)>>]
          [] k > 0 /\ c.f = "getIpcCapableRanks" ->
               [i \in Ranks |-> IF i = p \/ Pods[p] # NoPod THEN <<Pods[i]>>
                                ELSE Nothing]
          [] k > 0 /\ c.f = "groupAlltoall" ->
               [i \in 0 .. Len(c.ranks) - 1 |->
                  <<k, c.ranks[i + 1], Position(p, c.ranks)>>]
          [] k > 0 /\ c.f = "groupBarrier" ->
               [i \in 0 .. Len(c.ranks) - 1 |->
                  IF c.ranks[i + 1] = p THEN <<k, p>> ELSE Nothing]
          [] OTHER -> [i \in 0 .. Len(c.ranks) - 1 |-> <<k, c.ranks[i + 1]>>]

Members(k) == IF k = 0 THEN Ranks ELSE ToSet(plan[k].ranks)
Meets(k) == k = 0 \/ plan[k].f # "getIpcCapableRanks"

(* Whatever the order in which processes start, connect and are accepted,  *)
(* a call returns to each rank the contributions of its members to that    *)
(* call, in their places, and not before all of them have made it; a rank  *)
(* that has initialised takes for local the ranks of its host; and when    *)
(* rank 0 closes its sockets the root thread is done with them.            *)
BootstrapIsExact ==
    /\ \A p \in Ranks : \A k \in DOMAIN out[p] :
         /\ out[p][k] = Promised(p, k)
         /\ Meets(k) => \A q \in Members(k) : k \in begun[q]
         /\ k = 0 => getNranksPerNode(p, out[p][0]) =
                       {q \in Ranks : Hosts[q] = Hosts[p]}
         /\ k > 0 /\ plan[k].f = "getIpcCapableRanks" /\ Pods[p] # NoPod =>
              matchIpcCapableRanks(p, out[p][k]) =
                {q \in Ranks : Pods[q] = Pods[p]}
    /\ todo[0] = <<>> => todo[RootThread] = <<>>

(* Connections that time out while the ring is formed, and ranks that are  *)
(* never started: if any rank returns from initialize, all of them will,   *)
(* and none has aborted.                                                   *)
InitialisationIsAllOrNothing ==
    (\E p \in Ranks : 0 \in DOMAIN out[p]) =>
        dead = {} /\ \A q \in Ranks : 0 \in begun[q]

(* No process waits for ever: when nothing can happen any more, every one  *)
(* has closed its sockets or has aborted.                                  *)
NobodyWaits == ENABLED Next \/ \A p \in Procs : todo[p] = <<>>
=============================================================================
