-------------------------- MODULE ServiceHostProofs --------------------------
(***************************************************************************)
(* One service at a time, found when it serves, and answers that are true, *)
(* for any number of clients and of processes, stops, crashes and          *)
(* timeouts.                                                               *)
(***************************************************************************)
EXTENDS ServiceHost, TLAPS

Process == [phase : Phase, version : Version \cup {None}, dir : Dir \cup {None},
            inbox : SUBSET Message, reply : Client \cup {None}]

-----------------------------------------------------------------------------
(* The lock, the sockets and where they are published. *)

HostType ==
    /\ svc \in [Service -> Process]
    /\ lock \in Service \cup {None}
    /\ socket \in [Dir -> Service \cup {None}]
    /\ published \in Dir \cup {None}

Holding == {"locked", "bound", "serving", "exiting", "closing", "closed", "dropped"}

\* The lock is held by the one service that took it and has not given it up.
LockOK == \A i \in Service : svc[i].phase \in Holding <=> lock = i

\* From its start to its end a process has its runtime directory; while it
\* accepts, the socket there is its own, and once it served it is published.
SocketOK ==
    \A i \in Service :
        /\ svc[i].phase \in Holding \cup {"spawned"} => svc[i].dir \in Dir
        /\ Listens(i) => socket[svc[i].dir] = i
        /\ Listens(i) /\ svc[i].phase # "bound" => published = svc[i].dir

HostOK == HostType /\ LockOK /\ SocketOK

\* Zero names no process.
LEMMA NoneIsNone == None \notin Service
  BY HostAssumption DEF None, Service

\* At first no process was started.
LEMMA HostInit == Init => HostOK
  <1> SUFFICES ASSUME Init PROVE HostOK
    OBVIOUS
  <1>1. Unborn \in Process /\ Unborn.phase = "unborn"
    BY DEF Unborn, Process, Phase, Version, Dir
  <1>2. HostType
    BY <1>1 DEF Init, HostType
  <1>3. LockOK /\ SocketOK
    BY <1>1, NoneIsNone DEF Init, LockOK, SocketOK, Holding, Listens
  <1>4. QED
    BY <1>2, <1>3 DEF HostOK

\* A step of one process replaces its record.
LEMMA Replaces ==
    ASSUME HostType, NEW i \in Service, NEW p \in Process, svc' = [svc EXCEPT ![i] = p]
    PROVE  /\ svc' \in [Service -> Process]
           /\ svc'[i] = p
           /\ \A j \in Service : j # i => svc'[j] = svc[j]
  BY DEF HostType

\* A process that ends leaves nothing of its record.
LEMMA EndedIs ==
    ASSUME NEW phase \in Phase
    PROVE  /\ Ended(phase) \in Process
           /\ Ended(phase).phase = phase /\ Ended(phase).inbox = {}
           /\ Ended(phase).reply = None /\ Ended(phase).dir = None
  BY DEF Ended, Unborn, Process, Version, Dir

\* The messages a process holds are messages.
LEMMA InboxIs ==
    ASSUME HostType, NEW i \in Service
    PROVE  /\ svc[i] \in Process
           /\ svc[i].inbox \in SUBSET Message /\ svc[i].phase \in Phase
           /\ svc[i].reply \in Client \cup {None}
           /\ \A m \in svc[i].inbox : m \in Message /\ m.from \in Client \cup {None} /\ m.kind \in Kind
  BY DEF HostType, Process, Message

-----------------------------------------------------------------------------
(* What a step does to the processes. *)

\* Process i goes on, and keeps its version and its runtime directory.
Becomes(i, phase, inbox, reply) ==
    /\ svc' \in [Service -> Process]
    /\ svc'[i].phase = phase /\ svc'[i].inbox = inbox /\ svc'[i].reply = reply
    /\ svc'[i].dir = svc[i].dir /\ svc'[i].version = svc[i].version
    /\ \A j \in Service : j # i => svc'[j] = svc[j]

\* Process i ends.
Ends(i, phase) ==
    /\ svc' \in [Service -> Process]
    /\ svc'[i].phase = phase /\ svc'[i].inbox = {} /\ svc'[i].reply = None
    /\ \A j \in Service : j # i => svc'[j] = svc[j]

\* A step that only moves a process to another phase.
LEMMA PhaseStep ==
    ASSUME HostType, NEW i \in Service, NEW phase \in Phase,
           svc' = [svc EXCEPT ![i].phase = phase]
    PROVE  Becomes(i, phase, svc[i].inbox, svc[i].reply)
  <1> DEFINE p == [svc[i] EXCEPT !.phase = phase]
  <1>1. p \in Process
    BY InboxIs DEF Process
  <1>2. p.phase = phase /\ p.inbox = svc[i].inbox /\ p.reply = svc[i].reply
        /\ p.dir = svc[i].dir /\ p.version = svc[i].version
    BY InboxIs DEF Process
  <1>3. svc' = [svc EXCEPT ![i] = p]
    OBVIOUS
  <1> HIDE DEF p
  <1>4. QED
    BY Zenon, <1>1, <1>2, <1>3, Replaces DEF Becomes

\* A step that only changes the messages of a process.
LEMMA InboxStep ==
    ASSUME HostType, NEW i \in Service, NEW inbox \in SUBSET Message,
           svc' = [svc EXCEPT ![i].inbox = inbox]
    PROVE  Becomes(i, svc[i].phase, inbox, svc[i].reply)
  <1> DEFINE p == [svc[i] EXCEPT !.inbox = inbox]
  <1>1. p \in Process
    BY InboxIs DEF Process
  <1>2. p.phase = svc[i].phase /\ p.inbox = inbox /\ p.reply = svc[i].reply
        /\ p.dir = svc[i].dir /\ p.version = svc[i].version
    BY InboxIs DEF Process
  <1>3. svc' = [svc EXCEPT ![i] = p]
    OBVIOUS
  <1> HIDE DEF p
  <1>4. QED
    BY Zenon, <1>1, <1>2, <1>3, Replaces DEF Becomes

\* A step that does both.
LEMMA PhaseInboxStep ==
    ASSUME HostType, NEW i \in Service, NEW phase \in Phase, NEW inbox \in SUBSET Message,
           svc' = [svc EXCEPT ![i].phase = phase, ![i].inbox = inbox]
    PROVE  Becomes(i, phase, inbox, svc[i].reply)
  <1> DEFINE p == [svc[i] EXCEPT !.phase = phase, !.inbox = inbox]
  <1>1. p \in Process
    BY Zenon, InboxIs DEF Process
  <1>2. p.phase = phase /\ p.inbox = inbox /\ p.reply = svc[i].reply
        /\ p.dir = svc[i].dir /\ p.version = svc[i].version
    BY InboxIs DEF Process
  <1>3. svc' = [svc EXCEPT ![i] = p]
    BY Zenon DEF HostType
  <1> HIDE DEF p
  <1>4. QED
    BY Zenon, <1>1, <1>2, <1>3, Replaces DEF Becomes

\* A process that ends.
LEMMA EndStep ==
    ASSUME HostType, NEW i \in Service, NEW phase \in Phase,
           svc' = [svc EXCEPT ![i] = Ended(phase)]
    PROVE  Ends(i, phase)
  BY Zenon, EndedIs, Replaces DEF Ends

\* The loop takes a message: it exits, or greets, or carries out a request.
LEMMA HandleStep ==
    ASSUME HostType, NEW i \in Service, NEW m \in svc[i].inbox, Handle(i, m)
    PROVE  \/ /\ m.kind \in {"stop", "replace"}
              /\ Becomes(i, "exiting", svc[i].inbox \ {m}, m.from)
              /\ UNCHANGED <<client, carried>>
           \/ /\ m.kind = "hello"
              /\ Becomes(i, "serving", svc[i].inbox \ {m}, svc[i].reply)
              /\ client' = [Answered({m}, "hello") EXCEPT ![m.from].version = svc[i].version]
              /\ UNCHANGED carried
           \/ /\ m.kind = "request"
              /\ Becomes(i, "serving",
                         (svc[i].inbox \ {m}) \cup {[m EXCEPT !.kind = "answered"]}, svc[i].reply)
              /\ [m EXCEPT !.kind = "answered"] \in Message
              /\ carried' = [carried EXCEPT ![m.from] = @ + 1]
              /\ UNCHANGED client
  <1>1. m \in Message /\ svc[i] \in Process /\ svc[i].phase = "serving" /\ m.from \in Client \cup {None}
    BY InboxIs DEF Handle
  <1>2. CASE /\ m.kind \in {"stop", "replace"}
             /\ svc' = [svc EXCEPT ![i] = [[svc[i] EXCEPT !.inbox = @ \ {m}]
                                              EXCEPT !.phase = "exiting", !.reply = m.from]]
             /\ UNCHANGED <<client, carried>>
    <2> DEFINE p == [[svc[i] EXCEPT !.inbox = @ \ {m}] EXCEPT !.phase = "exiting", !.reply = m.from]
    <2>1. p \in Process
      BY Zenon, <1>1 DEF Process, Phase
    <2>2. p.phase = "exiting" /\ p.inbox = svc[i].inbox \ {m} /\ p.reply = m.from
          /\ p.dir = svc[i].dir /\ p.version = svc[i].version
      BY <1>1 DEF Process
    <2>3. svc' = [svc EXCEPT ![i] = p]
      BY <1>2
    <2> HIDE DEF p
    <2>4. QED
      BY Zenon, <1>2, <2>1, <2>2, <2>3, Replaces DEF Becomes
  <1>3. CASE /\ m.kind = "hello"
             /\ svc' = [svc EXCEPT ![i] = [svc[i] EXCEPT !.inbox = @ \ {m}]]
             /\ client' = [Answered({m}, "hello") EXCEPT ![m.from].version = svc[i].version]
             /\ UNCHANGED carried
    <2>1. svc' = [svc EXCEPT ![i].inbox = svc[i].inbox \ {m}]
      BY <1>3
    <2>2. svc[i].inbox \ {m} \in SUBSET Message
      BY InboxIs
    <2>3. QED
      BY ZenonT(60), <1>1, <1>3, <2>1, <2>2, InboxStep
  <1>4. CASE /\ m.kind = "request"
             /\ svc' = [svc EXCEPT ![i].inbox = (@ \ {m}) \cup {[m EXCEPT !.kind = "answered"]}]
             /\ carried' = [carried EXCEPT ![m.from] = @ + 1]
             /\ UNCHANGED client
    <2> DEFINE a == [m EXCEPT !.kind = "answered"]
    <2>1. a \in Message
      BY <1>1 DEF Message, Kind
    <2> HIDE DEF a
    <2>2. svc' = [svc EXCEPT ![i].inbox = (svc[i].inbox \ {m}) \cup {a}]
      BY <1>4 DEF a
    <2>3. (svc[i].inbox \ {m}) \cup {a} \in SUBSET Message
      BY <2>1, InboxIs
    <2>4. Becomes(i, "serving", (svc[i].inbox \ {m}) \cup {a}, svc[i].reply)
      BY Zenon, <1>1, <2>2, <2>3, InboxStep
    <2>5. QED
      BY <1>4, <2>1, <2>4 DEF a
  <1>5. QED
    BY Zenon, <1>2, <1>3, <1>4 DEF Handle

\* A client's message joins those of the process that listens on the socket.
LEMMA AskStep ==
    ASSUME HostType, NEW c \in Client, Ask(c)
    PROVE  \/ \E i \in Service, backlog \in BOOLEAN :
                 /\ i = SocketOf(c) /\ Listens(i)
                 /\ [from |-> c, kind |-> KindOf(c), backlog |-> backlog] \in Message
                 /\ Becomes(i, svc[i].phase, svc[i].inbox \cup
                              {[from |-> c, kind |-> KindOf(c), backlog |-> backlog]}, svc[i].reply)
                 /\ client' = [client EXCEPT ![c].got = "asked"]
           \/ /\ ~(SocketOf(c) # None /\ Listens(SocketOf(c)))
              /\ client' = [client EXCEPT ![c].got = "absent"]
              /\ UNCHANGED svc
  <1> DEFINE i == SocketOf(c)
  <1>1. i \in Service \cup {None}
    BY DEF SocketOf, HostType, DirOf, Dir, None
  <1>2. KindOf(c) \in Kind
    BY DEF KindOf, Kind
  <1>3. CASE i # None /\ Listens(i)
    <2> DEFINE backlog == svc[i].phase = "closing"
               m == [from |-> c, kind |-> KindOf(c), backlog |-> backlog]
    <2>1. i \in Service /\ backlog \in BOOLEAN
      BY <1>1, <1>3
    <2>2. /\ svc' = [svc EXCEPT ![i].inbox = svc[i].inbox \cup {m}]
          /\ client' = [client EXCEPT ![c].got = "asked"]
      BY <1>3 DEF Ask
    <2> HIDE DEF i, backlog
    <2>3. m \in Message
      BY <1>2, <2>1 DEF Message
    <2>4. svc[i].inbox \cup {m} \in SUBSET Message
      BY <2>1, <2>3, InboxIs
    <2>5. Becomes(i, svc[i].phase, svc[i].inbox \cup {m}, svc[i].reply)
      BY Zenon, <2>1, <2>2, <2>4, InboxStep
    <2>6. QED
      BY Zenon, <1>3, <2>1, <2>2, <2>3, <2>5 DEF i
  <1>4. CASE ~(i # None /\ Listens(i))
    BY <1>4 DEF Ask
  <1>5. QED
    BY Zenon, <1>3, <1>4

\* A client starts a process that nobody waits on and no socket names.
LEMMA SpawnStep ==
    ASSUME HostType, NEW c \in Client, SpawnService(c)
    PROVE  \E i \in Service :
              /\ Free(i)
              /\ svc' \in [Service -> Process]
              /\ svc'[i].phase = "spawned" /\ svc'[i].inbox = {} /\ svc'[i].reply = None
              /\ svc'[i].dir \in Dir
              /\ \A j \in Service : j # i => svc'[j] = svc[j]
              /\ client' = [client EXCEPT ![c].pc = "spawned", ![c].spawned = i, ![c].got = "idle"]
  <1>1. PICK i \in Service :
          /\ Free(i)
          /\ svc' = [svc EXCEPT ![i] = [Unborn EXCEPT !.phase = "spawned",
                        !.version = VersionOf(c), !.dir = DirOf(c)]]
          /\ client' = [client EXCEPT ![c].pc = "spawned", ![c].spawned = i, ![c].got = "idle"]
    BY Zenon DEF SpawnService
  <1> DEFINE v == VersionOf(c)
             d == DirOf(c)
             p == [Unborn EXCEPT !.phase = "spawned", !.version = v, !.dir = d]
  <1>2. v \in Version /\ d \in Dir
    BY DEF VersionOf, DirOf, Version, Dir
  <1>3. svc' = [svc EXCEPT ![i] = p]
    BY <1>1
  <1> HIDE DEF v, d
  <1>4. p \in Process /\ p.phase = "spawned" /\ p.inbox = {} /\ p.reply = None /\ p.dir = d
    BY Zenon, <1>2 DEF Unborn, Process, Phase
  <1> HIDE DEF p
  <1>5. QED
    BY ZenonT(40), <1>1, <1>2, <1>3, <1>4, Replaces

-----------------------------------------------------------------------------
(* Every step keeps the lock and the sockets right. *)

\* A step that moves process i between phases and leaves the lock, the sockets
\* and the directory alone.
LEMMA HostMoves ==
    ASSUME HostOK, NEW i \in Service, NEW phase \in Phase, NEW inbox, NEW reply,
           Becomes(i, phase, inbox, reply), UNCHANGED <<lock, socket, published>>,
           svc[i].phase \in Holding <=> phase \in Holding,
           phase = "spawned" => svc[i].phase = "spawned",
           phase = "bound" => svc[i].phase = "bound",
           phase \in {"serving", "exiting", "closing"} =>
               svc[i].phase \in {"serving", "exiting", "closing"}
    PROVE  HostOK'
  <1>1. HostType'
    BY DEF HostOK, HostType, Becomes
  <1>2. LockOK'
    BY DEF HostOK, LockOK, Becomes
  <1>3. SocketOK'
    BY DEF HostOK, SocketOK, Becomes, Listens, Holding
  <1>4. QED
    BY <1>1, <1>2, <1>3 DEF HostOK

\* A process that ends without the lock.
LEMMA HostEnds ==
    ASSUME HostOK, NEW i \in Service, NEW phase \in {"lost", "gone", "crashed"},
           Ends(i, phase), UNCHANGED <<socket, published>>,
           lock' = IF lock = i THEN None ELSE lock
    PROVE  HostOK'
  <1>1. HostType'
    BY DEF HostOK, HostType, Ends
  <1>2. LockOK'
    BY NoneIsNone DEF HostOK, LockOK, Ends, Holding
  <1>3. SocketOK'
    BY DEF HostOK, SocketOK, Ends, Listens, Holding
  <1>4. QED
    BY <1>1, <1>2, <1>3 DEF HostOK

\* The lock goes to the process that finds it free (ServiceLock::acquire).
LEMMA AcquireHost ==
    ASSUME HostOK, NEW i \in Service, Acquire(i)
    PROVE  HostOK'
  <1>1. HostType /\ svc[i].phase = "spawned" /\ lock # i
    BY DEF HostOK, LockOK, Acquire, Holding
  <1>2. CASE lock = None
    <2>1. svc' = [svc EXCEPT ![i].phase = "locked"] /\ lock' = i /\ UNCHANGED <<socket, published>>
      BY SMTT(40), <1>2 DEF Acquire
    <2>2. Becomes(i, "locked", svc[i].inbox, svc[i].reply)
      BY Zenon, <1>1, <2>1, PhaseStep DEF Phase
    <2>3. HostType'
      BY <1>1, <2>1, <2>2 DEF HostType, Becomes
    <2>4. LockOK'
      BY <1>2, <2>1, <2>2, NoneIsNone DEF HostOK, LockOK, Becomes, Holding
    <2>5. SocketOK'
      BY <1>1, <2>1, <2>2 DEF HostOK, SocketOK, Becomes, Listens, Holding
    <2>6. QED
      BY <2>3, <2>4, <2>5 DEF HostOK
  <1>3. CASE lock # None
    <2>1. svc' = [svc EXCEPT ![i] = Ended("lost")] /\ lock' = lock /\ UNCHANGED <<socket, published>>
      BY SMTT(40), <1>3 DEF Acquire
    <2>2. Ends(i, "lost")
      BY Zenon, <1>1, <2>1, EndStep DEF Phase
    <2>3. QED
      BY <1>1, <2>1, <2>2, HostEnds
  <1>4. QED
    BY <1>2, <1>3

\* Only the one with the lock puts its socket at its path (Acceptor::bind).
LEMMA BindHost ==
    ASSUME HostOK, NEW i \in Service, Bind(i)
    PROVE  HostOK'
  <1>1. HostType /\ svc[i].phase = "locked" /\ svc[i].dir \in Dir /\ lock = i
    BY SMTT(40) DEF HostOK, SocketOK, LockOK, Holding, Bind
  <1>2. Becomes(i, "bound", svc[i].inbox, svc[i].reply)
    BY Zenon, <1>1, PhaseStep DEF Bind, Phase
  <1>3. socket' = [socket EXCEPT ![svc[i].dir] = i] /\ UNCHANGED <<lock, published>>
    BY DEF Bind
  <1>4. HostType'
    BY <1>1, <1>2, <1>3 DEF HostType, Becomes
  <1>5. LockOK'
    BY <1>1, <1>2, <1>3 DEF HostOK, LockOK, Becomes, Holding
  <1>6. SocketOK'
    BY <1>1, <1>2, <1>3 DEF HostOK, HostType, LockOK, SocketOK, Becomes, Listens, Holding
  <1>7. QED
    BY <1>4, <1>5, <1>6 DEF HostOK

\* ... and publishes it (publish_socket).
LEMMA ServeHost ==
    ASSUME HostOK, NEW i \in Service, Serve(i)
    PROVE  HostOK'
  <1>1. HostType /\ svc[i].phase = "bound" /\ svc[i].dir \in Dir /\ lock = i
    BY SMTT(40) DEF HostOK, SocketOK, LockOK, Holding, Serve
  <1>2. Becomes(i, "serving", svc[i].inbox, svc[i].reply)
    BY Zenon, <1>1, PhaseStep DEF Serve, Phase
  <1>3. published' = svc[i].dir /\ UNCHANGED <<lock, socket>>
    BY DEF Serve
  <1>4. HostType'
    BY <1>1, <1>2, <1>3 DEF HostType, Becomes
  <1>5. LockOK'
    BY <1>1, <1>2, <1>3 DEF HostOK, LockOK, Becomes, Holding
  <1>6. SocketOK'
    BY SMTT(40), <1>1, <1>2, <1>3 DEF HostOK, HostType, LockOK, SocketOK, Becomes, Listens, Holding
  <1>7. QED
    BY <1>4, <1>5, <1>6 DEF HostOK

\* What a closing service leaves of its messages.
LEMMA CloseStep ==
    ASSUME HostType, NEW i \in Service, Close(i)
    PROVE  Becomes(i, "closed", {m \in svc[i].inbox : ~m.backlog}, svc[i].reply)
  <1> DEFINE late == {m \in svc[i].inbox : m.backlog}
             rest == svc[i].inbox \ late
  <1>1. svc' = [svc EXCEPT ![i].phase = "closed", ![i].inbox = rest]
    BY DEF Close
  <1>2. rest \in SUBSET Message /\ rest = {m \in svc[i].inbox : ~m.backlog}
    BY SMTT(40), InboxIs
  <1> HIDE DEF rest
  <1>3. QED
    BY Zenon, <1>1, <1>2, PhaseInboxStep DEF Phase

\* ... and one that has let go of every process.
LEMMA DropStep ==
    ASSUME HostType, NEW i \in Service, DropEvents(i)
    PROVE  Becomes(i, "dropped", {m \in svc[i].inbox : m.kind = "answered"}, svc[i].reply)
  <1> DEFINE unread == {m \in svc[i].inbox : m.kind # "answered"}
             rest == svc[i].inbox \ unread
  <1>1. svc' = [svc EXCEPT ![i].phase = "dropped", ![i].inbox = rest]
    BY DEF DropEvents
  <1>2. rest \in SUBSET Message /\ rest = {m \in svc[i].inbox : m.kind = "answered"}
    BY InboxIs
  <1> HIDE DEF rest
  <1>3. QED
    BY Zenon, <1>1, <1>2, PhaseInboxStep DEF Phase

\* The socket goes while the lock is still held, so it is no successor's
\* (Acceptor::close, withdraw_socket).
LEMMA CloseHost ==
    ASSUME HostOK, NEW i \in Service, Close(i)
    PROVE  HostOK'
  <1>1. HostType /\ svc[i].phase = "closing" /\ svc[i].dir \in Dir /\ lock = i
    BY DEF HostOK, SocketOK, LockOK, Holding, Close
  <1>2. \E inbox : Becomes(i, "closed", inbox, svc[i].reply)
    BY Zenon, <1>1, CloseStep
  <1>3. /\ socket' = [socket EXCEPT ![svc[i].dir] = None]
        /\ published' \in {published, None}
        /\ lock' = lock
    BY DEF Close, Unlink, Withdraw
  <1>4. HostType'
    BY <1>1, <1>2, <1>3 DEF HostType, Becomes
  <1>5. LockOK'
    BY <1>1, <1>2, <1>3 DEF HostOK, LockOK, Becomes, Holding
  <1>6. SocketOK'
    BY <1>1, <1>2, <1>3 DEF HostOK, HostType, LockOK, SocketOK, Becomes, Listens, Holding
  <1>7. QED
    BY <1>4, <1>5, <1>6 DEF HostOK

\* The lock is given up last.
LEMMA ReleaseHost ==
    ASSUME HostOK, NEW i \in Service, Release(i)
    PROVE  HostOK'
  <1>1. HostType /\ svc[i].phase = "dropped" /\ lock = i
    BY DEF HostOK, LockOK, Holding, Release
  <1>2. Becomes(i, "released", svc[i].inbox, svc[i].reply)
    BY Zenon, <1>1, PhaseStep DEF Release, Phase
  <1>3. lock' = None /\ UNCHANGED <<socket, published>>
    BY DEF Release
  <1>4. HostType'
    BY <1>1, <1>2, <1>3 DEF HostType, Becomes
  <1>5. LockOK'
    BY <1>1, <1>2, <1>3, NoneIsNone DEF HostOK, LockOK, Becomes, Holding
  <1>6. SocketOK'
    BY <1>1, <1>2, <1>3 DEF HostOK, SocketOK, Becomes, Listens, Holding
  <1>7. QED
    BY <1>4, <1>5, <1>6 DEF HostOK

\* A new process has neither the lock nor a socket.
LEMMA SpawnHost ==
    ASSUME HostOK, NEW c \in Client, SpawnService(c), UNCHANGED <<lock, socket, published>>
    PROVE  HostOK'
  <1>1. PICK i \in Service :
          /\ Free(i)
          /\ svc' \in [Service -> Process]
          /\ svc'[i].phase = "spawned" /\ svc'[i].dir \in Dir
          /\ \A j \in Service : j # i => svc'[j] = svc[j]
    BY Zenon, SpawnStep DEF HostOK
  <1>2. svc[i].phase \notin Holding
    BY <1>1 DEF Free, Holding
  <1>3. HostType'
    BY <1>1 DEF HostOK, HostType
  <1>4. LockOK'
    BY <1>1, <1>2 DEF HostOK, LockOK, Holding
  <1>5. SocketOK'
    BY <1>1 DEF HostOK, SocketOK, Listens, Holding
  <1>6. QED
    BY SMTT(40), <1>3, <1>4, <1>5 DEF HostOK

\* The answer to a request leaves with its connection's thread.
LEMMA ReplyStep ==
    ASSUME HostType, NEW i \in Service, NEW m \in svc[i].inbox, Reply(i, m)
    PROVE  Becomes(i, svc[i].phase, svc[i].inbox \ {m}, svc[i].reply)
  <1>1. svc[i].inbox \ {m} \in SUBSET Message /\ svc' = [svc EXCEPT ![i].inbox = svc[i].inbox \ {m}]
    BY InboxIs DEF Reply
  <1>2. QED
    BY Zenon, <1>1, InboxStep

\* A stop is one more message, from no client.
LEMMA AskToStopStep ==
    ASSUME HostType, NEW i \in Service, AskToStop(i)
    PROVE  Becomes(i, svc[i].phase, svc[i].inbox \cup
                      {[from |-> None, kind |-> "stop", backlog |-> FALSE]}, svc[i].reply)
  <1> DEFINE m == [from |-> None, kind |-> "stop", backlog |-> FALSE]
  <1>1. m \in Message
    BY DEF Message, Kind
  <1>2. svc' = [svc EXCEPT ![i].inbox = svc[i].inbox \cup {m}]
    BY DEF AskToStop
  <1> HIDE DEF m
  <1>3. svc[i].inbox \cup {m} \in SUBSET Message
    BY <1>1, InboxIs
  <1>4. Becomes(i, svc[i].phase, svc[i].inbox \cup {m}, svc[i].reply)
    BY Zenon, <1>2, <1>3, InboxStep
  <1>5. QED
    BY <1>4 DEF m

\* Every step of a process, or of its end, keeps the lock and the sockets right.
LEMMA ServiceHostStep ==
    ASSUME HostOK, NEW i \in Service, ServiceStep(i) \/ AskToStop(i) \/ Crash(i)
    PROVE  HostOK'
  <1>0. HostType /\ svc[i].phase \in Phase
    BY InboxIs DEF HostOK
  <1>1. ASSUME NEW m \in svc[i].inbox, Handle(i, m) PROVE HostOK'
    <2>1. svc[i].phase = "serving" /\ UNCHANGED <<lock, socket, published>>
      BY <1>1 DEF Handle
    <2>2. \E phase \in {"serving", "exiting"} : \E inbox, reply : Becomes(i, phase, inbox, reply)
      BY Zenon, <1>0, <1>1, HandleStep
    <2>3. QED
      BY <2>1, <2>2, HostMoves DEF Holding, Phase
  <1>2. ASSUME NEW m \in svc[i].inbox, Reply(i, m) PROVE HostOK'
    BY ZenonT(40), <1>0, <1>2, ReplyStep, HostMoves DEF Reply
  <1>3. CASE StopAccepting(i)
    <2>1. Becomes(i, "closing", svc[i].inbox, svc[i].reply)
      BY Zenon, <1>0, <1>3, PhaseStep DEF StopAccepting, Phase
    <2>2. QED
      BY <1>3, <2>1, HostMoves DEF StopAccepting, Holding, Phase
  <1>4. CASE DropEvents(i)
    <2>1. Becomes(i, "dropped", {m \in svc[i].inbox : m.kind = "answered"}, svc[i].reply)
      BY <1>0, <1>4, DropStep
    <2>2. QED
      BY <1>4, <2>1, HostMoves DEF DropEvents, Holding, Phase
  <1>5. CASE Leave(i)
    <2>1. Ends(i, "gone")
      BY Zenon, <1>0, <1>5, EndStep DEF Leave, Phase
    <2>2. lock # i /\ UNCHANGED <<lock, socket, published>>
      BY <1>5 DEF HostOK, LockOK, Holding, Leave
    <2>3. QED
      BY SMTT(40), <2>1, <2>2, HostEnds
  <1>6. CASE AskToStop(i)
    BY Zenon, <1>0, <1>6, AskToStopStep, HostMoves DEF AskToStop
  <1>7. CASE Crash(i)
    <2>1. Ends(i, "crashed")
      BY ZenonT(60), <1>0, <1>7, EndStep DEF Crash, Phase
    <2>2. QED
      BY <1>7, <2>1, HostEnds DEF Crash
  <1>8. QED
    BY <1>1, <1>2, <1>3, <1>4, <1>5, <1>6, <1>7, AcquireHost, BindHost, ServeHost, CloseHost,
       ReleaseHost DEF ServiceStep

\* A client's step changes neither the lock nor the sockets.
LEMMA ClientHostStep ==
    ASSUME HostOK, NEW c \in Client, ClientStep(c) \/ TryAgain(c) \/ Timeout(c)
    PROVE  HostOK'
  <1>1. CASE UNCHANGED <<svc, lock, socket, published>>
    BY <1>1 DEF HostOK, HostType, LockOK, SocketOK, Listens
  <1>2. CASE Ask(c)
    <2>1. UNCHANGED <<lock, socket, published>>
      BY <1>2 DEF Ask
    <2>2. CASE UNCHANGED svc
      BY <1>1, <2>1, <2>2
    <2>3. CASE \E i \in Service : \E inbox : Becomes(i, svc[i].phase, inbox, svc[i].reply)
      BY <2>1, <2>3, HostMoves, InboxIs DEF HostOK
    <2>4. QED
      BY Zenon, <1>2, <2>2, <2>3, AskStep DEF HostOK
  <1>3. CASE StartOnce(c)
    BY <1>1, <1>3, SpawnHost DEF StartOnce
  <1>4. QED
    BY <1>1, <1>2, <1>3 DEF ClientStep, Reach, TakeStartLock, AwaitStart, AwaitOther, Replaced, Sent,
       TryAgain, Timeout

\* Every step keeps the lock and the sockets right.
LEMMA HostStep == HostOK /\ [Next]_vars => HostOK'
  <1> SUFFICES ASSUME HostOK, [Next]_vars PROVE HostOK'
    OBVIOUS
  <1>1. CASE UNCHANGED vars
    BY <1>1 DEF vars, HostOK, HostType, LockOK, SocketOK, Listens
  <1>2. QED
    BY <1>1, ServiceHostStep, ClientHostStep DEF Next

\* A service that serves is found at its own path, and published there.
THEOREM ServingHolds == Spec => []ServingIsReachable
  <1>1. HostOK => ServingIsReachable
    BY DEF HostOK, SocketOK, Listens, ServingIsReachable
  <1>2. QED
    BY <1>1, HostInit, HostStep, PTL DEF Spec

-----------------------------------------------------------------------------
(* What clients and processes still have to say to each other. *)

Caller == [pc : Pc, goal : {"connect", "again", "resend"}, tries : {1, 2},
           spawned : Service \cup {None}, got : Answer, version : Version \cup {None},
           why : {"none", "busy", "absent", "gone", "newer", "other", "held", "died", "late"}]

TalkType == client \in [Client -> Caller] /\ carried \in [Client -> Nat]

\* What a client's own record says: it waits for no answer before it takes the
\* start lock or once it is done, and only a failure has a reason.
Settled(r) ==
    /\ r.pc \in {"start", "done", "failed"} => r.got = "idle"
    /\ r.why # "none" => r.pc = "failed"
    /\ r.pc = "lost" => r.tries = 1

\* ... and how often its request was carried out by then.
Counted(r, n) ==
    /\ n <= 1
    /\ r.pc \notin {"send", "done", "failed"} => n = 0
    /\ r.pc = "send" => /\ r.got # "hello"
                        /\ r.got \in {"idle", "busy", "absent"} => n = 0
                        /\ r.got = "ok" => n = 1
    /\ r.pc = "done" => n = 1
    /\ r.why \in {"busy", "absent", "newer", "other", "held"} => n = 0

ClientsOK == \A c \in Client : Settled(client[c]) /\ Counted(client[c], carried[c])

\* A message has one copy, with its client waiting for the answer, unless it
\* gave up; once answered, it was carried out, and until then not.
MessageOK(i, m) ==
    /\ \/ client[m.from].why = "late"
       \/ client[m.from].got = "asked" /\ m.kind = KindOf(m.from)
       \/ client[m.from].got = "asked" /\ m.kind = "answered" /\ client[m.from].pc = "send"
    /\ m.kind = "answered" => carried[m.from] = 1
    /\ m.kind = "request" => carried[m.from] = 0
    /\ \A j \in Service : /\ svc[j].reply # m.from
                          /\ \A n \in svc[j].inbox : n.from = m.from => i = j /\ m = n

\* So has a replacement whose answer waits for the exit.
ReplyOK(i, c) ==
    /\ client[c].why = "late" \/ (client[c].got = "asked" /\ client[c].pc = "replace")
    /\ \A j \in Service : svc[j].reply = c => i = j

MessagesOK ==
    \A i \in Service :
        /\ \A m \in svc[i].inbox : m.from \in Client => MessageOK(i, m)
        /\ \A c \in Client : svc[i].reply = c => ReplyOK(i, c)
        /\ svc[i].phase \in {"dropped", "released"} => \A m \in svc[i].inbox : m.kind = "answered"

TalkOK == TalkType /\ ClientsOK /\ MessagesOK

NothingFrom(c) ==
    \A j \in Service : svc[j].reply # c /\ \A m \in svc[j].inbox : m.from # c

\* A client that waits for no answer and did not give up has no message out.
LEMMA NothingOut ==
    ASSUME HostType, TalkOK, NEW c \in Client, client[c].got # "asked", client[c].why # "late"
    PROVE  NothingFrom(c)
  BY DEF TalkOK, MessagesOK, MessageOK, ReplyOK, NothingFrom

\* At first nobody asked anything.
LEMMA TalkInit == Init => TalkOK
  <1> SUFFICES ASSUME Init PROVE TalkOK
    OBVIOUS
  <1>1. Connecting \in Caller /\ Settled(Connecting) /\ Counted(Connecting, 0)
    BY DEF Connecting, Caller, Pc, Answer, Version, Settled, Counted
  <1>2. TalkType /\ ClientsOK
    BY <1>1 DEF Init, TalkType, ClientsOK
  <1>3. MessagesOK
    BY Zenon, HostAssumption DEF Init, MessagesOK, Unborn
  <1>4. QED
    BY <1>2, <1>3 DEF TalkOK

\* A step in which processes take or drop messages, and every client that
\* hears or does anything has no message out afterwards, or gave up.
LEMMA TalkKept ==
    ASSUME HostType, TalkOK, client' \in [Client -> Caller], UNCHANGED carried,
           \A j \in Service :
              /\ svc'[j].inbox \subseteq svc[j].inbox
              /\ svc'[j].reply \in {svc[j].reply, None}
              /\ svc'[j].phase \in {"dropped", "released"} =>
                     \A m \in svc'[j].inbox : m.kind = "answered",
           \A c \in Client :
              \/ client'[c] = client[c]
              \/ /\ Settled(client'[c]) /\ Counted(client'[c], carried[c])
                 /\ NothingFrom(c)' \/ client'[c].why = "late"
    PROVE  TalkOK'
  <1>1. TalkType'
    BY DEF TalkOK, TalkType
  <1>2. ClientsOK'
    BY DEF TalkOK, ClientsOK
  <1>3. ASSUME NEW i \in Service, NEW m \in svc'[i].inbox, m.from \in Client
        PROVE  MessageOK(i, m)'
    <2>1. m \in svc[i].inbox /\ MessageOK(i, m)
      BY <1>3 DEF TalkOK, MessagesOK
    <2>2. client'[m.from] = client[m.from] \/ client'[m.from].why = "late"
      BY <1>3 DEF NothingFrom
    <2>3. \A j \in Service : /\ svc'[j].reply # m.from
                             /\ \A n \in svc'[j].inbox : n.from = m.from => i = j /\ m = n
      BY SMTT(40), <1>3, <2>1, HostAssumption DEF MessageOK
    <2>4. QED
      BY <1>3, <2>1, <2>2, <2>3 DEF MessageOK, KindOf
  <1>4. ASSUME NEW i \in Service, NEW c \in Client, svc'[i].reply = c PROVE ReplyOK(i, c)'
    <2>1. svc[i].reply = c /\ ReplyOK(i, c)
      BY <1>4, HostAssumption DEF TalkOK, MessagesOK
    <2>2. client'[c] = client[c] \/ client'[c].why = "late"
      BY Zenon, <1>4 DEF NothingFrom
    <2>3. \A j \in Service : svc'[j].reply = c => i = j
      BY <2>1, HostAssumption DEF ReplyOK
    <2>4. QED
      BY <2>1, <2>2, <2>3 DEF ReplyOK
  <1>5. QED
    BY Zenon, <1>1, <1>2, <1>3, <1>4 DEF TalkOK, MessagesOK

\* What the clients are once some messages are answered.
LEMMA AnsweredIs ==
    ASSUME TalkType, NEW dropped, NEW answer \in Answer
    PROVE  /\ Answered(dropped, answer) \in [Client -> Caller]
           /\ \A c \in Client :
                 LET r == Answered(dropped, answer)[c]
                 IN  \/ r = client[c]
                     \/ /\ client[c].got = "asked" /\ \E m \in dropped : m.from = c
                        /\ r \in Caller /\ r.got = answer
                        /\ r.pc = client[c].pc /\ r.why = client[c].why /\ r.tries = client[c].tries
                        /\ r.spawned = client[c].spawned
  <1>1. \A c \in Client : client[c] \in Caller
    BY DEF TalkType
  <1>2. ASSUME NEW c \in Client
        PROVE  LET r == [client[c] EXCEPT !.got = answer]
               IN  /\ r \in Caller /\ r.got = answer
                   /\ r.pc = client[c].pc /\ r.why = client[c].why /\ r.tries = client[c].tries
                   /\ r.spawned = client[c].spawned
    BY <1>1 DEF Caller
  <1>3. \A c \in Client : Answered(dropped, answer)[c] =
            IF client[c].got = "asked" /\ \E m \in dropped : m.from = c
            THEN [client[c] EXCEPT !.got = answer] ELSE client[c]
    BY DEF Answered
  <1>4. Answered(dropped, answer) \in [Client -> Caller]
    BY <1>1, <1>2 DEF Answered
  <1>5. ASSUME NEW c \in Client
        PROVE  LET r == Answered(dropped, answer)[c]
               IN  \/ r = client[c]
                   \/ /\ client[c].got = "asked" /\ \E m \in dropped : m.from = c
                      /\ r \in Caller /\ r.got = answer
                      /\ r.pc = client[c].pc /\ r.why = client[c].why /\ r.tries = client[c].tries
                      /\ r.spawned = client[c].spawned
    <2> DEFINE hears == client[c].got = "asked" /\ \E m \in dropped : m.from = c
               told == [client[c] EXCEPT !.got = answer]
    <2>1. Answered(dropped, answer)[c] = IF hears THEN told ELSE client[c]
      BY Zenon, <1>3
    <2>2. /\ told \in Caller /\ told.got = answer
          /\ told.pc = client[c].pc /\ told.why = client[c].why /\ told.tries = client[c].tries
          /\ told.spawned = client[c].spawned
      BY Zenon, <1>2
    <2>3. CASE hears
      <3>1. Answered(dropped, answer)[c] = told
        BY Zenon, <2>1, <2>3
      <3> HIDE DEF told
      <3>2. QED
        BY Zenon, <2>2, <2>3, <3>1
    <2>4. CASE ~hears
      BY Zenon, <2>1, <2>4
    <2>5. QED
      BY Zenon, <2>3, <2>4
  <1>6. QED
    BY Zenon, <1>4, <1>5

\* An answer a client may hear where it is.
LEMMA Hears ==
    ASSUME TalkOK, NEW c \in Client, NEW r \in Caller, client[c].got = "asked",
           r.pc = client[c].pc, r.why = client[c].why, r.tries = client[c].tries,
           r.pc = "send" => /\ r.got # "hello"
                            /\ r.got \in {"idle", "busy", "absent"} => carried[c] = 0
                            /\ r.got = "ok" => carried[c] = 1
    PROVE  Settled(r) /\ Counted(r, carried[c])
  BY Zenon DEF TalkOK, ClientsOK, Settled, Counted

\* Process i answers the messages in `dropped`, and no longer has them.
LEMMA TalkAnswered ==
    ASSUME HostType, TalkOK, NEW i \in Service, NEW dropped, NEW answer \in Answer,
           client' = Answered(dropped, answer), UNCHANGED carried,
           \A j \in Service : j # i => svc'[j] = svc[j],
           svc'[i].inbox \subseteq svc[i].inbox, svc'[i].reply \in {svc[i].reply, None},
           svc'[i].phase \in {"dropped", "released"} =>
               \A m \in svc'[i].inbox : m.kind = "answered",
           \A d \in dropped :
              \/ d \in svc[i].inbox /\ d \notin svc'[i].inbox
              \/ d.from = svc[i].reply /\ svc'[i].reply = None,
           \A d \in dropped : d \in svc[i].inbox /\ d.from \in Client /\ client[d.from].pc = "send" =>
              /\ answer # "hello"
              /\ answer \in {"idle", "busy", "absent"} => d.kind # "answered"
              /\ answer = "ok" => d.kind = "answered"
    PROVE  TalkOK'
  <1>1. TalkType
    BY DEF TalkOK
  <1>2. client' \in [Client -> Caller]
    BY Zenon, <1>1, AnsweredIs
  <1>3. \A j \in Service :
              /\ svc'[j].inbox \subseteq svc[j].inbox
              /\ svc'[j].reply \in {svc[j].reply, None}
              /\ svc'[j].phase \in {"dropped", "released"} =>
                     \A m \in svc'[j].inbox : m.kind = "answered"
    BY Zenon DEF TalkOK, MessagesOK
  <1>4. ASSUME NEW c \in Client, client'[c] # client[c]
        PROVE  Settled(client'[c]) /\ Counted(client'[c], carried[c]) /\ NothingFrom(c)'
    <2>1. /\ client[c].got = "asked" /\ client'[c] \in Caller /\ client'[c].got = answer
          /\ client'[c].pc = client[c].pc /\ client'[c].why = client[c].why
          /\ client'[c].tries = client[c].tries
      BY <1>1, <1>4, AnsweredIs
    <2>2. PICK d \in dropped : d.from = c
      BY <1>1, <1>4, AnsweredIs
    <2>3. client[c].why # "late"
      BY Zenon, <2>1 DEF TalkOK, ClientsOK, Settled
    <2>4. CASE d \in svc[i].inbox /\ d \notin svc'[i].inbox
      <3>1. MessageOK(i, d)
        BY Zenon, <2>2, <2>4 DEF TalkOK, MessagesOK
      <3>2. NothingFrom(c)'
        BY <1>3, <2>2, <2>4, <3>1, HostAssumption DEF NothingFrom, MessageOK
      <3>3. client[c].pc = "send" => d.kind \in {"request", "answered"}
        BY Zenon, <2>2, <2>3, <3>1 DEF MessageOK, KindOf
      <3>4. client[c].pc = "send" => /\ answer # "hello"
                                     /\ answer \in {"idle", "busy", "absent"} => carried[c] = 0
                                     /\ answer = "ok" => carried[c] = 1
        BY Zenon, <2>2, <2>4, <3>1, <3>3 DEF MessageOK
      <3>5. QED
        BY Zenon, <2>1, <3>2, <3>4, Hears
    <2>5. CASE d.from = svc[i].reply /\ svc'[i].reply = None
      <3>1. ReplyOK(i, c)
        BY <2>2, <2>5 DEF TalkOK, MessagesOK
      <3>2. client[c].pc = "replace"
        BY Zenon, <2>3, <3>1 DEF ReplyOK
      <3>3. \A j \in Service : \A m \in svc[j].inbox : m.from # c
        BY SMTT(40), <2>2, <2>5 DEF TalkOK, MessagesOK, MessageOK
      <3>4. NothingFrom(c)'
        BY ZenonT(60), <1>3, <2>2, <2>5, <3>1, <3>3, HostAssumption DEF NothingFrom, ReplyOK
      <3>5. QED
        BY Zenon, <2>1, <3>2, <3>4, Hears
    <2>6. QED
      BY Zenon, <2>2, <2>4, <2>5
  <1>5. QED
    BY <1>2, <1>3, <1>4, TalkKept

\* A step of a process that no client hears of.
LEMMA TalkSilent ==
    ASSUME HostType, TalkOK, NEW i \in Service, UNCHANGED <<client, carried>>,
           \A j \in Service : j # i => svc'[j] = svc[j],
           svc'[i].inbox \subseteq svc[i].inbox, svc'[i].reply \in {svc[i].reply, None},
           svc'[i].phase \in {"dropped", "released"} =>
               svc[i].phase \in {"dropped", "released"}
    PROVE  TalkOK'
  <1>1. client' \in [Client -> Caller]
    BY DEF TalkOK, TalkType
  <1>2. \A j \in Service :
              /\ svc'[j].inbox \subseteq svc[j].inbox
              /\ svc'[j].reply \in {svc[j].reply, None}
              /\ svc'[j].phase \in {"dropped", "released"} =>
                     \A m \in svc'[j].inbox : m.kind = "answered"
    BY DEF TalkOK, MessagesOK
  <1>3. QED
    BY Zenon, <1>1, <1>2, TalkKept

\* A greeting is answered with the service's version.
LEMMA GreetTalk ==
    ASSUME HostType, TalkOK, NEW i \in Service, NEW m \in svc[i].inbox, m.kind = "hello",
           Becomes(i, "serving", svc[i].inbox \ {m}, svc[i].reply),
           client' = [Answered({m}, "hello") EXCEPT ![m.from].version = svc[i].version],
           UNCHANGED carried
    PROVE  TalkOK'
  <1> DEFINE f == Answered({m}, "hello")
             v == svc[i].version
  <1>1. TalkType /\ "hello" \in Answer /\ v \in Version \cup {None}
    BY InboxIs DEF TalkOK, Answer, Process
  <1>2. f \in [Client -> Caller]
    BY <1>1, AnsweredIs
  <1>3. \A c \in Client : \/ f[c] = client[c]
                          \/ /\ client[c].got = "asked" /\ m.from = c
                             /\ f[c].got = "hello" /\ f[c].pc = client[c].pc
                             /\ f[c].why = client[c].why /\ f[c].tries = client[c].tries
    BY <1>1, AnsweredIs
  <1>4. client' = [f EXCEPT ![m.from].version = v]
    OBVIOUS
  <1> HIDE DEF f, v
  <1>5. ASSUME NEW c \in Client, c # m.from PROVE client'[c] = client[c]
    <2>1. client'[c] = f[c]
      BY Zenon, <1>2, <1>4, <1>5
    <2>2. QED
      BY Zenon, <1>3, <1>5, <2>1
  <1>6. ASSUME NEW c \in Client, c = m.from
        PROVE  /\ client'[c] \in Caller
               /\ Settled(client'[c]) /\ Counted(client'[c], carried[c])
               /\ NothingFrom(c)'
    <2> DEFINE r == [f[c] EXCEPT !.version = v]
    <2>1. client'[c] = r
      BY Zenon, <1>2, <1>4, <1>6
    <2>2. /\ r \in Caller /\ r.got = f[c].got /\ r.pc = f[c].pc
          /\ r.why = f[c].why /\ r.tries = f[c].tries
      <3>1. f[c] \in Caller
        BY <1>2
      <3>2. QED
        BY <1>1, <3>1 DEF Caller
    <2> HIDE DEF r
    <2>3. MessageOK(i, m)
      BY <1>6 DEF TalkOK, MessagesOK
    <2>4. NothingFrom(c)'
      BY <1>6, <2>3 DEF NothingFrom, MessageOK, Becomes
    <2>5. CASE f[c] = client[c]
      <3>1. Settled(client[c]) /\ Counted(client[c], carried[c])
        BY DEF TalkOK, ClientsOK
      <3>2. Settled(r) /\ Counted(r, carried[c])
        BY <2>2, <2>5, <3>1 DEF Settled, Counted
      <3>3. QED
        BY Zenon, <2>1, <2>2, <2>4, <3>2
    <2>6. CASE f[c] # client[c]
      <3>1. client[c].got = "asked" /\ client[c].why # "late" /\ r.pc = client[c].pc
            /\ r.why = client[c].why /\ r.tries = client[c].tries
        BY <1>3, <2>2, <2>6 DEF TalkOK, ClientsOK, Settled
      <3>2. client[c].pc # "send"
        BY <1>6, <2>3, <3>1 DEF MessageOK, KindOf
      <3>3. QED
        BY Zenon, <2>1, <2>2, <2>4, <3>1, <3>2, Hears
    <2>7. QED
      BY <2>5, <2>6
  <1>7. client' \in [Client -> Caller]
    BY Zenon, <1>2, <1>4, <1>5, <1>6 DEF TalkOK, TalkType
  <1>8. \A j \in Service :
              /\ svc'[j].inbox \subseteq svc[j].inbox
              /\ svc'[j].reply \in {svc[j].reply, None}
              /\ svc'[j].phase \in {"dropped", "released"} =>
                     \A n \in svc'[j].inbox : n.kind = "answered"
    BY DEF TalkOK, MessagesOK, Becomes
  <1>9. QED
    BY Zenon, <1>5, <1>6, <1>7, <1>8, TalkKept

\* The client that asks a service to make way is answered when it has exited.
LEMMA MakeWayTalk ==
    ASSUME HostType, TalkOK, NEW i \in Service, NEW m \in svc[i].inbox,
           m.kind \in {"stop", "replace"},
           Becomes(i, "exiting", svc[i].inbox \ {m}, m.from), UNCHANGED <<client, carried>>
    PROVE  TalkOK'
  <1>1. CASE m.from \notin Client
    <2>1. m.from = None
      BY Zenon, <1>1, InboxIs
    <2>2. QED
      BY Zenon, <2>1, TalkSilent DEF Becomes
  <1>2. CASE m.from \in Client
    <2>1. MessageOK(i, m)
      BY <1>2 DEF TalkOK, MessagesOK
    <2>2. client[m.from].why = "late" \/ (client[m.from].got = "asked" /\ client[m.from].pc = "replace")
      BY <2>1 DEF MessageOK, KindOf
    <2>3. ASSUME NEW j \in Service, NEW n \in svc'[j].inbox, n.from \in Client
          PROVE  MessageOK(j, n)'
      <3>1. n \in svc[j].inbox /\ MessageOK(j, n)
        BY Zenon, <2>3 DEF TalkOK, MessagesOK, Becomes
      <3>2. n.from # m.from
        BY <2>1, <2>3, <3>1 DEF MessageOK, Becomes
      <3>3. QED
        BY <3>1, <3>2 DEF MessageOK, Becomes, KindOf
    <2>4. ASSUME NEW j \in Service, NEW c \in Client, svc'[j].reply = c
          PROVE  ReplyOK(j, c)'
      <3>1. CASE c = m.from
        BY <2>1, <2>2, <2>4, <3>1 DEF ReplyOK, MessageOK, Becomes
      <3>2. CASE c # m.from
        <4>1. svc[j].reply = c /\ ReplyOK(j, c)
          BY <2>4, <3>2 DEF TalkOK, MessagesOK, Becomes
        <4>2. QED
          BY <3>2, <4>1 DEF ReplyOK, Becomes
      <3>3. QED
        BY <3>1, <3>2
    <2>5. \A j \in Service : svc'[j].phase \in {"dropped", "released"} =>
              \A n \in svc'[j].inbox : n.kind = "answered"
      BY DEF TalkOK, MessagesOK, Becomes
    <2>6. QED
      BY Zenon, <2>3, <2>4, <2>5 DEF TalkOK, TalkType, ClientsOK, MessagesOK
  <1>3. QED
    BY Zenon, <1>1, <1>2

\* A request is carried out once, and its answer is then with the connection's
\* thread.
LEMMA CarryOutTalk ==
    ASSUME HostType, TalkOK, NEW i \in Service, NEW m \in svc[i].inbox, m.kind = "request",
           Becomes(i, "serving", (svc[i].inbox \ {m}) \cup {[m EXCEPT !.kind = "answered"]}, svc[i].reply),
           [m EXCEPT !.kind = "answered"] \in Message,
           carried' = [carried EXCEPT ![m.from] = @ + 1], UNCHANGED client
    PROVE  TalkOK'
  <1> DEFINE a == [m EXCEPT !.kind = "answered"]
  <1>1. a.from = m.from /\ a.kind = "answered"
    BY InboxIs DEF Message
  <1>2. Becomes(i, "serving", (svc[i].inbox \ {m}) \cup {a}, svc[i].reply)
    OBVIOUS
  <1> HIDE DEF a
  <1>3. \A c \in Client : c # m.from => carried'[c] = carried[c]
    BY DEF TalkOK, TalkType
  <1>4. ASSUME m.from \in Client
        PROVE  /\ MessageOK(i, m) /\ carried[m.from] = 0 /\ carried'[m.from] = 1
               /\ client[m.from].why = "late" \/ client[m.from].pc = "send"
               /\ client[m.from].why = "late" \/ client[m.from].got = "asked"
    <2>1. MessageOK(i, m)
      BY <1>4 DEF TalkOK, MessagesOK
    <2>2. carried[m.from] = 0
      BY <2>1 DEF MessageOK
    <2>3. carried'[m.from] = 1
      BY <1>4, <2>2 DEF TalkOK, TalkType
    <2>4. QED
      BY <2>1, <2>2, <2>3 DEF MessageOK, KindOf
  <1>5. TalkType'
    <2>1. \A c \in Client : carried'[c] \in Nat
      BY <1>3, <1>4 DEF TalkOK, TalkType
    <2>2. QED
      BY Zenon, <2>1 DEF TalkOK, TalkType
  <1>6. ClientsOK'
    <2> SUFFICES ASSUME NEW c \in Client PROVE Settled(client[c]) /\ Counted(client[c], carried'[c])
      BY DEF ClientsOK
    <2>1. CASE c = m.from
      <3>1. Settled(client[c]) /\ Counted(client[c], carried[c])
        BY DEF TalkOK, ClientsOK
      <3>2. client[c].why # "none" => client[c].pc = "failed"
        BY <3>1 DEF Settled
      <3>3. carried'[c] = 1 /\ (client[c].why = "late" \/ (client[c].pc = "send" /\ client[c].got = "asked"))
        BY <1>4, <2>1
      <3>4. Counted(client[c], 1)
        BY <3>1, <3>2, <3>3 DEF Counted
      <3>5. QED
        BY <3>1, <3>3, <3>4
    <2>2. CASE c # m.from
      BY <1>3, <2>2 DEF TalkOK, ClientsOK
    <2>3. QED
      BY <2>1, <2>2
  <1>7. ASSUME NEW j \in Service, NEW n \in svc'[j].inbox, n.from \in Client
        PROVE  MessageOK(j, n)'
    <2>1. CASE j = i /\ n = a
      BY <1>1, <1>2, <1>4, <1>7, <2>1 DEF MessageOK, Becomes
    <2>2. CASE ~(j = i /\ n = a)
      <3>1. n \in svc[j].inbox /\ MessageOK(j, n) /\ ~(j = i /\ n = m)
        BY <1>2, <1>7, <2>2 DEF TalkOK, MessagesOK, Becomes
      <3>2. n.from # m.from
        BY <1>4, <1>7, <3>1 DEF MessageOK
      <3>3. carried'[n.from] = carried[n.from]
        BY <1>3, <1>7, <3>2
      <3>4. QED
        BY <1>1, <1>2, <3>1, <3>2, <3>3 DEF MessageOK, Becomes, KindOf
    <2>3. QED
      BY <2>1, <2>2
  <1>8. ASSUME NEW j \in Service, NEW c \in Client, svc'[j].reply = c
        PROVE  ReplyOK(j, c)'
    BY <1>2, <1>8 DEF TalkOK, MessagesOK, ReplyOK, Becomes
  <1>9. \A j \in Service : svc'[j].phase \in {"dropped", "released"} =>
            \A n \in svc'[j].inbox : n.kind = "answered"
    BY Zenon, <1>2 DEF TalkOK, MessagesOK, Becomes
  <1>10. QED
    BY <1>5, <1>6, <1>7, <1>8, <1>9 DEF TalkOK, MessagesOK

\* Every step of a process keeps what was said right.
LEMMA ServiceTalkStep ==
    ASSUME HostOK, TalkOK, NEW i \in Service, ServiceStep(i) \/ Crash(i)
    PROVE  TalkOK'
  <1>0. HostType /\ svc[i].phase \in Phase
    BY InboxIs DEF HostOK
  <1>1. CASE Acquire(i)
    <2>1. UNCHANGED <<client, carried>>
      BY <1>1 DEF Acquire
    <2>2. CASE lock = None
      <3>1. Becomes(i, "locked", svc[i].inbox, svc[i].reply)
        BY Zenon, <1>0, <1>1, <2>2, PhaseStep DEF Acquire, Phase
      <3>2. QED
        BY SMTT(40), <1>0, <2>1, <3>1, TalkSilent DEF Becomes
    <2>3. CASE lock # None
      <3>1. Ends(i, "lost")
        BY Zenon, <1>0, <1>1, <2>3, EndStep DEF Acquire, Phase
      <3>2. QED
        BY SMTT(40), <1>0, <2>1, <3>1, TalkSilent DEF Ends
    <2>4. QED
      BY <2>2, <2>3
  <1>2. CASE Bind(i) \/ Serve(i) \/ StopAccepting(i) \/ Release(i)
    <2>1. \E phase \in {"bound", "serving", "closing"} : Becomes(i, phase, svc[i].inbox, svc[i].reply)
          \/ (svc[i].phase = "dropped" /\ Becomes(i, "released", svc[i].inbox, svc[i].reply))
      BY <1>0, <1>2, PhaseStep DEF Bind, Serve, StopAccepting, Release, Phase
    <2>2. UNCHANGED <<client, carried>>
      BY SMTT(40), <1>2 DEF Bind, Serve, StopAccepting, Release
    <2>3. QED
      BY Zenon, <1>0, <2>1, <2>2, TalkSilent DEF Becomes
  <1>3. ASSUME NEW m \in svc[i].inbox, Handle(i, m) PROVE TalkOK'
    BY ZenonT(60), <1>0, <1>3, HandleStep, GreetTalk, MakeWayTalk, CarryOutTalk
  <1>4. ASSUME NEW m \in svc[i].inbox, Reply(i, m) PROVE TalkOK'
    <2>1. Becomes(i, svc[i].phase, svc[i].inbox \ {m}, svc[i].reply)
      BY <1>0, <1>4, ReplyStep
    <2>2. client' = Answered({m}, "ok") /\ UNCHANGED carried /\ m.kind = "answered"
      BY <1>4 DEF Reply
    <2>3. svc[i].phase \in {"dropped", "released"} => \A n \in svc[i].inbox : n.kind = "answered"
      BY DEF TalkOK, MessagesOK
    <2>4. "ok" \in Answer
      BY Zenon DEF Answer
    <2>5. QED
      BY SMTT(40), <1>0, <2>1, <2>2, <2>3, <2>4, TalkAnswered DEF Becomes
  <1>5. CASE Close(i)
    <2> DEFINE late == {m \in svc[i].inbox : m.backlog}
    <2>1. Becomes(i, "closed", {m \in svc[i].inbox : ~m.backlog}, svc[i].reply)
      BY <1>0, <1>5, CloseStep
    <2>2. client' = Answered(late, "gone") /\ UNCHANGED carried
      BY <1>5 DEF Close
    <2>3. "gone" \in Answer
      BY Zenon DEF Answer
    <2>4. QED
      BY <1>0, <2>1, <2>2, <2>3, TalkAnswered DEF Becomes
  <1>6. CASE DropEvents(i)
    <2> DEFINE unread == {m \in svc[i].inbox : m.kind # "answered"}
    <2>1. Becomes(i, "dropped", {m \in svc[i].inbox : m.kind = "answered"}, svc[i].reply)
      BY <1>0, <1>6, DropStep
    <2>2. client' = Answered(unread, "busy") /\ UNCHANGED carried
      BY <1>6 DEF DropEvents
    <2>3. "busy" \in Answer
      BY Zenon DEF Answer
    <2>4. QED
      BY <1>0, <2>1, <2>2, <2>3, TalkAnswered DEF Becomes
  <1>7. CASE Leave(i)
    <2> DEFINE all == svc[i].inbox \cup {[from |-> svc[i].reply]}
    <2>1. Ends(i, "gone")
      BY Zenon, <1>0, <1>7, EndStep DEF Leave, Phase
    <2>2. client' = Answered(all, "ok") /\ UNCHANGED carried
      BY <1>7 DEF Leave
    <2>3. "ok" \in Answer
      BY DEF Answer
    <2>4. \A m \in svc[i].inbox : m.kind = "answered"
      BY <1>7 DEF Leave, TalkOK, MessagesOK
    <2>5. \A d \in all : d \in svc[i].inbox \/ d.from = svc[i].reply
      BY SMTT(40)
    <2> HIDE DEF all
    <2>6. QED
      BY SMTT(40), <1>0, <2>1, <2>2, <2>3, <2>4, <2>5, TalkAnswered DEF Ends
  <1>8. CASE Crash(i)
    <2> DEFINE all == svc[i].inbox \cup {[from |-> svc[i].reply]}
    <2>1. Ends(i, "crashed")
      BY Zenon, <1>0, <1>8, EndStep DEF Crash, Phase
    <2>2. client' = Answered(all, "gone") /\ UNCHANGED carried
      BY <1>8 DEF Crash
    <2>3. "gone" \in Answer
      BY DEF Answer
    <2>4. \A d \in all : d \in svc[i].inbox \/ d.from = svc[i].reply
      BY SMTT(40)
    <2> HIDE DEF all
    <2>5. QED
      BY SMTT(40), <1>0, <2>1, <2>2, <2>3, <2>4, TalkAnswered DEF Ends
  <1>9. QED
    BY Zenon, <1>1, <1>2, <1>3, <1>4, <1>5, <1>6, <1>7, <1>8 DEF ServiceStep

\* A stop has no client waiting for its answer.
LEMMA AskToStopTalk ==
    ASSUME HostOK, TalkOK, NEW i \in Service, AskToStop(i)
    PROVE  TalkOK'
  <1> DEFINE s == [from |-> None, kind |-> "stop", backlog |-> FALSE]
  <1>1. Becomes(i, svc[i].phase, svc[i].inbox \cup {s}, svc[i].reply)
    BY AskToStopStep DEF HostOK
  <1>2. UNCHANGED <<client, carried>> /\ svc[i].phase \in {"bound", "serving"}
    BY DEF AskToStop
  <1>3. s.from \notin Client
    BY HostAssumption
  <1> HIDE DEF s
  <1>4. ASSUME NEW j \in Service, NEW n \in svc'[j].inbox, n.from \in Client
        PROVE  MessageOK(j, n)'
    <2>1. n \in svc[j].inbox /\ MessageOK(j, n)
      BY ZenonT(60), <1>1, <1>3, <1>4 DEF TalkOK, MessagesOK, Becomes
    <2>2. QED
      BY SMTT(40), <1>1, <1>2, <1>3, <1>4, <2>1 DEF MessageOK, Becomes, KindOf
  <1>5. ASSUME NEW j \in Service, NEW c \in Client, svc'[j].reply = c
        PROVE  ReplyOK(j, c)'
    BY <1>1, <1>2, <1>5 DEF TalkOK, MessagesOK, ReplyOK, Becomes
  <1>6. \A j \in Service : svc'[j].phase \in {"dropped", "released"} =>
            \A n \in svc'[j].inbox : n.kind = "answered"
    BY Zenon, <1>1, <1>2 DEF TalkOK, MessagesOK, Becomes
  <1>7. QED
    BY Zenon, <1>2, <1>4, <1>5, <1>6 DEF TalkOK, TalkType, ClientsOK, MessagesOK

\* A client's own step, with no message out or giving up.
LEMMA ClientTalk ==
    ASSUME HostType, TalkOK, NEW c \in Client, NEW r \in Caller,
           client' = [client EXCEPT ![c] = r], UNCHANGED carried,
           Settled(r), Counted(r, carried[c]),
           \A j \in Service :
              /\ svc'[j].inbox \subseteq svc[j].inbox
              /\ svc'[j].reply \in {svc[j].reply, None}
              /\ svc'[j].phase \in {"dropped", "released"} =>
                     \A m \in svc'[j].inbox : m.kind = "answered",
           r.why = "late" \/ (client[c].got # "asked" /\ client[c].pc # "failed")
    PROVE  TalkOK'
  <1>1. client' \in [Client -> Caller] /\ client'[c] = r
        /\ \A d \in Client : d # c => client'[d] = client[d]
    BY Zenon DEF TalkOK, TalkType
  <1>2. NothingFrom(c)' \/ r.why = "late"
    <2>1. CASE client[c].got # "asked" /\ client[c].pc # "failed"
      <3>1. NothingFrom(c)
        BY SMTT(40), <2>1, NothingOut DEF TalkOK, ClientsOK, Settled
      <3>2. QED
        BY Zenon, <3>1, HostAssumption DEF NothingFrom
    <2>2. QED
      BY Zenon, <2>1
  <1>3. QED
    BY Zenon, <1>1, <1>2, TalkKept

\* ... which leaves the processes alone.
LEMMA ClientTalkAlone ==
    ASSUME HostType, TalkOK, NEW c \in Client, NEW r \in Caller,
           client' = [client EXCEPT ![c] = r], UNCHANGED <<svc, carried>>,
           Settled(r), Counted(r, carried[c]),
           r.why = "late" \/ (client[c].got # "asked" /\ client[c].pc # "failed")
    PROVE  TalkOK'
  <1>1. \A j \in Service :
              /\ svc'[j].inbox \subseteq svc[j].inbox
              /\ svc'[j].reply \in {svc[j].reply, None}
              /\ svc'[j].phase \in {"dropped", "released"} =>
                     \A m \in svc'[j].inbox : m.kind = "answered"
    BY DEF TalkOK, MessagesOK
  <1>2. QED
    BY Zenon, <1>1, ClientTalk

\* What a failure is.
LEMMA FailedIs ==
    ASSUME NEW me, NEW why \in {"busy", "absent", "gone", "newer", "other", "held", "died", "late"},
           NEW n \in Nat, n <= 1,
           why \in {"busy", "absent", "newer", "other", "held"} => n = 0
    PROVE  /\ Failed(me, why) \in Caller
           /\ Settled(Failed(me, why)) /\ Counted(Failed(me, why), n)
           /\ Failed(me, why).pc = "failed" /\ Failed(me, why).why = why
  <1>1. /\ Failed(me, why) \in Caller
        /\ Failed(me, why).pc = "failed" /\ Failed(me, why).why = why /\ Failed(me, why).got = "idle"
    BY Zenon DEF Failed, Connecting, Caller, Pc, Answer, Version
  <1>2. QED
    BY <1>1 DEF Settled, Counted

\* What a client that found a service does.
LEMMA FoundIs ==
    ASSUME NEW c \in Client, NEW me \in Caller, me.why = "none"
    PROVE  /\ Found(c, me) \in Caller
           /\ Settled(Found(c, me)) /\ Counted(Found(c, me), 0)
           /\ Found(c, me).pc \in {"send", "replace", "failed"}
  <1> DEFINE to(pc) == [me EXCEPT !.pc = pc, !.got = "idle", !.spawned = None,
                                  !.version = None, !.tries = 1]
  <1>1. ASSUME NEW pc \in {"send", "replace"}
        PROVE  to(pc) \in Caller /\ to(pc).pc = pc /\ to(pc).got = "idle" /\ to(pc).why = "none"
    BY ZenonT(60) DEF Caller, Pc, Answer
  <1>2. ASSUME NEW pc \in {"send", "replace"}
        PROVE  Settled(to(pc)) /\ Counted(to(pc), 0)
    <2> HIDE DEF to
    <2>1. QED
      BY <1>1, <1>2 DEF Settled, Counted
  <1>3. ASSUME NEW why \in {"other", "newer"}
        PROVE  /\ Failed(me, why) \in Caller /\ Failed(me, why).pc = "failed"
               /\ Settled(Failed(me, why)) /\ Counted(Failed(me, why), 0)
    BY <1>3, FailedIs
  <1>4. Found(c, me) \in {to("send"), to("replace"), Failed(me, "other"), Failed(me, "newer")}
    BY DEF Found
  <1> HIDE DEF to
  <1>5. QED
    BY <1>1, <1>2, <1>3, <1>4

\* A question goes out, or finds nobody.
LEMMA AskTalk ==
    ASSUME HostOK, TalkOK, NEW c \in Client, Ask(c)
    PROVE  TalkOK'
  <1>0. HostType /\ TalkType /\ client[c] \in Caller
    BY DEF HostOK, TalkOK, TalkType
  <1>1. /\ client[c].got = "idle" /\ client[c].pc \notin {"start", "done", "failed"}
        /\ UNCHANGED carried
    BY DEF Ask
  <1>2. Settled(client[c]) /\ Counted(client[c], carried[c])
    BY DEF TalkOK, ClientsOK
  <1>3. client[c].why = "none" /\ NothingFrom(c)
    BY <1>0, <1>1, <1>2, NothingOut DEF Settled
  <1>4. CASE client' = [client EXCEPT ![c].got = "absent"] /\ UNCHANGED svc
    <2> DEFINE r == [client[c] EXCEPT !.got = "absent"]
    <2>1. /\ r \in Caller /\ r.got = "absent" /\ r.pc = client[c].pc /\ r.why = client[c].why
          /\ r.tries = client[c].tries
      BY <1>0 DEF Caller, Answer
    <2>2. client' = [client EXCEPT ![c] = r]
      BY Zenon, <1>4
    <2> HIDE DEF r
    <2>3. Settled(r) /\ Counted(r, carried[c])
      BY ZenonT(60), <1>1, <1>2, <2>1 DEF Settled, Counted
    <2>4. QED
      BY ZenonT(40), <1>0, <1>1, <1>4, <2>1, <2>2, <2>3, ClientTalkAlone
  <1>5. ASSUME NEW i \in Service, NEW backlog \in BOOLEAN, Listens(i),
               [from |-> c, kind |-> KindOf(c), backlog |-> backlog] \in Message,
               Becomes(i, svc[i].phase, svc[i].inbox \cup
                         {[from |-> c, kind |-> KindOf(c), backlog |-> backlog]}, svc[i].reply),
               client' = [client EXCEPT ![c].got = "asked"]
        PROVE  TalkOK'
    <2> DEFINE r == [client[c] EXCEPT !.got = "asked"]
               m == [from |-> c, kind |-> KindOf(c), backlog |-> backlog]
    <2>1. /\ r \in Caller /\ r.got = "asked" /\ r.pc = client[c].pc /\ r.why = client[c].why
          /\ r.tries = client[c].tries
      BY <1>0 DEF Caller, Answer
    <2>2. client' = [client EXCEPT ![c] = r]
      BY <1>5
    <2>3. m.from = c /\ m.kind = KindOf(c)
      OBVIOUS
    <2>4. Becomes(i, svc[i].phase, svc[i].inbox \cup {m}, svc[i].reply)
      BY <1>5
    <2> HIDE DEF r, m
    <2>5. /\ client' \in [Client -> Caller] /\ client'[c] = r
          /\ \A d \in Client : d # c => client'[d] = client[d]
      BY <2>1, <2>2 DEF TalkOK, TalkType
    <2>6. TalkType'
      BY Zenon, <1>1, <2>5 DEF TalkOK, TalkType
    <2>7. Settled(r) /\ Counted(r, carried[c])
      BY Zenon, <1>1, <1>2, <2>1 DEF Settled, Counted
    <2>8. ClientsOK'
      BY ZenonT(60), <1>1, <2>5, <2>7 DEF TalkOK, ClientsOK
    <2>9. KindOf(c)' = KindOf(c) /\ (KindOf(c) = "request" => carried[c] = 0) /\ KindOf(c) # "answered"
      <3>1. KindOf(c)' = KindOf(c)
        BY <2>1, <2>5 DEF KindOf
      <3>2. KindOf(c) = "request" => client[c].pc = "send"
        BY DEF KindOf
      <3>3. KindOf(c) # "answered"
        BY DEF KindOf
      <3>4. QED
        BY <1>1, <1>2, <3>1, <3>2, <3>3 DEF Counted
    <2>10. ASSUME NEW j \in Service, NEW n \in svc'[j].inbox, n.from \in Client
           PROVE  MessageOK(j, n)'
      <3>1. CASE j = i /\ n = m
        <4>1. \A k \in Service : /\ svc'[k].reply # c
                                 /\ \A o \in svc'[k].inbox : o.from = c => i = k /\ m = o
          BY Zenon, <1>3, <2>4 DEF NothingFrom, Becomes
        <4>2. client'[c].got = "asked" /\ m.kind = KindOf(c)'
          BY <2>1, <2>3, <2>5, <2>9
        <4>3. QED
          BY Zenon, <1>1, <2>3, <2>9, <3>1, <4>1, <4>2 DEF MessageOK
      <3>2. CASE ~(j = i /\ n = m)
        <4>1. n \in svc[j].inbox /\ MessageOK(j, n)
          BY Zenon, <2>4, <2>10, <3>2 DEF TalkOK, MessagesOK, Becomes
        <4>2. n.from # c
          BY <1>3, <4>1 DEF NothingFrom
        <4>3. client'[n.from] = client[n.from]
          BY Zenon, <2>5, <2>10, <4>2
        <4>4. \A k \in Service : /\ svc'[k].reply # n.from
                                 /\ \A o \in svc'[k].inbox : o.from = n.from => j = k /\ n = o
          BY ZenonT(60), <2>3, <2>4, <4>1, <4>2 DEF MessageOK, Becomes
        <4>5. QED
          BY Zenon, <1>1, <4>1, <4>3, <4>4 DEF MessageOK, KindOf
      <3>3. QED
        BY Zenon, <3>1, <3>2
    <2>11. ASSUME NEW j \in Service, NEW d \in Client, svc'[j].reply = d
           PROVE  ReplyOK(j, d)'
      <3>1. svc[j].reply = d /\ ReplyOK(j, d) /\ \A k \in Service : svc'[k].reply = svc[k].reply
        BY Zenon, <2>4, <2>11 DEF TalkOK, MessagesOK, Becomes
      <3>2. d # c
        BY <1>3, <3>1 DEF NothingFrom
      <3>3. QED
        BY Zenon, <2>5, <3>1, <3>2 DEF ReplyOK
    <2>12. \A j \in Service : svc'[j].phase \in {"dropped", "released"} =>
              \A n \in svc'[j].inbox : n.kind = "answered"
      BY <1>5, <2>4 DEF TalkOK, MessagesOK, Becomes, Listens
    <2>13. QED
      BY <2>6, <2>8, <2>10, <2>11, <2>12 DEF TalkOK, MessagesOK
  <1>6. QED
    BY Zenon, <1>0, <1>4, <1>5, AskStep

\* A client that goes on before it sends its request.
LEMMA OnTheWay ==
    ASSUME NEW r \in Caller, r.why = "none", r.got = "idle", r.pc \notin {"done", "failed"},
           r.pc = "lost" => r.tries = 1
    PROVE  Settled(r) /\ Counted(r, 0)
  BY DEF Settled, Counted

\* ... and what is known of one that heard an answer there.
LEMMA HeardIs ==
    ASSUME TalkOK, NEW c \in Client, client[c].pc \notin {"send", "done", "failed"}
    PROVE  client[c] \in Caller /\ client[c].why = "none" /\ carried[c] = 0
  BY DEF TalkOK, TalkType, ClientsOK, Settled, Counted

\* A client that heard an answer, or may take the start lock, goes on.
LEMMA WaitingIs ==
    ASSUME TalkOK, NEW c \in Client,
           Reach(c) \/ TakeStartLock(c) \/ AwaitOther(c) \/ TryAgain(c) \/ Replaced(c)
    PROVE  /\ client[c].pc \in {"reach", "start", "lost", "replace"} /\ client[c].got # "asked"
           /\ carried[c] = 0
           /\ \E r \in Caller :
                 /\ client' = [client EXCEPT ![c] = r] /\ Settled(r) /\ Counted(r, 0)
                 /\ \/ r.pc \notin {"locked", "spawned"} /\ UNCHANGED startLock
                    \/ r.pc = "locked" /\ r.got = "idle" /\ TakeStartLock(c)
  <1> DEFINE me == client[c]
  <1>1. /\ me.pc \in {"reach", "start", "lost", "replace"} /\ me.got # "asked"
    <2>1. CASE TakeStartLock(c)
      BY Zenon, <2>1 DEF TakeStartLock, TalkOK, ClientsOK, Settled
    <2>2. QED
      BY <2>1 DEF Reach, AwaitOther, TryAgain, Replaced, Heard
  <1>2. me \in Caller /\ me.why = "none" /\ carried[c] = 0 /\ Settled(me)
    BY Zenon, <1>1, HeardIs DEF TalkOK, ClientsOK
  <1>3. me.pc = "lost" => me.tries = 1
    BY Zenon, <1>2 DEF Settled
  <1>4. me.pc = "start" => me.got = "idle"
    BY Zenon, <1>2 DEF Settled
  <1>5. \E r \in Caller :
           /\ client' = [client EXCEPT ![c] = r] /\ Settled(r) /\ Counted(r, 0)
           /\ \/ r.pc \notin {"locked", "spawned"} /\ UNCHANGED startLock
              \/ r.pc = "locked" /\ r.got = "idle" /\ TakeStartLock(c)
    <2>1. CASE Reach(c)
      <3> DEFINE toStart == [me EXCEPT !.pc = "start", !.got = "idle", !.tries = 1]
                 again == [me EXCEPT !.got = "idle"]
      <3>1. /\ toStart \in Caller /\ toStart.pc = "start" /\ toStart.got = "idle" /\ toStart.why = "none"
            /\ again \in Caller /\ again.pc = "reach" /\ again.got = "idle" /\ again.why = "none"
        BY ZenonT(60), <1>2, <2>1 DEF Caller, Pc, Answer, Reach, Heard
      <3>2. client' = [client EXCEPT ![c] = CASE me.got = "hello" -> Found(c, me)
                                              [] me.got = "absent" -> toStart
                                              [] OTHER -> again]
        BY <2>1 DEF Reach
      <3> HIDE DEF toStart, again, me
      <3>3. Settled(toStart) /\ Counted(toStart, 0) /\ Settled(again) /\ Counted(again, 0)
        BY <3>1, OnTheWay
      <3>4. QED
        BY ZenonT(60), <1>2, <2>1, <3>1, <3>2, <3>3, FoundIs DEF Reach
    <2>2. CASE TakeStartLock(c)
      <3> DEFINE r == [me EXCEPT !.pc = "locked"]
      <3>1. r \in Caller /\ r.pc = "locked" /\ r.got = "idle" /\ r.why = "none"
        BY <1>2, <1>4, <2>2 DEF Caller, Pc, TakeStartLock
      <3>2. client' = [client EXCEPT ![c] = r]
        BY <2>2 DEF TakeStartLock
      <3> HIDE DEF r
      <3>3. QED
        BY Zenon, <2>2, <3>1, <3>2, OnTheWay
    <2>3. CASE AwaitOther(c)
      <3> DEFINE again == [me EXCEPT !.got = "idle"]
      <3>1. /\ again \in Caller /\ again.pc = "lost" /\ again.got = "idle" /\ again.why = "none"
            /\ again.tries = 1
        BY <1>2, <1>3, <2>3 DEF Caller, Pc, Answer, AwaitOther, Heard
      <3>2. client' = [client EXCEPT ![c] = IF me.got = "hello" THEN Found(c, me) ELSE again]
        BY <2>3 DEF AwaitOther
      <3> HIDE DEF again, me
      <3>3. Settled(again) /\ Counted(again, 0)
        BY <3>1, OnTheWay
      <3>4. QED
        BY Zenon, <1>2, <2>3, <3>1, <3>2, <3>3, FoundIs DEF AwaitOther
    <2>4. CASE TryAgain(c)
      <3> DEFINE n == me.tries + 1
                 r == [me EXCEPT !.pc = "start", !.tries = n, !.got = "idle"]
      <3>1. client' = [client EXCEPT ![c] = r]
        BY Zenon, <2>4 DEF TryAgain, TalkOK, TalkType
      <3>2. n = 2
        BY <1>3, <2>4 DEF TryAgain, Heard
      <3> HIDE DEF n
      <3>3. r \in Caller /\ r.pc = "start" /\ r.got = "idle" /\ r.why = "none"
        BY ZenonT(60), <1>2, <3>2 DEF Caller, Pc, Answer
      <3> HIDE DEF r
      <3>4. QED
        BY Zenon, <2>4, <3>1, <3>3, OnTheWay DEF TryAgain
    <2>5. CASE Replaced(c)
      <3> DEFINE r == [me EXCEPT !.pc = "reach", !.goal = "again", !.got = "idle"]
      <3>1. client' = [client EXCEPT ![c] = r]
        BY Zenon, <2>5 DEF Replaced, TalkOK, TalkType
      <3>2. r \in Caller /\ r.pc = "reach" /\ r.got = "idle" /\ r.why = "none"
        BY ZenonT(60), <1>2 DEF Caller, Pc, Answer
      <3> HIDE DEF r
      <3>3. QED
        BY Zenon, <2>5, <3>1, <3>2, OnTheWay DEF Replaced
    <2>6. QED
      BY <2>1, <2>2, <2>3, <2>4, <2>5
  <1>6. QED
    BY Zenon, <1>1, <1>2, <1>5

\* ... which says nothing to any process.
LEMMA WaitingTalk ==
    ASSUME HostType, TalkOK, NEW c \in Client,
           Reach(c) \/ TakeStartLock(c) \/ AwaitOther(c) \/ TryAgain(c) \/ Replaced(c)
    PROVE  TalkOK'
  <1>1. UNCHANGED <<svc, carried>>
    BY DEF Reach, TakeStartLock, AwaitOther, TryAgain, Replaced
  <1>2. QED
    BY <1>1, WaitingIs, ClientTalkAlone

\* Under the start lock, a client finds a service or starts one.
LEMMA StartOnceTalk ==
    ASSUME HostType, TalkOK, NEW c \in Client, StartOnce(c)
    PROVE  TalkOK'
  <1> DEFINE me == client[c]
  <1>1. me.pc = "locked" /\ me.got # "asked" /\ UNCHANGED carried
    BY DEF StartOnce, Heard
  <1>2. me \in Caller /\ me.why = "none" /\ carried[c] = 0
    BY <1>1, HeardIs
  <1>3. CASE me.got = "hello"
    <2>1. client' = [client EXCEPT ![c] = Found(c, me)] /\ UNCHANGED svc
      BY <1>3 DEF StartOnce
    <2> HIDE DEF me
    <2>2. QED
      BY Zenon, <1>1, <1>2, <2>1, FoundIs, ClientTalkAlone DEF me
  <1>4. CASE me.got # "hello"
    <2>1. SpawnService(c)
      BY <1>4 DEF StartOnce
    <2>2. PICK i \in Service :
              /\ svc'[i].phase = "spawned" /\ svc'[i].inbox = {} /\ svc'[i].reply = None
              /\ \A j \in Service : j # i => svc'[j] = svc[j]
              /\ client' = [client EXCEPT ![c].pc = "spawned", ![c].spawned = i, ![c].got = "idle"]
      BY Zenon, <2>1, SpawnStep
    <2> DEFINE r == [me EXCEPT !.pc = "spawned", !.spawned = i, !.got = "idle"]
    <2>3. client' = [client EXCEPT ![c] = r]
      BY Zenon, <2>2 DEF TalkOK, TalkType
    <2>4. r \in Caller /\ r.pc = "spawned" /\ r.got = "idle" /\ r.why = "none"
      BY ZenonT(40), <1>2 DEF Caller, Pc, Answer
    <2> HIDE DEF r, me
    <2>5. Settled(r) /\ Counted(r, 0)
      BY <2>4, OnTheWay
    <2>6. \A j \in Service :
              /\ svc'[j].inbox \subseteq svc[j].inbox
              /\ svc'[j].reply \in {svc[j].reply, None}
              /\ svc'[j].phase \in {"dropped", "released"} =>
                     \A m \in svc'[j].inbox : m.kind = "answered"
      BY ZenonT(60), <2>2 DEF TalkOK, MessagesOK
    <2>7. QED
      BY Zenon, <1>1, <1>2, <2>3, <2>4, <2>5, <2>6, ClientTalk DEF me
  <1>5. QED
    BY <1>3, <1>4

\* A client that started a process waits for it, or goes on.
LEMMA AwaitStartIs ==
    ASSUME TalkOK, NEW c \in Client, AwaitStart(c)
    PROVE  \E r \in Caller :
              /\ client' = [client EXCEPT ![c] = r]
              /\ Settled(r) /\ Counted(r, 0)
              /\ \/ client[c].got = "hello" /\ r.pc \in {"send", "replace", "failed"}
                 \/ /\ client[c].got # "hello" /\ r.pc \in {"failed", "lost"}
                    /\ svc[client[c].spawned].phase \in {"lost", "gone", "crashed"}
                 \/ /\ client[c].got # "hello" /\ r.pc = "spawned"
                    /\ svc[client[c].spawned].phase \notin {"lost", "gone", "crashed"}
                    /\ r.spawned = client[c].spawned /\ r.got = "idle"
  <1> DEFINE me == client[c]
             phase == svc[me.spawned].phase
             ended == me.got # "hello" /\ phase \in {"lost", "gone", "crashed"}
             other == [me EXCEPT !.pc = "lost", !.got = "idle", !.spawned = None]
             again == [me EXCEPT !.got = "idle"]
  <1>1. me.pc = "spawned" /\ me \in Caller /\ me.why = "none"
    BY HeardIs DEF AwaitStart, Heard
  <1>2. client' = [client EXCEPT ![c] =
              IF me.got = "hello" THEN Found(c, me)
              ELSE IF ~ended THEN again
              ELSE IF phase = "crashed" THEN Failed(me, "died")
              ELSE IF me.tries = 2 THEN Failed(me, "held")
              ELSE other]
    BY DEF AwaitStart
  <1>3. /\ other \in Caller /\ other.pc = "lost" /\ other.got = "idle" /\ other.why = "none"
        /\ other.tries = me.tries
    BY ZenonT(40), <1>1 DEF Caller, Pc, Answer
  <1>4. /\ again \in Caller /\ again.pc = "spawned" /\ again.got = "idle" /\ again.why = "none"
        /\ again.spawned = me.spawned
    BY <1>1 DEF Caller, Answer
  <1>5. me.tries \in {1, 2}
    BY <1>1 DEF Caller
  <1> HIDE DEF me, phase, other, again
  <1>6. CASE me.got = "hello"
    BY ZenonT(40), <1>1, <1>2, <1>6, FoundIs DEF me
  <1>7. CASE ended
    <2>1. me.got # "hello" /\ phase \in {"lost", "gone", "crashed"}
      BY <1>7
    <2>0. ASSUME NEW why \in {"died", "held"}
          PROVE  /\ Failed(me, why) \in Caller /\ Failed(me, why).pc = "failed"
                 /\ Settled(Failed(me, why)) /\ Counted(Failed(me, why), 0)
      BY SMTT(40), <2>0, FailedIs
    <2>2. CASE phase = "crashed"
      <3> DEFINE r == Failed(me, "died")
      <3>1. client' = [client EXCEPT ![c] = r]
        BY <1>2, <2>1, <2>2
      <3>2. r \in Caller /\ r.pc = "failed" /\ Settled(r) /\ Counted(r, 0)
        BY <2>0
      <3> HIDE DEF r
      <3>3. QED
        BY Zenon, <2>1, <3>1, <3>2 DEF me, phase
    <2>3. CASE phase # "crashed" /\ me.tries = 2
      <3> DEFINE r == Failed(me, "held")
      <3>1. client' = [client EXCEPT ![c] = r]
        BY ZenonT(40), <1>2, <2>1, <2>3
      <3>2. r \in Caller /\ r.pc = "failed" /\ Settled(r) /\ Counted(r, 0)
        BY <2>0
      <3> HIDE DEF r
      <3>3. QED
        BY Zenon, <2>1, <3>1, <3>2 DEF me, phase
    <2>4. CASE phase # "crashed" /\ me.tries # 2
      <3>1. Settled(other) /\ Counted(other, 0)
        BY <1>3, <1>5, <2>4, OnTheWay
      <3>2. client' = [client EXCEPT ![c] = other]
        BY Zenon, <1>2, <2>1, <2>4
      <3>3. QED
        BY Zenon, <1>3, <2>1, <3>1, <3>2 DEF me, phase
    <2>5. QED
      BY Zenon, <2>2, <2>3, <2>4
  <1>8. CASE me.got # "hello" /\ ~ended
    <2>1. client' = [client EXCEPT ![c] = again]
      BY <1>2, <1>8
    <2>2. Settled(again) /\ Counted(again, 0)
      BY <1>4, OnTheWay
    <2>3. phase \notin {"lost", "gone", "crashed"}
      BY <1>8
    <2>4. QED
      BY Zenon, <1>4, <1>8, <2>1, <2>2, <2>3 DEF me, phase
  <1>9. QED
    BY <1>6, <1>7, <1>8

\* A client that has its answer, or not, is done, fails or begins anew.
LEMMA SentIs ==
    ASSUME TalkOK, NEW c \in Client, Sent(c)
    PROVE  \E r \in Caller : /\ client' = [client EXCEPT ![c] = r]
                             /\ Settled(r) /\ Counted(r, carried[c])
                             /\ r.pc \in {"done", "reach", "failed"}
  <1> DEFINE me == client[c]
             done == [Connecting EXCEPT !.pc = "done"]
             anew == [me EXCEPT !.pc = "reach", !.goal = "resend", !.got = "idle"]
  <1>1. /\ me.pc = "send" /\ me.got \notin {"idle", "asked"} /\ me \in Caller
        /\ Settled(me) /\ Counted(me, carried[c]) /\ carried[c] \in Nat
    BY ZenonT(60) DEF Sent, Heard, TalkOK, TalkType, ClientsOK
  <1>2. /\ me.got \in {"ok", "busy", "absent", "gone"} /\ me.why = "none" /\ carried[c] <= 1
        /\ me.got = "ok" => carried[c] = 1
        /\ me.got \in {"busy", "absent"} => carried[c] = 0
    BY <1>1 DEF Settled, Counted, Caller, Answer
  <1>3. client' = [client EXCEPT ![c] =
          CASE me.got = "ok" -> done
            [] me.got \in {"busy", "absent"} /\ me.goal # "resend" -> anew
            [] OTHER -> Failed(me, me.got)]
    BY DEF Sent
  <1>4. done \in Caller /\ done.pc = "done" /\ done.got = "idle" /\ done.why = "none"
    BY DEF Connecting, Caller, Pc, Answer, Version
  <1>5. anew \in Caller /\ anew.pc = "reach" /\ anew.got = "idle" /\ anew.why = "none"
    BY Zenon, <1>1, <1>2 DEF Caller, Pc, Answer
  <1> HIDE DEF me, done, anew
  <1>6. CASE me.got = "ok"
    <2>1. Settled(done) /\ Counted(done, 1)
      BY <1>4 DEF Settled, Counted
    <2>2. client' = [client EXCEPT ![c] = done]
      BY <1>3, <1>6
    <2>3. QED
      BY Zenon, <1>2, <1>4, <1>6, <2>1, <2>2
  <1>7. CASE me.got \in {"busy", "absent"} /\ me.goal # "resend"
    <2>1. Settled(anew) /\ Counted(anew, 0)
      BY <1>5, OnTheWay
    <2>2. client' = [client EXCEPT ![c] = anew]
      BY Zenon, <1>3, <1>7
    <2>3. QED
      BY Zenon, <1>2, <1>5, <1>7, <2>1, <2>2
  <1>8. CASE me.got # "ok" /\ ~(me.got \in {"busy", "absent"} /\ me.goal # "resend")
    <2>1. client' = [client EXCEPT ![c] = Failed(me, me.got)]
      BY Zenon, <1>3, <1>8
    <2> DEFINE r == Failed(me, me.got)
    <2>2. r \in Caller /\ r.pc = "failed" /\ Settled(r) /\ Counted(r, carried[c])
      <3>1. me.got \in {"busy", "absent", "gone"}
        BY <1>2, <1>8
      <3>2. QED
        BY <1>1, <1>2, <3>1, FailedIs
    <2> HIDE DEF r
    <2>3. QED
      BY Zenon, <2>1, <2>2 DEF r
  <1>9. QED
    BY <1>6, <1>7, <1>8

\* Every step of a client keeps what was said right.
LEMMA ClientTalkStep ==
    ASSUME HostOK, TalkOK, NEW c \in Client, ClientStep(c) \/ TryAgain(c) \/ Timeout(c)
    PROVE  TalkOK'
  <1>0. HostType
    BY DEF HostOK
  <1>1. CASE AwaitStart(c)
    <2>1. client[c].pc = "spawned" /\ client[c].got # "asked" /\ UNCHANGED <<svc, carried>>
      BY <1>1 DEF AwaitStart, Heard
    <2>2. carried[c] = 0
      BY ZenonT(60), <2>1, HeardIs
    <2>3. PICK r \in Caller : client' = [client EXCEPT ![c] = r] /\ Settled(r) /\ Counted(r, 0)
      BY <1>1, AwaitStartIs
    <2>4. QED
      BY Zenon, <1>0, <2>1, <2>2, <2>3, ClientTalkAlone
  <1>2. CASE Sent(c)
    <2>1. client[c].pc = "send" /\ client[c].got # "asked" /\ UNCHANGED <<svc, carried>>
      BY <1>2 DEF Sent, Heard
    <2>2. PICK r \in Caller : client' = [client EXCEPT ![c] = r] /\ Settled(r) /\ Counted(r, carried[c])
      BY <1>2, SentIs
    <2>3. QED
      BY Zenon, <1>0, <2>1, <2>2, ClientTalkAlone
  <1>3. CASE Timeout(c)
    <2>1. client' = [client EXCEPT ![c] = Failed(client[c], "late")] /\ UNCHANGED <<svc, carried>>
      BY <1>3 DEF Timeout
    <2>2. carried[c] \in Nat /\ carried[c] <= 1
      BY Zenon DEF TalkOK, TalkType, ClientsOK, Counted
    <2> DEFINE r == Failed(client[c], "late")
    <2>3. r \in Caller /\ r.why = "late" /\ Settled(r) /\ Counted(r, carried[c])
      BY <2>2, FailedIs
    <2>4. client' = [client EXCEPT ![c] = r]
      BY <2>1
    <2> HIDE DEF r
    <2>5. QED
      BY Zenon, <1>0, <2>1, <2>3, <2>4, ClientTalkAlone
  <1>4. QED
    BY SMTT(40), <1>0, <1>1, <1>2, <1>3, AskTalk, WaitingTalk, StartOnceTalk DEF ClientStep

\* Every step keeps what was said right.
LEMMA TalkStep == HostOK /\ TalkOK /\ [Next]_vars => TalkOK'
  <1> SUFFICES ASSUME HostOK, TalkOK, [Next]_vars PROVE TalkOK'
    OBVIOUS
  <1>1. CASE UNCHANGED vars
    BY <1>1 DEF vars, TalkOK, TalkType, ClientsOK, MessagesOK, MessageOK, ReplyOK, KindOf
  <1>2. QED
    BY <1>1, ServiceTalkStep, AskToStopTalk, ClientTalkStep DEF Next

\* What a client is told of its request is so.
THEOREM AnswersHold == Spec => []AnswersAreTrue
  <1>1. HostOK /\ TalkOK => AnswersAreTrue
    <2> SUFFICES ASSUME HostOK, TalkOK, NEW c \in Client
                 PROVE  /\ carried[c] <= 1
                        /\ client[c].pc = "done" => carried[c] = 1
                        /\ client[c].why \in {"busy", "absent", "newer", "other", "held"} =>
                               carried[c] = 0 /\ \A i \in Service : \A m \in svc[i].inbox : m.from # c
      BY Zenon DEF AnswersAreTrue
    <2>1. Settled(client[c]) /\ Counted(client[c], carried[c])
      BY DEF TalkOK, ClientsOK
    <2>2. client[c].why \in {"busy", "absent", "newer", "other", "held"} => NothingFrom(c)
      BY <2>1, NothingOut DEF HostOK, Settled
    <2>3. QED
      BY <2>1, <2>2 DEF Counted, NothingFrom
  <1>2. QED
    BY <1>1, HostInit, HostStep, TalkInit, TalkStep, PTL DEF Spec

-----------------------------------------------------------------------------
(* No command starts a service beside one that is up. *)

Starting(i) == svc[i].phase \in {"spawned", "locked", "bound"}
StartHolder(c) == client[c].pc \in {"locked", "spawned"}

UsedType ==
    /\ startLock \in Client \cup {None}
    /\ used \in [stops : Nat, crashes : Nat, timeouts : Nat]

\* The start lock is held by the client that starts a service, until it answers
\* or ended.
StartLockOK == \A c \in Client : StartHolder(c) <=> startLock = c

Undisturbed == used.timeouts = 0 /\ used.crashes = 0

\* At most one process is up; while one starts, the client that started it
\* waits, and has heard of no service; and a client that asked under the start
\* lock and heard of none knows that none is up.
StartsOK ==
    Undisturbed =>
      /\ \A i, j \in Service : Up(i) /\ Up(j) => i = j
      /\ \A i \in Service : Starting(i) =>
            \E c \in Client : client[c].pc = "spawned" /\ client[c].spawned = i /\ client[c].got # "hello"
      /\ \A c \in Client : Heard(c, "locked") /\ client[c].got # "hello" => \A i \in Service : ~Up(i)

StartOK == UsedType /\ StartLockOK /\ StartsOK

\* At first no process was started.
LEMMA StartInit == Init => StartOK
  <1> SUFFICES ASSUME Init PROVE StartOK
    OBVIOUS
  <1>1. UsedType
    BY DEF Init, UsedType
  <1>2. StartLockOK
    <2>1. \A c \in Client : client[c].pc = "reach"
      BY Zenon DEF Init, Connecting
    <2>2. \A c \in Client : startLock # c
      BY ZenonT(40), HostAssumption DEF Init
    <2>3. QED
      BY Zenon, <2>1, <2>2 DEF StartLockOK, StartHolder
  <1>3. StartsOK
    BY Zenon DEF Init, StartsOK, Up, Starting, Heard, Unborn, Connecting
  <1>4. QED
    BY <1>1, <1>2, <1>3 DEF StartOK

\* A step of a process that stays up or goes down, and that tells a client
\* with the start lock nothing while a service is up.
LEMMA StartKept ==
    ASSUME StartOK, UsedType', UNCHANGED startLock,
           Undisturbed' => Undisturbed,
           Undisturbed' => \A i \in Service : /\ Up(i)' => Up(i)
                                              /\ Starting(i)' => Starting(i),
           \A c \in Client : client'[c].pc = client[c].pc /\ client'[c].spawned = client[c].spawned,
           Undisturbed' => \A c \in Client : client'[c].got # client[c].got =>
               /\ client'[c].got = "hello" => \A i \in Service : ~Starting(i)
               /\ client[c].pc = "locked" /\ client'[c].got \notin {"hello", "idle", "asked"} =>
                     \A i \in Service : ~Up(i)
    PROVE  StartOK'
  <1>1. StartLockOK'
    BY SMTT(40) DEF StartOK, StartLockOK, StartHolder
  <1>2. ASSUME Undisturbed'
        PROVE  /\ \A i, j \in Service : Up(i)' /\ Up(j)' => i = j
               /\ \A i \in Service : Starting(i)' =>
                     \E c \in Client : /\ client'[c].pc = "spawned" /\ client'[c].spawned = i
                                       /\ client'[c].got # "hello"
               /\ \A c \in Client : Heard(c, "locked")' /\ client'[c].got # "hello" =>
                     \A i \in Service : ~Up(i)'
    <2>1. /\ \A i, j \in Service : Up(i) /\ Up(j) => i = j
          /\ \A i \in Service : Starting(i) =>
                \E c \in Client : client[c].pc = "spawned" /\ client[c].spawned = i /\ client[c].got # "hello"
          /\ \A c \in Client : Heard(c, "locked") /\ client[c].got # "hello" => \A i \in Service : ~Up(i)
      BY Zenon, <1>2 DEF StartOK, StartsOK
    <2>2. \A i \in Service : (Up(i)' => Up(i)) /\ (Starting(i)' => Starting(i))
      BY Zenon, <1>2
    <2>3. ASSUME NEW i \in Service, Starting(i)'
          PROVE  \E c \in Client : /\ client'[c].pc = "spawned" /\ client'[c].spawned = i
                                   /\ client'[c].got # "hello"
      <3>1. PICK c \in Client : client[c].pc = "spawned" /\ client[c].spawned = i /\ client[c].got # "hello"
        BY Zenon, <2>1, <2>2, <2>3
      <3>2. client'[c].got # "hello"
        BY Zenon, <1>2, <2>2, <2>3, <3>1
      <3>3. QED
        BY Zenon, <3>1, <3>2
    <2>4. ASSUME NEW c \in Client, Heard(c, "locked")', client'[c].got # "hello", NEW i \in Service
          PROVE  ~Up(i)'
      <3>1. client[c].pc = "locked" /\ client'[c].got \notin {"hello", "idle", "asked"}
        BY Zenon, <2>4 DEF Heard
      <3>2. CASE client'[c].got = client[c].got
        BY ZenonT(60), <2>1, <2>2, <2>4, <3>1, <3>2 DEF Heard
      <3>3. CASE client'[c].got # client[c].got
        BY SMTT(40), <1>2, <2>2, <2>4, <3>1, <3>3
      <3>4. QED
        BY Zenon, <3>2, <3>3
    <2>5. QED
      BY ZenonT(40), <2>1, <2>2, <2>3, <2>4
  <1>3. StartsOK'
    BY Zenon, <1>2 DEF StartsOK
  <1>4. QED
    BY Zenon, <1>1, <1>3 DEF StartOK

\* A client under the start lock that finds nobody there, or is dropped by a
\* service that exits, knows that none is up: one that serves would be found,
\* and one that starts is another holder's.
LEMMA NobodyUp ==
    ASSUME HostOK, StartOK, Undisturbed, NEW c \in Client, client[c].pc = "locked",
           \A i \in Service : svc[i].phase # "serving"
    PROVE  \A i \in Service : ~Up(i)
  <1> SUFFICES ASSUME NEW i \in Service, Up(i) PROVE FALSE
    OBVIOUS
  <1>1. Starting(i)
    BY DEF Up, Starting
  <1>2. PICK d \in Client : client[d].pc = "spawned"
    BY Zenon, <1>1 DEF StartOK, StartsOK
  <1>3. startLock = c /\ startLock = d
    BY <1>2 DEF StartOK, StartLockOK, StartHolder
  <1>4. QED
    BY <1>2, <1>3

\* A client outside the start lock goes on outside it.
LEMMA OutsideKept ==
    ASSUME StartOK, TalkOK, NEW c \in Client, NEW r \in Caller, client' = [client EXCEPT ![c] = r],
           UNCHANGED <<svc, used, startLock>>, ~StartHolder(c), r.pc \notin {"locked", "spawned"}
    PROVE  StartOK'
  <1>1. client'[c] = r /\ \A d \in Client : d # c => client'[d] = client[d]
    BY DEF TalkOK, TalkType
  <1>2. UsedType'
    BY DEF StartOK, UsedType
  <1>3. StartLockOK'
    BY Zenon, <1>1 DEF StartOK, StartLockOK, StartHolder
  <1>4. StartsOK'
    BY <1>1 DEF StartOK, StartsOK, StartHolder, Undisturbed, Up, Starting, Heard
  <1>5. QED
    BY <1>2, <1>3, <1>4 DEF StartOK

\* A client leaves the start lock, and no process is still starting for it.
LEMMA LeavesKept ==
    ASSUME StartOK, TalkOK, NEW c \in Client, NEW r \in Caller, client' = [client EXCEPT ![c] = r],
           Unlock(c), UNCHANGED svc, UsedType', r.pc \notin {"locked", "spawned"},
           Undisturbed' => Undisturbed,
           Undisturbed' /\ client[c].pc = "spawned" => \A i \in Service : ~Starting(i)
    PROVE  StartOK'
  <1>1. client'[c] = r /\ \A d \in Client : d # c => client'[d] = client[d]
    BY DEF TalkOK, TalkType
  <1>2. startLock' = IF startLock = c THEN None ELSE startLock
    BY DEF Unlock
  <1>3. StartLockOK'
    BY ZenonT(60), <1>1, <1>2, HostAssumption DEF StartOK, StartLockOK, StartHolder
  <1>4. StartsOK'
    BY SMTT(40), <1>1 DEF StartOK, StartsOK, Up, Starting, Heard
  <1>5. QED
    BY <1>3, <1>4 DEF StartOK

\* Process i alone moves, and stays up or goes down.
Moved(i) ==
    /\ \A j \in Service : j # i => svc'[j] = svc[j]
    /\ (Up(i)' => Up(i)) /\ (Starting(i)' => Starting(i))

\* No client with the start lock has its request among these while a service
\* serves.
Spared(requests) ==
    \A d \in requests : \A c \in Client :
        c = d.from /\ client[c].got = "asked" /\ client[c].pc = "locked" =>
            \A j \in Service : svc[j].phase # "serving"

\* A step of process i in which clients hear at most `answer`.
LEMMA ServiceKept ==
    ASSUME HostOK, TalkOK, StartOK, NEW i \in Service, NEW dropped, NEW answer \in Answer,
           client' = Answered(dropped, answer), answer # "hello", UNCHANGED startLock, UsedType',
           Undisturbed' => Undisturbed,
           Moved(i), Undisturbed' => Spared(dropped)
    PROVE  StartOK'
  <1>1. \A c \in Client :
          \/ client'[c] = client[c]
          \/ /\ client[c].got = "asked" /\ \E m \in dropped : m.from = c
             /\ client'[c].got = answer
             /\ client'[c].pc = client[c].pc /\ client'[c].spawned = client[c].spawned
    <2> SUFFICES ASSUME NEW c \in Client
                 PROVE  \/ client'[c] = client[c]
                        \/ /\ client[c].got = "asked" /\ \E m \in dropped : m.from = c
                           /\ client'[c].got = answer
                           /\ client'[c].pc = client[c].pc /\ client'[c].spawned = client[c].spawned
      OBVIOUS
    <2> DEFINE f == Answered(dropped, answer)
    <2>1. TalkType
      BY Zenon DEF TalkOK
    <2>2. \/ f[c] = client[c]
          \/ /\ client[c].got = "asked" /\ \E m \in dropped : m.from = c
             /\ f[c].got = answer
             /\ f[c].pc = client[c].pc /\ f[c].spawned = client[c].spawned
      BY <2>1, AnsweredIs
    <2>3. client' = f
      OBVIOUS
    <2> HIDE DEF f
    <2>4. QED
      BY Zenon, <2>2, <2>3
  <1>2. \A j \in Service : (Up(j)' => Up(j)) /\ (Starting(j)' => Starting(j))
    BY Zenon DEF Moved, Up, Starting
  <1>3. ASSUME Undisturbed', NEW c \in Client, client'[c].got # client[c].got, client[c].pc = "locked"
        PROVE  \A j \in Service : ~Up(j)
    <2>1. client[c].got = "asked" /\ \E m \in dropped : m.from = c
      BY Zenon, <1>1, <1>3
    <2>2. Spared(dropped)
      BY Zenon, <1>3
    <2>3. PICK m \in dropped : m.from = c
      BY Zenon, <2>1
    <2>4. \A j \in Service : svc[j].phase # "serving"
      BY ZenonT(40), <1>3, <2>1, <2>2, <2>3 DEF Spared
    <2>5. QED
      BY ZenonT(40), <1>3, <2>4, NobodyUp
  <1>4. \A c \in Client : client'[c].pc = client[c].pc /\ client'[c].spawned = client[c].spawned
    BY Zenon, <1>1
  <1>5. \A c \in Client : client'[c].got # client[c].got => client'[c].got # "hello"
    BY ZenonT(60), <1>1
  <1>6. QED
    BY ZenonT(40), <1>2, <1>3, <1>4, <1>5, StartKept

\* ... or nothing.
LEMMA SilentKept ==
    ASSUME StartOK, NEW i \in Service, UNCHANGED <<client, startLock>>, UsedType',
           Undisturbed' => Undisturbed,
           Moved(i)
    PROVE  StartOK'
  <1>1. \A j \in Service : (Up(j)' => Up(j)) /\ (Starting(j)' => Starting(j))
    BY Zenon DEF Moved, Up, Starting
  <1>2. QED
    BY SMTT(40), <1>1, StartKept

\* Another version leaves the rest of a client's state alone.
LEMMA VersionSet ==
    ASSUME NEW w \in Caller, NEW v
    PROVE  /\ [w EXCEPT !.version = v].pc = w.pc
           /\ [w EXCEPT !.version = v].spawned = w.spawned
           /\ [w EXCEPT !.version = v].got = w.got
  BY DEF Caller

\* A service that greets serves, so none is starting.
LEMMA GreetKept ==
    ASSUME HostOK, TalkOK, StartOK, NEW i \in Service, NEW m \in svc[i].inbox, m.kind = "hello",
           svc[i].phase = "serving",
           Becomes(i, "serving", svc[i].inbox \ {m}, svc[i].reply),
           client' = [Answered({m}, "hello") EXCEPT ![m.from].version = svc[i].version],
           UNCHANGED <<startLock, used>>
    PROVE  StartOK'
  <1> DEFINE f == Answered({m}, "hello")
             v == svc[i].version
  <1>1. TalkType /\ "hello" \in Answer
    BY DEF TalkOK, Answer
  <1>2. f \in [Client -> Caller]
    BY <1>1, AnsweredIs
  <1>3. \A c \in Client : \/ f[c] = client[c]
                          \/ f[c].pc = client[c].pc /\ f[c].spawned = client[c].spawned /\ f[c].got = "hello"
    BY <1>1, AnsweredIs
  <1>4. client' = [f EXCEPT ![m.from].version = v]
    OBVIOUS
  <1> HIDE DEF f, v
  <1>5. ASSUME NEW c \in Client
        PROVE  /\ client'[c].pc = f[c].pc /\ client'[c].spawned = f[c].spawned
               /\ client'[c].got = f[c].got
    <2>1. f[c] \in Caller
      BY <1>2
    <2>2. client'[c] = IF c = m.from THEN [f[c] EXCEPT !.version = v] ELSE f[c]
      BY Zenon, <1>2, <1>4
    <2> DEFINE r == [f[c] EXCEPT !.version = v]
    <2>3. r.pc = f[c].pc /\ r.spawned = f[c].spawned /\ r.got = f[c].got
      BY <2>1, VersionSet
    <2>4. client'[c] = f[c] \/ client'[c] = r
      BY <2>2
    <2> HIDE DEF r
    <2>5. QED
      BY Zenon, <2>3, <2>4
  <1>6. \A c \in Client : client'[c].pc = client[c].pc /\ client'[c].spawned = client[c].spawned
    BY Zenon, <1>3, <1>5
  <1>7. \A c \in Client : client'[c].got # client[c].got => client'[c].got = "hello"
    BY Zenon, <1>3, <1>5
  <1>8. \A j \in Service : (Up(j)' => Up(j)) /\ (Starting(j)' => Starting(j))
    BY DEF Up, Starting, Becomes
  <1>9. Undisturbed => \A j \in Service : ~Starting(j)
    BY DEF StartOK, StartsOK, Up, Starting
  <1>10. UsedType' /\ (Undisturbed' <=> Undisturbed)
    BY SMTT(40) DEF StartOK, UsedType, Undisturbed
  <1>11. QED
    BY Zenon, <1>6, <1>7, <1>8, <1>9, <1>10, StartKept

\* Every step of a process keeps starts apart.
LEMMA ServiceStartStep ==
    ASSUME HostOK, TalkOK, StartOK, NEW i \in Service, ServiceStep(i) \/ AskToStop(i) \/ Crash(i)
    PROVE  StartOK'
  <1>0. HostType /\ svc[i].phase \in Phase
    BY SMTT(40), InboxIs DEF HostOK
  <1>1. UNCHANGED startLock
    BY Zenon DEF ServiceStep, Acquire, Bind, Serve, Handle, Reply, StopAccepting, Close, DropEvents, Release,
           Leave, AskToStop, Crash
  <1>2. CASE Acquire(i)
    <2>1. UNCHANGED <<client, used>> /\ svc[i].phase = "spawned"
      BY Zenon, <1>2 DEF Acquire
    <2>2. UsedType' /\ (Undisturbed' <=> Undisturbed)
      BY SMTT(40), <1>1, <2>1 DEF StartOK, UsedType, Undisturbed
    <2>3. CASE lock = None
      <3>1. Becomes(i, "locked", svc[i].inbox, svc[i].reply)
        BY ZenonT(40), <1>0, <1>2, <2>3, PhaseStep DEF Acquire, Phase
      <3>2. QED
        <4>1. Moved(i)
          BY <2>1, <3>1 DEF Becomes, Up, Starting, Moved
        <4>2. QED
          BY ZenonT(60), <1>1, <2>1, <2>2, <4>1, SilentKept
    <2>4. CASE lock # None
      <3>1. Ends(i, "lost")
        BY ZenonT(40), <1>0, <1>2, <2>4, EndStep DEF Acquire, Phase
      <3>2. QED
        <4>1. Moved(i)
          BY <3>1 DEF Ends, Up, Starting, Moved
        <4>2. QED
          BY ZenonT(60), <1>1, <2>1, <2>2, <4>1, SilentKept
    <2>5. QED
      BY <2>3, <2>4
  <1>3. CASE Bind(i) \/ Serve(i) \/ StopAccepting(i) \/ Release(i)
    <2>1. UNCHANGED <<client, used>>
      BY <1>3 DEF Bind, Serve, StopAccepting, Release
    <2>2. UsedType' /\ (Undisturbed' <=> Undisturbed)
      BY <1>1, <2>1 DEF StartOK, UsedType, Undisturbed
    <2>3. \/ svc[i].phase = "locked" /\ Becomes(i, "bound", svc[i].inbox, svc[i].reply)
          \/ svc[i].phase = "bound" /\ Becomes(i, "serving", svc[i].inbox, svc[i].reply)
          \/ Becomes(i, "closing", svc[i].inbox, svc[i].reply)
          \/ Becomes(i, "released", svc[i].inbox, svc[i].reply)
      BY ZenonT(60), <1>0, <1>3, PhaseStep DEF Bind, Serve, StopAccepting, Release, Phase
    <2>4. Moved(i)
      BY <2>3 DEF Becomes, Up, Starting, Moved
    <2>5. QED
      BY Zenon, <1>1, <2>1, <2>2, <2>4, SilentKept
  <1>4. ASSUME NEW m \in svc[i].inbox, Handle(i, m) PROVE StartOK'
    <2>1. svc[i].phase = "serving" /\ UNCHANGED <<startLock, used>>
      BY ZenonT(60), <1>4 DEF Handle
    <2>2. UsedType' /\ (Undisturbed' <=> Undisturbed)
      BY <2>1 DEF StartOK, UsedType, Undisturbed
    <2>3. CASE /\ m.kind = "hello"
               /\ Becomes(i, "serving", svc[i].inbox \ {m}, svc[i].reply)
               /\ client' = [Answered({m}, "hello") EXCEPT ![m.from].version = svc[i].version]
      BY ZenonT(40), <2>1, <2>3, GreetKept
    <2>4. CASE /\ \E phase \in {"serving", "exiting"} : \E inbox, reply : Becomes(i, phase, inbox, reply)
               /\ UNCHANGED client
      <3>1. Moved(i)
        BY <2>1, <2>4 DEF Becomes, Up, Starting, Moved
      <3>2. QED
        BY ZenonT(60), <2>1, <2>2, <2>4, <3>1, SilentKept
    <2>5. QED
      BY Zenon, <1>0, <1>4, <2>3, <2>4, HandleStep
  <1>5. ASSUME NEW m \in svc[i].inbox, Reply(i, m) PROVE StartOK'
    <2>1. Becomes(i, svc[i].phase, svc[i].inbox \ {m}, svc[i].reply)
      BY <1>0, <1>5, ReplyStep
    <2>2. client' = Answered({m}, "ok") /\ UNCHANGED used /\ m.kind = "answered" /\ "ok" \in Answer
      BY SMTT(40), <1>5 DEF Reply, Answer
    <2>3. UsedType' /\ (Undisturbed' <=> Undisturbed)
      BY <1>1, <2>2 DEF StartOK, UsedType, Undisturbed
    <2>4. \A c \in Client : ~(c = m.from /\ client[c].got = "asked" /\ client[c].pc = "locked")
      BY ZenonT(60), <2>2 DEF TalkOK, MessagesOK, MessageOK, ClientsOK, Settled, KindOf
    <2>5. Moved(i)
      BY <2>1 DEF Becomes, Up, Starting, Moved
    <2>6. Spared({m})
      BY Zenon, <2>4 DEF Spared
    <2>7. QED
      BY Zenon, <1>1, <2>2, <2>3, <2>5, <2>6, ServiceKept
  <1>6. CASE Close(i)
    <2> DEFINE late == {m \in svc[i].inbox : m.backlog}
    <2>1. Becomes(i, "closed", {m \in svc[i].inbox : ~m.backlog}, svc[i].reply)
      BY <1>0, <1>6, CloseStep
    <2>2. client' = Answered(late, "gone") /\ UNCHANGED used /\ "gone" \in Answer
      BY Zenon, <1>6 DEF Close, Answer
    <2>3. UsedType' /\ (Undisturbed' <=> Undisturbed)
      BY <1>1, <2>2 DEF StartOK, UsedType, Undisturbed
    <2>4. \A j \in Service : svc[j].phase # "serving"
      BY Zenon, <1>6 DEF Close, HostOK, LockOK, Holding
    <2> HIDE DEF late
    <2>5. Moved(i)
      BY <2>1 DEF Becomes, Up, Starting, Moved
    <2>6. Spared(late)
      BY Zenon, <2>4 DEF Spared
    <2>7. QED
      BY ZenonT(60), <1>1, <2>2, <2>3, <2>5, <2>6, ServiceKept
  <1>7. CASE DropEvents(i)
    <2> DEFINE unread == {m \in svc[i].inbox : m.kind # "answered"}
    <2>1. Becomes(i, "dropped", {m \in svc[i].inbox : m.kind = "answered"}, svc[i].reply)
      BY <1>0, <1>7, DropStep
    <2>2. client' = Answered(unread, "busy") /\ UNCHANGED used /\ "busy" \in Answer
      BY Zenon, <1>7 DEF DropEvents, Answer
    <2>3. UsedType' /\ (Undisturbed' <=> Undisturbed)
      BY <1>1, <2>2 DEF StartOK, UsedType, Undisturbed
    <2>4. \A j \in Service : svc[j].phase # "serving"
      BY Zenon, <1>7 DEF DropEvents, HostOK, LockOK, Holding
    <2> HIDE DEF unread
    <2>5. Moved(i)
      BY <2>1 DEF Becomes, Up, Starting, Moved
    <2>6. Spared(unread)
      BY Zenon, <2>4 DEF Spared
    <2>7. QED
      BY ZenonT(60), <1>1, <2>2, <2>3, <2>5, <2>6, ServiceKept
  <1>8. CASE Leave(i)
    <2> DEFINE all == svc[i].inbox \cup {[from |-> svc[i].reply]}
    <2>1. Ends(i, "gone")
      BY Zenon, <1>0, <1>8, EndStep DEF Leave, Phase
    <2>2. client' = Answered(all, "ok") /\ UNCHANGED used /\ "ok" \in Answer
      BY Zenon, <1>8 DEF Leave, Answer
    <2>3. UsedType' /\ (Undisturbed' <=> Undisturbed)
      BY Zenon, <1>1, <2>2 DEF StartOK, UsedType, Undisturbed
    <2>4. \A m \in svc[i].inbox : m.kind = "answered"
      BY Zenon, <1>8 DEF Leave, TalkOK, MessagesOK
    <2>5. \A d \in all : d \in svc[i].inbox \/ d.from = svc[i].reply
      OBVIOUS
    <2> HIDE DEF all
    <2>6. \A d \in all : \A c \in Client : ~(c = d.from /\ client[c].got = "asked" /\ client[c].pc = "locked")
      <3> SUFFICES ASSUME NEW d \in all, NEW c \in Client, c = d.from, client[c].got = "asked",
                          client[c].pc = "locked"
                   PROVE  FALSE
        BY ZenonT(60)
      <3>1. client[c].why # "late"
        BY DEF TalkOK, ClientsOK, Settled
      <3>2. CASE d \in svc[i].inbox
        BY Zenon, <2>4, <3>1, <3>2 DEF TalkOK, MessagesOK, MessageOK, KindOf
      <3>3. CASE d.from = svc[i].reply
        BY ZenonT(60), <3>1, <3>3 DEF TalkOK, MessagesOK, ReplyOK
      <3>4. QED
        BY Zenon, <2>5, <3>2, <3>3
    <2>7. Moved(i)
      BY <2>1 DEF Ends, Up, Starting, Moved
    <2>8. Spared(all)
      BY Zenon, <2>6 DEF Spared
    <2>9. QED
      BY Zenon, <1>1, <2>2, <2>3, <2>7, <2>8, ServiceKept
  <1>9. CASE AskToStop(i)
    <2>1. UNCHANGED client /\ used' = [used EXCEPT !.stops = @ + 1]
      BY <1>9 DEF AskToStop
    <2>2. UsedType' /\ (Undisturbed' <=> Undisturbed)
      <3>1. used \in [stops : Nat, crashes : Nat, timeouts : Nat] /\ startLock \in Client \cup {None}
        BY Zenon, <1>1 DEF StartOK, UsedType
      <3>2. used.stops + 1 \in Nat
        BY <3>1
      <3>3. startLock' = startLock
        BY Zenon, <1>9 DEF AskToStop
      <3>4. /\ used' \in [stops : Nat, crashes : Nat, timeouts : Nat]
            /\ used'.timeouts = used.timeouts /\ used'.crashes = used.crashes
        BY Zenon, <2>1, <3>1, <3>2
      <3>5. QED
        BY Zenon, <3>1, <3>3, <3>4 DEF UsedType, Undisturbed
    <2>3. Becomes(i, svc[i].phase, svc[i].inbox \cup
                      {[from |-> None, kind |-> "stop", backlog |-> FALSE]}, svc[i].reply)
      BY ZenonT(60), <1>0, <1>9, AskToStopStep
    <2>4. Moved(i)
      BY <2>3 DEF Becomes, Up, Starting, Moved
    <2>5. QED
      BY Zenon, <1>1, <2>1, <2>2, <2>4, SilentKept
  <1>10. CASE Crash(i)
    <2> DEFINE all == svc[i].inbox \cup {[from |-> svc[i].reply]}
    <2>1. Ends(i, "crashed")
      BY Zenon, <1>0, <1>10, EndStep DEF Crash, Phase
    <2>2. client' = Answered(all, "gone") /\ "gone" \in Answer
      BY <1>10 DEF Crash, Answer
    <2>3. used' = [used EXCEPT !.crashes = @ + 1]
      BY <1>10 DEF Crash
    <2>4. UsedType' /\ ~Undisturbed'
      BY SMTT(40), <1>1, <2>3 DEF StartOK, UsedType, Undisturbed
    <2> HIDE DEF all
    <2>5. Moved(i)
      BY <2>1 DEF Ends, Up, Starting, Moved
    <2>6. QED
      BY Zenon, <1>1, <2>2, <2>4, <2>5, ServiceKept
  <1>11. QED
    BY ZenonT(60), <1>2, <1>3, <1>4, <1>5, <1>6, <1>7, <1>8, <1>9, <1>10 DEF ServiceStep

\* Asking tells a client nothing of a service that serves.
LEMMA AskKept == ASSUME HostOK, TalkOK, StartOK, NEW c \in Client, Ask(c) PROVE StartOK'
  <1>0. HostType /\ UNCHANGED <<startLock, used>>
    BY DEF HostOK, Ask
  <1>1. UsedType' /\ (Undisturbed' <=> Undisturbed)
    BY <1>0 DEF StartOK, UsedType, Undisturbed
  <1>2. client[c] \in Caller /\ client \in [Client -> Caller]
    BY DEF TalkOK, TalkType
  <1>3. ASSUME NEW g \in {"asked", "absent"}, client' = [client EXCEPT ![c].got = g]
        PROVE  /\ client'[c].pc = client[c].pc /\ client'[c].spawned = client[c].spawned
               /\ client'[c].got = g
               /\ \A d \in Client : d # c => client'[d] = client[d]
    BY <1>2, <1>3 DEF Caller
  <1>4. CASE SocketOf(c) # None /\ Listens(SocketOf(c))
    <2>1. client' = [client EXCEPT ![c].got = "asked"]
      BY <1>4 DEF Ask
    <2>2. \A j \in Service : svc'[j].phase = svc[j].phase
      BY Zenon, <1>0, <1>4, AskStep DEF Becomes
    <2>3. QED
      BY <1>0, <1>1, <1>3, <2>1, <2>2, StartKept DEF Up, Starting
  <1>5. CASE ~(SocketOf(c) # None /\ Listens(SocketOf(c)))
    <2>1. client' = [client EXCEPT ![c].got = "absent"] /\ UNCHANGED svc
      BY Zenon, <1>5 DEF Ask
    <2>2. \A j \in Service : svc[j].phase # "serving"
      <3> SUFFICES ASSUME NEW j \in Service, svc[j].phase = "serving" PROVE FALSE
        BY Zenon
      <3>1. /\ Listens(j) /\ svc[j].dir \in Dir /\ published = svc[j].dir
            /\ socket[svc[j].dir] = j
        BY Zenon DEF HostOK, SocketOK, Listens, Holding
      <3>2. published # None
        BY <3>1 DEF Dir, None
      <3>3. SocketOf(c) = j
        BY Zenon, <3>1, <3>2 DEF SocketOf
      <3>4. QED
        BY Zenon, <1>5, <3>1, <3>3, NoneIsNone
    <2>3. Undisturbed /\ client[c].pc = "locked" => \A j \in Service : ~Up(j)
      BY Zenon, <2>2, NobodyUp
    <2>4. QED
      BY <1>0, <1>1, <1>3, <2>1, <2>3, StartKept DEF Up, Starting
  <1>6. QED
    BY <1>4, <1>5

\* A client outside the start lock hears an answer and goes on, or takes it.
LEMMA WaitingKept ==
    ASSUME TalkOK, StartOK, NEW c \in Client,
           Reach(c) \/ TakeStartLock(c) \/ AwaitOther(c) \/ TryAgain(c) \/ Replaced(c)
    PROVE  StartOK'
  <1>1. UNCHANGED <<svc, used>>
    BY DEF Reach, TakeStartLock, AwaitOther, TryAgain, Replaced
  <1>2. ~StartHolder(c)
    BY WaitingIs DEF StartHolder
  <1>3. PICK r \in Caller :
           /\ client' = [client EXCEPT ![c] = r]
           /\ \/ r.pc \notin {"locked", "spawned"} /\ UNCHANGED startLock
              \/ r.pc = "locked" /\ r.got = "idle" /\ TakeStartLock(c)
    BY WaitingIs
  <1>4. CASE r.pc \notin {"locked", "spawned"} /\ UNCHANGED startLock
    BY Zenon, <1>1, <1>2, <1>3, <1>4, OutsideKept
  <1>5. CASE r.pc = "locked" /\ r.got = "idle" /\ TakeStartLock(c)
    <2>1. client'[c] = r /\ \A d \in Client : d # c => client'[d] = client[d]
      BY <1>3 DEF TalkOK, TalkType
    <2>2. startLock = None /\ startLock' = c
      BY <1>5 DEF TakeStartLock
    <2>3. UsedType'
      BY ZenonT(60), <1>1, <2>2 DEF StartOK, UsedType
    <2>4. StartLockOK'
      BY SMTT(40), <1>5, <2>1, <2>2, HostAssumption DEF StartOK, StartLockOK, StartHolder
    <2>5. StartsOK'
      <3>1. ASSUME NEW d \in Client, Heard(d, "locked")' PROVE Heard(d, "locked") /\ client'[d] = client[d]
        BY Zenon, <1>5, <2>1, <3>1 DEF Heard
      <3>2. ASSUME NEW d \in Client, client[d].pc = "spawned" PROVE client'[d] = client[d]
        BY <1>2, <2>1, <3>2 DEF StartHolder
      <3>3. UNCHANGED <<svc, Undisturbed>>
        BY Zenon, <1>1 DEF Undisturbed
      <3>4. ASSUME Undisturbed, NEW i \in Service, Starting(i)
            PROVE  \E d \in Client : /\ client'[d].pc = "spawned" /\ client'[d].spawned = i
                                     /\ client'[d].got # "hello"
        <4>1. PICK d \in Client : /\ client[d].pc = "spawned" /\ client[d].spawned = i
                                  /\ client[d].got # "hello"
          BY Zenon, <3>4 DEF StartOK, StartsOK
        <4>2. QED
          BY Zenon, <3>2, <4>1
      <3>5. ASSUME Undisturbed
            PROVE  /\ \A i, j \in Service : Up(i) /\ Up(j) => i = j
                   /\ \A d \in Client : Heard(d, "locked") /\ client[d].got # "hello" =>
                         \A i \in Service : ~Up(i)
        BY Zenon, <3>5 DEF StartOK, StartsOK
      <3>6. ASSUME Undisturbed'
            PROVE  /\ \A i, j \in Service : Up(i)' /\ Up(j)' => i = j
                   /\ \A d \in Client : Heard(d, "locked")' /\ client'[d].got # "hello" =>
                         \A i \in Service : ~Up(i)'
        <4>1. \A i \in Service : Up(i)' <=> Up(i)
          BY Zenon, <3>3 DEF Up
        <4>2. QED
          BY Zenon, <3>1, <3>3, <3>5, <3>6, <4>1
      <3>7. ASSUME Undisturbed', NEW i \in Service, Starting(i)'
            PROVE  \E d \in Client : /\ client'[d].pc = "spawned" /\ client'[d].spawned = i
                                     /\ client'[d].got # "hello"
        BY Zenon, <3>3, <3>4, <3>7 DEF Starting
      <3>8. QED
        BY Zenon, <3>6, <3>7 DEF StartsOK
    <2>6. QED
      BY Zenon, <2>3, <2>4, <2>5 DEF StartOK
  <1>6. QED
    BY <1>3, <1>4, <1>5

\* A client under the start lock takes the service that answers, or starts one
\* where none is up.
LEMMA StartOnceKept ==
    ASSUME HostOK, TalkOK, StartOK, NEW c \in Client, StartOnce(c)
    PROVE  StartOK'
  <1>1. Heard(c, "locked") /\ client[c].pc = "locked" /\ UNCHANGED used
    BY Zenon DEF StartOnce, Heard
  <1>2. client[c] \in Caller /\ client[c].why = "none"
    BY Zenon, <1>1, HeardIs
  <1>3. Undisturbed' <=> Undisturbed
    BY <1>1 DEF Undisturbed
  <1>4. startLock = c
    BY <1>1 DEF StartOK, StartLockOK, StartHolder
  <1>5. CASE client[c].got = "hello"
    <2> DEFINE r == Found(c, client[c])
    <2>1. r \in Caller /\ r.pc \notin {"locked", "spawned"}
      BY Zenon, <1>2, FoundIs
    <2>2. client' = [client EXCEPT ![c] = r] /\ Unlock(c) /\ UNCHANGED svc
      BY <1>5 DEF StartOnce
    <2> HIDE DEF r
    <2>3. UsedType'
      BY <1>1, <2>2 DEF StartOK, UsedType, Unlock
    <2>4. QED
      BY Zenon, <1>1, <1>3, <2>1, <2>2, <2>3, LeavesKept
  <1>6. CASE client[c].got # "hello"
    <2>1. SpawnService(c) /\ UNCHANGED startLock
      BY SMTT(40), <1>6 DEF StartOnce
    <2>2. PICK i \in Service :
              /\ svc'[i].phase = "spawned"
              /\ \A j \in Service : j # i => svc'[j] = svc[j]
              /\ client' = [client EXCEPT ![c].pc = "spawned", ![c].spawned = i, ![c].got = "idle"]
      BY Zenon, <2>1, SpawnStep DEF HostOK
    <2>3. /\ client'[c].pc = "spawned" /\ client'[c].spawned = i /\ client'[c].got = "idle"
          /\ \A d \in Client : d # c => client'[d] = client[d]
      BY Zenon, <1>2, <2>2 DEF TalkOK, TalkType, Caller
    <2>4. UsedType'
      BY Zenon, <1>1, <2>1 DEF StartOK, UsedType
    <2>5. StartLockOK'
      BY Zenon, <1>1, <2>1, <2>3 DEF StartOK, StartLockOK, StartHolder
    <2>6. ASSUME Undisturbed'
          PROVE  /\ \A j, k \in Service : Up(j)' /\ Up(k)' => j = k
                 /\ \A j \in Service : Starting(j)' =>
                       \E d \in Client : /\ client'[d].pc = "spawned" /\ client'[d].spawned = j
                                         /\ client'[d].got # "hello"
                 /\ \A d \in Client : Heard(d, "locked")' => FALSE
      <3>1. \A j \in Service : ~Up(j)
        BY <1>1, <1>3, <1>6, <2>6 DEF StartOK, StartsOK
      <3>2. \A j \in Service : Up(j)' => j = i
        BY Zenon, <2>2, <3>1 DEF Up
      <3>3. \A j \in Service : Starting(j)' => j = i
        BY Zenon, <3>2 DEF Up, Starting
      <3>4. \A d \in Client : d # c => client[d].pc # "locked"
        BY SMTT(40), <1>4 DEF StartOK, StartLockOK, StartHolder
      <3>5. \A d \in Client : client'[d].pc # "locked"
        BY Zenon, <2>3, <3>4
      <3>6. QED
        BY ZenonT(60), <2>3, <3>2, <3>3, <3>5 DEF Heard
    <2>7. StartsOK'
      BY ZenonT(60), <2>6 DEF StartsOK
    <2>8. QED
      BY Zenon, <2>4, <2>5, <2>7 DEF StartOK
  <1>7. QED
    BY Zenon, <1>5, <1>6

\* A client lets go of the start lock once its service answers or ended.
LEMMA AwaitStartKept ==
    ASSUME TalkOK, StartOK, NEW c \in Client, AwaitStart(c)
    PROVE  StartOK'
  <1>1. client[c].pc = "spawned" /\ UNCHANGED <<svc, used>>
    BY DEF AwaitStart, Heard
  <1>2. Undisturbed' <=> Undisturbed
    BY <1>1 DEF Undisturbed
  <1>3. \A d \in Client : client[d].pc = "spawned" => d = c
    BY ZenonT(60), <1>1 DEF StartOK, StartLockOK, StartHolder
  <1>4. Undisturbed => \A i \in Service : Starting(i) => client[c].spawned = i /\ client[c].got # "hello"
    BY <1>3 DEF StartOK, StartsOK
  <1>5. \/ client[c].got = "hello" /\ Unlock(c)
        \/ /\ client[c].got # "hello" /\ Unlock(c)
           /\ svc[client[c].spawned].phase \in {"lost", "gone", "crashed"}
        \/ /\ client[c].got # "hello" /\ UNCHANGED startLock
           /\ svc[client[c].spawned].phase \notin {"lost", "gone", "crashed"}
    BY ZenonT(60) DEF AwaitStart
  <1>6. PICK r \in Caller :
          /\ client' = [client EXCEPT ![c] = r]
          /\ \/ client[c].got = "hello" /\ r.pc \in {"send", "replace", "failed"}
             \/ /\ client[c].got # "hello" /\ r.pc \in {"failed", "lost"}
                /\ svc[client[c].spawned].phase \in {"lost", "gone", "crashed"}
             \/ /\ client[c].got # "hello" /\ r.pc = "spawned"
                /\ svc[client[c].spawned].phase \notin {"lost", "gone", "crashed"}
                /\ r.spawned = client[c].spawned /\ r.got = "idle"
    BY SMTT(40), AwaitStartIs
  <1>7. CASE Unlock(c) /\ (client[c].got = "hello" \/ svc[client[c].spawned].phase \in {"lost", "gone", "crashed"})
    <2>1. UsedType'
      BY Zenon, <1>1, <1>7 DEF StartOK, UsedType, Unlock
    <2>2. r.pc \notin {"locked", "spawned"}
      BY Zenon, <1>6, <1>7
    <2>3. Undisturbed => \A i \in Service : ~Starting(i)
      BY Zenon, <1>4, <1>7 DEF Starting
    <2>4. QED
      BY Zenon, <1>1, <1>2, <1>6, <1>7, <2>1, <2>2, <2>3, LeavesKept
  <1>8. CASE /\ client[c].got # "hello" /\ UNCHANGED startLock
             /\ svc[client[c].spawned].phase \notin {"lost", "gone", "crashed"}
    <2>1. client'[c] = r /\ \A d \in Client : d # c => client'[d] = client[d]
      BY Zenon, <1>6 DEF TalkOK, TalkType
    <2>2. r.pc = "spawned" /\ r.spawned = client[c].spawned /\ r.got = "idle"
      BY Zenon, <1>6, <1>8
    <2>3. UsedType'
      BY Zenon, <1>1, <1>8 DEF StartOK, UsedType
    <2>4. QED
      BY Zenon, <1>1, <1>2, <1>8, <2>1, <2>2, <2>3, StartKept DEF Up, Starting
  <1>9. QED
    BY <1>5, <1>7, <1>8

\* Every step of a client keeps starts apart.
LEMMA ClientStartStep ==
    ASSUME HostOK, TalkOK, StartOK, NEW c \in Client, ClientStep(c) \/ TryAgain(c) \/ Timeout(c)
    PROVE  StartOK'
  <1>1. CASE Ask(c)
    BY <1>1, AskKept
  <1>2. CASE Reach(c) \/ TakeStartLock(c) \/ AwaitOther(c) \/ TryAgain(c) \/ Replaced(c)
    BY <1>2, WaitingKept
  <1>3. CASE StartOnce(c)
    BY <1>3, StartOnceKept
  <1>4. CASE AwaitStart(c)
    BY <1>4, AwaitStartKept
  <1>5. CASE Sent(c)
    <2>1. PICK r \in Caller : client' = [client EXCEPT ![c] = r] /\ r.pc \in {"done", "reach", "failed"}
      BY <1>5, SentIs
    <2>2. UNCHANGED <<svc, used, startLock>> /\ ~StartHolder(c)
      BY <1>5 DEF Sent, Heard, StartHolder
    <2>3. QED
      BY Zenon, <2>1, <2>2, OutsideKept
  <1>6. CASE Timeout(c)
    <2> DEFINE r == Failed(client[c], "late")
    <2>1. r \in Caller /\ r.pc = "failed"
      BY Zenon DEF Failed, Connecting, Caller, Pc, Answer, Version
    <2>2. client' = [client EXCEPT ![c] = r] /\ Unlock(c) /\ UNCHANGED svc
      BY <1>6 DEF Timeout
    <2> HIDE DEF r
    <2>3. used' = [used EXCEPT !.timeouts = @ + 1]
      BY <1>6 DEF Timeout
    <2>4. UsedType' /\ ~Undisturbed'
      BY <2>2, <2>3 DEF StartOK, UsedType, Undisturbed, Unlock
    <2>5. QED
      BY Zenon, <2>1, <2>2, <2>4, LeavesKept
  <1>7. QED
    BY Zenon, <1>1, <1>2, <1>3, <1>4, <1>5, <1>6 DEF ClientStep

\* Every step keeps starts apart.
LEMMA StartStep == HostOK /\ TalkOK /\ StartOK /\ [Next]_vars => StartOK'
  <1> SUFFICES ASSUME HostOK, TalkOK, StartOK, [Next]_vars PROVE StartOK'
    BY Zenon
  <1>1. CASE UNCHANGED vars
    <2>1. UsedType'
      BY Zenon, <1>1 DEF vars, StartOK, UsedType
    <2>2. QED
      BY Zenon, <1>1, <2>1, StartKept DEF vars, Undisturbed, Up, Starting
  <1>2. CASE Next
    BY <1>2, ServiceStartStep, ClientStartStep DEF Next
  <1>3. QED
    BY <1>1, <1>2

\* At most one service supervises at a time, and while none crashed and no
\* client gave up waiting at most one process is up: commands that start a
\* service (start_once, under the start lock) never start one too many, however
\* many commands, stops and replacements are under way.
THEOREM OneOwnerHolds == Spec => []OneOwner
  <1>1. HostOK /\ StartOK => OneOwner
    <2> SUFFICES ASSUME HostOK, StartOK PROVE OneOwner
      OBVIOUS
    <2>1. \A i, j \in Service : Owns(i) /\ Owns(j) => i = j
      BY Zenon DEF HostOK, LockOK, Owns, Holding
    <2>2. Undisturbed => \A i, j \in Service : Up(i) /\ Up(j) => i = j
      BY DEF StartOK, StartsOK
    <2>3. QED
      BY <2>1, <2>2 DEF OneOwner, Undisturbed
  <1>2. QED
    BY <1>1, HostInit, HostStep, TalkInit, TalkStep, StartInit, StartStep, PTL DEF Spec

=============================================================================
