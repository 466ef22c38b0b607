---------------------------- MODULE ServiceHost ----------------------------
(***************************************************************************)
(* How commands reach the one service of a user: the socket a service       *)
(* binds and publishes, the lock that makes it the only one, the lock that  *)
(* lets one client at a time start it, the order in which a service lets go *)
(* of them as it exits, and a client that connects, replaces an older       *)
(* service and sends one request.                                           *)
(*                                                                         *)
(* A client asks with one connection each time, a greeting or a request.    *)
(* The message waits with the service until the loop answers it, or the     *)
(* service drops it.  A service runs the version, and binds in the runtime  *)
(* directory, of the client that started it.                                *)
(***************************************************************************)
EXTENDS Naturals

CONSTANTS Client,
          MaxServices,    \* service processes there are, or a client still waits on
          MaxStops,       \* stops asked by `muster service stop` or a signal
          MaxCrashes,     \* services killed
          MaxTimeouts,    \* answers or starts a client stopped waiting for
          Upgraded,       \* the clients that run the newer of two versions
          Elsewhere       \* the clients started with another runtime directory

Service == 1..MaxServices
None == 0
Version == {1, 2}
Dir == {1, 2}
VersionOf(c) == IF c \in Upgraded THEN 2 ELSE 1
DirOf(c) == IF c \in Elsewhere THEN 2 ELSE 1

ASSUME HostAssumption ==
    /\ MaxServices \in Nat \ {0} /\ MaxStops \in Nat
    /\ MaxCrashes \in Nat /\ MaxTimeouts \in Nat
    /\ Upgraded \subseteq Client /\ Elsewhere \subseteq Client /\ None \notin Client

VARIABLES svc,        \* each service process
          lock,       \* who holds service.lock
          startLock,  \* who holds service.start.lock
          socket,     \* whose socket each runtime directory holds, stale or not
          published,  \* the directory service.socket names
          client,     \* each client
          carried,    \* how often each client's request was carried out
          used        \* how much of each bound was spent

vars == <<svc, lock, startLock, socket, published, client, carried, used>>

Phase == {"unborn", "spawned", "locked", "bound", "serving", "exiting",
          "closing", "closed", "dropped", "released", "gone", "lost", "crashed"}
Kind == {"hello", "request", "replace", "stop", "answered"}
Message == [from : Client \cup {None}, kind : Kind, backlog : BOOLEAN]
Answer == {"idle", "asked", "hello", "ok", "absent", "busy", "gone"}
Pc == {"reach", "start", "locked", "spawned", "lost", "replace", "send", "done", "failed"}

TypeOK ==
    /\ svc \in [Service -> [phase : Phase, version : Version \cup {None},
                            dir : Dir \cup {None}, inbox : SUBSET Message,
                            reply : Client \cup {None}]]
    /\ lock \in Service \cup {None}
    /\ startLock \in Client \cup {None}
    /\ socket \in [Dir -> Service \cup {None}]
    /\ published \in Dir \cup {None}
    /\ client \in [Client -> [pc : Pc, goal : {"connect", "again", "resend"},
                              tries : {1, 2}, spawned : Service \cup {None},
                              got : Answer, version : Version \cup {None},
                              why : {"none", "busy", "absent", "gone", "newer", "other",
                                     "held", "died", "late"}]]
    /\ carried \in [Client -> Nat]
    /\ used \in [stops : 0..MaxStops, crashes : 0..MaxCrashes, timeouts : 0..MaxTimeouts]

Unborn == [phase |-> "unborn", version |-> None, dir |-> None, inbox |-> {}, reply |-> None]

Ended(phase) == [Unborn EXCEPT !.phase = phase]

Connecting == [pc |-> "reach", goal |-> "connect", tries |-> 1, spawned |-> None,
               got |-> "idle", version |-> None, why |-> "none"]

Init ==
    /\ svc = [i \in Service |-> Unborn]
    /\ lock = None
    /\ startLock = None
    /\ socket = [d \in Dir |-> None]
    /\ published = None
    /\ client = [c \in Client |-> Connecting]
    /\ carried = [c \in Client |-> 0]
    /\ used = [stops |-> 0, crashes |-> 0, timeouts |-> 0]

-----------------------------------------------------------------------------
(* Asking. *)

\* A service that accepts on its socket; one that closes leaves what it is
\* sent in the backlog.
Listens(i) == svc[i].phase \in {"bound", "serving", "exiting", "closing"}

\* Where a client's message goes: the published socket, else its own.
SocketOf(c) == socket[IF published # None THEN published ELSE DirOf(c)]

KindOf(c) == CASE client[c].pc = "replace" -> "replace"
               [] client[c].pc = "send" -> "request"
               [] OTHER -> "hello"

Ask(c) ==
    LET i == SocketOf(c)
    IN  /\ client[c].got = "idle"
        /\ client[c].pc \notin {"start", "done", "failed"}
        /\ IF i # None /\ Listens(i)
           THEN /\ svc' = [svc EXCEPT ![i].inbox = @ \cup
                              {[from |-> c, kind |-> KindOf(c),
                                backlog |-> svc[i].phase = "closing"]}]
                /\ client' = [client EXCEPT ![c].got = "asked"]
           ELSE /\ client' = [client EXCEPT ![c].got = "absent"]
                /\ UNCHANGED svc
        /\ UNCHANGED <<lock, startLock, socket, published, carried, used>>

\* The clients once the messages in `dropped` are answered `answer`.
Answered(dropped, answer) ==
    [c \in Client |-> IF client[c].got = "asked" /\ \E m \in dropped : m.from = c
                      THEN [client[c] EXCEPT !.got = answer] ELSE client[c]]

-----------------------------------------------------------------------------
(* The service process. *)

\* A process that finds another service's lock leaves, with success.
Acquire(i) ==
    /\ svc[i].phase = "spawned"
    /\ svc' = [svc EXCEPT ![i] = IF lock = None THEN [@ EXCEPT !.phase = "locked"]
                                                ELSE Ended("lost")]
    /\ lock' = IF lock = None THEN i ELSE lock
    /\ UNCHANGED <<startLock, socket, published, client, carried, used>>

\* It accepts from here on, though it answers nothing before it serves.
Bind(i) ==
    /\ svc[i].phase = "locked"
    /\ svc' = [svc EXCEPT ![i].phase = "bound"]
    /\ socket' = [socket EXCEPT ![svc[i].dir] = i]
    /\ UNCHANGED <<lock, startLock, published, client, carried, used>>

\* It publishes its socket, adopts what runs, and serves; until it takes its
\* first message it may still be adopting.
Serve(i) ==
    /\ svc[i].phase = "bound"
    /\ svc' = [svc EXCEPT ![i].phase = "serving"]
    /\ published' = svc[i].dir
    /\ UNCHANGED <<lock, startLock, socket, client, carried, used>>

\* The loop takes a message.  It answers a greeting at once, and a stop or a
\* replacement once it has exited; the answer to a request it carried out is
\* with the connection's thread.
Handle(i, m) ==
    /\ svc[i].phase = "serving"
    /\ m \in svc[i].inbox
    /\ LET rest == [svc[i] EXCEPT !.inbox = @ \ {m}]
       IN  \/ /\ m.kind \in {"stop", "replace"}
              /\ svc' = [svc EXCEPT ![i] = [rest EXCEPT !.phase = "exiting", !.reply = m.from]]
              /\ UNCHANGED <<client, carried>>
           \/ /\ m.kind = "hello"
              /\ svc' = [svc EXCEPT ![i] = rest]
              /\ client' = [Answered({m}, "hello") EXCEPT ![m.from].version = svc[i].version]
              /\ UNCHANGED carried
           \/ /\ m.kind = "request"
              /\ svc' = [svc EXCEPT ![i].inbox = (@ \ {m}) \cup {[m EXCEPT !.kind = "answered"]}]
              /\ carried' = [carried EXCEPT ![m.from] = @ + 1]
              /\ UNCHANGED client
    /\ UNCHANGED <<lock, startLock, socket, published, used>>

\* The connection's thread writes the answer.
Reply(i, m) ==
    /\ m \in svc[i].inbox
    /\ m.kind = "answered"
    /\ svc' = [svc EXCEPT ![i].inbox = @ \ {m}]
    /\ client' = Answered({m}, "ok")
    /\ UNCHANGED <<lock, startLock, socket, published, carried, used>>

\* A service that gives up its lock as it stops accepting.
StopAcceptingUnlocked(i) ==
    /\ svc[i].phase = "exiting"
    /\ svc' = [svc EXCEPT ![i].phase = "closing"]
    /\ lock' = None
    /\ UNCHANGED <<startLock, socket, published, client, carried, used>>

\* Stops accepting ...
StopAccepting(i) ==
    /\ svc[i].phase = "exiting"
    /\ svc' = [svc EXCEPT ![i].phase = "closing"]
    /\ UNCHANGED <<lock, startLock, socket, published, client, carried, used>>

\* ... removes whatever socket is at its path and no longer publishes it ...
Unlink(i) == socket' = [socket EXCEPT ![svc[i].dir] = None]

Withdraw(i) == published' = IF published = svc[i].dir THEN None ELSE published

Close(i) ==
    LET late == {m \in svc[i].inbox : m.backlog}
    IN  /\ svc[i].phase = "closing"
        /\ svc' = [svc EXCEPT ![i].phase = "closed", ![i].inbox = @ \ late]
        /\ client' = Answered(late, "gone")
        /\ Unlink(i)
        /\ Withdraw(i)
        /\ UNCHANGED <<lock, startLock, carried, used>>

\* ... waits for launches in flight, lets go of every process, and drops what
\* it was still asked ...
DropEvents(i) ==
    LET unread == {m \in svc[i].inbox : m.kind # "answered"}
    IN  /\ svc[i].phase = "closed"
        /\ svc' = [svc EXCEPT ![i].phase = "dropped", ![i].inbox = @ \ unread]
        /\ client' = Answered(unread, "busy")
        /\ UNCHANGED <<lock, startLock, socket, published, carried, used>>

\* ... gives up the lock ...
Release(i) ==
    /\ svc[i].phase = "dropped"
    /\ svc' = [svc EXCEPT ![i].phase = "released"]
    /\ lock' = None
    /\ UNCHANGED <<startLock, socket, published, client, carried, used>>

\* A service that removes its socket last.
LeaveUnlinking(i) ==
    /\ svc[i].phase = "released"
    /\ svc' = [svc EXCEPT ![i] = Ended("gone")]
    /\ client' = Answered(svc[i].inbox \cup {[from |-> svc[i].reply]}, "ok")
    /\ Unlink(i)
    /\ UNCHANGED <<lock, startLock, published, carried, used>>

\* ... answers the client that asked it to exit, and waits for the answers
\* still being written.
Leave(i) ==
    /\ svc[i].phase = "released"
    /\ svc' = [svc EXCEPT ![i] = Ended("gone")]
    /\ client' = Answered(svc[i].inbox \cup {[from |-> svc[i].reply]}, "ok")
    /\ UNCHANGED <<lock, startLock, socket, published, carried, used>>

\* `muster service stop`, or a first terminate or hangup signal.
AskToStop(i) ==
    /\ svc[i].phase \in {"bound", "serving"}
    /\ used.stops < MaxStops
    /\ used' = [used EXCEPT !.stops = @ + 1]
    /\ svc' = [svc EXCEPT ![i].inbox = @ \cup
                  {[from |-> None, kind |-> "stop", backlog |-> FALSE]}]
    /\ UNCHANGED <<lock, startLock, socket, published, client, carried>>

Crash(i) ==
    /\ svc[i].phase \notin {"unborn", "gone", "lost", "crashed"}
    /\ used.crashes < MaxCrashes
    /\ used' = [used EXCEPT !.crashes = @ + 1]
    /\ svc' = [svc EXCEPT ![i] = Ended("crashed")]
    /\ client' = Answered(svc[i].inbox \cup {[from |-> svc[i].reply]}, "gone")
    /\ lock' = IF lock = i THEN None ELSE lock
    /\ UNCHANGED <<startLock, socket, published, carried>>

-----------------------------------------------------------------------------
(* The client. *)

Failed(me, why) == [Connecting EXCEPT !.pc = "failed", !.why = why]

\* What a client does with a running service it found.
Found(c, me) ==
    LET to(pc) == [me EXCEPT !.pc = pc, !.got = "idle", !.spawned = None,
                              !.version = None, !.tries = 1]
    IN  IF me.goal = "resend" \/ me.version = VersionOf(c) THEN to("send")
        ELSE IF me.goal = "again" THEN Failed(me, "other")
        ELSE IF me.version > VersionOf(c) THEN Failed(me, "newer")
        ELSE to("replace")

Heard(c, pc) == client[c].pc = pc /\ client[c].got \notin {"idle", "asked"}

Unlock(c) == startLock' = IF startLock = c THEN None ELSE startLock

Reach(c) ==
    /\ Heard(c, "reach")
    /\ client' = [client EXCEPT ![c] =
          CASE @.got = "hello" -> Found(c, @)
            [] @.got = "absent" -> [@ EXCEPT !.pc = "start", !.got = "idle", !.tries = 1]
            [] OTHER -> [@ EXCEPT !.got = "idle"]]
    /\ UNCHANGED <<svc, lock, startLock, socket, published, carried, used>>

TakeStartLock(c) ==
    /\ client[c].pc = "start"
    /\ startLock = None
    /\ startLock' = c
    /\ client' = [client EXCEPT ![c].pc = "locked"]
    /\ UNCHANGED <<svc, lock, socket, published, carried, used>>

\* A process no client waits on and no stale socket names.
Free(i) ==
    /\ svc[i].phase \in {"unborn", "gone", "lost", "crashed"}
    /\ \A c \in Client : client[c].spawned # i
    /\ \A d \in Dir : socket[d] # i

SpawnService(c) ==
    \E i \in Service :
        /\ Free(i)
        /\ \A j \in Service : Free(j) => i <= j
        /\ svc' = [svc EXCEPT ![i] = [Unborn EXCEPT !.phase = "spawned",
                      !.version = VersionOf(c), !.dir = DirOf(c)]]
        /\ client' = [client EXCEPT ![c].pc = "spawned", ![c].spawned = i, ![c].got = "idle"]

\* A client that asks again only before it takes the start lock.
StartUnasked(c) ==
    /\ client[c].pc = "locked"
    /\ client[c].got = "idle"
    /\ SpawnService(c)
    /\ UNCHANGED <<lock, startLock, socket, published, carried, used>>

\* Under the start lock: one that answers by now is taken, else one is
\* started.
StartOnce(c) ==
    /\ Heard(c, "locked")
    /\ IF client[c].got = "hello"
       THEN /\ client' = [client EXCEPT ![c] = Found(c, @)]
            /\ Unlock(c)
            /\ UNCHANGED svc
       ELSE /\ SpawnService(c)
            /\ UNCHANGED startLock
    /\ UNCHANGED <<lock, socket, published, carried, used>>

\* A client that keeps the start lock while it waits for another service.
AwaitStartHolding(c) ==
    LET me == client[c]
        phase == svc[me.spawned].phase
        ended == me.got # "hello" /\ phase \in {"lost", "gone", "crashed"}
    IN  /\ Heard(c, "spawned")
        /\ client' = [client EXCEPT ![c] =
              IF me.got = "hello" THEN Found(c, me)
              ELSE IF ~ended THEN [me EXCEPT !.got = "idle"]
              ELSE IF phase = "crashed" THEN Failed(me, "died")
              ELSE IF me.tries = 2 THEN Failed(me, "held")
              ELSE [me EXCEPT !.pc = "lost", !.got = "idle", !.spawned = None]]
        /\ IF me.got = "hello" THEN Unlock(c) ELSE UNCHANGED startLock
        /\ UNCHANGED <<svc, lock, socket, published, carried, used>>

\* It waits until some service answers, or the one it started has ended:
\* with success, because another service holds the lock, or without.
AwaitStart(c) ==
    LET me == client[c]
        phase == svc[me.spawned].phase
        ended == me.got # "hello" /\ phase \in {"lost", "gone", "crashed"}
    IN  /\ Heard(c, "spawned")
        /\ client' = [client EXCEPT ![c] =
              IF me.got = "hello" THEN Found(c, me)
              ELSE IF ~ended THEN [me EXCEPT !.got = "idle"]
              ELSE IF phase = "crashed" THEN Failed(me, "died")
              ELSE IF me.tries = 2 THEN Failed(me, "held")
              ELSE [me EXCEPT !.pc = "lost", !.got = "idle", !.spawned = None]]
        /\ IF me.got = "hello" \/ ended THEN Unlock(c) ELSE UNCHANGED startLock
        /\ UNCHANGED <<svc, lock, socket, published, carried, used>>

\* It waits for the service that held the lock ...
AwaitOther(c) ==
    /\ Heard(c, "lost")
    /\ client' = [client EXCEPT ![c] =
          IF @.got = "hello" THEN Found(c, @) ELSE [@ EXCEPT !.got = "idle"]]
    /\ UNCHANGED <<svc, lock, startLock, socket, published, carried, used>>

\* ... and starts one more once it waited long enough.
TryAgain(c) ==
    /\ Heard(c, "lost")
    /\ client[c].got # "hello"
    /\ client' = [client EXCEPT ![c].pc = "start", ![c].tries = @ + 1, ![c].got = "idle"]
    /\ UNCHANGED <<svc, lock, startLock, socket, published, carried, used>>

\* The older service made way, or had gone already.
Replaced(c) ==
    /\ Heard(c, "replace")
    /\ client' = [client EXCEPT ![c].pc = "reach", ![c].goal = "again", ![c].got = "idle"]
    /\ UNCHANGED <<svc, lock, startLock, socket, published, carried, used>>

\* A client that sends again whatever went wrong.
SentAgain(c) ==
    /\ Heard(c, "send")
    /\ client' = [client EXCEPT ![c] =
          CASE @.got = "ok" -> [Connecting EXCEPT !.pc = "done"]
            [] @.goal # "resend" ->
                  [@ EXCEPT !.pc = "reach", !.goal = "resend", !.got = "idle"]
            [] OTHER -> Failed(@, @.got)]
    /\ UNCHANGED <<svc, lock, startLock, socket, published, carried, used>>

\* A request the service could not take is sent once more, to a service
\* started afresh; one it took and did not answer is not.
Sent(c) ==
    /\ Heard(c, "send")
    /\ client' = [client EXCEPT ![c] =
          CASE @.got = "ok" -> [Connecting EXCEPT !.pc = "done"]
            [] @.got \in {"busy", "absent"} /\ @.goal # "resend" ->
                  [@ EXCEPT !.pc = "reach", !.goal = "resend", !.got = "idle"]
            [] OTHER -> Failed(@, @.got)]
    /\ UNCHANGED <<svc, lock, startLock, socket, published, carried, used>>

\* An answer, a start, another client's start or an exit that takes longer
\* than the client waits.
Timeout(c) ==
    /\ \/ client[c].got = "asked"
       \/ client[c].pc = "spawned" /\ client[c].got # "hello"
       \/ client[c].pc = "start" /\ startLock # None
       \/ client[c].pc = "reach" /\ client[c].got \in {"busy", "gone"}
    /\ used.timeouts < MaxTimeouts
    /\ used' = [used EXCEPT !.timeouts = @ + 1]
    /\ client' = [client EXCEPT ![c] = Failed(@, "late")]
    /\ Unlock(c)
    /\ UNCHANGED <<svc, lock, socket, published, carried>>

-----------------------------------------------------------------------------
ServiceStep(i) ==
    \/ Acquire(i) \/ Bind(i) \/ Serve(i)
    \/ \E m \in svc[i].inbox : Handle(i, m) \/ Reply(i, m)
    \/ StopAccepting(i) \/ Close(i) \/ DropEvents(i) \/ Release(i) \/ Leave(i)

ClientStep(c) ==
    \/ Ask(c) \/ Reach(c) \/ TakeStartLock(c) \/ StartOnce(c) \/ AwaitStart(c)
    \/ AwaitOther(c) \/ Replaced(c) \/ Sent(c)

Next ==
    \/ \E i \in Service : ServiceStep(i) \/ AskToStop(i) \/ Crash(i)
    \/ \E c \in Client : ClientStep(c) \/ TryAgain(c) \/ Timeout(c)

\* Processes are scheduled, and the wait for another service ends.
Fairness ==
    /\ \A i \in Service : WF_vars(ServiceStep(i))
    /\ \A c \in Client : WF_vars(ClientStep(c)) /\ SF_vars(TryAgain(c))
    /\ \A c \in Client : SF_vars(TakeStartLock(c))

Spec == Init /\ [][Next]_vars /\ Fairness

-----------------------------------------------------------------------------
(* Properties. *)

\* Whether service i still owns what runs: its supervisors hold connections
\* to holders from the time it has the lock to the time it let go of them.
Owns(i) == svc[i].phase \in {"locked", "bound", "serving", "exiting", "closing", "closed"}

Up(i) == svc[i].phase \in {"spawned", "locked", "bound", "serving"}

\* Two services never supervise at a time (singleton.rs and the order of
\* ServiceRuntime::run): a successor that took the lock finds every process
\* let go of, so no child ever has two supervisors.  And a command never starts
\* a service beside one that is up (start_once asks again under the start
\* lock): while none crashed and no client gave up waiting, at most one process
\* is on its way to serve, or serving.
OneOwner ==
    /\ \A i, j \in Service : Owns(i) /\ Owns(j) => i = j
    /\ used.timeouts = 0 /\ used.crashes = 0 =>
          \A i, j \in Service : Up(i) /\ Up(j) => i = j

\* A service that serves is found: its socket is at its path, whatever an
\* exiting or crashed predecessor left or removed there, and service.socket
\* names it to clients of another runtime directory (Acceptor::close unlinks
\* the path without looking, and withdraw_socket only its own, both before
\* the lock is given up).
ServingIsReachable ==
    \A i \in Service : svc[i].phase = "serving" =>
        published = svc[i].dir /\ socket[svc[i].dir] = i

\* What a client is told is true (ServiceClient::send and the acceptor's
\* answer): a request that was answered was carried out exactly once,
\* however often it was sent, and one refused or never taken was not and
\* never will be.
AnswersAreTrue ==
    \A c \in Client :
        /\ carried[c] <= 1
        /\ client[c].pc = "done" => carried[c] = 1
        /\ client[c].why \in {"busy", "absent", "newer", "other", "held"} =>
               /\ carried[c] = 0
               /\ \A i \in Service : \A m \in svc[i].inbox : m.from # c

\* Every command ends, with its answer or an error: neither the start lock,
\* nor a service that exits, crashes or lost the race for the lock, keeps a
\* client waiting for ever.
CommandsEnd == \A c \in Client : <>(client[c].pc \in {"done", "failed"})

=============================================================================
