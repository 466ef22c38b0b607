------------------------------- MODULE Locks -------------------------------
(***************************************************************************)
(* The named locks agents take through `muster mcp`: the two tables of the  *)
(* store (locks and ended_sessions), one server process per connection, and *)
(* the lock_acquire calls in flight.  Every store operation is one          *)
(* BEGIN IMMEDIATE transaction, so it is one step.                          *)
(*                                                                         *)
(* A row is named by its project and name together, since only the cap      *)
(* looks across projects.  Moments are kept as the time left until them:    *)
(* `left >= 0` is `expires_at >= now`, and Gone is any moment passed.       *)
(***************************************************************************)
EXTENDS Integers, FiniteSets

CONSTANTS Session,        \* one connection each, unique for ever
          Name,           \* a lock of a project
          TtlMax,         \* LOCK_TTL_MAX
          WaitMax,        \* the longest wait_s of a call
          BusyTimeout,    \* how long one attempt waits for another writer
          LocksMax        \* LOCKS_PER_SESSION_MAX

NoSession == "none"

ASSUME LocksAssumption ==
    /\ NoSession \notin Session
    /\ TtlMax \in Nat \ {0}
    /\ WaitMax \in Nat
    /\ BusyTimeout \in 1..TtlMax
    /\ LocksMax \in Nat \ {0}

VARIABLES locks,    \* the locks table: who holds it and the time left
          ended,    \* the ended_sessions table: the time since each ended
          process,  \* each connection's server process
          call,     \* the lock_acquire each connection is answering
          told      \* what each connection's last answer about a lock still says

vars == <<locks, ended, process, call, told>>

Gone == -1
Lasting == 0..TtlMax

Free == [session |-> NoSession, left |-> Gone]
Row == [session : Session, left : {Gone} \cup Lasting]

NotEnded == -1
Ages == 0..(TtlMax + 1)

NoCall == [phase |-> "none"]
Call == [phase : {"attempt", "asleep"}, name : Name, ttl : 1..TtlMax,
         deadline : 0..WaitMax, since : 0..BusyTimeout]

TypeOK ==
    /\ locks \in [Name -> Row \cup {Free}]
    /\ ended \in [Session -> {NotEnded} \cup Ages]
    /\ process \in [Session -> {"serving", "leaving", "ended", "gone", "crashed"}]
    /\ call \in [Session -> Call \cup {NoCall}]
    /\ told \in [Session -> [Name -> {Gone} \cup Lasting]]

-----------------------------------------------------------------------------
(* The tables. *)

IsLive(row) == row.left >= 0

HasEnded(s) == ended[s] # NotEnded

HeldByAnother(s, n) == IsLive(locks[n]) /\ locks[n].session # s

OtherLiveLocks(s, n) == {m \in Name \ {n} : locks[m].session = s /\ IsLive(locks[m])}

\* What a row that is free, expired or the session's own becomes.
Acquired(s, n, ttl) == [locks EXCEPT ![n] = [session |-> s, left |-> ttl]]

\* The answer of one acquire, from the first check that settles it.
Answer(s, n) ==
    IF HasEnded(s) THEN "SessionEnded"
    ELSE IF HeldByAnother(s, n) THEN "HeldBy"
    ELSE IF Cardinality(OtherLiveLocks(s, n)) >= LocksMax THEN "TooManyLocks" ELSE "Acquired"

\* The locks left by the end of a session, and the sessions still remembered.
WithoutLocksOf(s) == [n \in Name |-> IF locks[n].session = s THEN Free ELSE locks[n]]


\* A variant that forgets every session that ended before this second.
PrunedAtOnce == [s \in Session |-> IF ended[s] > 0 THEN NotEnded ELSE ended[s]]

Pruned == [s \in Session |-> IF ended[s] > TtlMax THEN NotEnded ELSE ended[s]]

-----------------------------------------------------------------------------
Init ==
    /\ locks = [n \in Name |-> Free]
    /\ ended = [s \in Session |-> NotEnded]
    /\ process = [s \in Session |-> "serving"]
    /\ call = [s \in Session |-> NoCall]
    /\ told = [s \in Session |-> [n \in Name |-> Gone]]

\* lock_acquire with a ttl and a wait; the first attempt goes to a blocking thread.
BeginAcquire(s) ==
    /\ process[s] = "serving" /\ call[s] = NoCall
    /\ \E n \in Name, ttl \in 1..TtlMax, wait \in 0..WaitMax :
          call' = [call EXCEPT ![s] = [phase |-> "attempt", name |-> n, ttl |-> ttl,
                                       deadline |-> wait, since |-> 0]]
    /\ UNCHANGED <<locks, ended, process, told>>

\* What the call does with an attempt's answer while its connection lasts: a
\* lock someone else holds is tried again unless the wait would be over.  The
\* pause between attempts is shorter than the clock's second.
Waits(s, answer) == answer = "HeldBy" /\ process[s] = "serving" /\ call[s].deadline > 0

Asleep(s) == [call EXCEPT ![s].phase = "asleep"]
Done(s) == [call EXCEPT ![s] = NoCall]

\* A variant: the wait never ends.
AnsweredInTheEnd(s, answer) ==
    call' = IF answer = "HeldBy" /\ process[s] = "serving" THEN Asleep(s) ELSE Done(s)

Answered(s, answer) == call' = IF Waits(s, answer) THEN Asleep(s) ELSE Done(s)

\* One attempt's transaction.  A call whose connection ended meanwhile has
\* nobody to answer, but its attempt still runs until the process exits.
Attempt(s) ==
    /\ call[s].phase = "attempt"
    /\ LET n == call[s].name
           answer == Answer(s, n)
       IN /\ locks' = IF answer = "Acquired" THEN Acquired(s, n, call[s].ttl) ELSE locks
          /\ told' = IF answer = "Acquired" /\ process[s] = "serving"
                       THEN [told EXCEPT ![s][n] = call[s].ttl]
                       ELSE told
          /\ Answered(s, answer)
    /\ UNCHANGED <<ended, process>>

\* The attempt fails: another process kept the write lock past the timeout.
AttemptFails(s) ==
    /\ call[s].phase = "attempt"
    /\ call' = Done(s)
    /\ UNCHANGED <<locks, ended, process, told>>

Retry(s) ==
    /\ call[s].phase = "asleep"
    /\ call' = [call EXCEPT ![s].phase = "attempt", ![s].since = 0]
    /\ UNCHANGED <<locks, ended, process, told>>

\* A variant: the release does not look at the session.
ReleaseAnyones(s) ==
    /\ process[s] = "serving"
    /\ \E n \in Name :
          /\ locks' = [locks EXCEPT ![n] = Free]
          /\ told' = [told EXCEPT ![s][n] = Gone]
    /\ UNCHANGED <<ended, process, call>>

\* lock_release: the row goes when it is this session's, live or expired.
Release(s) ==
    /\ process[s] = "serving"
    /\ \E n \in Name :
          /\ locks' = IF locks[n].session = s THEN [locks EXCEPT ![n] = Free] ELSE locks
          /\ told' = [told EXCEPT ![s][n] = Gone]
    /\ UNCHANGED <<ended, process, call>>

\* `muster lock release`: the human clears the lock whoever holds it.
BreakLock ==
    /\ \E n \in Name :
          /\ locks' = [locks EXCEPT ![n] = Free]
          /\ told' = [s \in Session |-> [told[s] EXCEPT ![n] = Gone]]
    /\ UNCHANGED <<ended, process, call>>

\* The client disconnects: the calls in progress are dropped, an attempt left
\* on its blocking thread is not.
Disconnect(s) ==
    /\ process[s] = "serving"
    /\ process' = [process EXCEPT ![s] = "leaving"]
    /\ call' = [call EXCEPT ![s] = IF call[s].phase = "attempt" THEN call[s] ELSE NoCall]
    /\ told' = [told EXCEPT ![s] = [n \in Name |-> Gone]]
    /\ UNCHANGED <<locks, ended>>

\* release_session_locks: in one transaction, forget the sessions ended too
\* long ago, remember this one and remove its locks.
ReleaseAllOf(s) ==
    /\ process[s] = "leaving"
    /\ ended' = [Pruned EXCEPT ![s] = 0]
    /\ locks' = WithoutLocksOf(s)
    /\ process' = [process EXCEPT ![s] = "ended"]
    /\ UNCHANGED <<call, told>>

\* The release failed, so the process leaves its locks to lapse.
ReleaseAllFails(s) ==
    /\ process[s] = "leaving"
    /\ process' = [process EXCEPT ![s] = "crashed"]
    /\ call' = Done(s)
    /\ UNCHANGED <<locks, ended, told>>

\* The runtime is shut down in the background and the process exits.
Exit(s) ==
    /\ process[s] = "ended"
    /\ process' = [process EXCEPT ![s] = "gone"]
    /\ call' = Done(s)
    /\ UNCHANGED <<locks, ended, told>>

Crash(s) ==
    /\ process[s] \in {"serving", "leaving"}
    /\ process' = [process EXCEPT ![s] = "crashed"]
    /\ call' = Done(s)
    /\ told' = [told EXCEPT ![s] = [n \in Name |-> Gone]]
    /\ UNCHANGED <<locks, ended>>

\* A second passes.  An attempt never outlasts the busy timeout: it either
\* gets the write lock or fails.
Less(t) == IF t > 0 THEN t - 1 ELSE t
Lapsed(t) == IF t >= 0 THEN t - 1 ELSE Gone

Tick ==
    /\ \A s \in Session : call[s].phase = "attempt" => call[s].since < BusyTimeout
    /\ locks' = [n \in Name |-> [locks[n] EXCEPT !.left = Lapsed(@)]]
    /\ ended' = [s \in Session |-> IF ended[s] \in 0..TtlMax THEN ended[s] + 1 ELSE ended[s]]
    /\ call' = [s \in Session |->
                  CASE call[s].phase = "attempt" -> [call[s] EXCEPT !.deadline = Less(@), !.since = @ + 1]
                    [] call[s].phase = "asleep" -> [call[s] EXCEPT !.deadline = Less(@)]
                    [] OTHER -> NoCall]
    /\ told' = [s \in Session |-> [n \in Name |-> Lapsed(told[s][n])]]
    /\ UNCHANGED process

Next ==
    \/ \E s \in Session :
          \/ BeginAcquire(s)
          \/ Attempt(s)
          \/ AttemptFails(s)
          \/ Retry(s)
          \/ Release(s)
          \/ Disconnect(s)
          \/ ReleaseAllOf(s)
          \/ ReleaseAllFails(s)
          \/ Exit(s)
          \/ Crash(s)
    \/ BreakLock
    \/ Tick

\* Time passes, a sleeping call wakes, and an attempt is served or times out.
Fairness ==
    /\ WF_vars(Tick)
    /\ \A s \in Session : WF_vars(Retry(s)) /\ WF_vars(Attempt(s) \/ AttemptFails(s))

Spec == Init /\ [][Next]_vars /\ Fairness

-----------------------------------------------------------------------------
(* Properties. *)

\* What a connection was told it holds, it holds: until the time it was given
\* runs out, it releases the lock, its connection ends or the human breaks it,
\* the row is its own and lasts at least as long.  So no two connections hold
\* one lock at once (acquire's upsert and release's session check).  And no lock
\* of a session outlives its end: an acquire still running when its connection
\* closed commits nothing, for as long as its process can last, although the
\* record of the ended session is pruned (release_all_of).
HeldAsTold ==
    \A s \in Session, n \in Name :
        /\ told[s][n] >= 0 => locks[n].session = s /\ locks[n].left = told[s][n]
        /\ process[s] \in {"ended", "gone"} => locks[n].session # s

\* A call that waits for a lock someone else keeps renewing still answers,
\* once its wait is over (the deadline of MusterMcp::acquire).
AcquireAnswers == \A s \in Session : call[s] # NoCall ~> call[s] = NoCall
=============================================================================
