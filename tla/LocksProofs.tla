----------------------------- MODULE LocksProofs -----------------------------
(***************************************************************************)
(* What a connection is told of a lock is so, for any number of            *)
(* connections and locks and any time limits.                              *)
(***************************************************************************)
EXTENDS Locks, TLAPS

\* What a connection was told of its locks, and that it can still rely on it.
ToldOK ==
    \A s \in Session, n \in Name :
        told[s][n] >= 0 => /\ process[s] = "serving"
                           /\ locks[n].session = s /\ locks[n].left = told[s][n]

\* A call sleeps only while its connection lasts; an attempt may outlast it,
\* but not the process.
CallsOK ==
    \A s \in Session :
        /\ call[s].phase = "asleep" => process[s] = "serving"
        /\ call[s].phase = "attempt" => process[s] \in {"serving", "leaving", "ended"}

\* While an attempt of an ended session can still run, the session's end is
\* remembered: it is more recent than the attempt, and so too recent to prune.
RememberedOK ==
    \A s \in Session :
        process[s] = "ended" /\ call[s].phase = "attempt" => ended[s] \in 0..call[s].since

\* An ended session has no lock.
ReleasedOK ==
    \A s \in Session, n \in Name : process[s] \in {"ended", "gone"} => locks[n].session # s

IInv == TypeOK /\ ToldOK /\ CallsOK /\ RememberedOK /\ ReleasedOK

-----------------------------------------------------------------------------
(* What is read off the types. *)

\* A call is none, or has the fields of one.
LEMMA CallIs ==
    ASSUME TypeOK, NEW s \in Session
    PROVE  /\ call[s] = NoCall \/ call[s] \in Call
           /\ call[s] \in Call <=> call[s].phase # "none"
           /\ call[s].phase \in {"none", "attempt", "asleep"}
  BY DEF TypeOK, NoCall, Call

\* A row is free, or a session's.
LEMMA RowIs ==
    ASSUME TypeOK, NEW n \in Name
    PROVE  /\ locks[n] \in [session : Session \cup {NoSession}, left : {Gone} \cup Lasting]
           /\ locks[n].left \in Int
  BY LocksAssumption DEF TypeOK, Row, Free, Lasting, Gone

\* At first no lock is held and no call is made.
LEMMA InitOK == Init => IInv
  <1> SUFFICES ASSUME Init PROVE IInv
    OBVIOUS
  <1>1. TypeOK
    BY DEF Init, TypeOK, Gone, NotEnded
  <1>2. ToldOK /\ CallsOK /\ RememberedOK /\ ReleasedOK
    BY DEF Init, ToldOK, CallsOK, RememberedOK, ReleasedOK, NoCall, Gone
  <1>3. QED
    BY <1>1, <1>2 DEF IInv

\* A call begins on a connection that is served (lock_acquire).
LEMMA BeginAcquireOK ==
    ASSUME IInv, NEW t \in Session, BeginAcquire(t)
    PROVE  IInv'
  <1>1. PICK n \in Name, ttl \in 1..TtlMax, wait \in 0..WaitMax :
          call' = [call EXCEPT ![t] = [phase |-> "attempt", name |-> n, ttl |-> ttl,
                                       deadline |-> wait, since |-> 0]]
    BY Zenon DEF BeginAcquire
  <1>2. UNCHANGED <<locks, ended, process, told>> /\ process[t] = "serving"
    BY DEF BeginAcquire
  <1>3. [phase |-> "attempt", name |-> n, ttl |-> ttl, deadline |-> wait, since |-> 0] \in Call
    BY LocksAssumption DEF Call
  <1>4. TypeOK'
    BY <1>1, <1>2, <1>3 DEF IInv, TypeOK
  <1>5. ToldOK' /\ ReleasedOK'
    BY <1>2 DEF IInv, ToldOK, ReleasedOK
  <1>6. CallsOK' /\ RememberedOK'
    BY <1>1, <1>2 DEF IInv, TypeOK, CallsOK, RememberedOK
  <1>7. QED
    BY <1>4, <1>5, <1>6 DEF IInv

\* A call that is over or goes back to sleep, or an attempt that goes on, says
\* nothing new about any lock.
LEMMA CallKeeps ==
    ASSUME IInv, NEW t \in Session, NEW c \in Call \cup {NoCall},
           call' = [call EXCEPT ![t] = c], UNCHANGED <<ended, process>>,
           c.phase = "asleep" => process[t] = "serving",
           c.phase = "attempt" => process[t] = "serving"
    PROVE  CallsOK' /\ RememberedOK' /\ call' \in [Session -> Call \cup {NoCall}]
  BY DEF IInv, TypeOK, CallsOK, RememberedOK

\* One attempt: a session that has ended takes nothing, and a lock that is live
\* for another stays that one's (acquire).
LEMMA AttemptOK ==
    ASSUME IInv, NEW t \in Session, Attempt(t)
    PROVE  IInv'
  <1> DEFINE n == call[t].name
             ttl == call[t].ttl
             answer == Answer(t, n)
  <1>1. call[t] \in Call /\ n \in Name /\ ttl \in 1..TtlMax
    BY CallIs DEF IInv, Attempt, Call
  <1>2. /\ call[t].phase = "attempt"
        /\ UNCHANGED <<ended, process>>
        /\ locks' = IF answer = "Acquired" THEN Acquired(t, n, ttl) ELSE locks
        /\ told' = IF answer = "Acquired" /\ process[t] = "serving"
                     THEN [told EXCEPT ![t][n] = ttl] ELSE told
        /\ call' = IF Waits(t, answer) THEN Asleep(t) ELSE Done(t)
    BY DEF Attempt, Answered
  <1>3. answer = "Acquired" => ended[t] = NotEnded /\ ~HeldByAnother(t, n)
    BY DEF Answer, HasEnded
  <1>4. process[t] \in {"serving", "leaving", "ended"}
    BY <1>2 DEF IInv, CallsOK
  <1>5. answer = "Acquired" => process[t] # "ended"
    BY <1>1, <1>2, <1>3 DEF IInv, RememberedOK, NotEnded, Call
  <1> HIDE DEF answer
  <1>6. CallsOK' /\ RememberedOK' /\ call' \in [Session -> Call \cup {NoCall}]
    <2>1. CASE Waits(t, answer)
      <3> DEFINE c == [call[t] EXCEPT !.phase = "asleep"]
      <3>1. c \in Call /\ c.phase = "asleep"
        BY <1>1 DEF Call
      <3>2. call' = [call EXCEPT ![t] = c]
        BY <1>2, <2>1 DEF Asleep, IInv, TypeOK
      <3> HIDE DEF c
      <3>3. QED
        BY <1>2, <2>1, <3>1, <3>2, CallKeeps DEF Waits
    <2>2. CASE ~Waits(t, answer)
      <3>1. call' = [call EXCEPT ![t] = NoCall]
        BY <1>2, <2>2 DEF Done
      <3>2. QED
        BY Zenon, <1>2, <3>1, CallKeeps DEF NoCall
    <2>3. QED
      BY <2>1, <2>2
  <1> HIDE DEF n, ttl
  <1>7. CASE answer = "Acquired"
    <2>1. locks' = [locks EXCEPT ![n] = [session |-> t, left |-> ttl]]
      BY <1>2, <1>7 DEF Acquired
    <2>2. [session |-> t, left |-> ttl] \in Row
      BY <1>1, LocksAssumption DEF Row, Lasting
    <2>3. locks' \in [Name -> Row \cup {Free}]
      BY <1>1, <2>1, <2>2 DEF IInv, TypeOK
    <2>4. told' \in [Session -> [Name -> {Gone} \cup Lasting]]
      <3>1. told[t] \in [Name -> {Gone} \cup Lasting] /\ ttl \in {Gone} \cup Lasting
        BY <1>1, LocksAssumption DEF IInv, TypeOK, Lasting
      <3>2. QED
        BY <1>1, <1>2, <3>1 DEF IInv, TypeOK
    <2>5. TypeOK'
      BY <1>2, <1>6, <2>3, <2>4 DEF IInv, TypeOK
    <2>6. ReleasedOK'
      <3> SUFFICES ASSUME NEW s \in Session, NEW m \in Name, process[s] \in {"ended", "gone"}
                   PROVE  locks'[m].session # s
        BY Zenon, <1>2 DEF ReleasedOK
      <3>1. locks[m].session # s /\ locks \in [Name -> Row \cup {Free}]
        BY Zenon DEF IInv, ReleasedOK, TypeOK
      <3>2. s # t
        BY Zenon, <1>4, <1>5, <1>7
      <3>3. CASE m = n
        BY Zenon, <1>1, <2>1, <3>1, <3>2, <3>3
      <3>4. CASE m # n
        BY Zenon, <2>1, <3>1, <3>4
      <3>5. QED
        BY Zenon, <3>3, <3>4
    <2>7. ToldOK'
      <3> SUFFICES ASSUME NEW s \in Session, NEW m \in Name, told'[s][m] >= 0
                   PROVE  /\ process'[s] = "serving"
                          /\ locks'[m].session = s /\ locks'[m].left = told'[s][m]
        BY DEF ToldOK
      <3>1. CASE m # n
        BY <1>1, <1>2, <2>1, <3>1 DEF IInv, TypeOK, ToldOK
      <3>2. CASE m = n /\ s = t
        <4>1. CASE process[t] = "serving"
          BY <1>1, <1>2, <1>7, <2>1, <3>2, <4>1 DEF IInv, TypeOK
        <4>2. CASE process[t] # "serving"
          BY <1>2, <1>7, <3>2, <4>2 DEF IInv, ToldOK
        <4>3. QED
          BY <4>1, <4>2
      <3>3. CASE m = n /\ s # t
        <4>1. told'[s][n] = told[s][n]
          BY <1>1, <1>2, <3>3 DEF IInv, TypeOK
        <4>2. locks[n].session = s /\ locks[n].left >= 0
          BY <3>3, <4>1 DEF IInv, ToldOK
        <4>3. QED
          BY <1>3, <1>7, <3>3, <4>2 DEF HeldByAnother, IsLive
      <3>4. QED
        BY <3>1, <3>2, <3>3
    <2>8. QED
      BY <1>6, <2>5, <2>6, <2>7 DEF IInv
  <1>8. CASE answer # "Acquired"
    <2>1. UNCHANGED <<locks, told>>
      BY <1>2, <1>8
    <2>2. TypeOK'
      BY Zenon, <1>2, <1>6, <2>1 DEF IInv, TypeOK
    <2>3. ToldOK' /\ ReleasedOK'
      BY <1>2, <2>1 DEF IInv, ToldOK, ReleasedOK
    <2>4. QED
      BY <1>6, <2>2, <2>3 DEF IInv
  <1>9. QED
    BY <1>7, <1>8

\* An attempt that fails changes no table.
LEMMA AttemptFailsOK ==
    ASSUME IInv, NEW t \in Session, AttemptFails(t)
    PROVE  IInv'
  <1>1. call' = [call EXCEPT ![t] = NoCall] /\ UNCHANGED <<locks, ended, process, told>>
    BY DEF AttemptFails, Done
  <1>2. CallsOK' /\ RememberedOK' /\ call' \in [Session -> Call \cup {NoCall}]
    BY Zenon, <1>1, CallKeeps DEF NoCall
  <1>3. QED
    BY <1>1, <1>2 DEF IInv, TypeOK, ToldOK, ReleasedOK

\* A sleeping call wakes for its next attempt.
LEMMA RetryOK ==
    ASSUME IInv, NEW t \in Session, Retry(t)
    PROVE  IInv'
  <1> DEFINE c == [call[t] EXCEPT !.phase = "attempt", !.since = 0]
  <1>1. call[t] \in Call /\ process[t] = "serving"
    BY CallIs DEF IInv, Retry, CallsOK
  <1>2. c \in Call
    <2>1. 0 \in 0..BusyTimeout
      BY LocksAssumption
    <2>2. QED
      BY Zenon, <1>1, <2>1 DEF Call
  <1>3. call' = [call EXCEPT ![t] = c] /\ UNCHANGED <<locks, ended, process, told>>
    BY Zenon, <1>1 DEF Retry, IInv, TypeOK
  <1> HIDE DEF c
  <1>4. CallsOK' /\ RememberedOK' /\ call' \in [Session -> Call \cup {NoCall}]
    BY Zenon, <1>1, <1>2, <1>3, CallKeeps
  <1>5. QED
    BY <1>3, <1>4 DEF IInv, TypeOK, ToldOK, ReleasedOK

\* A release takes the row only from the session it is asked for (release).
LEMMA ReleaseOK ==
    ASSUME IInv, NEW t \in Session, Release(t)
    PROVE  IInv'
  <1>1. PICK n \in Name :
          /\ locks' = IF locks[n].session = t THEN [locks EXCEPT ![n] = Free] ELSE locks
          /\ told' = [told EXCEPT ![t][n] = Gone]
    BY Zenon DEF Release
  <1>2. UNCHANGED <<ended, process, call>>
    BY DEF Release
  <1>3. TypeOK'
    <2>1. told[t] \in [Name -> {Gone} \cup Lasting]
      BY DEF IInv, TypeOK
    <2>2. QED
      BY <1>1, <1>2, <2>1 DEF IInv, TypeOK
  <1>4. ToldOK'
    BY <1>1, <1>2 DEF IInv, TypeOK, ToldOK, Gone
  <1>5. ReleasedOK'
    BY <1>1, <1>2, LocksAssumption DEF IInv, TypeOK, ReleasedOK, Free
  <1>6. QED
    BY <1>2, <1>3, <1>4, <1>5 DEF IInv, CallsOK, RememberedOK

\* The human breaks a lock, and nobody's answer about it stands (break_lock).
LEMMA BreakLockOK ==
    ASSUME IInv, BreakLock
    PROVE  IInv'
  <1>1. PICK n \in Name :
          /\ locks' = [locks EXCEPT ![n] = Free]
          /\ told' = [s \in Session |-> [told[s] EXCEPT ![n] = Gone]]
    BY Zenon DEF BreakLock
  <1>2. UNCHANGED <<ended, process, call>>
    BY DEF BreakLock
  <1>3. TypeOK'
    <2>1. \A s \in Session : told[s] \in [Name -> {Gone} \cup Lasting]
      BY DEF IInv, TypeOK
    <2>2. QED
      BY <1>1, <1>2, <2>1 DEF IInv, TypeOK
  <1>4. ToldOK'
    BY <1>1, <1>2 DEF IInv, TypeOK, ToldOK, Gone
  <1>5. ReleasedOK'
    BY <1>1, <1>2, LocksAssumption DEF IInv, TypeOK, ReleasedOK, Free
  <1>6. QED
    BY <1>2, <1>3, <1>4, <1>5 DEF IInv, CallsOK, RememberedOK

\* A connection that ends relies on nothing any more.
LEMMA DisconnectOK ==
    ASSUME IInv, NEW t \in Session, Disconnect(t)
    PROVE  IInv'
  <1>1. /\ process[t] = "serving"
        /\ process' = [process EXCEPT ![t] = "leaving"]
        /\ call' = [call EXCEPT ![t] = IF call[t].phase = "attempt" THEN call[t] ELSE NoCall]
        /\ told' = [told EXCEPT ![t] = [n \in Name |-> Gone]]
        /\ UNCHANGED <<locks, ended>>
    BY DEF Disconnect
  <1>2. TypeOK'
    BY <1>1 DEF IInv, TypeOK
  <1>3. ToldOK'
    BY <1>1 DEF IInv, TypeOK, ToldOK, Gone
  <1>4. CallsOK' /\ RememberedOK' /\ ReleasedOK'
    BY <1>1 DEF IInv, TypeOK, CallsOK, RememberedOK, ReleasedOK, NoCall
  <1>5. QED
    BY <1>2, <1>3, <1>4 DEF IInv

\* The end of a session removes its locks and is remembered; a session whose
\* attempt may still run is not forgotten, since the attempt is older than the
\* record and no older than the busy timeout (release_all_of).
LEMMA ReleaseAllOfOK ==
    ASSUME IInv, NEW t \in Session, ReleaseAllOf(t)
    PROVE  IInv'
  <1>1. /\ process[t] = "leaving"
        /\ ended' = [Pruned EXCEPT ![t] = 0]
        /\ locks' = WithoutLocksOf(t)
        /\ process' = [process EXCEPT ![t] = "ended"]
        /\ UNCHANGED <<call, told>>
    BY DEF ReleaseAllOf
  <1>2. ended' \in [Session -> {NotEnded} \cup Ages] /\ ended'[t] = 0
    BY <1>1, LocksAssumption DEF IInv, TypeOK, Pruned, Ages
  <1>3. locks' \in [Name -> Row \cup {Free}]
    BY <1>1 DEF IInv, TypeOK, WithoutLocksOf
  <1>4. TypeOK'
    BY <1>1, <1>2, <1>3 DEF IInv, TypeOK
  <1>5. ToldOK'
    BY <1>1 DEF IInv, TypeOK, ToldOK, WithoutLocksOf
  <1>6. CallsOK'
    BY <1>1 DEF IInv, TypeOK, CallsOK
  <1>7. ReleasedOK'
    BY <1>1, LocksAssumption DEF IInv, TypeOK, ReleasedOK, WithoutLocksOf, Free
  <1>8. RememberedOK'
    <2> SUFFICES ASSUME NEW s \in Session, process'[s] = "ended", call[s].phase = "attempt"
                 PROVE  ended'[s] \in 0..call[s].since
      BY <1>1 DEF RememberedOK
    <2>1. call[s] \in Call
      BY CallIs DEF IInv
    <2>2. call[s].since \in 0..BusyTimeout
      BY <2>1 DEF Call
    <2>3. CASE s = t
      BY <1>2, <2>2, <2>3, LocksAssumption
    <2>4. CASE s # t
      <3>1. process[s] = "ended"
        BY <1>1, <2>4 DEF IInv, TypeOK
      <3>2. ended[s] \in 0..call[s].since
        BY <3>1 DEF IInv, RememberedOK
      <3>3. ended'[s] = ended[s]
        BY <1>1, <2>2, <2>4, <3>2, LocksAssumption DEF Pruned
      <3>4. QED
        BY <3>2, <3>3
    <2>5. QED
      BY <2>3, <2>4
  <1>9. QED
    BY <1>4, <1>5, <1>6, <1>7, <1>8 DEF IInv

\* A process that goes takes its call with it.
LEMMA GoneOK ==
    ASSUME IInv, NEW t \in Session, NEW to \in {"gone", "crashed"},
           process[t] # "serving" \/ told' = [told EXCEPT ![t] = [n \in Name |-> Gone]],
           told' = told \/ told' = [told EXCEPT ![t] = [n \in Name |-> Gone]],
           to = "gone" => process[t] = "ended",
           process' = [process EXCEPT ![t] = to], call' = Done(t), UNCHANGED <<locks, ended>>
    PROVE  IInv'
  <1>1. call' = [call EXCEPT ![t] = NoCall]
    BY DEF Done
  <1>2. TypeOK'
    BY SMTT(40), <1>1 DEF IInv, TypeOK
  <1>3. ToldOK'
    BY DEF IInv, TypeOK, ToldOK, Gone
  <1>4. CallsOK' /\ RememberedOK' /\ ReleasedOK'
    BY <1>1 DEF IInv, TypeOK, CallsOK, RememberedOK, ReleasedOK, NoCall
  <1>5. QED
    BY <1>2, <1>3, <1>4 DEF IInv

\* A second passes for the rows and for what was told of them alike, and for an
\* attempt and the end of its session alike.
LEMMA TickOK ==
    ASSUME IInv, Tick
    PROVE  IInv'
  <1>1. \A n \in Name : /\ locks'[n] \in Row \cup {Free}
                        /\ locks'[n].session = locks[n].session
                        /\ locks'[n].left = Lapsed(locks[n].left)
    <2> SUFFICES ASSUME NEW n \in Name
                 PROVE  /\ locks'[n] \in Row \cup {Free}
                        /\ locks'[n].session = locks[n].session
                        /\ locks'[n].left = Lapsed(locks[n].left)
      BY SMTT(40)
    <2>1. locks'[n] = [locks[n] EXCEPT !.left = Lapsed(@)]
      BY Zenon DEF Tick
    <2>2. CASE locks[n] \in Row
      <3>1. Lapsed(locks[n].left) \in {Gone} \cup Lasting
        BY <2>2, LocksAssumption DEF Row, Lapsed, Gone, Lasting
      <3>2. QED
        BY <2>1, <2>2, <3>1 DEF Row
    <2>3. CASE locks[n] = Free
      BY <2>1, <2>3 DEF Free, Lapsed, Gone
    <2>4. QED
      BY <2>2, <2>3 DEF IInv, TypeOK
  <1>2. \A s \in Session : /\ call'[s] \in Call \cup {NoCall}
                           /\ call'[s].phase = call[s].phase
                           /\ call[s].phase = "attempt" => call'[s].since = call[s].since + 1
    <2> SUFFICES ASSUME NEW s \in Session
                 PROVE  /\ call'[s] \in Call \cup {NoCall}
                        /\ call'[s].phase = call[s].phase
                        /\ call[s].phase = "attempt" => call'[s].since = call[s].since + 1
      BY SMTT(40)
    <2>1. call'[s] = CASE call[s].phase = "attempt" ->
                            [call[s] EXCEPT !.deadline = Less(@), !.since = @ + 1]
                       [] call[s].phase = "asleep" -> [call[s] EXCEPT !.deadline = Less(@)]
                       [] OTHER -> NoCall
      BY Zenon DEF Tick
    <2>2. CASE call[s] = NoCall
      BY <2>1, <2>2 DEF NoCall
    <2>3. CASE call[s] \in Call
      <3>1. Less(call[s].deadline) \in 0..WaitMax
        BY <2>3, LocksAssumption DEF Call, Less
      <3>2. call[s].phase = "attempt" => call[s].since + 1 \in 0..BusyTimeout
        <4>1. call[s].phase = "attempt" => call[s].since < BusyTimeout
          BY Zenon DEF Tick
        <4>2. call[s].since \in 0..BusyTimeout
          BY <2>3 DEF Call
        <4>3. QED
          BY SMTT(40), <4>1, <4>2, LocksAssumption
      <3>3. CASE call[s].phase = "attempt"
        <4> DEFINE d == Less(call[s].deadline)
                   e == call[s].since + 1
        <4>1. call'[s] = [call[s] EXCEPT !.deadline = d, !.since = e]
          BY <2>1, <3>3
        <4>2. d \in 0..WaitMax /\ e \in 0..BusyTimeout
          BY <3>1, <3>2, <3>3
        <4> HIDE DEF d
        <4>3. call'[s].since = e /\ call'[s].phase = call[s].phase
          BY <2>3, <4>1 DEF Call
        <4> HIDE DEF e
        <4>4. call'[s] \in Call
          BY Zenon, <2>3, <4>1, <4>2 DEF Call
        <4>5. QED
          BY <4>3, <4>4 DEF e
      <3>4. CASE call[s].phase = "asleep"
        BY <2>1, <2>3, <3>1, <3>4 DEF Call
      <3>5. QED
        BY <2>3, <3>3, <3>4 DEF Call
    <2>4. QED
      BY <2>2, <2>3 DEF IInv, TypeOK
  <1>3. \A s \in Session : ended'[s] \in {NotEnded} \cup Ages
    <2> SUFFICES ASSUME NEW s \in Session PROVE ended'[s] \in {NotEnded} \cup Ages
      OBVIOUS
    <2>1. ended'[s] = IF ended[s] \in 0..TtlMax THEN ended[s] + 1 ELSE ended[s]
      BY Zenon DEF Tick
    <2>2. ended[s] \in {NotEnded} \cup Ages
      BY DEF IInv, TypeOK
    <2>3. QED
      BY <2>1, <2>2, LocksAssumption DEF NotEnded, Ages
  <1>4. \A s \in Session, n \in Name : /\ told'[s][n] = Lapsed(told[s][n])
                                       /\ told'[s][n] \in {Gone} \cup Lasting
    <2> SUFFICES ASSUME NEW s \in Session, NEW n \in Name
                 PROVE  /\ told'[s][n] = Lapsed(told[s][n])
                        /\ told'[s][n] \in {Gone} \cup Lasting
      BY SMTT(40)
    <2>1. told'[s][n] = Lapsed(told[s][n])
      BY Zenon DEF Tick
    <2>2. told[s][n] \in {Gone} \cup Lasting
      BY SMTT(40) DEF IInv, TypeOK
    <2>3. QED
      BY <2>1, <2>2, LocksAssumption DEF Lapsed, Gone, Lasting
  <1>5. process' = process
    BY Zenon DEF Tick
  <1>6. TypeOK'
    <2>1. told' \in [Session -> [Name -> {Gone} \cup Lasting]]
      BY ZenonT(40), <1>4 DEF Tick
    <2>2. locks' \in [Name -> Row \cup {Free}]
      BY ZenonT(40), <1>1 DEF Tick
    <2>3. call' \in [Session -> Call \cup {NoCall}]
      BY ZenonT(40), <1>2 DEF Tick
    <2>4. ended' \in [Session -> {NotEnded} \cup Ages]
      BY Zenon, <1>3 DEF Tick
    <2>5. QED
      BY SMTT(40), <1>5, <2>1, <2>2, <2>3, <2>4 DEF IInv, TypeOK
  <1>7. ToldOK'
    BY <1>1, <1>4, <1>5, LocksAssumption DEF IInv, TypeOK, ToldOK, Lapsed, Gone, Lasting
  <1>8. CallsOK' /\ ReleasedOK'
    BY <1>1, <1>2, <1>5 DEF IInv, CallsOK, ReleasedOK
  <1>9. RememberedOK'
    <2> SUFFICES ASSUME NEW s \in Session, process[s] = "ended", call[s].phase = "attempt"
                 PROVE  ended'[s] \in 0..call'[s].since
      BY <1>2, <1>5 DEF RememberedOK
    <2>1. ended[s] \in 0..call[s].since
      BY DEF IInv, RememberedOK
    <2>2. call[s].since \in 0..BusyTimeout
      BY CallIs DEF IInv, Call
    <2>3. ended'[s] = ended[s] + 1
      <3>1. ended'[s] = IF ended[s] \in 0..TtlMax THEN ended[s] + 1 ELSE ended[s]
        BY Zenon DEF Tick
      <3>2. QED
        BY SMTT(40), <2>1, <2>2, <3>1, LocksAssumption
    <2>4. QED
      BY <1>2, <2>1, <2>2, <2>3, LocksAssumption
  <1>10. QED
    BY <1>6, <1>7, <1>8, <1>9 DEF IInv

\* Every step keeps the invariant.
LEMMA StepOK == IInv /\ [Next]_vars => IInv'
  <1> SUFFICES ASSUME IInv, [Next]_vars PROVE IInv'
    OBVIOUS
  <1>1. CASE UNCHANGED vars
    BY <1>1 DEF vars, IInv, TypeOK, ToldOK, CallsOK, RememberedOK, ReleasedOK
  <1>2. ASSUME NEW t \in Session, ReleaseAllFails(t) \/ Exit(t) \/ Crash(t) PROVE IInv'
    <2>1. CASE ReleaseAllFails(t)
      BY Zenon, <2>1, GoneOK DEF ReleaseAllFails
    <2>2. CASE Exit(t)
      BY Zenon, <2>2, GoneOK DEF Exit
    <2>3. CASE Crash(t)
      BY Zenon, <2>3, GoneOK DEF Crash
    <2>4. QED
      BY <1>2, <2>1, <2>2, <2>3
  <1>3. QED
    BY <1>1, <1>2, BeginAcquireOK, AttemptOK, AttemptFailsOK, RetryOK, ReleaseOK, DisconnectOK,
       ReleaseAllOfOK, BreakLockOK, TickOK DEF Next

\* What a connection was told it holds, it holds, and no lock of a session
\* outlives its end (acquire, release and release_all_of).
THEOREM LocksHold == Spec => []HeldAsTold
  <1>1. IInv => HeldAsTold
    BY DEF IInv, ToldOK, ReleasedOK, HeldAsTold
  <1>2. QED
    BY <1>1, InitOK, StepOK, PTL DEF Spec

=============================================================================
