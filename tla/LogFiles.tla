------------------------------ MODULE LogFiles ------------------------------
(***************************************************************************)
(* The log a holder keeps of its child's output: a live file, the one       *)
(* generation before it, and a sidecar that says where in the output of all  *)
(* runs the live file starts.  The holder writes and rotates, any step may   *)
(* fail, and it may be killed between two steps; other processes read the   *)
(* files meanwhile, by cursor or following them, with no lock.              *)
(*                                                                          *)
(* A byte is a text byte or a line feed.  A file is a stretch of the stream  *)
(* of all bytes ever logged: `from` is where it truly starts, which the      *)
(* program has to work out from the sidecar.  An inode no name and no open   *)
(* file refers to may be given to the next file created.                     *)
(***************************************************************************)
EXTENDS Integers, Sequences, FiniteSets

CONSTANTS Inode,        \* the inodes the file system hands out
          None,         \* no file
          Chunk,        \* what the child writes at a time
          Cap,          \* the size at which the live file rotates
          Overrun,      \* how far past it an open line may run
          Attempts,     \* how often a reader opens the files again
          MaxLog,       \* bound: bytes ever logged
          Budgets       \* bounds: failures, kills, reads and followers together

Resource == {"faults", "records", "kills", "reads", "follows"}

ASSUME LogFilesAssumption ==
    /\ None \notin Inode /\ Inode # {}
    /\ Chunk \subseteq Seq({"text", "feed"}) \ {<<>>}
    /\ Budgets \subseteq [Resource -> Nat]
    /\ Cap \in Nat \ {0} /\ Overrun \in Nat /\ Attempts \in Nat \ {0}

VARIABLES disk,      \* the stream logged, the files, their names and the sidecar
          log,       \* the holder's RotatingLog, and how far its opening or rotation is
          call,      \* what the holder has still to do with it, and what it did last
          reader,    \* a process reading by cursor
          follower,  \* a `logs --follow`
          used       \* failures, kills and reads so far

vars == <<disk, log, call, reader, follower, used>>

Least(a, b) == IF a < b THEN a ELSE b
Less(a, b) == IF a > b THEN a - b ELSE 0

-----------------------------------------------------------------------------
(* The files. *)

NoGeneration == [inode |-> None, len |-> 0]

Generation(d, i) == IF i = None THEN NoGeneration ELSE [inode |-> i, len |-> d.file[i].len]

NoBase == [offset |-> 0, inode |-> None]

\* Where the live file starts, and whether the sidecar belongs to the files.
Resolve(base, live, rotated) ==
    IF base = NoBase THEN [offset |-> rotated.len, exact |-> TRUE]
    ELSE IF base.inode = live.inode THEN [offset |-> base.offset, exact |-> TRUE]
    ELSE IF base.inode = rotated.inode
      THEN [offset |-> base.offset + rotated.len, exact |-> TRUE]
    ELSE [offset |-> base.offset, exact |-> FALSE]

\* What of a file's bytes, from `at` on, really are the stream from `claimed`.
IsAt(d, i, at, claimed) == d.file[i].from + at = claimed

\* Whether the file at the live path, `len` bytes long, ends a line.
EndsLine(d, len) ==
    \/ len = 0
    \/ /\ d.live # None /\ d.file[d.live].len >= len
       /\ d.stream[d.file[d.live].from + len] = "feed"

Written(d, i, bytes) ==
    [d EXCEPT !.stream = @ \o bytes, !.file[i].len = @ + Len(bytes)]

\* Inodes the file system may give to a new file.
Free(held) == Inode \ ({disk.live, disk.rotated} \cup held)

Created(d, i) == [d EXCEPT !.live = i, !.file[i] = [from |-> Len(d.stream), len |-> 0]]

OpenByReaders == {reader.rotated.inode, reader.live.inode, follower.fd, follower.opened}

-----------------------------------------------------------------------------
(* The holder's log, and its calls.  `todo` is what remains of the call in   *)
(* progress; `run` is where the run began, `at` where the last chunk of      *)
(* output was to go, and `handed` what of it was handed on as logged.        *)

Down == [up |-> FALSE, fd |-> None, written |-> 0, base |-> 0, ends |-> TRUE,
         stage |-> "idle"]

NoCall == [todo |-> <<>>, run |-> 0, at |-> 0, handed |-> [at |-> 0, bytes |-> <<>>]]

End(g) == g.base + g.written

Step(op, bytes) == [op |-> op, bytes |-> bytes]

\* What the holder writes where a run starts, and to end an open line.
EndOpenLine == <<"feed">>
RunReset == <<"text">>

Feeds(bytes) == {i \in DOMAIN bytes : bytes[i] = "feed"}
First(S) == CHOOSE i \in S : \A j \in S : i <= j

WriteOf(bytes) == IF bytes = <<>> THEN <<>> ELSE <<Step("write", bytes)>>
Rotate == Step("rotate", <<>>)

\* Mutant: the log rotates as soon as the cap is passed, in the middle of a line.
AppendAnywhere(g, bytes) ==
    IF g.written = 0 \/ g.written + Len(bytes) <= Cap THEN WriteOf(bytes)
    ELSE <<Rotate>> \o WriteOf(bytes)

\* Appends `bytes`, rotating on a line boundary only.
AppendBytes(g, bytes) ==
    LET head == IF g.ends THEN 0 ELSE First(Feeds(bytes))
    IN  IF \/ g.written = 0 \/ g.written + Len(bytes) <= Cap
           \/ ~g.ends /\ Feeds(bytes) = {}
        THEN WriteOf(bytes)
        ELSE WriteOf(SubSeq(bytes, 1, head)) \o <<Rotate>>
                \o WriteOf(SubSeq(bytes, head + 1, Len(bytes)))

\* The steps of a call that touch no file: an append chooses how to write, a
\* line too long is ended, a run's start is noted, what the log took is handed
\* on to the supervisor.
Decide(c, g) ==
    LET rest == Tail(c.todo)
        bytes == Head(c.todo).bytes
        taken == Less(End(g), c.at)
    IN  IF c.todo = <<>> THEN c
        ELSE CASE Head(c.todo).op = "append" -> [c EXCEPT !.todo = AppendBytes(g, bytes) \o rest]
               [] Head(c.todo).op = "end" ->
                    IF g.ends \/ g.written <= Cap + Overrun THEN [c EXCEPT !.todo = rest]
                    ELSE [c EXCEPT !.todo = <<Step("write", EndOpenLine), Rotate,
                                              Step("hand", bytes \o EndOpenLine)>>]
               [] Head(c.todo).op = "start" -> [c EXCEPT !.run = End(g), !.todo = rest]
               [] Head(c.todo).op = "hand" ->
                    [c EXCEPT !.todo = rest,
                              !.handed = [at |-> c.at,
                                          bytes |-> SubSeq(bytes, 1, Least(taken, Len(bytes)))]]
               [] OTHER -> c

Ready(c, g) == Decide(Decide(Decide(c, g), g), g)

Done(c, g) == Ready([c EXCEPT !.todo = Tail(@)], g)

\* A step that failed ends its append; the run goes on.
Failed(c, g) ==
    LET on == {i \in DOMAIN c.todo : c.todo[i].op \in {"start", "hand"}}
    IN  IF on = {} THEN [c EXCEPT !.todo = <<>>]
        ELSE Ready([c EXCEPT !.todo = SubSeq(@, First(on), Len(@))], g)

-----------------------------------------------------------------------------
(* Its steps. *)

Within(u) == \E b \in Budgets : \A k \in Resource : u[k] <= b[k]

Spend(k) == used' = [used EXCEPT ![k] = @ + 1] /\ Within(used')

At(op) == call.todo # <<>> /\ Head(call.todo).op = op

Rotating(stage) == At("rotate") /\ log.stage = stage

Write ==
    /\ At("write")
    /\ LET bytes == Head(call.todo).bytes
       IN  /\ disk' = Written(disk, log.fd, bytes)
           /\ log' = [log EXCEPT !.written = @ + Len(bytes), !.ends = bytes[Len(bytes)] = "feed"]
    /\ call' = Done(call, log')
    /\ UNCHANGED <<reader, follower, used>>

\* A write that fails may have written a part, which the log then looks up.
FailWrite ==
    /\ At("write") /\ Spend("faults")
    /\ \E k \in 0..(Len(Head(call.todo).bytes) - 1) :
          /\ disk' = Written(disk, log.fd, SubSeq(Head(call.todo).bytes, 1, k))
          /\ LET len == disk'.file[log.fd].len
             IN  log' = [log EXCEPT !.written = len, !.ends = EndsLine(disk', len)]
    /\ call' = Failed(call, log')
    /\ UNCHANGED <<reader, follower>>

\* A rotation: the rename, which fails by itself when no file has the live
\* name; the new file; the sidecar.  A follower between opening the live file
\* and having placed it is overtaken.
Rename ==
    /\ Rotating("idle") /\ disk.live # None
    /\ disk' = [disk EXCEPT !.rotated = disk.live, !.live = None]
    /\ log' = [log EXCEPT !.stage = "renamed"]
    /\ follower' = [follower EXCEPT !.overtaken = @ \/ follower.opened # None]
    /\ UNCHANGED <<call, reader, used>>

Create ==
    /\ Rotating("renamed")
    /\ \E i \in Free({log.fd} \cup OpenByReaders) :
          /\ disk' = Created(disk, i)
          /\ log' = [log EXCEPT !.fd = i, !.base = End(log), !.written = 0, !.ends = TRUE,
                                !.stage = "created"]
    /\ UNCHANGED <<call, reader, follower, used>>

FailRotation ==
    /\ \/ Rotating("idle") /\ disk.live = None /\ UNCHANGED used
       \/ (Rotating("idle") \/ Rotating("renamed")) /\ Spend("faults")
    /\ log' = [log EXCEPT !.stage = "idle"]
    /\ call' = Failed(call, log')
    /\ UNCHANGED <<disk, reader, follower>>

RecordBase ==
    /\ Rotating("created") \/ log.stage = "placing"
    /\ disk' = [disk EXCEPT !.base = [offset |-> log.base, inode |-> log.fd]]
    /\ log' = [log EXCEPT !.stage = "idle"]
    /\ call' = IF log.stage = "placing" THEN Ready(call, log') ELSE Done(call, log')
    /\ UNCHANGED <<reader, follower, used>>

\* A holder whose log cannot be placed does not start.
FailRecord ==
    /\ Spend("records")
    /\ \/ log.stage = "placing" /\ log' = Down /\ call' = NoCall
       \/ /\ Rotating("created")
          /\ log' = [log EXCEPT !.stage = "idle"]
          /\ call' = Failed(call, log')
    /\ UNCHANGED <<disk, reader, follower>>

\* A chunk of output, once the one before it is dealt with.
Output ==
    /\ log.up /\ call.todo = <<>>
    /\ \E bytes \in Chunk :
          /\ Len(disk.stream) + Len(bytes) < MaxLog
          /\ call' = Ready([call EXCEPT !.at = End(log),
                                        !.todo = <<Step("append", bytes), Step("end", bytes),
                                                   Step("hand", bytes)>>], log)
    /\ UNCHANGED <<disk, log, reader, follower, used>>

StartRun == <<Step("append", EndOpenLine), Step("start", <<>>), Step("append", RunReset)>>

\* Mutant: a log found without its live file starts at the offset recorded.
OpenedAsRecorded(d) ==
    [offset |-> d.base.offset, exact |-> d.base.inode = d.live]

PlacedAtOpen(d) == Resolve(d.base, Generation(d, d.live), Generation(d, d.rotated))

\* The next holder of the process opens the log, places it and begins its run.
Open ==
    /\ ~log.up
    /\ Len(disk.stream) + 2 <= MaxLog
    /\ \E i \in IF disk.live = None THEN Free(OpenByReaders) ELSE {disk.live} :
          /\ disk' = IF disk.live = None THEN Created(disk, i) ELSE disk
          /\ LET len == disk'.file[i].len
                 base == PlacedAtOpen(disk').offset
             IN  log' = [up |-> TRUE, fd |-> i, written |-> len, base |-> base,
                         ends |-> EndsLine(disk', len),
                         stage |-> IF disk.base = [offset |-> base, inode |-> i] THEN "idle"
                                   ELSE "placing"]
    /\ LET c == [NoCall EXCEPT !.run = End(log'), !.at = End(log'), !.todo = StartRun]
       IN  call' = IF log'.stage = "placing" THEN c ELSE Ready(c, log')
    /\ UNCHANGED <<reader, follower, used>>

\* The holder ends or is killed, between any two steps.
Kill ==
    /\ log.up /\ Spend("kills")
    /\ log' = Down
    /\ call' = NoCall
    /\ UNCHANGED <<disk, reader, follower>>

-----------------------------------------------------------------------------
(* Reading by cursor. *)

NoRead == [pc |-> "idle", attempt |-> 0, rotated |-> NoGeneration, live |-> NoGeneration,
           placed |-> [offset |-> 0, exact |-> FALSE], began |-> 0, cursor |-> 0, sure |-> TRUE,
           last |-> [settled |-> FALSE, placed |-> TRUE, fresh |-> TRUE, ahead |-> FALSE]]

\* Opens the rotated file, at the start of a read or of another attempt.
OpenRotated ==
    /\ \/ reader.pc = "idle" /\ Spend("reads")
       \/ reader.pc = "again" /\ UNCHANGED used
    /\ reader' = [reader EXCEPT !.pc = "live", !.attempt = @ + 1, !.live = NoGeneration,
                                !.rotated = Generation(disk, disk.rotated),
                                !.began = IF reader.pc = "idle" THEN Len(disk.stream) ELSE @]
    /\ UNCHANGED <<disk, log, call, follower>>

OpenLive ==
    /\ reader.pc = "live"
    /\ reader' = [reader EXCEPT !.pc = "base", !.live = Generation(disk, disk.live)]
    /\ UNCHANGED <<disk, log, call, follower, used>>

\* What the files opened hold, as the reader places it: the rotated file ends
\* where the live one starts.
Span(r) ==
    LET base == r.placed.offset
        len == Least(r.rotated.len, base)
    IN  [oldest |-> IF r.rotated = NoGeneration THEN base ELSE base - len,
         skip |-> r.rotated.len - len, end |-> base + r.live.len]

\* The read is over: it is handed what the span holds from the cursor on, and
\* its end as the next cursor.
ReadOver(r, settled) ==
    LET span == Span(r)
    IN  [NoRead EXCEPT
          !.cursor = span.end, !.sure = settled,
          !.last = [settled |-> settled,
                    placed |-> /\ r.rotated.len > 0 => IsAt(disk, r.rotated.inode, span.skip, span.oldest)
                               /\ r.live.len > 0 => IsAt(disk, r.live.inode, 0, r.placed.offset),
                    fresh |-> span.end >= r.began,
                    ahead |-> r.sure /\ r.cursor > span.end]]

\* The files moved meanwhile: they are opened again, the last time read as found.
Unsettled(r) ==
    IF r.attempt < Attempts
    THEN [r EXCEPT !.pc = "again", !.rotated = NoGeneration, !.live = NoGeneration]
    ELSE ReadOver(r, FALSE)

ReadBase ==
    /\ reader.pc = "base"
    /\ LET r == [reader EXCEPT !.placed = Resolve(disk.base, reader.live, reader.rotated)]
       IN  reader' = IF r.placed.exact THEN [r EXCEPT !.pc = "rotated"] ELSE Unsettled(r)
    /\ UNCHANGED <<disk, log, call, follower, used>>

\* Mutant: only the live file is looked at again.
RotatedAnyway ==
    /\ reader.pc = "rotated"
    /\ reader' = [reader EXCEPT !.pc = "named"]
    /\ UNCHANGED <<disk, log, call, follower, used>>

StillRotated ==
    /\ reader.pc = "rotated"
    /\ reader' = IF disk.rotated = reader.rotated.inode THEN [reader EXCEPT !.pc = "named"]
                 ELSE Unsettled(reader)
    /\ UNCHANGED <<disk, log, call, follower, used>>

StillLive ==
    /\ reader.pc = "named"
    /\ reader' = IF disk.live = reader.live.inode THEN ReadOver(reader, TRUE)
                 ELSE Unsettled(reader)
    /\ UNCHANGED <<disk, log, call, follower, used>>

-----------------------------------------------------------------------------
(* Following. *)

\* `next` is the byte it has come to, `pos` its place in the file it reads.
NoFollower == [pc |-> "off", next |-> 0, fd |-> None, pos |-> 0, opened |-> None,
               rotated |-> NoGeneration, start |-> 0, overtaken |-> FALSE, wrong |-> FALSE]

\* It begins where a read ended.
Follow ==
    /\ follower.pc = "off" /\ Spend("follows")
    /\ follower' = [follower EXCEPT !.pc = "idle", !.next = Len(disk.stream)]
    /\ UNCHANGED <<disk, log, call, reader>>

\* Copies file `i` from `pos` to its end, as the output from `next` on.
Copied(f, i, pos) ==
    LET len == Less(disk.file[i].len, pos)
    IN  [f EXCEPT !.next = @ + len, !.wrong = @ \/ (len > 0 /\ ~IsAt(disk, i, pos, f.next))]

Drained(f) ==
    IF f.fd = None THEN f
    ELSE [Copied(f, f.fd, f.pos) EXCEPT !.pos = IF @ > disk.file[f.fd].len THEN @
                                                ELSE disk.file[f.fd].len]

Drain ==
    /\ follower.pc = "idle"
    /\ follower' = [Drained(follower) EXCEPT !.pc = "stat"]
    /\ UNCHANGED <<disk, log, call, reader, used>>

\* The file followed is the live one still, or there is none, or it is read to
\* its end before the new one is opened.
Stat ==
    /\ follower.pc = "stat"
    /\ follower' =
          IF disk.live = None THEN [follower EXCEPT !.pc = "idle"]
          ELSE IF disk.live = follower.fd
            THEN [follower EXCEPT !.pc = "idle",
                                  !.pos = IF disk.file[disk.live].len < @ THEN 0 ELSE @]
          ELSE [Drained(follower) EXCEPT !.pc = "open"]
    /\ UNCHANGED <<disk, log, call, reader, used>>

\* A live file gone since ends the command with an error.
OpenNew ==
    /\ follower.pc = "open"
    /\ follower' = IF disk.live = None THEN [follower EXCEPT !.pc = "failed"]
                   ELSE [follower EXCEPT !.pc = "place", !.opened = disk.live]
    /\ UNCHANGED <<disk, log, call, reader, used>>

\* live_start, in two steps.
InspectRotated ==
    /\ follower.pc = "place"
    /\ follower' = [follower EXCEPT !.pc = "base", !.rotated = Generation(disk, disk.rotated)]
    /\ UNCHANGED <<disk, log, call, reader, used>>

LiveStart ==
    /\ follower.pc = "base"
    /\ follower' = [follower EXCEPT !.pc = "catch_up", !.rotated = NoGeneration,
          !.start = Resolve(disk.base, Generation(disk, follower.opened), follower.rotated).offset]
    /\ UNCHANGED <<disk, log, call, reader, used>>

\* Reports the output up to `to` as lost, which no file may hold then.
SkippedTo(f, to) ==
    LET kept == {i \in {disk.rotated, disk.live} \ {None} :
                    /\ disk.file[i].from < to
                    /\ disk.file[i].from + disk.file[i].len > f.next}
    IN  IF to <= f.next THEN f
        ELSE [f EXCEPT !.next = to, !.wrong = @ \/ kept # {} \/ to > Len(disk.stream)]

\* Mutant: what the rotated file still holds of the output missed is lost.
CaughtUpByGap(f) == SkippedTo(f, f.start)

\* What was missed is copied from the rotated file, as far as it has it.
CaughtUp(f) ==
    LET i == disk.rotated
        from == Less(f.start, disk.file[i].len)
        g == SkippedTo(f, from)
    IN  IF f.start <= f.next THEN f
        ELSE IF i = None THEN SkippedTo(f, f.start)
        ELSE SkippedTo(Copied(g, i, Less(g.next, from)), f.start)

CatchUp ==
    /\ follower.pc = "catch_up"
    /\ LET f == CaughtUp(follower)
       IN  follower' = [f EXCEPT !.pc = "idle", !.fd = f.opened, !.opened = None, !.start = 0,
                                 !.pos = Less(f.next, f.start)]
    /\ UNCHANGED <<disk, log, call, reader, used>>

-----------------------------------------------------------------------------
Init ==
    /\ disk = [stream |-> <<>>, file |-> [i \in Inode |-> [from |-> 0, len |-> 0]],
               live |-> None, rotated |-> None, base |-> NoBase]
    /\ log = Down
    /\ call = NoCall
    /\ reader = NoRead
    /\ follower = NoFollower
    /\ used = [k \in Resource |-> 0]

Holds == Open \/ Output \/ Write \/ FailWrite \/ Rename \/ Create \/ FailRotation
           \/ RecordBase \/ FailRecord \/ Kill

Reads == OpenRotated \/ OpenLive \/ ReadBase \/ StillRotated \/ StillLive

Follows == Follow \/ Drain \/ Stat \/ OpenNew \/ InspectRotated \/ LiveStart \/ CatchUp

Next == Holds \/ Reads \/ Follows

Spec == Init /\ [][Next]_vars

-----------------------------------------------------------------------------
(* Correctness. *)

StartsLine(at) == at = 0 \/ disk.stream[at] = "feed"

\* A rotation may have renamed the live file, failed to create the next one, and
\* left the holder writing to the rotated file until it was killed.
Halfway == used["faults"] > 0 /\ used["kills"] > 0

\* The log names every byte by its place in the output of all runs, through
\* rotations, failed writes and holders killed in between (RotatingLog::open,
\* rotate, write): its end is the length of what was ever logged.  A sidecar that
\* could not be written, and then a kill, can break this.
PositionsContinue ==
    log.up /\ (used["records"] = 0 \/ used["kills"] = 0) => End(log) = Len(disk.stream)

\* Every generation starts on a line, as does a run once it is begun
\* (RotatingLog::append, append_held, start_run), unless a write failed.  A
\* rotation that renamed the file and could not create the next one, followed
\* by a kill, is the one way a generation comes to start within a line; a run is
\* begun where the log says it ends, so it is told wrong where the log is.
GenerationsStartLines ==
    /\ ~Halfway =>
          \A i \in {disk.live, disk.rotated} \ {None} : StartsLine(disk.file[i].from)
    /\ log.up /\ used["faults"] = 0 /\ (used["records"] = 0 \/ used["kills"] = 0)
          /\ (\A k \in DOMAIN call.todo : call.todo[k].op # "start")
       => StartsLine(call.run)

\* What others are told of the log is in it.  A read whose files were still in
\* place when it had opened them (Span::open) puts every byte where it truly is,
\* shows all that was logged when it began, and never finds the cursor of an
\* earlier such read past the log's end; and what is handed to the supervisor as
\* logged (append_held) is what the log holds there.  Excepted are a sidecar that
\* could not be written, and a kill after a rotation that stopped halfway.
ReadsAreTrue ==
    used["records"] = 0 /\ ~Halfway =>
        /\ reader.last.settled =>
             reader.last.placed /\ reader.last.fresh /\ ~reader.last.ahead
        /\ LET handed == call.handed
           IN  SubSeq(disk.stream, handed.at + 1, handed.at + Len(handed.bytes)) = handed.bytes

\* A follower shows every byte in its place, and reports as lost only what no
\* file holds any more (LogFollower::pump, catch_up), unless the log rotated
\* while it was placing a file it had opened.
FollowedIsTrue == follower.wrong => follower.overtaken \/ used["records"] > 0

=============================================================================
