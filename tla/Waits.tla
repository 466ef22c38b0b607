-------------------------------- MODULE Waits --------------------------------
(***************************************************************************)
(* Waits on one process: for a line of its output, a port, its readiness or *)
(* a state.  A wait is registered with the service's loop, or first held    *)
(* while the process's log is read off the loop, and is answered when its   *)
(* condition holds, its run ends or its time runs out.  Against it run the  *)
(* process, launches, exits, reconnects, log reads, probes and clocks.      *)
(*                                                                         *)
(* The output is a sequence of lines, each the pattern it matches, and a    *)
(* cursor counts the lines before it.  Times are flags that a clock raises. *)
(***************************************************************************)
EXTENDS ProcessLifecycle, Integers, Sequences, FiniteSets, FiniteSetsExt, SequencesExt

CONSTANTS
    Wait,          \* the requests that wait
    Pattern,       \* what a line may match
    Setups,        \* the processes considered, see Setup
    Ring,          \* lines a tap keeps
    TailLines,     \* lines an unmatched answer shows
    MaxSpent       \* bound: connections broken and requests that do not wait

None == -1

ASSUME BoundsAreNatural == {Ring, TailLines, MaxSpent} \subseteq Nat

\* A process's readiness check (a pattern, "port" or "none"), what is waited
\* for, and bounds: lines logged, lines rotated away, generations.
Setup ==
    [check : Pattern \cup {"port", "none"},
     until : SUBSET (Pattern \cup {"port", "ready", "running", "stopped"}),
     lines : Nat, kept : Nat, gens : Nat]

ASSUME SetupsAreTyped == Setups \subseteq Setup

VARIABLES
    setup,     \* the process considered
    log,       \* [line, kept]: each line's pattern and run, and lines rotated away
    child,     \* [gen, alive, start]: the process as it really is
    s,         \* the supervisor's state of the pane
    asked,     \* the waits asked so far
    passes,    \* probe passes on their way to the loop
    spent      \* connections broken, and requests that do not wait

vars == <<setup, log, child, s, asked, passes, spent>>

(* Fields of s.  The tap; the handle: whether it is live, the position of its  *)
(* next frame and the logged lines it has still to forward (replay), where an *)
(* adopted run's frames began (streamed); the launch in flight, what was       *)
(* asked meanwhile (pend) and the state a reconnect carries; the pane's       *)
(* state, intent, generation, restart timer, removal (retire) and child left  *)
(* unsupervised; the run's readiness, quick-exit window and probes, and how   *)
(* the last run ended; the waits registered (waiters), held on a read or an   *)
(* adoption (held), answered but held for their tail (answers) and answered   *)
(* (sent); the read in flight and every read still to land (jobs).  Two       *)
(* fields only judge answers: the lines nobody can see any more (lost), and   *)
(* whether the current generation is of an adoption (adopted).                *)

Check == setup.check
End == Len(log.line)

\* A partial function as a record of the waits that have one.
Without(f, W) == [w \in DOMAIN f \ W |-> f[w]]
With(f, w, v) == [x \in DOMAIN f \cup {w} |-> IF x = w THEN v ELSE f[x]]

-----------------------------------------------------------------------------
(* Which runs a wait is about. *)

From(g) == [fresh |-> FALSE, gen |-> g]
After(g) == [fresh |-> TRUE, gen |-> g]

\* Mutant: a wait on a fresh run counts the run it replaces.
CountsReplaced(pin, g) == g >= pin.gen

Counts(pin, g) == IF pin.fresh THEN g > pin.gen ELSE g >= pin.gen

-----------------------------------------------------------------------------
(* The tap: the newest lines of the output, by the position each began at.  *)
(* `known`, which only judges answers, says that its cursor was taken from   *)
(* the log, and not guessed by a launch that found no tap.                   *)

NewTap == [ring |-> <<>>, cursor |-> 0, runStart |-> None, placed |-> FALSE, known |-> FALSE]

HeldFrom(tap) == IF tap.ring = <<>> THEN tap.cursor ELSE Head(tap.ring)

Keep(ring, at) ==
    LET longer == Append(ring, at)
    IN  SubSeq(longer, Max({1, Len(longer) - Ring + 1}), Len(longer))

\* A line past the end of what was seen leaves a gap; one seen is skipped.
Feed(tap, at) ==
    IF at < tap.cursor THEN tap
    ELSE [tap EXCEPT !.ring = Keep(@, at), !.cursor = at + 1]

SeedAt(tap, at, upto) ==
    LET placed == [tap EXCEPT !.cursor = Max({at, @}), !.placed = TRUE, !.known = @ \/ upto > 0]
    IN  FoldLeft(Feed, placed, [i \in 1..(upto - at) |-> at + i - 1])

BeginRunHere(tap) == [tap EXCEPT !.runStart = tap.cursor, !.placed = TRUE]

BeginRunAt(tap, start) ==
    IF tap.runStart = start THEN [tap EXCEPT !.known = TRUE]
    ELSE [tap EXCEPT !.cursor = Max({start, @}), !.runStart = start, !.placed = TRUE,
                     !.known = TRUE]

\* The positions held from `since`, and where they begin when that is later.
ScanFrom(tap, since) ==
    [lines |-> {at \in ToSet(tap.ring) : at >= since},
     from |-> IF since < HeldFrom(tap) THEN HeldFrom(tap) ELSE None]

TailHeld(tap) ==
    Min({TailLines, Cardinality({at \in ToSet(tap.ring) : at >= tap.runStart})})

Matching(pattern, lines) == {at \in lines : log.line[at + 1].text = pattern}

-----------------------------------------------------------------------------
(* The pane as waiting sees it. *)

IsStarting(v) == v.launch # "None"
IsSpawning(v) == v.launch = "Spawn"

Reached(goal, state) ==
    IF goal = "running" THEN state = "Running" ELSE ~MayBeRunning(state)

States == {"running", "stopped"}

\* Mutant: the lines an adoption did not replay count as held.
TappedFromRing(v) == IF v.tap.placed THEN HeldFrom(v.tap) ELSE None

\* Where the tap holds every line from, once it is placed.
TappedFrom(v) ==
    IF v.tap.placed THEN Max({HeldFrom(v.tap), v.streamed}) ELSE None

\* Whether only the log knows where the output ends.
KnowsNoOutput(v) == ~v.live /\ ~IsStarting(v) /\ ~v.tap.placed

KnownOutputEnd(v) == IF IsStarting(v) \/ ~v.tap.placed THEN None ELSE v.tap.cursor

\* Whether `since` is past the end of the output, the log's included while a
\* handle can say where that is.
PastEnd(v, since) ==
    LET tapped == KnownOutputEnd(v)
    IN  tapped # None /\ since > IF v.live THEN Max({tapped, End}) ELSE tapped

ReplayFloor(v) == IF v.tap.cursor < v.streamed THEN v.streamed ELSE None

-----------------------------------------------------------------------------
(* Reading the log off the loop: one read of the pane in flight at a time. *)

NoFound == [from |-> None, at |-> None]
NoScan == [until |-> None, pin |-> From(0), ended |-> "no", found |-> NoFound]

OnScan(h) == h.scan.until # None
OnEnd(h) == ~OnScan(h) /\ ~h.adopting

Deliver(v, w, outcome) == [v EXCEPT !.sent[w] = Append(@, outcome)]

\* What is held and not asked of a read yet is asked of a new one, unless one
\* is in flight.
ReadLog(v) ==
    LET ends == {w \in DOMAIN v.held : OnEnd(v.held[w])}
        scans == {w \in DOMAIN v.held : OnScan(v.held[w]) /\ v.held[w].read = None}
        lines == {w \in DOMAIN v.answers : v.answers[w].read = None}
        id == Min((1..3) \ {job.id : job \in v.jobs})
    IN  IF v.read # None \/ ends \cup scans \cup lines = {} THEN v
        ELSE [v EXCEPT
                !.read = id,
                !.jobs = @ \cup {[id |-> id, end |-> ends # {}, kept |-> log.kept, size |-> End]},
                !.held = [w \in DOMAIN @ |-> IF w \in scans THEN [@[w] EXCEPT !.read = id]
                                             ELSE @[w]],
                !.answers = [w \in DOMAIN @ |-> IF w \in lines THEN [@[w] EXCEPT !.read = id]
                                                ELSE @[w]]]

-----------------------------------------------------------------------------
(* Answering. *)

\* What an answer is judged by: whether a line it vouches for having tested
\* matched all the same (of the runs the wait counts only, when the wait is on
\* a fresh one or began where the tap did not stand in for the log), and
\* whether a wait on a fresh run was matched by what the run it replaced did.
Outcome(v, q, status, run, cursor) ==
    LET tested == (Max({q.from, q.scannedFrom}))..(cursor - 1)
        meant == {x \in tested \ v.lost :
                    q.pin.fresh \/ q.guessed => Counts(q.pin, log.line[x + 1].run)}
    IN  [status |-> status,
         missed |-> status # "Matched" /\ q.until \in Pattern /\ Matching(q.until, meant) # {},
         stale |-> /\ status = "Matched" /\ q.pin.fresh /\ run <= q.pin.gen
                   /\ q.until # "stopped" /\ (q.until = "ready" => v.live),
         unread |-> q.unread, adopted |-> v.adopted]

\* The tap misses the run's start and holds fewer lines than an answer shows.
ShortTail(v, held) ==
    held < TailLines /\ v.tap.runStart # None /\ TappedFrom(v) > v.tap.runStart

HoldAnswer(v, w, outcome) ==
    ReadLog([v EXCEPT !.answers = With(@, w, [outcome |-> outcome, read |-> None])])

AnswerWithTail(v, w, q, status, run, cursor, held) ==
    LET outcome == Outcome(v, q, status, run, cursor)
    IN  IF status # "Matched" /\ ShortTail(v, held) THEN HoldAnswer(v, w, outcome)
        ELSE Deliver(v, w, outcome)

\* `run` is the run that what ended the wait came from.
Answer(v, w, q, status, run) ==
    AnswerWithTail(v, w, q, status, run, v.tap.cursor, TailHeld(v.tap))

Refuse(v, w) ==
    Deliver(v, w, [status |-> "Refused", missed |-> FALSE, stale |-> FALSE, unread |-> TRUE,
                   adopted |-> FALSE])

-----------------------------------------------------------------------------
(* Registering. *)

\* How a wait ends because its state or readiness condition holds now.
CheckWait(v, q) ==
    IF ~Counts(q.pin, v.gen) THEN "no"
    ELSE IF \/ q.until = "ready" /\ v.ready = "Ready"
            \/ q.until \in States /\ Reached(q.until, v.state)
                 /\ (q.until = "running" => ~v.live \/ v.window) THEN "Matched"
    ELSE IF q.until = "ready" /\ v.ready = "TimedOut" THEN "ReadyTimeout" ELSE "no"

\* How a wait ends because there is no run for it to wait on.
NotRunning(v, q) ==
    IF v.live \/ IsStarting(v) THEN "no"
    ELSE IF q.pin.fresh /\ v.runEnd.gen # None /\ Counts(q.pin, v.runEnd.gen) THEN v.runEnd.status
    ELSE IF q.pin.fresh THEN IF v.gen = q.pin.gen THEN "NotRunning" ELSE "no"
    ELSE IF MayBeRunning(v.state) THEN "no" ELSE "NotRunning"

Watch(v) == [v EXCEPT !.probes = @ \cup {v.gen}]

RunOf(at) == IF at = None THEN child.gen ELSE log.line[at + 1].run

First(lines) == IF lines = {} THEN None ELSE Min(lines)

\* Registers a wait after the scan of the log it was held on, when it was.  A
\* wait from no cursor, or on a fresh run, is about the output from here on;
\* `from`, `unread` (its scan failed) and `guessed` only judge its answer.
RegisterHeld(v, w, h, scan) ==
    LET since == IF h.since # None THEN h.since ELSE ReplayFloor(v)
        pin == IF scan.until # None THEN scan.pin
               ELSE IF h.after = None THEN From(v.gen) ELSE After(h.after)
        tests == since # None /\ h.until \in Pattern /\ ~pin.fresh
        logged == tests /\ scan.found # NoFound
        tap == ScanFrom(v.tap, IF logged THEN scan.until ELSE since)
        inTap == First(Matching(h.until, tap.lines))
        matched == IF ~tests THEN None
                   ELSE IF logged /\ scan.found.at # None THEN scan.found.at ELSE inTap
        skipped == IF logged /\ since < scan.found.from
                   THEN Min({scan.found.from, scan.until}) ELSE None
        q == [until |-> h.until, since |-> since, pin |-> pin,
              scannedFrom |-> IF ~tests THEN None
                              ELSE IF logged /\ scan.found.at # None THEN skipped
                              ELSE IF tap.from # None THEN tap.from ELSE skipped,
              from |-> IF h.since = None \/ pin.fresh THEN Max({since, h.end, v.tap.cursor})
                       ELSE h.since,
              unread |-> scan.until # None /\ scan.found = NoFound, guessed |-> ~v.tap.known \/ IsSpawning(v)]
        settled == IF matched # None THEN "Matched"
                   ELSE IF scan.ended # "no" THEN scan.ended
                   ELSE IF CheckWait(v, q) # "no" THEN CheckWait(v, q) ELSE NotRunning(v, q)
        kept == [v EXCEPT !.waiters = With(@, w, q)]
    IN  IF settled # "no" THEN Answer(v, w, q, settled, RunOf(matched))
        ELSE IF q.until = "port" /\ v.live /\ Counts(pin, v.gen) THEN Watch(kept)
        ELSE kept

-----------------------------------------------------------------------------
(* Holding. *)

PushHeld(v, w, h) == [v EXCEPT !.held = With(@, w, h)]

HoldWait(v, w, h) == ReadLog(PushHeld(v, w, h))

\* A log wait from a cursor waits for the adoption in flight.
AdoptionHold(v, h) ==
    h.since # None /\ h.after = None /\ h.until \in Pattern /\ IsStarting(v) /\ ~IsSpawning(v)

ScanFor(v, h) ==
    IF h.after = None /\ h.until \in Pattern /\ ~IsStarting(v) /\ h.since # None
         /\ h.since < TappedFrom(v)
    THEN [until |-> TappedFrom(v), pin |-> From(v.gen), ended |-> "no", found |-> NoFound]
    ELSE NoScan

RegisterOrScan(v, w, h) ==
    LET scan == ScanFor(v, h)
    IN  IF AdoptionHold(v, h) THEN PushHeld(v, w, [h EXCEPT !.adopting = TRUE])
        ELSE IF scan # NoScan THEN HoldWait(v, w, [h EXCEPT !.scan = scan])
        ELSE RegisterHeld(v, w, h, NoScan)

BeginWait(v, w, h) ==
    IF KnowsNoOutput(v) THEN HoldWait(v, w, h) ELSE RegisterOrScan(v, w, h)

Prepared(until, since, after) ==
    [until |-> until, since |-> since, after |-> after, end |-> End, scan |-> NoScan, adopting |-> FALSE,
     timedOut |-> FALSE, read |-> None]

\* The waiter a held wait stands for when it is answered without registering.
HeldWaiter(v, h) ==
    [until |-> h.until, since |-> h.since, scannedFrom |-> None,
     pin |-> IF OnScan(h) THEN h.scan.pin
             ELSE IF h.after = None THEN From(v.gen) ELSE After(h.after),
     from |-> IF h.since = None THEN h.end ELSE h.since, unread |-> TRUE,
     guessed |-> FALSE]

-----------------------------------------------------------------------------
(* Output, ends of runs, and time. *)

AnswerAll(v, W, q(_), status(_), run(_)) ==
    FoldSet(LAMBDA w, u : Answer(u, w, q(w), status(w), run(w)), v, W)

PassReadiness(v) == [v EXCEPT !.ready = "Ready"]

\* Mutant: a wait that matched stays registered.
TestLinesTwice(v, lines) ==
    LET hit == {w \in DOMAIN v.waiters : Matching(v.waiters[w].until, lines) # {}}
    IN  AnswerAll(v, hit, LAMBDA w : v.waiters[w], LAMBDA w : "Matched", LAMBDA w : child.gen)

\* Tests lines of the current run against the readiness pattern and the waits.
TestLines(v, lines) ==
    LET passed == IF v.ready = "Waiting" /\ Check \in Pattern /\ Matching(Check, lines) # {}
                  THEN PassReadiness(v) ELSE v
        Hits(w) == LET q == v.waiters[w]
                   IN  IF Counts(q.pin, v.gen) /\ q.until \in Pattern
                       THEN Matching(q.until, {at \in lines : at >= q.since}) ELSE {}
        hit == {w \in DOMAIN v.waiters : Hits(w) # {}}
    IN  AnswerAll([passed EXCEPT !.waiters = Without(@, hit)], hit, LAMBDA w : v.waiters[w],
                  LAMBDA w : "Matched", LAMBDA w : RunOf(Min(Hits(w))))

TapOutput(v, lines) ==
    TestLines([v EXCEPT !.tap = FoldLeft(Feed, @, lines)],
              {at \in ToSet(lines) : at >= v.tap.cursor})

EndedStatus(until, status, next) ==
    IF until \in States /\ Reached(until, next) THEN "Matched" ELSE status

\* Every held wait ends when g is None.  One on a scan only keeps how its run
\* ended; one on an adoption, or timed out on it, is answered later.
EndHeldWaits(v, g, status, next) ==
    LET EndsScan(h) == g # None /\ OnScan(h) /\ h.scan.ended = "no" /\ Counts(h.scan.pin, g)
        ended == {w \in DOMAIN v.held :
                    LET h == v.held[w]
                    IN  \/ g = None
                        \/ /\ ~OnScan(h) /\ ~h.adopting /\ ~h.timedOut
                           /\ h.after = None \/ Counts(After(h.after), g)}
        told == [w \in DOMAIN v.held |->
                   LET h == v.held[w]
                   IN  IF EndsScan(h)
                       THEN [h EXCEPT !.scan.ended = EndedStatus(h.until, status, next)]
                       ELSE h]
    IN  AnswerAll([v EXCEPT !.held = Without(told, ended)], ended,
                  LAMBDA w : HeldWaiter(v, v.held[w]),
                  LAMBDA w : EndedStatus(v.held[w].until, status, next), LAMBDA w : child.gen)

EndWaits(v, g, status, next) ==
    LET u == EndHeldWaits(v, g, status, next)
        ended == {w \in DOMAIN v.waiters : g = None \/ Counts(v.waiters[w].pin, g)}
    IN  AnswerAll([u EXCEPT !.waiters = Without(@, ended)], ended, LAMBDA w : v.waiters[w],
                  LAMBDA w : EndedStatus(v.waiters[w].until, status, next), LAMBDA w : child.gen)

EndRun(v, status, next) ==
    EndWaits([v EXCEPT !.runEnd = [gen |-> v.gen, status |-> status], !.ready = "None",
                       !.probes = {}],
             v.gen, status, next)

\* Lets go of the waits held on an adoption that settled.
ReleaseAdoptionWaits(v) ==
    LET released == {w \in DOMAIN v.held : v.held[w].adopting}
    IN  IF IsStarting(v) THEN v
        ELSE FoldSet(LAMBDA w, u : BeginWait(u, w, [v.held[w] EXCEPT !.adopting = FALSE]),
                     [v EXCEPT !.held = Without(@, released)], released)

\* Mutant: a wait held on an adoption has no deadline.
SettleOverdueReadsOnly(v, passed) ==
    LET due == {w \in DOMAIN v.held : ~v.held[w].adopting /\ w \in passed.read}
    IN  FoldSet(LAMBDA w, u : Refuse(u, w), [v EXCEPT !.held = Without(@, due)], due)

\* A wait whose own time passed while it was held on an adoption timed out; it
\* first gets its tail from the log when no tap has one.  Any other held past
\* its read is refused.
SettleOverdueHeldWaits(v, passed) ==
    LET due == {w \in DOMAIN v.held :
                  w \in IF v.held[w].adopting THEN passed.own ELSE passed.read}
        Settle(w, u) ==
            LET h == v.held[w]
            IN  IF h.adopting /\ TappedFrom(u) = None
                THEN HoldWait(u, w, [h EXCEPT !.adopting = FALSE, !.timedOut = TRUE])
                ELSE IF h.adopting \/ h.timedOut
                  THEN AnswerWithTail(u, w, HeldWaiter(u, h), "Waiting", child.gen, h.since,
                                      TailHeld(u.tap))
                ELSE Refuse(u, w)
    IN  FoldSet(Settle, [v EXCEPT !.held = Without(@, due)], due)

SendOverdueAnswers(v, due) ==
    FoldSet(LAMBDA w, u : Deliver(u, w, v.answers[w].outcome),
            [v EXCEPT !.answers = Without(@, due)], due)

\* What time has passed: a wait's own, that of the read a wait or answer is
\* held on, the readiness check's.
NoTime == [own |-> {}, read |-> {}, check |-> FALSE]

TimeOutReadiness(v, passed) ==
    IF passed.check /\ v.ready = "Waiting" THEN [v EXCEPT !.ready = "TimedOut"] ELSE v

\* Answers the waits whose condition holds or whose time passed.
SettleRegistered(v, passed) ==
    LET How(w) == IF CheckWait(v, v.waiters[w]) # "no" THEN CheckWait(v, v.waiters[w])
                  ELSE IF w \in passed.own THEN "Waiting" ELSE "no"
        settled == {w \in DOMAIN v.waiters : How(w) # "no"}
    IN  AnswerAll([v EXCEPT !.waiters = Without(@, settled)], settled, LAMBDA w : v.waiters[w],
                  How, LAMBDA w : child.gen)

\* Runs after every event of the loop.
SettleWaits(v, passed) ==
    LET held == SettleOverdueHeldWaits(ReleaseAdoptionWaits(v), passed)
        sent == SendOverdueAnswers(held, DOMAIN v.answers \cap passed.read)
    IN  SettleRegistered(TimeOutReadiness(sent, passed), passed)

-----------------------------------------------------------------------------
(* A read of the log lands. *)

\* `tail` is where the end of the log that was read begins and ends.
AnswerHeldWaits(v, tail) ==
    LET ends == {w \in DOMAIN v.held : OnEnd(v.held[w])}
        late == {w \in ends : v.held[w].timedOut}
        let == [v EXCEPT !.held = Without(@, ends)]
        told == FoldSet(LAMBDA w, u : AnswerWithTail(u, w, HeldWaiter(u, v.held[w]), "Waiting",
                                                     child.gen, v.held[w].since,
                                                     Min({TailLines, tail.upto - tail.at})),
                        let, late)
        seeded == IF KnowsNoOutput(told) /\ ends # late
                  THEN [told EXCEPT !.tap = SeedAt(@, tail.at, tail.upto)] ELSE told
        Settle(w, u) == IF v.held[w].since # None /\ PastEnd(u, v.held[w].since)
                        THEN Refuse(u, w) ELSE RegisterOrScan(u, w, v.held[w])
    IN  FoldSet(Settle, seeded, ends \ late)

RegisterScannedWaits(v, id, found) ==
    LET landed == {w \in DOMAIN v.held : OnScan(v.held[w]) /\ v.held[w].read = id}
    IN  FoldSet(LAMBDA w, u : RegisterHeld(u, w, v.held[w],
                                           [v.held[w].scan EXCEPT !.found = found[w]]),
                [v EXCEPT !.held = Without(@, landed)], landed)

\* Mutant: what was held while the log was read is not read next.
HandleLastLogRead(v, job, tail, found) ==
    LET lines == {w \in DOMAIN v.answers : v.answers[w].read = job.id}
        sent == FoldSet(LAMBDA w, u : Deliver(u, w, v.answers[w].outcome),
                        [v EXCEPT !.answers = Without(@, lines), !.jobs = @ \ {job}], lines)
        ended == IF job.end THEN AnswerHeldWaits(sent, tail) ELSE sent
    IN  IF v.read # job.id THEN sent
        ELSE [RegisterScannedWaits(ended, job.id, found) EXCEPT !.read = None]

HandleLogRead(v, job, tail, found) ==
    LET lines == {w \in DOMAIN v.answers : v.answers[w].read = job.id}
        sent == FoldSet(LAMBDA w, u : Deliver(u, w, v.answers[w].outcome),
                        [v EXCEPT !.answers = Without(@, lines), !.jobs = @ \ {job}], lines)
        ended == IF job.end THEN AnswerHeldWaits(sent, tail) ELSE sent
    IN  IF v.read # job.id THEN sent
        ELSE ReadLog([RegisterScannedWaits(ended, job.id, found) EXCEPT !.read = None])

-----------------------------------------------------------------------------
(* Runs begin and end. *)

Bump(v) == [v EXCEPT !.gen = @ + 1, !.timer = FALSE, !.adopted = FALSE]

StartReadiness(v) ==
    [v EXCEPT !.ready = IF Check = "none" THEN "None" ELSE "Waiting"]

BeginRun(v) == StartReadiness([v EXCEPT !.tap = BeginRunHere(@)])

\* A log check whose time passed under an earlier service counts as passed.
AdoptRun(v, past) ==
    LET begun == BeginRun(v)
    IN  IF past /\ Check \in Pattern THEN [begun EXCEPT !.ready = "Ready"] ELSE begun

ArmProbes(v) ==
    LET wanted == \/ v.ready = "Waiting" /\ Check = "port"
                  \/ \E w \in DOMAIN v.waiters : /\ v.waiters[w].until = "port"
                                                 /\ Counts(v.waiters[w].pin, v.gen)
    IN  [v EXCEPT !.probes = IF wanted THEN {v.gen} ELSE {}]

HandleProbePassed(v, pass) ==
    LET passed == IF v.ready = "Waiting" /\ Check = "port" THEN PassReadiness(v) ELSE v
        hit == {w \in DOMAIN v.waiters : /\ v.waiters[w].until = "port"
                                         /\ Counts(v.waiters[w].pin, v.gen)}
    IN  IF pass.gen # v.gen THEN v
        ELSE AnswerAll([passed EXCEPT !.waiters = Without(@, hit)], hit,
                       LAMBDA w : v.waiters[w], LAMBDA w : "Matched", LAMBDA w : pass.run)

ScheduleRestart(v) == [Bump(v) EXCEPT !.timer = TRUE]

RetirePane(v) ==
    LET ended == EndWaits([v EXCEPT !.read = None], None, "Stopped", "Exited")
    IN  [Bump(ended) EXCEPT !.probes = {}, !.tap = NewTap, !.streamed = None, !.ready = "None",
                            !.runEnd = [gen |-> None, status |-> "no"], !.launch = "None",
                            !.unsup = FALSE, !.state = "Gone"]

SettleUnsupervisedExit(v) ==
    IF v.retire THEN RetirePane(v)
    ELSE [Bump(v) EXCEPT !.unsup = FALSE, !.state = "Exited", !.intent = "FollowPolicy"]

\* Refused while a child runs unsupervised, and while a port the launch needs
\* is held by another process (`blocked`).
Spawn(v, blocked) ==
    LET free == IF v.unsup /\ ~child.alive THEN SettleUnsupervisedExit(v) ELSE v
    IN  IF IsStarting(v) \/ free.unsup \/ free.state = "Gone" THEN free
        ELSE IF blocked THEN [free EXCEPT !.state = "Blocked"]
        ELSE [BeginRun(Bump(free)) EXCEPT !.launch = "Spawn", !.state = "Starting"]

\* How a run ends: `again` is what the restart policy makes of it.
ApplyExit(v, ok, again, blocked) ==
    LET decision == AfterExit(v.intent, v.retire, again, ok)
        next == CASE decision \in {"Retire", "Stop"} -> "Exited"
                  [] decision \in {"RestartNow", "RestartLater"} -> "Restarting"
                  [] OTHER -> decision
        status == IF IsStop(v.intent) \/ IsRestart(v.intent) THEN "Stopped"
                  ELSE IF ok THEN "Exited" ELSE "Crashed"
        ended == [EndRun(v, status, next) EXCEPT !.state = next, !.intent = "FollowPolicy"]
    IN  CASE decision = "Retire" -> RetirePane(ended)
          [] decision = "RestartNow" -> Spawn(ended, blocked)
          [] decision = "RestartLater" -> ScheduleRestart(ended)
          [] OTHER -> ended

\* The handle goes, and with it what it had still to forward.
Dropped(v) == [v EXCEPT !.live = FALSE, !.next = 0, !.replay = <<>>]

HandleExit(v, ok, again, blocked) == ApplyExit(Dropped(v), ok, again, blocked)

StopPane(v) ==
    IF IsStarting(v) THEN [v EXCEPT !.pend = "Stop"]
    ELSE IF v.unsup /\ AcceptsStopRequest(v.intent) /\ ~child.alive THEN SettleUnsupervisedExit(v)
    ELSE IF (v.live \/ v.unsup) /\ ~AcceptsStopRequest(v.intent) THEN v
    ELSE IF v.live \/ v.unsup
      THEN [v EXCEPT !.intent = StopRequested(TRUE), !.state = "Stopping"]
    ELSE EndWaits([Bump(v) EXCEPT !.state = "Exited"], None, "Stopped", "Exited")

RestartPane(v, blocked) ==
    IF IsStarting(v) THEN [v EXCEPT !.pend = "Restart"]
    ELSE IF v.live /\ ~AcceptsRestartRequest(v.intent) THEN v
    ELSE IF v.live THEN [v EXCEPT !.intent = RestartRequested(TRUE), !.state = "Stopping"]
    ELSE Spawn(v, blocked)

ApplyPending(v, pend, blocked) ==
    IF v.state = "Gone" \/ pend = "None" THEN v
    ELSE IF v.retire /\ ~v.live /\ ~IsStarting(v) /\ ~v.unsup THEN RetirePane(v)
    ELSE IF pend = "Stop" THEN StopPane(v) ELSE RestartPane(v, blocked)

Taken(v) == [v EXCEPT !.launch = "None", !.pend = "None", !.carried = "Pending"]

\* The launched process is installed: its run is placed where its log says it
\* began, and what it logged before the handle connected, up to e, is fed.
InstallSpawned(v, e) ==
    LET from == Max({child.start, log.kept})
        placed == [Taken(v) EXCEPT !.live = TRUE, !.state = "Running", !.window = FALSE,
                                   !.tap = BeginRunAt(@, child.start), !.next = Max({from, e}),
                                   !.replay = <<>>, !.lost = @ \cup (child.start..(from - 1))]
    IN  TapOutput(ArmProbes(placed), [i \in 1..(e - from) |-> from + i - 1])

\* The launch failed, so its run ends as a crash.
InstallFailed(v, again) ==
    LET next == IF again THEN "Restarting" ELSE "Crashed"
        ended == [EndRun(Taken(v), "Crashed", next) EXCEPT !.state = next]
    IN  IF again THEN ScheduleRestart(ended) ELSE ended

HandleLaunchBlocked(v) ==
    EndWaits([Taken(v) EXCEPT !.ready = "None", !.state = "Blocked"], v.gen, "NotRunning", "Blocked")

\* The patterns a readiness check or a wait still looks for.
ReplayPatterns(v) ==
    (IF v.ready = "Waiting" THEN {Check} \cap Pattern ELSE {})
    \cup {v.waiters[w].until : w \in {x \in DOMAIN v.waiters : Counts(v.waiters[x].pin, v.gen)}}
    \cup {v.held[w].until : w \in DOMAIN v.held}

\* The handle forwards the lines looked for from the log up to e, where the
\* holder's frames begin.
StartReplay(v, from, e) ==
    LET patterns == ReplayPatterns(v) \cap Pattern
        first == Max({from, child.start, log.kept})
        wanted == UNION {Matching(p, first..(e - 1)) : p \in patterns}
        on == [v EXCEPT !.next = e, !.replay = SetToSortSeq(wanted, <),
                        !.lost = @ \cup (from..(Min({log.kept, e}) - 1))]
    IN  IF patterns = {} THEN [on EXCEPT !.tap = SeedAt(@, e, e)] ELSE on

\* The stream broke: the holder is looked for and adopted again.
Reconnect(v) ==
    [Bump(Dropped(v)) EXCEPT !.launch = "Reconnect", !.carried = v.state,
                             !.state = "Starting", !.adopted = TRUE]

SettleAdoption(v, e, past, window) ==
    LET again == v.launch = "Reconnect"
        from == IF again THEN v.tap.cursor ELSE child.start
        placed == [Taken(v) EXCEPT !.live = TRUE, !.state = IF again THEN v.carried ELSE "Running",
                                   !.streamed = End, !.tap = BeginRunAt(@, child.start)]
        run == IF again THEN placed ELSE AdoptRun([placed EXCEPT !.window = window], past)
    IN  StartReplay(ArmProbes(run), from, e)

\* A child that still runs is left unsupervised; a gone one's exit is applied
\* when this service ran it, and collected otherwise.
AdoptionFailed(v, again, blocked) ==
    LET left == [Taken(v) EXCEPT !.lost = IF v.tap.placed THEN @ \cup (v.tap.cursor..(End - 1))
                                          ELSE @]
    IN  IF child.alive /\ IsStop(v.intent)
        THEN StopPane([left EXCEPT !.unsup = TRUE, !.intent = "FollowPolicy"])
        ELSE IF child.alive
          THEN [left EXCEPT !.unsup = TRUE, !.state = "Unsupervised", !.intent = "FollowPolicy"]
        ELSE IF v.launch = "Reconnect"
          THEN ApplyExit([left EXCEPT !.state = v.carried], FALSE, again, blocked)
        ELSE [left EXCEPT !.state = v.carried]

-----------------------------------------------------------------------------
(* The loop. *)

Loop(v) == v.gen <= setup.gens /\ s' = SettleWaits(v, NoTime)

Controlled(act, blocked) ==
    CASE act = "Start" -> IF s.live \/ IsStarting(s) THEN s ELSE Spawn(s, blocked)
      [] act = "Restart" -> RestartPane(s, blocked)
      [] act = "Stop" -> StopPane(s)
      [] act = "Wait" -> s

Control(act, blocked) ==
    /\ s.state # "Gone"
    /\ spent < MaxSpent
    /\ spent' = spent + 1
    /\ Loop(Controlled(act, blocked))
    /\ UNCHANGED <<setup, log, child, asked, passes>>

\* A request that waits, on its own or with the action it rides on.  Only a
\* restart, and a start of what does not run, wait on a fresh run.
Ask(w, act, until, since, blocked) ==
    LET fresh == act = "Restart" \/ (act = "Start" /\ ~s.live /\ ~IsStarting(s))
        wait == Prepared(until, since, IF fresh THEN s.gen ELSE None)
    IN  /\ w \notin asked
        /\ s.state # "Gone"
        /\ asked' = asked \cup {w}
        /\ IF PastEnd(s, since) \/ (until = "ready" /\ Check = "none")
           THEN Loop(Refuse(s, w))
           ELSE Loop(BeginWait(Controlled(act, blocked), w, wait))
        /\ UNCHANGED <<setup, log, child, passes, spent>>

\* The process's row is removed from its project.
Removed ==
    /\ s.state # "Gone" /\ ~s.retire
    /\ LET marked == [s EXCEPT !.retire = TRUE]
       IN  Loop(IF s.live \/ IsStarting(s) \/ s.unsup THEN StopPane(marked) ELSE RetirePane(marked))
    /\ UNCHANGED <<setup, log, child, asked, passes, spent>>

Respawn(blocked) ==
    /\ s.timer
    /\ Loop(Spawn([s EXCEPT !.timer = FALSE], blocked))
    /\ UNCHANGED <<setup, log, child, asked, passes, spent>>

\* The launch settles; `gone`: the exit was among what the process sent first.
Launched(e, gone, ok, again, blocked) ==
    LET installed == InstallSpawned(s, e)
        left == IF gone THEN HandleExit(installed, ok, again, blocked) ELSE installed
    IN  /\ s.launch = "Spawn" /\ child.gen = s.gen
        /\ gone => ~child.alive /\ e = End
        /\ Loop(ApplyPending(left, s.pend, blocked))
        /\ UNCHANGED <<setup, log, child, asked, passes, spent>>

LaunchFails(again, blocked) ==
    /\ s.launch = "Spawn" /\ child.gen # s.gen
    /\ Loop(ApplyPending(InstallFailed(s, again), s.pend, blocked))
    /\ UNCHANGED <<setup, log, child, asked, passes, spent>>

LaunchIsBlocked(blocked) ==
    /\ s.launch = "Spawn" /\ child.gen # s.gen
    /\ Loop(ApplyPending(HandleLaunchBlocked(s), s.pend, blocked))
    /\ UNCHANGED <<setup, log, child, asked, passes, spent>>

Adopted(e, past, window) ==
    /\ s.launch \in {"Adopt", "Reconnect"}
    /\ Loop(ApplyPending(SettleAdoption(s, e, past, window), s.pend, FALSE))
    /\ UNCHANGED <<setup, log, child, asked, passes, spent>>

AdoptFails(again, blocked) ==
    /\ s.launch \in {"Adopt", "Reconnect"}
    /\ Loop(ApplyPending(AdoptionFailed(s, again, blocked), s.pend, blocked))
    /\ UNCHANGED <<setup, log, child, asked, passes, spent>>

\* The next of what the handle forwards; a resync skips what rotation took.
Output ==
    /\ s.live
    /\ \/ /\ s.replay # <<>>
          /\ Loop(TapOutput([s EXCEPT !.replay = Tail(@)], <<Head(s.replay)>>))
       \/ /\ s.replay # <<>> /\ Head(s.replay) < log.kept
          /\ Loop([s EXCEPT !.replay = Tail(@), !.lost = @ \cup {Head(s.replay)}])
       \/ /\ s.replay = <<>> /\ s.next < End
          /\ Loop(TapOutput([s EXCEPT !.next = @ + 1], <<s.next>>))
       \/ /\ s.replay = <<>> /\ s.next < log.kept
          /\ Loop([s EXCEPT !.next = log.kept, !.lost = @ \cup (s.next..(log.kept - 1))])
    /\ UNCHANGED <<setup, log, child, asked, passes, spent>>

Exit(ok, again, blocked) ==
    /\ s.live /\ ~child.alive /\ s.replay = <<>> /\ s.next = End
    /\ Loop(HandleExit(s, ok, again, blocked))
    /\ UNCHANGED <<setup, log, child, asked, passes, spent>>

Unreadable ==
    /\ s.live /\ spent < MaxSpent
    /\ spent' = spent + 1
    /\ Loop(Reconnect(s))
    /\ UNCHANGED <<setup, log, child, asked, passes>>

\* A stop's poll finds the unsupervised child gone.
UnsupervisedExits ==
    /\ s.unsup /\ ~child.alive /\ AwaitsForceStop(s.intent)
    /\ Loop(SettleUnsupervisedExit(s))
    /\ UNCHANGED <<setup, log, child, asked, passes, spent>>

\* The log held lines kept..size-1 when it was read, or could not be, as a
\* retired pane's never is.
LogRead(job, readable, kept, size) ==
    LET tail == [at |-> Max({kept, size - Ring}), upto |-> size]
        Found(h) == LET from == Max({h.since, kept})
                    IN  [from |-> from, at |-> First(Matching(h.until, from..(h.scan.until - 1)))]
    IN  /\ s.state = "Gone" => ~readable
        /\ Loop(HandleLogRead(s, job,
                              IF readable THEN tail ELSE [at |-> 0, upto |-> 0],
                              [w \in DOMAIN s.held |->
                                 IF readable /\ OnScan(s.held[w]) THEN Found(s.held[w])
                                 ELSE NoFound]))
        /\ UNCHANGED <<setup, log, child, asked, passes, spent>>

ProbePassed(pass) ==
    /\ passes' = passes \ {pass}
    /\ Loop(HandleProbePassed(s, pass))
    /\ UNCHANGED <<setup, log, child, asked, spent>>

Reading(v) == DOMAIN v.answers \cup {w \in DOMAIN v.held : ~v.held[w].adopting}

\* The loop wakes at a deadline.  A deadline that passes while it handles an
\* event is settled by the wake that follows at once.
Wake(passed) ==
    /\ passed.read \subseteq Reading(s)
    /\ SettleWaits(s, passed) # s
    /\ s' = SettleWaits(s, passed)
    /\ UNCHANGED <<setup, log, child, asked, passes, spent>>

-----------------------------------------------------------------------------
(* The process, its log, the probes and the clocks. *)

ChildStarts ==
    /\ s.launch = "Spawn" /\ child.gen # s.gen
    /\ child' = [gen |-> s.gen, alive |-> TRUE, start |-> End]
    /\ UNCHANGED <<setup, log, s, asked, passes, spent>>

ChildPrints(text) ==
    /\ child.alive /\ End < setup.lines
    /\ log' = [log EXCEPT !.line = Append(@, [text |-> text, run |-> child.gen])]
    /\ s' = IF s.unsup THEN [s EXCEPT !.lost = @ \cup {End}] ELSE s
    /\ UNCHANGED <<setup, child, asked, passes, spent>>

ChildDies ==
    /\ child.alive
    /\ child' = [child EXCEPT !.alive = FALSE]
    /\ UNCHANGED <<setup, log, s, asked, passes, spent>>

LogRotates ==
    /\ log.kept < Min({End, setup.kept})
    /\ log' = [log EXCEPT !.kept = @ + 1]
    /\ UNCHANGED <<setup, child, s, asked, passes, spent>>

Probe(g) ==
    /\ g \in s.probes /\ child.alive
    /\ s' = [s EXCEPT !.probes = @ \ {g}]
    /\ passes' = passes \cup {[gen |-> g, run |-> child.gen]}
    /\ UNCHANGED <<setup, log, child, asked, spent>>

\* The run outlasts its quick-exit window.
RunTime ==
    /\ "running" \in setup.until /\ s.live /\ ~s.window
    /\ s' = [s EXCEPT !.window = TRUE]
    /\ UNCHANGED <<setup, log, child, asked, passes, spent>>

-----------------------------------------------------------------------------

\* A pane that never ran here: with no log, with an earlier service's log, or
\* with a process an earlier service left running, being adopted.
Init ==
    /\ setup \in Setups
    /\ \E lines \in {<<>>} \cup {<<[text |-> p, run |-> 0]>> : p \in Pattern},
          running \in BOOLEAN :
         /\ log = [line |-> lines, kept |-> 0]
         /\ child = [gen |-> 0, alive |-> running, start |-> 0]
         /\ s = [tap |-> NewTap, live |-> FALSE, unsup |-> FALSE, retire |-> FALSE,
                 launch |-> IF running THEN "Adopt" ELSE "None", pend |-> "None",
                 state |-> IF running THEN "Starting" ELSE "Pending", carried |-> "Pending",
                 gen |-> IF running THEN 1 ELSE 0, intent |-> "FollowPolicy", timer |-> FALSE,
                 streamed |-> None, next |-> 0, replay |-> <<>>, window |-> FALSE,
                 ready |-> "None", runEnd |-> [gen |-> None, status |-> "no"],
                 probes |-> {}, waiters |-> <<>>, held |-> <<>>, answers |-> <<>>,
                 read |-> None, jobs |-> {}, sent |-> [w \in Wait |-> <<>>],
                 lost |-> {}, adopted |-> running]
    /\ asked = {} /\ passes = {} /\ spent = 0

Next ==
    \/ \E w \in Wait, act \in {"Wait", "Start", "Restart", "Stop"}, blocked \in BOOLEAN,
          until \in setup.until :
            \E since \in {None} \cup (IF until \in Pattern THEN 0..(End + 1) ELSE {}) :
               Ask(w, act, until, since, blocked)
    \/ \E act \in {"Start", "Restart", "Stop"}, blocked \in BOOLEAN : Control(act, blocked)
    \/ Removed \/ Output \/ Unreadable \/ UnsupervisedExits
    \/ \E blocked \in BOOLEAN : Respawn(blocked) \/ LaunchIsBlocked(blocked)
    \/ \E again, blocked \in BOOLEAN : LaunchFails(again, blocked) \/ AdoptFails(again, blocked)
    \/ \E ok, again, blocked \in BOOLEAN : Exit(ok, again, blocked)
    \/ \E e \in child.start..End, gone, ok, again, blocked \in BOOLEAN :
            Launched(e, gone, ok, again, blocked)
    \/ \E e \in child.start..End, past \in BOOLEAN, window \in {FALSE, "running" \in setup.until} :
            Adopted(e, past, window)
    \/ \E job \in s.jobs, readable \in BOOLEAN : \E kept \in job.kept..log.kept,
          size \in job.size..End : LogRead(job, readable, kept, size)
    \/ \E pass \in passes : ProbePassed(pass)
    \/ ChildStarts \/ ChildDies \/ LogRotates \/ RunTime
    \/ \E text \in Pattern : ChildPrints(text)
    \/ \E g \in 0..setup.gens : Probe(g)
    \/ \E own, read \in SUBSET asked, check \in BOOLEAN :
            Wake([own |-> own, read |-> read, check |-> check])

Spec == Init /\ [][Next]_vars

-----------------------------------------------------------------------------
(* Properties. *)

Places(w) ==
    <<w \in DOMAIN s.waiters, w \in DOMAIN s.held, w \in DOMAIN s.answers, s.sent[w] # <<>>>>

\* A log wait that was registered and did not match saw no line that matched,
\* from the cursor it was asked from, or from `scanned_from` when its answer
\* names one, up to the cursor its answer gives (register_or_scan, "so no line
\* from the cursor on is missed").  Excepted are the answers made without the
\* log read (`unread`).
NoLineMissed ==
    \A w \in Wait : \A i \in DOMAIN s.sent[w] :
        s.sent[w][i].missed => s.sent[w][i].unread

\* A wait that rides on a start or restart is never matched by the run it
\* replaced: by its lines, its port, its readiness or its running (RunPin),
\* unless the service lost that run and adopted it again.
FreshIsFresh ==
    \A w \in Wait : \A i \in DOMAIN s.sent[w] : s.sent[w][i].stale => s.sent[w][i].adopted

AllOverdue(v) == SettleWaits(v, [own |-> asked, read |-> Reading(v), check |-> TRUE])

\* A wait asked is answered once and in time.  It is in one place: registered,
\* held, held for its tail or answered (begin_wait, settle_waits, end_waits and
\* handle_log_read hand it on without losing or copying it).  Whatever is held
\* on a log has a read that will land and let go of it, or a read in flight that
\* starts the next (read_log); and whenever the deadlines all pass, three wakes
\* of the loop answer every wait asked (settle_waits; three for one held on an
\* adoption, then for its log's end, then for its tail).
AnsweredOnce ==
    LET ids == {job.id : job \in s.jobs}
    IN  /\ \A w \in Wait :
             /\ Len(s.sent[w]) <= 1
             /\ Cardinality({i \in 1..4 : Places(w)[i]}) = IF w \in asked THEN 1 ELSE 0
        /\ \A w \in DOMAIN s.held : ~s.held[w].adopting =>
              s.read \in ids \/ s.held[w].read \in ids
        /\ s.state # "Gone" =>
             \A w \in DOMAIN s.answers : s.read \in ids \/ s.answers[w].read \in ids
        /\ \A w \in asked : AllOverdue(AllOverdue(AllOverdue(s))).sent[w] # <<>>

=============================================================================
