------------------------------- MODULE Stacks -------------------------------
(***************************************************************************)
(* One project's stored stack, the processes that write it, and the        *)
(* service that applies it, raises the edits agents made and records what  *)
(* the next service must know.                                             *)
(*                                                                         *)
(*   muster-store   stack_rows.rs, project_rows.rs, edit_log_rows.rs,      *)
(*                  run_rows.rs: each write is one transaction             *)
(*   runtime.rs     stack_changed, refresh_stack, load, raise_edits,       *)
(*                  settings_changed, the letting go of an unregistered    *)
(*                  project, the exit                                      *)
(*   Recorder       the thread that writes the service's own records       *)
(*                                                                         *)
(* Several processes share the store.  A handler of the service reads the  *)
(* revision, the stack, the ended runs, the edits and the mark in separate *)
(* transactions, and a writer may commit between any two of them, so each  *)
(* read is a step: `svc.at' says which comes next.  A writer tells the     *)
(* service after its commit, late or never, so StackChanged and            *)
(* SettingsChanged may reach the service at any time.                      *)
(*                                                                         *)
(* A stack is a record [reg, version, has]: the registration it belongs to *)
(* (0: not registered), which commit wrote it, and whether the process is  *)
(* in it.  An edit is a record [id, reg, fresh, moved]: ids are SQLite row *)
(* ids, so the id of a newest row that was deleted is given out again;     *)
(* `fresh' says no edit had the id before, `moved' that its commit moved   *)
(* the stack's revision.                                                   *)
(***************************************************************************)
EXTENDS Integers, Sequences, FiniteSets, FiniteSetsExt, Recorder

CONSTANTS
    Retention,     \* EDIT_LOG_RETENTION
    Budgets        \* bound: how often each of these may happen, together
                   \*   writes    commits by writers
                   \*   requests  requests to the service
                   \*   runs      ends and starts of the process
                   \*   faults    failed reads, writes and crashes
                   \*   services  services after the first

(* A record on its way to the store: a mark, or the process's end or start. *)
Record == [kind : {"raised", "ended", "cleared"}, through : Nat, n : Nat]

ASSUME StacksConstants == Retention \in Nat \ {0} /\ Nothing \notin Record

VARIABLES
    store,      \* the database
    svc,        \* the service's loop
    recorder,   \* its store recorder
    ghost,      \* what the properties speak of and no code keeps
    left        \* what is left of one of the budgets

vars == <<store, svc, recorder, ghost, left>>

Spend(what) ==
    /\ left[what] > 0
    /\ left' = [left EXCEPT ![what] = @ - 1]

-----------------------------------------------------------------------------
(* The database. *)

EmptyStore ==
    [reg |-> 0, counter |-> 0, rev |-> 0, version |-> 0, has |-> FALSE,
     edits |-> {}, raised |-> 0, ended |-> FALSE]

StoredStack == [reg |-> store.reg, version |-> store.version, has |-> store.has]

(* stack_revision reads none for a project that has no row. *)
NoRow == -1

StoredRevision == IF store.reg = 0 THEN NoRow ELSE store.rev

Ids(E) == {e.id : e \in E}

Newest(E) == Max(Ids(E) \cup {0})

(* register: the project's row, a new one with nothing in it when it has
   none. *)
Register(d) ==
    IF d.reg # 0 THEN d ELSE [d EXCEPT !.reg = ghost.regs + 1]

(* The counter is the whole store's, so no revision is ever given twice. *)
BumpRevision(d) ==
    [d EXCEPT !.counter = @ + 1, !.rev = d.counter + 1, !.version = @ + 1]

(* record_edit: only an agent's edit is kept, and the newest few of those. *)
RecordEdit(d, agent, moved) ==
    LET new == [id |-> Newest(d.edits) + 1, reg |-> d.reg, moved |-> moved,
                fresh |-> Newest(d.edits) + 1 > ghost.ids]
        all == d.edits \cup {new}
    IN  IF ~agent THEN d
        ELSE [d EXCEPT !.edits = {e \in all :
                 Cardinality({f \in all : f.id > e.id}) < Retention}]

AddProcess(d, agent) ==
    RecordEdit(BumpRevision([Register(d) EXCEPT !.has = TRUE]), agent, TRUE)

ChangeProcess(d, agent) == RecordEdit(BumpRevision(d), agent, TRUE)

(* The end of its last run goes with its row. *)
RemoveProcess(d, agent) ==
    RecordEdit(BumpRevision([d EXCEPT !.has = FALSE, !.ended = FALSE]),
               agent, TRUE)

(* Mutant: the project's idle stop changes unseen. *)
SetIdleStopUnseen(d) == [d EXCEPT !.version = @ + 1]

(* import and set_idle_stop write no edit. *)
Import(d, has) ==
    BumpRevision([Register(d) EXCEPT !.has = has, !.ended = @ /\ has])

SetIdleStop(d) == BumpRevision(d)

(* An agent's change of the settings is an edit of every project, and moves
   no revision. *)
SaveSettings(d) == RecordEdit(d, TRUE, FALSE)

(* Everything about the project goes with its row. *)
RemoveProject(d) ==
    [EmptyStore EXCEPT !.counter = d.counter, !.version = d.version + 1]

(* mark_raised, record_end and clear_end: nothing when the project, or the
   process, has no row. *)
MarkRaised(d, through) ==
    IF d.reg = 0 THEN d ELSE [d EXCEPT !.raised = Max({@, through})]

RecordEnd(d) == [d EXCEPT !.ended = d.has]

(* Mutant: a process that runs again keeps its end. *)
ClearNothing(d) == d

ClearEnd(d) == [d EXCEPT !.ended = FALSE]

Write(d, record) ==
    CASE record.kind = "raised" -> MarkRaised(d, record.through)
      [] record.kind = "ended" -> RecordEnd(d)
      [] record.kind = "cleared" -> ClearEnd(d)

-----------------------------------------------------------------------------
(* Writers: the CLI and the MCP server, in processes of their own. *)

Writes ==
    (IF store.has
     THEN UNION {{ChangeProcess(store, agent), RemoveProcess(store, agent)} :
                 agent \in BOOLEAN}
     ELSE {AddProcess(store, agent) : agent \in BOOLEAN})
    \cup (IF store.reg = 0 THEN {}
          ELSE {SetIdleStop(store), SaveSettings(store), RemoveProject(store)})
    \cup {Import(store, has) : has \in BOOLEAN}

Commit ==
    /\ Spend("writes")
    /\ \E d \in Writes :
          /\ store' = d
          /\ ghost' = [ghost EXCEPT !.regs = Max({@, d.reg}),
                                    !.ids = Max({@, Newest(d.edits)}),
                                    !.same = @ /\ d.has,
                                    !.asked = IF d.reg = 0 THEN 0 ELSE @,
                                    !.unmarked = @ \cup
                                        IF d.reg = 0 THEN ghost.raised ELSE {}]
    /\ UNCHANGED <<svc, recorder>>

-----------------------------------------------------------------------------
(* The service's loop. *)

Unloaded ==
    [up |-> TRUE, loaded |-> FALSE, rev |-> NoRow,
     stack |-> [reg |-> 0, version |-> 0, has |-> FALSE], mark |-> 0,
     unregistered |-> FALSE, shows |-> FALSE, at |-> "idle", task |-> "none",
     got |-> NoRow, read |-> {}]

Down == [Unloaded EXCEPT !.up = FALSE]

Resting == svc.up /\ svc.at = "idle"

(* Mutant: the revision is read once the handler is done. *)
FinishThenRevision(v) ==
    [v EXCEPT !.at = "idle", !.task = "none", !.got = NoRow, !.read = {},
              !.rev = IF v.loaded THEN StoredRevision ELSE @]

(* The handler is over. *)
Finish(v) ==
    [v EXCEPT !.at = "idle", !.task = "none", !.got = NoRow, !.read = {}]

(* A request is answered from the stack applied, v's. *)
Answered(g, v) ==
    IF svc.task # "request" THEN g
    ELSE [g EXCEPT !.asked = 0,
                   !.stale = @ \/ v.stack.version < g.asked]

(* An unloaded project needs nothing: it reads its stack when it loads. *)
StackChanged ==
    /\ Resting /\ svc.loaded
    /\ svc' = [svc EXCEPT !.at = "revision", !.task = "change"]
    /\ UNCHANGED <<store, recorder, ghost, left>>

(* settings_changed raises every loaded project's edits. *)
SettingsChanged ==
    /\ Resting /\ svc.loaded
    /\ svc' = [svc EXCEPT !.at = "edits", !.task = "settings"]
    /\ UNCHANGED <<store, recorder, ghost, left>>

(* Up or Control: a loaded project is refreshed, another is loaded. *)
Request ==
    /\ Resting
    /\ Spend("requests")
    /\ svc' = [svc EXCEPT !.task = "request",
                          !.at = IF svc.loaded THEN "compare" ELSE "revision"]
    /\ ghost' = [ghost EXCEPT !.asked = IF store.reg = 0 THEN 0
                                        ELSE store.version]
    /\ UNCHANGED <<store, recorder>>

(* refresh_stack: nothing to do at the revision last applied. *)
RefreshStack ==
    /\ svc.at = "compare"
    /\ IF StoredRevision = svc.rev
       THEN /\ svc' = Finish(svc)
            /\ ghost' = Answered(ghost, svc)
       ELSE /\ svc' = [svc EXCEPT !.at = "revision"]
            /\ UNCHANGED ghost
    /\ UNCHANGED <<store, recorder, left>>

ReadRevision ==
    /\ svc.at = "revision"
    /\ svc' = [svc EXCEPT !.at = "stack", !.got = StoredRevision]
    /\ UNCHANGED <<store, recorder, ghost, left>>

(* stack_changed's stack: an empty one once the project is not registered.
   A process it lacks is retired, and shows no end any more. *)
ApplyStack(v, stack) ==
    [v EXCEPT !.rev = v.got, !.stack = stack, !.unregistered = (stack.reg = 0),
              !.shows = @ /\ stack.has, !.at = "edits"]

(* The records owed. *)
Numbers == {record.n : record \in Owed(recorder)}

(* load's stack: a project that is not registered is refused, unless
   holders show it still runs something. *)
LoadStack(v, stack) ==
    [v EXCEPT !.stack = stack, !.unregistered = (stack.reg = 0), !.at = "ends"]

ReadStack ==
    /\ svc.at = "stack"
    /\ \/ /\ svc.loaded
          /\ svc' = ApplyStack(svc, StoredStack)
          /\ UNCHANGED ghost
       \/ /\ ~svc.loaded
          /\ svc' = LoadStack(svc, StoredStack)
          /\ ghost' = [ghost EXCEPT !.same = (Numbers = {})]
       \/ /\ ~svc.loaded /\ store.reg = 0
          /\ svc' = Unloaded
          /\ UNCHANGED ghost
    /\ UNCHANGED <<store, recorder, left>>

(* restore_ends: only the ends of processes of the stack that was read. *)
RestoreEnds(v, ended) == [v EXCEPT !.shows = v.stack.has /\ ended]

ReadEnds ==
    /\ svc.at = "ends"
    /\ svc' = [RestoreEnds(svc, store.ended) EXCEPT !.at = "edits"]
    /\ UNCHANGED <<store, recorder, ghost, left>>

ReadEdits ==
    /\ svc.at = "edits"
    /\ svc' = [svc EXCEPT !.at = "mark", !.read = store.edits]
    /\ UNCHANGED <<store, recorder, ghost, left>>

(* A record on its way to the store, numbered in the order of sending. *)
Numbered(kind, through) ==
    [kind |-> kind, through |-> through, n |-> ghost.sent + 1]

(* Mutant: the stored mark is not asked for. *)
RaisedHere(v) == v.mark

(* raise_edits' mark: the service's own, else the stored one. *)
Raised(v) == IF v.mark # 0 THEN v.mark ELSE store.raised

ToRaise(v) == {e \in v.read : e.id > Raised(v)}

(* The rest of raise_edits, and of the handler: each edit past the mark is
   raised, and the mark moves to the newest edit read, on record when it was
   not there; a load is then complete. *)
RaiseEdits ==
    /\ svc.at = "mark"
    /\ LET new == Newest(svc.read)
           marks == svc.read # {} /\ Raised(svc) # new
           v == [svc EXCEPT !.mark = new, !.loaded = TRUE,
                            !.rev = IF svc.loaded THEN @ ELSE svc.got]
           g == [ghost EXCEPT !.again = @ \cup (ToRaise(svc) \cap ghost.raised),
                              !.raised = @ \cup ToRaise(svc),
                              !.owing = FALSE,
                              !.sent = IF marks THEN @ + 1 ELSE @]
       IN  /\ svc' = Finish(v)
           /\ ghost' = Answered(g, v)
           /\ recorder' = IF marks THEN Send(recorder, Numbered("raised", new))
                          ELSE recorder
    /\ UNCHANGED <<store, left>>

(* A read fails and the handler refuses; a stack_changed that applied the
   stack before leaves the edits unraised. *)
ReadFails ==
    /\ svc.up /\ ~Resting
    /\ Spend("faults")
    /\ svc' = IF svc.loaded THEN Finish(svc) ELSE Unloaded
    /\ ghost' = [ghost EXCEPT !.asked = 0,
                    !.owing = @ \/ (svc.loaded /\ svc.at \in {"edits", "mark"})]
    /\ UNCHANGED <<store, recorder>>

(* The edits raised whose mark only the service knows. *)
Unsaved == {e \in ghost.raised : e.id > store.raised}

(* The tick lets go of an unregistered project that runs nothing. *)
LetGo ==
    /\ Resting /\ svc.loaded /\ svc.unregistered
    /\ svc' = Unloaded
    /\ ghost' = [ghost EXCEPT !.unmarked = @ \cup Unsaved]
    /\ UNCHANGED <<store, recorder, left>>

(* store_end: the process's run ended on its own, or it runs again. *)
StoreEnd(ended) ==
    /\ Resting /\ svc.loaded /\ svc.stack.has
    /\ svc.shows # ended
    /\ Spend("runs")
    /\ svc' = [svc EXCEPT !.shows = ended]
    /\ recorder' = Send(recorder, Numbered(IF ended THEN "ended" ELSE "cleared", 0))
    /\ ghost' = [ghost EXCEPT !.sent = @ + 1]
    /\ UNCHANGED store

-----------------------------------------------------------------------------
(* The recorder's thread, and the end of the service. *)

Take ==
    /\ CanTake(recorder)
    /\ recorder' = TakeNext(recorder)
    /\ UNCHANGED <<store, svc, ghost, left>>

(* One round of `land' for the record in hand. *)
Land ==
    /\ recorder.hand # Nothing
    /\ \E answer \in {"ok", "busy", "refused"}, overBudget \in BOOLEAN :
       \E round \in Rounds(recorder, answer, overBudget) :
          /\ IF answer = "ok" THEN UNCHANGED left
             ELSE Spend("faults")
          /\ IF round = "again" THEN UNCHANGED <<store, recorder, ghost>>
             ELSE /\ recorder' = Settled(recorder)
                  /\ store' = IF round = "stored"
                              THEN Write(store, recorder.hand) ELSE store
                  /\ ghost' = [ghost EXCEPT ![round] = @ \cup {recorder.hand.n}]
    /\ UNCHANGED svc

DrainPasses ==
    /\ recorder.drain = "set"
    /\ recorder' = [recorder EXCEPT !.drain = "passed"]
    /\ UNCHANGED <<store, svc, ghost, left>>

(* The loop exits: the supervisors go, so nothing more is sent, and the
   records sent are flushed. *)
Exit ==
    /\ Resting
    /\ svc' = Down
    /\ recorder' = BeginFlush(recorder)
    /\ UNCHANGED <<store, ghost, left>>

(* The flush was answered, or the wait for it is over: a notice then counts
   what was not confirmed, and the record being written may still land as
   the process ends. *)
ExitFlushed ==
    /\ \/ /\ recorder.flush = "answered"
          /\ UNCHANGED <<store, ghost>>
       \/ /\ recorder.flush = "waits" /\ recorder.drain = "passed"
          /\ store' \in {store} \cup IF recorder.hand = Nothing THEN {}
                                     ELSE {Write(store, recorder.hand)}
          /\ ghost' = [ghost EXCEPT !.counted =
                          @ \cup IF recorder.pending > 0 THEN Numbers ELSE {}]
    /\ recorder' = NewRecorder
    /\ UNCHANGED <<svc, left>>

(* The process dies, with all that it had not written. *)
Crash ==
    /\ svc.up \/ recorder.flush # "no"
    /\ Spend("faults")
    /\ svc' = Down
    /\ recorder' = NewRecorder
    /\ ghost' = [ghost EXCEPT !.lost = @ \cup Numbers, !.asked = 0]
    /\ UNCHANGED store

NextService ==
    /\ ~svc.up /\ recorder.flush = "no"
    /\ Spend("services")
    /\ svc' = Unloaded
    /\ ghost' = [ghost EXCEPT !.owing = FALSE, !.unmarked = @ \cup Unsaved]
    /\ UNCHANGED <<store, recorder>>

-----------------------------------------------------------------------------
Init ==
    /\ store = EmptyStore
    /\ svc = Unloaded
    /\ recorder = NewRecorder
    /\ ghost = [regs |-> 0,      \* registrations so far
                ids |-> 0,       \* the highest edit id given out
                raised |-> {},   \* the edits raised
                again |-> {},    \* those raised more than once
                unmarked |-> {}, \* those whose mark was forgotten
                owing |-> FALSE, \* a failed read left edits unraised
                asked |-> 0,     \* the stored version when the request came
                stale |-> FALSE, \* a request was answered from an older one
                same |-> FALSE,  \* the process kept its row since the load
                sent |-> 0,      \* the records sent
                stored |-> {}, told |-> {},      \* landed; given up, said so
                counted |-> {}, lost |-> {}]     \* unconfirmed; with a crash
    /\ left \in Budgets

Next ==
    \/ Commit
    \/ StackChanged \/ SettingsChanged \/ Request
    \/ RefreshStack \/ ReadRevision \/ ReadStack \/ ReadEnds \/ ReadEdits
    \/ RaiseEdits \/ ReadFails \/ LetGo
    \/ \E ended \in BOOLEAN : StoreEnd(ended)
    \/ Take \/ Land \/ DrainPasses
    \/ Exit \/ ExitFlushed \/ Crash \/ NextService

Spec == Init /\ [][Next]_vars

-----------------------------------------------------------------------------
(* What the service promises. *)

(* A request about a registered project is answered from a stack no older
   than the one stored when it arrived, whether or not the writer told the
   service: runtime.rs compares revisions, and stack_changed and load read
   the revision before the stack. *)
ServedIsFresh == ~ghost.stale

(* Once the service has applied the stored revision every edit that moved a
   revision and is still in the log was raised, by this service or one
   before it, unless reading the edits failed after the stack was applied,
   or the edit has the row id of a removed one.  And none is raised twice,
   by one service or by two, unless its mark was forgotten: not stored yet
   when the service ended or let the project go, or removed with the
   project. *)
EditsAnnounced ==
    /\ Resting /\ svc.loaded /\ svc.rev = StoredRevision /\ ~ghost.owing =>
         \A e \in store.edits : e.moved /\ e.fresh => e \in ghost.raised
    /\ ghost.again \subseteq ghost.unmarked

(* Every record sent is stored, given up with a notice, counted in one, or
   lost in a crash, in the order of sending, or still owed; and an answered
   flush leaves none owed. *)
RecordsAccounted ==
    LET settled == ghost.stored \cup ghost.told \cup ghost.counted
                       \cup ghost.lost
    IN  /\ settled \cup Numbers = 1..ghost.sent
        /\ \A a \in settled, b \in Numbers : a < b
        /\ recorder.pending = Cardinality(Numbers)
        /\ recorder.flush = "answered" => Numbers = {}

(* Once every record is stored the database holds the end the service shows,
   so the next service shows the same, as long as the process kept its row
   since the service loaded it with no record owed. *)
EndsAgree ==
    Resting /\ svc.loaded /\ ghost.same /\ ghost.stored = 1..ghost.sent =>
        store.ended = svc.shows

=============================================================================
