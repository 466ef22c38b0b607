------------------------------- MODULE Todos -------------------------------
(***************************************************************************)
(* The shared todos of one project: the todos table, the agents (and the    *)
(* human, an agent with another label) that add, claim, change and delete   *)
(* them, and one agent paging through a listing meanwhile.  Every store     *)
(* operation is one transaction, so it is one step.                         *)
(*                                                                         *)
(* Titles, authors and write times are left out: nothing is decided by      *)
(* them.  Ids are numbered as they are generated.  A lease is kept as the   *)
(* time left: `left >= 0` is `claimed_until >= now`.  The notes and the     *)
(* key-values are tables of the same shape, written by the same upsert and  *)
(* paged in the second of the two ways below.                               *)
(***************************************************************************)
EXTENDS Integers, FiniteSets, FiniteSetsExt, TLC

CONSTANTS Agent,         \* author labels
          MaxTodos,      \* ids generated in all
          LeaseMax,      \* TODO_LEASE_MAX
          LeaseDefault,  \* TODO_LEASE_DEFAULT
          PageSize,      \* the limit of one page
          MaxPosition    \* bound: the last rowid handed out

Nobody == "nobody"

ASSUME TodosAssumption ==
    /\ Nobody \notin Agent
    /\ MaxTodos \in Nat
    /\ LeaseMax \in Nat \ {0}
    /\ LeaseDefault \in 1..LeaseMax
    /\ PageSize \in Nat \ {0}
    /\ MaxPosition \in Nat

VARIABLES todos,    \* the row of each id, or Absent
          made,     \* how many ids were generated
          deps,     \* the dependencies each id was written with
          told,     \* the lease each agent was last told it has on each id
          listing   \* the agent paging through the todos

vars == <<todos, made, deps, told, listing>>

Id == 1..MaxTodos
Gone == -1
Left == -1..LeaseMax
Status == {"pending", "in-progress", "done"}

\* A row: position is its rowid, owner and left its claim.
Row == [status : Status, owner : Agent \cup {Nobody}, left : Left, position : Nat \ {0}]
Absent == [status |-> "absent", owner |-> Nobody, left |-> Gone, position |-> 0]

Stored(table) == {i \in Id : table[i] # Absent}

\* The rowid SQLite gives a row written anew.
NextPosition(table) == 1 + Max({0} \cup {table[i].position : i \in Stored(table)})

-----------------------------------------------------------------------------
(* Who holds a todo, and which may be taken. *)

ClaimState(row) ==
    CASE row.owner = Nobody -> "Unclaimed"
      [] row.owner # Nobody /\ row.left >= 0 -> "Held"
      [] row.owner # Nobody /\ row.left < 0 -> "Stale"

EffectiveStatus(row) == IF ClaimState(row) = "Stale" THEN "pending" ELSE row.status

\* A dependency that no longer exists does not block.
IsDone(i) == todos[i] # Absent => todos[i].status = "done"

\* A variant: a dependency that was deleted blocks for ever.
ClaimableAfterAll == {i \in Stored(todos) : EffectiveStatus(todos[i]) = "pending"
                                            /\ \A d \in deps[i] : todos[d].status = "done"}

Claimable == {i \in Stored(todos) : EffectiveStatus(todos[i]) = "pending"
                                    /\ \A d \in deps[i] : IsDone(d)}

\* A variant: a lease lapses in its last second.
LapsedEarly(row) == row.status = "in-progress" /\ row.owner # Nobody /\ row.left <= 0

\* The store's own query for the same thing, over the columns.
Lapsed(row) == row.status = "in-progress" /\ row.owner # Nobody /\ row.left < 0

Unfinished(i) == \E d \in deps[i] \cap Stored(todos) : todos[d].status # "done"

NextClaimable ==
    LET ready == {i \in Stored(todos) : (todos[i].status = "pending" \/ Lapsed(todos[i])) /\ ~Unfinished(i)}
    IN {i \in ready : \A j \in ready : todos[i].position <= todos[j].position}

\* CLAIM_BY_ID's condition: naming a todo passes over its dependencies.
MayClaim(me, row) == 
    \/ row.status = "pending"
    \/ row.status = "in-progress" /\ (row.owner = me \/ Lapsed(row))

Claimed(row, me, lease) == [row EXCEPT !.status = "in-progress", !.owner = me, !.left = lease]

-----------------------------------------------------------------------------
(* Changing a todo. *)

Unclaimed(row, status) == [row EXCEPT !.status = status, !.owner = Nobody, !.left = Gone]

HeldByOther(row, me) == ClaimState(row) = "Held" /\ row.owner # me

\* A variant: the status changes and the claim is left as it was.
ChangedInPlace(row, me, status) ==
    IF status = "keep" THEN row ELSE [row EXCEPT !.status = status]

\* Todo::changed, for a change it does not refuse; status "keep" leaves the
\* status as it is (a new title only).
Changed(row, me, status) ==
    LET to == IF status = "keep" THEN row.status ELSE status
        mine == ClaimState(row) = "Held" /\ row.owner = me
    IN CASE to # "in-progress" -> Unclaimed(row, to)
         [] to = "in-progress" /\ ~mine /\ (HeldByOther(row, me) \/ status = "in-progress") ->
                Claimed(row, me, LeaseDefault)
         [] OTHER -> row

-----------------------------------------------------------------------------
(* Reading page by page. *)

NoListing == [phase |-> "none", style |-> "todos", after |-> 0, seen |-> {}, again |-> FALSE, stood |-> {}]

After(position) == {i \in Stored(todos) : todos[i].position > position}

FirstOf(S, n) == {i \in S : Cardinality({j \in S : todos[j].position < todos[i].position}) < n}

LastPosition(S) == Max({todos[i].position : i \in S})

\* TodoPage::of takes a page and looks whether one more follows; EntryPage::of
\* reads one past the limit and cuts it off.
TodoPage(rest) == [entries |-> FirstOf(rest, PageSize), more |-> FirstOf(rest, PageSize) # rest]

EntryPage(rest) ==
    LET rows == FirstOf(rest, PageSize + 1)
    IN [entries |-> FirstOf(rows, PageSize), more |-> Cardinality(rows) > PageSize]

PageOf(l) == IF l.style = "todos" THEN TodoPage(After(l.after)) ELSE EntryPage(After(l.after))

\* Of the todos there when the listing began, those still there.
Standing(table) == [listing EXCEPT !.stood = @ \cap Stored(table)]

-----------------------------------------------------------------------------
Init ==
    /\ todos = [i \in Id |-> Absent]
    /\ made = 0
    /\ deps = [i \in Id |-> {}]
    /\ told = [a \in Agent |-> [i \in Id |-> Gone]]
    /\ listing = NoListing

\* add_todo: a generated id, and dependencies on ids handed out before.
AddTodo ==
    /\ made < MaxTodos /\ NextPosition(todos) <= MaxPosition
    /\ made' = made + 1
    /\ \E on \in SUBSET (1..made) : deps' = [deps EXCEPT ![made + 1] = on]
    /\ todos' = [todos EXCEPT ![made + 1] = [status |-> "pending", owner |-> Nobody, left |-> Gone,
                                             position |-> NextPosition(todos)]]
    /\ UNCHANGED <<told, listing>>

\* claim_todo, of a named todo or of the oldest claimable one.
ClaimTodo(me) ==
    /\ \E i \in {j \in Stored(todos) : MayClaim(me, todos[j])}, lease \in 1..LeaseMax, named \in BOOLEAN :
          /\ ~named => i \in NextClaimable
          /\ todos' = [todos EXCEPT ![i] = Claimed(@, me, lease)]
          /\ told' = [told EXCEPT ![me][i] = lease]
    /\ UNCHANGED <<made, deps, listing>>

\* A variant: the lease is not asked for.
UpdateHeldTodo(me) ==
    /\ \E i \in Stored(todos), status \in Status :
          /\ todos' = [todos EXCEPT ![i] = Changed(@, me, status)]
          /\ told' = [told EXCEPT ![me][i] = IF todos'[i].owner = me THEN todos'[i].left ELSE Gone]
    /\ UNCHANGED <<made, deps, listing>>

\* update_todo: refused while another agent's lease runs, unless forced.
UpdateTodo(me) ==
    /\ \E i \in Stored(todos), status \in Status \cup {"keep"}, force \in BOOLEAN :
          /\ HeldByOther(todos[i], me) => force
          /\ todos' = [todos EXCEPT ![i] = Changed(@, me, status)]
          /\ told' = [a \in Agent |->
                        CASE a = me -> [told[a] EXCEPT ![i] = IF todos'[i].owner = me THEN todos'[i].left ELSE Gone]
                          [] a # me /\ force -> [told[a] EXCEPT ![i] = Gone]
                          [] OTHER -> told[a]]
    /\ UNCHANGED <<made, deps, listing>>

\* delete_todo asks nobody.
DeleteTodo ==
    /\ \E i \in Stored(todos) :
          /\ todos' = [todos EXCEPT ![i] = Absent]
          /\ told' = [a \in Agent |-> [told[a] EXCEPT ![i] = Gone]]
    /\ listing' = Standing(todos')
    /\ UNCHANGED <<made, deps>>

\* A variant that replaces the row, so it moves to the end.
ReplaceTodo(i, row) == [todos EXCEPT ![i] = [row EXCEPT !.position = NextPosition(todos)]]

\* Import of a todo some earlier export holds: a row already there keeps its
\* place, another is written anew.
PutTodo(i, row) ==
    [todos EXCEPT ![i] = [row EXCEPT !.position = IF todos[i] = Absent THEN NextPosition(todos)
                                                  ELSE todos[i].position]]

ImportTodo ==
    /\ NextPosition(todos) <= MaxPosition
    /\ \E i \in 1..made :
          /\ \/ \E status \in {"pending", "done"} : todos' = PutTodo(i, Unclaimed(Absent, status))
             \/ \E owner \in Agent, left \in Left : todos' = PutTodo(i, Claimed(Absent, owner, left))
          /\ told' = [a \in Agent |-> [told[a] EXCEPT ![i] = Gone]]
    /\ UNCHANGED <<made, deps, listing>>

BeginListing ==
    /\ listing.phase = "none"
    /\ \E style \in {"todos", "entries"} :
          listing' = [NoListing EXCEPT !.phase = "reading", !.style = style, !.stood = Stored(todos)]
    /\ UNCHANGED <<todos, made, deps, told>>

ReadPage ==
    /\ listing.phase = "reading"
    /\ LET page == PageOf(listing)
       IN listing' = [listing EXCEPT !.phase = IF page.more THEN "reading" ELSE "read",
                                     !.after = IF page.more THEN LastPosition(page.entries) ELSE @,
                                     !.again = @ \/ page.entries \cap listing.seen \cap listing.stood # {},
                                     !.seen = @ \cup page.entries]
    /\ UNCHANGED <<todos, made, deps, told>>

EndListing ==
    /\ listing.phase = "read"
    /\ listing' = NoListing
    /\ UNCHANGED <<todos, made, deps, told>>

Less(t) == IF t >= 0 THEN t - 1 ELSE Gone

Tick ==
    /\ todos' = [i \in Id |-> [todos[i] EXCEPT !.left = Less(@)]]
    /\ told' = [a \in Agent |-> [i \in Id |-> Less(told[a][i])]]
    /\ UNCHANGED <<made, deps, listing>>

Next ==
    \/ AddTodo
    \/ \E me \in Agent : ClaimTodo(me) \/ UpdateTodo(me)
    \/ DeleteTodo
    \/ ImportTodo
    \/ BeginListing
    \/ ReadPage
    \/ EndListing
    \/ Tick

Spec == Init /\ [][Next]_vars

Labels == Permutations(Agent)

\* Bound: a listing is followed over pending todos only.  Claims and changes
\* touch neither positions nor the listing, so they commute with its pages.
ListingAlone == listing.phase # "none" => \A i \in Stored(todos) : todos[i].status = "pending"

-----------------------------------------------------------------------------
(* Properties. *)

TypeOK ==
    /\ todos \in [Id -> Row \cup {Absent}]
    /\ made \in 0..MaxTodos
    /\ deps \in [Id -> SUBSET Id]
    /\ told \in [Agent -> [Id -> Left]]
    /\ listing \in [phase : {"none", "reading", "read"}, style : {"todos", "entries"}, after : Nat,
                    seen : SUBSET Id, again : BOOLEAN, stood : SUBSET Id]

\* An agent told that it holds a todo holds it until the lease it was given
\* runs out, whatever the other agents claim, change or retitle, unless one
\* forces, deletes or imports it (claim_by_id and Todo::changed).  And a todo is
\* in progress exactly when it has an owner: a forced change or a lapsed lease
\* leaves none in progress with nobody to finish it.
ClaimAsTold ==
    /\ \A a \in Agent, i \in Id : told[a][i] >= 0 =>
          todos[i].status = "in-progress" /\ todos[i].owner = a /\ todos[i].left = told[a][i]
    /\ \A i \in Id : todos[i].status = "in-progress" <=> todos[i].owner # Nobody

\* Work never stalls: while a todo waits, an agent is at work on one, or the
\* store's query finds one to take, whatever was deleted, imported or abandoned;
\* what it finds is claimable by the domain's rule and the oldest that is
\* (NEXT_CLAIMABLE mirrors Todo::is_claimable).
WorkGoesOn ==
    /\ (\E i \in Stored(todos) : EffectiveStatus(todos[i]) = "pending")
          => NextClaimable # {} \/ \E i \in Id : ClaimState(todos[i]) = "Held"
    /\ NextClaimable \subseteq Claimable
    /\ Claimable # {} => NextClaimable # {}
    /\ \A i \in NextClaimable, j \in Claimable : todos[i].position <= todos[j].position

\* A listing read to its end showed every todo that stood all along, and none
\* twice, however the table changed between its pages (TodoPage, EntryPage).
ListingIsComplete ==
    /\ ~listing.again
    /\ listing.phase = "read" => listing.stood \subseteq listing.seen
=============================================================================
