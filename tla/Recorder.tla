------------------------------ MODULE Recorder ------------------------------
(***************************************************************************)
(* The store recorder (store_recorder.rs): a queue of records and a thread *)
(* that writes them to the store in the order they were sent, retrying     *)
(* while the store is busy.                                                *)
(*                                                                         *)
(* A recorder is a record                                                  *)
(*   queue    the records sent and not taken yet, a Flush among them       *)
(*   hand     the record the thread is landing, or Nothing                 *)
(*   pending  the records sent and not landed or given up                  *)
(*   drain    the drain_by slot: "none", "set", or "passed" once that      *)
(*            moment has passed                                            *)
(*   flush    whether a flush is awaited: "no", "waits", "answered"        *)
(*                                                                         *)
(* The clock is left to chance: whether a retry's pause would carry the    *)
(* record past its budget, or past the drain, is a choice wherever the     *)
(* code compares times.  The thread lands a record and counts it off       *)
(* `pending' in one step here: the count is only read by a flush that      *)
(* stopped waiting, which in between would count one record too many.      *)
(***************************************************************************)
EXTENDS Integers, Sequences

CONSTANT Nothing    \* no record in hand

FlushRecord == [kind |-> "flush"]

NewRecorder ==
    [queue |-> <<>>, hand |-> Nothing, pending |-> 0, drain |-> "none",
     flush |-> "no"]

Send(r, record) ==
    [r EXCEPT !.queue = Append(@, record), !.pending = @ + 1]

(* The records sent and not landed or given up. *)
Owed(r) ==
    (IF r.hand = Nothing THEN {} ELSE {r.hand})
        \cup {r.queue[i] : i \in {j \in DOMAIN r.queue : r.queue[j].kind # "flush"}}

(* Mutant: the flush overtakes what was sent before it. *)
BeginFlushAhead(r) ==
    [r EXCEPT !.queue = <<FlushRecord>> \o @, !.drain = "set",
              !.flush = "waits"]

(* flush asks for everything before it to land, and starts the drain. *)
BeginFlush(r) ==
    [r EXCEPT !.queue = Append(@, FlushRecord), !.drain = "set",
              !.flush = "waits"]

(* The thread takes the next record; a Flush ends its drain and is answered. *)
TakeNext(r) ==
    IF Head(r.queue).kind = "flush"
    THEN [r EXCEPT !.queue = Tail(@), !.drain = "none", !.flush = "answered"]
    ELSE [r EXCEPT !.queue = Tail(@), !.hand = Head(r.queue)]

CanTake(r) == r.hand = Nothing /\ r.queue # <<>>

(* The record in hand is done with. *)
Settled(r) == [r EXCEPT !.hand = Nothing, !.pending = @ - 1]

(***************************************************************************)
(* What one round of `land' comes to, for the store's answer to the write  *)
(* ("ok", "busy" or "refused") and whether the next pause would carry the  *)
(* record past its budget: the record is "stored", given up and "told" of, *)
(* or to be tried "again".                                                 *)
(***************************************************************************)
Rounds(r, store, overBudget) ==
    IF r.drain = "passed" THEN {"told"}
    ELSE IF store = "ok" THEN {"stored"}
    ELSE IF store = "refused" \/ overBudget THEN {"told"}
    ELSE IF r.drain = "set" THEN {"told", "again"}
    ELSE {"again"}

=============================================================================
