---- MODULE JournalWriter ----
(***************************************************************************)
(* The execution journal as its writers see it                             *)
(* (src/campaign/execution-journal.ts): one database, a directory lease    *)
(* that elects a writer, a generation that fences the writers before it,   *)
(* and for each writer the projection it cached when it replayed.          *)
(*                                                                         *)
(* A writer may be stopped or die between any two steps; its lease then    *)
(* passes on although it may wake up again.  A COMMIT may take effect and  *)
(* report an error, or fail.  The database rolls back what a dead process  *)
(* began and gives BEGIN IMMEDIATE to one connection at a time.            *)
(*                                                                         *)
(* Left out: digests, the schema row, what the fold says of a transition   *)
(* beyond its time and that nothing happens twice (ExecutionState).        *)
(***************************************************************************)
EXTENDS Naturals, Sequences

CONSTANTS
  Writers,         \* processes that may be elected
  Transitions,     \* what there is to commit; the controller commits each under
                   \* a fresh id, so a second commit of one is for the fold
  Registration,    \* the one transition whose id is derived: its retry is known
  MaxGeneration,   \* bound: elections
  Nil

VARIABLES
  rows,        \* execution_transitions, each with the generation that wrote it
  generation,  \* writer_generation
  begun,       \* the writer that has the write transaction
  lease,       \* the writer whose token is in journal.lease.d
  pc,          \* of each writer
  mine,        \* the generation of each writer
  cache,       \* the transitions each writer holds committed
  wants,       \* what each writer is committing
  acked        \* history: the rows callers were told of, by sequence

store == <<rows, generation, begun, lease>>
writer == <<pc, mine, cache, wants>>
writerVars == <<store, writer, acked>>

Body(r) == [i \in 1 .. Len(r) |-> r[i].transition]
Holds(s, t) == \E i \in 1 .. Len(s) : s[i] = t

WriterInit ==
  /\ rows = <<>> /\ generation = 0 /\ begun = Nil /\ lease = Nil
  /\ pc = [w \in Writers |-> "out"]
  /\ mine = [w \in Writers |-> 0]
  /\ cache = [w \in Writers |-> <<>>]
  /\ wants = [w \in Writers |-> Nil]
  /\ acked = {}

Step(w, next) == pc' = [pc EXCEPT ![w] = next]

\* What a writer that is gone, or poisoned, knew is of no further use.
Forget(w) ==
  /\ mine' = [mine EXCEPT ![w] = 0]
  /\ cache' = [cache EXCEPT ![w] = <<>>]
  /\ wants' = [wants EXCEPT ![w] = Nil]

----
(* ExecutionJournalWriter.elect. *)

\* acquireLease; a lease whose holder shows no life is taken over.
AcquireLease(w) ==
  /\ pc[w] = "out"
  /\ lease' = w
  /\ Step(w, "leased")
  /\ UNCHANGED <<rows, generation, begun, mine, cache, wants, acked>>

\* BEGIN IMMEDIATE with a busy timeout of 0.
CanBegin == begun = Nil

Release(w) == lease' = IF lease = w THEN Nil ELSE lease

BeginElection(w) ==
  /\ pc[w] = "leased"
  /\ \/ CanBegin /\ begun' = w /\ Step(w, "replayed") /\ UNCHANGED lease
        /\ cache' = [cache EXCEPT ![w] = Body(rows)]
     \/ ~CanBegin /\ Step(w, "out") /\ Release(w) /\ UNCHANGED <<begun, cache>>
  /\ UNCHANGED <<rows, generation, mine, wants, acked>>

\* The heartbeat of the lease, then COMMIT; whatever fails, the connection is
\* closed and the lease released.
CommitElection(w) ==
  /\ pc[w] = "replayed" /\ generation < MaxGeneration
  /\ begun' = IF begun = w THEN Nil ELSE begun
  /\ \/ /\ lease = w
        /\ generation' = generation + 1
        /\ \/ /\ mine' = [mine EXCEPT ![w] = generation + 1]
              /\ Step(w, "ready") /\ UNCHANGED <<lease, cache, wants>>
           \/ Step(w, "out") /\ Release(w) /\ Forget(w)
     \/ Step(w, "out") /\ Release(w) /\ Forget(w) /\ UNCHANGED generation
  /\ UNCHANGED <<rows, acked>>

----
(* commitTransition. *)

BeginCommit(w, t) ==
  /\ pc[w] = "ready"
  /\ \/ CanBegin /\ begun' = w /\ Step(w, "begun")
        /\ wants' = [wants EXCEPT ![w] = t]
        /\ UNCHANGED <<mine, cache>>
     \/ ~CanBegin /\ Step(w, "poisoned") /\ Forget(w) /\ UNCHANGED begun
  /\ UNCHANGED <<rows, generation, lease, acked>>

Rollback(w) == begun' = IF begun = w THEN Nil ELSE begun

\* assertCurrentOwner, inside the transaction.
Current(w) == lease = w /\ generation = mine[w]

\* What the fold of the cached projection says: refused, known, or new.  It may
\* refuse anything, a time before the last one among it.
Repeated(w) == Holds(cache[w], wants[w])

Fold(w) ==
  /\ pc[w] = "begun"
  /\ \/ /\ Current(w) /\ ~Repeated(w)
        /\ Step(w, "folded") /\ UNCHANGED <<begun, mine, cache, wants, acked>>
     \/ /\ Current(w) /\ Repeated(w) /\ wants[w] = Registration
        /\ Step(w, "ready") /\ Rollback(w)
        /\ acked' = acked \cup {[sequence |-> i, transition |-> wants[w]] :
             i \in {j \in 1 .. Len(cache[w]) : cache[w][j] = wants[w]}}
        /\ wants' = [wants EXCEPT ![w] = Nil] /\ UNCHANGED <<mine, cache>>
     \/ Step(w, "poisoned") /\ Forget(w) /\ Rollback(w) /\ UNCHANGED acked
  /\ UNCHANGED <<rows, generation, lease>>

\* Mutant of Poison: a COMMIT that reports an error leaves the writer as it was.
PoisonNot(w) ==
  Step(w, "ready") /\ wants' = [wants EXCEPT ![w] = Nil] /\ UNCHANGED <<mine, cache>>

Poison(w) == Step(w, "poisoned") /\ Forget(w)

Fits(w) == Len(rows) = Len(cache[w])
Inserted(w) == Append(rows, [transition |-> wants[w], by |-> mine[w]])

\* INSERT, whose sequence is a primary key, and COMMIT.
Commit(w) ==
  /\ pc[w] = "folded"
  /\ \/ /\ Fits(w)
        /\ rows' = Inserted(w)
        /\ \/ /\ Step(w, "ready")
              /\ cache' = [cache EXCEPT ![w] = Append(@, wants[w])]
              /\ acked' = acked \cup {[sequence |-> Len(rows'), transition |-> wants[w]]}
              /\ wants' = [wants EXCEPT ![w] = Nil] /\ UNCHANGED mine
           \/ Poison(w) /\ UNCHANGED acked
     \/ Poison(w) /\ UNCHANGED <<rows, acked>>
  /\ Rollback(w)
  /\ UNCHANGED <<generation, lease>>

----
(* The end of a writer. *)

\* release: also of a poisoned or deposed writer.
Leave(w) ==
  /\ pc[w] \in {"ready", "poisoned"}
  /\ Release(w) /\ Step(w, "out") /\ Forget(w)
  /\ UNCHANGED <<rows, generation, begun, acked>>

\* A process dies; the next one of its kind starts afresh and finds its lease.
Dies(w) ==
  /\ pc[w] # "out"
  /\ Rollback(w) /\ Step(w, "out") /\ Forget(w)
  /\ UNCHANGED <<rows, generation, lease, acked>>

\* The lease of a stopped holder is reclaimed and given up again by others.
Severed ==
  /\ lease # Nil
  /\ lease' = Nil
  /\ UNCHANGED <<rows, generation, begun, writer, acked>>

WriterNext ==
  \/ \E w \in Writers :
       \/ AcquireLease(w) \/ BeginElection(w) \/ CommitElection(w)
       \/ \E t \in Transitions : BeginCommit(w, t)
       \/ Fold(w) \/ Commit(w) \/ Leave(w) \/ Dies(w)
  \/ Severed

WriterSpec == WriterInit /\ [][WriterNext]_writerVars

----
(* Properties. *)

WriterTypeOK ==
  /\ rows \in Seq([transition : Transitions, by : 1 .. MaxGeneration])
  /\ generation \in 0 .. MaxGeneration
  /\ {begun, lease} \subseteq Writers \cup {Nil}
  /\ pc \in [Writers -> {"out", "leased", "replayed", "ready", "begun", "folded", "poisoned"}]
  /\ mine \in [Writers -> 0 .. MaxGeneration]
  /\ \A w \in Writers : cache[w] \in Seq(Transitions)
  /\ wants \in [Writers -> Transitions \cup {Nil}]
  /\ acked \subseteq [sequence : 1 .. Len(rows), transition : Transitions]

\* What a caller was told is committed is in the journal at its sequence, and
\* nothing is there twice, however many writers tried it and whatever their
\* COMMITs reported.
AckedIsCommitted ==
  /\ \A a \in acked : a.sequence <= Len(rows) /\ rows[a.sequence].transition = a.transition
  /\ \A i, j \in 1 .. Len(rows) : rows[i].transition = rows[j].transition => i = j

\* "An uncertain commit must never allow the cached projection to drive another
\* write": the writer that may still write decides on all that is committed.
CacheIsTruth ==
  \A w \in Writers :
    pc[w] \in {"ready", "begun", "folded"} /\ generation = mine[w] =>
      cache[w] = Body(rows)

\* A writer that a later election deposed writes no more.
SilentStep == rows' # rows => rows'[Len(rows')].by = generation

\* The three together.
JournalIsTrue == [](AckedIsCommitted /\ CacheIsTruth) /\ [][SilentStep]_writerVars
====
