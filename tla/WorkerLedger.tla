---- MODULE WorkerLedger ----
(***************************************************************************)
(* What the campaign's journal promises about its workers, with none of    *)
(* the blocks, causes, audits and clocks it takes to keep the promise: a   *)
(* worker is prepared, may be bound to a container, may be started, and    *)
(* dies once and for good; a container is one worker's for ever.           *)
(* ExecutionState implements it.                                           *)
(***************************************************************************)
EXTENDS Naturals

CONSTANTS Workers, Containers, None

VARIABLES
  phase,  \* worker -> how far its life has got
  holds   \* worker -> the container that is its, or None

Phases == {"absent", "prepared", "bound", "running", "dead"}

LedgerInit ==
  /\ phase = [w \in Workers |-> "absent"]
  /\ holds = [w \in Workers |-> None]

Prepare(W) ==
  /\ \A w \in W : phase[w] = "absent"
  /\ phase' = [w \in Workers |-> IF w \in W THEN "prepared" ELSE phase[w]]
  /\ UNCHANGED holds

Bind(w, c) ==
  /\ phase[w] = "prepared"
  /\ \A o \in Workers : holds[o] # c
  /\ phase' = [phase EXCEPT ![w] = "bound"]
  /\ holds' = [holds EXCEPT ![w] = c]

Run(w) ==
  /\ phase[w] = "bound"
  /\ phase' = [phase EXCEPT ![w] = "running"]
  /\ UNCHANGED holds

\* The workers of W are seen dead together.  One that was never bound may be
\* found to have had a container after all, which nobody else can have.
Die(W, found) ==
  /\ \A w \in W : phase[w] # "absent"
  /\ \A w \in W : phase[w] # "prepared" => found[w] = holds[w]
  /\ \A w \in W : \A o \in Workers \ {w} :
       found[w] # None => found[w] # (IF o \in W THEN found[o] ELSE holds[o])
  /\ phase' = [w \in Workers |-> IF w \in W THEN "dead" ELSE phase[w]]
  /\ holds' = [w \in Workers |-> IF w \in W THEN found[w] ELSE holds[w]]

LedgerNext ==
  \/ \E W \in SUBSET Workers : Prepare(W)
  \/ \E w \in Workers, c \in Containers : Bind(w, c)
  \/ \E w \in Workers : Run(w)
  \/ \E W \in SUBSET Workers : \E found \in [W -> Containers \cup {None}] : Die(W, found)

LedgerSpec == LedgerInit /\ [][LedgerNext]_<<phase, holds>>
====
