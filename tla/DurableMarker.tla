---- MODULE DurableMarker ----
(***************************************************************************)
(* The one durable record of a decision: createDurableMarker of            *)
(* src/campaign/journal.ts under its callers, which bless what they find   *)
(* (publishCancelIntent, persistStorageInterruption of ownership.ts,       *)
(* evidence of cancellation.ts).  Deciders with different bodies race for  *)
(* one name; a process may die and the host lose power between any two     *)
(* calls.  What was not synced may or may not survive the power loss.      *)
(*                                                                         *)
(* Left out: the emergency reserve some publishers release first.          *)
(***************************************************************************)
EXTENDS Naturals

CONSTANTS
  Deciders,
  BodyOf,      \* what each of them would record
  MaxOutages,  \* bound: power losses
  Nothing      \* no file, and the body of one whose bytes were lost

Files == [body : {BodyOf[p] : p \in Deciders} \cup {Nothing}, whole : BOOLEAN]

ASSUME MarkerAssumption == Nothing \notin Files

VARIABLES
  name,     \* the final name as processes see it: the file it leads to
  saved,    \* as a power loss would leave it
  call,     \* of each decider: where it is
  synced,   \* the deciders whose staged file is synced
  blessed,  \* history: the bodies reported durable
  outages

marker == <<name, saved>>
markerVars == <<marker, call, synced, blessed, outages>>

File(body, whole) == [body |-> body, whole |-> whole]

MarkerInit ==
  /\ name = Nothing /\ saved = Nothing
  /\ call = [p \in Deciders |-> "look"]
  /\ synced = {} /\ blessed = {} /\ outages = 0

Goes(p, to) == call' = [call EXCEPT ![p] = to]

\* Mutant of Meets: the same bytes in sight are taken as durable.
MeetsBySight(p) ==
  IF name.body = BodyOf[p]
  THEN Goes(p, "done") /\ blessed' = blessed \cup {name.body}
  ELSE Goes(p, "refused") /\ UNCHANGED blessed

\* The same bytes are blessed once the directory is synced, others refused.
Meets(p) ==
  /\ Goes(p, IF name.body = BodyOf[p] THEN "sync" ELSE "refused")
  /\ UNCHANGED blessed

Seek(p) ==
  /\ call[p] = "look"
  /\ \/ name = Nothing /\ Goes(p, "stage") /\ UNCHANGED blessed
     \/ name # Nothing /\ Meets(p)
  /\ UNCHANGED <<marker, synced, outages>>

\* O_EXCL on a name of its own, every byte, fsync.
Stage(p) ==
  /\ call[p] = "stage"
  /\ \/ Goes(p, "link") /\ synced' = synced \cup {p}
     \/ Goes(p, "failed") /\ UNCHANGED synced
  /\ UNCHANGED <<marker, blessed, outages>>

\* link(2) refuses a name that exists; the error goes to the caller.
Claim(p) ==
  /\ call[p] = "link"
  /\ \/ /\ name = Nothing
        /\ name' = File(BodyOf[p], p \in synced)
        /\ Goes(p, "sync")
     \/ name # Nothing /\ Goes(p, "refused") /\ UNCHANGED name
     \/ Goes(p, "failed") /\ UNCHANGED name
  /\ UNCHANGED <<saved, synced, blessed, outages>>

\* fsyncDir; a marker that is published and not synced stays where it is.
Persist(p) ==
  /\ call[p] = "sync"
  /\ \/ saved' = name /\ blessed' = blessed \cup {name.body} /\ Goes(p, "done")
     \/ Goes(p, "failed") /\ UNCHANGED <<saved, blessed>>
  /\ UNCHANGED <<name, synced, outages>>

\* The process dies, or its operation is repeated after it failed.
Again(p) ==
  /\ call[p] # "look"
  /\ Goes(p, "look") /\ synced' = synced \ {p}
  /\ UNCHANGED <<marker, blessed, outages>>

\* An entry the system had written back anyway survives; its bytes are whole
\* only if they were synced.
Outage ==
  /\ outages < MaxOutages
  /\ outages' = outages + 1
  /\ \E left \in {saved, name} :
       LET kept == IF left = Nothing THEN Nothing
                   ELSE IF left.whole THEN left ELSE File(Nothing, FALSE)
       IN  name' = kept /\ saved' = kept
  /\ call' = [p \in Deciders |-> "look"] /\ synced' = {}
  /\ UNCHANGED blessed

MarkerNext ==
  \/ \E p \in Deciders : Seek(p) \/ Stage(p) \/ Claim(p) \/ Persist(p) \/ Again(p)
  \/ Outage

MarkerSpec == MarkerInit /\ [][MarkerNext]_markerVars

----
(* Properties. *)

\* A decision reported durable is the one on record from then on, complete,
\* whoever else tried and whatever power was lost.
DecisionIsKept ==
  blessed # {} => name # Nothing /\ blessed = {name.body} /\ name.whole
====
