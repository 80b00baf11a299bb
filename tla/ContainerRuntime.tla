---- MODULE ContainerRuntime ----
(***************************************************************************)
(* ContainerAttemptRuntime of src/src/campaign/container-spawner.ts over   *)
(* the docker daemon.  A docker command is a client process with a         *)
(* timeout: when it fails, the daemon may have done what it was asked, may *)
(* do it later, or never.  A worker's container has the worker's own name, *)
(* so it has at most one, and the worker stands for its container's id.    *)
(* These are the runtime's methods and the daemon's own steps; Controller  *)
(* says who calls them and when.                                           *)
(***************************************************************************)
CONSTANT Workers  \* the execution attempts

VARIABLES
  box,      \* worker -> its container, as the daemon has it
  late,     \* requests given up by their client that the daemon still has
  requests, \* requests and uncertainAttempts: worker -> its start request
  follower  \* worker -> its monitor: docker wait, and its report until it is read

runtime == <<box, late, requests, follower>>

BoxStates == {"none", "created", "running", "exited"}
Settlements == {"none", "never-issued", "uncertain", "settled"}

RuntimeInit ==
  /\ box = [w \in Workers |-> "none"]
  /\ late = {}
  /\ requests = [w \in Workers |-> "none"]
  /\ follower = [w \in Workers |-> "none"]

\* The process that owned the runtime is gone, with its clients.
RuntimeForgotten ==
  /\ requests' = [w \in Workers |-> "none"]
  /\ follower' = [w \in Workers |-> "none"]

----
(* The daemon. *)

Become(w, state) == box' = [box EXCEPT ![w] = state]

Performs(request) ==
  LET w == request[2] IN
  \/ request[1] = "create" /\ box[w] = "none" /\ Become(w, "created")
  \/ request[1] = "start" /\ box[w] = "created" /\ Become(w, "running")

DaemonCatchesUp ==
  \E request \in late :
    /\ late' = late \ {request}
    /\ Performs(request) \/ UNCHANGED box
    /\ UNCHANGED <<requests, follower>>

\* A worker ends by itself, by its deadline (timeout(1) is its entry point) or
\* with the host.
WorkerEnds(w) ==
  /\ box[w] = "running"
  /\ Become(w, "exited")
  /\ UNCHANGED <<late, requests, follower>>

----
(* create and start. *)

CreateSucceeds(w) ==
  /\ box[w] = "none"
  /\ Become(w, "created")
  /\ requests' = [requests EXCEPT ![w] = "never-issued"]
  /\ UNCHANGED <<late, follower>>

\* The client of a request failed: done, still to be done, or refused.
Lost(request) ==
  \/ Performs(request) /\ UNCHANGED late
  \/ late' = late \cup {request} /\ UNCHANGED box
  \/ UNCHANGED <<box, late>>

CreateFails(w) == Lost(<<"create", w>>) /\ UNCHANGED <<requests, follower>>

\* One start request for a container, and only by the runtime that created it.
Startable(w) == requests[w] = "never-issued" /\ box[w] = "created"

StartSucceeds(w) ==
  /\ Startable(w)
  /\ Become(w, "running")
  /\ requests' = [requests EXCEPT ![w] = "settled"]
  /\ follower' = [follower EXCEPT ![w] = "watching"]
  /\ UNCHANGED late

StartFails(w) ==
  /\ Startable(w)
  /\ requests' = [requests EXCEPT ![w] = "uncertain"]
  /\ Lost(<<"start", w>>)
  /\ UNCHANGED follower

----
(* The follower. *)

FollowerSees(w) ==
  /\ follower[w] = "watching" /\ box[w] = "exited"
  /\ follower' = [follower EXCEPT ![w] = "stopped"]
  /\ UNCHANGED <<box, late, requests>>

\* docker wait or the inspection after it failed: nothing is known.
FollowerFails(w) ==
  /\ follower[w] = "watching"
  /\ follower' = [follower EXCEPT ![w] = "failed"]
  /\ UNCHANGED <<box, late, requests>>

----
(* stop. *)

\* Mutant of Settled: what this runtime did not start needs no settlement.
SettledHere(w, journal) == requests[w] # "uncertain"

\* A start request may outlive its client, so an inspection proves nothing
\* while one is uncertain.  A runtime that did not create the container goes by
\* the journal.
Settled(w, journal) == (IF requests[w] # "none" THEN requests[w] ELSE journal) # "uncertain"

StopCommand(w) == Become(w, IF box[w] = "running" THEN "exited" ELSE box[w])

\* The container is dead: stopped and inspected, and no start is unsettled.
StopProves(w, journal) ==
  /\ box[w] # "none"
  /\ Settled(w, journal)
  /\ StopCommand(w)
  /\ UNCHANGED <<late, requests, follower>>

\* The daemon did not answer, or a start is uncertain; the command went out.
StopUnresolved(w) ==
  /\ StopCommand(w) \/ UNCHANGED box
  /\ UNCHANGED <<late, requests, follower>>

\* inspectOwned() finds no container of the worker's name.
Absent(w) == requests[w] # "uncertain" /\ box[w] = "none"

NoUnsettledStarts == \A w \in Workers : requests[w] # "uncertain"
====
