---- MODULE HostOwnership ----
(***************************************************************************)
(* What the launcher, the controller and the cancellers promise about one  *)
(* host: a campaign's start is consumed once, work runs only for the       *)
(* campaign the host is claimed for, and the claim is given up only for a  *)
(* campaign that was closed with nothing left running.                     *)
(***************************************************************************)
CONSTANTS Campaigns, None

VARIABLES
  owner,   \* the campaign the host is claimed for
  spent,   \* campaigns whose one start is consumed
  closed,  \* campaigns that were verified to be over
  busy     \* campaigns that have a worker running

ovars == <<owner, spent, closed, busy>>

Init == owner = None /\ spent = {} /\ closed = {} /\ busy = {}

Consume(c) ==
  /\ c \notin spent
  /\ spent' = spent \cup {c}
  /\ UNCHANGED <<owner, closed, busy>>

Own(c) ==
  /\ owner = None /\ c \in spent \ closed
  /\ owner' = c
  /\ UNCHANGED <<spent, closed, busy>>

Work(c) ==
  /\ owner = c /\ c \notin closed
  /\ busy' = busy \cup {c}
  /\ UNCHANGED <<owner, spent, closed>>

Rest(c) ==
  /\ busy' = busy \ {c}
  /\ UNCHANGED <<owner, spent, closed>>

Close(c) ==
  /\ c \in spent \ busy
  /\ closed' = closed \cup {c}
  /\ UNCHANGED <<owner, spent, busy>>

GiveUp(c) ==
  /\ owner = c /\ c \in closed
  /\ owner' = None
  /\ UNCHANGED <<spent, closed, busy>>

Next == \E c \in Campaigns :
  Consume(c) \/ Own(c) \/ Work(c) \/ Rest(c) \/ Close(c) \/ GiveUp(c)

Spec == Init /\ [][Next]_ovars
====
