---- MODULE ScopedContainer ----
(***************************************************************************)
(* The appliance's one container and the credential material it mounts:    *)
(* the three slots of src/appliance/credential-scope.ts and the calls of   *)
(* reconcileScopedContainer, src/appliance/container.ts.                   *)
(*                                                                         *)
(* A generation is identified with whom it was staged for: a job, or Empty *)
(* for a probe.  The tree below a slot, its modes, the pins against a path *)
(* that is swapped, the reading of the bundle and the sweep over the       *)
(* mounts are the outcome of one call: done, or refused.                   *)
(***************************************************************************)
EXTENDS Naturals

CONSTANTS Absent, Empty, Jobs, MaxBoxes

VARIABLES
  slots,  \* staging, active, recovery: the generation in each
  box,    \* the container of the configured name: its id and what it mounts
  boxes   \* the ids docker has given out

containerVars == <<slots, box, boxes>>

Slots == {"staging", "active", "recovery"}

ContainerInit ==
  /\ slots = [s \in Slots |-> Absent]
  /\ box = Absent /\ boxes = 0

\* clearStagingSlot, the sources read and checked, the pinned slot written. A
\* refusal before the slot is cleared leaves it; one after it leaves no stage.
StageMaterial(gen) == slots' = [slots EXCEPT !["staging"] = gen]
StageRefused == slots' \in {slots, [slots EXCEPT !["staging"] = Absent]}

\* inspectContainerState and downContainer, by name: whatever is there goes.
Down == box' = Absent

\* The discard of a stage that was not activated, best effort.
Discard == slots' \in {slots, [slots EXCEPT !["staging"] = Absent]}

\* recoverScopedCredentialActivation, once the container is down.
Ambiguous == slots["recovery"] # Absent /\ slots["active"] # Absent
Recover ==
  slots' = IF slots["recovery"] = Absent THEN slots
           ELSE [slots EXCEPT !["active"] = slots["recovery"], !["recovery"] = Absent]

\* The first rename of activateScopedCredentialMaterial.
Retire ==
  slots' = [slots EXCEPT !["recovery"] = slots["active"], !["active"] = Absent]

\* The second; when it fails the old generation is put back, or is stranded.
Swap == slots' = [slots EXCEPT !["active"] = slots["staging"], !["staging"] = Absent]
SwapFails ==
  slots' \in {slots, [slots EXCEPT !["active"] = slots["recovery"], !["recovery"] = Absent]}

Drop == slots' = [slots EXCEPT !["recovery"] = Absent]

\* The wrapper's up: docker gives a new id and binds what is active.
Up ==
  /\ boxes < MaxBoxes
  /\ boxes' = boxes + 1
  /\ box' = [id |-> boxes + 1, mounts |-> slots["active"]]

\* docker rm -f of one id.
Remove(id) == box' = IF box # Absent /\ box.id = id THEN Absent ELSE box

\* retireScopedCredentialMaterial: staging, recovery, active, until one fails.
RetireAll ==
  \E n \in 0 .. 3 :
    slots' = [s \in Slots |->
      IF s \in {<<"staging", "recovery", "active">>[i] : i \in 1 .. n} THEN Absent ELSE slots[s]]

----
ContainerTypeOK ==
  /\ slots \in [Slots -> Jobs \cup {Empty, Absent}]
  /\ box \in {Absent} \cup [id : 1 .. MaxBoxes, mounts : Jobs \cup {Empty, Absent}]
  /\ boxes \in 0 .. MaxBoxes

\* The container never mounts material that was replaced, retired or thrown
\* away under it: what it was started with is the active generation, through
\* every failure and death in the middle of a swap.
MountsAreActive == box # Absent => slots["active"] = box.mounts /\ slots["recovery"] = Absent
====
