---------------------------- MODULE AmdGpuHook ----------------------------
(***************************************************************************)
(* The AMD GPU hook (src/amdgpu/AmdGpuHook.cpp): the cards a container may *)
(* see, their render devices, and /dev/kfd.                                *)
(***************************************************************************)
EXTENDS Container, SequencesExt

CONSTANT Gpus    \* numbers of cards

Card(g) == <<"card", g>>
Render(g) == <<"render", g>>
Kfd == <<"kfd">>

ASSUME AmdGpuAssumption ==
  /\ IsFiniteSet(Gpus)
  /\ Kfd \in Devices
  /\ \A g \in Gpus : {Card(g), Render(g)} \subseteq Devices

VARIABLES
  byPath,    \* the cards in /dev/dri/by-path whose render link resolves
             \* (None: there is no such directory)
  visible,   \* ROCR_VISIBLE_DEVICES, split at commas (<<>>: empty, not set)
  envParses, \* whether the container's environment can be parsed
  hasKfd     \* whether the host has the device file /dev/kfd

amdGpuVars == <<byPath, visible, envParses, hasKfd>>

-----------------------------------------------------------------------------
(* getRocrVisibleDevicesId: an environment that cannot be parsed is logged *)
(* and then counts as one that asks for no card in particular.             *)
VisibleIds == IF envParses THEN visible ELSE <<>>

\* A card asked for that is not in the map is passed over.
BadListings ==
  IF byPath = None THEN {}
  ELSE IF VisibleIds = <<>> THEN SetToSeqs(byPath)
  ELSE {SelectSeq(VisibleIds, LAMBDA g : g \in byPath)}

(* getRenderDDevices: the cards asked for, in their order, or all of those *)
(* in the map, in any order.  There is no listing, but an exception, if a  *)
(* card is asked for that is not in the map, because its render link is    *)
(* broken or there is no such card, and if there is nothing to map.        *)
Listings ==
  IF byPath = None THEN {}
  ELSE IF VisibleIds = <<>> THEN SetToSeqs(byPath)
  ELSE IF ToSet(VisibleIds) \subseteq byPath THEN {VisibleIds}
  ELSE {}

(* performBindMounts: each card, followed by its render device, and        *)
(* /dev/kfd.                                                               *)
AmdGpuPlan(ids) ==
  [k \in 1 .. 2 * Len(ids) + 1 |->
     Device(IF k > 2 * Len(ids) THEN Kfd
            ELSE IF k % 2 = 1 THEN Card(ids[(k + 1) \div 2])
            ELSE Render(ids[k \div 2]))]

RunAmdGpuHook ==
  /\ IF ~hasKfd THEN Start(<<>>)
     ELSE IF Listings = {} THEN Throw("terminated")
     ELSE \E ids \in Listings : Start(AmdGpuPlan(ids))
  /\ UNCHANGED amdGpuVars
=============================================================================
