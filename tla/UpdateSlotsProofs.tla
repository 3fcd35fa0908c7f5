-------------------------- MODULE UpdateSlotsProofs --------------------------
(***************************************************************************)
(* What UpdateSlots keeps for every number of boot attempts.               *)
(*                                                                         *)
(* Neither process looks at the file again once it has its copy, so the    *)
(* argument goes through the copies: what is about to be saved is          *)
(* accounted for, and while the health check judges or has still to save,  *)
(* the file's active slot is under validation, whether the health check's  *)
(* copy or the controller's was written last.                              *)
(***************************************************************************)
EXTENDS UpdateSlots, TLAPS

Pending(cfg) == cfg.slot[cfg.active].pending

\* The health check has not decided, or not for good.
Undecided ==
    \/ hc.pc \in {"waiting", "deciding"}
    \/ hc.pc = "saving" /\ hc.next \in {"waiting", "deciding"}

CopiesFit ==
    /\ ctl.pc = "saving" => Pending(ctl.cfg)
    /\ hc.pc = "saving" => Accounted(hc.cfg)
    /\ Undecided => Pending(hc.cfg)
    /\ hc.pc \in {"saving", "waiting", "deciding"} => Pending(file)

UpdInv == UpdTypeOK /\ ActiveAccounted /\ CopiesFit

USE AttemptsAssumption

LEMMA CountedBoots == \A n \in Boots : Counted(n) \in Boots
  BY DEF Counted, Boots, MaxCount

LEMMA OtherSlot == \A s \in Slots : Other(s) \in Slots /\ Other(s) # s
  BY DEF Other, Slots

LEMMA UpdatedConfig ==
  ASSUME NEW cfg \in Configs
  PROVE  Updated(cfg) \in Configs /\ Pending(Updated(cfg))
<1> DEFINE new == Other(cfg.active)
<1>1. cfg.active \in Slots /\ cfg.slot \in [Slots -> SlotRecs]
  BY DEF Configs
<1>2. new \in Slots
  BY <1>1, OtherSlot
<1>3. [healthy |-> FALSE, pending |-> TRUE, boots |-> 0] \in SlotRecs
  BY DEF SlotRecs, Boots, MaxCount
<1>4. [cfg.slot EXCEPT ![new] = [healthy |-> FALSE, pending |-> TRUE, boots |-> 0]]
        \in [Slots -> SlotRecs]
  BY <1>1, <1>2, <1>3
<1>. QED  BY <1>1, <1>2, <1>4 DEF Updated, Configs, Pending

\* A copy in which the active slot's boot was counted once more.
LEMMA CountedConfig ==
  ASSUME NEW cfg \in Configs,
         NEW boots \in Boots
  PROVE  /\ [cfg EXCEPT !.slot[cfg.active].boots = boots] \in Configs
         /\ Pending([cfg EXCEPT !.slot[cfg.active].boots = boots]) = Pending(cfg)
<1>1. cfg.active \in Slots /\ cfg.slot \in [Slots -> SlotRecs]
  BY DEF Configs
<1>2. cfg.slot[cfg.active] \in SlotRecs
  BY <1>1
<1>3. [cfg.slot[cfg.active] EXCEPT !.boots = boots] \in SlotRecs
  BY <1>2 DEF SlotRecs
<1>. QED  BY <1>1, <1>2, <1>3 DEF Configs, Pending, SlotRecs

LEMMA ConfirmedConfig ==
  ASSUME NEW cfg \in Configs
  PROVE  LET new == [cfg EXCEPT !.slot[cfg.active].healthy = TRUE,
                                !.slot[cfg.active].pending = FALSE]
         IN  new \in Configs /\ Accounted(new)
<1>1. cfg.active \in Slots /\ cfg.slot \in [Slots -> SlotRecs]
  BY DEF Configs
<1>2. cfg.slot[cfg.active] \in SlotRecs
  BY <1>1
<1>. QED  BY <1>1, <1>2 DEF Configs, Accounted, SlotRecs

LEMMA RolledBackConfig ==
  ASSUME NEW cfg \in Configs,
         cfg.slot[Other(cfg.active)].healthy
  PROVE  LET new == [cfg EXCEPT !.active = Other(cfg.active),
                                !.slot[Other(cfg.active)].pending = FALSE]
         IN  new \in Configs /\ Accounted(new)
<1>1. cfg.active \in Slots /\ cfg.slot \in [Slots -> SlotRecs]
  BY DEF Configs
<1>2. Other(cfg.active) \in Slots
  BY <1>1, OtherSlot
<1>3. cfg.slot[Other(cfg.active)] \in SlotRecs
  BY <1>1, <1>2
<1>. QED  BY <1>1, <1>2, <1>3 DEF Configs, Accounted, SlotRecs

-----------------------------------------------------------------------------
LEMMA FactoryConfig == Factory \in Configs /\ Accounted(Factory)
<1>1. \A s \in Slots : [healthy |-> s = "a", pending |-> FALSE, boots |-> 0]
                         \in SlotRecs
  <2>1. 0 \in Boots
    BY DEF Boots, MaxCount
  <2>2. \A s \in Slots : (s = "a") \in BOOLEAN
    OBVIOUS
  <2>. QED  BY <2>1, <2>2 DEF SlotRecs
<1>2. Factory.slot \in [Slots -> SlotRecs] /\ Factory.active = "a"
  BY <1>1 DEF Factory
<1>3. Factory \in Configs
  BY <1>1 DEF Factory, Configs, Slots
<1>4. Factory.slot["a"].healthy
  BY DEF Factory, Slots
<1>. QED  BY <1>2, <1>3, <1>4 DEF Accounted

LEMMA UpdInitInv == UpdInit => UpdInv
<1> SUFFICES ASSUME UpdInit PROVE UpdInv
  OBVIOUS
<1>1. image \in [Slots -> Images] /\ default \in Slots
  BY DEF UpdInit, Images, Slots
<1>2. ctl \in CtlRecs /\ ctl.pc = "down"
  BY FactoryConfig DEF UpdInit, CtlRecs
<1>3. hc \in HcRecs /\ hc.pc = "none"
  BY FactoryConfig DEF UpdInit, HcRecs
<1>. QED  BY <1>1, <1>2, <1>3, FactoryConfig
          DEF UpdInit, UpdInv, UpdTypeOK, ActiveAccounted, CopiesFit, Undecided

LEMMA UpdStepInv == UpdInv /\ [UpdNext]_updVars => UpdInv'
<1> SUFFICES ASSUME UpdInv, [UpdNext]_updVars PROVE UpdInv'
  OBVIOUS
<1> USE DEF UpdInv
<1>t. /\ ctl.cfg \in Configs /\ hc.cfg \in Configs /\ file \in Configs
      /\ default \in Slots /\ running \in Slots \cup {"off"}
      /\ image \in [Slots -> Images] /\ torn \in BOOLEAN
      /\ ctl \in CtlRecs /\ hc \in HcRecs
  BY DEF UpdTypeOK, CtlRecs, HcRecs
<1>h. ASSUME Halts PROVE ctl' \in CtlRecs /\ hc' \in HcRecs /\ running' = "off"
                         /\ ctl'.pc = "down" /\ hc'.pc = "none"
  BY <1>h, <1>t DEF Halts, CtlRecs, HcRecs
<1>1. CASE Boot
  <2>1. ctl' \in CtlRecs /\ hc' \in HcRecs
    BY <1>1, <1>t DEF Boot, CtlRecs, HcRecs
  <2>2. ctl'.pc # "saving" /\ hc'.pc \in {"none", "loading"}
    BY <1>1, <1>t DEF Boot, CtlRecs, HcRecs
  <2>. QED  BY <1>1, <1>t, <2>1, <2>2
            DEF Boot, UpdTypeOK, ActiveAccounted, CopiesFit, Undecided
<1>2. CASE \E tear \in BOOLEAN : PowerCut(tear)
  BY <1>2, <1>t, <1>h
     DEF PowerCut, UpdTypeOK, ActiveAccounted, CopiesFit, Undecided
<1>3. CASE ControllerLoads
  <2>1. ctl' \in CtlRecs /\ ctl'.pc # "saving"
    BY <1>3, <1>t DEF ControllerLoads, CtlRecs
  <2>. QED  BY <1>3, <1>t, <2>1
            DEF ControllerLoads, UpdTypeOK, ActiveAccounted, CopiesFit, Undecided
<1>4. CASE ApplyStarts
  <2>1. ctl' \in CtlRecs /\ ctl'.pc = "writing"
    BY <1>4, <1>t DEF ApplyStarts, CtlRecs
  <2>2. image' \in [Slots -> Images]
    BY <1>4, <1>t DEF ApplyStarts, Images
  <2>. QED  BY <1>4, <1>t, <2>1, <2>2
            DEF ApplyStarts, UpdTypeOK, ActiveAccounted, CopiesFit, Undecided
<1>5. CASE WriteFails
  <2>1. ctl' \in CtlRecs /\ ctl'.pc = "idle"
    BY <1>5, <1>t DEF WriteFails, CtlRecs
  <2>. QED  BY <1>5, <1>t, <2>1
            DEF WriteFails, UpdTypeOK, ActiveAccounted, CopiesFit, Undecided
<1>6. CASE UpdateSaved
  <2>1. ctl' \in CtlRecs /\ ctl'.pc = "idle"
    BY <1>6, <1>t DEF UpdateSaved, CtlRecs
  <2>2. Pending(file') /\ Accounted(file')
    BY <1>6 DEF UpdateSaved, Saves, CopiesFit, Pending, Accounted
  <2>. QED  BY <1>6, <1>t, <2>1, <2>2
            DEF UpdateSaved, Saves, UpdTypeOK, ActiveAccounted, CopiesFit, Undecided
<1>7. CASE \E release \in Images, ok \in BOOLEAN : Written(release, ok)
  <2> PICK release \in Images, ok \in BOOLEAN : Written(release, ok)
    BY <1>7
  <2>1. Updated(ctl.cfg) \in Configs /\ Pending(Updated(ctl.cfg))
    BY <1>t, UpdatedConfig
  <2>2. ctl' \in CtlRecs /\ ctl'.cfg = Updated(ctl.cfg)
    BY <2>1 DEF Written, CtlRecs
  <2>3. default' \in Slots
    BY <1>t, <2>1, <2>2 DEF Written, Links, Configs
  <2>4. image' \in [Slots -> Images]
    BY <1>t DEF Written
  <2>. QED  BY <1>t, <2>1, <2>2, <2>3, <2>4
            DEF Written, UpdTypeOK, ActiveAccounted, CopiesFit, Undecided
<1>8. CASE HealthLoads
  <2> DEFINE boots == Counted(file.slot[file.active].boots)
             cfg == [file EXCEPT !.slot[file.active].boots = boots]
  <2>1. CASE torn \/ ~ Pending(file)
    <3>1. hc' \in HcRecs /\ hc'.pc = "none"
      BY <1>8, <1>t, <2>1 DEF HealthLoads, HcRecs, Pending
    <3>. QED  BY <1>8, <1>t, <3>1
              DEF HealthLoads, UpdTypeOK, ActiveAccounted, CopiesFit, Undecided
  <2>2. CASE ~ torn /\ Pending(file)
    <3>1. boots \in Boots
      BY <1>t, CountedBoots DEF Configs, SlotRecs
    <3>2. cfg \in Configs /\ Pending(cfg)
      BY <1>t, <2>2, <3>1, CountedConfig
    <3>3. /\ hc' \in HcRecs /\ hc'.pc = "saving" /\ hc'.cfg = cfg
      BY <1>8, <2>2, <3>2 DEF HealthLoads, HcSaves, HcRecs, Pending
    <3>. QED  BY <1>8, <1>t, <2>2, <3>2, <3>3
              DEF HealthLoads, UpdTypeOK, ActiveAccounted, CopiesFit, Undecided,
                  Pending, Accounted
  <2>. QED  BY <2>1, <2>2
<1>9. CASE HealthSaved
  <2>1. hc' \in HcRecs /\ hc'.pc = hc.next /\ hc'.cfg = hc.cfg /\ hc'.next = hc.next
    BY <1>9, <1>t DEF HealthSaved, HcRecs
  <2>2. hc.next \in {"none", "waiting", "deciding", "relinking"}
    BY <1>t DEF HcRecs
  <2>3. Accounted(file')
    BY <1>9 DEF HealthSaved, Saves, CopiesFit
  <2>4. hc.next \in {"waiting", "deciding"} => Pending(hc.cfg) /\ Pending(file')
    BY <1>9 DEF HealthSaved, Saves, CopiesFit, Undecided
  <2>. QED  BY <1>9, <1>t, <2>1, <2>2, <2>3, <2>4
            DEF HealthSaved, Saves, UpdTypeOK, ActiveAccounted, CopiesFit, Undecided
<1>10. CASE HealthPasses
  <2> DEFINE cfg == [hc.cfg EXCEPT !.slot[hc.cfg.active].healthy = TRUE,
                                   !.slot[hc.cfg.active].pending = FALSE]
  <2>1. cfg \in Configs /\ Accounted(cfg)
    BY <1>t, ConfirmedConfig
  <2>2. hc' = [pc |-> "saving", next |-> "none", cfg |-> cfg]
    BY <1>10 DEF HealthPasses, HcSaves
  <2>3. hc' \in HcRecs
    BY <2>1, <2>2 DEF HcRecs
  <2>. QED  BY <1>10, <1>t, <2>1, <2>2, <2>3
            DEF HealthPasses, UpdTypeOK, ActiveAccounted, CopiesFit, Undecided
<1>11. CASE HealthFails
  <2> DEFINE boots == Counted(hc.cfg.slot[hc.cfg.active].boots)
             cfg == [hc.cfg EXCEPT !.slot[hc.cfg.active].boots = boots]
  <2>1. boots \in Boots
    BY <1>t, CountedBoots DEF Configs, SlotRecs
  <2>2. cfg \in Configs /\ Pending(cfg)
    BY <1>11, <1>t, <2>1, CountedConfig DEF HealthFails, CopiesFit, Undecided
  <2>3. hc' \in HcRecs /\ hc'.pc = "saving" /\ hc'.cfg = cfg
    BY <1>11, <2>2 DEF HealthFails, HcSaves, HcRecs
  <2>. QED  BY <1>11, <1>t, <2>2, <2>3
            DEF HealthFails, UpdTypeOK, ActiveAccounted, CopiesFit, Undecided,
                Pending, Accounted
<1>12. CASE Rollback
  <2> DEFINE previous == Other(hc.cfg.active)
             cfg == [hc.cfg EXCEPT !.active = previous,
                                   !.slot[previous].pending = FALSE]
  <2>1. CASE hc.cfg.slot[previous].healthy
    <3>1. cfg \in Configs /\ Accounted(cfg)
      BY <1>t, <2>1, RolledBackConfig
    <3>2. hc' = [pc |-> "saving", next |-> "relinking", cfg |-> cfg]
      BY <1>12, <2>1 DEF Rollback, HcSaves
    <3>3. hc' \in HcRecs
      BY <3>1, <3>2 DEF HcRecs
    <3>. QED  BY <1>12, <1>t, <3>1, <3>2, <3>3
              DEF Rollback, UpdTypeOK, ActiveAccounted, CopiesFit, Undecided
  <2>2. CASE ~ hc.cfg.slot[previous].healthy
    <3>1. hc' \in HcRecs /\ hc'.pc = "none"
      BY <1>12, <1>t, <2>2 DEF Rollback, HcRecs
    <3>. QED  BY <1>12, <1>t, <3>1
              DEF Rollback, UpdTypeOK, ActiveAccounted, CopiesFit, Undecided
  <2>. QED  BY <2>1, <2>2
<1>13. CASE \E ok \in BOOLEAN : Reboots(ok)
  <2> PICK ok \in BOOLEAN : Reboots(ok)
    BY <1>13
  <2>1. default' \in Slots
    BY <1>t DEF Reboots, Links, Configs
  <2>2. Halts
    BY DEF Reboots
  <2>. QED  BY <1>t, <1>h, <2>1, <2>2
            DEF Reboots, UpdTypeOK, ActiveAccounted, CopiesFit, Undecided
<1>14. CASE UNCHANGED updVars
  BY <1>14 DEF updVars, UpdTypeOK, ActiveAccounted, CopiesFit, Undecided
<1>. QED
  BY <1>1, <1>2, <1>3, <1>4, <1>5, <1>6, <1>7, <1>8, <1>9, <1>10, <1>11, <1>12,
     <1>13, <1>14 DEF UpdNext

-----------------------------------------------------------------------------
LEMMA UpdInvariant == UpdSpec => []UpdInv
  BY UpdInitInv, UpdStepInv, PTL DEF UpdSpec

\* Whatever is written over whatever and wherever the power goes, the file and
\* the two copies of it stay of their types.  It bounds no count of boots: those
\* beyond the attempts are taken together in the model.
THEOREM UpdateTyped == UpdSpec => []UpdTypeOK
<1>1. UpdInv => UpdTypeOK
  BY DEF UpdInv
<1>. QED  BY <1>1, UpdInvariant, PTL

\* Of apply_update, health_check and rollback on their copies of ozma-boot.json:
\* the file never calls a slot active that it has neither as confirmed nor as
\* under validation; which slot the machine runs is another question.
THEOREM UpdateAccounted == UpdSpec => []ActiveAccounted
<1>1. UpdInv => ActiveAccounted
  BY DEF UpdInv
<1>. QED  BY <1>1, UpdInvariant, PTL

\* The health check takes back an update under validation and nothing else.
THEOREM RollbackOfPending == UpdSpec => OnlyPendingRolledBack
<1>1. ASSUME UpdInv, [UpdNext]_updVars, file'.active # file.active
      PROVE  ctl.pc = "saving" \/ file.slot[file.active].pending
  <2>1. CASE UpdateSaved
    BY <2>1 DEF UpdateSaved
  <2>2. CASE HealthSaved
    BY <1>1, <2>2 DEF HealthSaved, UpdInv, CopiesFit, Pending
  <2>3. file' = file \/ UpdateSaved \/ HealthSaved
    BY <1>1 DEF UpdNext, updVars, Boot, PowerCut, ControllerLoads, ApplyStarts,
                WriteFails, Written, HealthLoads, HealthPasses, HealthFails,
                Rollback, Reboots
  <2>. QED  BY <1>1, <2>1, <2>2, <2>3
<1>2. UpdInv /\ [UpdNext]_updVars =>
        [file'.active # file.active =>
            ctl.pc = "saving" \/ file.slot[file.active].pending]_updVars
  BY <1>1
<1>. QED  BY <1>2, UpdInvariant, PTL DEF UpdSpec, OnlyPendingRolledBack
=============================================================================
