---------------------------- MODULE UpdateSlots ----------------------------
(***************************************************************************)
(* controller/update_manager.py on an appliance with two root partitions:  *)
(* an update is written to one slot while the other runs, the boot loader  *)
(* is told to start it, and a health check confirms it or rolls back.      *)
(*                                                                         *)
(* Two processes use the module, the controller and the health check that  *)
(* the init script starts beside it.  Each works on the copy of            *)
(* ozma-boot.json that it loaded when it started, and writes the whole     *)
(* copy back; neither reads the file again.                                *)
(***************************************************************************)
EXTENDS Integers

CONSTANT MaxAttempts   \* max_boot_attempts

ASSUME AttemptsAssumption == MaxAttempts \in Nat \ {0}

VARIABLES
    image,    \* what each slot's partition holds
    default,  \* the slot that syslinux starts
    file,     \* ozma-boot.json as last written
    torn,     \* ... which was cut by a power loss and does not parse
    running,  \* the slot the machine runs, or "off"
    ctl,      \* the controller: where it is, and its copy of the file
    hc        \* the health check: the same, and what follows its save

updVars == <<image, default, file, torn, running, ctl, hc>>

Slots == {"a", "b"}
Other(s) == IF s = "a" THEN "b" ELSE "a"
\* good answers the health check, bad starts without answering it, broken does
\* not start.
Images == {"good", "bad", "broken"}

\* The code counts on without a bound, for as long as a rollback is refused; but
\* it does not tell counts beyond MaxAttempts apart, so they are one here.
MaxCount == MaxAttempts + 1
Boots == 0 .. MaxCount
\* Mutant of Counted: a boot is counted before and after the check at once.
CountedTwice(n) == n + 2

Counted(n) == IF n = MaxCount THEN n ELSE n + 1

SlotRecs == [healthy : BOOLEAN, pending : BOOLEAN, boots : Boots]
Configs == [active : Slots, slot : [Slots -> SlotRecs]]
CtlRecs == [pc : {"down", "starting", "idle", "writing", "saving"}, cfg : Configs]
HcRecs == [pc : {"none", "loading", "saving", "waiting", "deciding", "relinking"},
           next : {"none", "waiting", "deciding", "relinking"}, cfg : Configs]

UpdTypeOK ==
    /\ image \in [Slots -> Images]
    /\ default \in Slots
    /\ file \in Configs
    /\ torn \in BOOLEAN
    /\ running \in Slots \cup {"off"}
    /\ ctl \in CtlRecs
    /\ hc \in HcRecs

\* The factory writes slot a and its file, with b unused.
Factory ==
    [active |-> "a",
     slot |-> [s \in Slots |->
                 [healthy |-> s = "a", pending |-> FALSE, boots |-> 0]]]

UpdInit ==
    /\ image = [s \in Slots |-> IF s = "a" THEN "good" ELSE "broken"]
    /\ default = "a"
    /\ file = Factory
    /\ torn = FALSE
    /\ running = "off"
    /\ ctl = [pc |-> "down", cfg |-> Factory]
    /\ hc = [pc |-> "none", next |-> "none", cfg |-> Factory]

-----------------------------------------------------------------------------
(* The machine.                                                            *)

Halts ==
    /\ running' = "off"
    /\ ctl' = [ctl EXCEPT !.pc = "down"]
    /\ hc' = [hc EXCEPT !.pc = "none"]

\* The init system starts the controller and then the health check, from the
\* partition that was booted.  A bad image's controller gets nowhere.
Boot ==
    /\ running = "off"
    /\ running' = default
    /\ ctl' = [ctl EXCEPT !.pc = IF image[default] = "good" THEN "starting"
                                 ELSE "down"]
    /\ hc' = [hc EXCEPT !.pc = IF image[default] = "broken" THEN "none"
                               ELSE "loading"]
    /\ UNCHANGED <<image, default, file, torn>>

\* Power is lost, or the operator restarts the machine; in the middle of a
\* write_text if tear.
PowerCut(tear) ==
    /\ running # "off"
    /\ tear => ctl.pc = "saving" \/ hc.pc = "saving"
    /\ torn' = (torn \/ tear)
    /\ Halts
    /\ UNCHANGED <<image, default, file>>

-----------------------------------------------------------------------------
(* The controller.                                                         *)

\* UpdateManager() in main.py: a file that does not parse ends the program.
ControllerLoads ==
    /\ ctl.pc = "starting"
    /\ ctl' = IF torn THEN [ctl EXCEPT !.pc = "down"]
              ELSE [pc |-> "idle", cfg |-> file]
    /\ UNCHANGED <<image, default, file, torn, running, hc>>

\* apply_update after download and verification: dd begins to write the slot
\* that is inactive in the controller's copy.
ApplyStarts ==
    /\ ctl.pc = "idle"
    /\ ctl' = [ctl EXCEPT !.pc = "writing"]
    /\ image' = [image EXCEPT ![Other(ctl.cfg.active)] = "broken"]
    /\ UNCHANGED <<default, file, torn, running, hc>>

WriteFails ==
    /\ ctl.pc = "writing"
    /\ ctl' = [ctl EXCEPT !.pc = "idle"]
    /\ UNCHANGED <<image, default, file, torn, running, hc>>

\* Mutant of Updated: the new slot is not marked for validation.
UpdatedUnchecked(cfg) ==
    LET new == Other(cfg.active) IN
    [active |-> new,
     slot |-> [cfg.slot EXCEPT ![new] =
                 [healthy |-> FALSE, pending |-> FALSE, boots |-> 0]]]

\* The configuration in which the inactive slot holds an update.
Updated(cfg) ==
    LET new == Other(cfg.active) IN
    [active |-> new,
     slot |-> [cfg.slot EXCEPT ![new] =
                 [healthy |-> FALSE, pending |-> TRUE, boots |-> 0]]]

\* _update_syslinux logs what fails.
Links(s, ok) == default' = IF ok THEN s ELSE default

\* dd ends with some release written; syslinux is changed before the file.
Written(release, ok) ==
    /\ ctl.pc = "writing"
    /\ image' = [image EXCEPT ![Other(ctl.cfg.active)] = release]
    /\ ctl' = [pc |-> "saving", cfg |-> Updated(ctl.cfg)]
    /\ Links(ctl'.cfg.active, ok)
    /\ UNCHANGED <<file, torn, running, hc>>

Saves(cfg) == file' = cfg /\ torn' = FALSE

UpdateSaved ==
    /\ ctl.pc = "saving"
    /\ Saves(ctl.cfg)
    /\ ctl' = [ctl EXCEPT !.pc = "idle"]
    /\ UNCHANGED <<image, default, running, hc>>

-----------------------------------------------------------------------------
(* The health check.                                                       *)

HcSaves(cfg, then) ==
    hc' = [pc |-> "saving", next |-> then, cfg |-> cfg]

\* Mutant of HealthLoads: confirmed slots are counted and checked again.
HealthLoadsAlways ==
    LET boots == Counted(file.slot[file.active].boots) IN
    /\ hc.pc = "loading"
    /\ IF torn THEN hc' = [hc EXCEPT !.pc = "none"]
       ELSE HcSaves([file EXCEPT !.slot[file.active].boots = boots],
                    IF boots > MaxAttempts THEN "deciding" ELSE "waiting")
    /\ UNCHANGED <<image, default, file, torn, running, ctl>>

\* health_check up to its first save: it counts this boot.
HealthLoads ==
    LET active == file.slot[file.active]
        boots == Counted(active.boots)
    IN
    /\ hc.pc = "loading"
    /\ IF torn \/ ~ active.pending THEN hc' = [hc EXCEPT !.pc = "none"]
       ELSE HcSaves([file EXCEPT !.slot[file.active].boots = boots],
                    IF boots > MaxAttempts THEN "deciding" ELSE "waiting")
    /\ UNCHANGED <<image, default, file, torn, running, ctl>>

HealthSaved ==
    /\ hc.pc = "saving"
    /\ Saves(hc.cfg)
    /\ hc' = [hc EXCEPT !.pc = hc.next]
    /\ UNCHANGED <<image, default, running, ctl>>

\* The controller of the slot that runs answers: the slot that is active in the
\* health check's copy is confirmed.
HealthPasses ==
    /\ hc.pc = "waiting"
    /\ ctl.pc \in {"idle", "writing", "saving"}
    /\ HcSaves([hc.cfg EXCEPT !.slot[hc.cfg.active].healthy = TRUE,
                              !.slot[hc.cfg.active].pending = FALSE], "none")
    /\ UNCHANGED <<image, default, file, torn, running, ctl>>

\* No answer within 60 s, be the controller bad or slow: the boot is counted
\* once more.
HealthFails ==
    LET boots == Counted(hc.cfg.slot[hc.cfg.active].boots) IN
    /\ hc.pc = "waiting"
    /\ HcSaves([hc.cfg EXCEPT !.slot[hc.cfg.active].boots = boots],
               IF boots >= MaxAttempts THEN "deciding" ELSE "none")
    /\ UNCHANGED <<image, default, file, torn, running, ctl>>

\* rollback up to its save; it is refused when the other slot is not healthy.
Rollback ==
    LET previous == Other(hc.cfg.active) IN
    /\ hc.pc = "deciding"
    /\ IF hc.cfg.slot[previous].healthy
       THEN HcSaves([hc.cfg EXCEPT !.active = previous,
                                   !.slot[previous].pending = FALSE], "relinking")
       ELSE hc' = [hc EXCEPT !.pc = "none"]
    /\ UNCHANGED <<image, default, file, torn, running, ctl>>

\* Its rest: syslinux after the file, and the reboot.
Reboots(ok) ==
    /\ hc.pc = "relinking"
    /\ Links(hc.cfg.active, ok)
    /\ Halts
    /\ UNCHANGED <<image, file, torn>>

-----------------------------------------------------------------------------
UpdNext ==
    \/ Boot
    \/ \E tear \in BOOLEAN : PowerCut(tear)
    \/ ControllerLoads \/ ApplyStarts \/ WriteFails \/ UpdateSaved
    \/ \E release \in Images, ok \in BOOLEAN : Written(release, ok)
    \/ HealthLoads \/ HealthSaved \/ HealthPasses \/ HealthFails \/ Rollback
    \/ \E ok \in BOOLEAN : Reboots(ok)

UpdSpec == UpdInit /\ [][UpdNext]_updVars

-----------------------------------------------------------------------------
(* Properties.                                                             *)

Accounted(cfg) == cfg.slot[cfg.active].healthy \/ cfg.slot[cfg.active].pending

\* The slot that ozma-boot.json calls active is confirmed or under validation in
\* it, whichever of the two processes wrote its whole copy last.  It speaks of
\* the file alone: after a power loss between syslinux and the file, or when one
\* of the two overwrites what the other wrote, the machine may run another slot,
\* and the health check, which asks the file, lets an update there pass
\* unchecked.
ActiveAccounted == Accounted(file)

\* A rollback only takes back an update that the file has under validation;
\* it never leaves a confirmed slot, though the health check decides on a copy
\* that the controller may have overwritten since.
OnlyPendingRolledBack ==
    [][file'.active # file.active =>
            ctl.pc = "saving" \/ file.slot[file.active].pending]_updVars

\* "Post-boot health check -> confirm or rollback": a confirmed slot stays
\* confirmed, and so fit to roll back to, until an update is written over it.
ConfirmationLasts ==
    [][\A s \in Slots : file.slot[s].healthy /\ ~ file'.slot[s].healthy
                            => s = file'.active]_updVars
=============================================================================
