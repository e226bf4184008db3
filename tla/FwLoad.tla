------------------------------- MODULE FwLoad -------------------------------
(***************************************************************************)
(* The download of the firmware: mt792x_load_firmware of                   *)
(* src/src/mt76/mt792x_core.c, the patch and RAM loaders of                *)
(* mt76_connac_mcu.c and mt7921_run_firmware of mt7921/mcu.c. It is called *)
(* by the start-up and by every attempt of the chip reset, never by both.  *)
(*                                                                         *)
(* The chip is outside the driver: its ROM gives the patch semaphore to    *)
(* who asks first, says when a patch is already there, and starts what it  *)
(* was sent. A command may be lost, or its answer; a command whose request *)
(* or answer finds no way (interrupts, DMA, rings or the receive NAPI off, *)
(* or the chip asleep) gets no answer either.                              *)
(*                                                                         *)
(* Names with an underscore are the same step with a bug, for checking     *)
(* that the properties notice.                                             *)
(***************************************************************************)
EXTENDS Integers, FiniteSets

CONSTANTS
    Regions,    \* regions of the patch, and of the RAM image
    MaxFaults   \* bound: commands lost, files missing, resets that fail

ASSUME FwAssumption == Regions \in Nat \ {0} /\ MaxFaults \in Nat

VARIABLES
    chip,       \* the chip: semaphore, what it was sent, what runs
    path,       \* the way to it: NAPIs, worker, interrupts, DMA, rings, ownership
    load,       \* where mt7921_run_firmware is
    faults      \* how many things have gone wrong

fwvars == <<chip, path, load, faults>>

Parts == {"rx", "tx", "worker", "irq", "dma", "rings", "awake"}
Fresh == [sem |-> FALSE, patch |-> 0, patched |-> FALSE, ram |-> 0, running |-> FALSE,
          stale |-> FALSE, hif |-> FALSE]
NoLoad == [at |-> "idle", i |-> 0, ok |-> TRUE, unsure |-> FALSE]

FwTypeOK ==
    /\ chip \in [sem : BOOLEAN, patch : 0 .. Regions, patched : BOOLEAN, ram : 0 .. Regions,
                 running : BOOLEAN, stale : BOOLEAN, hif : BOOLEAN]
    /\ path \in [Parts -> BOOLEAN]
    /\ load \in [at : {"idle", "restart", "sem", "file", "patch", "release", "ram", "ready",
                       "query", "done"}, i : 0 .. Regions, ok : BOOLEAN, unsure : BOOLEAN]
    /\ faults \in 0 .. MaxFaults

Alive == \A p \in Parts \ {"tx", "worker"} : path[p]
Fault == faults < MaxFaults /\ faults' = faults + 1

(* A command is answered, or the driver gives it up after three seconds.   *)
Answered == Alive /\ UNCHANGED faults
Unanswered == \/ ~Alive /\ UNCHANGED faults
              \/ Alive /\ Fault

(* The chip may have done what an unanswered command asks for.             *)
MayReach(c) == chip' \in {chip} \union (IF path["dma"] /\ path["rings"] THEN {c} ELSE {})

-----------------------------------------------------------------------------
(* mt792x_wfsys_reset: the chip starts anew; a reset that times out leaves *)
(* the driver with whatever the chip was.                                  *)
WfsysReset == \/ chip' = Fresh /\ UNCHANGED faults
              \/ chip' = [chip EXCEPT !.stale = TRUE] /\ Fault

(* load.i counts the regions sent; load.ok is the value returned;          *)
(* load.unsure (history) that no answer to a semaphore command came, so    *)
(* that nobody knows who has it.                                           *)
Call == load' = [NoLoad EXCEPT !.at = "restart"]
To(place) == load' = [load EXCEPT !.at = place, !.i = 0]
Fail(place) == load' = [load EXCEPT !.at = place, !.i = 0, !.ok = FALSE]
Sent == load' = [load EXCEPT !.i = @ + 1]
Unsure == load' = [load EXCEPT !.at = "done", !.ok = FALSE, !.unsure = TRUE]

(* mt76_connac_mcu_restart asks a running firmware to leave; the poll that *)
(* follows only warns.                                                     *)
Restart ==
    /\ load.at = "restart" /\ To("sem")
    /\ IF Alive THEN chip' = [chip EXCEPT !.running = FALSE] ELSE UNCHANGED chip
    /\ UNCHANGED <<path, faults>>

Taken == [chip EXCEPT !.sem = TRUE]

SemGet ==
    /\ load.at = "sem" /\ UNCHANGED path
    /\ \/ /\ Answered
          /\ \/ chip.patched /\ To("ram") /\ UNCHANGED chip
             \/ ~chip.patched /\ ~chip.sem /\ To("file") /\ chip' = Taken
             \/ ~chip.patched /\ chip.sem /\ Fail("done") /\ UNCHANGED chip
       \/ Unanswered /\ Unsure /\ (IF chip.patched THEN UNCHANGED chip ELSE MayReach(Taken))

(* request_firmware and the check of the image.                            *)
PatchFile ==
    /\ load.at = "file" /\ UNCHANGED <<chip, path>>
    /\ \/ To("patch") /\ UNCHANGED faults
       \/ Fail("release") /\ Fault

(* One round of the section loop: the request, which is answered, and the  *)
(* data, which is not.                                                     *)
PatchRegion ==
    /\ load.at = "patch" /\ load.i < Regions /\ UNCHANGED path
    /\ \/ Answered /\ chip' = [chip EXCEPT !.patch = load.i + 1] /\ Sent
       \/ Unanswered /\ Fail("release") /\ UNCHANGED chip

StartPatch ==
    /\ load.at = "patch" /\ load.i = Regions /\ UNCHANGED path
    /\ \/ Answered /\ To("release") /\ chip' = [chip EXCEPT !.patched = TRUE]
       \/ Unanswered /\ Fail("release") /\ MayReach([chip EXCEPT !.patched = TRUE])

Given == [chip EXCEPT !.sem = FALSE]

SemRelease_NotWhenFailed ==
    /\ load.at = "release" /\ UNCHANGED path
    /\ \/ /\ Answered /\ chip' = IF load.ok THEN Given ELSE chip
          /\ IF load.ok THEN To("ram") ELSE To("done")
       \/ Unanswered /\ Unsure /\ MayReach(Given)

SemRelease ==
    /\ load.at = "release" /\ UNCHANGED path
    /\ \/ /\ Answered /\ chip' = Given
          /\ IF load.ok THEN To("ram") ELSE To("done")
       \/ Unanswered /\ Unsure /\ MayReach(Given)

(* mt76_connac2_load_ram, with its file and one region after the other.    *)
RamFile ==
    /\ load.at = "ram" /\ load.i = 0 /\ Fault /\ Fail("done") /\ UNCHANGED <<chip, path>>

RamRegion ==
    /\ load.at = "ram" /\ load.i < Regions /\ UNCHANGED path
    /\ \/ Answered /\ chip' = [chip EXCEPT !.ram = load.i + 1] /\ Sent
       \/ Unanswered /\ Fail("done") /\ UNCHANGED chip

StartRam ==
    /\ load.at = "ram" /\ load.i = Regions /\ UNCHANGED path
    /\ \/ Answered /\ To("ready") /\ chip' = [chip EXCEPT !.running = TRUE]
       \/ Unanswered /\ Fail("done") /\ MayReach([chip EXCEPT !.running = TRUE])

(* The firmware reports for duty in 1.5 seconds, or is given up.           *)
Ready ==
    /\ load.at = "ready" /\ UNCHANGED path
    /\ \/ chip.running /\ To("query") /\ UNCHANGED <<chip, faults>>
       \/ Fail("done") /\ Fault /\ chip' = [chip EXCEPT !.running = FALSE]

(* mt7921_mcu_get_nic_capability and mt7921_load_clc: commands with an     *)
(* answer, of which one that fails ends the function.                      *)
Query ==
    /\ load.at = "query" /\ UNCHANGED <<chip, path>>
    /\ \/ Answered /\ To("done")
       \/ Unanswered /\ Fail("done")

LoadStep == \/ Restart \/ SemGet \/ PatchFile \/ PatchRegion \/ StartPatch \/ SemRelease
            \/ RamFile \/ RamRegion \/ StartRam \/ Ready \/ Query

-----------------------------------------------------------------------------
(* A download that is over has given the semaphore back, whether it failed *)
(* or not, unless the chip did not answer the semaphore command itself;    *)
(* every download finds it free, unless the chip could not be reset since  *)
(* the last one; and only a firmware sent in full runs                     *)
(* (mt76_connac2_load_patch, mt7921_init_hardware, mt7921e_mac_reset).     *)
SemReturned ==
    /\ chip.sem /\ load.at \in {"idle", "done"} => load.unsure
    /\ chip.sem /\ load.at = "sem" => chip.stale
    /\ chip.running => chip.patched /\ chip.patch = Regions /\ chip.ram = Regions
=============================================================================
