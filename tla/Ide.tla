-------------------------------- MODULE Ide ---------------------------------
(***************************************************************************)
(* One channel of devices/ide.c: ide_read and ide_write of several threads *)
(* on its two disks, the channel's lock, its completion semaphore, and the *)
(* interrupt handler, against a device that follows the ATA protocol.  A   *)
(* sector's four address registers are one value here.                     *)
(***************************************************************************)
EXTENDS Naturals, Kernel

CONSTANTS Caller,     \* threads that call the driver
          DiskSector, Data,
          Limit       \* sectors in 1 GB, from which a disk is ignored

ASSUME IdeAssumption == NULL \notin Caller /\ NULL \notin Data

VARIABLES owner,      \* holder of the channel's lock
          expecting_interrupt,
          completion_wait,   \* value of the semaphore
          where, req, \* [Caller -> where it is], [Caller -> its call]
          regs,       \* device and sector registers
          dev,        \* the selected device: status, command and sector
          irq,        \* its interrupt is pending
          disk,       \* [device -> [DiskSector -> Data]]
          panic,
          faulty      \* the device may report an error or hang
ideVars == <<owner, expecting_interrupt, completion_wait, where, req, regs, dev, irq, disk, panic, faulty>>

Device == {0, 1}
Call == [op : {"read", "write"}, dev : Device, sec : DiskSector, data : Data]
NoCommand == [status |-> "idle", op |-> NULL, dev |-> 0, sec |-> NULL, data |-> NULL]

IdeInit ==
  /\ owner = NULL /\ expecting_interrupt = FALSE /\ completion_wait = 0
  /\ where = [t \in Caller |-> "out"]
  /\ req = [t \in Caller |-> NULL]
  /\ regs = [dev |-> 0, sec |-> NULL]
  /\ dev = NoCommand /\ irq = FALSE
  /\ \E v \in Data : disk = [d \in Device |-> [s \in DiskSector |-> v]]
  /\ panic = FALSE /\ faulty \in BOOLEAN

Step(t, from, to) == ~panic /\ where[t] = from /\ where' = [where EXCEPT ![t] = to]

\* Mutant: the channel is not locked.
ChannelFreeAlways == TRUE

ChannelFree == owner = NULL

\* ide_read or ide_write is called and takes the channel's lock.
lock_acquire(t) ==
  /\ ChannelFree
  /\ Step(t, "out", "select") /\ owner' = t
  /\ \E c \in Call : (c.op = "write" \/ c.data = CHOOSE v \in Data : TRUE) /\ req' = [req EXCEPT ![t] = c]
  /\ UNCHANGED <<expecting_interrupt, completion_wait, regs, dev, irq, disk, panic, faulty>>

\* wait_until_idle returns: the device is idle, or the timeout is over.
wait_until_idle == dev.status = "idle" \/ faulty

\* The device register.
select_device(t) == regs' = [regs EXCEPT !.dev = req[t].dev]

\* Reading the status while it waits acknowledges a pending interrupt.
select_device_wait(t) ==
  /\ wait_until_idle
  /\ Step(t, "select", "sector")
  /\ select_device(t)
  /\ irq' = FALSE
  /\ UNCHANGED <<owner, expecting_interrupt, completion_wait, req, dev, disk, panic, faulty>>

\* select_sector: the sector registers.
select_sector(t) ==
  /\ Step(t, "sector", "issue")
  /\ regs' = [dev |-> req[t].dev, sec |-> req[t].sec]
  /\ UNCHANGED <<owner, expecting_interrupt, completion_wait, req, dev, irq, disk, panic, faulty>>

\* Where a read and a write go once the command is out.
AfterIssue(op) == IF op = "read" THEN "complete" ELSE "busy"

issue_pio_command(t) ==
  /\ Step(t, "issue", AfterIssue(req[t].op))
  /\ expecting_interrupt' = TRUE
  /\ dev' = [status |-> "busy", op |-> req[t].op, dev |-> regs.dev, sec |-> regs.sec, data |-> NULL]
  /\ UNCHANGED <<owner, completion_wait, req, regs, irq, disk, panic, faulty>>

\* Mutant: the sense of DRQ is inverted.
HasDataNot == dev.status # "drq"

HasData == dev.status = "drq"

\* wait_while_busy returns DRQ once BSY is clear, and gives up on a device
\* that hangs; both callers panic unless DRQ is set.
wait_while_busy(t) ==
  /\ where[t] = "busy" /\ (dev.status # "busy" \/ faulty)
  /\ IF HasData THEN Step(t, "busy", "data") /\ UNCHANGED panic
     ELSE ~panic /\ panic' = TRUE /\ UNCHANGED where
  /\ UNCHANGED <<owner, expecting_interrupt, completion_wait, req, regs, dev, irq, disk, faulty>>

\* Where a read and a write go once the data has been moved.
AfterData(op) == IF op = "read" THEN "done" ELSE "complete"

\* input_sector and output_sector.
MoveSector(t) ==
  /\ Step(t, "data", AfterData(req[t].op))
  /\ IF req[t].op = "read"
     THEN /\ req' = [req EXCEPT ![t].data = dev.data]
          /\ dev' = NoCommand
     ELSE /\ dev' = [dev EXCEPT !.status = "busy", !.data = req[t].data]
          /\ UNCHANGED req
  /\ UNCHANGED <<owner, expecting_interrupt, completion_wait, regs, irq, disk, panic, faulty>>

\* sema_down on completion_wait.
sema_down(t) ==
  /\ completion_wait > 0 /\ completion_wait' = completion_wait - 1
  /\ Step(t, "complete", IF req[t].op = "read" THEN "busy" ELSE "done")
  /\ UNCHANGED <<owner, expecting_interrupt, req, regs, dev, irq, disk, panic, faulty>>

lock_release(t) ==
  /\ Step(t, "done", "out")
  /\ owner' = NULL /\ req' = [req EXCEPT ![t] = NULL]
  /\ UNCHANGED <<expecting_interrupt, completion_wait, regs, dev, irq, disk, panic, faulty>>

MaxCompletions == 2   \* bound on what a faulty device may add

\* interrupt_handler: an interrupt not expected is only reported.
interrupt_handler ==
  /\ ~panic /\ irq /\ irq' = FALSE
  /\ IF expecting_interrupt THEN completion_wait < MaxCompletions /\ completion_wait' = completion_wait + 1 ELSE UNCHANGED completion_wait
  /\ UNCHANGED <<owner, expecting_interrupt, where, req, regs, dev, disk, panic, faulty>>

\* The device: a read has its data ready and a write has stored it, with an
\* interrupt; a write wants its data, without one.
DeviceReady ==
  /\ dev.status = "busy"
  /\ \/ /\ dev.op = "read" /\ dev' = [dev EXCEPT !.status = "drq", !.data = disk[dev.dev][dev.sec]]
        /\ irq' = TRUE /\ UNCHANGED disk
     \/ /\ dev.op = "write" /\ dev.data = NULL /\ dev' = [dev EXCEPT !.status = "drq"]
        /\ UNCHANGED <<irq, disk>>
     \/ /\ dev.op = "write" /\ dev.data # NULL /\ dev' = NoCommand
        /\ disk' = [disk EXCEPT ![dev.dev][dev.sec] = dev.data]
        /\ irq' = TRUE
  /\ UNCHANGED <<owner, expecting_interrupt, completion_wait, where, req, regs, panic, faulty>>

\* The device reports an error: it is idle again, and interrupts.
DeviceFails ==
  /\ faulty /\ dev.status = "busy"
  /\ dev' = NoCommand /\ irq' = TRUE
  /\ UNCHANGED <<owner, expecting_interrupt, completion_wait, where, req, regs, disk, panic, faulty>>

\* After a panic the kernel loops for ever.
Panicked == panic /\ UNCHANGED ideVars

CallStep(t) ==
  \/ lock_acquire(t) \/ select_device_wait(t) \/ select_sector(t) \/ issue_pio_command(t)
  \/ wait_while_busy(t) \/ MoveSector(t) \/ sema_down(t) \/ lock_release(t)

IdeNext ==
  \/ \E t \in Caller : CallStep(t)
  \/ interrupt_handler \/ DeviceReady \/ DeviceFails \/ Panicked

IdeSpec == IdeInit /\ [][IdeNext]_ideVars

-----------------------------------------------------------------------------
\* At the end of ide_read and ide_write, before the lock is released, the data
\* in the buffer is that of the sector and disk that were asked for: a write
\* "returns after the disk has acknowledged receiving the data".  A read from a
\* device that fails or hangs returns what is on the disk or ends in a panic,
\* whichever command failed before and whenever.
DataAsAsked ==
  \A t \in Caller : where[t] = "done" /\ (faulty => req[t].op = "read") =>
    disk[req[t].dev][req[t].sec] = req[t].data

\* Between calls nothing is left over for the next one to mistake for its own:
\* no completion counted, no interrupt pending, no transfer under way.
NothingLeftOver ==
  owner = NULL /\ ~faulty => completion_wait = 0 /\ ~irq /\ dev.status = "idle"

\* ide_read and ide_write: the data is that of the sector asked for, or the
\* kernel panics; and nothing is left over between calls for the next one to
\* mistake for its own.
TransferDone == DataAsAsked /\ NothingLeftOver

\* Where a call stands, if the disk is not faulty.
InDriver(t) == where[t] # "out"
Begun(t) == where[t] = "select" /\ ~faulty
Returned(t) == where[t] = "out"
-----------------------------------------------------------------------------
(***************************************************************************)
(* ide_init for one channel: which of its two devices are registered as    *)
(* disks, for every way the devices can answer.                            *)
(***************************************************************************)
VARIABLES hw,         \* what is on the channel: [0 .. 1 -> Hardware]
          busy,       \* devices that have not cleared BSY
          stage,      \* next step
          is_ata,     \* [0 .. 1 -> BOOLEAN]
          blocks      \* devices registered with the block layer
bootVars == <<hw, busy, stage, is_ata, blocks>>

Hardware ==
  [present : BOOLEAN, error : {1, 129, 0}, ready : BOOLEAN, hangs : BOOLEAN,
   signature : {"ata", "sata", "atapi"}, answers : BOOLEAN, capacity : {Limit - 1, Limit}]

\* 129 is device 0 saying that device 1 has failed its self test.
\* Nothing answers for a device that is not there.
Plausible(h) ==
  /\ h[0].error = 129 => h[1].error # 1
  /\ \A d \in {0, 1} : ~h[d].present => ~h[d].ready /\ ~h[d].answers /\ h[d].signature = "atapi" /\ ~h[d].hangs

IdeBootInit ==
  /\ hw \in {h \in [{0, 1} -> Hardware] : Plausible(h)}
  /\ stage = <<"reset", 0>> /\ busy = {}
  /\ is_ata = [d \in {0, 1} |-> FALSE]
  /\ blocks = {}

\* The devices present are waited for; one that hangs is given up.
StillBusy == {d \in {0, 1} : hw[d].present /\ hw[d].hangs}

reset_channel ==
  /\ stage = <<"reset", 0>> /\ stage' = <<"check", 0>>
  /\ busy' = StillBusy
  /\ UNCHANGED <<hw, is_ata, blocks>>

\* Mutant: 129 is taken for a failure of device 0, too.
PassedOwn(d) == hw[d].error = 1

\* The device passed its self test: error 1, or 129 from device 0.
Passed(d) == hw[d].error = 1 \/ (hw[d].error = 129 /\ d = 0)

\* check_device_type; device 1 is looked at unless device 0 is no disk and says
\* that device 1 has failed.
check_device_type(d) ==
  /\ stage = <<"check", d>>
  /\ IF Passed(d) /\ hw[d].ready /\ d \notin busy
     THEN /\ is_ata' = [is_ata EXCEPT ![d] = hw[d].signature \in {"ata", "sata"}]
          /\ stage' = IF d = 0 THEN <<"check", 1>> ELSE <<"identify", 0>>
     ELSE /\ UNCHANGED is_ata
          /\ stage' = IF d = 0 /\ hw[d].error # 129 THEN <<"check", 1>> ELSE <<"identify", 0>>
  /\ UNCHANGED <<hw, busy, blocks>>

\* The device answers IDENTIFY DEVICE and is not too big.
Accepts(d) == hw[d].answers /\ hw[d].capacity < Limit

identify_ata_device(d) ==
  /\ stage = <<"identify", d>>
  /\ stage' = IF d = 0 THEN <<"identify", 1>> ELSE <<"done", 1>>
  /\ is_ata' = [is_ata EXCEPT ![d] = @ /\ Accepts(d)]
  /\ blocks' = IF is_ata[d] /\ Accepts(d) THEN blocks \cup {d} ELSE blocks
  /\ UNCHANGED <<hw, busy>>

Done == stage = <<"done", 1>> /\ UNCHANGED bootVars

IdeBootNext == reset_channel \/ Done \/ \E d \in {0, 1} : check_device_type(d) \/ identify_ata_device(d)

IdeBootSpec == IdeBootInit /\ [][IdeBootNext]_bootVars
-----------------------------------------------------------------------------
\* When detection is over a device is registered exactly if it is a healthy
\* ATA disk below the size limit, whatever the other device on the channel is
\* or does, and is_ata says so.
DisksFound ==
  stage = <<"done", 1>> =>
    /\ blocks = {d \in {0, 1} : (hw[d].error = 1 \/ <<hw[d].error, d>> = <<129, 0>>) /\ hw[d].ready /\ ~hw[d].hangs
                                /\ hw[d].signature # "atapi" /\ hw[d].answers /\ hw[d].capacity < Limit}
    /\ \A d \in {0, 1} : is_ata[d] <=> d \in blocks
=============================================================================
