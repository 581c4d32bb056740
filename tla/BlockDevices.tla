---------------------------- MODULE BlockDevices ----------------------------
(***************************************************************************)
(* The disks: src/kernel/src/virtio_blk.rs, ahci.rs and nvme.rs.  Each is  *)
(* polled under a lock, one sector a call, with up to IO_RETRY_COUNT       *)
(* attempts; what a driver gives up waiting for stays with the device,     *)
(* which may still carry it out.  `kind' says which driver a behaviour is  *)
(* about; its disk is as module Bringup leaves a unit it has taken.        *)
(*                                                                         *)
(* The buffer of a call is the caller's until the call returns; after that *)
(* the memory belongs to somebody else, and a late write to the disk may   *)
(* take anything from it (Junk).                                           *)
(***************************************************************************)
EXTENDS Integers, Sequences, FiniteSets, SequencesExt

CONSTANTS
  Capacity,     \* sectors of the disk
  Values,       \* contents of a sector
  Blank, Junk,  \* what is on the disk at first; what an abandoned buffer may hold
  IndexMod,     \* the virtqueue's indices wrap here (2^16 in the code)
  Depth,        \* entries of an NVMe queue
  Retries,      \* IO_RETRY_COUNT
  BlkBudget     \* bounds: [calls |-> , timeouts |-> , errors |-> ]

ASSUME BlkAssumption ==
  Capacity \in Nat /\ IndexMod \in Nat \ {0, 1} /\ Depth \in Nat \ {0} /\ Retries \in Nat

VARIABLES
  kind,         \* "virtio", "ahci" or "nvme"
  disk,
  pending,      \* requests the device has and has not carried out (virtio, NVMe)
  dev,          \* what the device shows: used index, completion queue, AHCI port
  drv,          \* what the driver keeps about the queue
  call,         \* the call in progress, or the last one
  left          \* the rest of the budget

blkVars == <<kind, disk, pending, dev, drv, call, left>>

Sectors == 0 .. Capacity - 1

NoCommand == [op |-> "none", sector |-> 0]

FreshDevice ==
  [used |-> 0,                                              \* virtqueue: used idx
   cq |-> [i \in 0 .. Depth - 1 |-> [phase |-> FALSE, good |-> FALSE]],
   tail |-> 0, phase |-> TRUE,                              \* NVMe: where the device goes on
   fis |-> NoCommand, prdt |-> 0, ci |-> FALSE, go |-> FALSE,
   busy |-> FALSE, err |-> FALSE, cur |-> NoCommand, buffer |-> 0]   \* AHCI

FreshDriver == [last |-> 0, head |-> 0, phase |-> TRUE, owed |-> 0]

-----------------------------------------------------------------------------
(* A call and its attempts.                                                *)

Stages == {"issue", "prdt", "busy", "ci", "poll"}
InProgress == call.st \in Stages

\* A call: a sector behind the end is refused, except by the NVMe driver, which leaves
\* that to the device.
Begin(op, sector, val) ==
  /\ ~InProgress /\ left.calls > 0
  /\ left' = [left EXCEPT !.calls = @ - 1]
  /\ call' = [n |-> call.n + 1, op |-> op, sector |-> sector, val |-> val, attempt |-> 1,
              buf |-> Junk, status |-> "unset", clean |-> drv.owed = 0,
              st |-> IF kind # "nvme" /\ sector >= Capacity THEN "err" ELSE "issue"]
  /\ UNCHANGED <<kind, disk, pending, dev, drv>>

ReadSector(sector) == Begin("read", sector, Junk)
WriteSector(sector, val) == Begin("write", sector, val)

\* An attempt has failed: the next one, or the end.
Failed(c) ==
  IF c.attempt < Retries THEN [c EXCEPT !.attempt = @ + 1, !.st = "issue"]
  ELSE [c EXCEPT !.st = "err"]

Finished(c, good) == IF good THEN [c EXCEPT !.st = "ok"] ELSE Failed(c)

GiveUp ==
  /\ left.timeouts > 0
  /\ left' = [left EXCEPT !.timeouts = @ - 1]
  /\ call' = Failed(call)
  /\ UNCHANGED <<kind, disk, pending, dev, drv>>

-----------------------------------------------------------------------------
(* virtio-blk and NVMe: a queue of requests and one of completions.        *)

\* read_sector_once() and write_sector_once() hand over a request and have nothing yet.
Submitted(status) ==
  /\ pending' = Append(pending, [op |-> call.op, sector |-> call.sector, val |-> call.val, call |-> call.n])
  /\ drv' = [drv EXCEPT !.owed = @ + 1]
  /\ call' = [call EXCEPT !.st = "poll", !.status = status]
  /\ UNCHANGED <<kind, disk, dev, left>>

\* A chain of header, data and status byte, with the status byte at 0xFF.
SubmitChain == kind = "virtio" /\ call.st = "issue" /\ Submitted("unset")

\* An entry of the submission queue and the doorbell.
SubmitEntry == kind = "nvme" /\ call.st = "issue" /\ Submitted(call.status)

\* The device may write what is in the buffer: the caller's value while the call
\* lasts, anything after it.
Sources(n, val) == IF InProgress /\ n = call.n THEN {val} ELSE {val, Junk}

\* The completion the device shows: the used index, or an entry with its phase.
Announced(good) ==
  IF kind = "virtio" THEN [dev EXCEPT !.used = (@ + 1) % IndexMod]
  ELSE [dev EXCEPT !.cq[dev.tail] = [phase |-> dev.phase, good |-> good],
                   !.tail = (@ + 1) % Depth,
                   !.phase = IF dev.tail = Depth - 1 THEN ~@ ELSE @]

\* The status byte is on the stack: a late answer of this call finds the same byte,
\* one of an earlier call may or may not.
Slots(r) == IF r.call = call.n THEN {TRUE} ELSE BOOLEAN

\* The device carries out one request, or reports an error.
Carry(i, good) ==
  LET r == pending[i]
      mine == InProgress /\ r.call = call.n
  IN  /\ \/ good = (r.sector \in Sectors) /\ UNCHANGED left
         \/ /\ ~good /\ r.sector \in Sectors /\ left.errors > 0
            /\ left' = [left EXCEPT !.errors = @ - 1]
      /\ \E v \in Sources(r.call, r.val) :
           disk' = IF good /\ r.op = "write" THEN [disk EXCEPT ![r.sector] = v] ELSE disk
      /\ \E same \in Slots(r) :
           call' = [call EXCEPT
             !.buf = IF good /\ mine /\ r.op = "read" THEN disk[r.sector] ELSE @,
             !.status = IF same /\ call.st = "poll" THEN (IF good THEN "ok" ELSE "bad") ELSE @]
      /\ pending' = RemoveAt(pending, i)
      /\ dev' = Announced(good)
      /\ UNCHANGED <<kind, drv>>

\* The consumer of the completion queue, without the turn of the phase.
Consumed_OnePhase(d) ==
  [d EXCEPT !.head = (@ + 1) % Depth, !.owed = @ - 1]

\* poll_completion() has taken an entry: the phase turns at the end of the queue.
Consumed(d) ==
  [d EXCEPT !.head = (@ + 1) % Depth, !.owed = @ - 1,
            !.phase = IF d.head = Depth - 1 THEN ~@ ELSE @]

\* Is there an answer to see?  The used index has to be the next one, no later one.
Answered ==
  IF kind = "virtio" THEN dev.used = (drv.last + 1) % IndexMod
  ELSE dev.cq[drv.head].phase = drv.phase

\* The used index says that something is done and the status byte whether it went
\* well.
PollUsed ==
  /\ kind = "virtio" /\ call.st = "poll" /\ Answered
  /\ drv' = [drv EXCEPT !.last = (@ + 1) % IndexMod, !.owed = @ - 1]
  /\ call' = Finished(call, call.status = "ok")
  /\ UNCHANGED <<kind, disk, pending, dev, left>>

\* poll_completion() takes the next entry, whichever command it answers.
PollCompletion ==
  /\ kind = "nvme" /\ call.st = "poll" /\ Answered
  /\ drv' = Consumed(drv)
  /\ call' = Finished(call, dev.cq[drv.head].good)
  /\ UNCHANGED <<kind, disk, pending, dev, left>>

\* One hundred million rounds without an answer.
PollTimeout ==
  /\ kind \in {"virtio", "nvme"} /\ call.st = "poll" /\ ~Answered
  /\ GiveUp

-----------------------------------------------------------------------------
(* AHCI: one command slot in memory and a port.                            *)

\* read_sector_once() writes the header and the FIS, then the PRDT, whether or not
\* the device still has the command before.
WriteFis ==
  /\ kind = "ahci" /\ call.st = "issue"
  /\ dev' = [dev EXCEPT !.fis = [op |-> call.op, sector |-> call.sector]]
  /\ call' = [call EXCEPT !.st = "prdt"]
  /\ UNCHANGED <<kind, disk, pending, drv, left>>

WritePrdt ==
  /\ kind = "ahci" /\ call.st = "prdt"
  /\ dev' = [dev EXCEPT !.prdt = call.n]
  /\ call' = [call EXCEPT !.st = "busy"]
  /\ UNCHANGED <<kind, disk, pending, drv, left>>

\* issue_command_slot0() waits for BSY and DRQ.
NotBusy ==
  /\ kind = "ahci" /\ call.st = "busy" /\ ~dev.busy
  /\ call' = [call EXCEPT !.st = "ci"]
  /\ UNCHANGED <<kind, disk, pending, dev, drv, left>>

WriteCi ==
  /\ kind = "ahci" /\ call.st = "ci"
  /\ dev' = [dev EXCEPT !.ci = TRUE, !.go = @ \/ ~dev.busy]
  /\ call' = [call EXCEPT !.st = "poll"]
  /\ UNCHANGED <<kind, disk, pending, drv, left>>

\* CI is clear, or TFD shows an error, which may be that of the command before.
PollCi ==
  /\ kind = "ahci" /\ call.st = "poll" /\ (~dev.ci \/ dev.err)
  /\ call' = Finished(call, ~dev.err)
  /\ UNCHANGED <<kind, disk, pending, dev, drv, left>>

PortTimeout ==
  /\ kind = "ahci"
  /\ \/ call.st = "busy" /\ dev.busy
     \/ call.st = "poll" /\ dev.ci /\ ~dev.err
  /\ GiveUp

\* The port takes the command as it finds it in memory.
Fetch ==
  /\ dev.go /\ ~dev.busy
  /\ dev' = [dev EXCEPT !.go = FALSE, !.busy = TRUE, !.err = FALSE, !.cur = dev.fis, !.buffer = dev.prdt]
  /\ UNCHANGED <<kind, disk, pending, drv, call, left>>

\* The value behind a call's buffer; only the current call's is still known.
Held(n) == IF InProgress /\ n = call.n /\ call.op = "write" THEN {call.val} ELSE {Junk}

PortDone ==
  /\ dev.busy
  /\ \E v \in Held(dev.buffer) :
       disk' = IF dev.cur.op = "write" THEN [disk EXCEPT ![dev.cur.sector] = v] ELSE disk
  /\ call' = IF dev.cur.op = "read" /\ InProgress /\ dev.buffer = call.n
             THEN [call EXCEPT !.buf = disk[dev.cur.sector]] ELSE call
  /\ dev' = [dev EXCEPT !.busy = FALSE, !.ci = FALSE]
  /\ UNCHANGED <<kind, pending, drv, left>>

PortError ==
  /\ dev.busy /\ left.errors > 0
  /\ left' = [left EXCEPT !.errors = @ - 1]
  /\ \E ci \in BOOLEAN : dev' = [dev EXCEPT !.busy = FALSE, !.err = TRUE, !.ci = ci]
  /\ UNCHANGED <<kind, disk, pending, drv, call>>

-----------------------------------------------------------------------------
BlkInit ==
  /\ kind \in {"virtio", "ahci", "nvme"}
  /\ disk = [s \in Sectors |-> Blank]
  /\ pending = <<>>
  /\ dev = FreshDevice
  /\ drv = FreshDriver
  /\ call = [n |-> 0, op |-> "none", sector |-> 0, val |-> Junk, attempt |-> 0, buf |-> Junk,
             status |-> "unset", clean |-> TRUE, st |-> "idle"]
  /\ left = BlkBudget

BlkStep ==
  \/ \E s \in 0 .. Capacity : ReadSector(s) \/ \E v \in Values : WriteSector(s, v)
  \/ SubmitChain \/ SubmitEntry \/ PollUsed \/ PollCompletion \/ PollTimeout
  \/ \E i \in DOMAIN pending, good \in BOOLEAN : Carry(i, good)
  \/ WriteFis \/ WritePrdt \/ NotBusy \/ WriteCi \/ PollCi \/ PortTimeout
  \/ Fetch \/ PortDone \/ PortError

\* At the step in which a call returns success, what it asked for has happened, in
\* spite of timeouts, late answers and errors within the call: a read has the
\* contents of its sector, a write is on the disk.  The AHCI driver keeps this
\* always; the two with queues for calls that begin with no answer outstanding.  One
\* is left by every attempt that timed out, whether its call was given up or a later
\* attempt succeeded, and every call after that is exempt until the queue is even.
DoneWhenOk ==
  (call.st # "ok" /\ call'.st = "ok" /\ (kind = "ahci" \/ call.clean)) =>
    /\ call.sector \in Sectors
    /\ IF call.op = "read" THEN call.buf = disk[call.sector] ELSE disk[call.sector] = call.val

-----------------------------------------------------------------------------
(* What the code says of itself.                                           *)

\* Retries absorb what goes wrong for a while: a read that returns success has read
\* something, also after a retry has succeeded: virtio_blk.rs:137, nvme.rs:107.
ReadHasData == call.st = "ok" /\ call.op = "read" /\ (\A s \in Sectors : disk[s] # Junk) => call.buf # Junk
=============================================================================
