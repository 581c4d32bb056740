------------------------------ MODULE Bringup ------------------------------
(***************************************************************************)
(* How the drivers take their devices over from the firmware: from_pci_    *)
(* device(), new() and init() of virtio_blk.rs, virtio_net.rs,             *)
(* virtio_9p.rs, e1000e.rs, ac97.rs, ahci.rs and nvme.rs.  A behaviour     *)
(* follows one driver over the units it finds: the controllers or ports of *)
(* a disk driver one after the other, the first card of the rest.  What    *)
(* the drivers do with a device they have taken is in Drivers.             *)
(*                                                                         *)
(* What a device is told of memory is a set of pieces, named for what the  *)
(* driver allocates.  "firmware" is what the firmware's driver left in the *)
(* registers, "beyond" what lies behind a queue laid out too small.        *)
(***************************************************************************)
EXTENDS Integers, Sequences, FiniteSets, SequencesExt

CONSTANTS
  Kinds,      \* the drivers followed: a subset of AllKinds
  Units,      \* controllers or ports a disk driver finds
  QueueMax,   \* sizes of a virtqueue
  Spins       \* rounds of a waiting loop (1000 to 100 000 000 in the code)

AllKinds == {"blk", "net", "p9", "e1000e", "ac97", "ahci", "nvme"}
Virtio == {"blk", "net", "p9"}

ASSUME BringupAssumption ==
  Kinds \subseteq AllKinds /\ Units \in Nat \ {0} /\ QueueMax \in Nat /\ Spins \in Nat

VARIABLES
  driver, pc,
  unit,         \* the unit being initialised
  spins,        \* rounds of the loop at pc
  mem,          \* of each unit, what the driver has allocated: "held", or given back
  hw,          \* what each device has been told, and what it does
  drivers,      \* units initialised so far: the Vec of init()
  published,    \* what the driver's lock holds for the rest of the kernel
  late          \* units with a wait that ran out

bringupVars == <<driver, pc, unit, spins, mem, hw, drivers, published, late>>

MemoryPieces == {"queue", "second", "buffers", "tx", "rx", "txring", "bdl", "pcm",
           "list", "fis", "table", "stack", "sq", "cq", "page", "iocq", "iosq"}

\* What a working device of each kind runs, and the memory it has been told of.
EnginesOf ==
  [k \in AllKinds |-> CASE k = "ahci" -> {"list", "fis"} [] k = "ac97" -> {} [] OTHER -> {"on"}]
RingsOf ==
  [blk |-> {"queue"}, net |-> {"queue", "second", "buffers"}, p9 |-> {"queue"},
   e1000e |-> {"queue", "buffers", "txring"}, ac97 |-> {}, ahci |-> {"list", "fis", "table"},
   nvme |-> {"sq", "cq", "iocq", "iosq"}]

UnitIds == 1 .. Units
UnitsOf(k) == IF k \in {"blk", "ahci", "nvme"} THEN Units ELSE 1
FirstStep(k) == IF k = "ahci" THEN "hba" ELSE "bar"
Again(k) == IF k = "ahci" THEN "port" ELSE "bar"

-----------------------------------------------------------------------------
(* The steps every driver is made of.                                      *)

GoOn(p) == pc' = p /\ spins' = 0 /\ UNCHANGED <<unit, drivers>>

\* The loop of init() goes on with the next unit.
Advance(ds) ==
  /\ drivers' = ds /\ spins' = 0
  /\ IF unit < UnitsOf(driver) THEN unit' = unit + 1 /\ pc' = Again(driver)
     ELSE unit' = unit /\ pc' = "publish"

SkipUnit == Advance(drivers) /\ UNCHANGED hw
TakeUnit == Advance(drivers \cup {unit})

MarkMemory(pieces, m) ==
  mem' = [mem EXCEPT ![unit] = [p \in MemoryPieces |-> IF p \in pieces THEN m ELSE @[p]]]

\* Allocations in a row.  One that fails ends the unit's initialisation; the ones
\* before it are given back by some drivers (undo) and kept by the others.
Allocate(names, undo, Then) ==
  \/ MarkMemory(ToSet(names), "held") /\ Then
  \/ \E n \in 0 .. Len(names) - 1 :
       MarkMemory({names[i] : i \in 1 .. n}, IF undo THEN "gone" ELSE "held") /\ SkipUnit


\* A polling loop: it sees what it waits for, goes round again, or runs out.
PollFor(seen, Then, RanOut) ==
  \/ seen /\ Then /\ UNCHANGED late
  \/ /\ ~seen /\ spins < Spins
     /\ spins' = spins + 1
     /\ UNCHANGED <<pc, unit, mem, hw, drivers, late>>
  \/ ~seen /\ spins = Spins /\ RanOut /\ late' = late \cup {unit}

Told(pieces) == hw' = [hw EXCEPT ![unit].regs = @ \cup pieces]

\* A device that has been reset has stopped and forgotten what it was told.
Quiet(d) == [d EXCEPT !.on = {}, !.run = {}, !.regs = {}, !.cmds = {}]

\* A command for the device, with the memory it may use, and the wait for its answer.
Submit(pieces) == hw' = [hw EXCEPT ![unit].cmds = pieces, ![unit].answer = "none"]

Await(Good, Bad) ==
  PollFor(hw[unit].answer # "none", IF hw[unit].answer = "good" THEN Good ELSE Bad, Bad)

Publish ==
  /\ pc = "publish"
  /\ pc' = "end"
  /\ published' = drivers
  /\ UNCHANGED <<driver, unit, spins, mem, hw, drivers, late>>

DriverAt(k, p) == driver = k /\ pc = p /\ UNCHANGED <<driver, published>>

-----------------------------------------------------------------------------
(* The virtio devices.                                                     *)

VirtioAt(p) == driver \in Virtio /\ DriverAt(driver, p)

\* BAR0 must be an I/O port; the status register is cleared, which resets the device.
VirtioReset ==
  /\ VirtioAt("bar")
  /\ \/ SkipUnit
     \/ hw' = [hw EXCEPT ![unit] = Quiet(@)] /\ GoOn("queue")
  /\ UNCHANGED <<mem, late>>

\* A queue of no entries is refused.
QueueMemory ==
  /\ VirtioAt("queue")
  /\ \/ hw[unit].first = 0 /\ SkipUnit /\ UNCHANGED mem
     \/ hw[unit].first # 0 /\ Allocate(<<"queue">>, FALSE, GoOn("address") /\ UNCHANGED hw)
  /\ UNCHANGED late

QueueAddress ==
  /\ VirtioAt("address")
  /\ Told({"queue"}) /\ GoOn(IF driver = "net" THEN "second" ELSE "driver ok")
  /\ UNCHANGED <<mem, late>>

\* The transmit queue's own size is read and printed; its memory is laid out for the
\* size of the receive queue.
SecondMemory ==
  /\ DriverAt("net", "second")
  /\ Allocate(<<"second">>, FALSE, GoOn("second address") /\ UNCHANGED hw)
  /\ UNCHANGED late

\* A device without that queue ignores its address.
SecondAddress ==
  /\ DriverAt("net", "second address")
  /\ Told(IF hw[unit].second = 0 THEN {}
          ELSE IF hw[unit].second > hw[unit].first THEN {"second", "beyond"} ELSE {"second"})
  /\ GoOn("driver ok")
  /\ UNCHANGED <<mem, late>>

DriverOk ==
  /\ VirtioAt("driver ok")
  /\ hw' = [hw EXCEPT ![unit].on = {"on"}, ![unit].run = {"on"}]
  /\ CASE driver = "blk" -> TakeUnit /\ UNCHANGED mem
       [] driver = "net" -> GoOn("rx buffers") /\ UNCHANGED mem
       [] driver = "p9" -> GoOn("version") /\ MarkMemory({"tx", "rx"}, "held")
  /\ UNCHANGED late

\* allocate_rx_buffers() comes after DRIVER_OK; fill_rx_queue() hands the buffers over.
RxBuffers ==
  /\ DriverAt("net", "rx buffers")
  /\ Allocate(<<"buffers">>, FALSE, Told({"buffers"}) /\ TakeUnit)
  /\ UNCHANGED late

\* init() of virtio_9p.rs drops a driver whose Tversion or Tattach fails, and with it
\* the two vectors of its messages; the queue stays allocated.
DropDriver == MarkMemory({"tx", "rx"}, "gone") /\ SkipUnit

P9Request(now, next) ==
  /\ DriverAt("p9", now)
  /\ Submit({"tx", "rx"}) /\ GoOn(next)
  /\ UNCHANGED <<mem, late>>

DoVersion == P9Request("version", "Rversion")
DoAttach == P9Request("attach", "Rattach")

VersionAnswer ==
  /\ DriverAt("p9", "Rversion")
  /\ Await(GoOn("attach") /\ UNCHANGED <<mem, hw>>, DropDriver)

AttachAnswer ==
  /\ DriverAt("p9", "Rattach")
  /\ Await(TakeUnit /\ UNCHANGED <<mem, hw>>, DropDriver)

-----------------------------------------------------------------------------
(* e1000e and AC97.                                                        *)

\* A BAR of zero is refused; CTRL.RST is set, and the device resets when it likes.
E1000Reset ==
  /\ DriverAt("e1000e", "bar")
  /\ \/ SkipUnit
     \/ hw' = [hw EXCEPT ![unit].unsettled = TRUE] /\ GoOn("reset")
  /\ UNCHANGED <<mem, late>>

\* The loop over CTRL.RST is left in either case; an address of zeros is refused.
E1000Wait ==
  /\ DriverAt("e1000e", "reset")
  /\ LET Mac == SkipUnit \/ (GoOn("rings") /\ UNCHANGED hw)
     IN  PollFor(~hw[unit].unsettled, Mac /\ UNCHANGED mem, Mac /\ UNCHANGED mem)

\* The receive ring, its buffers, the transmit ring: what has been allocated before a
\* failure is not given back.
E1000Rings ==
  /\ DriverAt("e1000e", "rings")
  /\ Allocate(<<"queue", "buffers", "txring">>, FALSE, GoOn("registers") /\ UNCHANGED hw)
  /\ UNCHANGED late

E1000Registers ==
  /\ DriverAt("e1000e", "registers")
  /\ hw' = [hw EXCEPT ![unit].regs = RingsOf["e1000e"]]
  /\ GoOn("enable")
  /\ UNCHANGED <<mem, late>>

\* RCTL and TCTL.
E1000Enable ==
  /\ DriverAt("e1000e", "enable")
  /\ hw' = [hw EXCEPT ![unit].on = {"on"}, ![unit].run = {"on"}]
  /\ TakeUnit
  /\ UNCHANGED <<mem, late>>

\* The cold reset stops the controller's DMA; the codec needs a while.
Ac97Reset ==
  /\ DriverAt("ac97", "bar")
  /\ hw' = [hw EXCEPT ![unit] = [Quiet(@) EXCEPT !.unsettled = TRUE]]
  /\ GoOn("codec")
  /\ UNCHANGED <<mem, late>>

\* A codec that is not ready is printed, and initialised all the same.
Ac97Wait ==
  /\ DriverAt("ac97", "codec")
  /\ LET Mixer == GoOn("memory") /\ UNCHANGED <<mem, hw>>
     IN  PollFor(~hw[unit].unsettled, Mixer, Mixer)

Ac97Memory ==
  /\ DriverAt("ac97", "memory")
  /\ Allocate(<<"bdl", "pcm">>, TRUE, TakeUnit /\ UNCHANGED hw)
  /\ UNCHANGED late

-----------------------------------------------------------------------------
(* AHCI: ports of one controller.                                          *)

\* The controller's BAR5 must be memory and not zero.
HbaBar ==
  /\ DriverAt("ahci", "hba")
  /\ \/ GoOn("port")
     \/ pc' = "publish" /\ UNCHANGED <<unit, spins, drivers>>
  /\ UNCHANGED <<mem, hw, late>>

\* A port without a disk is passed over; at one with a disk stop_port() clears ST.
PortFound ==
  /\ DriverAt("ahci", "port")
  /\ \/ SkipUnit
     \/ hw' = [hw EXCEPT ![unit].on = @ \ {"list"}] /\ GoOn("stop list")
  /\ UNCHANGED <<mem, late>>

\* CR is awaited and FRE cleared, FR is awaited; either loop is left when it runs out.
StopList ==
  /\ DriverAt("ahci", "stop list")
  /\ LET ClearFre ==
           hw' = [hw EXCEPT ![unit].on = @ \ {"fis"}] /\ GoOn("stop fis") /\ UNCHANGED mem
     IN  PollFor("list" \notin hw[unit].run, ClearFre, ClearFre)

StopFis ==
  /\ DriverAt("ahci", "stop fis")
  /\ LET Stopped == GoOn("port memory") /\ UNCHANGED <<mem, hw>>
     IN  PollFor("fis" \notin hw[unit].run, Stopped, Stopped)

PortMemory ==
  /\ DriverAt("ahci", "port memory")
  /\ Allocate(<<"list", "fis", "table">>, TRUE, GoOn("clb") /\ UNCHANGED hw)
  /\ UNCHANGED late

\* CLB and FB are written.
PortRegisters ==
  /\ DriverAt("ahci", "clb")
  /\ hw' = [hw EXCEPT ![unit].regs = {"list", "fis"}]
  /\ GoOn("start")
  /\ UNCHANGED <<mem, late>>

\* FRE, ST, and only then the command table's address in the header of slot 0.
PortStart ==
  /\ DriverAt("ahci", "start")
  /\ hw' = [hw EXCEPT ![unit].on = {"list", "fis"}, ![unit].regs = @ \cup {"table"}]
  /\ GoOn("busy")
  /\ UNCHANGED <<mem, late>>

\* identify(): the answer goes to a buffer on the stack, which is gone when it returns.
FromIdentify == MarkMemory({"stack"}, "gone")

IdentifyDisk ==
  /\ DriverAt("ahci", "busy")
  /\ PollFor(~hw[unit].unsettled,
             Submit({"stack"}) /\ MarkMemory({"stack"}, "held") /\ GoOn("identified"),
             FromIdentify /\ SkipUnit)

DiskAnswer ==
  /\ DriverAt("ahci", "identified")
  /\ Await(FromIdentify /\ TakeUnit /\ UNCHANGED hw, FromIdentify /\ SkipUnit)

-----------------------------------------------------------------------------
(* NVMe.                                                                   *)

\* BAR0 must be memory and not zero; an enabled controller is disabled first.
ControllerOff ==
  /\ DriverAt("nvme", "bar")
  /\ \/ SkipUnit
     \/ /\ hw' = [hw EXCEPT ![unit].on = {}]
        /\ GoOn(IF hw[unit].on = {} THEN "admin" ELSE "disable")
  /\ UNCHANGED <<mem, late>>

AwaitOff ==
  /\ DriverAt("nvme", "disable")
  /\ PollFor(hw[unit].run = {}, GoOn("admin") /\ UNCHANGED <<mem, hw>>, SkipUnit /\ UNCHANGED mem)

AdminMemory ==
  /\ DriverAt("nvme", "admin")
  /\ Allocate(<<"sq", "cq">>, TRUE, GoOn("admin registers") /\ UNCHANGED hw)
  /\ UNCHANGED late

\* AQA, ASQ, ACQ.
AdminRegisters ==
  /\ DriverAt("nvme", "admin registers")
  /\ hw' = [hw EXCEPT ![unit].regs = {"sq", "cq"}]
  /\ GoOn("cc")
  /\ UNCHANGED <<mem, late>>

ControllerOn ==
  /\ DriverAt("nvme", "cc")
  /\ hw' = [hw EXCEPT ![unit].on = {"on"}]
  /\ GoOn("enable")
  /\ UNCHANGED <<mem, late>>

\* CSTS.CFS ends the wait for CSTS.RDY as well.
AwaitOn ==
  /\ DriverAt("nvme", "enable")
  /\ \/ PollFor(hw[unit].run # {}, GoOn("identify") /\ UNCHANGED <<mem, hw>>,
                SkipUnit /\ UNCHANGED mem)
     \/ SkipUnit /\ UNCHANGED <<mem, late>>

\* Identify reads a page of its own; a command that fails or times out keeps it.
Identify(now, next) ==
  /\ DriverAt("nvme", now)
  /\ Allocate(<<"page">>, FALSE, Submit({"page"}) /\ GoOn(next))
  /\ UNCHANGED late

IdentifyController == Identify("identify", "controller")
IdentifyNamespace == Identify("namespace", "size")

FreePage == MarkMemory({"page"}, "gone")

\* Identify that frees its page on the error path, too.
KeepPage_Frees == SkipUnit /\ FreePage

KeepPage == SkipUnit /\ UNCHANGED mem

ControllerAnswer ==
  /\ DriverAt("nvme", "controller")
  /\ Await(FreePage /\ GoOn("namespace") /\ UNCHANGED hw, KeepPage)

\* A namespace of no blocks is refused.
NamespaceAnswer ==
  /\ DriverAt("nvme", "size")
  /\ Await(FreePage /\ (SkipUnit \/ (GoOn("io queues") /\ UNCHANGED hw)), KeepPage)

CreateIoQueues ==
  /\ DriverAt("nvme", "io queues")
  /\ Allocate(<<"iocq", "iosq">>, TRUE, Submit({"iocq"}) /\ GoOn("io cq"))
  /\ UNCHANGED late

IoCqAnswer ==
  /\ DriverAt("nvme", "io cq")
  /\ Await(Submit({"iosq"}) /\ GoOn("io sq") /\ UNCHANGED mem, KeepPage)

IoSqAnswer ==
  /\ DriverAt("nvme", "io sq")
  /\ Await(TakeUnit /\ UNCHANGED <<mem, hw>>, KeepPage)

-----------------------------------------------------------------------------
(* The devices, which follow in their own time.                            *)

Device(u, d) ==
  /\ hw' = [hw EXCEPT ![u] = d]
  /\ UNCHANGED <<driver, pc, unit, spins, mem, drivers, published, late>>

\* An engine starts or stops as its enable bit says: CR, FR, CSTS.RDY.
Follow(u, e) ==
  /\ driver \in {"ahci", "nvme"} /\ (e \in hw[u].on) # (e \in hw[u].run)
  /\ Device(u, [hw[u] EXCEPT !.run = IF e \in hw[u].on THEN @ \cup {e} ELSE @ \ {e}])

\* A reset is over, the codec is ready, the port is no longer busy.
Settles(u) ==
  /\ hw[u].unsettled
  /\ Device(u, [(IF driver = "e1000e" THEN Quiet(hw[u]) ELSE hw[u]) EXCEPT !.unsettled = FALSE])

\* A command is answered.  Create I/O Queue leaves its memory with the controller.
Answers(u, good) ==
  /\ hw[u].cmds # {} /\ hw[u].run = EnginesOf[driver]
  /\ Device(u, [hw[u] EXCEPT !.cmds = {}, !.answer = IF good THEN "good" ELSE "bad",
                              !.regs = IF good THEN @ \cup (hw[u].cmds \cap RingsOf[driver]) ELSE @])

-----------------------------------------------------------------------------
\* The firmware has read the kernel from some disk and may have left it running.
LeftByFirmware(k) ==
  [on : {{}, EnginesOf[k]}, run : {{}, EnginesOf[k]},
   regs : {{"firmware"}}, cmds : {{}}, answer : {"none"},
   unsettled : IF k = "ahci" THEN BOOLEAN ELSE {FALSE},
   first : IF k \in Virtio THEN 0 .. QueueMax ELSE {0},
   second : IF k = "net" THEN 0 .. QueueMax ELSE {0}]

BringupInit ==
  /\ driver \in Kinds
  /\ pc = FirstStep(driver) /\ unit = 1 /\ spins = 0
  /\ mem = [u \in UnitIds |-> [p \in MemoryPieces |-> "none"]]
  /\ hw \in [UnitIds -> {d \in LeftByFirmware(driver) : d.on = d.run}]
  /\ drivers = {} /\ published = {} /\ late = {}

VirtioSteps ==
  \/ VirtioReset \/ QueueMemory \/ QueueAddress \/ SecondMemory \/ SecondAddress \/ DriverOk
  \/ RxBuffers \/ DoVersion \/ VersionAnswer \/ DoAttach \/ AttachAnswer
CardSteps ==
  \/ E1000Reset \/ E1000Wait \/ E1000Rings \/ E1000Registers \/ E1000Enable
  \/ Ac97Reset \/ Ac97Wait \/ Ac97Memory
AhciSteps ==
  \/ HbaBar \/ PortFound \/ StopList \/ StopFis \/ PortMemory \/ PortRegisters \/ PortStart
  \/ IdentifyDisk \/ DiskAnswer
NvmeSteps ==
  \/ ControllerOff \/ AwaitOff \/ AdminMemory \/ AdminRegisters \/ ControllerOn \/ AwaitOn
  \/ IdentifyController \/ ControllerAnswer \/ IdentifyNamespace \/ NamespaceAnswer
  \/ CreateIoQueues \/ IoCqAnswer \/ IoSqAnswer

DriverStep == VirtioSteps \/ CardSteps \/ AhciSteps \/ NvmeSteps \/ Publish

DeviceStep ==
  \E u \in UnitIds :
    \/ Settles(u)
    \/ \E e \in {"on", "list", "fis"} : Follow(u, e)
    \/ \E good \in BOOLEAN : Answers(u, good)

-----------------------------------------------------------------------------
HeldMemory(u) == {p \in MemoryPieces : mem[u][p] = "held"}

\* The receive and transmit queue of a virtio card are of one size.
EvenQueues(u) == driver = "net" => hw[u].first = hw[u].second

\* A running device has been told only of memory that is its driver's, or of what it
\* has from the firmware: no ring, queue or buffer is given back, on whichever error
\* path, while the device has it.  Two things the code does not exclude are: a
\* transmit queue longer than the receive queue, and a message or IDENTIFY buffer of
\* the 9P and AHCI drivers whose answer was awaited for too long.
DmaOwned ==
  \A u \in UnitIds : hw[u].run # {} /\ EvenQueues(u) =>
    /\ hw[u].regs \subseteq HeldMemory(u) \cup {"firmware"}
    /\ hw[u].cmds \subseteq HeldMemory(u) \/ (driver \in {"p9", "ahci"} /\ u \in late)

\* A unit whose initialisation went through, and which the kernel then uses, runs with
\* all of the memory its driver keeps for it and none of the firmware's, and has no
\* command of the initialisation left.  It stays so while the next ones are looked
\* at.  The loops that go on when they have run out (a reset, a codec, a port that
\* does not stop) and queues of two sizes are the exceptions.
ReadyWhenUp ==
  \A u \in drivers \cup published : u \notin late /\ EvenQueues(u) =>
    /\ hw[u].run = EnginesOf[driver] /\ ~hw[u].unsettled
    /\ hw[u].regs = RingsOf[driver] /\ hw[u].regs \subseteq HeldMemory(u)
    /\ hw[u].cmds = {}

\* What a driver has given back no device uses, and what it has published is ready.
BringupSound == DmaOwned /\ ReadyWhenUp
=============================================================================
