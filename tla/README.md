# Verification of base_drivers

This directory holds TLA+ specifications of the drivers in this repository, the
TLC configurations that check them on small instances, and TLAPS proofs of
their central properties for every instance. `PROJECT.json` lists the parts of
the system, the runs, the mutants that show that each property notices a
mistake, the source lines behind every definition, the findings and the hazards.

Run a check with `tlc -config MCDrivers.cfg MCDrivers`, a proof with
`tlapm Drivers_proofs.tla`.

## 1. What is in the repository

The repository is a collection of drivers written while learning ("从零开始的驱动"):
Linux drivers for the S3C2440 (JZ2440 board), exercises in C, and one large driver
for the Qualcomm SEE sensor framework. There are no tests; the promises are in
comments and log messages. Several of the Linux files are notes rather than
compilable code (full-width semicolons, missing `struct`); they are read for
what they plainly mean.

| Component | State | Operations | Hard behaviour | What makes it correct |
|---|---|---|---|---|
| **Demo IMU driver, sensors** (`sensor_driver/src/sns_demo_sensor*.c`) | per sensor: services found, registry stream, configuration received, pending rail state, timer, chip present, available; shared: registry groups, `registry_req_cnt` (uint8_t), com port, power rail vote | `notify_event` (services, registry replies, timer), `set_client_request` | sensors boot interleaved and share a counter, a com port and a rail; replies may be lost; detection by timer | available only when configured; no reply lost to a stream closed early; every detection decided; a running instance loses its power to nothing but a late detection |
| **Demo IMU driver, instance** (`sns_demo_sensor_instance*.c`, `sns_demo_hal*.c`) | per sensor: rate, wanted and running polling interval, timer; interrupt, FIFO bits, copies of registry flags | `init`, `set_client_config`, `notify_event` (timer, interrupt), flush | reconfiguration of one sensor touches all; copies of flags; deferred requests | the chip runs at the merged rate; timers follow requests; a FIFO has its interrupt |
| **Demo IMU driver, rates** (same files) | none | cast to whole hertz, ladder of output data rates, clamp, watermark | boundaries, repeated rounding, the fraction that the cast drops | least step that reaches the request but for less than 1 Hz; idempotent |
| **I2C adapter** (`i2c/3.4.2内核/i2c_bus.c`) | message array, message and byte index, state, error | `master_xfer`, interrupt handler | state machine driven by interrupts, empty messages, refusals, time-out | the bus sees exactly the transfer; buffers are respected; the result is true |
| **Button drivers** (`buttons/*.c`) | flag or semaphore, interrupts, key value, `ev_press`, wait queue, debouncing timer | open, read, close, poll, fasync, handler, timer | processes, handler and timer interleave; open/close race | one application inside; no lost wakeup; the lock is given back |
| **Ring buffer** (`基础知识/ringbuffer`) | buffer, free-running `in` and `out` | write, read, length | indices overflow, copies split at the end | a bounded queue |
| **Kernel lists** (`基础知识/kernel_list`: two versions of `list.h`, `list_test.c`, `sensor_core.c`, `acc.c`) | `next`/`prev` of heads and entries, `first`/`next`/`pprev` of hash lists | every insertion, removal, move, splice, cut and rotation; plain and safe loops; the emptiness test without a lock | stores whose order matters, neighbouring and lone cells, bodies that remove the entry they are at, a reader on another processor | both directions agree; the operations are those on sequences; a loop sees every entry once |
| **Linked list and sorts** (`基础知识/list`, `sort.c`, axis maps of `sensor_core.c`) | chain, arrays | create, insert at the head, the middle, the end; three sorts; mapping of axes | allocation fails half-way; boundaries | sequences are kept; a sorted permutation; a map can be undone |
| **Snake games** (`基础知识/snake/test.c`, `test3.c`, `test4.c`) | doubly or singly linked chain of cells, food, direction, score, level, lives, clock | tick, key, eating, death, next level | the chain is relinked on every tick; a signal handler that waits for keys and frees the chain; two keys change two counters | within a life the chain is whole and moves by one; the game goes on when the old chain was freed |
| **Message log in /proc** (`debug/my_proc_mymsg*.c`) | ring that overwrites, read indices | `myprintk`, open, read | interrupts print between a reader's steps and within other prints, no lock | a reader gets the log in order unless prints were interrupted by prints |
| **Touch screen** (`TouchScreen/s3c_tp*.c`) | ADC mode, sample counter, samples, timer | pen and ADC interrupts, timer, init, exit | three handlers share the ADC and the counter; what a touch leaves behind | something is always armed; no samples are kept at rest |
| **USB mouse as keys** (`USB/usb_mouse*.c`) | last button byte, urb | urb completion, probe, disconnect | completion against disconnect; submissions that are refused | the urb goes round unless one is refused; the left key does not hang |
| **DMA copy** (`DMA/dma*.c`) | `ev_dma`, channel, resources | ioctl, interrupt, loading, removal | ioctls share one channel and flag; signals; a loading that fails half-way, noticed or not | sleepers are woken; what a state needs is held, and given back |
| **Multi-touch panel** (`MultiTouchPanle`) | contacts of the last event, work item | probe, interrupt, work function, remove | interrupt against work, I2C in between | the last report shows the panel; the work ends before its device |
| Thread class (`基础知识/thread`) | id, stop flag | start, stop, join, detach | new thread against starter | a started thread can be stopped |
| EEPROM clients (`i2c/*`), RAM block device, NAND/NOR, virtual network card, LCD, sound, platform examples | little or none of their own | registration; callbacks of a kernel subsystem | in the kernel, not here | – |

How they interact: the two halves of the demo driver call each other (the
sensor creates and configures the instance; the instance publishes to the
sensor's clients) and share the power rail and the com port; the EEPROM clients
call the I2C adapter through the I2C core. Everything else is independent: each
driver meets the kernel, its interrupt and its processes only.

## 2. Modules

| Module | Models | Extends |
|---|---|---|
| `DemoRates` | the rate arithmetic | |
| `DemoInstance` | the sensor instance: configuration, polling timers, interrupts | `DemoRates` |
| `DemoSensor` | the sensors' boot and client requests, composed with the instance | `DemoInstance` |
| `DemoLifecycle` | abstract: what a sensor's boot promises | |
| `DemoExpectations` | what comments promise and the code does not do | `DemoSensor` |
| `I2cBus` | the I2C adapter with controller and devices | |
| `ByteFifo` | abstract: a bounded queue of bytes | |
| `RingBuffer` | the ring buffer | |
| `Buttons` | the four button drivers with a lock | |
| `TouchScreen` | the touch screen with controller, pen and timer | |
| `MultiTouch` | the touch panel, its work item and its removal | |
| `DmaCopy` | the DMA driver and the processes that share it | |
| `MouseKeys` | the mouse, its urb and its disconnection | |
| `MsgLog` | the log in /proc, its printers and its reader | |
| `DemoFifo` | the demo driver's parser of a FIFO burst | |
| `ListHeap` | the functions of `list.h` on pointers | |
| `ListRules` | abstract: heads with sequences of entries | |
| `KernelList` | programs that use the functions in any order | `ListHeap` |
| `ListWalk` | the loops, with every body | `ListHeap` |
| `ListCareful` | `list_empty_careful` on another processor | `ListHeap` |
| `SinglyLinked` | following one pointer from a cell | |
| `HashList` | the lists with a single-pointer head | `SinglyLinked` |
| `NodeList` | the singly linked list of `list_operation.c` | `SinglyLinked` |
| `Arrays` | the sorts and the axis maps | |
| `Snake`, `ConsoleSnake`, `FrameSnake` | the curses, the console and the frame buffer game | |
| `MCLists`, `MCExercises`, `MCDrivers` | the sums of the small components | the modules of their runs |
| other `MC...` | instances for TLC | |
| `CommonLemmas` | lemmas: indices that wrap around, induction over numbers, recursion | `TLAPS` |
| `DemoSensor_proofs` | theorems about the boot and about the clients | `MCDemoSensor` |
| `DemoRates_proofs`, `MCDemoRates_proofs` | lemmas and theorems about the rates | `DemoRates`; `MCDemoRates` |
| `Drivers_proofs`, `Lists_proofs`, `Exercises_proofs` | theorems about the small components | `MCDrivers`, `MCLists`, `MCExercises` |
| `KernelList_proofs` | the doubly linked lists implement `ListRules` | `Lists_proofs` |

Components that never meet are composed as a sum: a behaviour of `MCLists`,
`MCExercises` or `MCDrivers` is one of its components, chosen at the start, while the
variables of the others keep their initial values. One run can then ask the
questions of several small components, each over its own state space.

A definition with a suffix (`rb_read_from_out` before `rb_read`) is that
definition with a plausible mistake. It is used by no specification; the mutant
checks put it in the place of the right one to show that a property fails.

### 2.1 The demo IMU driver

The SEE framework serialises the calls of a library's entry points, so an action
of `DemoSensor` is one whole call. `NotifyEvent`, `DetectionSucceeds`,
`DetectionFails` and `RailTimerExpires` are the outcomes of
`demo_sensor_notify_event`: which services were found since the last call
(`found`), how many replies are waiting (`arrived`, a prefix of what the sensor
asked for, because the registry answers a stream in order) and whether the timer
expired are chosen by the framework. `ConfigRequest`, `UnknownRequest`,
`CalResetRequest`, `RemoveRequest` and `FlushRequest` are the branches of
`demo_set_client_request`; a first request creates the instance and votes the
rail on, and its configuration is deferred to a timer until the rail has been on
for off2idle (`settled`). `DemoInstance` keeps the C struct as one record,
because the code copies, changes and applies it as a whole; a rate stands for
the interval that is its inverse, a sensor's mask bit for membership in a set.

A rate is a float in the code. The model counts it in parts of a hertz, `Hz` of them to
the hertz, so that `whole`, the cast to `uint32_t` before the ladder, has something to
drop; the steps of the ladder and the platform's limits are whole hertz. The rounding of floats
is left out.

The registry's contents are abstracted to which groups were read. Faults
are a parameter: an envelope or a payload that does not decode, a request that
cannot be sent, an instance that cannot be created. `Sensors`, `Dri`
(which of them interrupt), `LevelIrq` and the rate limits are what the registry
JSON configures.

`DemoFifo` is `demo_handle_wtm_irq_event`: a burst of words, three to a frame, is taken
apart and published. The chip is external: it stores the frames of the enabled
sensors in turn, a dummy for a sensor without a sample, a sample never begins
like its sensor's dummy, and the first of a turn never like the word that an empty FIFO
returns. That is what the parser relies on; the length register may say any number of words, so
that a burst may end inside a frame or go on into the empty FIFO.

### 2.2 The I2C adapter

`master_xfer` is `s3c2440_i2c_xfer` up to its sleep, `XferReturns` and
`XferTimesOut` its two ends; `xfer_irq` is the handler, one step because the
S3C2440 has one processor and the handler is not preempted. Register writes are
abstracted to what goes over the bus: `bus` is what the controller is about to
clock out, `wire` the sequence of what was (start with address, byte written,
byte read with its acknowledgement, stop), so that "the right transfer" can be
stated against what a device sees, and not against the handler's variables. A device
may refuse any address or byte, and may hold the clock for ever (`Stall`).

### 2.3 The ring buffer

`rb_write` and `rb_read` are the functions, with both `memcpy` calls and the
unsigned arithmetic modulo `W`, which stands for 2^32. `memcpy` does not look
for the end of the buffer: writing past it would enlarge the function `buffer`,
which the type invariant excludes (`RingTypeCorrect`). `ByteFifo` is the queue that the ring promises to be; the
ring implements it under the mapping `contents`.

### 2.4 The button drivers

`variant` is the file: "atomic" for `buttons_atomic.c`, "noblock" for
`buttons_noblock.c` and its subset `buttons_sem.c`, "noshake" for
`buttons_noshake.c`. A process is preempted between any two statements that touch
shared state; `request_irq` and `free_irq` may sleep, so open and close proceed
line by line (`RequestIrq`, `FreeIrq`). Handler and timer function are one step
each. `wait_event_interruptible` is its three visible steps: on the queue
and looking (`waiting`), asleep (`sleeping`), through (`copying`), or woken by a
signal whose error the drivers ignore. `Edge` moves a key and, if its line is
requested, runs the handler, which reads the first entry of the table whichever
key it was, because every `request_irq` passes the whole table.

### 2.5 The other drivers

The chip has one processor, so an interrupt handler or a timer function is one
step; what a process or a kernel thread does proceeds step by step between them.

`TouchScreen` keeps of the registers what the controller is set to wait for
(`adctsc`) and whether a conversion runs (`adccon`). `pen_down_up_irq`, `adc_irq` and
`s3c_ts_timer_function` are the handlers; the controller interrupts while the pen
is as it waits for it to be. The samples `x` are a variable of their own because a
touch may end between two of them (section 3.1). `s3c_ts_init` and `InitReturns` are two steps, because
the timer is added without an expiry time before the registers are set up. What
the code reports is kept as it is: a release found by the pen's interrupt or the
timer is reported with a 1, and the second half of the filter is about `y`, to
which nothing is stored.

`MultiTouch` has the edge, the scheduled work item and the work function as
separate variables: the item may be scheduled again while its function reads.
`mtp_remove` is its three calls. `DmaCopy` has the loading step by step with each
failure and each ioctl in two parts, before and after it sleeps. Of what `s3c_dma_init`
takes without a look at the result (`Unchecked`: the device number, the class, the node,
the registers) it may get any part; the module is loaded all the same. Then there is
no ioctl without a device number, an ioctl without registers kills its process
(`DiesUnmapped`), and a removal without a class does not get through. `MouseKeys` follows
the one urb from submission to completion; a submission may be refused, which neither
probe nor the handler looks at (`usb_submit_urb`); disconnection is two steps; `news`
says that the mouse has something to report. `MsgLog`
breaks a read into taking a character, moving the index, storing it, with
`mylog_putc` between any two; `file` is the source that is built. A print is one
step unless another one interrupts it: that one is then `PutChecks`, `PutStores` and
`PutAdvances`, with whole prints in between, and the build may or may not have `kept` the
index from one statement to the next. `nested` remembers that it happened.

### 2.6 The lists

`ListHeap` translates each function of `list.h` into an operator on the pointers of
all cells, store by store, so that a result that depends on the order of the stores
is right when two of the cells are the same one. `KernelList` calls them in any
order, under the callers' rules that the comments of the header state: an entry is
added only when it is on no list, an operation is called only on cells whose
pointers are valid (`live`). `list_cut_position` fills a list that is empty or that its
owner does not care about losing: the latter is `Forget`, after which head and entries are
as if they were new. `ListRules` knows no pointers: a head has a sequence of
entries. `KernelList` implements it under the mapping that follows `next` from
every head. `EntriesInPlace` says of each operation where exactly the entry goes.

`ListWalk` is one loop: its direction, whether it is a safe one and where it starts
are chosen at the beginning, the body at every turn. The body that calls
`list_replace` is there in a safe loop, too, where a comment says that the loop "will
stop" (`list_test.c:57`). It does not: the safe loop has noted the next entry before the
body runs, and `WalkSeesEach` holds, in the model and on the header. With the
`list_del_init` of line 60 behind it the replaced entry, which still points to its old
neighbours, would take the new one off the list again, and the loop would still come by the
others and end at the head. `ListCareful` has two
processors: the deleter's four stores are separate steps, and so are the reader's
two loads. In `HashList` a cell has a `slot` (a bucket's `first` or a node's `next`)
and `pprev` is the cell whose slot points to the node. In `NodeList` malloc may fail
at each node, and what it returns holds junk.

### 2.7 Games and arrays

`Snake` has the heap with both pointers of every cell, since `test.c` moves its last
cell to the front by relinking; a tick is `Creep`, `Eat` or `Crash`, and `KeyGoesOn` is
the key that the signal handler waits for. It ends in `delete_snake`, which reads
`pNext` of the cell it has just freed (`test.c:337-338`). If `free` left it as it was, the
chain is freed and the next life begins; if not, freeing what it finds there ends the program
(`delete_snake_dies`, the mode "killed"). So the heap of the model is that of one life: the cells that
`delete_snake` misses, and the one that `init_snake` mallocs for `pSnakeTrace` and never
frees (`test.c:88`), are outside of it. In `ConsoleSnake` and `FrameSnake` the
chain is singly linked and only taken at its ends: it is a sequence. A turn of
the loop is one action. `Arrays` defines the sorts by recursive functions over their loops; each
array is an initial state.

## 3. Runs

| Run | Checks | Instance, and why it is enough |
|---|---|---|
| `rates` | rate arithmetic | 25–400 Hz as in the registry files; 13 rates in halves of a hertz (`Hz = 2`): on, half a hertz above and far from the ladder's steps and the limits, and half a hertz itself; every pair of two clients' wishes |
| `demo_boot` | counter, dummy byte, com port, refinement of `DemoLifecycle` | three sensors (one shares all groups, one has only its own, one adds a shared group), lost envelopes, payloads and requests, chip present or not |
| `demo_boot_any_order` | every detection is decided; what takes power from a running instance | two sensors, services found in any order, no faults; one client that makes any request but one for a rate (`WishedRates = {}`), and makes it before the other sensor is detected (`StaggeredBoot`); only the timers are fair (`TimerSpec`) |
| `demo_live` | the accelerometer becomes available; deferred requests are applied | two sensors from the first service to a client's request, fair |
| `demo_clients` | merged rate, polling timers, FIFO interrupt with the copied flags | a polled and a data-ready sensor, two interchangeable clients, a rate below and one above the range, starting where a fault-free boot ends |
| `lists` | pointers of both kinds of list, loops, emptiness test, refinement of `ListRules` by the kernel's lists, the hash lists and the linked list | three entries on two heads: an entry can be first, last, between or alone, with a list to move to; entries are interchangeable. Four nodes that malloc can return |
| `exercises` | the games, the ring buffer, the arrays | see below |
| `drivers` | buttons, I2C adapter, touch screen, touch panel, DMA copy, mouse, message log, FIFO reader | see below |
| `demo_detect` | *violation* | a gyroscope whose replies come before the accelerometer's never detects |
| `demo_flush` | *violation* | a gyroscope's flush is never answered |
| `buttons_flag` | *violation* | two applications and the flag: an application with an open device has no interrupts |
| `proc_log` | *violation* | a reader that opens a log with messages sleeps: the index is compared with the wrong one |

Instances of `drivers`: three applications (one inside, two that fail at the same
time), two keys (a state between two lines), all variants; all transfers of up to three messages
of up to two bytes (an index that is wrong shows within two messages, three have a
first, a middle and a last one, and the probe is among them); three readings, two
of them close enough for the filter to accept; two contacts, the first with the
special case of the low byte; two callers of the DMA; a log of three characters, of which two
fit, and six printed ones, so that it wraps twice under one read, with prints within a print; any part of what the DMA driver's loading may miss; a submission of the urb refused at any time; every burst of up to four
frames (two turns of both sensors), cut at any word or with up to four words beyond, of words
that look like either dummy, like the end and like none. Instances of
`exercises`: a screen on which the curses snake starts at the bottom with four
columns to turn in and two levels to pass; a console map with a food on it and one beside
it, since `createFood` may leave either; a frame of nine squares and four meals, after which
a snake is long enough to meet itself; a ring of four bytes with
indices modulo 16 and calls of up to five bytes: more than the capacity, over the end, over
the overflow; all arrays of up to four numbers with the least `int16_t` among them.

A property that several components share a question for is one conjunction in the
MC module: `UnloadsCleanly`, `InputsKeepComing`, `GamesGoOn`, `SnakesMoveOn`,
`ChainsKeepSequences`; its conjuncts stay named in the components. The type
invariants, `AvailableIsConfigured`, `BufferInBounds`, `LengthsAddUp`,
`RequestHonoured` and `OffExactlyWhenIdle` are proved for all values (section 4)
and not repeated in a run.

The `demo_*` runs use limits of 3 and 12 Hz with rates of 3.5 and 20 Hz (2.5 while booting), so that the
clamp, the cast and the rounding all act. Deadlock checking is off where a program may be done: after
the boot there may be nothing left to do, loops, games and creations of lists end,
and the bound on the printed characters ends the log.

**Bounds.** For TLC's sake only: `W` and `MaxLen` of the ring buffer, `MaxPut` and
`MaxCount` of the log, `MaxFrames` and `MaxFill` of the FIFO, `Feasts` of the frame buffer game (its snake could fill the
field), `Listed` and `MaxSize` for what initial lists and arrays hold. All are
parameters; none is in a theorem's way. Clients hold at most one accepted request
each, as the framework sees to, and the wire of the I2C bus is as long as the
transfer.

**Fairness.** `FairSpec` of `DemoSensor`: the framework delivers the services it
found and the replies the registry sent (weakly fair per sensor), expires the
timers it holds, and time passes until the rail has settled. None of it is a
property of the driver, and all of it the driver relies on. Clients are not
fair: nobody has to send a request. `BusFairness`: a controller
that was started interrupts unless the clock is held, and the kernel runs a
process that was woken or whose time is over; devices are not fair.
`TimerSpec` is what `demo_boot_any_order` runs under: timers expire, while services may never be found
and replies never come. `TouchFairness`: a conversion that runs ends in its interrupt, the pen's interrupt
and a pending timer are delivered, a loading goes on. The pen is not fair.
`MouseFairness`: the host controller completes the submitted urb of a mouse that has
something to report, and calls the handler of one that is completed. A mouse at rest may keep its
urb for ever, and a submission may be refused for ever: `InputsKeepComing` asks for nothing then. In the sum the fairness of the components
that were not chosen asks for nothing, because none of their fair actions is enabled in the
initial state. The rest of `MCDrivers`, and the lists and games, are checked for
safety only: no key has to be pressed and nobody has to call.

### 3.1 Further expectations

The modules state more that comments promise, or a reader would expect, and
TLC refutes; it is not among the listed runs. To reproduce one, copy the named
configuration (those of the `demo_*` runs with `Sensors <- AccGyr`, `ChipAnswers = {TRUE}` and
`StaggeredBoot = FALSE`) and check the property alone, as an INVARIANT if
it is a state predicate and as a PROPERTY if not, with these changes:

| Property | Specification and constants | What TLC shows |
|---|---|---|
| `PoweredWhileStreaming` | `MCDemoBootAnyOrder.cfg` with `SPECIFICATION Spec`, `WishedRates = {5}`, `SuidsInOrder = TRUE`, `StaggeredBoot = TRUE` | a sensor that detects late votes the shared rail off under the running instance ("sensor power down", `sns_demo_sensor.c:413-414`) |
| `DetectedSensorAnnounced` | `MCDemoDetect.cfg`, `SuidsInOrder = FALSE` | the registry is found before the timer service: no timer, `hw_is_present` stops further detections, AVAILABLE is never published |
| `FailedInstancePowersOff` | `MCDemoFlush.cfg`, `FairSpec`, `Dri = {}`, `Faults = {"instance"}` | the DEINIT state that would power off is overwritten in the same call (`sns_demo_sensor_island.c:177`) |
| `PendingStateHandled` | the same | a second request removes the timer of the first and leaves its state pending (`sns_demo_sensor_island.c:386`) |
| `FlushAfterPhysicalConfig` | `MCDemoFlush.cfg`, `Dri = {}` | a flush is answered while the configuration before it is deferred |
| `AnnouncedRateIsTheChips` | the same | the event is published before the rate is clamped (`sns_demo_sensor_instance_island.c:232`) |
| `ConfiguredOnSettledRail` | the same | a second sensor's request does not wait for the rail |
| `WatermarkRegisterHoldsFrames` | `MCDemoRates.cfg` | `GET_MSB` masks and does not shift (`sns_demo_common.h:132`) |
| `OdrSatisfiesRequest` | the same | 25.5 Hz is cast to 25 before the ladder and gets the step of 25 Hz (`sns_demo_sensor_instance.c:63`) |
| `WatermarkIsNeverZero` | the same | an unbatched client of 25.5 Hz: `(uint16_t)(25 / 25.5)` is 0 (`sns_demo_sensor_instance.c:211`) |
| `TouchesApart` | `MCDrivers.cfg`, `Volts = {0, 1}` | the pen goes up after one sample and the timer reports the release, which empties nothing: the next touch is averaged with that sample (`s3c_tp4.c:79-92`, `94-110`) |
| `LoadedIsComplete` | `MCDrivers.cfg` | the module is loaded without device number, class, node or registers: the results at `dma2.c:110-115` are ignored |
| `MouseStaysHeard` | `MCDrivers.cfg` | a refused submission (`usb_mouse4.c:95`, `171`) is ignored, and the mouse is silent until it is plugged in again |
| `ReadInOrder`, `PrintKeepsLog` | `MCDrivers.cfg` | a print within a print overwrites its character or passes a place with an older one (`my_proc_mymsg.c:26-38`) |

## 4. Proofs

Everything below holds for every value of the constants that satisfies the
named assumptions: any set of sensors with the accelerometer, any clients, rates, in
whatever parts of a hertz, and faults; any transfers of any messages; any ring whose size divides the range of
its indices; any finite number of applications and keys; any clients and any finite
set of rates; any heads, entries, buckets and nodes; any readings, contacts and
callers; any length of the log, any burst of frames; any screens, maps, levels and speeds of the games; any array.

**Demo driver** (`DemoSensor_proofs`). Assumptions: `SensorsAssumption`,
`EnvironmentAssumption`. The wanted properties are not inductive: that an available
sensor is configured depends on what a pending INIT state and a present chip
imply. `BootInv` adds `DetectionSound` (a sensor that detected had its own and the
shared configuration) and `RepliesInOrder` (a reply is outstanding only after the
registry was found; once PLATFORM_CONFIG is read, the accelerometer's first
request, SPEC, is no longer outstanding), which is why the dummy byte is known.
The proof goes by groups: what the inputs do to the registry state
(`InputsKeepOrder`), what a detection does (`DetectKeepsHwInv`), and that requests
leave both alone. The counter needs `CountInv`: it covers the replies to come, and
with the requests not yet asked it stays within a byte, which bounds the sum over
all sensors by the number of their requests (`RequestsAreFew`). From these follow
`TypeCorrect`, `AvailableConfigured`, `DummyByteAlwaysKnown`, `PortClosed`,
`NoReplyIsLost`, and `BootImplementsLifecycle`: each step of the whole driver,
requests and interrupts included, is a step of `DemoLifecycle` or a stutter.

**Demo driver, clients** (`DemoSensor_proofs`). What clients may rely on is proved of
`ClientsServed`: of the client phase after a boot without faults, and of every boot, with
any of its faults, whose clients wait for the last sensor (`~StaggeredBoot`). The
assumption is needed: with staggered boots a late detection changes what the sensors share.
Of power alone nothing is assumed: `PowerOnlyLostLate` says of every boot that a running instance
loses the rail only to such a detection. It rests on `BootInv` and on PLATFORM_CONFIG having
been read before there is an instance (`PlatformKnown`); that detections do take the rail away is the refuted
`PoweredWhileStreaming` (section 3.1). `ClientInv`, on top of `BootInv`, says that an
instance exists only when no sensor is left to detect (`AfterBoot`); that what the
registry set up is not set up again; and that the instance fits the sensors' requests
(`InstanceFits`). Reconfiguring one sensor applies the configuration of all again: that
this changes nothing for the others is `ConfigApplied`'s difficulty, and follows from the
stability of clamp and rounding (`ChipRateIsRate` and the lemmas of `DemoRates_proofs`).
`FifoSound` and `PollingSound` carry the copies of the registry flags: a copy is taken
when the instance is made, after the last change of the flag, hence is never stale.

**I2C adapter** (`Drivers_proofs`). `BusInv` adds to the properties where the handler
stands relative to the wire: `Position` ties state, pointer and what the
controller is about to send; `Legal` says that the wire so far follows the
protocol; `Continues` that what is about to be clocked out may follow its last
event. Without `Continues` nothing would relate the pointer, which the handler
moves, to the events a device has seen. Every case of the handler is a lemma.

**Ring buffer** (`Exercises_proofs`). `RingInv` says that the distance of the indices
modulo `W` is at most the size; that each of the two copies ends within the
buffer follows from it and from the division of `W` by the size. `RingIsQueue` is the
refinement of `ByteFifo`: a position that overflows keeps its place in the buffer
because `W` is a multiple of the size (`PlaceSurvivesOverflow`), so the valid bytes
stand at consecutive places that go round at most once (`PlacesAround`); with the
split of a copy at the end of the buffer (`CopiesGoRound`) a read is the queue's
read (`ReadIsRead`) and a write the queue's write (`WriteIsWrite`).

**Games** (`Exercises_proofs`). Assumptions: `SnakeAssumption` (the score that ends a level
does not fall from one to the next, or there would be a level that starts above its end),
`ConsoleAssumption` (the first snake lies on the map, in columns that the right wall shares: a head two
columns wide would step over a wall in between), `FrameAssumption`. For the curses game
`Snaking` says which sequence of cells the heap of a life holds: `Chained` is a sequence linked
both ways, `Feeding` adds that the food is the one other cell that is allocated. That
following `pNext` from the head gives this sequence (`ChainIs`) is an induction along the chain.
The crawl and the meal are each a row of stores (`CrawlWrites`, `EatWrites`); what they do
to a sequence is `CrawlKeeps` and `EatKeeps`. `malloc` finds a cell because the snake is
shorter than the heap (`MallocIs`, by the pigeonhole principle), which in turn holds because
the score stays within the level. From the positions of both chains it follows that a tick
moves what is seen by one square (`Glides`). In the other games the head is one step
from the second cell in the direction last taken, so a key that is not against that
direction cannot turn the head into it (the curses game takes such a key, moves into the neck and ends
the life); the console game's score is a function of the speed
since the speed goes by 30 from 20 to 350. Each game is proved by itself (`CursesGame`,
`ConsoleGame`, `FrameGame`) and in the sum that TLC checks.

**Sorts and axis maps** (`Exercises_proofs`). `ArraysAssumption`: the elements are numbers an
`int16_t` holds, whatever its width. What a sort has done after a round is `SortedBut`: two
elements of which at least one is outside an interval of places are in order, and every number
occurs as often as at first. Putting two neighbours in order disturbs no such interval
(`OrderedKeeps`); a loop up carries the greatest element to its upper end and a loop down the
least to its lower end (`UpCarries`, `DownCarries`), so each round makes the interval shorter
(`SortedButLess`). That the least `int16_t` is its own negative is `Int16Is`.

**Button drivers** (`Drivers_proofs`). `ButtonsInv` replaces "one inside" by a
count: the lock's value is 1 less the number of processes that hold it or are on
their way out of a failed open (`LockInv`). For the flag this covers the
transient decrements, which go below zero. `IrqInv` says which lines the one
process inside has requested or freed; `ReadInv` what is unread while it copies.

**Rates** (`DemoRates_proofs`, `MCDemoRates_proofs`). `OdrRangeAssumption`, `WishesAssumption`, `HzAssumption`. `WishesInv` says
that the clients' wishes are a finite set of numbers and that each is reported to at most as
often as it is sampled; from it follow the merged rates' bounds (`MergedRates`),
by the existence of a highest rate in a finite set (`HighestRate`, by
well-foundedness of the subset order). `CodeIsBetween` is the ladder: the search
ends between two steps, of which `WholeExceeds` says what they are to the request before the cast
to whole hertz (`OdrBounds`). Stability of the configured rate needs the case
where the step above a clamped rate is beyond the platform's maximum, and goes
back there. `RequestAlwaysHonoured` and `WatermarkAlwaysPositive` assume that the
platform's maximum is at most 3200 Hz: above, the ladder ends and both are false. Both leave to the cast
the part of a hertz it drops.

**Lists** (`Lists_proofs`). `ListInv` says that on live cells `next`
and `prev` are inverse bijections; each function has a lemma about the pointers it
leaves (`LinkKeeps`, `UnlinkKeeps`, `ReplaceKeeps`, `SpliceBetweenKeeps`, `CutKeeps`,
`DelRangeKeeps`), with the cases where its cells coincide, and each action one
about the cells that become or stop being live. `HashLinked` is inductive with its type.

`ListsAlwaysKeepSequences` (`KernelList_proofs`) is the refinement of `ListRules` by the
doubly linked lists, and `EntriesInPlace`; it needs no more than `CellsAssumption`: finitely
many entries, other than the heads, and cells other than null and poison. `ListInv` is strong
enough: from a head whose ring has no other head, following `next` never repeats an entry, for
two equal cells would have equal ones before them, back to the head; with finitely many
entries it therefore comes back (`RingExists`), along a sequence that is on no other list
(`Shows`). `list_for_each` goes along that sequence and no other (`ContentsIs`), so an
operation's effect is known once rings are given for all heads after its stores
(`ContentsAre`). Each function has a lemma that does so for all heads at once
(`AddContents`, `DelContents`, `ReplaceContents`, `SpliceContents`, `CutContents`,
`RangeContents`); those that make two calls go through the memory in between, and that a head
or an entry may be initialised without a change of any list is `InitContents`. The condition of a range
(`IsRange`) is on pointers; that it is a range of one sequence is `RangeOnList`. Two things the header
does not say had to be covered: a range of cells that is on no head's list (`RangeOffList`)
and the test of `list_cut_position` for a list of one, which an entry of the list never meets.

`LoopsAlwaysSeeEach` is about the loops (`WalkAssumption`: two
different heads). The initial list comes from `list_add_tail`, and `ListOfThreads` shows
by induction that it threads the entries between the head's two pointers. The property speaks of the end of a
loop; `WalkInv` says where the loop is before: going round, one meets what the bodies have
left, then what is still to come (`Whole`); the cursor is at the first of the latter and
a safe loop's second cursor behind it. A body is a change of the pointers round the
ring (`RoundOut`, `RoundSwap`) and leaves the ring of the other head alone (`Aside`), which
`list_move` writes to.

`CarefulAlwaysMeansDone` is about two processors (`ListedAssumption`). `CarefulInv`
relates what `list_del_init` has still to store with what the reader has loaded:
a reader that has seen `next` of a cell point to itself will find the same of `prev`
only when no store is left.

`ChainsAlwaysKeepSequences` is the refinement of `ListRules` by the lists that are
followed in one direction (`SlotsAssumption`, `NodeAssumption`: finitely many nodes, other
than the heads and null). Follow-the-pointer is a recursive function that stops after as many
steps as there are nodes, so the lemmas first say what it computes: if a pointer
function is `Strung` along a sequence without repetition, following it gives that sequence
(`AlongIs`). An operation then is an insertion into the sequence or a removal from it (`StrungInsert`,
`StrungRemove`). `NodeInv` and `ChainInv` say that such sequences exist, for every head one,
and that no node is on two.

**Other drivers** (`Drivers_proofs`). `TouchInv` is `ReadyForTouch` itself: the controller waits or
measures, and keeps no samples while no conversion runs. It promises nothing of the chain that a second
pen interrupt begins in one that runs (`TouchesApart`, section 3.1).
`PanelInv` adds that what the work function is about to report shows
the panel if no edge came since it read. `DmaInv` adds what each step of the
loading holds. `DriversUnloadCleanly` is about the sum of all drivers; of the mouse's keys it speaks of
the left one only, because the handler reports the others with the left button's value
(`usb_mouse4.c:82-91`).

**Message log** (`Drivers_proofs`). Characters are numbered as they are printed, so "in order" is
that the numbers a reader got increase. `LogContent` says that the buffer holds the last
ones printed, each in the slot of its number; `LogReader` that whatever was given away left
the log before the character the reader holds: the printer may overwrite that one between any
two of the reader's steps, and then a later one is read, never one that was given. All of it
is claimed up to the first print that interrupts another one (`LogHolds`); after it both halves of
`LogKeepsOrder` are false (section 3.1).

**FIFO parser** (`Drivers_proofs`). `FifoAssumption`: a frame is three words. `FifoInv`
says that at the head of the loop the parser has taken some number `k` of frames and published
the samples among them, and that its word is the first of frame `k + 1`. With two sensors `k` is
even: the loop looks for the end of the data only there, where a dummy of the first sensor or a
sample cannot be mistaken for it, and the second frame of a turn is the other sensor's
(`Turns`, `TakesFrame`). A turn that is cut short drops what is left, and the parser has then
taken all frames that were read whole (`DropsRest`, `FifoStep`).

**Induction.** The library's induction theorems have an operator for a parameter, which the
provers cannot instantiate. `CommonLemmas` states induction with sets of numbers instead
(`LeastNumber`, `UpTo`, `ForAll`, from the well-foundedness of `<`) and recursion by the
function that makes the next value; where a module needs what a recursive function computes,
it writes the recursion as a function (`ChainFrom` of `Snake`, `Samples` of `DemoFifo`, the loops of `Arrays`).

**Only model-checked:** liveness (`HandlerReachesStop`, `InputsKeepComing`, `DetectionDecides`,
`AccelerometerAvailable`, `DeferredRequestApplied`), which is out of the prover's reach. Every safety property of a passing run has its theorem.

## 5. What is not modelled

- The contents of registry groups, sample values and time stamps. Register reads and
  writes are I/O.
- `demo_*_sensor.c`: tables of attributes.
- An interrupt of the I2C controller after a time-out: what the controller does when
  a held clock is released during a new start is not determined by the code.
- `poll`, `fasync` and module removal of the button drivers; the earlier versions of
  the same driver without a lock.
- `list_sort` of `list_operation.c` (an unfinished endless loop), `test2.c` and `snake.c`
  (other forms of the console loop), what the games draw, their menus, and the key 'q' of the curses game.
- What the curses game does in freed memory other than to go on or to end, and the cells it never frees.
- Allocations that the mouse's probe (`usb_mouse4.c:138`, `159`, `163`) and `s3c_ts_init` do not check: they
  succeed. The rounding of floats in the rate arithmetic.
- The detection of the touch panel's chip by the I2C core; the window in
  `s3c_ts_exit` between the unmapping of the registers and the deletion of the timer;
  removal of the DMA driver while a transfer runs after a signal. The kernel decides
  what an access does there.
- The components that section 1 lists as having no state of their own, the thread
  class, and binary files, patches and logs.

## 6. Plan

In this order; the listed properties give way or merge when a component needs
their run.

1. `CThread` (start, stop, join and detach against the new thread), `poll` and `fasync`
   of the buttons.
2. Proofs: the theorems of the components item 1 adds; the loops of `ListWalk` on the
   rings of `KernelList_proofs` (`Ring` and `Round` say the same of a head and its entries).
