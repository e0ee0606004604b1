------------------------------- MODULE LegoTower -------------------------------
(***************************************************************************)
(* The Linux driver of the LEGO USB tower (legousbtower.c): files that     *)
(* programs open and release, threads that read, write and control through *)
(* them, the USB hub that plugs devices and takes them away, and the       *)
(* controller that completes transfers at any moment.                      *)
(*                                                                         *)
(* A critical section of dev->sem is one step, except where the code lets  *)
(* others see its middle: the loop of tower_write(), whose urb completes   *)
(* without the semaphore, and control messages, which sleep inside it.     *)
(* Bytes from the tower are numbered 1, 2, ... from the last open.         *)
(***************************************************************************)
EXTENDS Integers, Sequences, FiniteSetsExt

CONSTANTS NDevs,        \* bound: structures kmalloc() hands out
          MAX_DEVICES,  \* entries of the minor table, 16 in the code
          Files,        \* open file descriptions
          Threads, FileOf, CallsOf,   \* the threads, the file each uses, the calls it makes
          Timeouts,     \* the timeouts a program may set: -1, 0 (or passed) and 1 for any positive
          Packet,       \* wMaxPacketSize of the endpoints
          MaxBytes,     \* bound: bytes that come from each structure after an open
          MaxCount      \* bound: bytes of one read or write

\* Who holds a lock, if it is not a file or a thread.
Free == "free"
Lost == "lost"   \* a call that returned without up()
Hub  == "hub"

ASSUME TowerAssumption ==
    /\ FileOf \in [Threads -> Files]
    /\ Free \notin Files \cup Threads /\ Hub \notin Files /\ Lost \notin Threads
    /\ CallsOf \in [Threads -> SUBSET {"read", "write", "ioctl"}]
    /\ NDevs \in Nat /\ MAX_DEVICES \in Nat \ {0} /\ Packet \in Nat \ {0}
    /\ Timeouts \subseteq {-1, 0, 1}
    /\ MaxBytes \in [1..NDevs -> Nat] /\ MaxCount \in Nat

VARIABLES minor_table,        \* the device of each minor, or Null
          minor_table_mutex,  \* who holds it: Free, a file's call, the hub
          memory,             \* each structure: "unused", "live", "gone" (freed, or leaked by a probe)
          tower,              \* the fields of each structure
          came, got, dropped, \* bytes that came, were copied to readers, had no room
          held,               \* history: the bytes copied so far in the call of each thread
          lost,               \* history: the bytes copied in calls that then failed
          files, threads,
          hub,                \* the device the hub is about to take away, or Null
          signals,            \* threads with a signal pending
          oops                \* why the kernel stopped, or "none"

towerVars == <<minor_table, minor_table_mutex, memory, tower, came, got, dropped,
               held, lost, files, threads, hub, signals, oops>>

Null   == 0
Devs   == 1..NDevs
Minors == 0..MAX_DEVICES - 1

Fresh(m) == [udev |-> TRUE, minor |-> m, open_count |-> 0, sem |-> Free, read_buffer |-> <<>>,
             interrupt_in |-> FALSE, interrupt_out |-> FALSE,
             read_timeout |-> 0, write_timeout |-> 1]

Idle == [pc |-> "user", count |-> 0, timeout |-> 0]

TowerInit ==
    /\ minor_table = [m \in Minors |-> Null] /\ minor_table_mutex = Free
    /\ memory = [d \in Devs |-> "unused"] /\ tower = [d \in Devs |-> Fresh(0)]
    /\ came = [d \in Devs |-> 0] /\ got = [d \in Devs |-> <<>>] /\ dropped = [d \in Devs |-> {}]
    /\ held = [t \in Threads |-> <<>>] /\ lost = [d \in Devs |-> {}]
    /\ files = [f \in Files |-> [pc |-> "closed", private_data |-> Null]]
    /\ threads = [t \in Threads |-> Idle]
    /\ hub = Null /\ signals = {} /\ oops = "none"

stream == <<came, got, dropped, held, lost>>
table  == <<minor_table, minor_table_mutex, memory>>

Fails(why) ==
    /\ oops' = why
    /\ UNCHANGED <<table, tower, stream, files, threads, hub, signals>>

-----------------------------------------------------------------------------
tower_abort_transfers_OutOnly(dev) == [dev EXCEPT !.interrupt_out = FALSE]

\* A transfer is taken back with its unlink, and its callback finds a status
\* that is not 0; nobody is woken.

tower_abort_transfers(dev) == [dev EXCEPT !.interrupt_in = FALSE, !.interrupt_out = FALSE]

\* What is left in freed memory is of no matter: to touch it is a failure.
tower_delete(d) ==
    LET gone == tower_abort_transfers(tower[d]) IN
    /\ minor_table' = [minor_table EXCEPT ![tower[d].minor] = Null]
    /\ memory' = [memory EXCEPT ![d] = "gone"]
    /\ tower' = [tower EXCEPT ![d] = [Fresh(0) EXCEPT !.interrupt_in  = gone.interrupt_in,
                                                         !.interrupt_out = gone.interrupt_out]]

\* With both locks held, dev being the structure as the caller changed it.
\* The up() of the caller touches a deleted structure: nothing can have been
\* put in its place, since the minor table is still locked.
tower_release_internal(d, dev) ==
    IF ~dev.udev THEN tower_delete(d)
    ELSE /\ tower' = [tower EXCEPT ![d] =
                        IF dev.open_count <= 1
                        THEN tower_abort_transfers([dev EXCEPT !.open_count = 0])
                        ELSE [dev EXCEPT !.open_count = @ - 1]]
         /\ UNCHANGED <<minor_table, memory>>

\* down(&minor_table_mutex) of tower_open(): the lock is kept while the
\* device's semaphore is waited for.
OpenLocks(f) ==
    /\ files[f].pc = "closed" /\ minor_table_mutex = Free
    /\ \E m \in Minors :
          /\ minor_table[m] # Null
          /\ minor_table_mutex' = f
          /\ files' = [files EXCEPT ![f] = [pc |-> "opening", private_data |-> minor_table[m]]]
    /\ UNCHANGED <<minor_table, memory, tower, stream, threads, hub, signals, oops>>

Counted(dev) ==
    [dev EXCEPT !.open_count = @ + 1,
                !.read_timeout  = IF dev.open_count = 0 THEN 0 ELSE @,
                !.write_timeout = IF dev.open_count = 0 THEN 1 ELSE @]

Busy(dev) == dev.open_count > 1

\* What came before is forgotten.
Forgets(d) ==
    /\ came' = [came EXCEPT ![d] = 0] /\ got' = [got EXCEPT ![d] = <<>>]
    /\ dropped' = [dropped EXCEPT ![d] = {}] /\ lost' = [lost EXCEPT ![d] = {}]
    /\ UNCHANGED held

\* The rest of tower_open().  usb_submit_urb() may refuse.
OpenDevice(f) ==
    LET d   == files[f].private_data
        dev == Counted(tower[d])
        Refused == [pc |-> "closed", private_data |-> Null]
    IN /\ files[f].pc = "opening" /\ tower[d].sem = Free
       /\ minor_table_mutex' = Free
       /\ \/ /\ Busy(dev)
             /\ tower_release_internal(d, dev)
             /\ files' = [files EXCEPT ![f] = Refused]
             /\ UNCHANGED stream
          \/ /\ ~Busy(dev)
             /\ tower_release_internal(d, [dev EXCEPT !.read_buffer = <<>>])
             /\ files' = [files EXCEPT ![f] = Refused]
             /\ Forgets(d)
          \/ /\ ~Busy(dev)
             /\ tower' = [tower EXCEPT ![d] = [dev EXCEPT !.read_buffer = <<>>, !.interrupt_in = TRUE]]
             /\ files' = [files EXCEPT ![f].pc = "open"]
             /\ Forgets(d)
             /\ UNCHANGED <<minor_table, memory>>
       /\ UNCHANGED <<threads, hub, signals, oops>>

\* tower_release(), which the kernel calls when the last call on the file is over.
ReleaseLocks(f) ==
    /\ files[f].pc = "open" /\ minor_table_mutex = Free
    /\ \A t \in Threads : FileOf[t] = f => threads[t].pc = "user"
    /\ minor_table_mutex' = f
    /\ files' = [files EXCEPT ![f].pc = "releasing"]
    /\ UNCHANGED <<minor_table, memory, tower, stream, threads, hub, signals, oops>>

ReleaseDevice(f) ==
    LET d == files[f].private_data
    IN /\ files[f].pc = "releasing"
       /\ IF memory[d] = "gone" THEN Fails("freed")
          ELSE /\ tower[d].sem = Free
               /\ IF tower[d].open_count <= 0 THEN UNCHANGED <<tower, minor_table, memory>>
                                              ELSE tower_release_internal(d, tower[d])
               /\ minor_table_mutex' = Free
               /\ files' = [files EXCEPT ![f] = [pc |-> "closed", private_data |-> Null]]
               /\ UNCHANGED <<stream, threads, hub, signals, oops>>

-----------------------------------------------------------------------------
\* The calls of a thread.

Dev(t)    == files[FileOf[t]].private_data
Signal(t) == t \in signals

Goes(t, pc, count, timeout) ==
    threads' = [threads EXCEPT ![t] = [pc |-> pc, count |-> count, timeout |-> timeout]]
\* A return to user mode, where a signal is taken.
Returns(t) == Goes(t, "user", 0, 0) /\ signals' = signals \ {t}

\* A call enters its driver function and comes to down(&dev->sem).
Calls(t) ==
    /\ threads[t].pc = "user" /\ files[FileOf[t]].pc = "open"
    /\ \E pc \in CallsOf[t], n \in 0..MaxCount :
          /\ pc = "ioctl" => n = 0
          /\ Goes(t, pc, n, 0)
    /\ UNCHANGED <<table, tower, stream, files, hub, signals, oops>>

\* down(&dev->sem) of thread t, which is at pc; in freed memory there is no
\* semaphore left.
Downs(t, pc) ==
    threads[t].pc = pc /\ memory[Dev(t)] = "live" /\ tower[Dev(t)].sem = Free

TouchesFreed(t) ==
    /\ threads[t].pc \in {"read", "readback", "write", "writeback", "ioctl"}
    /\ memory[Dev(t)] = "gone"
    /\ Fails("freed")

\* The shift of read_buffer after a copy.
Rest_Unshifted(buffer, taken) == SubSeq(buffer, 1, Len(buffer) - taken)
Rest(buffer, taken) == SubSeq(buffer, taken + 1, Len(buffer))

GivesUp_Negative(t, timeout) == timeout < 0 \/ Signal(t)
GivesUp(t, timeout) == timeout <= 0 \/ Signal(t)

Holds(t, bytes) == held' = [held EXCEPT ![t] = bytes]
Bytes(bytes)    == {bytes[b] : b \in DOMAIN bytes}

\* A call that answers an error says nothing of the bytes it has copied.
ReadFails(t, d, bytes) ==
    /\ lost' = [lost EXCEPT ![d] = @ \cup Bytes(bytes)]
    /\ Holds(t, <<>>) /\ Returns(t)

\* The loop of tower_read(), from down() to up(): what the buffer has is
\* copied, then the thread is done, gives up, or goes to sleep.  A copy that
\* meets a bad address leaves the buffer as it is.
ReadLoop(t, count, timeout) ==
    LET d     == Dev(t)
        take  == Min({count, Len(tower[d].read_buffer)})
        bytes == SubSeq(tower[d].read_buffer, 1, take)
        left  == count - take
    IN \/ take > 0 /\ ReadFails(t, d, held[t]) /\ UNCHANGED <<tower, got>>
       \/ /\ tower' = [tower EXCEPT ![d].read_buffer = Rest(@, take)]
          /\ got' = [got EXCEPT ![d] = @ \o bytes]
          /\ \/ left = 0 /\ Returns(t) /\ Holds(t, <<>>) /\ UNCHANGED lost
             \/ left > 0 /\ GivesUp(t, timeout) /\ ReadFails(t, d, held[t] \o bytes)
             \/ /\ left > 0 /\ ~GivesUp(t, timeout)
                /\ Goes(t, "readsleep", left, timeout) /\ Holds(t, held[t] \o bytes)
                /\ UNCHANGED <<signals, lost>>

tower_read(t) ==
    /\ Downs(t, "read")
    /\ IF ~tower[Dev(t)].udev \/ threads[t].count = 0
       THEN Returns(t) /\ UNCHANGED <<tower, got, held, lost>>
       ELSE ReadLoop(t, threads[t].count, tower[Dev(t)].read_timeout)
    /\ UNCHANGED <<table, came, dropped, files, hub, oops>>

\* After the sleep nobody asks whether the device is still there.
ReadAgain(t) ==
    /\ Downs(t, "readback")
    /\ ReadLoop(t, threads[t].count, threads[t].timeout)
    /\ UNCHANGED <<table, came, dropped, files, hub, oops>>

\* interruptible_sleep_on_timeout(): the thread gets on the queue some time
\* after its up(), and what was woken before passes it by.  It comes back
\* with what is left of its timeout: nothing, or when it was woken or has a
\* signal perhaps something.
OnQueue(pc) == IF pc = "readsleep" THEN "readqueue" ELSE "writequeue"
Back(pc)    == IF pc \in {"readsleep", "readqueue"} THEN "readback" ELSE "writeback"

Sleeps(t) ==
    /\ threads[t].pc \in {"readsleep", "writesleep"}
    /\ threads' = [threads EXCEPT ![t].pc = OnQueue(@)]
    /\ UNCHANGED <<table, tower, stream, files, hub, signals, oops>>

Expires(t) ==
    /\ threads[t].pc \in {"readqueue", "writequeue"}
    /\ \E left \in IF Signal(t) THEN {0, threads[t].timeout} ELSE {0} :
          Goes(t, Back(threads[t].pc), threads[t].count, left)
    /\ UNCHANGED <<table, tower, stream, files, hub, signals, oops>>

\* wake_up_interruptible() of the threads that are on queue pc of d.
WakesUp(d, pc) ==
    LET woken == {t \in Threads : threads[t].pc = pc /\ Dev(t) = d} IN
    \E late \in SUBSET woken :
        threads' = [t \in Threads |->
            IF t \in woken
            THEN [pc |-> Back(pc), count |-> threads[t].count,
                  timeout |-> IF t \in late THEN 0 ELSE threads[t].timeout]
            ELSE threads[t]]

\* A signal for a thread in a call: at any moment.
Signalled(t) ==
    /\ threads[t].pc # "user" /\ ~Signal(t)
    /\ signals' = signals \cup {t}
    /\ UNCHANGED <<table, tower, stream, files, threads, hub, oops>>

Sets(t, field, value) == tower' = [tower EXCEPT ![Dev(t)][field] = value]
Ups_StillHeld(t)      == Returns(t) /\ UNCHANGED tower
Ups(t)                == Sets(t, "sem", Free) /\ Returns(t)

tower_write(t) ==
    /\ Downs(t, "write")
    /\ IF ~tower[Dev(t)].udev \/ threads[t].count = 0
       THEN Returns(t) /\ UNCHANGED tower
       ELSE /\ Sets(t, "sem", t)
            /\ Goes(t, "writeloop", threads[t].count, 0)
            /\ UNCHANGED signals
    /\ UNCHANGED <<table, stream, files, hub, oops>>

\* No transfer is in progress: a packet is sent off, if usb_submit_urb() takes
\* it.  FILL_INT_URB() reads the USB device, which a disconnect has cleared.
Submits(t) ==
    LET left == threads[t].count - Min({threads[t].count, Packet})
        sent == [tower[Dev(t)] EXCEPT !.interrupt_out = TRUE]
    IN /\ threads[t].pc = "writeloop" /\ ~tower[Dev(t)].interrupt_out
       /\ IF ~tower[Dev(t)].udev THEN Fails("unplugged")
          ELSE /\ \/ Ups(t)
                  \/ /\ left > 0
                     /\ tower' = [tower EXCEPT ![Dev(t)] = sent]
                     /\ Goes(t, "writeloop", left, 0) /\ UNCHANGED signals
                  \/ /\ left = 0
                     /\ tower' = [tower EXCEPT ![Dev(t)] = [sent EXCEPT !.sem = Free]]
                     /\ Returns(t)
               /\ UNCHANGED <<table, stream, files, hub, oops>>

\* One is in progress.  With a signal pending the call returns with the
\* semaphore; with a negative timeout it stays in the loop, with the semaphore,
\* until the transfer is over.
WaitsForOut(t) ==
    LET timeout == tower[Dev(t)].write_timeout
    IN /\ threads[t].pc = "writeloop" /\ tower[Dev(t)].interrupt_out
       /\ \/ timeout = 0 /\ Ups(t)
          \/ timeout > 0 /\ Signal(t) /\ Sets(t, "sem", Lost) /\ Returns(t)
          \/ /\ timeout > 0 /\ ~Signal(t)
             /\ Sets(t, "sem", Free)
             /\ Goes(t, "writesleep", threads[t].count, timeout) /\ UNCHANGED signals
       /\ UNCHANGED <<table, stream, files, hub, oops>>

\* After the sleep: nothing left is a timeout, whatever the transfer did.
WriteAgain(t) ==
    /\ Downs(t, "writeback")
    /\ IF threads[t].timeout = 0 THEN Returns(t) /\ UNCHANGED tower
       ELSE /\ Sets(t, "sem", t)
            /\ Goes(t, "writeloop", threads[t].count, 0) /\ UNCHANGED signals
    /\ UNCHANGED <<table, stream, files, hub, oops>>

\* LEGO_TOWER_SET_READ_TIMEOUT, LEGO_TOWER_SET_WRITE_TIMEOUT, and the control
\* messages, which sleep with the semaphore for COMMAND_TIMEOUT at most.
tower_ioctl(t) ==
    /\ Downs(t, "ioctl")
    /\ \/ ~tower[Dev(t)].udev /\ Returns(t) /\ UNCHANGED tower
       \/ /\ tower[Dev(t)].udev
          /\ \E field \in {"read_timeout", "write_timeout"}, arg \in Timeouts : Sets(t, field, arg)
          /\ Returns(t)
       \/ /\ tower[Dev(t)].udev
          /\ Sets(t, "sem", t)
          /\ Goes(t, "control", 0, 0) /\ UNCHANGED signals
    /\ UNCHANGED <<table, stream, files, hub, oops>>

Controlled(t) ==
    /\ threads[t].pc = "control" /\ Ups(t)
    /\ UNCHANGED <<table, stream, files, hub, oops>>

-----------------------------------------------------------------------------
\* The controller and the hub.

HasRoom(dev, n) == Len(dev.read_buffer) < 4 * Packet - n

\* n bytes came.  The callback waits for the semaphore; what has no room is lost.
tower_interrupt_in_callback(d) ==
    /\ memory[d] = "live" /\ tower[d].interrupt_in /\ tower[d].udev /\ tower[d].sem = Free
    /\ \E n \in 1..Packet :
          LET bytes == [b \in 1..n |-> came[d] + b]
          IN /\ came[d] + n <= MaxBytes[d]
             /\ came' = [came EXCEPT ![d] = @ + n]
             /\ IF HasRoom(tower[d], n)
                THEN /\ tower' = [tower EXCEPT ![d].read_buffer = @ \o bytes]
                     /\ WakesUp(d, "readqueue")
                     /\ UNCHANGED dropped
                ELSE /\ dropped' = [dropped EXCEPT ![d] = @ \cup {bytes[b] : b \in 1..n}]
                     /\ UNCHANGED <<tower, threads>>
    /\ UNCHANGED <<table, got, held, lost, files, hub, signals, oops>>

\* The transfer is over; only one that went well wakes the writers.
tower_interrupt_out_callback(d) ==
    /\ memory[d] = "live" /\ tower[d].interrupt_out
    /\ tower' = [tower EXCEPT ![d].interrupt_out = FALSE]
    /\ WakesUp(d, "writequeue") \/ UNCHANGED threads
    /\ UNCHANGED <<table, stream, files, hub, signals, oops>>

FreeMinors == {m \in Minors : minor_table[m] = Null}

\* With the table full, unlock_exit: raises the semaphore of no device.
tower_probe(d) ==
    /\ memory[d] = "unused" /\ d = Min({e \in Devs : memory[e] = "unused"})
    /\ hub = Null /\ minor_table_mutex = Free
    /\ IF FreeMinors = {} THEN Fails("full")
       ELSE /\ \/ /\ memory' = [memory EXCEPT ![d] = "live"]
                  /\ minor_table' = [minor_table EXCEPT ![Min(FreeMinors)] = d]
                  /\ tower' = [tower EXCEPT ![d] = Fresh(Min(FreeMinors))]
               \/ /\ memory' = [memory EXCEPT ![d] = "gone"]   \* an allocation failed: leaked
                  /\ UNCHANGED <<minor_table, tower>>
            /\ UNCHANGED <<minor_table_mutex, stream, files, threads, hub, signals, oops>>

DisconnectLocks(d) ==
    /\ memory[d] = "live" /\ tower[d].udev /\ hub = Null /\ minor_table_mutex = Free
    /\ hub' = d /\ minor_table_mutex' = Hub
    /\ UNCHANGED <<minor_table, memory, tower, stream, files, threads, signals, oops>>

tower_disconnect_Deletes(d) ==
    /\ hub = d /\ tower[d].sem = Free
    /\ tower_delete(d)
    /\ hub' = Null /\ minor_table_mutex' = Free
    /\ UNCHANGED <<stream, files, threads, signals, oops>>

tower_disconnect(d) ==
    /\ hub = d /\ tower[d].sem = Free
    /\ IF tower[d].open_count = 0 THEN tower_delete(d)
       ELSE tower' = [tower EXCEPT ![d].udev = FALSE] /\ UNCHANGED <<minor_table, memory>>
    /\ hub' = Null /\ minor_table_mutex' = Free
    /\ UNCHANGED <<stream, files, threads, signals, oops>>

-----------------------------------------------------------------------------

FileStep(f) == OpenLocks(f) \/ OpenDevice(f) \/ ReleaseLocks(f) \/ ReleaseDevice(f)

ThreadStep(t) ==
    \/ Calls(t) \/ TouchesFreed(t) \/ Signalled(t) \/ Sleeps(t) \/ Expires(t)
    \/ tower_read(t) \/ ReadAgain(t)
    \/ tower_write(t) \/ Submits(t) \/ WaitsForOut(t) \/ WriteAgain(t)
    \/ tower_ioctl(t) \/ Controlled(t)

UsbStep(d) ==
    \/ tower_interrupt_in_callback(d) \/ tower_interrupt_out_callback(d)
    \/ tower_probe(d) \/ DisconnectLocks(d) \/ tower_disconnect(d)

TowerNext ==
    /\ oops = "none"
    /\ \/ \E f \in Files : FileStep(f)
       \/ \E t \in Threads : ThreadStep(t)
       \/ \E d \in Devs : UsbStep(d)

TowerSpec == TowerInit /\ [][TowerNext]_towerVars

\* A kernel that runs: a call goes on, a timer expires, a semaphore that is
\* raised again and again is not denied to one that waits for it, the
\* controller is done with every transfer.  Nobody has to call, plug or signal.
Runs(A) == oops = "none" /\ A

FairTowerSpec ==
    /\ TowerSpec
    /\ \A f \in Files : SF_towerVars(Runs(OpenDevice(f) \/ ReleaseDevice(f)))
    /\ \A t \in Threads :
          /\ WF_towerVars(Runs(TouchesFreed(t) \/ Sleeps(t) \/ Expires(t)
                               \/ Submits(t) \/ WaitsForOut(t) \/ Controlled(t)))
          /\ SF_towerVars(Runs(tower_read(t) \/ ReadAgain(t) \/ tower_write(t)
                               \/ WriteAgain(t) \/ tower_ioctl(t)))
    /\ \A d \in Devs : WF_towerVars(Runs(tower_interrupt_out_callback(d)))

-----------------------------------------------------------------------------
\* Properties.

\* Every structure, file and thread is as the driver lays it out, and a held
\* semaphore is a thread's that is in the middle of a call.
TowerTypeOK ==
    /\ minor_table \in [Minors -> Devs \cup {Null}]
    /\ minor_table_mutex \in Files \cup {Free, Hub} /\ hub \in Devs \cup {Null}
    /\ memory \in [Devs -> {"unused", "live", "gone"}]
    /\ \A d \in Devs :
          /\ tower[d].open_count \in Nat /\ tower[d].minor \in Minors
          /\ tower[d].sem \in Threads \cup {Free, Lost}
          /\ Len(tower[d].read_buffer) < 4 * Packet
          /\ \A t \in Threads : tower[d].sem = t => threads[t].pc \in {"writeloop", "control"}
    /\ \A f \in Files : files[f].pc \in {"closed", "opening", "open", "releasing"}
    /\ \A t \in Threads : threads[t].count \in 0..MaxCount /\ threads[t].timeout \in 0..1

Increasing(bytes) == \A a, b \in DOMAIN bytes : a < b => bytes[a] < bytes[b]

\* Whatever callback and readers that share a file do in between: the bytes that
\* were copied to readers, followed by those in the buffer, are the bytes that
\* came, in order, once each, but for the packets that found no room.  Each was
\* copied to one call only: a call in progress holds its own, in order, those a
\* call took with it that failed half way are lost, and no reader has them later.
Reads(t, d) == Dev(t) = d /\ threads[t].pc # "user"

ReadsInOrder ==
    \A d \in Devs : memory[d] = "live" =>
        /\ LET bytes == got[d] \o tower[d].read_buffer
           IN  Increasing(bytes) /\ Bytes(bytes) = 1..came[d] \ dropped[d]
        /\ \A t \in Threads : Reads(t, d) =>
              /\ Increasing(held[t])
              /\ Bytes(held[t]) \subseteq Bytes(got[d]) \ lost[d]
              /\ \A s \in Threads \ {t} :
                    Reads(s, d) => Bytes(held[s]) \cap Bytes(held[t]) = {}

Holders(d) == {f \in Files : files[f].private_data = d /\ files[f].pc \in {"open", "releasing"}}

\* Opens, refused opens, releases, probes and disconnects in any order leave
\* every device with one file at most, counted right, with no transfer running
\* when nobody has it or its memory is gone, and found under its minor
\* number; the table leads to no device that is gone.
OneFileEach ==
    /\ \A d \in Devs : memory[d] = "live" =>
          /\ Cardinality(Holders(d)) <= 1
          /\ tower[d].open_count = Cardinality(Holders(d))
          /\ minor_table[tower[d].minor] = d
    /\ \A d \in Devs : memory[d] # "live" \/ Holders(d) = {} =>
          ~tower[d].interrupt_in /\ ~tower[d].interrupt_out
    /\ \A m \in Minors : minor_table[m] # Null => memory[minor_table[m]] = "live"

\* A device is freed under a file that has it only when another open of it is
\* refused after it was unplugged (tower_release_internal called on the way
\* out of tower_open): never by the disconnect itself, by a release, or by an
\* open while it is plugged.
FreedUnderAFile ==
    \A d \in Devs : memory[d] = "live" /\ memory'[d] = "gone" /\ Holders(d)' # {} =>
        \E f \in Files : files[f] = [pc |-> "opening", private_data |-> d] /\ ~tower[d].udev

FreedOnlyByARefusal == [][FreedUnderAFile]_towerVars

\* Every read, ioctl, open and release is over some time, by data, by timeout or
\* by a signal, whatever wake-ups are missed, and so is every write, if the other
\* threads that share its file do not write for ever: unless the kernel has
\* stopped or the semaphore was lost in a write that a signal cut short.  The
\* timeout of a write begins anew with each packet it finds on its way (c:565).
Stuck(d)   == oops # "none" \/ (d # Null /\ tower[d].sem = Lost)
Writing(t) == threads[t].pc \in {"write", "writeloop", "writesleep", "writequeue", "writeback"}
Over(t)    == threads[t].pc = "user" \/ Stuck(Dev(t))

OthersCease(t) ==
    <>[](\A s \in Threads \ {t} : FileOf[s] = FileOf[t] => ~Writing(s))

CallsReturn ==
    /\ \A t \in Threads : (threads[t].pc # "user" /\ ~Writing(t)) ~> Over(t)
    /\ \A t \in Threads : OthersCease(t) => (Writing(t) ~> Over(t))
    /\ \A f \in Files : files[f].pc \in {"opening", "releasing"} ~>
          (files[f].pc \in {"open", "closed"} \/ Stuck(files[f].private_data))

=============================================================================
