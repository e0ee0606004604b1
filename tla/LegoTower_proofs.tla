--------------------------- MODULE LegoTower_proofs ---------------------------
(***************************************************************************)
(* Theorems about the driver of the LEGO tower, for any number of devices, *)
(* minors, files and threads, and any sizes of packets and calls.          *)
(***************************************************************************)
EXTENDS LegoTower, FiniteSetTheorems, SequenceTheorems, WellFoundedInduction, TLAPS

TimeoutValues == {-1, 0, 1}

Structure ==
    [udev : BOOLEAN, minor : Minors, open_count : 0..1, sem : Threads \cup {Free, Lost},
     read_buffer : Seq(Nat), interrupt_in : BOOLEAN, interrupt_out : BOOLEAN,
     read_timeout : TimeoutValues, write_timeout : TimeoutValues]

Places == {"user", "read", "readsleep", "readqueue", "readback", "write", "writeloop",
           "writesleep", "writequeue", "writeback", "ioctl", "control"}

Types ==
    /\ minor_table \in [Minors -> Devs \cup {Null}]
    /\ minor_table_mutex \in Files \cup {Free, Hub}
    /\ hub \in Devs \cup {Null}
    /\ memory \in [Devs -> {"unused", "live", "gone"}]
    /\ tower \in [Devs -> Structure]
    /\ came \in [Devs -> Nat] /\ got \in [Devs -> Seq(Nat)] /\ dropped \in [Devs -> SUBSET Nat]
    /\ files \in [Files -> [pc : {"closed", "opening", "open", "releasing"},
                            private_data : Devs \cup {Null}]]
    /\ threads \in [Threads -> [pc : Places, count : 0..MaxCount, timeout : 0..1]]

\* The mutex of the table is held by the one who is between its down() and up().
TableLocked ==
    /\ \A f \in Files :
          /\ files[f].pc \in {"opening", "releasing"} <=> minor_table_mutex = f
          /\ files[f].pc = "closed" <=> files[f].private_data = Null
          /\ files[f].pc = "opening" => memory[files[f].private_data] = "live"
    /\ hub # Null <=> minor_table_mutex = Hub
    /\ hub # Null => memory[hub] = "live" /\ tower[hub].udev

\* So is the semaphore of a device, and threads in a call keep their file open.
DeviceLocked ==
    /\ \A t \in Threads :
          /\ threads[t].pc # "user" => files[FileOf[t]].pc = "open"
          /\ \A d \in Devs :
                tower[d].sem = t <=> threads[t].pc \in {"writeloop", "control"} /\ Dev(t) = d

\* One file for each device, and one entry of the table.
Counts ==
    /\ \A d \in Devs : memory[d] # "live" => tower[d] = Fresh(0)
    /\ \A d \in Devs : memory[d] = "live" =>
          /\ \A f, g \in Holders(d) : f = g
          /\ tower[d].open_count = IF Holders(d) = {} THEN 0 ELSE 1
          /\ minor_table[tower[d].minor] = d
          /\ Holders(d) = {} => ~tower[d].interrupt_in /\ ~tower[d].interrupt_out
    /\ \A d \in Devs : memory[d] = "unused" => Holders(d) = {}
    /\ \A m \in Minors : minor_table[m] # Null =>
          memory[minor_table[m]] = "live" /\ tower[minor_table[m]].minor = m

\* What was read and what is in the buffer is what came.
Stream(d) == got[d] \o tower[d].read_buffer

Complete(S, c, D) ==
    S \in Seq(Nat) /\ Increasing(S) /\ D \subseteq 1..c /\ Bytes(S) = 1..c \ D

Streams ==
    \A d \in Devs :
        /\ memory[d] = "unused" => came[d] = 0 /\ got[d] = <<>> /\ dropped[d] = {}
        /\ memory[d] = "live" => /\ Complete(Stream(d), came[d], dropped[d])
                                 /\ Len(tower[d].read_buffer) < 4 * Packet

TowerInv == Types /\ TableLocked /\ DeviceLocked /\ Counts /\ Streams

-----------------------------------------------------------------------------

InCall == [pc : Places, count : 0..MaxCount, timeout : 0..1]

\* What a step of thread t looks like to the others: it leaves the structure s
\* and itself at r, and g has been read.
ThreadMoves(t, s, g, r) ==
    LET d == Dev(t) IN
    /\ files[FileOf[t]].pc = "open"
    /\ UNCHANGED <<table, came, dropped, files, hub>>
    /\ threads' = [threads EXCEPT ![t] = r] /\ r \in InCall
    /\ tower' = [tower EXCEPT ![d] = s] /\ s \in Structure
    /\ got' = [got EXCEPT ![d] = g] /\ g \in Seq(Nat)
    /\ memory[d] = "live" \/ (s = tower[d] /\ g = got[d])
    /\ s.udev = tower[d].udev /\ s.minor = tower[d].minor /\ s.open_count = tower[d].open_count
    /\ s.interrupt_in = tower[d].interrupt_in
    /\ g \o s.read_buffer = Stream(d) /\ Len(s.read_buffer) <= Len(tower[d].read_buffer)
    /\ s.sem = t <=> r.pc \in {"writeloop", "control"}
    /\ \A u \in Threads \ {t} : s.sem = u <=> tower[d].sem = u

\* A thread in a call has a device.
LEMMA DevIsThere ==
    ASSUME Types, TableLocked, NEW t \in Threads, files[FileOf[t]].pc = "open"
    PROVE  Dev(t) \in Devs /\ FileOf[t] \in Files
BY TowerAssumption DEF Types, TableLocked, Dev, Null

\* Such a step keeps everything as it should be.
LEMMA ThreadMovesOK ==
    ASSUME TowerInv, NEW t \in Threads, NEW s, NEW g, NEW r, ThreadMoves(t, s, g, r)
    PROVE  TowerInv'
<1> DEFINE d == Dev(t)
<1> USE DEF TowerInv
<1>1. d \in Devs /\ FileOf[t] \in Files /\ d = files[FileOf[t]].private_data
  BY DevIsThere DEF ThreadMoves, Dev
<1>2. Types'
  BY <1>1 DEF Types, ThreadMoves, InCall, table
<1>3. \A e \in Devs :
          /\ tower'[e] = IF e = d THEN s ELSE tower[e]
          /\ got'[e] = IF e = d THEN g ELSE got[e]
  BY <1>1 DEF Types, ThreadMoves
<1>4. UNCHANGED <<minor_table, minor_table_mutex, memory, came, dropped, files, hub>>
  BY DEF ThreadMoves, table
<1>5. TableLocked'
  <2>1. \A e \in Devs : tower'[e].udev = tower[e].udev
    BY <1>3 DEF ThreadMoves
  <2>2. QED
    BY <1>4, <2>1 DEF TableLocked, Types, Null
<1>6. DeviceLocked'
  <2>1. \A u \in Threads : threads'[u] = IF u = t THEN r ELSE threads[u]
    BY DEF ThreadMoves, Types
  <2>2. \A u \in Threads : Dev(u)' = Dev(u)
    BY <1>4 DEF Dev
  <2>3. ASSUME NEW u \in Threads, threads'[u].pc # "user"
        PROVE  files'[FileOf[u]].pc = "open"
    BY <1>4, <2>1, <2>3 DEF ThreadMoves, DeviceLocked
  <2>4. ASSUME NEW u \in Threads, NEW e \in Devs
        PROVE  tower'[e].sem = u <=> threads'[u].pc \in {"writeloop", "control"} /\ Dev(u)' = e
    <3>1. CASE u = t
      BY <1>3, <2>1, <2>2, <3>1 DEF ThreadMoves, DeviceLocked
    <3>2. CASE u # t
      BY <1>3, <2>1, <2>2, <3>2 DEF ThreadMoves, DeviceLocked
    <3>3. QED
      BY <3>1, <3>2
  <2>5. QED
    BY <2>3, <2>4 DEF DeviceLocked
<1>7. Counts'
  <2>1. \A e \in Devs : Holders(e)' = Holders(e)
    BY <1>4 DEF Holders
  <2>2. \A e \in Devs :
           /\ tower'[e].minor = tower[e].minor /\ tower'[e].open_count = tower[e].open_count
           /\ tower'[e].interrupt_in = tower[e].interrupt_in
           /\ memory[e] # "live" => tower'[e] = tower[e]
           /\ Holders(e) = {} => tower'[e] = tower[e]
    <3>1. Holders(d) # {}
      BY <1>1 DEF ThreadMoves, Holders
    <3>2. QED
      BY <1>3, <3>1 DEF ThreadMoves
  <2>3. ASSUME NEW m \in Minors, minor_table[m] # Null
        PROVE  memory[minor_table[m]] = "live" /\ tower'[minor_table[m]].minor = m
    <3>1. minor_table[m] \in Devs
      BY <2>3 DEF Types
    <3>2. QED
      BY <2>2, <2>3, <3>1 DEF Counts
  <2>4. \A e \in Devs : memory[e] = "live" =>
          /\ \A f, h \in Holders(e) : f = h
          /\ tower'[e].open_count = IF Holders(e) = {} THEN 0 ELSE 1
          /\ minor_table[tower'[e].minor] = e
          /\ Holders(e) = {} => ~tower'[e].interrupt_in /\ ~tower'[e].interrupt_out
    BY <2>2 DEF Counts
  <2>5. QED
    BY <1>4, <2>1, <2>2, <2>3, <2>4 DEF Counts
<1>8. Streams'
  <2>1. \A e \in Devs : Stream(e)' = Stream(e)
    <3>1. g \o s.read_buffer = Stream(d)
      BY DEF ThreadMoves
    <3>2. QED
      BY <1>3, <3>1 DEF Stream
  <2>2. \A e \in Devs : memory[e] # "live" => got'[e] = got[e]
    BY <1>3 DEF ThreadMoves
  <2>3. \A e \in Devs : Len(tower'[e].read_buffer) <= Len(tower[e].read_buffer)
    BY <1>3 DEF ThreadMoves, Types, Structure
  <2>4. \A e \in Devs : tower'[e].read_buffer \in Seq(Nat) /\ tower[e].read_buffer \in Seq(Nat)
    BY <1>2 DEF Types, Structure
  <2>5. \A e \in Devs : Len(tower[e].read_buffer) < 4 * Packet
                         => Len(tower'[e].read_buffer) < 4 * Packet
    <3>1. Packet \in Nat
      BY TowerAssumption
    <3>2. QED
      BY <2>3, <2>4, <3>1
  <2>6. QED
    BY <1>4, <2>1, <2>2, <2>5 DEF Streams
<1>9. QED
  BY <1>2, <1>5, <1>6, <1>7, <1>8

\* A step of a thread that leaves its device as it is.
LEMMA ThreadAlone ==
    ASSUME TowerInv, NEW t \in Threads, NEW r \in InCall, files[FileOf[t]].pc = "open",
           threads' = [threads EXCEPT ![t] = r], UNCHANGED <<table, tower, stream, files, hub>>,
           r.pc \in {"writeloop", "control"} <=> threads[t].pc \in {"writeloop", "control"}
    PROVE  TowerInv'
<1> DEFINE d == Dev(t)
<1>1. d \in Devs
  BY DevIsThere DEF TowerInv
<1>2. tower' = [tower EXCEPT ![d] = tower[d]] /\ got' = [got EXCEPT ![d] = got[d]]
  BY <1>1 DEF TowerInv, Types, stream
<1>3. tower[d] \in Structure /\ got[d] \in Seq(Nat)
  BY <1>1 DEF TowerInv, Types
<1>4. tower[d].sem = t <=> r.pc \in {"writeloop", "control"}
  BY <1>1 DEF TowerInv, DeviceLocked
<1>5. Len(tower[d].read_buffer) <= Len(tower[d].read_buffer)
  BY <1>3 DEF Structure
<1>6. ThreadMoves(t, tower[d], got[d], r)
  BY <1>2, <1>3, <1>4, <1>5 DEF ThreadMoves, Stream, stream
<1>7. QED
  BY <1>6, ThreadMovesOK

\* One that leaves there all but the semaphore, the timeouts and an urb.
LEMMA ThreadTouches ==
    ASSUME TowerInv, NEW t \in Threads, NEW r \in InCall, NEW s \in Structure,
           files[FileOf[t]].pc = "open", memory[Dev(t)] = "live",
           threads' = [threads EXCEPT ![t] = r], tower' = [tower EXCEPT ![Dev(t)] = s],
           UNCHANGED <<table, stream, files, hub>>,
           s.udev = tower[Dev(t)].udev, s.minor = tower[Dev(t)].minor,
           s.open_count = tower[Dev(t)].open_count, s.interrupt_in = tower[Dev(t)].interrupt_in,
           s.read_buffer = tower[Dev(t)].read_buffer,
           s.sem = t <=> r.pc \in {"writeloop", "control"},
           tower[Dev(t)].sem \in {t, Free}, s.sem \in {t, Free, Lost}
    PROVE  TowerInv'
<1> DEFINE d == Dev(t)
<1>1. d \in Devs
  BY DevIsThere DEF TowerInv
<1>2. got' = [got EXCEPT ![d] = got[d]]
  BY <1>1 DEF TowerInv, Types, stream
<1>3. got[d] \in Seq(Nat) /\ Len(s.read_buffer) <= Len(tower[d].read_buffer)
  BY <1>1 DEF TowerInv, Types, Structure
<1>4. \A u \in Threads \ {t} : s.sem = u <=> tower[d].sem = u
  BY TowerAssumption
<1>5. ThreadMoves(t, s, got[d], r)
  BY <1>2, <1>3, <1>4 DEF ThreadMoves, Stream, stream
<1>6. QED
  BY <1>5, ThreadMovesOK

\* Without a step of files, threads, hub or devices nothing changes.
LEMMA NothingMoves ==
    ASSUME TowerInv, UNCHANGED <<table, tower, stream, files, threads, hub>>
    PROVE  TowerInv'
BY DEF TowerInv, Types, TableLocked, DeviceLocked, Counts, Streams, Stream, Holders, Dev, table, stream

\* A thread in user mode is one that makes no call.
LEMMA IdleIsACall == Idle \in InCall /\ Idle.pc = "user"
BY TowerAssumption DEF Idle, InCall, Places

\* A thread in a call has a device; in a loop it has the semaphore and the memory.
LEMMA ThreadInCall ==
    ASSUME TowerInv, NEW t \in Threads, threads[t].pc # "user"
    PROVE  /\ threads[t] \in InCall /\ files[FileOf[t]].pc = "open"
           /\ Dev(t) \in Devs /\ tower[Dev(t)] \in Structure
           /\ threads[t].pc \in {"writeloop", "control"} =>
                  tower[Dev(t)].sem = t /\ memory[Dev(t)] = "live"
<1>1. threads[t] \in InCall /\ files[FileOf[t]].pc = "open"
  BY DEF TowerInv, Types, InCall, DeviceLocked
<1>2. Dev(t) \in Devs /\ tower[Dev(t)] \in Structure
  BY <1>1, DevIsThere DEF TowerInv, Types
<1>3. threads[t].pc \in {"writeloop", "control"} => tower[Dev(t)].sem = t
  BY <1>2 DEF TowerInv, DeviceLocked
<1>4. memory[Dev(t)] # "live" => tower[Dev(t)].sem = Free
  BY <1>2 DEF TowerInv, Counts, Fresh
<1>5. QED
  BY <1>1, <1>2, <1>3, <1>4, TowerAssumption

\* Steps that take the semaphore, raise it, or lose it.
LEMMA SemaphoreMoves ==
    ASSUME TowerInv, NEW t \in Threads, threads[t].pc # "user",
           NEW r \in InCall, threads' = [threads EXCEPT ![t] = r],
           NEW x \in {t, Free, Lost}, Sets(t, "sem", x),
           memory[Dev(t)] = "live", tower[Dev(t)].sem \in {t, Free},
           x = t <=> r.pc \in {"writeloop", "control"},
           UNCHANGED <<table, stream, files, hub>>
    PROVE  TowerInv'
<1> DEFINE d == Dev(t)
           s == [tower[d] EXCEPT !.sem = x]
<1>1. files[FileOf[t]].pc = "open" /\ d \in Devs /\ tower[d] \in Structure
  BY ThreadInCall
<1>2. s \in Structure
  BY <1>1 DEF Structure
<1>3. tower' = [tower EXCEPT ![d] = s]
  BY <1>1 DEF Sets
<1>4. /\ s.udev = tower[d].udev /\ s.minor = tower[d].minor
      /\ s.open_count = tower[d].open_count /\ s.interrupt_in = tower[d].interrupt_in
      /\ s.read_buffer = tower[d].read_buffer /\ s.sem = x
  BY <1>1 DEF Structure
<1> HIDE DEF s
<1>5. QED
  BY <1>1, <1>2, <1>3, <1>4, ThreadTouches

\* The semaphore is raised and the call is over.
LEMMA UpsOK ==
    ASSUME TowerInv, NEW t \in Threads, threads[t].pc \in {"writeloop", "control"}, Ups(t),
           UNCHANGED <<table, stream, files, hub>>
    PROVE  TowerInv'
<1>1. Idle \in InCall /\ Idle.pc = "user"
  BY IdleIsACall
<1>2. threads' = [threads EXCEPT ![t] = Idle] /\ Sets(t, "sem", Free)
  BY DEF Ups, Returns, Goes, Idle
<1>3. threads[t].pc # "user" /\ memory[Dev(t)] = "live" /\ tower[Dev(t)].sem = t
  BY ThreadInCall
<1>4. Free # t
  BY TowerAssumption
<1>5. QED
  BY <1>1, <1>2, <1>3, <1>4, SemaphoreMoves

\* A call that is over without a look at the device.
LEMMA ReturnsOK ==
    ASSUME TowerInv, NEW t \in Threads, Returns(t),
           threads[t].pc \notin {"user", "writeloop", "control"},
           UNCHANGED <<table, tower, stream, files, hub>>
    PROVE  TowerInv'
<1>1. Idle \in InCall /\ Idle.pc = "user"
  BY IdleIsACall
<1>2. threads' = [threads EXCEPT ![t] = Idle]
  BY DEF Returns, Goes, Idle
<1>3. QED
  BY <1>1, <1>2, ThreadInCall, ThreadAlone

\* A thread that gets the semaphore and keeps it for a loop.
LEMMA EntersOK ==
    ASSUME TowerInv, NEW t \in Threads, NEW from, from # "user", Downs(t, from),
           NEW to \in {"writeloop", "control"}, NEW n \in 0..MaxCount, Goes(t, to, n, 0),
           Sets(t, "sem", t), UNCHANGED <<table, stream, files, hub>>
    PROVE  TowerInv'
<1> DEFINE r == [pc |-> to, count |-> n, timeout |-> 0]
<1>1. r \in InCall /\ r.pc = to
  BY DEF InCall, Places
<1>2. threads' = [threads EXCEPT ![t] = r]
  BY DEF Goes
<1> HIDE DEF r
<1>3. QED
  BY <1>1, <1>2, SemaphoreMoves DEF Downs

\* tower_write() up to its loop, and after a sleep.
LEMMA WriteOK ==
    ASSUME TowerInv, NEW t \in Threads, tower_write(t) \/ WriteAgain(t)
    PROVE  TowerInv'
<1> USE DEF Downs
<1>1. threads[t] \in InCall
  BY ThreadInCall DEF tower_write, WriteAgain
<1>2. threads[t].count \in 0..MaxCount
  BY <1>1 DEF InCall
<1>3. CASE tower_write(t)
  <2>1. CASE ~tower[Dev(t)].udev \/ threads[t].count = 0
    BY <1>3, <2>1, ReturnsOK DEF tower_write, stream
  <2>2. CASE ~(~tower[Dev(t)].udev \/ threads[t].count = 0)
    BY <1>2, <1>3, <2>2, EntersOK DEF tower_write
  <2>3. QED
    BY <2>1, <2>2
<1>4. CASE WriteAgain(t)
  <2>1. CASE threads[t].timeout = 0
    BY <1>4, <2>1, ReturnsOK DEF WriteAgain
  <2>2. CASE threads[t].timeout # 0
    BY <1>2, <1>4, <2>2, EntersOK DEF WriteAgain
  <2>3. QED
    BY <2>1, <2>2
<1>5. QED
  BY <1>3, <1>4

\* tower_write() while a transfer is in progress.
LEMMA WaitsOK ==
    ASSUME TowerInv, NEW t \in Threads, WaitsForOut(t)
    PROVE  TowerInv'
<1> DEFINE k == tower[Dev(t)].write_timeout
<1>1. threads[t] \in InCall /\ tower[Dev(t)] \in Structure /\ Dev(t) \in Devs
      /\ tower[Dev(t)].sem = t /\ memory[Dev(t)] = "live"
  BY ThreadInCall DEF WaitsForOut
<1>2. threads[t].count \in 0..MaxCount /\ k \in TimeoutValues
  BY <1>1 DEF InCall, Structure
<1>3. CASE k = 0 /\ Ups(t)
  BY <1>3, UpsOK DEF WaitsForOut
<1>4. CASE k > 0 /\ Signal(t) /\ Sets(t, "sem", Lost) /\ Returns(t)
    <2>1. Idle \in InCall /\ Idle.pc = "user"
    BY IdleIsACall
  <2>2. threads' = [threads EXCEPT ![t] = Idle]
    BY <1>4 DEF Returns, Goes, Idle
  <2>3. QED
    BY <1>1, <1>4, <2>1, <2>2, SemaphoreMoves, TowerAssumption DEF WaitsForOut
<1>5. CASE k > 0 /\ Sets(t, "sem", Free) /\ Goes(t, "writesleep", threads[t].count, k)
  <2> DEFINE r == [pc |-> "writesleep", count |-> threads[t].count, timeout |-> k]
  <2>1. k \in 0..1
    BY <1>2, <1>5 DEF TimeoutValues
  <2>2. r \in InCall /\ r.pc = "writesleep"
    BY <1>2, <2>1 DEF InCall, Places
  <2>3. threads' = [threads EXCEPT ![t] = r]
    BY <1>5 DEF Goes
  <2> HIDE DEF r
  <2>4. QED
    BY <1>1, <1>5, <2>2, <2>3, SemaphoreMoves, TowerAssumption DEF WaitsForOut
<1>6. QED
  BY <1>3, <1>4, <1>5 DEF WaitsForOut

\* What FiniteSetsExt!Min says of two numbers.
LEMMA MinOfTwo ==
    ASSUME NEW a \in Nat, NEW b \in Nat
    PROVE  Min({a, b}) \in 0..b /\ a - Min({a, b}) \in 0..a
<1>1. Min({a, b}) = IF a <= b THEN a ELSE b
  BY DEF Min
<1>2. QED
  BY <1>1

\* tower_write() when none is.
LEMMA SubmitsOK ==
    ASSUME TowerInv, NEW t \in Threads, Submits(t)
    PROVE  TowerInv'
<1> DEFINE d    == Dev(t)
           left == threads[t].count - Min({threads[t].count, Packet})
           sent == [tower[d] EXCEPT !.interrupt_out = TRUE]
<1>1. threads[t] \in InCall /\ tower[d] \in Structure /\ d \in Devs
      /\ tower[d].sem = t /\ memory[d] = "live" /\ files[FileOf[t]].pc = "open"
  BY ThreadInCall DEF Submits
<1>2. left \in 0..MaxCount
  <2>1. threads[t].count \in 0..MaxCount /\ Packet \in Nat /\ MaxCount \in Nat
    BY <1>1, TowerAssumption DEF InCall
  <2>2. left \in 0..threads[t].count
    BY <2>1, MinOfTwo
  <2> HIDE DEF left
  <2>3. QED
    BY <2>1, <2>2
<1> HIDE DEF left
<1>3. CASE UNCHANGED <<table, tower, stream, files, threads, hub>>
  BY <1>3, NothingMoves
<1>4. CASE Ups(t)
  BY <1>4, UpsOK DEF Submits, Fails, stream
<1>5. CASE /\ tower' = [tower EXCEPT ![d] = sent] /\ Goes(t, "writeloop", left, 0)
           /\ UNCHANGED <<table, stream, files, hub>>
  <2> DEFINE r == [pc |-> "writeloop", count |-> left, timeout |-> 0]
  <2>1. r \in InCall /\ r.pc = "writeloop"
    BY <1>2 DEF InCall, Places
  <2>2. threads' = [threads EXCEPT ![t] = r]
    BY <1>5 DEF Goes
  <2>3. sent \in Structure
    BY <1>1 DEF Structure
  <2>4. /\ sent.udev = tower[d].udev /\ sent.minor = tower[d].minor
        /\ sent.open_count = tower[d].open_count /\ sent.interrupt_in = tower[d].interrupt_in
        /\ sent.read_buffer = tower[d].read_buffer /\ sent.sem = t
    BY <1>1 DEF Structure
  <2> HIDE DEF r, sent
  <2>5. QED
    BY <1>1, <1>5, <2>1, <2>2, <2>3, <2>4, ThreadTouches
<1>6. CASE /\ tower' = [tower EXCEPT ![d] = [sent EXCEPT !.sem = Free]] /\ Returns(t)
           /\ UNCHANGED <<table, stream, files, hub>>
  <2> DEFINE s == [sent EXCEPT !.sem = Free]
  <2>1. Idle \in InCall /\ Idle.pc = "user"
    BY IdleIsACall
  <2>2. threads' = [threads EXCEPT ![t] = Idle]
    BY <1>6 DEF Returns, Goes, Idle
  <2>3. s \in Structure
    BY <1>1 DEF Structure
  <2>4. /\ s.udev = tower[d].udev /\ s.minor = tower[d].minor
        /\ s.open_count = tower[d].open_count /\ s.interrupt_in = tower[d].interrupt_in
        /\ s.read_buffer = tower[d].read_buffer /\ s.sem = Free
    BY <1>1 DEF Structure
  <2>5. tower' = [tower EXCEPT ![d] = s] /\ UNCHANGED <<table, stream, files, hub>>
    BY <1>6
  <2> HIDE DEF s
  <2>6. QED
    BY <1>1, <2>1, <2>2, <2>3, <2>4, <2>5, ThreadTouches, TowerAssumption
<1>7. QED
  BY <1>3, <1>4, <1>5, <1>6 DEF Submits, Fails, left

\* What is behind the one and the other.
LEMMA ConcatNat ==
    ASSUME NEW a \in Seq(Nat), NEW b \in Seq(Nat), NEW c \in Seq(Nat)
    PROVE  (a \o b) \o c = a \o (b \o c)
OBVIOUS

\* What a read takes away and what it leaves are the buffer.
LEMMA RestRemains ==
    ASSUME NEW buffer \in Seq(Nat), NEW k \in 0..Len(buffer)
    PROVE  /\ SubSeq(buffer, 1, k) \in Seq(Nat) /\ Rest(buffer, k) \in Seq(Nat)
           /\ Len(Rest(buffer, k)) <= Len(buffer)
           /\ SubSeq(buffer, 1, k) \o Rest(buffer, k) = buffer
<1>1. \A i \in 1..Len(buffer) : buffer[i] \in Nat
  BY ElementOfSeq
<1>2. SubSeq(buffer, 1, k) \in Seq(Nat) /\ Rest(buffer, k) \in Seq(Nat)
  BY <1>1, SubSeqProperties DEF Rest
<1>3. Len(Rest(buffer, k)) = IF k + 1 <= Len(buffer) THEN Len(buffer) - k ELSE 0
  BY <1>1, SubSeqProperties DEF Rest
<1>4. SubSeq(buffer, 1, k) \o Rest(buffer, k) = SubSeq(buffer, 1, Len(buffer))
  <2>1. Len(buffer) \in Nat
    OBVIOUS
  <2>2. 1 \in 1..Len(buffer) + 1 /\ k \in 1 - 1..Len(buffer) /\ Len(buffer) \in k..Len(buffer)
    BY <2>1
  <2>3. QED
    BY <2>2, ConcatAdjacentSubSeq, Zenon DEF Rest
<1>5. SubSeq(buffer, 1, Len(buffer)) = buffer
  BY SubSeqFull
<1>6. Len(Rest(buffer, k)) <= Len(buffer)
  BY <1>3
<1>7. QED
  BY <1>2, <1>4, <1>5, <1>6

\* The loop of tower_read().
LEMMA ReadLoopOK ==
    ASSUME TowerInv, NEW t \in Threads, NEW k \in TimeoutValues,
           threads[t].pc \in {"read", "readback"}, Downs(t, threads[t].pc),
           ReadLoop(t, threads[t].count, k),
           UNCHANGED <<table, came, dropped, files, hub>>
    PROVE  TowerInv'
<1> DEFINE d    == Dev(t)
           buffer == tower[d].read_buffer
           take == Min({threads[t].count, Len(buffer)})
           left == threads[t].count - take
           s    == [tower[d] EXCEPT !.read_buffer = Rest(buffer, take)]
           g    == got[d] \o SubSeq(buffer, 1, take)
<1>1. threads[t] \in InCall /\ tower[d] \in Structure /\ d \in Devs
      /\ tower[d].sem = Free /\ memory[d] = "live" /\ files[FileOf[t]].pc = "open"
      /\ got[d] \in Seq(Nat)
  BY ThreadInCall DEF Downs, TowerInv, Types
<1>2. buffer \in Seq(Nat)
  BY <1>1 DEF Structure
<1>3. take \in 0..Len(buffer) /\ left \in 0..MaxCount
  <2>1. threads[t].count \in 0..MaxCount /\ Len(buffer) \in Nat /\ MaxCount \in Nat
    BY <1>1, <1>2, TowerAssumption DEF InCall
  <2>2. threads[t].count \in Nat
    BY <2>1
  <2>3. take \in 0..Len(buffer) /\ left \in 0..threads[t].count
    BY <2>1, <2>2, MinOfTwo, Zenon
  <2> HIDE DEF take, left
  <2>4. QED
    BY <2>1, <2>3
<1>4. \/ UNCHANGED <<tower, got>> /\ threads' = [threads EXCEPT ![t] = Idle]
      \/ tower' = [tower EXCEPT ![d] = s] /\ got' = [got EXCEPT ![d] = g]
  BY <1>1 DEF ReadLoop, ReadFails, Returns, Goes, Idle
<1>5. \/ threads' = [threads EXCEPT ![t] = Idle]
      \/ k = 1 /\ threads' = [threads EXCEPT ![t] = [pc |-> "readsleep", count |-> left, timeout |-> 1]]
  BY DEF ReadLoop, ReadFails, GivesUp, Returns, Goes, Idle, TimeoutValues
<1> HIDE DEF take, left
<1>6. /\ SubSeq(buffer, 1, take) \in Seq(Nat) /\ Rest(buffer, take) \in Seq(Nat)
      /\ Len(Rest(buffer, take)) <= Len(buffer)
      /\ SubSeq(buffer, 1, take) \o Rest(buffer, take) = buffer
  BY <1>2, <1>3, RestRemains
<1>7. s \in Structure
  BY <1>1, <1>6 DEF Structure
<1>8. /\ s.udev = tower[d].udev /\ s.minor = tower[d].minor
      /\ s.open_count = tower[d].open_count /\ s.interrupt_in = tower[d].interrupt_in
      /\ s.read_buffer = Rest(buffer, take) /\ s.sem = Free
  BY <1>1 DEF Structure
<1> HIDE DEF s
<1>9. g \in Seq(Nat)
  BY <1>1, <1>6, ConcatProperties
<1>10. g \o s.read_buffer = Stream(d)
  <2>1. g \o Rest(buffer, take) = got[d] \o (SubSeq(buffer, 1, take) \o Rest(buffer, take))
    BY <1>1, <1>6, ConcatNat
  <2>2. QED
    BY <1>6, <1>8, <2>1 DEF Stream
<1> HIDE DEF g
<1>11. CASE UNCHANGED <<tower, got>> /\ threads' = [threads EXCEPT ![t] = Idle]
  <2>1. tower' = [tower EXCEPT ![d] = tower[d]] /\ got' = [got EXCEPT ![d] = got[d]]
    BY <1>1, <1>11 DEF TowerInv, Types
  <2>2. tower[d].sem # t /\ Len(buffer) <= Len(buffer)
    BY <1>1, <1>2, TowerAssumption
  <2>3. ThreadMoves(t, tower[d], got[d], Idle)
    BY <1>1, <1>11, <2>1, <2>2, IdleIsACall DEF ThreadMoves, Stream
  <2>4. QED
    BY <2>3, ThreadMovesOK
<1>12. ASSUME NEW r \in InCall, threads' = [threads EXCEPT ![t] = r],
              tower' = [tower EXCEPT ![d] = s], got' = [got EXCEPT ![d] = g],
              r.pc \notin {"writeloop", "control"}
       PROVE  TowerInv'
  <2>1. s.sem # t /\ \A u \in Threads \ {t} : s.sem = u <=> tower[d].sem = u
    BY <1>1, <1>8, TowerAssumption
  <2>2. ThreadMoves(t, s, g, r)
    BY <1>1, <1>6, <1>7, <1>8, <1>9, <1>10, <1>12, <2>1 DEF ThreadMoves
  <2>3. QED
    BY <2>2, ThreadMovesOK
<1>13. ASSUME threads' = [threads EXCEPT ![t] = Idle],
              tower' = [tower EXCEPT ![d] = s], got' = [got EXCEPT ![d] = g]
       PROVE  TowerInv'
  BY <1>12, <1>13, IdleIsACall
<1>14. ASSUME threads' = [threads EXCEPT ![t] = [pc |-> "readsleep", count |-> left, timeout |-> 1]],
              tower' = [tower EXCEPT ![d] = s], got' = [got EXCEPT ![d] = g]
       PROVE  TowerInv'
  <2> DEFINE r == [pc |-> "readsleep", count |-> left, timeout |-> 1]
  <2>1. r \in InCall /\ r.pc = "readsleep"
    BY <1>3 DEF InCall, Places
  <2> HIDE DEF r
  <2>2. QED
    BY <1>12, <1>14, <2>1 DEF r
<1>15. QED
  BY <1>4, <1>5, <1>13, <1>14, <1>11 DEF left, s, g

\* tower_read(), and after a sleep.
LEMMA ReadOK ==
    ASSUME TowerInv, NEW t \in Threads, tower_read(t) \/ ReadAgain(t)
    PROVE  TowerInv'
<1>1. threads[t] \in InCall /\ tower[Dev(t)] \in Structure
  BY ThreadInCall DEF tower_read, ReadAgain, Downs
<1>2. threads[t].timeout \in TimeoutValues /\ tower[Dev(t)].read_timeout \in TimeoutValues
  BY <1>1 DEF InCall, Structure, TimeoutValues
<1>3. CASE ReadAgain(t)
  <2>1. threads[t].pc = "readback"
    BY <1>3 DEF ReadAgain, Downs
  <2>2. QED
    BY <1>2, <1>3, <2>1, ReadLoopOK DEF ReadAgain
<1>4. CASE tower_read(t)
  <2>1. threads[t].pc = "read"
    BY <1>4 DEF tower_read, Downs
  <2>2. CASE ~tower[Dev(t)].udev \/ threads[t].count = 0
    BY <1>4, <2>1, <2>2, ReturnsOK DEF tower_read, stream
  <2>3. CASE ~(~tower[Dev(t)].udev \/ threads[t].count = 0)
    BY <1>2, <1>4, <2>1, <2>3, ReadLoopOK DEF tower_read
  <2>4. QED
    BY <2>2, <2>3
<1>5. QED
  BY <1>3, <1>4

\* tower_ioctl(), and the end of a control message.
LEMMA IoctlOK ==
    ASSUME TowerInv, NEW t \in Threads, tower_ioctl(t) \/ Controlled(t)
    PROVE  TowerInv'
<1> USE DEF Downs
<1> DEFINE d == Dev(t)
<1>1. CASE Controlled(t)
  BY <1>1, UpsOK DEF Controlled
<1>2. CASE tower_ioctl(t) /\ Returns(t) /\ UNCHANGED tower
  BY <1>2, ReturnsOK DEF tower_ioctl, stream
<1>3. CASE tower_ioctl(t) /\ Sets(t, "sem", t) /\ Goes(t, "control", 0, 0)
  <2>1. 0 \in 0..MaxCount
    BY TowerAssumption
  <2>2. QED
    BY <1>3, <2>1, EntersOK DEF tower_ioctl
<1>4. ASSUME tower_ioctl(t), NEW field \in {"read_timeout", "write_timeout"}, NEW arg \in Timeouts,
             Sets(t, field, arg), Returns(t)
      PROVE  TowerInv'
  <2> DEFINE s == [tower[d] EXCEPT ![field] = arg]
  <2>1. /\ tower[d] \in Structure /\ d \in Devs /\ files[FileOf[t]].pc = "open"
        /\ tower[d].sem = Free /\ memory[d] = "live"
    BY <1>4, ThreadInCall DEF tower_ioctl
  <2>2. Idle \in InCall /\ Idle.pc = "user"
    BY IdleIsACall
  <2>3. threads' = [threads EXCEPT ![t] = Idle]
    BY <1>4 DEF Returns, Goes, Idle
  <2>4. tower' = [tower EXCEPT ![d] = s]
    BY <1>4, <2>1 DEF Sets
  <2>5. arg \in TimeoutValues
    BY TowerAssumption DEF TimeoutValues
  <2>6. CASE field = "read_timeout"
    <3>1. s = [tower[d] EXCEPT !.read_timeout = arg]
      BY <2>6
    <3>2. s \in Structure
      BY <2>1, <2>5, <3>1 DEF Structure
    <3>3. /\ s.udev = tower[d].udev /\ s.minor = tower[d].minor
          /\ s.open_count = tower[d].open_count /\ s.interrupt_in = tower[d].interrupt_in
          /\ s.read_buffer = tower[d].read_buffer /\ s.sem = Free
      BY <2>1, <3>1 DEF Structure
    <3> HIDE DEF s
    <3>4. QED
      BY <1>4, <2>1, <2>2, <2>3, <2>4, <3>2, <3>3, ThreadTouches, TowerAssumption DEF tower_ioctl
  <2>7. CASE field = "write_timeout"
    <3>1. s = [tower[d] EXCEPT !.write_timeout = arg]
      BY <2>7
    <3>2. s \in Structure
      BY <2>1, <2>5, <3>1 DEF Structure
    <3>3. /\ s.udev = tower[d].udev /\ s.minor = tower[d].minor
          /\ s.open_count = tower[d].open_count /\ s.interrupt_in = tower[d].interrupt_in
          /\ s.read_buffer = tower[d].read_buffer /\ s.sem = Free
      BY <2>1, <3>1 DEF Structure
    <3> HIDE DEF s
    <3>4. QED
      BY <1>4, <2>1, <2>2, <2>3, <2>4, <3>2, <3>3, ThreadTouches, TowerAssumption DEF tower_ioctl
  <2>8. QED
    BY <2>6, <2>7
<1>5. QED
  BY <1>1, <1>2, <1>3, <1>4 DEF tower_ioctl

\* Calls, signals and sleeps leave the device alone.
LEMMA CallsAndSleepsOK ==
    ASSUME TowerInv, NEW t \in Threads, Calls(t) \/ Sleeps(t) \/ Expires(t)
    PROVE  TowerInv'
<1>1. CASE Calls(t)
  <2>1. PICK pc \in CallsOf[t], n \in 0..MaxCount : Goes(t, pc, n, 0)
    BY <1>1 DEF Calls
  <2> DEFINE r == [pc |-> pc, count |-> n, timeout |-> 0]
  <2>2. pc \in {"read", "write", "ioctl"}
    BY TowerAssumption
  <2>3. r \in InCall /\ r.pc = pc
    BY <2>2 DEF InCall, Places
  <2>4. threads' = [threads EXCEPT ![t] = r]
    BY <2>1 DEF Goes
  <2> HIDE DEF r
  <2>5. QED
    BY <1>1, <2>2, <2>3, <2>4, ThreadAlone DEF Calls
<1>2. CASE Sleeps(t)
  <2> DEFINE r == [threads[t] EXCEPT !.pc = OnQueue(@)]
  <2>1. threads[t] \in InCall /\ files[FileOf[t]].pc = "open"
    BY <1>2, ThreadInCall DEF Sleeps
  <2>2. r \in InCall /\ r.pc \in {"readqueue", "writequeue"}
    BY <2>1 DEF InCall, Places, OnQueue
  <2>3. threads' = [threads EXCEPT ![t] = r]
    BY <1>2 DEF Sleeps
  <2> HIDE DEF r
  <2>4. QED
    BY <1>2, <2>1, <2>2, <2>3, ThreadAlone DEF Sleeps
<1>3. CASE Expires(t)
  <2>1. threads[t] \in InCall /\ files[FileOf[t]].pc = "open"
    BY <1>3, ThreadInCall DEF Expires
  <2>2. PICK left \in {0, threads[t].timeout} : Goes(t, Back(threads[t].pc), threads[t].count, left)
    BY <1>3 DEF Expires
  <2> DEFINE r == [pc |-> Back(threads[t].pc), count |-> threads[t].count, timeout |-> left]
  <2>3. r \in InCall /\ r.pc \in {"readback", "writeback"}
    BY <2>1 DEF InCall, Places, Back
  <2>4. threads' = [threads EXCEPT ![t] = r]
    BY <2>2 DEF Goes
  <2> HIDE DEF r
  <2>5. QED
    BY <1>3, <2>1, <2>3, <2>4, ThreadAlone DEF Expires
<1>4. QED
  BY <1>1, <1>2, <1>3

\* So whatever a thread does.
LEMMA ThreadStepOK ==
    ASSUME TowerInv, NEW t \in Threads, ThreadStep(t)
    PROVE  TowerInv'
<1>1. CASE TouchesFreed(t) \/ Signalled(t)
  BY <1>1, NothingMoves DEF TouchesFreed, Signalled, Fails
<1>2. QED
  BY <1>1, ReadOK, WriteOK, SubmitsOK, WaitsOK, IoctlOK, CallsAndSleepsOK DEF ThreadStep

-----------------------------------------------------------------------------
(* The controller and the hub. *)

\* The bytes of one packet.
Numbered(bytes, c, n) == bytes \in Seq(Nat) /\ Len(bytes) = n /\ \A b \in 1..n : bytes[b] = c + b

\* The bytes that the callback puts into the buffer are.
LEMMA PacketIsNumbered ==
    ASSUME NEW c \in Nat, NEW n \in Nat
    PROVE  Numbered([b \in 1..n |-> c + b], c, n)
<1> DEFINE bytes == [b \in 1..n |-> c + b]
<1>1. \A b \in 1..n : c + b \in Nat
  OBVIOUS
<1>2. bytes \in [1..n -> Nat]
  BY <1>1
<1>3. bytes \in Seq(Nat) /\ Len(bytes) = n
  BY <1>2
<1>4. QED
  BY <1>3 DEF Numbered

\* They follow those there were.
LEMMA PacketFollows ==
    ASSUME NEW c \in Nat, NEW n \in Nat \ {0}, NEW bytes, Numbered(bytes, c, n),
           NEW S, NEW D, Complete(S, c, D)
    PROVE  Complete(S \o bytes, c + n, D)
<1>0. /\ S \in Seq(Nat) /\ Len(S) \in Nat /\ DOMAIN S = 1..Len(S)
      /\ bytes \in Seq(Nat) /\ Len(bytes) = n
  BY DEF Complete, Numbered
<1> DEFINE T == S \o bytes
<1>1. /\ T \in Seq(Nat) /\ Len(T) = Len(S) + n /\ DOMAIN T = 1..Len(S) + n
      /\ \A i \in 1..Len(S) + n : T[i] = IF i <= Len(S) THEN S[i] ELSE c + (i - Len(S))
  <2>1. \A i \in 1..Len(S) + n : i > Len(S) => i - Len(S) \in 1..n
    OBVIOUS
  <2>2. /\ T \in Seq(Nat) /\ Len(T) = Len(S) + n
        /\ \A i \in 1..Len(S) + n : T[i] = IF i <= Len(S) THEN S[i] ELSE bytes[i - Len(S)]
    BY <1>0, ConcatProperties
  <2> HIDE DEF T
  <2>3. \A b \in 1..n : bytes[b] = c + b
    BY DEF Numbered
  <2>4. \A i \in 1..Len(S) + n : ~(i <= Len(S)) => bytes[i - Len(S)] = c + (i - Len(S))
    BY <1>0, <2>1, <2>3
  <2>5. DOMAIN T = 1..Len(S) + n
    BY <1>0, <2>2
  <2>6. QED
    BY <2>2, <2>4, <2>5
<1> HIDE DEF T
<1>2. \A i \in 1..Len(S) : S[i] \in 1..c \ D
  BY <1>0 DEF Complete, Bytes
<1>3. Increasing(T)
  <2> SUFFICES ASSUME NEW i \in 1..Len(S) + n, NEW j \in 1..Len(S) + n, i < j
               PROVE  T[i] < T[j]
    BY <1>1 DEF Increasing
  <2>1. CASE j <= Len(S)
    <3>1. i \in 1..Len(S) /\ j \in 1..Len(S) /\ T[i] = S[i] /\ T[j] = S[j]
      BY <1>0, <1>1, <2>1
    <3>2. QED
      BY <1>0, <3>1 DEF Complete, Increasing
  <2>2. CASE i <= Len(S) /\ j > Len(S)
    <3>1. i \in 1..Len(S) /\ T[i] = S[i] /\ T[j] = c + (j - Len(S))
      BY <1>0, <1>1, <2>2
    <3>2. S[i] \in 1..c
      BY <1>2, <3>1
    <3>3. QED
      BY <1>0, <2>2, <3>1, <3>2
  <2>3. CASE i > Len(S)
    <3>1. T[i] = c + (i - Len(S)) /\ T[j] = c + (j - Len(S))
      BY <1>0, <1>1, <2>3
    <3>2. QED
      BY <1>0, <3>1
  <2>4. j <= Len(S) \/ (i <= Len(S) /\ j > Len(S)) \/ i > Len(S)
    BY <1>0
  <2>5. QED
    BY <2>1, <2>2, <2>3, <2>4
<1>4. Bytes(T) = 1..(c + n) \ D
  <2>1. ASSUME NEW i \in 1..Len(S) + n
        PROVE  T[i] \in 1..(c + n) \ D
    <3>1. CASE i <= Len(S)
      <4>1. T[i] = S[i] /\ S[i] \in 1..c \ D
        BY <1>0, <1>1, <1>2, <3>1
      <4>2. QED
        BY <4>1
    <3>2. CASE i > Len(S)
      <4>1. T[i] = c + (i - Len(S))
        BY <1>0, <1>1, <3>2
      <4>2. T[i] \in c + 1..c + n
        BY <1>0, <1>1, <3>2, <4>1
      <4>3. QED
        BY <4>2 DEF Complete
    <3>3. QED
      BY <1>0, <1>1, <3>1, <3>2
  <2>2. ASSUME NEW x \in 1..(c + n) \ D
        PROVE  \E i \in 1..Len(S) + n : T[i] = x
    <3>1. CASE x <= c
      <4>1. PICK i \in 1..Len(S) : S[i] = x
        BY <1>0, <3>1 DEF Complete, Bytes
      <4>2. i \in 1..Len(S) + n /\ i <= Len(S)
        BY <1>0, <4>1
      <4>3. T[i] = x
        BY <1>1, <4>1, <4>2
      <4>4. QED
        BY <4>2, <4>3
    <3>2. CASE x > c
      <4> DEFINE i == Len(S) + (x - c)
      <4>1. i \in 1..Len(S) + n /\ i > Len(S) /\ i - Len(S) = x - c
        BY <1>0, <1>1, <3>2
      <4> HIDE DEF i
      <4>2. T[i] = c + (i - Len(S))
        BY <1>0, <1>1, <4>1
      <4>3. T[i] = x
        BY <3>2, <4>1, <4>2
      <4>4. QED
        BY <4>1, <4>3
    <3>3. QED
      BY <3>1, <3>2
  <2>3. Bytes(T) = {T[i] : i \in 1..Len(S) + n}
    BY <1>1 DEF Bytes
  <2>4. QED
    BY <2>1, <2>2, <2>3
<1>5. D \subseteq 1..c + n
  BY DEF Complete
<1>6. QED
  BY <1>1, <1>3, <1>4, <1>5 DEF T, Complete

\* Whom a callback wakes stays in his call.
LEMMA WokenOK ==
    ASSUME TowerInv, NEW d, NEW pc \in {"readqueue", "writequeue"},
           WakesUp(d, pc) \/ UNCHANGED threads
    PROVE  /\ threads' \in [Threads -> InCall]
           /\ \A t \in Threads :
                 /\ threads'[t].pc \in {"writeloop", "control"} <=>
                        threads[t].pc \in {"writeloop", "control"}
                 /\ threads'[t].pc # "user" <=> threads[t].pc # "user"
<1>1. threads \in [Threads -> InCall]
  BY DEF TowerInv, Types, InCall
<1>2. CASE UNCHANGED threads
  BY <1>1, <1>2
<1>3. ASSUME NEW late \in SUBSET Threads,
             threads' = [t \in Threads |->
                 IF threads[t].pc = pc /\ Dev(t) = d
                 THEN [pc |-> Back(pc), count |-> threads[t].count,
                       timeout |-> IF t \in late THEN 0 ELSE threads[t].timeout]
                 ELSE threads[t]]
      PROVE  /\ threads' \in [Threads -> InCall]
             /\ \A t \in Threads : \/ threads'[t] = threads[t]
                                   \/ /\ threads[t].pc = pc
                                      /\ threads'[t].pc \in {"readback", "writeback"}
  <2>1. ASSUME NEW t \in Threads
        PROVE  /\ threads'[t] \in InCall
               /\ \/ threads'[t] = threads[t]
                  \/ threads[t].pc = pc /\ threads'[t].pc \in {"readback", "writeback"}
    <3>1. CASE threads[t].pc = pc /\ Dev(t) = d
      <4> DEFINE r == [pc |-> Back(pc), count |-> threads[t].count,
                       timeout |-> IF t \in late THEN 0 ELSE threads[t].timeout]
      <4>1. threads'[t] = r
        BY <1>3, <3>1
      <4>2. threads[t] \in InCall
        BY <1>1
      <4>3. r \in InCall /\ r.pc \in {"readback", "writeback"}
        BY <4>2 DEF InCall, Places, Back
      <4> HIDE DEF r
      <4>4. QED
        BY <3>1, <4>1, <4>3
    <3>2. CASE ~(threads[t].pc = pc /\ Dev(t) = d)
      BY <1>1, <1>3, <3>2
    <3>3. QED
      BY <3>1, <3>2
  <2>2. \E e : threads' = [t \in Threads |-> e[t]]
    <3>1. threads' = [t \in Threads |-> threads'[t]]
      BY <1>3
    <3>2. QED
      BY <3>1
  <2>3. QED
    BY <2>1, <2>2
<1>4. CASE WakesUp(d, pc)
  BY <1>3, <1>4 DEF WakesUp
<1>5. QED
  BY <1>2, <1>4

\* What a callback of device d looks like to all but the readers.
LEMMA CallbackMoves ==
    ASSUME TowerInv, NEW d \in Devs, memory[d] = "live", NEW s \in Structure,
           tower' = [tower EXCEPT ![d] = s], UNCHANGED <<table, got, files, hub>>,
           s.udev = tower[d].udev, s.minor = tower[d].minor,
           s.open_count = tower[d].open_count, s.interrupt_in = tower[d].interrupt_in,
           s.sem = tower[d].sem, s.interrupt_out => tower[d].interrupt_out,
           NEW pc \in {"readqueue", "writequeue"}, WakesUp(d, pc) \/ UNCHANGED threads
    PROVE  /\ tower' \in [Devs -> Structure] /\ threads' \in [Threads -> InCall]
           /\ TableLocked' /\ DeviceLocked' /\ Counts'
<1> USE DEF TowerInv
<1>1. \A e \in Devs : tower'[e] = IF e = d THEN s ELSE tower[e]
  BY DEF Types
<1>2. UNCHANGED <<minor_table, minor_table_mutex, memory, files, hub>>
  BY DEF table
<1>3. tower' \in [Devs -> Structure]
  BY DEF Types
<1>4. TableLocked'
  <2>1. \A e \in Devs : tower'[e].udev = tower[e].udev
    BY <1>1
  <2>2. QED
    BY <1>2, <2>1 DEF TableLocked, Types, Null
<1>5. DeviceLocked'
  <2>1. \A e \in Devs : tower'[e].sem = tower[e].sem
    BY <1>1
  <2>2. \A t \in Threads : Dev(t)' = Dev(t)
    BY <1>2 DEF Dev
  <2>3. QED
    BY <1>2, <2>1, <2>2, WokenOK DEF DeviceLocked
<1>6. Counts'
  <2>1. \A e \in Devs : Holders(e)' = Holders(e)
    BY <1>2 DEF Holders
  <2>2. \A e \in Devs :
           /\ tower'[e].minor = tower[e].minor /\ tower'[e].open_count = tower[e].open_count
           /\ tower'[e].interrupt_in = tower[e].interrupt_in
           /\ tower'[e].interrupt_out => tower[e].interrupt_out
           /\ memory[e] # "live" => tower'[e] = tower[e]
    BY <1>1
  <2>3. ASSUME NEW m \in Minors, minor_table[m] # Null
        PROVE  memory[minor_table[m]] = "live" /\ tower'[minor_table[m]].minor = m
    <3>1. minor_table[m] \in Devs
      BY <2>3 DEF Types
    <3>2. QED
      BY <2>2, <2>3, <3>1 DEF Counts
  <2>4. \A e \in Devs : memory[e] = "live" =>
          /\ \A f, h \in Holders(e) : f = h
          /\ tower'[e].open_count = IF Holders(e) = {} THEN 0 ELSE 1
          /\ minor_table[tower'[e].minor] = e
          /\ Holders(e) = {} => ~tower'[e].interrupt_in /\ ~tower'[e].interrupt_out
    BY <2>2 DEF Counts
  <2>5. QED
    BY <1>2, <2>1, <2>2, <2>3, <2>4 DEF Counts
<1>7. QED
  BY <1>3, <1>4, <1>5, <1>6, WokenOK

\* tower_interrupt_in_callback().
LEMMA InCallbackOK ==
    ASSUME TowerInv, NEW d \in Devs, tower_interrupt_in_callback(d)
    PROVE  TowerInv'
<1> DEFINE buffer == tower[d].read_buffer
<1>1. PICK n \in 1..Packet :
        LET bytes == [b \in 1..n |-> came[d] + b] IN
        /\ came' = [came EXCEPT ![d] = @ + n]
        /\ \/ /\ HasRoom(tower[d], n)
              /\ tower' = [tower EXCEPT ![d].read_buffer = @ \o bytes]
              /\ WakesUp(d, "readqueue") /\ UNCHANGED dropped
           \/ /\ dropped' = [dropped EXCEPT ![d] = @ \cup {bytes[b] : b \in 1..n}]
              /\ UNCHANGED <<tower, threads>>
  BY DEF tower_interrupt_in_callback
<1> DEFINE bytes == [b \in 1..n |-> came[d] + b]
<1>2. /\ memory[d] = "live" /\ UNCHANGED <<table, got, files, hub>>
      /\ tower[d] \in Structure /\ came[d] \in Nat /\ got[d] \in Seq(Nat) /\ dropped[d] \in SUBSET Nat
  BY DEF tower_interrupt_in_callback, TowerInv, Types
<1>3. n \in Nat \ {0} /\ buffer \in Seq(Nat)
  BY <1>2, TowerAssumption DEF Structure
<1>4. Complete(got[d] \o buffer, came[d], dropped[d]) /\ Len(buffer) < 4 * Packet
  BY <1>2 DEF TowerInv, Streams, Stream
<1>5. /\ came' \in [Devs -> Nat] /\ came'[d] = came[d] + n
      /\ \A e \in Devs \ {d} : came'[e] = came[e]
  BY <1>1, <1>3 DEF TowerInv, Types
<1>6. Numbered(bytes, came[d], n)
  BY <1>2, <1>3, PacketIsNumbered
<1> HIDE DEF bytes
<1>7. Complete((got[d] \o buffer) \o bytes, came[d] + n, dropped[d])
  BY <1>2, <1>3, <1>4, <1>6, PacketFollows
<1>8. CASE /\ HasRoom(tower[d], n) /\ tower' = [tower EXCEPT ![d].read_buffer = @ \o bytes]
           /\ WakesUp(d, "readqueue") /\ UNCHANGED dropped
  <2> DEFINE s == [tower[d] EXCEPT !.read_buffer = buffer \o bytes]
  <2>1. buffer \o bytes \in Seq(Nat) /\ Len(buffer \o bytes) = Len(buffer) + n
    BY <1>3, <1>6, ConcatProperties DEF Numbered
  <2>2. s \in Structure
    BY <1>2, <2>1 DEF Structure
  <2>3. /\ s.udev = tower[d].udev /\ s.minor = tower[d].minor
        /\ s.open_count = tower[d].open_count /\ s.interrupt_in = tower[d].interrupt_in
        /\ s.sem = tower[d].sem /\ s.interrupt_out = tower[d].interrupt_out
        /\ s.read_buffer = buffer \o bytes
    BY <1>2 DEF Structure
  <2>4. tower' = [tower EXCEPT ![d] = s]
    BY <1>8 DEF TowerInv, Types
  <2> HIDE DEF s
  <2>5. /\ tower' \in [Devs -> Structure] /\ threads' \in [Threads -> InCall]
        /\ TableLocked' /\ DeviceLocked' /\ Counts'
    BY <1>2, <1>8, <2>2, <2>3, <2>4, CallbackMoves
  <2>6. \A e \in Devs : tower'[e] = IF e = d THEN s ELSE tower[e]
    BY <2>4 DEF TowerInv, Types
  <2>7. Types'
    BY <1>2, <1>5, <1>8, <2>5 DEF TowerInv, Types, InCall, table
  <2>8. Stream(d)' = (got[d] \o buffer) \o bytes
    <3>1. Stream(d)' = got[d] \o (buffer \o bytes)
      BY <1>2, <2>3, <2>6 DEF Stream
    <3>2. bytes \in Seq(Nat)
      BY <1>6 DEF Numbered
    <3>3. QED
      BY <1>2, <1>3, <3>1, <3>2, ConcatNat
  <2>9. \A e \in Devs \ {d} : Stream(e)' = Stream(e) /\ tower'[e] = tower[e]
    BY <1>2, <2>6 DEF Stream
  <2>10. Len(tower'[d].read_buffer) < 4 * Packet
    <3>1. Len(buffer) \in Nat /\ Packet \in Nat
      BY <1>3, TowerAssumption
    <3>2. Len(buffer) < 4 * Packet - n
      BY <1>8 DEF HasRoom
    <3>3. tower'[d].read_buffer = buffer \o bytes
      BY <2>3, <2>6
    <3>4. QED
      BY <1>3, <2>1, <3>1, <3>2, <3>3
  <2>11. UNCHANGED <<memory, got, dropped>>
    BY <1>2, <1>8 DEF table
  <2>12. Streams'
    BY <1>2, <1>5, <1>7, <2>8, <2>9, <2>10, <2>11 DEF TowerInv, Streams
  <2>13. QED
    BY <2>5, <2>7, <2>12 DEF TowerInv
<1>9. CASE /\ dropped' = [dropped EXCEPT ![d] = @ \cup {bytes[b] : b \in 1..n}]
           /\ UNCHANGED <<tower, threads>>
  <2> DEFINE more == {bytes[b] : b \in 1..n}
  <2>1. tower' = [tower EXCEPT ![d] = tower[d]]
    BY <1>9 DEF TowerInv, Types
  <2>2. /\ tower' \in [Devs -> Structure] /\ threads' \in [Threads -> InCall]
        /\ TableLocked' /\ DeviceLocked' /\ Counts'
    BY <1>2, <1>9, <2>1, CallbackMoves
  <2>3. \A x : x \in more <=> x \in came[d] + 1..came[d] + n
    <3>1. \A b \in 1..n : bytes[b] = came[d] + b
      BY <1>6 DEF Numbered
    <3>2. ASSUME NEW x \in came[d] + 1..came[d] + n
          PROVE  \E b \in 1..n : bytes[b] = x
      <4>1. x - came[d] \in 1..n /\ came[d] + (x - came[d]) = x
        BY <1>2, <1>3
      <4>2. QED
        BY <3>1, <4>1
    <3>3. \A b \in 1..n : bytes[b] \in came[d] + 1..came[d] + n
      BY <1>2, <1>3, <3>1
    <3>4. QED
      BY <3>2, <3>3
  <2>4. dropped' = [dropped EXCEPT ![d] = dropped[d] \cup more]
    BY <1>9
  <2> HIDE DEF more
  <2>5. more \in SUBSET Nat
    BY <1>2, <1>3, <2>3
  <2>6. /\ dropped' \in [Devs -> SUBSET Nat] /\ dropped'[d] = dropped[d] \cup more
        /\ \A e \in Devs \ {d} : dropped'[e] = dropped[e]
    BY <1>2, <2>4, <2>5 DEF TowerInv, Types
  <2>7. Types'
    BY <1>2, <1>5, <1>9, <2>2, <2>6 DEF TowerInv, Types, InCall, table
  <2>8. Complete(Stream(d), came'[d], dropped'[d])
    <3>1. dropped'[d] \subseteq 1..came'[d]
      BY <1>2, <1>3, <1>4, <1>5, <2>3, <2>6 DEF Complete
    <3>2. 1..came'[d] \ dropped'[d] = 1..came[d] \ dropped[d]
      BY <1>2, <1>3, <1>4, <1>5, <2>3, <2>6 DEF Complete
    <3>3. QED
      BY <1>4, <3>1, <3>2 DEF Complete, Stream
  <2>9. UNCHANGED <<memory, got, tower>> /\ \A e \in Devs : Stream(e)' = Stream(e)
    BY <1>2, <1>9 DEF table, Stream
  <2>10. Streams'
    BY <1>2, <1>5, <2>6, <2>8, <2>9 DEF TowerInv, Streams
  <2>11. QED
    BY <2>2, <2>7, <2>10 DEF TowerInv
<1>10. QED
  BY <1>1, <1>8, <1>9 DEF bytes

\* tower_interrupt_out_callback().
LEMMA OutCallbackOK ==
    ASSUME TowerInv, NEW d \in Devs, tower_interrupt_out_callback(d)
    PROVE  TowerInv'
<1> DEFINE s == [tower[d] EXCEPT !.interrupt_out = FALSE]
<1>1. tower[d] \in Structure /\ memory[d] = "live" /\ UNCHANGED <<table, stream, files, hub>>
  BY DEF TowerInv, Types, tower_interrupt_out_callback
<1>2. s \in Structure
  BY <1>1 DEF Structure
<1>3. /\ s.udev = tower[d].udev /\ s.minor = tower[d].minor
      /\ s.open_count = tower[d].open_count /\ s.interrupt_in = tower[d].interrupt_in
      /\ s.sem = tower[d].sem /\ ~s.interrupt_out /\ s.read_buffer = tower[d].read_buffer
  BY <1>1 DEF Structure
<1>4. tower' = [tower EXCEPT ![d] = s] /\ (WakesUp(d, "writequeue") \/ UNCHANGED threads)
  BY DEF tower_interrupt_out_callback, TowerInv, Types
<1> HIDE DEF s
<1>5. /\ tower' \in [Devs -> Structure] /\ threads' \in [Threads -> InCall]
      /\ TableLocked' /\ DeviceLocked' /\ Counts'
  BY <1>1, <1>2, <1>3, <1>4, CallbackMoves DEF stream
<1>6. Types'
  BY <1>1, <1>5 DEF TowerInv, Types, InCall, table, stream
<1>7. Streams'
  <2>1. \A e \in Devs : tower'[e].read_buffer = tower[e].read_buffer
    BY <1>3, <1>4 DEF TowerInv, Types
  <2>2. \A e \in Devs : Stream(e)' = Stream(e)
    BY <1>1, <2>1 DEF Stream, stream
  <2>3. QED
    BY <1>1, <2>1, <2>2 DEF TowerInv, Streams, table, stream
<1>8. QED
  BY <1>5, <1>6, <1>7 DEF TowerInv

-----------------------------------------------------------------------------
(* The table of minors. *)

OpenFile == [pc : {"closed", "opening", "open", "releasing"}, private_data : Devs \cup {Null}]

Closed == [pc |-> "closed", private_data |-> Null]

\* What came, was read and was lost of the other devices is as it was.
StreamsBut(d) ==
    /\ came' \in [Devs -> Nat] /\ got' \in [Devs -> Seq(Nat)] /\ dropped' \in [Devs -> SUBSET Nat]
    /\ \A e \in Devs \ {d} : came'[e] = came[e] /\ got'[e] = got[e] /\ dropped'[e] = dropped[e]

\* A set of naturals that has an element has a least one.
LEMMA LeastNatural ==
    ASSUME NEW S, S \subseteq Nat, S # {}
    PROVE  \E n \in S : \A m \in S : n <= m
<1>1. PICK n \in S : \A m \in S : <<m, n>> \notin OpToRel(<, Nat)
  BY WFMin, NatLessThanWellFounded, Zenon
<1>2. \A m \in S : ~ (m < n)
  <2> SUFFICES ASSUME NEW m \in S PROVE m < n => <<m, n>> \in OpToRel(<, Nat)
    BY <1>1
  <2>1. m \in Nat /\ n \in Nat
    OBVIOUS
  <2>2. QED
    BY <2>1, Zenon DEF OpToRel
<1>3. QED
  BY <1>2

\* A free minor is found if there is one.
LEMMA MinorIsFree ==
    ASSUME FreeMinors # {}
    PROVE  Min(FreeMinors) \in FreeMinors
<1>1. FreeMinors \subseteq Nat
  BY TowerAssumption DEF FreeMinors, Minors
<1>2. \E n \in FreeMinors : \A m \in FreeMinors : n <= m
  BY <1>1, LeastNatural
<1>3. QED
  BY <1>2 DEF Min

\* A new structure is one, with nothing in it.
LEMMA FreshStructure ==
    /\ 0 \in Minors
    /\ \A m \in Minors :
          /\ Fresh(m) \in Structure /\ Fresh(m).minor = m /\ Fresh(m).sem = Free /\ Fresh(m).udev
          /\ Fresh(m).open_count = 0 /\ Fresh(m).read_buffer = <<>>
          /\ ~Fresh(m).interrupt_in /\ ~Fresh(m).interrupt_out
<1>1. 0 \in Minors
  BY TowerAssumption DEF Minors
<1>2. ASSUME NEW m \in Minors
      PROVE  Fresh(m) \in Structure
  <2>1. <<>> \in Seq(Nat)
    OBVIOUS
  <2>2. QED
    BY <2>1 DEF Fresh, Structure, TimeoutValues
<1>3. QED
  BY <1>1, <1>2 DEF Fresh

\* tower_delete() leaves what is not there.
LEMMA Deletes ==
    ASSUME TowerInv, NEW d \in Devs, tower_delete(d)
    PROVE  /\ minor_table' = [minor_table EXCEPT ![tower[d].minor] = Null]
           /\ memory' = [memory EXCEPT ![d] = "gone"]
           /\ tower' = [tower EXCEPT ![d] = Fresh(0)]
<1>1. tower[d] \in Structure
  BY DEF TowerInv, Types
<1>2. tower_abort_transfers(tower[d]).interrupt_in = FALSE
      /\ tower_abort_transfers(tower[d]).interrupt_out = FALSE
  BY <1>1 DEF tower_abort_transfers, Structure
<1>3. [Fresh(0) EXCEPT !.interrupt_in = FALSE, !.interrupt_out = FALSE] = Fresh(0)
  <2>1. Fresh(0) \in Structure /\ Fresh(0).interrupt_in = FALSE /\ Fresh(0).interrupt_out = FALSE
    BY FreshStructure DEF Structure
  <2> QED
    BY <2>1 DEF Structure
<1>4. QED
  BY <1>2, <1>3 DEF tower_delete

\* The mutex is raised; its holder had come for device d, and has it open now
\* or has no file.
Unlocks(d) ==
    /\ minor_table_mutex # Free /\ minor_table_mutex' = Free /\ hub' = Null
    /\ files' \in [Files -> OpenFile]
    /\ \A g \in Files :
          IF minor_table_mutex = g
          THEN files[g].private_data = d /\ files'[g] \in {Closed, [pc |-> "open", private_data |-> d]}
          ELSE files'[g] = files[g]
    /\ UNCHANGED threads

\* No semaphore passes to a thread or away from it.
SemaphoresStay == \A t \in Threads, e \in Devs : tower'[e].sem = t <=> tower[e].sem = t

\* The locks are as they should be once the mutex is raised.
LEMMA UnlocksOK ==
    ASSUME TowerInv, NEW d \in Devs, Unlocks(d), SemaphoresStay
    PROVE  TableLocked' /\ DeviceLocked'
<1> USE DEF TowerInv, Unlocks
<1>1. ASSUME NEW g \in Files
      PROVE  /\ files'[g].pc \notin {"opening", "releasing"}
             /\ files'[g].pc = "closed" <=> files'[g].private_data = Null
  BY <1>1 DEF TableLocked, Closed, Devs, Null
<1>2. TableLocked'
  BY <1>1, TowerAssumption DEF TableLocked, Free, Hub
<1>3. ASSUME NEW t \in Threads, threads'[t].pc # "user"
      PROVE  files'[FileOf[t]] = files[FileOf[t]] /\ files[FileOf[t]].pc = "open"
  <2>1. files[FileOf[t]].pc = "open" /\ FileOf[t] \in Files
    BY <1>3, TowerAssumption DEF DeviceLocked
  <2>2. minor_table_mutex # FileOf[t]
    BY <2>1 DEF TableLocked
  <2>3. QED
    BY <2>1, <2>2
<1>4. ASSUME NEW t \in Threads, NEW e \in Devs
      PROVE  tower'[e].sem = t <=> threads'[t].pc \in {"writeloop", "control"} /\ Dev(t)' = e
  <2>1. CASE threads[t].pc = "user"
    BY <2>1 DEF DeviceLocked, SemaphoresStay
  <2>2. CASE threads[t].pc # "user"
    BY <1>3, <2>2 DEF DeviceLocked, Dev, SemaphoresStay
  <2>3. QED
    BY <2>1, <2>2
<1>5. DeviceLocked'
  BY <1>3, <1>4 DEF DeviceLocked
<1>6. QED
  BY <1>2, <1>5

\* The files of the other devices are not concerned.
LEMMA HoldersStay ==
    ASSUME TowerInv, NEW d \in Devs, Unlocks(d), NEW e \in Devs, e # d
    PROVE  Holders(e)' = Holders(e)
<1>1. ASSUME NEW g \in Files
      PROVE  g \in Holders(e)' <=> g \in Holders(e)
  <2>1. CASE minor_table_mutex = g
    BY <2>1 DEF Unlocks, Holders, Closed, Null, Devs
  <2>2. CASE minor_table_mutex # g
    BY <2>2 DEF Unlocks, Holders
  <2>3. QED
    BY <2>1, <2>2
<1>2. QED
  BY <1>1 DEF Holders

\* The device is deleted on the way.
LEMMA DeletedOK ==
    ASSUME TowerInv, NEW d \in Devs, memory[d] = "live", tower[d].sem = Free, tower_delete(d),
           Unlocks(d), StreamsBut(d)
    PROVE  TowerInv'
<1> USE DEF TowerInv
<1>1. /\ minor_table' = [minor_table EXCEPT ![tower[d].minor] = Null]
      /\ memory' = [memory EXCEPT ![d] = "gone"]
      /\ tower' = [tower EXCEPT ![d] = Fresh(0)]
  BY Deletes
<1>2. tower[d] \in Structure /\ tower[d].minor \in Minors /\ Fresh(0) \in Structure /\ Fresh(0).sem = Free
  BY FreshStructure DEF Types, Structure
<1>3. \A e \in Devs : /\ memory'[e] = (IF e = d THEN "gone" ELSE memory[e])
                      /\ tower'[e] = (IF e = d THEN Fresh(0) ELSE tower[e])
  BY <1>1 DEF Types
<1>4. Types'
  <2>1. minor_table' \in [Minors -> Devs \cup {Null}] /\ memory' \in [Devs -> {"unused", "live", "gone"}]
    BY <1>1, <1>2 DEF Types
  <2>2. tower' \in [Devs -> Structure]
    BY <1>1, <1>2 DEF Types
  <2>3. QED
    BY <2>1, <2>2 DEF Types, Unlocks, StreamsBut, OpenFile
<1>5. TableLocked' /\ DeviceLocked'
  <2>1. SemaphoresStay
    BY <1>2, <1>3 DEF SemaphoresStay
  <2>2. QED
    BY <2>1, UnlocksOK
<1>6. Counts'
  <2>1. \A e \in Devs : e # d => Holders(e)' = Holders(e)
    BY HoldersStay
  <2>2. ASSUME NEW e \in Devs, e # d, memory[e] = "live"
        PROVE  minor_table'[tower[e].minor] = e
    <3>1. minor_table[tower[e].minor] = e /\ minor_table[tower[d].minor] = d
      BY <2>2 DEF Counts
    <3>2. tower[e].minor \in Minors
      BY DEF Types, Structure
    <3>3. QED
      BY <1>1, <2>2, <3>1, <3>2 DEF Types
  <2>3. ASSUME NEW m \in Minors, minor_table'[m] # Null
        PROVE  memory'[minor_table'[m]] = "live" /\ tower'[minor_table'[m]].minor = m
    <3>1. m # tower[d].minor /\ minor_table'[m] = minor_table[m]
      BY <1>1, <1>2, <2>3 DEF Types
    <3>2. minor_table[m] \in Devs /\ memory[minor_table[m]] = "live" /\ tower[minor_table[m]].minor = m
      BY <2>3, <3>1 DEF Types, Counts
    <3>3. QED
      BY <1>3, <3>1, <3>2
  <2>4. ASSUME NEW e \in Devs, e # d
        PROVE  /\ memory'[e] # "live" => tower'[e] = Fresh(0)
               /\ memory'[e] = "live" =>
                    /\ \A f, g \in Holders(e)' : f = g
                    /\ tower'[e].open_count = IF Holders(e)' = {} THEN 0 ELSE 1
                    /\ minor_table'[tower'[e].minor] = e
                    /\ Holders(e)' = {} => ~tower'[e].interrupt_in /\ ~tower'[e].interrupt_out
               /\ memory'[e] = "unused" => Holders(e)' = {}
    BY <1>3, <2>1, <2>2, <2>4 DEF Counts
  <2>5. memory'[d] = "gone" /\ tower'[d] = Fresh(0)
    BY <1>3
  <2>6. QED
    BY <2>3, <2>4, <2>5 DEF Counts
<1>7. Streams'
  BY <1>3 DEF Streams, Stream, StreamsBut
<1>8. QED
  BY <1>4, <1>5, <1>6, <1>7

\* Device d is s from now on, held by one file or none, as it says.
HeldAs(d, s) ==
    /\ \A f, g \in Holders(d)' : f = g
    /\ s.open_count = IF Holders(d)' = {} THEN 0 ELSE 1
    /\ Holders(d)' = {} => ~s.interrupt_in /\ ~s.interrupt_out

\* The device is kept.
LEMMA KeptOK ==
    ASSUME TowerInv, NEW d \in Devs, memory[d] = "live", tower[d].sem = Free,
           NEW s \in Structure, tower' = [tower EXCEPT ![d] = s], s.minor = tower[d].minor, s.sem = Free,
           UNCHANGED <<minor_table, memory>>, Unlocks(d), StreamsBut(d), HeldAs(d, s),
           Complete(got'[d] \o s.read_buffer, came'[d], dropped'[d]), Len(s.read_buffer) < 4 * Packet
    PROVE  TowerInv'
<1> USE DEF TowerInv
<1>1. \A e \in Devs : tower'[e] = IF e = d THEN s ELSE tower[e]
  BY DEF Types
<1>2. Types'
  BY DEF Types, Unlocks, StreamsBut, OpenFile
<1>3. TableLocked' /\ DeviceLocked'
  <2>1. SemaphoresStay
    BY <1>1 DEF SemaphoresStay
  <2>2. QED
    BY <2>1, UnlocksOK
<1>4. Counts'
  <2>1. \A e \in Devs : e # d => Holders(e)' = Holders(e)
    BY HoldersStay
  <2>2. \A e \in Devs : tower'[e].minor = tower[e].minor
    BY <1>1
  <2>3. ASSUME NEW m \in Minors, minor_table[m] # Null
        PROVE  memory[minor_table[m]] = "live" /\ tower'[minor_table[m]].minor = m
    BY <2>2, <2>3 DEF Counts, Types
  <2>4. ASSUME NEW e \in Devs, e # d
        PROVE  /\ memory[e] # "live" => tower'[e] = Fresh(0)
               /\ memory[e] = "live" =>
                    /\ \A f, g \in Holders(e)' : f = g
                    /\ tower'[e].open_count = IF Holders(e)' = {} THEN 0 ELSE 1
                    /\ minor_table[tower'[e].minor] = e
                    /\ Holders(e)' = {} => ~tower'[e].interrupt_in /\ ~tower'[e].interrupt_out
               /\ memory[e] = "unused" => Holders(e)' = {}
    BY <1>1, <2>1, <2>4 DEF Counts
  <2>5. minor_table[tower'[d].minor] = d /\ tower'[d] = s
    BY <1>1, <2>2 DEF Counts
  <2>6. QED
    BY <2>3, <2>4, <2>5 DEF Counts, HeldAs
<1>5. Streams'
  <2>1. ASSUME NEW e \in Devs, e # d
        PROVE  Stream(e)' = Stream(e) /\ tower'[e] = tower[e]
    BY <1>1, <2>1 DEF Stream, StreamsBut
  <2>2. Stream(d)' = got'[d] \o s.read_buffer /\ tower'[d] = s
    BY <1>1 DEF Stream
  <2>3. QED
    BY <2>1, <2>2 DEF Streams, StreamsBut
<1>6. QED
  BY <1>2, <1>3, <1>4, <1>5

-----------------------------------------------------------------------------
(* Opens and releases. *)

\* Nothing came: nothing is there to be read.
LEMMA NothingCame ==
    ASSUME NEW c, NEW D, NEW S, c = 0, D = {}, S = <<>>
    PROVE  Complete(S, c, D)
BY DEF Complete, Increasing, Bytes

\* Who has the device once file f has raised the mutex.
LEMMA HoldersAfter ==
    ASSUME TowerInv, NEW d \in Devs, NEW f \in Files, Unlocks(d), minor_table_mutex = f
    PROVE  Holders(d)' = IF files'[f] = Closed THEN Holders(d) \ {f} ELSE Holders(d) \cup {f}
<1>1. \A g \in Files : g # f => files'[g] = files[g]
  BY DEF Unlocks
<1>2. files'[f] \in {Closed, [pc |-> "open", private_data |-> d]}
  BY DEF Unlocks
<1>3. f \in Holders(d)' <=> files'[f] # Closed
  BY <1>2 DEF Holders, Closed
<1>4. \A g \in Files : g # f => (g \in Holders(d)' <=> g \in Holders(d))
  BY <1>1 DEF Holders
<1>5. Holders(d)' \subseteq Files /\ Holders(d) \subseteq Files
  BY DEF Holders
<1>6. QED
  BY <1>3, <1>4, <1>5

\* A file that holds the mutex came for a device; it may raise it.
LEMMA Unlocking ==
    ASSUME TowerInv, NEW f \in Files, files[f].pc \in {"opening", "releasing"},
           NEW d \in Devs, files[f].private_data = d,
           NEW r \in {Closed, [pc |-> "open", private_data |-> d]},
           minor_table_mutex' = Free, files' = [files EXCEPT ![f] = r], UNCHANGED <<threads, hub>>
    PROVE  minor_table_mutex = f /\ files'[f] = r /\ Unlocks(d)
<1>1. minor_table_mutex = f /\ files'[f] = r
  BY DEF TowerInv, Types, TableLocked
<1>2. hub' = Null
  BY <1>1, TowerAssumption DEF TowerInv, TableLocked
<1>3. files' \in [Files -> OpenFile]
  BY <1>1 DEF TowerInv, Types, OpenFile, Closed
<1>4. QED
  BY <1>1, <1>2, <1>3, TowerAssumption DEF Unlocks, TowerInv, Types

\* A file that opens or releases has a device.
LEMMA FileHasDevice ==
    ASSUME TowerInv, NEW f \in Files, files[f].pc # "closed"
    PROVE  \E d \in Devs : files[f].private_data = d
BY DEF TowerInv, Types, TableLocked

\* What an open forgets.
LEMMA Emptied ==
    ASSUME NEW s \in Structure
    PROVE  LET e == [s EXCEPT !.read_buffer = <<>>] IN
           /\ e \in Structure /\ e.read_buffer = <<>> /\ e.udev = s.udev
           /\ e.open_count = s.open_count /\ e.minor = s.minor /\ e.sem = s.sem
<1>1. <<>> \in Seq(Nat)
  OBVIOUS
<1>2. QED
  BY <1>1 DEF Structure

\* tower_release_internal() for the last file of a device that is plugged.
LEMMA ReleasesLast ==
    ASSUME NEW d \in Devs, NEW s \in Structure, tower_release_internal(d, s), s.udev
    PROVE  \E r \in Structure :
              /\ tower' = [tower EXCEPT ![d] = r] /\ UNCHANGED <<minor_table, memory>>
              /\ r.open_count = 0 /\ ~r.interrupt_in /\ ~r.interrupt_out
              /\ r.read_buffer = s.read_buffer /\ r.minor = s.minor /\ r.sem = s.sem
<1> DEFINE r == tower_abort_transfers([s EXCEPT !.open_count = 0])
<1>1. s.open_count <= 1
  BY DEF Structure
<1>2. tower' = [tower EXCEPT ![d] = r] /\ UNCHANGED <<minor_table, memory>>
  BY <1>1, Zenon DEF tower_release_internal
<1>3. r \in Structure /\ r.open_count = 0 /\ ~r.interrupt_in /\ ~r.interrupt_out
  <2>1. [s EXCEPT !.open_count = 0] \in Structure /\ [s EXCEPT !.open_count = 0].open_count = 0
    BY DEF Structure
  <2>2. QED
    BY <2>1 DEF Structure, tower_abort_transfers
<1>4. r.read_buffer = s.read_buffer /\ r.minor = s.minor /\ r.sem = s.sem
  BY DEF Structure, tower_abort_transfers
<1> HIDE DEF r
<1>5. QED
  BY <1>2, <1>3, <1>4

\* The count of tower_open(), and what a refused open puts back.
LEMMA CountedIsOne ==
    ASSUME NEW s \in Structure
    PROVE  /\ Busy(Counted(s)) <=> s.open_count = 1
           /\ Counted(s).udev = s.udev
           /\ s.open_count = 1 =>
                 Counted(s).open_count = 2 /\ [Counted(s) EXCEPT !.open_count = @ - 1] = s
           /\ s.open_count = 0 => Counted(s) \in Structure /\ Counted(s).open_count = 1
           /\ Counted(s).minor = s.minor /\ Counted(s).sem = s.sem
<1> DEFINE S2 == [udev : BOOLEAN, minor : Minors, open_count : 0..2, sem : Threads \cup {Free, Lost},
                  read_buffer : Seq(Nat), interrupt_in : BOOLEAN, interrupt_out : BOOLEAN,
                  read_timeout : TimeoutValues, write_timeout : TimeoutValues]
           back  == [Counted(s) EXCEPT !.open_count = @ - 1]
<1>1. s.open_count \in 0..1 /\ s \in S2
  BY DEF Structure
<1>2. Counted(s) \in S2
  <2>1. [s EXCEPT !.open_count = @ + 1] \in S2
    BY <1>1 DEF Structure
  <2>2. /\ (IF s.open_count = 0 THEN 0 ELSE s.read_timeout) \in TimeoutValues
        /\ (IF s.open_count = 0 THEN 1 ELSE s.write_timeout) \in TimeoutValues
    BY DEF Structure, TimeoutValues
  <2>3. QED
    BY <2>1, <2>2 DEF Counted
<1>3. /\ Counted(s).open_count = s.open_count + 1
      /\ Counted(s).udev = s.udev /\ Counted(s).minor = s.minor /\ Counted(s).sem = s.sem
  BY DEF Structure, Counted
<1>4. ASSUME s.open_count = 1
      PROVE  Counted(s) = [s EXCEPT !.open_count = 2]
  <2>1. /\ Counted(s).read_buffer = s.read_buffer
        /\ Counted(s).interrupt_in = s.interrupt_in /\ Counted(s).interrupt_out = s.interrupt_out
        /\ Counted(s).read_timeout = s.read_timeout /\ Counted(s).write_timeout = s.write_timeout
    BY <1>4 DEF Structure, Counted
  <2>2. [s EXCEPT !.open_count = 2] \in S2
    BY DEF Structure
  <2>3. QED
    BY <1>2, <1>3, <1>4, <2>1, <2>2
<1>5. ASSUME s.open_count = 1
      PROVE  back = s
  BY <1>1, <1>4, <1>5
<1>6. ASSUME s.open_count = 0
      PROVE  Counted(s) \in Structure
  BY <1>2, <1>3, <1>6 DEF Structure
<1>7. QED
  BY <1>1, <1>3, <1>5, <1>6 DEF Busy

\* tower_open() with both locks: refused or not, and plugged or not.
LEMMA OpenDeviceOK ==
    ASSUME TowerInv, NEW f \in Files, OpenDevice(f)
    PROVE  TowerInv'
<1>0. PICK d \in Devs : files[f].private_data = d
  BY FileHasDevice DEF OpenDevice
<1> DEFINE s   == tower[d]
           dev == Counted(s)
<1>1. files[f].pc = "opening" /\ s.sem = Free /\ minor_table_mutex' = Free /\ UNCHANGED <<threads, hub>>
  BY <1>0 DEF OpenDevice
<1>2. memory[d] = "live" /\ minor_table_mutex = f
  BY <1>0, <1>1 DEF TowerInv, TableLocked
<1>3. s \in Structure
  BY <1>2 DEF TowerInv, Types
<1>4. /\ Busy(dev) <=> s.open_count = 1
      /\ dev.udev = s.udev
      /\ s.open_count = 1 => dev.open_count = 2 /\ [dev EXCEPT !.open_count = @ - 1] = s
      /\ s.open_count = 0 => dev \in Structure /\ dev.open_count = 1
      /\ dev.minor = s.minor /\ dev.sem = s.sem
  BY <1>3, CountedIsOne
<1>5. f \notin Holders(d)
  BY <1>1 DEF Holders
<1>6. s.open_count = IF Holders(d) = {} THEN 0 ELSE 1
  BY <1>2 DEF TowerInv, Counts
<1>7. \A g, h \in Holders(d) : g = h
  BY <1>2 DEF TowerInv, Counts
<1>8. came \in [Devs -> Nat] /\ got \in [Devs -> Seq(Nat)] /\ dropped \in [Devs -> SUBSET Nat]
  BY DEF TowerInv, Types
<1>9. CASE /\ Busy(dev) /\ tower_release_internal(d, dev)
           /\ files' = [files EXCEPT ![f] = Closed] /\ UNCHANGED stream
  <2>1. Unlocks(d) /\ files'[f] = Closed
    BY <1>0, <1>1, <1>9, Unlocking
  <2>2. StreamsBut(d)
    BY <1>8, <1>9 DEF stream, StreamsBut
  <2>3. CASE ~s.udev
    <3>1. tower_delete(d)
      BY <1>4, <1>9, <2>3 DEF tower_release_internal
    <3>2. QED
      BY <1>1, <1>2, <2>1, <2>2, <3>1, DeletedOK
  <2>4. CASE s.udev
    <3>1. tower' = [tower EXCEPT ![d] = s] /\ UNCHANGED <<minor_table, memory>>
      BY <1>4, <1>9, <2>4 DEF tower_release_internal
    <3>2. Holders(d)' = Holders(d)
      BY <1>2, <1>5, <2>1, HoldersAfter
    <3>3. HeldAs(d, s)
      BY <1>2, <3>2 DEF HeldAs, TowerInv, Counts
    <3>4. Complete(got'[d] \o s.read_buffer, came'[d], dropped'[d]) /\ Len(s.read_buffer) < 4 * Packet
      BY <1>2, <1>9 DEF TowerInv, Streams, Stream, stream
    <3>5. QED
      BY <1>1, <1>2, <1>3, <2>1, <2>2, <3>1, <3>3, <3>4, KeptOK
  <2>5. QED
    BY <2>3, <2>4
<1>10. ASSUME came' = [came EXCEPT ![d] = 0], got' = [got EXCEPT ![d] = <<>>],
              dropped' = [dropped EXCEPT ![d] = {}], NEW r \in Structure, r.read_buffer = <<>>
       PROVE  /\ StreamsBut(d) /\ Complete(got'[d] \o r.read_buffer, came'[d], dropped'[d])
              /\ Len(r.read_buffer) < 4 * Packet
  <2>1. came'[d] = 0 /\ got'[d] = <<>> /\ dropped'[d] = {}
    BY <1>2, <1>8, <1>10
  <2>2. got'[d] \o r.read_buffer = <<>> /\ Len(r.read_buffer) = 0
    BY <1>10, <2>1
  <2>3. StreamsBut(d)
    BY <1>2, <1>8, <1>10 DEF StreamsBut
  <2>4. QED
    BY <2>1, <2>2, <2>3, NothingCame, TowerAssumption
<1>11. CASE /\ ~Busy(dev) /\ tower_release_internal(d, [dev EXCEPT !.read_buffer = <<>>])
            /\ files' = [files EXCEPT ![f] = Closed]
            /\ came' = [came EXCEPT ![d] = 0] /\ got' = [got EXCEPT ![d] = <<>>]
            /\ dropped' = [dropped EXCEPT ![d] = {}]
  <2> DEFINE e == [dev EXCEPT !.read_buffer = <<>>]
  <2>1. Unlocks(d) /\ files'[f] = Closed
    BY <1>0, <1>1, <1>11, Unlocking
  <2>2. dev \in Structure /\ dev.open_count = 1 /\ Holders(d) = {}
    BY <1>4, <1>6, <1>11
  <2>3. /\ e \in Structure /\ e.read_buffer = <<>> /\ e.udev = s.udev
        /\ e.minor = s.minor /\ e.sem = Free
    BY <1>1, <1>4, <2>2, Emptied
  <2>4. tower_release_internal(d, e)
    BY <1>11
  <2> HIDE DEF e
  <2>5. CASE ~s.udev
    <3>1. tower_delete(d)
      BY <2>3, <2>4, <2>5 DEF tower_release_internal
    <3>2. StreamsBut(d)
      BY <1>10, <1>11, <2>3
    <3>3. QED
      BY <1>1, <1>2, <2>1, <3>1, <3>2, DeletedOK
  <2>6. CASE s.udev
    <3>1. PICK r \in Structure :
              /\ tower' = [tower EXCEPT ![d] = r] /\ UNCHANGED <<minor_table, memory>>
              /\ r.open_count = 0 /\ ~r.interrupt_in /\ ~r.interrupt_out
              /\ r.read_buffer = e.read_buffer /\ r.minor = e.minor /\ r.sem = e.sem
      BY <2>3, <2>4, <2>6, ReleasesLast
    <3>2. Holders(d)' = {}
      BY <1>2, <2>1, <2>2, HoldersAfter
    <3>3. HeldAs(d, r)
      BY <3>1, <3>2 DEF HeldAs
    <3>4. StreamsBut(d) /\ Complete(got'[d] \o r.read_buffer, came'[d], dropped'[d])
          /\ Len(r.read_buffer) < 4 * Packet
      BY <1>10, <1>11, <2>3, <3>1
    <3>5. QED
      BY <1>1, <1>2, <2>1, <2>3, <3>1, <3>3, <3>4, KeptOK
  <2>7. QED
    BY <2>5, <2>6
<1>12. CASE /\ ~Busy(dev)
            /\ tower' = [tower EXCEPT ![d] = [dev EXCEPT !.read_buffer = <<>>, !.interrupt_in = TRUE]]
            /\ files' = [files EXCEPT ![f].pc = "open"]
            /\ came' = [came EXCEPT ![d] = 0] /\ got' = [got EXCEPT ![d] = <<>>]
            /\ dropped' = [dropped EXCEPT ![d] = {}] /\ UNCHANGED <<minor_table, memory>>
  <2> DEFINE r == [dev EXCEPT !.read_buffer = <<>>, !.interrupt_in = TRUE]
  <2>1. Unlocks(d) /\ files'[f] # Closed
    <3> DEFINE o == [pc |-> "open", private_data |-> d]
    <3>1. [files[f] EXCEPT !.pc = "open"] = o
      BY <1>0 DEF TowerInv, Types
    <3>2. files' = [files EXCEPT ![f] = o]
      BY <1>12, <3>1
    <3>3. o # Closed
      BY DEF Closed
    <3>4. o \in {Closed, [pc |-> "open", private_data |-> d]}
      OBVIOUS
    <3> HIDE DEF o
    <3>5. QED
      BY <1>0, <1>1, <3>2, <3>3, <3>4, Unlocking
  <2>2. dev \in Structure /\ dev.open_count = 1 /\ Holders(d) = {}
    BY <1>4, <1>6, <1>12
  <2>3. r \in Structure /\ r.read_buffer = <<>> /\ r.open_count = 1 /\ r.minor = dev.minor /\ r.sem = dev.sem
    <3>1. <<>> \in Seq(Nat)
      OBVIOUS
    <3>2. QED
      BY <2>2, <3>1 DEF Structure
  <2>4. Holders(d)' = {f}
    BY <1>2, <2>1, <2>2, HoldersAfter
  <2>5. tower' = [tower EXCEPT ![d] = r]
    BY <1>12
  <2> HIDE DEF r
  <2>6. HeldAs(d, r)
    BY <2>3, <2>4 DEF HeldAs
  <2>7. StreamsBut(d) /\ Complete(got'[d] \o r.read_buffer, came'[d], dropped'[d])
        /\ Len(r.read_buffer) < 4 * Packet
    BY <1>10, <1>12, <2>3
  <2>8. r.minor = s.minor /\ r.sem = Free
    BY <1>1, <1>4, <2>3
  <2>9. QED
    BY <1>1, <1>2, <1>12, <2>1, <2>3, <2>5, <2>6, <2>7, <2>8, KeptOK
<1>13. QED
  BY <1>0, <1>9, <1>11, <1>12 DEF OpenDevice, Closed, Forgets

\* tower_release() with both locks.
LEMMA ReleaseDeviceOK ==
    ASSUME TowerInv, NEW f \in Files, ReleaseDevice(f)
    PROVE  TowerInv'
<1>0. PICK d \in Devs : files[f].private_data = d
  BY FileHasDevice DEF ReleaseDevice
<1> DEFINE s == tower[d]
<1>1. CASE memory[d] = "gone"
  BY <1>0, <1>1, NothingMoves DEF ReleaseDevice, Fails
<1>2. CASE memory[d] # "gone"
  <2>1. /\ files[f].pc = "releasing" /\ s.sem = Free /\ minor_table_mutex' = Free
        /\ files' = [files EXCEPT ![f] = Closed] /\ UNCHANGED <<stream, threads, hub>>
        /\ IF s.open_count <= 0 THEN UNCHANGED <<tower, minor_table, memory>>
                                ELSE tower_release_internal(d, s)
    BY <1>0, <1>2 DEF ReleaseDevice, Closed
  <2>2. f \in Holders(d)
    BY <1>0, <2>1 DEF Holders
  <2>3. memory[d] = "live"
    BY <1>2, <2>2 DEF TowerInv, Types, Counts
  <2>4. s \in Structure /\ s.open_count = 1 /\ \A g \in Holders(d) : g = f
    BY <2>2, <2>3 DEF TowerInv, Types, Counts
  <2>5. minor_table_mutex = f /\ files'[f] = Closed /\ Unlocks(d)
    BY <1>0, <2>1, Unlocking
  <2>6. tower_release_internal(d, s)
    BY <2>1, <2>4
  <2>7. StreamsBut(d)
    BY <2>1 DEF TowerInv, Types, StreamsBut, stream
  <2>8. CASE ~s.udev
    <3>1. tower_delete(d)
      BY <2>6, <2>8 DEF tower_release_internal
    <3>2. QED
      BY <2>1, <2>3, <2>5, <2>7, <3>1, DeletedOK
  <2>9. CASE s.udev
    <3>1. PICK r \in Structure :
              /\ tower' = [tower EXCEPT ![d] = r] /\ UNCHANGED <<minor_table, memory>>
              /\ r.open_count = 0 /\ ~r.interrupt_in /\ ~r.interrupt_out
              /\ r.read_buffer = s.read_buffer /\ r.minor = s.minor /\ r.sem = s.sem
      BY <2>4, <2>6, <2>9, ReleasesLast
    <3>2. Holders(d)' = {}
      BY <2>4, <2>5, HoldersAfter
    <3>3. HeldAs(d, r)
      BY <3>1, <3>2 DEF HeldAs
    <3>4. Complete(got'[d] \o r.read_buffer, came'[d], dropped'[d]) /\ Len(r.read_buffer) < 4 * Packet
      BY <2>1, <2>3, <3>1 DEF TowerInv, Streams, Stream, stream
    <3>5. QED
      BY <2>1, <2>3, <2>5, <2>7, <3>1, <3>3, <3>4, KeptOK
  <2>10. QED
    BY <2>8, <2>9
<1>3. QED
  BY <1>1, <1>2

\* The first half of an open, a release or a disconnect takes the mutex.
LEMMA LocksOK ==
    ASSUME TowerInv, NEW f \in Files, OpenLocks(f) \/ ReleaseLocks(f)
    PROVE  TowerInv'
<1> USE DEF TowerInv
<1>1. /\ minor_table_mutex = Free /\ minor_table_mutex' = f
      /\ UNCHANGED <<minor_table, memory, tower, stream, threads, hub>>
  BY DEF OpenLocks, ReleaseLocks
<1>2. PICK d \in Devs :
         \/ /\ files[f].pc = "closed" /\ memory[d] = "live"
            /\ files' = [files EXCEPT ![f] = [pc |-> "opening", private_data |-> d]]
         \/ /\ files[f].pc = "open" /\ files[f].private_data = d
            /\ \A t \in Threads : FileOf[t] = f => threads[t].pc = "user"
            /\ files' = [files EXCEPT ![f] = [pc |-> "releasing", private_data |-> d]]
  <2>1. CASE OpenLocks(f)
    <3>1. PICK m \in Minors :
             /\ minor_table[m] # Null
             /\ files' = [files EXCEPT ![f] = [pc |-> "opening", private_data |-> minor_table[m]]]
      BY <2>1 DEF OpenLocks
    <3>2. minor_table[m] \in Devs /\ memory[minor_table[m]] = "live"
      BY <3>1 DEF Types, Counts
    <3>3. QED
      BY <2>1, <3>1, <3>2 DEF OpenLocks
  <2>2. CASE ReleaseLocks(f)
    <3>1. PICK d \in Devs : files[f].private_data = d
      BY <2>2, FileHasDevice DEF ReleaseLocks
    <3>2. [files[f] EXCEPT !.pc = "releasing"] = [pc |-> "releasing", private_data |-> d]
      BY <3>1 DEF Types
    <3>3. QED
      BY <2>2, <3>1, <3>2 DEF ReleaseLocks
  <2>3. QED
    BY <2>1, <2>2
<1>3. PICK r \in OpenFile :
         /\ files' = [files EXCEPT ![f] = r] /\ r.pc \in {"opening", "releasing"} /\ r.private_data = d
         /\ r.pc = "opening" => memory[d] = "live" /\ files[f].pc = "closed"
         /\ r.pc = "releasing" => files[f].pc = "open" /\ files[f].private_data = d
  <2>1. \A pc \in {"opening", "releasing"} :
            LET r == [pc |-> pc, private_data |-> d]
            IN r \in OpenFile /\ r.pc = pc /\ r.private_data = d
    BY DEF OpenFile
  <2>2. QED
    BY <1>2, <2>1
<1>4. \A g \in Files : files'[g] = IF g = f THEN r ELSE files[g]
  BY <1>3 DEF Types
<1>5. Types'
  BY <1>1, <1>3 DEF Types, OpenFile, stream
<1>6. TableLocked'
  <2>1. ASSUME NEW g \in Files, g # f
        PROVE  /\ files'[g].pc \notin {"opening", "releasing"}
               /\ files'[g].pc = "closed" <=> files'[g].private_data = Null
    BY <1>1, <1>4, <2>1, TowerAssumption DEF TableLocked
  <2>2. hub = Null
    BY <1>1 DEF TableLocked, Free, Hub
  <2>3. d # Null
    BY DEF Null, Devs
  <2>4. f # Hub
    BY TowerAssumption
  <2>5. QED
    BY <1>1, <1>3, <1>4, <2>1, <2>2, <2>3, <2>4 DEF TableLocked
<1>7. DeviceLocked'
  <2>1. ASSUME NEW t \in Threads, FileOf[t] = f
        PROVE  threads[t].pc = "user"
    BY <1>2, <2>1 DEF DeviceLocked
  <2>2. ASSUME NEW t \in Threads, threads[t].pc # "user"
        PROVE  files'[FileOf[t]] = files[FileOf[t]]
    BY <1>4, <2>1, <2>2, TowerAssumption
  <2>3. ASSUME NEW t \in Threads, NEW e \in Devs
        PROVE  /\ threads'[t].pc # "user" => files'[FileOf[t]].pc = "open"
               /\ tower'[e].sem = t <=> threads'[t].pc \in {"writeloop", "control"} /\ Dev(t)' = e
    <3>1. CASE threads[t].pc = "user"
      BY <1>1, <3>1 DEF DeviceLocked
    <3>2. CASE threads[t].pc # "user"
      BY <1>1, <2>2, <3>2 DEF DeviceLocked, Dev
    <3>3. QED
      BY <3>1, <3>2
  <2>4. QED
    BY <2>3 DEF DeviceLocked
<1>8. Counts'
  <2>1. ASSUME NEW e \in Devs
        PROVE  Holders(e)' = Holders(e)
    <3>1. ASSUME NEW g \in Files
          PROVE  g \in Holders(e)' <=> g \in Holders(e)
      BY <1>3, <1>4 DEF Holders
    <3>2. QED
      BY <3>1 DEF Holders
  <2>2. QED
    BY <1>1, <2>1 DEF Counts
<1>9. Streams'
  BY <1>1 DEF Streams, Stream, stream
<1>10. QED
  BY <1>5, <1>6, <1>7, <1>8, <1>9

\* So whatever a file does.
LEMMA FileStepOK ==
    ASSUME TowerInv, NEW f \in Files, FileStep(f)
    PROVE  TowerInv'
BY OpenDeviceOK, ReleaseDeviceOK, LocksOK DEF FileStep

-----------------------------------------------------------------------------
(* Devices come and go. *)

\* tower_disconnect() takes the mutex.
LEMMA DisconnectLocksOK ==
    ASSUME TowerInv, NEW d \in Devs, DisconnectLocks(d)
    PROVE  TowerInv'
<1> USE DEF TowerInv, DisconnectLocks
<1>1. Types'
  BY DEF Types, stream
<1>2. TableLocked'
  <2>1. d # Null /\ Hub \notin Files /\ Free \notin Files
    BY TowerAssumption DEF Null, Devs
  <2>2. QED
    BY <2>1 DEF TableLocked
<1>3. DeviceLocked' /\ Counts' /\ Streams'
  BY DEF DeviceLocked, Dev, Counts, Holders, Streams, Stream, stream
<1>4. QED
  BY <1>1, <1>2, <1>3

\* tower_disconnect() with both locks: the device is deleted, or its last file
\* will do it.
LEMMA DisconnectOK ==
    ASSUME TowerInv, NEW d \in Devs, tower_disconnect(d)
    PROVE  TowerInv'
<1> USE DEF TowerInv
<1> DEFINE s == tower[d]
           r == [s EXCEPT !.udev = FALSE]
<1>1. /\ s.sem = Free /\ hub = d /\ minor_table_mutex' = Free /\ hub' = Null
      /\ UNCHANGED <<stream, files, threads>>
  BY DEF tower_disconnect
<1>2. memory[d] = "live" /\ minor_table_mutex = Hub
  BY <1>1 DEF TableLocked, Null, Devs
<1>3. Unlocks(d)
  BY <1>1, <1>2, TowerAssumption DEF Unlocks, Types, OpenFile, Free, Hub
<1>4. StreamsBut(d)
  BY <1>1 DEF Types, StreamsBut, stream
<1>5. CASE s.open_count = 0
  BY <1>1, <1>2, <1>3, <1>4, <1>5, DeletedOK DEF tower_disconnect
<1>6. CASE s.open_count # 0
  <2>1. tower' = [tower EXCEPT ![d] = r] /\ UNCHANGED <<minor_table, memory>>
    BY <1>6 DEF tower_disconnect
  <2>2. s \in Structure
    BY DEF Types
  <2>3. /\ r \in Structure /\ r.open_count = s.open_count /\ r.minor = s.minor /\ r.sem = s.sem
        /\ r.read_buffer = s.read_buffer /\ r.interrupt_in = s.interrupt_in
        /\ r.interrupt_out = s.interrupt_out
    BY <2>2 DEF Structure
  <2>4. Holders(d)' = Holders(d)
    BY <1>1 DEF Holders
  <2> HIDE DEF r
  <2>5. HeldAs(d, r)
    BY <1>2, <2>3, <2>4 DEF HeldAs, Counts
  <2>6. Complete(got'[d] \o r.read_buffer, came'[d], dropped'[d]) /\ Len(r.read_buffer) < 4 * Packet
    BY <1>1, <1>2, <2>3 DEF Streams, Stream, stream
  <2>7. QED
    BY <1>1, <1>2, <1>3, <1>4, <2>1, <2>3, <2>5, <2>6, KeptOK
<1>7. QED
  BY <1>5, <1>6

\* tower_probe(): a new structure gets the first free minor, or is leaked.
LEMMA ProbeOK ==
    ASSUME TowerInv, NEW d \in Devs, tower_probe(d)
    PROVE  TowerInv'
<1> USE DEF TowerInv
<1> DEFINE m == Min(FreeMinors)
<1>1. memory[d] = "unused" /\ hub = Null /\ minor_table_mutex = Free
  BY DEF tower_probe
<1>2. CASE FreeMinors = {}
  BY <1>2, NothingMoves DEF tower_probe, Fails
<1>3. CASE FreeMinors # {}
  <2>0. m \in Minors /\ minor_table[m] = Null
    BY <1>3, MinorIsFree DEF FreeMinors
  <2>1. /\ \/ /\ memory' = [memory EXCEPT ![d] = "live"]
              /\ minor_table' = [minor_table EXCEPT ![m] = d]
              /\ tower' = [tower EXCEPT ![d] = Fresh(m)]
           \/ memory' = [memory EXCEPT ![d] = "gone"] /\ UNCHANGED <<minor_table, tower>>
        /\ UNCHANGED <<minor_table_mutex, stream, files, threads, hub>>
    BY <1>3 DEF tower_probe
  <2> HIDE DEF m
  <2>2. tower[d] = Fresh(0) /\ Holders(d) = {}
    BY <1>1 DEF Counts
  <2>3. /\ Fresh(0) \in Structure /\ Fresh(m) \in Structure /\ Fresh(m).minor = m
        /\ Fresh(m).sem = Free /\ Fresh(0).sem = Free /\ Fresh(m).open_count = 0
        /\ Fresh(m).read_buffer = <<>> /\ ~Fresh(m).interrupt_in /\ ~Fresh(m).interrupt_out
    BY <2>0, FreshStructure
  <2>4. Types'
    <3>1. minor_table' \in [Minors -> Devs \cup {Null}]
      <4>1. minor_table \in [Minors -> Devs \cup {Null}]
        BY DEF Types
      <4>2. [minor_table EXCEPT ![m] = d] \in [Minors -> Devs \cup {Null}]
        BY <4>1
      <4>3. QED
        BY <2>1, <4>1, <4>2
    <3>2. memory' \in [Devs -> {"unused", "live", "gone"}]
      BY <2>1 DEF Types
    <3>3. tower' \in [Devs -> Structure]
      BY <2>1, <2>3 DEF Types
    <3>4. QED
      BY <2>1, <3>1, <3>2, <3>3 DEF Types, stream
  <2>5. \A e \in Devs : e # d => memory'[e] = memory[e] /\ tower'[e] = tower[e]
    BY <2>1 DEF Types
  <2>6. \/ memory'[d] = "live" /\ tower'[d] = Fresh(m)
           /\ minor_table' = [minor_table EXCEPT ![m] = d]
        \/ memory'[d] = "gone" /\ tower'[d] = Fresh(0) /\ UNCHANGED minor_table
    BY <2>1, <2>2 DEF Types
  <2>7. TableLocked'
    BY <1>1, <2>1, <2>5 DEF TableLocked, Types
  <2>8. DeviceLocked'
    <3>1. \A t \in Threads, e \in Devs : tower'[e].sem = t <=> tower[e].sem = t
      BY <2>2, <2>3, <2>5, <2>6
    <3>2. QED
      BY <2>1, <3>1 DEF DeviceLocked, Dev
  <2>9. Counts'
    <3>1. \A e \in Devs : Holders(e)' = Holders(e)
      BY <2>1 DEF Holders
    <3>2. ASSUME NEW e \in Devs, memory'[e] = "live"
          PROVE  minor_table'[tower'[e].minor] = e
      <4>1. CASE e = d
        BY <2>0, <2>3, <2>6, <3>2, <4>1 DEF Types
      <4>2. CASE e # d
        <5>1. minor_table[tower[e].minor] = e /\ tower[e].minor \in Minors
          BY <2>5, <3>2, <4>2 DEF Counts, Types, Structure
        <5>2. tower[e].minor # m
          BY <2>0, <5>1 DEF Null, Devs
        <5>3. QED
          BY <2>5, <2>6, <4>2, <5>1, <5>2 DEF Types
      <4>3. QED
        BY <4>1, <4>2
    <3>3. ASSUME NEW n \in Minors, minor_table'[n] # Null
          PROVE  memory'[minor_table'[n]] = "live" /\ tower'[minor_table'[n]].minor = n
      <4>1. CASE n = m /\ minor_table' = [minor_table EXCEPT ![m] = d]
        <5>1. minor_table'[n] = d
          BY <2>0, <4>1 DEF Types
        <5>2. memory'[d] = "live" /\ tower'[d] = Fresh(m)
          <6>1. d # Null
            BY DEF Null, Devs
          <6>2. QED
            BY <2>0, <2>6, <4>1, <5>1, <6>1
        <5>3. QED
          BY <2>3, <4>1, <5>1, <5>2
      <4>2. CASE minor_table'[n] = minor_table[n]
        <5>1. /\ minor_table[n] \in Devs /\ memory[minor_table[n]] = "live"
              /\ tower[minor_table[n]].minor = n
          BY <3>3, <4>2 DEF Types, Counts
        <5>2. QED
          BY <1>1, <2>5, <4>2, <5>1
      <4>3. QED
        BY <2>0, <2>6, <4>1, <4>2 DEF Types
    <3>4. ASSUME NEW e \in Devs
          PROVE  /\ memory'[e] # "live" => tower'[e] = Fresh(0)
                 /\ memory'[e] = "live" =>
                      /\ \A f, g \in Holders(e) : f = g
                      /\ tower'[e].open_count = IF Holders(e) = {} THEN 0 ELSE 1
                      /\ Holders(e) = {} => ~tower'[e].interrupt_in /\ ~tower'[e].interrupt_out
                 /\ memory'[e] = "unused" => Holders(e) = {}
      <4>1. CASE e = d
        BY <2>2, <2>3, <2>6, <4>1
      <4>2. CASE e # d
        BY <2>5, <4>2 DEF Counts
      <4>3. QED
        BY <4>1, <4>2
    <3>5. QED
      BY <3>1, <3>2, <3>3, <3>4 DEF Counts
  <2>10. Streams'
    <3>1. came'[d] = 0 /\ got'[d] = <<>> /\ dropped'[d] = {} /\ UNCHANGED <<came, got, dropped>>
      BY <1>1, <2>1 DEF Streams, stream
    <3>2. memory'[d] = "live" =>
            /\ Complete(Stream(d)', came'[d], dropped'[d]) /\ Len(tower'[d].read_buffer) < 4 * Packet
      <4>1. <<>> \o <<>> = <<>> /\ Len(<<>>) = 0
        OBVIOUS
      <4>2. tower'[d] = Fresh(m) => Stream(d)' = <<>> /\ Len(tower'[d].read_buffer) = 0
        BY <2>3, <3>1, <4>1 DEF Stream
      <4>3. QED
        BY <2>6, <3>1, <4>2, NothingCame, TowerAssumption
    <3>3. memory'[d] # "unused"
      BY <2>6
    <3>4. QED
      BY <2>5, <3>1, <3>2, <3>3 DEF Streams, Stream
  <2>11. QED
    BY <2>4, <2>7, <2>8, <2>9, <2>10
<1>4. QED
  BY <1>2, <1>3

\* So whatever the controller and the hub do.
LEMMA UsbStepOK ==
    ASSUME TowerInv, NEW d \in Devs, UsbStep(d)
    PROVE  TowerInv'
BY InCallbackOK, OutCallbackOK, ProbeOK, DisconnectLocksOK, DisconnectOK DEF UsbStep

-----------------------------------------------------------------------------
(* The theorems. *)

\* No device, no file, no call.
LEMMA InitOK == TowerInit => TowerInv
<1> SUFFICES ASSUME TowerInit PROVE TowerInv
  OBVIOUS
<1> USE DEF TowerInit
<1>1. /\ 0 \in Minors /\ Fresh(0) \in Structure /\ Fresh(0).sem = Free
      /\ ~Fresh(0).interrupt_in /\ ~Fresh(0).interrupt_out
  BY FreshStructure
<1>2. Idle \in InCall /\ Idle.pc = "user"
  BY IdleIsACall
<1>3. <<>> \in Seq(Nat)
  OBVIOUS
<1>4. Types
  BY <1>1, <1>2, <1>3 DEF Types, InCall
<1>5. TableLocked
  BY TowerAssumption DEF TableLocked, Free, Hub
<1>6. DeviceLocked
  BY <1>1, <1>2, TowerAssumption DEF DeviceLocked
<1>7. Counts
  BY DEF Counts, Holders, Null
<1>8. Streams
  BY DEF Streams
<1>9. QED
  BY <1>4, <1>5, <1>6, <1>7, <1>8 DEF TowerInv

\* Every step of a file, a thread, the controller or the hub keeps it.
LEMMA NextOK == TowerInv /\ [TowerNext]_towerVars => TowerInv'
<1> SUFFICES ASSUME TowerInv, [TowerNext]_towerVars PROVE TowerInv'
  OBVIOUS
<1>1. CASE UNCHANGED towerVars
  BY <1>1, NothingMoves DEF towerVars, table, stream
<1>2. CASE TowerNext
  BY <1>2, FileStepOK, ThreadStepOK, UsbStepOK DEF TowerNext
<1>3. QED
  BY <1>1, <1>2

\* The locks, the table, the files and the streams of bytes fit together,
\* whatever files, threads, hub and controller do (legousbtower.c).
THEOREM TowerInvariance == TowerSpec => []TowerInv
BY InitOK, NextOK, PTL DEF TowerSpec

\* Every structure, file and thread is as the driver lays it out, and a held
\* semaphore is that of a thread in the middle of a call.
THEOREM TowerTypesOK == TowerSpec => []TowerTypeOK
<1>1. ASSUME TowerInv PROVE TowerTypeOK
  <2>1. ASSUME NEW d \in Devs
        PROVE  /\ tower[d].open_count \in Nat /\ tower[d].minor \in Minors
               /\ tower[d].sem \in Threads \cup {Free, Lost}
               /\ Len(tower[d].read_buffer) < 4 * Packet
               /\ \A t \in Threads : tower[d].sem = t => threads[t].pc \in {"writeloop", "control"}
    <3>1. tower[d] \in Structure
      BY <1>1 DEF TowerInv, Types
    <3>2. Len(tower[d].read_buffer) < 4 * Packet
      <4>1. CASE memory[d] = "live"
        BY <1>1, <4>1 DEF TowerInv, Streams
      <4>2. CASE memory[d] # "live"
        <5>1. tower[d].read_buffer = <<>>
          BY <1>1, <4>2 DEF TowerInv, Counts, Fresh
        <5>2. QED
          BY <5>1, TowerAssumption
      <4>3. QED
        BY <4>1, <4>2
    <3>3. \A t \in Threads : tower[d].sem = t => threads[t].pc \in {"writeloop", "control"}
      BY <1>1 DEF TowerInv, DeviceLocked
    <3>4. QED
      BY <3>1, <3>2, <3>3 DEF Structure
  <2>2. QED
    BY <1>1, <2>1 DEF TowerInv, Types, TowerTypeOK
<1>2. QED
  BY <1>1, TowerInvariance, PTL

\* Inside the loop of tower_write() and in a control message, where threads sleep or let
\* others see the middle.
Inside(t) == threads[t].pc \in {"writeloop", "control"}

\* Threads that share a file are not inside together, nobody takes the device away or frees
\* it under the one that is, and no open, release or disconnect gets past its down().
AloneInside ==
    \A t \in Threads : Inside(t) =>
        /\ Dev(t) \in Devs /\ memory[Dev(t)] = "live" /\ tower[Dev(t)].sem = t
        /\ files[FileOf[t]].pc = "open"
        /\ \A s \in Threads : Inside(s) /\ Dev(s) = Dev(t) => s = t

\* The semaphore of a device keeps the long critical sections of the driver apart
\* (legousbtower.c), whatever is opened, plugged, signalled or lost in between.
THEOREM SemaphoresExclude == TowerSpec => []AloneInside
<1>1. ASSUME TowerInv PROVE AloneInside
  <2>1. SUFFICES ASSUME NEW t \in Threads, Inside(t)
                 PROVE  /\ Dev(t) \in Devs /\ memory[Dev(t)] = "live" /\ tower[Dev(t)].sem = t
                        /\ files[FileOf[t]].pc = "open"
                        /\ \A s \in Threads : Inside(s) /\ Dev(s) = Dev(t) => s = t
    BY DEF AloneInside
  <2>2. FileOf[t] \in Files /\ files[FileOf[t]].pc = "open"
    BY <1>1, <2>1, TowerAssumption DEF TowerInv, DeviceLocked, Inside
  <2>3. Dev(t) \in Devs
    BY <1>1, <2>2 DEF TowerInv, Types, TableLocked, Dev
  <2>4. tower[Dev(t)].sem = t
    BY <1>1, <2>1, <2>3 DEF TowerInv, DeviceLocked, Inside
  <2>5. memory[Dev(t)] = "live"
    <3>1. memory[Dev(t)] # "live" => tower[Dev(t)].sem = Free
      BY <1>1, <2>3 DEF TowerInv, Counts, Fresh
    <3>2. QED
      BY <2>4, <3>1, TowerAssumption
  <2>6. ASSUME NEW s \in Threads, Inside(s), Dev(s) = Dev(t)
        PROVE  s = t
    <3>1. tower[Dev(t)].sem = s
      BY <1>1, <2>3, <2>6 DEF TowerInv, DeviceLocked, Inside
    <3>2. QED
      BY <2>4, <3>1
  <2>7. QED
    BY <2>2, <2>3, <2>4, <2>5, <2>6
<1>2. QED
  BY <1>1, TowerInvariance, PTL

-----------------------------------------------------------------------------
\* The bytes in the hands of the readers.

Reading == {"readsleep", "readqueue", "readback"}

\* Each byte that was copied is with one call, or lost, or its caller has it.
Hands ==
    /\ held \in [Threads -> Seq(Nat)] /\ lost \in [Devs -> SUBSET Nat]
    /\ \A d \in Devs : lost[d] \subseteq Bytes(got[d])
    /\ \A t \in Threads :
          /\ threads[t].pc \notin Reading => held[t] = <<>>
          /\ Increasing(held[t])
          /\ Bytes(held[t]) \subseteq Bytes(got[Dev(t)]) \ lost[Dev(t)]
          /\ \A s \in Threads \ {t} :
                Dev(s) = Dev(t) => Bytes(held[s]) \cap Bytes(held[t]) = {}

\* Nothing in no bytes.
LEMMA NoBytes == Bytes(<<>>) = {} /\ Increasing(<<>>)
BY DEF Bytes, Increasing

\* The bytes of two stretches.
LEMMA BytesOfBoth ==
    ASSUME NEW a \in Seq(Nat), NEW b \in Seq(Nat)
    PROVE  Bytes(a \o b) = Bytes(a) \cup Bytes(b)
<1> DEFINE c == a \o b
<1>1. /\ c \in Seq(Nat) /\ Len(c) = Len(a) + Len(b) /\ Len(a) \in Nat /\ Len(b) \in Nat
      /\ \A i \in 1..Len(c) : c[i] = IF i <= Len(a) THEN a[i] ELSE b[i - Len(a)]
  BY ConcatProperties
<1>2. DOMAIN c = 1..Len(c) /\ DOMAIN a = 1..Len(a) /\ DOMAIN b = 1..Len(b)
  BY <1>1
<1> HIDE DEF c
<1>3. ASSUME NEW i \in DOMAIN c PROVE c[i] \in Bytes(a) \cup Bytes(b)
  <2>1. CASE i <= Len(a)
    BY <1>1, <1>2, <1>3, <2>1 DEF Bytes
  <2>2. CASE ~(i <= Len(a))
    <3>1. i - Len(a) \in DOMAIN b /\ c[i] = b[i - Len(a)]
      BY <1>1, <1>2, <1>3, <2>2
    <3>2. QED
      BY <3>1 DEF Bytes
  <2>3. QED
    BY <2>1, <2>2
<1>4. ASSUME NEW i \in DOMAIN a PROVE a[i] \in Bytes(c)
  <2>1. i \in DOMAIN c /\ c[i] = a[i]
    BY <1>1, <1>2, <1>4
  <2>2. QED
    BY <2>1 DEF Bytes
<1>5. ASSUME NEW i \in DOMAIN b PROVE b[i] \in Bytes(c)
  <2> DEFINE j == i + Len(a)
  <2>1. j \in DOMAIN c /\ ~(j <= Len(a)) /\ j - Len(a) = i
    BY <1>1, <1>2, <1>5
  <2> HIDE DEF j
  <2>2. c[j] = b[i]
    BY <1>1, <1>2, <2>1
  <2>3. QED
    BY <2>1, <2>2 DEF Bytes
<1>6. Bytes(c) = Bytes(a) \cup Bytes(b)
  BY <1>3, <1>4, <1>5 DEF Bytes
<1>7. QED
  BY <1>6 DEF c

\* Stretches that increase one after the other.
LEMMA IncreasingBoth ==
    ASSUME NEW a \in Seq(Nat), NEW b \in Seq(Nat)
    PROVE  Increasing(a \o b) <=>
              /\ Increasing(a) /\ Increasing(b)
              /\ \A x \in Bytes(a), y \in Bytes(b) : x < y
<1> DEFINE c == a \o b
<1>1. /\ c \in Seq(Nat) /\ Len(c) = Len(a) + Len(b) /\ Len(a) \in Nat /\ Len(b) \in Nat
      /\ \A i \in 1..Len(c) : c[i] = IF i <= Len(a) THEN a[i] ELSE b[i - Len(a)]
  BY ConcatProperties
<1>2. DOMAIN c = 1..Len(c) /\ DOMAIN a = 1..Len(a) /\ DOMAIN b = 1..Len(b)
  BY <1>1
<1> HIDE DEF c
<1>3. /\ \A i \in DOMAIN a : i \in DOMAIN c /\ c[i] = a[i]
      /\ \A i \in DOMAIN b : i + Len(a) \in DOMAIN c /\ c[i + Len(a)] = b[i]
  <2>1. ASSUME NEW i \in DOMAIN b
        PROVE  i + Len(a) \in DOMAIN c /\ c[i + Len(a)] = b[i]
    <3> DEFINE j == i + Len(a)
    <3>1. j \in DOMAIN c /\ ~(j <= Len(a)) /\ j - Len(a) = i
      BY <1>1, <1>2, <2>1
    <3> HIDE DEF j
    <3>2. c[j] = b[i]
      BY <1>1, <1>2, <3>1
    <3>3. QED
      BY <3>1, <3>2 DEF j
  <2>2. QED
    BY <1>1, <1>2, <2>1
<1>4. ASSUME Increasing(c)
      PROVE  Increasing(a) /\ Increasing(b) /\ \A x \in Bytes(a), y \in Bytes(b) : x < y
  <2>1. Increasing(a)
    BY <1>3, <1>4 DEF Increasing
  <2>2. ASSUME NEW i \in DOMAIN b, NEW j \in DOMAIN b, i < j
        PROVE  b[i] < b[j]
    <3>1. i + Len(a) < j + Len(a)
      BY <1>1, <1>2, <2>2
    <3>2. QED
      BY <1>3, <1>4, <3>1 DEF Increasing
  <2>3. ASSUME NEW i \in DOMAIN a, NEW j \in DOMAIN b
        PROVE  a[i] < b[j]
    <3>1. i < j + Len(a)
      BY <1>1, <1>2
    <3>2. QED
      BY <1>3, <1>4, <3>1 DEF Increasing
  <2>4. QED
    BY <2>1, <2>2, <2>3 DEF Increasing, Bytes
<1>5. ASSUME Increasing(a), Increasing(b), \A x \in Bytes(a), y \in Bytes(b) : x < y
      PROVE  Increasing(c)
  <2>1. SUFFICES ASSUME NEW i \in DOMAIN c, NEW j \in DOMAIN c, i < j PROVE c[i] < c[j]
    BY DEF Increasing
  <2>2. i \in Nat /\ j \in Nat /\ i \in 1..Len(c) /\ j \in 1..Len(c)
    BY <1>1, <1>2
  <2>0. ASSUME NEW k \in 1..Len(c), ~(k <= Len(a))
        PROVE  k - Len(a) \in DOMAIN b /\ c[k] = b[k - Len(a)]
    <3>1. k - Len(a) \in 1..Len(b)
      BY <1>1, <2>0
    <3>2. QED
      BY <1>1, <1>2, <2>0, <3>1
  <2>3. CASE j <= Len(a)
    <3>1. i \in DOMAIN a /\ j \in DOMAIN a
      BY <1>1, <1>2, <2>1, <2>2, <2>3
    <3>2. QED
      BY <1>3, <1>5, <2>1, <3>1 DEF Increasing
  <2>4. CASE i <= Len(a) /\ ~(j <= Len(a))
    <3>1. i \in DOMAIN a /\ c[i] = a[i]
      BY <1>1, <1>2, <2>2, <2>4
    <3>2. j - Len(a) \in DOMAIN b /\ c[j] = b[j - Len(a)]
      BY <2>0, <2>2, <2>4
    <3>3. a[i] \in Bytes(a)
      BY <3>1 DEF Bytes
    <3>4. b[j - Len(a)] \in Bytes(b)
      BY <3>2, Zenon DEF Bytes
    <3>5. QED
      BY <1>5, <3>1, <3>2, <3>3, <3>4
  <2>5. CASE ~(i <= Len(a))
    <3>1. /\ i - Len(a) \in DOMAIN b /\ c[i] = b[i - Len(a)]
          /\ j - Len(a) \in DOMAIN b /\ c[j] = b[j - Len(a)]
      <4>1. ~(j <= Len(a))
        BY <1>1, <2>1, <2>2, <2>5
      <4>2. QED
        BY <2>0, <2>2, <2>5, <4>1
    <3>2. i - Len(a) < j - Len(a)
      BY <1>1, <2>1, <2>2
    <3>3. QED
      BY <1>5, <3>1, <3>2 DEF Increasing
  <2>6. QED
    BY <2>3, <2>4, <2>5
<1>6. QED
  BY <1>4, <1>5 DEF c

\* A step that copies nothing, and after which readers are still readers.
LEMMA HandsStay ==
    ASSUME Hands, UNCHANGED held, lost' \in [Devs -> SUBSET Nat],
           \A d \in Devs : \/ got'[d] = got[d] /\ lost'[d] = lost[d]
                           \/ /\ lost'[d] = {}
                              /\ \A t \in Threads : threads[t].pc \in Reading => Dev(t) # d,
           \A t \in Threads : threads[t].pc \in Reading =>
               threads'[t].pc \in Reading /\ Dev(t)' = Dev(t) /\ Dev(t) \in Devs
    PROVE  Hands'
<1>1. ASSUME NEW t \in Threads
      PROVE  /\ threads'[t].pc \notin Reading => held'[t] = <<>>
             /\ Increasing(held'[t])
             /\ Bytes(held'[t]) \subseteq Bytes(got'[Dev(t)']) \ lost'[Dev(t)']
             /\ \A s \in Threads \ {t} :
                   Dev(s)' = Dev(t)' => Bytes(held'[s]) \cap Bytes(held'[t]) = {}
  <2>1. CASE threads[t].pc \notin Reading
    BY <2>1, NoBytes DEF Hands
  <2>2. CASE threads[t].pc \in Reading
    <3>1. Bytes(held'[t]) \subseteq Bytes(got'[Dev(t)']) \ lost'[Dev(t)']
      BY <2>2 DEF Hands
    <3>2. ASSUME NEW s \in Threads \ {t}, Dev(s)' = Dev(t)'
          PROVE  Bytes(held'[s]) \cap Bytes(held'[t]) = {}
      <4>1. CASE threads[s].pc \in Reading
        BY <2>2, <3>2, <4>1 DEF Hands
      <4>2. CASE threads[s].pc \notin Reading
        BY <3>2, <4>2, NoBytes DEF Hands
      <4>3. QED
        BY <4>1, <4>2
    <3>3. QED
      BY <2>2, <3>1, <3>2 DEF Hands
  <2>3. QED
    BY <2>1, <2>2
<1>2. \A d \in Devs : lost'[d] \subseteq Bytes(got'[d])
  BY DEF Hands
<1>3. QED
  BY <1>1, <1>2 DEF Hands

\* Thread t copies the bytes B, has h after it, and l are lost.
LEMMA HandsMove ==
    ASSUME Hands, NEW t \in Threads, Dev(t) \in Devs, got \in [Devs -> Seq(Nat)],
           NEW h \in Seq(Nat), NEW l \in SUBSET Nat, NEW g \in Seq(Nat), NEW B,
           held' = [held EXCEPT ![t] = h], lost' = [lost EXCEPT ![Dev(t)] = l],
           got' = [got EXCEPT ![Dev(t)] = g], UNCHANGED files,
           \A s \in Threads \ {t} : threads'[s] = threads[s],
           threads'[t].pc \notin Reading => h = <<>>,
           Increasing(h), Bytes(h) \subseteq Bytes(held[t]) \cup B,
           l \subseteq lost[Dev(t)] \cup Bytes(held[t]) \cup B, l \cap Bytes(h) = {},
           Bytes(g) = Bytes(got[Dev(t)]) \cup B, B \cap Bytes(got[Dev(t)]) = {}
    PROVE  Hands'
<1> DEFINE d == Dev(t)
<1>1. /\ \A s \in Threads : held'[s] = IF s = t THEN h ELSE held[s]
      /\ \A e \in Devs : /\ lost'[e] = IF e = d THEN l ELSE lost[e]
                         /\ got'[e] = IF e = d THEN g ELSE got[e]
      /\ \A e : e # d => lost'[e] = lost[e] /\ got'[e] = got[e]
      /\ held' \in [Threads -> Seq(Nat)] /\ lost' \in [Devs -> SUBSET Nat]
  BY DEF Hands
<1>2. \A s \in Threads : Dev(s)' = Dev(s)
  BY DEF Dev
<1>3. Bytes(held[t]) \subseteq Bytes(got[d]) \ lost[d] /\ lost[d] \subseteq Bytes(got[d])
  BY DEF Hands
<1>4. \A e \in Devs : lost'[e] \subseteq Bytes(got'[e])
  BY <1>1, <1>3 DEF Hands
<1>5. ASSUME NEW s \in Threads \ {t}, Dev(s) = d
      PROVE  /\ Bytes(held[s]) \subseteq Bytes(got[d]) \ lost[d]
             /\ Bytes(held[s]) \cap (Bytes(held[t]) \cup B) = {}
  BY <1>5 DEF Hands
<1>6. ASSUME NEW s \in Threads
      PROVE  /\ threads'[s].pc \notin Reading => held'[s] = <<>>
             /\ Increasing(held'[s])
             /\ Bytes(held'[s]) \subseteq Bytes(got'[Dev(s)]) \ lost'[Dev(s)]
  <2>1. CASE s = t
    BY <1>1, <1>3, <2>1
  <2>2. CASE s # t /\ Dev(s) = d
    <3>1. /\ Bytes(held[s]) \subseteq Bytes(got[d]) \ lost[d]
          /\ Bytes(held[s]) \cap (Bytes(held[t]) \cup B) = {}
      BY <1>5, <2>2
    <3>2. Bytes(held[s]) \subseteq Bytes(g) \ l
      BY <3>1
    <3>3. held'[s] = held[s] /\ threads'[s] = threads[s] /\ got'[Dev(s)] = g /\ lost'[Dev(s)] = l
      BY <1>1, <2>2
    <3>4. QED
      BY <3>2, <3>3 DEF Hands
  <2>3. CASE s # t /\ Dev(s) # d
    BY <1>1, <2>3 DEF Hands
  <2>4. QED
    BY <2>1, <2>2, <2>3
<1>7. ASSUME NEW s \in Threads, NEW u \in Threads \ {s}, Dev(u) = Dev(s)
      PROVE  Bytes(held'[u]) \cap Bytes(held'[s]) = {}
  <2>1. CASE s = t
    BY <1>1, <1>5, <1>7, <2>1
  <2>2. CASE u = t
    BY <1>1, <1>5, <1>7, <2>2
  <2>3. CASE s # t /\ u # t
    BY <1>1, <1>7, <2>3 DEF Hands
  <2>4. QED
    BY <2>1, <2>2, <2>3
<1>8. QED
  BY <1>1, <1>2, <1>4, <1>6, <1>7 DEF Hands

\* The bytes that a read takes out of the buffer are new to all readers.
LEMMA ReadLoopHands ==
    ASSUME TowerInv, Hands, NEW t \in Threads, NEW k,
           threads[t].pc \in {"read", "readback"}, Downs(t, threads[t].pc),
           ReadLoop(t, threads[t].count, k), UNCHANGED files
    PROVE  Hands'
<1> DEFINE d      == Dev(t)
           buffer == tower[d].read_buffer
           take   == Min({threads[t].count, Len(buffer)})
           bytes  == SubSeq(buffer, 1, take)
           left   == threads[t].count - take
<1>1. /\ threads[t] \in InCall /\ tower[d] \in Structure /\ d \in Devs /\ memory[d] = "live"
      /\ got \in [Devs -> Seq(Nat)] /\ got[d] \in Seq(Nat)
  BY ThreadInCall DEF Downs, TowerInv, Types
<1>2. buffer \in Seq(Nat)
  BY <1>1 DEF Structure
<1>3. take \in 0..Len(buffer)
  <2>1. threads[t].count \in Nat /\ Len(buffer) \in Nat
    BY <1>1, <1>2, TowerAssumption DEF InCall
  <2>2. QED
    BY <2>1, MinOfTwo, Zenon
<1> HIDE DEF take
<1>4. /\ bytes \in Seq(Nat) /\ Rest(buffer, take) \in Seq(Nat)
      /\ bytes \o Rest(buffer, take) = buffer
  BY <1>2, <1>3, RestRemains
<1> HIDE DEF bytes
<1>5. Increasing(buffer) /\ \A x \in Bytes(got[d]), y \in Bytes(buffer) : x < y
  <2>1. Increasing(got[d] \o buffer)
    BY <1>1 DEF TowerInv, Streams, Stream, Complete
  <2>2. QED
    BY <1>1, <1>2, <2>1, IncreasingBoth
<1> DEFINE B == Bytes(bytes)
<1>6. Increasing(bytes) /\ \A x \in Bytes(got[d]), y \in B : x < y
  <2>1. Increasing(bytes)
    <3>1. Increasing(bytes \o Rest(buffer, take))
      BY <1>4, <1>5
    <3>2. QED
      BY <1>4, <3>1, IncreasingBoth
  <2>2. B \subseteq Bytes(buffer)
    BY <1>4, BytesOfBoth
  <2>3. QED
    BY <1>5, <2>1, <2>2
<1>7. Bytes(got[d]) \subseteq Nat
  BY <1>1, ElementOfSeq DEF Bytes
<1>8. B \cap Bytes(got[d]) = {} /\ B \subseteq Nat
  <2>1. B \subseteq Nat
    BY <1>4, ElementOfSeq DEF Bytes
  <2>2. ASSUME NEW x \in B, x \in Bytes(got[d]) PROVE FALSE
    BY <1>6, <1>7, <2>2
  <2>3. QED
    BY <2>1, <2>2
<1>9. /\ held[t] \in Seq(Nat) /\ Increasing(held[t]) /\ lost[d] \in SUBSET Nat
      /\ Bytes(held[t]) \subseteq Bytes(got[d]) \ lost[d] /\ lost[d] \subseteq Bytes(got[d])
  BY <1>1 DEF Hands
<1>10. /\ held[t] \o bytes \in Seq(Nat) /\ Increasing(held[t] \o bytes)
       /\ Bytes(held[t] \o bytes) = Bytes(held[t]) \cup B
  <2>1. \A x \in Bytes(held[t]), y \in B : x < y
    BY <1>6, <1>9
  <2>2. held[t] \o bytes \in Seq(Nat)
    BY <1>4, <1>9, ConcatProperties
  <2>3. QED
    BY <1>4, <1>6, <1>9, <2>1, <2>2, IncreasingBoth, BytesOfBoth
<1>11. got[d] \o bytes \in Seq(Nat) /\ Bytes(got[d] \o bytes) = Bytes(got[d]) \cup B
  BY <1>1, <1>4, ConcatProperties, BytesOfBoth
<1>12. \A s \in Threads \ {t} : threads'[s] = threads[s]
  BY DEF ReadLoop, ReadFails, Returns, Goes, TowerInv, Types
<1>13. <<>> \in Seq(Nat)
  OBVIOUS
<1>14. CASE ReadFails(t, d, held[t]) /\ UNCHANGED <<tower, got>>
  <2> DEFINE l == lost[d] \cup Bytes(held[t])
  <2>1. /\ held' = [held EXCEPT ![t] = <<>>] /\ lost' = [lost EXCEPT ![d] = l]
        /\ got' = [got EXCEPT ![d] = got[d]] /\ l \in SUBSET Nat
    BY <1>1, <1>7, <1>9, <1>14 DEF ReadFails, Holds
  <2>2. l \subseteq lost[d] \cup Bytes(held[t]) \cup {}
    OBVIOUS
  <2> HIDE DEF l
  <2>3. QED
    BY <1>1, <1>12, <1>13, <2>1, <2>2, NoBytes, HandsMove
<1>15. ASSUME got' = [got EXCEPT ![d] = got[d] \o bytes], left = 0, Returns(t), Holds(t, <<>>),
              UNCHANGED lost
       PROVE  Hands'
  <2> DEFINE h == <<>>
             g == got[d] \o bytes
  <2>1. /\ held' = [held EXCEPT ![t] = h] /\ lost' = [lost EXCEPT ![d] = lost[d]]
        /\ got' = [got EXCEPT ![d] = g]
    BY <1>1, <1>15 DEF Holds, Hands
  <2>2. /\ h \in Seq(Nat) /\ h = <<>> /\ Increasing(h) /\ Bytes(h) = {}
        /\ g \in Seq(Nat) /\ Bytes(g) = Bytes(got[d]) \cup B
    BY <1>11, <1>13, NoBytes
  <2> HIDE DEF h, g
  <2>3. Bytes(h) \subseteq Bytes(held[t]) \cup B /\ lost[d] \cap Bytes(h) = {}
    BY <2>2
  <2>4. lost[d] \in SUBSET Nat /\ lost[d] \subseteq lost[d] \cup Bytes(held[t]) \cup B
    BY <1>9
  <2>5. QED
    BY <1>1, <1>8, <1>12, <2>1, <2>2, <2>3, <2>4, HandsMove
<1>16. ASSUME got' = [got EXCEPT ![d] = got[d] \o bytes], ReadFails(t, d, held[t] \o bytes)
       PROVE  Hands'
  <2> DEFINE l == lost[d] \cup Bytes(held[t]) \cup B
  <2>1. /\ held' = [held EXCEPT ![t] = <<>>] /\ lost' = [lost EXCEPT ![d] = l] /\ l \in SUBSET Nat
    BY <1>1, <1>7, <1>8, <1>9, <1>10, <1>16 DEF ReadFails, Holds
  <2>2. l \subseteq lost[d] \cup Bytes(held[t]) \cup B
    OBVIOUS
  <2> HIDE DEF l
  <2>3. QED
    BY <1>1, <1>8, <1>11, <1>12, <1>13, <1>16, <2>1, <2>2, NoBytes, HandsMove
<1>17. ASSUME got' = [got EXCEPT ![d] = got[d] \o bytes], Goes(t, "readsleep", left, k),
              Holds(t, held[t] \o bytes), UNCHANGED lost
       PROVE  Hands'
  <2> DEFINE h == held[t] \o bytes
  <2>1. /\ held' = [held EXCEPT ![t] = h] /\ lost' = [lost EXCEPT ![d] = lost[d]]
        /\ threads'[t].pc \in Reading
    BY <1>1, <1>17 DEF Holds, Hands, Goes, Reading, TowerInv, Types
  <2>2. /\ h \in Seq(Nat) /\ Increasing(h) /\ Bytes(h) = Bytes(held[t]) \cup B
        /\ lost[d] \cap Bytes(h) = {}
    BY <1>8, <1>9, <1>10
  <2> HIDE DEF h
  <2>3. QED
    BY <1>1, <1>8, <1>9, <1>11, <1>12, <1>17, <2>1, <2>2, HandsMove
<1>18. QED
  BY <1>14, <1>15, <1>16, <1>17 DEF ReadLoop, take, bytes, left

\* All other steps of a thread copy nothing.
LEMMA ThreadStepHands ==
    ASSUME TowerInv, Hands, NEW t \in Threads, ThreadStep(t)
    PROVE  Hands'
<1>1. CASE ReadAgain(t)
  <2>1. threads[t].pc = "readback"
    BY <1>1 DEF ReadAgain, Downs
  <2>2. QED
    BY <1>1, <2>1, ReadLoopHands DEF ReadAgain
<1>2. ASSUME threads[t].pc = "read", Downs(t, "read"), UNCHANGED files,
             ReadLoop(t, threads[t].count, tower[Dev(t)].read_timeout)
      PROVE  Hands'
  BY <1>2, ReadLoopHands
<1>3. ASSUME UNCHANGED <<got, held, lost, files>>,
             \A s \in Threads : threads[s].pc \in Reading => threads'[s].pc \in Reading
      PROVE  Hands'
  <2>1. \A s \in Threads : threads[s].pc \in Reading => Dev(s)' = Dev(s) /\ Dev(s) \in Devs
    BY <1>3, ThreadInCall DEF Reading, Dev
  <2>2. lost' \in [Devs -> SUBSET Nat]
    BY <1>3 DEF Hands
  <2>3. QED
    BY <1>3, <2>1, <2>2, HandsStay
<1>4. ASSUME NEW r, threads' = [threads EXCEPT ![t] = r],
             threads[t].pc \in Reading => r.pc \in Reading
      PROVE  \A s \in Threads : threads[s].pc \in Reading => threads'[s].pc \in Reading
  BY <1>4 DEF TowerInv, Types
<1>5. CASE tower_read(t)
  <2>1. threads[t].pc = "read" /\ Downs(t, "read") /\ UNCHANGED files
    BY <1>5 DEF tower_read, Downs
  <2>2. CASE ~tower[Dev(t)].udev \/ threads[t].count = 0
    <3>1. UNCHANGED <<got, held, lost, files>> /\ threads' = [threads EXCEPT ![t] = Idle]
      BY <1>5, <2>2 DEF tower_read, Returns, Goes, Idle
    <3>2. QED
      BY <1>3, <1>4, <2>1, <3>1 DEF Reading
  <2>3. QED
    BY <1>2, <1>5, <2>1, <2>2 DEF tower_read
<1>6. CASE Calls(t)
  <2>1. PICK r : threads' = [threads EXCEPT ![t] = r]
    BY <1>6 DEF Calls, Goes
  <2>2. QED
    BY <1>3, <1>4, <1>6, <2>1 DEF Calls, stream, Reading
<1>7. CASE TouchesFreed(t) \/ Signalled(t)
  BY <1>3, <1>7 DEF TouchesFreed, Signalled, Fails, stream
<1>8. CASE Sleeps(t)
  <2>1. threads' = [threads EXCEPT ![t] = [threads[t] EXCEPT !.pc = OnQueue(threads[t].pc)]]
    BY <1>8 DEF Sleeps
  <2>2. threads[t].pc \in Reading => [threads[t] EXCEPT !.pc = OnQueue(threads[t].pc)].pc \in Reading
    BY <1>8 DEF Sleeps, OnQueue, Reading, TowerInv, Types
  <2>3. QED
    BY <1>3, <1>4, <1>8, <2>1, <2>2 DEF Sleeps, stream
<1>9. CASE Expires(t)
  <2>1. PICK left : threads' = [threads EXCEPT ![t] =
                        [pc |-> Back(threads[t].pc), count |-> threads[t].count, timeout |-> left]]
    BY <1>9 DEF Expires, Goes
  <2>2. threads[t].pc \in Reading => Back(threads[t].pc) \in Reading
    BY <1>9 DEF Expires, Back, Reading
  <2>3. QED
    BY <1>3, <1>4, <1>9, <2>1, <2>2 DEF Expires, stream
<1>10. CASE tower_write(t) \/ WriteAgain(t) \/ tower_ioctl(t) \/ Controlled(t)
            \/ Submits(t) \/ WaitsForOut(t)
  <2>1. UNCHANGED <<got, held, lost, files>> /\ threads[t].pc \notin Reading
    BY <1>10 DEF tower_write, WriteAgain, tower_ioctl, Controlled, Submits, WaitsForOut,
                 Downs, Fails, stream, Reading
  <2>2. (\E r : threads' = [threads EXCEPT ![t] = r]) \/ UNCHANGED threads
    BY <1>10 DEF tower_write, WriteAgain, tower_ioctl, Controlled, Submits, WaitsForOut,
                 Fails, Ups, Returns, Goes
  <2>3. QED
    BY <1>3, <1>4, <2>1, <2>2
<1>11. QED
  BY <1>1, <1>5, <1>6, <1>7, <1>8, <1>9, <1>10 DEF ThreadStep

\* A step of a file is not one of a file that a reader uses.
LEMMA FileStepHands ==
    ASSUME TowerInv, Hands, NEW f \in Files, FileStep(f)
    PROVE  Hands'
<1>1. \A t \in Threads : threads[t].pc \in Reading =>
          files[FileOf[t]].pc = "open" /\ Dev(t) \in Devs /\ FileOf[t] \in Files
  BY ThreadInCall, TowerAssumption DEF Reading
<1>2. UNCHANGED <<threads, held>>
  BY DEF FileStep, OpenLocks, OpenDevice, ReleaseLocks, ReleaseDevice, stream, Forgets, Fails
<1>3. /\ \A g \in Files \ {f} : files'[g] = files[g]
      /\ files[f].pc = "open" => files'[f].private_data = files[f].private_data
  BY DEF FileStep, OpenLocks, OpenDevice, ReleaseLocks, ReleaseDevice, Fails, TowerInv, Types
<1>4. \A t \in Threads : threads[t].pc \in Reading => Dev(t)' = Dev(t)
  BY <1>1, <1>3 DEF Dev
<1>5. CASE UNCHANGED <<got, lost>>
  BY <1>1, <1>2, <1>4, <1>5, HandsStay DEF Hands
<1>6. ASSUME NEW d \in Devs, files[f].pc = "opening", files[f].private_data = d,
             ~Busy(Counted(tower[d])), Forgets(d)
      PROVE  Hands'
  <2>1. /\ \A e \in Devs \ {d} : got'[e] = got[e] /\ lost'[e] = lost[e]
        /\ lost'[d] = {} /\ lost' \in [Devs -> SUBSET Nat]
    BY <1>6 DEF Forgets, Hands, TowerInv, Types
  <2>2. Holders(d) = {}
    <3>1. tower[d] \in Structure /\ memory[d] = "live"
      BY <1>6 DEF TowerInv, Types, TableLocked
    <3>2. tower[d].open_count # 1
      BY <1>6, <3>1 DEF Busy, Counted, Structure
    <3>3. QED
      BY <3>1, <3>2 DEF TowerInv, Counts
  <2>3. \A t \in Threads : threads[t].pc \in Reading => Dev(t) # d
    BY <1>1, <2>2 DEF Holders, Dev
  <2>4. QED
    BY <1>1, <1>2, <1>4, <2>1, <2>3, HandsStay
<1>7. QED
  <2>1. CASE OpenDevice(f)
    <3>1. files[f].pc = "opening"
      BY <2>1 DEF OpenDevice
    <3>2. PICK d \in Devs : files[f].private_data = d
      BY <3>1, FileHasDevice
    <3>3. QED
      BY <1>5, <1>6, <2>1, <3>1, <3>2 DEF OpenDevice, stream
  <2>2. CASE OpenLocks(f) \/ ReleaseLocks(f) \/ ReleaseDevice(f)
    BY <1>5, <2>2 DEF OpenLocks, ReleaseLocks, ReleaseDevice, stream, Fails
  <2>3. QED
    BY <2>1, <2>2 DEF FileStep

\* The controller and the hub at most wake readers.
LEMMA UsbStepHands ==
    ASSUME TowerInv, Hands, NEW d \in Devs, UsbStep(d)
    PROVE  Hands'
<1>1. UNCHANGED <<got, held, lost, files>>
  BY DEF UsbStep, tower_interrupt_in_callback, tower_interrupt_out_callback, tower_probe,
         DisconnectLocks, tower_disconnect, stream, Fails
<1>2. WakesUp(d, "readqueue") \/ WakesUp(d, "writequeue") \/ UNCHANGED threads
  BY DEF UsbStep, tower_interrupt_in_callback, tower_interrupt_out_callback, tower_probe,
         DisconnectLocks, tower_disconnect, Fails
<1>3. \A t \in Threads : threads[t].pc \in Reading => threads'[t].pc \in Reading
  BY <1>2 DEF WakesUp, Back, Reading
<1>4. \A t \in Threads : threads[t].pc \in Reading => Dev(t)' = Dev(t) /\ Dev(t) \in Devs
  BY <1>1, ThreadInCall DEF Reading, Dev
<1>5. QED
  BY <1>1, <1>3, <1>4, HandsStay DEF Hands

\* What was copied from a device, followed by what its buffer has, is what came, in
\* order and once each, but for the packets that found no room; each byte is copied
\* to one call, and none to a call after one that took it with it when it failed
\* (tower_read, tower_interrupt_in_callback), for any sizes and any threads.
THEOREM ReadsStayInOrder == TowerSpec => []ReadsInOrder
<1>1. TowerInit => Hands
  BY NoBytes DEF TowerInit, Hands, Idle
<1>2. TowerInv /\ Hands /\ [TowerNext]_towerVars => Hands'
  <2> SUFFICES ASSUME TowerInv, Hands, [TowerNext]_towerVars PROVE Hands'
    OBVIOUS
  <2>1. CASE UNCHANGED towerVars
    BY <2>1 DEF towerVars, Hands, Dev
  <2>2. CASE TowerNext
    BY <2>2, FileStepHands, ThreadStepHands, UsbStepHands DEF TowerNext
  <2>3. QED
    BY <2>1, <2>2
<1>3. TowerInv /\ Hands => ReadsInOrder
  BY DEF TowerInv, Streams, Stream, Complete, Hands, Reads, ReadsInOrder
<1>4. QED
  BY <1>1, <1>2, <1>3, TowerInvariance, PTL DEF TowerSpec

\* A device that is there has one file at most, is counted right and found
\* under its minor; one that is gone or nobody has runs no transfer
\* (tower_open, tower_release, tower_probe, tower_disconnect).
THEOREM EveryDeviceOneFile == TowerSpec => []OneFileEach
<1>1. ASSUME TowerInv PROVE OneFileEach
  <2>1. ASSUME NEW d \in Devs, memory[d] = "live"
        PROVE  /\ Cardinality(Holders(d)) <= 1
               /\ tower[d].open_count = Cardinality(Holders(d))
               /\ minor_table[tower[d].minor] = d
    <3>1. /\ \A f, g \in Holders(d) : f = g
          /\ tower[d].open_count = IF Holders(d) = {} THEN 0 ELSE 1
          /\ minor_table[tower[d].minor] = d
      BY <1>1, <2>1 DEF TowerInv, Counts
    <3>2. CASE Holders(d) = {}
      BY <3>1, <3>2, FS_EmptySet
    <3>3. CASE Holders(d) # {}
      <4>1. PICK f \in Holders(d) : Holders(d) = {f}
        BY <3>1, <3>3
      <4>2. Cardinality(Holders(d)) = 1
        BY <4>1, FS_Singleton
      <4>3. QED
        BY <3>1, <3>3, <4>2
    <3>4. QED
      BY <3>2, <3>3
  <2>2. ASSUME NEW d \in Devs, memory[d] # "live" \/ Holders(d) = {}
        PROVE  ~tower[d].interrupt_in /\ ~tower[d].interrupt_out
    BY <1>1, <2>2 DEF TowerInv, Counts, Fresh
  <2>3. \A m \in Minors : minor_table[m] # Null => memory[minor_table[m]] = "live"
    BY <1>1 DEF TowerInv, Counts
  <2>4. QED
    BY <2>1, <2>2, <2>3 DEF OneFileEach
<1>2. QED
  BY <1>1, TowerInvariance, PTL

\* The steps in which memory changes: a probe, and those that call tower_delete().
LEMMA WhoDeletes ==
    ASSUME TowerInv, TowerNext, NEW d \in Devs, memory[d] = "live", memory'[d] = "gone"
    PROVE  \/ \E f \in Files : OpenDevice(f) \/ ReleaseDevice(f)
           \/ tower_disconnect(d)
<1>1. memory \in [Devs -> {"unused", "live", "gone"}]
  BY DEF TowerInv, Types
<1>2. ASSUME NEW t \in Threads, ThreadStep(t)
      PROVE  FALSE
  <2>1. UNCHANGED memory
    BY <1>2 DEF ThreadStep, Calls, TouchesFreed, Fails, Signalled, Sleeps, Expires, tower_read,
          ReadAgain, tower_write, Submits, WaitsForOut, WriteAgain, tower_ioctl, Controlled, table
  <2>2. QED
    BY <2>1
<1>3. ASSUME NEW f \in Files, OpenLocks(f) \/ ReleaseLocks(f)
      PROVE  FALSE
  BY <1>3 DEF OpenLocks, ReleaseLocks
<1>4. ASSUME NEW e \in Devs, UsbStep(e)
      PROVE  tower_disconnect(d)
  <2>1. CASE tower_interrupt_in_callback(e) \/ tower_interrupt_out_callback(e) \/ DisconnectLocks(e)
    <3>1. UNCHANGED memory
      BY <2>1 DEF tower_interrupt_in_callback, tower_interrupt_out_callback, DisconnectLocks, table
    <3>2. QED
      BY <3>1
  <2>2. CASE tower_probe(e)
    <3>1. memory[e] = "unused" /\ \A g \in Devs : g # e => memory'[g] = memory[g]
      BY <1>1, <2>2 DEF tower_probe, Fails, table
    <3>2. QED
      BY <3>1
  <2>3. CASE tower_disconnect(e)
    <3>1. \A g \in Devs : g # e => memory'[g] = memory[g]
      BY <1>1, <2>3 DEF tower_disconnect, tower_delete
    <3>2. QED
      BY <2>3, <3>1
  <2>4. QED
    BY <1>4, <2>1, <2>2, <2>3 DEF UsbStep
<1>5. QED
  BY <1>2, <1>3, <1>4 DEF TowerNext, FileStep

\* A device is freed under a file that has it only when another open of it is
\* refused after it was unplugged: tower_release(), tower_disconnect() and an
\* open of a plugged device never do it.
THEOREM OnlyARefusalFrees == TowerSpec => FreedOnlyByARefusal
<1>1. ASSUME TowerInv, [TowerNext]_towerVars
      PROVE  [FreedUnderAFile]_towerVars
  <2> SUFFICES ASSUME TowerNext, NEW d \in Devs, memory[d] = "live", memory'[d] = "gone",
                      Holders(d)' # {}
               PROVE  \E f \in Files : files[f] = [pc |-> "opening", private_data |-> d] /\ ~tower[d].udev
    BY <1>1 DEF FreedUnderAFile
  <2>1. /\ memory \in [Devs -> {"unused", "live", "gone"}] /\ tower[d] \in Structure
        /\ \A f \in Files : files[f] \in OpenFile
    BY <1>1 DEF TowerInv, Types, OpenFile
  <2>2. ASSUME NEW f \in Files, OpenDevice(f)
        PROVE  files[f] = [pc |-> "opening", private_data |-> d] /\ ~tower[d].udev
    <3>1. PICK e \in Devs : files[f].private_data = e
      BY <1>1, <2>2, FileHasDevice DEF OpenDevice
    <3>2. ASSUME NEW r, tower_release_internal(e, r), r.udev
          PROVE  UNCHANGED memory
      BY <3>2 DEF tower_release_internal
    <3>3. tower[e] \in Structure
      BY <1>1 DEF TowerInv, Types
    <3>4. Counted(tower[e]).udev = tower[e].udev
          /\ [Counted(tower[e]) EXCEPT !.read_buffer = <<>>].udev = tower[e].udev
      BY <3>3 DEF Counted, Structure
    <3>5. ASSUME tower[e].udev
          PROVE  UNCHANGED memory
      BY <2>2, <3>1, <3>2, <3>4, <3>5 DEF OpenDevice
    <3>6. ASSUME e # d
          PROVE  memory'[d] = memory[d]
      BY <2>1, <2>2, <3>1, <3>6 DEF OpenDevice, tower_release_internal, tower_delete
    <3>7. e = d /\ ~tower[d].udev
      BY <3>5, <3>6
    <3>8. files[f].pc = "opening" /\ files[f] \in OpenFile
      BY <2>1, <2>2 DEF OpenDevice
    <3>9. QED
      BY <3>1, <3>7, <3>8 DEF OpenFile
  <2>3. ASSUME NEW f \in Files, ReleaseDevice(f)
        PROVE  FALSE
    <3>1. PICK e \in Devs : files[f].private_data = e
      BY <1>1, <2>3, FileHasDevice DEF ReleaseDevice
    <3>2. ASSUME e # d
          PROVE  memory'[d] = memory[d]
      BY <2>1, <2>3, <3>1, <3>2 DEF ReleaseDevice, Fails, table, tower_release_internal, tower_delete
    <3>3. e = d /\ f \in Holders(d)
      BY <2>3, <3>1, <3>2 DEF ReleaseDevice, Holders
    <3>4. \A g \in Holders(d) : g = f
      BY <1>1, <3>3 DEF TowerInv, Counts
    <3>5. files' = [files EXCEPT ![f] = Closed]
      BY <2>3, <3>1, <3>3 DEF ReleaseDevice, Closed
    <3>6. \A g \in Files : files'[g] = IF g = f THEN Closed ELSE files[g]
      BY <1>1, <3>5 DEF TowerInv, Types
    <3>7. Holders(d)' = {}
      BY <3>4, <3>6 DEF Holders, Closed
    <3>8. QED
      BY <3>7
  <2>4. ASSUME tower_disconnect(d)
        PROVE  FALSE
    <3>1. tower[d].open_count = 0 /\ UNCHANGED files
      BY <2>4 DEF tower_disconnect
    <3>2. Holders(d) = {}
      BY <1>1, <3>1 DEF TowerInv, Counts
    <3>3. Holders(d)' = {}
      BY <3>1, <3>2 DEF Holders
    <3>4. QED
      BY <3>3
  <2>5. QED
    BY <1>1, <2>2, <2>3, <2>4, WhoDeletes
<1>2. QED
  BY <1>1, TowerInvariance, PTL DEF TowerSpec, FreedOnlyByARefusal
====
