----------------------------- MODULE LevelWrite -----------------------------
(***************************************************************************)
(* How leveldb makes a write durable (db/db_impl.cc): DBImpl::Write and its  *)
(* queue of writers, the log, the memtables, the background thread that      *)
(* turns them into tables, the manifest, and DB::Open after a crash.         *)
(*                                                                         *)
(* A step is what happens while mutex_ is held, or one of the writes to the  *)
(* file system for which it is released.  What a file holds survives the end *)
(* of the process; what has not been synced may be lost with the power.      *)
(* An entry is [id, seq]: the call that wrote it and its sequence number.    *)
(***************************************************************************)
EXTENDS Integers, Sequences, FiniteSets, FiniteSetsExt

CONSTANTS Clients,        \* threads that call Write
          MaxCalls,       \* bound: calls of Write
          MaxCrashes,     \* bound: crashes
          MergeKeys,      \* bound: how often one compaction stops for imm_
          MemLimit,       \* options_.write_buffer_size, in entries
          L0Compaction, L0Slowdown, L0Stop,   \* config::kL0_...Trigger
          Faults          \* which calls of the file system may fail

ASSUME CallsAssumption   == MaxCalls \in Nat
ASSUME TriggerAssumption == L0Compaction \in Nat \ {0}   \* kL0_CompactionTrigger is 4

VARIABLES writers,        \* writers_
          pc,             \* where each client is in Write
          call,           \* its arguments and locals
          group,          \* the batch the front writer is logging, its phase
          calls,          \* history: calls so far; the next call's id
          acked, synced,  \* history: entries promised, and promised against power loss
          mem, imm, hasImm, lastSeq, logNum, nextFile, bgError,
          ver,            \* what versions_ has installed
          bg,             \* the background thread
          logs,           \* the log files, by number
          manifests,      \* what the manifest may hold when it is read again
          db,             \* "open", "closed" or "opening"
          crashes

clientVars == <<writers, pc, call, group, calls>>
diskVars == <<logs, manifests>>
memVars == <<mem, imm, hasImm, lastSeq, logNum, nextFile, bgError, ver, bg>>
vars == <<writers, pc, call, group, calls, acked, synced, mem, imm, hasImm, lastSeq,
          logNum, nextFile, bgError, ver, bg, logs, manifests, db, crashes>>

\* A log: the entries that have been synced, the records (sets of entries) since
\* then, whether one was torn, and the entries written after that one.
EmptyLog == [safe |-> {}, rest |-> {}, torn |-> FALSE, after |-> {}]
InLog(lg) == lg.safe \cup UNION lg.rest

NoCall == [sync |-> FALSE, id |-> 0, force |-> FALSE, delay |-> FALSE]
NoGroup == [phase |-> "none", ents |-> {}, todo |-> {}, sync |-> FALSE, size |-> 0]
NoEdit == [adds |-> {}, log |-> 0, l0 |-> 0, seq |-> 0, next |-> 0]
Resting == [pc |-> "idle", merging |-> FALSE, left |-> 0, edit |-> NoEdit]
NewDB == [log |-> 1, ents |-> {}, seq |-> 0, next |-> 2, l0 |-> 0]

Init == /\ writers = <<>> /\ pc = [c \in Clients |-> "idle"]
        /\ call = [c \in Clients |-> NoCall] /\ group = NoGroup /\ calls = 0
        /\ acked = {} /\ synced = {}
        /\ mem = {} /\ imm = {} /\ hasImm = FALSE /\ lastSeq = 0
        /\ logNum = 1 /\ nextFile = 2 /\ bgError = FALSE
        /\ ver = NewDB /\ bg = Resting
        /\ logs = [n \in {1} |-> EmptyLog] /\ manifests = {NewDB}
        /\ db = "open" /\ crashes = 0

(***************************************************************************)
(* The queue of writers.                                                    *)
(***************************************************************************)
\* bg_cv_.SignalAll.
SignalAll(p) == [c \in Clients |-> IF p[c] = "wait" THEN "front" ELSE p[c]]

\* Write puts itself in the queue and waits until it is at the front.  A call
\* without a batch only wants the memtable switched.
Write(c, sync, null) ==
    /\ db = "open" /\ pc[c] = "idle" /\ calls < MaxCalls
    /\ calls' = calls + 1
    /\ call' = [call EXCEPT ![c] = [sync |-> sync, id |-> IF null THEN 0 ELSE calls + 1,
                                    force |-> null, delay |-> ~null]]
    /\ pc' = [pc EXCEPT ![c] = IF writers = <<>> THEN "front" ELSE "asleep"]
    /\ writers' = Append(writers, c)
    /\ UNCHANGED <<group, acked, synced, mem, imm, hasImm, lastSeq, logNum, nextFile,
                   bgError, ver, bg, logs, manifests, db, crashes>>

\* A wrong Return, which does not wake the next writer.
ReturnAlone(n) ==
    LET gone == {writers[i] : i \in 1 .. n}
    IN  /\ writers' = SubSeq(writers, n + 1, Len(writers))
        /\ pc' = [c \in Clients |-> IF c \in gone THEN "idle" ELSE pc[c]]
        /\ call' = [c \in Clients |-> IF c \in gone THEN NoCall ELSE call[c]]

\* The first n writers return, and the next one is woken.
Return(n) ==
    LET gone == {writers[i] : i \in 1 .. n}
        rest == SubSeq(writers, n + 1, Len(writers))
    IN  /\ writers' = rest
        /\ pc' = [c \in Clients |-> IF c \in gone THEN "idle"
                                    ELSE IF rest # <<>> /\ c = Head(rest) THEN "front"
                                    ELSE pc[c]]
        /\ call' = [c \in Clients |-> IF c \in gone THEN NoCall ELSE call[c]]

(***************************************************************************)
(* MakeRoomForWrite.                                                        *)
(***************************************************************************)
HasRoom(c) == ~call[c].force /\ Cardinality(mem) < MemLimit
Slowed(c) == call[c].delay /\ ver.l0 >= L0Slowdown
AtFront(c) == db = "open" /\ pc[c] = "front"

MakeRoomFails(c) ==
    /\ AtFront(c) /\ bgError
    /\ Return(1)
    /\ UNCHANGED <<group, calls, acked, synced, mem, imm, hasImm, lastSeq, logNum, nextFile,
                   bgError, ver, bg, logs, manifests, db, crashes>>

Slowdown(c) ==
    /\ AtFront(c) /\ ~bgError /\ Slowed(c)
    /\ pc' = [pc EXCEPT ![c] = "delay"]
    /\ UNCHANGED <<writers, call, group, calls, acked, synced, mem, imm, hasImm, lastSeq,
                   logNum, nextFile, bgError, ver, bg, logs, manifests, db, crashes>>

SlowdownOver(c) ==
    /\ db = "open" /\ pc[c] = "delay"
    /\ pc' = [pc EXCEPT ![c] = "front"]
    /\ call' = [call EXCEPT ![c].delay = FALSE]
    /\ UNCHANGED <<writers, group, calls, acked, synced, mem, imm, hasImm, lastSeq,
                   logNum, nextFile, bgError, ver, bg, logs, manifests, db, crashes>>

NeedsSwitch(c) == AtFront(c) /\ ~bgError /\ ~Slowed(c) /\ ~HasRoom(c)

\* The previous memtable is still being compacted, or level 0 is full.
WaitForCompaction(c) ==
    /\ NeedsSwitch(c)
    /\ hasImm \/ ver.l0 >= L0Stop
    /\ pc' = [pc EXCEPT ![c] = "wait"]
    /\ UNCHANGED <<writers, call, group, calls, acked, synced, mem, imm, hasImm, lastSeq,
                   logNum, nextFile, bgError, ver, bg, logs, manifests, db, crashes>>

\* MaybeScheduleCompaction.
Schedule(b, error, has, l0) ==
    IF b.pc = "idle" /\ ~error /\ (has \/ l0 >= L0Compaction)
    THEN [b EXCEPT !.pc = "scheduled"] ELSE b

WithLog(n, lg) == [i \in DOMAIN logs \cup {n} |-> IF i = n THEN lg ELSE logs[i]]

\* env_->NewWritableFile: a file of that name is emptied.
NewLog(n) == WithLog(n, EmptyLog)

SwitchMemTable(c) ==
    /\ NeedsSwitch(c) /\ ~hasImm /\ ver.l0 < L0Stop
    /\ logs' = NewLog(nextFile)
    /\ logNum' = nextFile
    /\ nextFile' = nextFile + 1
    /\ imm' = mem /\ hasImm' = TRUE /\ mem' = {}
    /\ call' = [call EXCEPT ![c].force = FALSE]
    /\ bg' = Schedule(bg, bgError, TRUE, ver.l0)
    /\ UNCHANGED <<writers, pc, group, calls, acked, synced, lastSeq, bgError, ver,
                   manifests, db, crashes>>

\* The new log cannot be created: the number is given back (ReuseFileNumber).
SwitchFails(c) ==
    /\ "newlog" \in Faults
    /\ NeedsSwitch(c) /\ ~hasImm /\ ver.l0 < L0Stop
    /\ Return(1)
    /\ UNCHANGED <<group, calls, acked, synced, mem, imm, hasImm, lastSeq, logNum, nextFile,
                   bgError, ver, bg, logs, manifests, db, crashes>>

\* A call without a batch has nothing to write.
NothingToWrite(c) ==
    /\ AtFront(c) /\ ~bgError /\ ~Slowed(c) /\ HasRoom(c)
    /\ call[c].id = 0
    /\ Return(1)
    /\ UNCHANGED <<group, calls, acked, synced, mem, imm, hasImm, lastSeq, logNum, nextFile,
                   bgError, ver, bg, logs, manifests, db, crashes>>

(***************************************************************************)
(* Write, once there is room.                                               *)
(***************************************************************************)
\* A wrong Joins, which takes whoever waits.
JoinsAll(n) == TRUE

\* A write that is synced does not join one that is not; the size of the
\* batches may end the group anywhere.
Joins(n) == \A i \in 2 .. n : call[writers[i]].sync => call[Head(writers)].sync

BuildBatchGroup(c, n) ==
    LET with == {i \in 1 .. n : call[writers[i]].id # 0}
        ents == {[id |-> call[writers[i]].id,
                  seq |-> lastSeq + Cardinality({j \in with : j <= i})] : i \in with}
    IN  /\ AtFront(c) /\ ~bgError /\ ~Slowed(c) /\ HasRoom(c)
        /\ call[c].id # 0
        /\ n \in 1 .. Len(writers) /\ Joins(n)
        /\ group' = [phase |-> "log", ents |-> ents, todo |-> ents,
                     sync |-> call[c].sync, size |-> n]
        /\ pc' = [pc EXCEPT ![c] = "busy"]
        /\ UNCHANGED <<writers, call, calls, acked, synced, mem, imm, hasImm, lastSeq, logNum,
                       nextFile, bgError, ver, bg, logs, manifests, db, crashes>>

\* A record is appended; after a torn one the reader may not get to it.
Record(lg, ents) ==
    [safe |-> lg.safe, torn |-> lg.torn,
     rest |-> IF lg.torn THEN lg.rest ELSE lg.rest \cup {ents},
     after |-> IF lg.torn THEN lg.after \cup ents ELSE lg.after]

AddRecord ==
    /\ group.phase = "log"
    /\ logs' = WithLog(logNum, Record(logs[logNum], group.ents))
    /\ group' = [group EXCEPT !.phase = IF group.sync THEN "sync" ELSE "insert"]
    /\ UNCHANGED <<writers, pc, call, calls, acked, synced, memVars, manifests, db, crashes>>

\* The append fails.  All of it may have reached the file all the same; or a
\* part of it has, and log::Writer goes on as if it were whole.
AddRecordFails ==
    /\ group.phase = "log"
    /\ \/ /\ "append" \in Faults
          /\ logs' = WithLog(logNum, Record(logs[logNum], group.ents))
       \/ /\ "tear" \in Faults
          /\ logs' = WithLog(logNum, [logs[logNum] EXCEPT !.torn = TRUE])
    /\ group' = [group EXCEPT !.phase = "failed"]
    /\ UNCHANGED <<writers, pc, call, calls, acked, synced, memVars, manifests, db, crashes>>

Synced(lg) == [safe |-> InLog(lg), rest |-> {}, torn |-> lg.torn, after |-> lg.after]

SyncLog ==
    /\ group.phase = "sync"
    /\ logs' = WithLog(logNum, Synced(logs[logNum]))
    /\ group' = [group EXCEPT !.phase = "insert"]
    /\ UNCHANGED <<writers, pc, call, calls, acked, synced, memVars, manifests, db, crashes>>

SyncFails ==
    /\ "sync" \in Faults
    /\ group.phase = "sync"
    /\ group' = [group EXCEPT !.phase = "syncerror"]
    /\ UNCHANGED <<writers, pc, call, calls, acked, synced, memVars, logs, manifests, db, crashes>>

\* InsertInto adds the batch's entries to mem_ one after the other.
Insert(e) ==
    /\ group.phase = "insert"
    /\ e \in group.todo
    /\ \A o \in group.todo : e.seq <= o.seq
    /\ mem' = mem \cup {e}
    /\ group' = [group EXCEPT !.todo = @ \ {e}]
    /\ UNCHANGED <<writers, pc, call, calls, acked, synced, imm, hasImm, lastSeq, logNum,
                   nextFile, bgError, ver, bg, logs, manifests, db, crashes>>

\* With the mutex again: SetLastSequence, whatever happened, and the writers
\* of the group return.
FinishWrite ==
    LET ok == group.phase = "insert" /\ group.todo = {}
        wantsSync(e) == \E i \in 1 .. group.size :
                            call[writers[i]].id = e.id /\ call[writers[i]].sync
    IN  /\ ok \/ group.phase \in {"failed", "syncerror"}
        /\ lastSeq' = lastSeq + Cardinality(group.ents)
        /\ acked' = IF ok THEN acked \cup group.ents ELSE acked
        /\ synced' = IF ok THEN synced \cup {e \in group.ents : wantsSync(e)} ELSE synced
        /\ bgError' = (bgError \/ group.phase = "syncerror")
        /\ Return(group.size)
        /\ group' = NoGroup
        /\ UNCHANGED <<calls, mem, imm, hasImm, logNum, nextFile, ver, bg, logs,
                       manifests, db, crashes>>

(***************************************************************************)
(* The background thread.                                                   *)
(***************************************************************************)
\* LogAndApply puts the last sequence and the next file number in the edit
\* before it releases the mutex to write it.
Edit(adds, log, l0) == [adds |-> adds, log |-> log, l0 |-> l0,
                        seq |-> lastSeq, next |-> nextFile]

\* An edit applied to what a manifest holds.
Apply(m, e) == [log |-> e.log, ents |-> m.ents \cup e.adds, seq |-> e.seq,
                next |-> e.next, l0 |-> m.l0 + e.l0]

\* A wrong EndOfWork, which does not ask whether there is more to do.
EndOfWorkOnce(error, has, l0) ==
    IF bg.merging THEN [bg EXCEPT !.pc = "merge", !.edit = NoEdit] ELSE Resting

\* The call ends, or the compaction that stopped for imm_ goes on.
EndOfWork(error, has, l0) ==
    IF bg.merging THEN [bg EXCEPT !.pc = "merge", !.edit = NoEdit]
    ELSE Schedule(Resting, error, has, l0)

\* BackgroundCall: the immutable memtable first, then a compaction.
BackgroundCall ==
    /\ bg.pc = "scheduled"
    /\ bg' = IF bgError THEN Resting
             ELSE IF hasImm THEN [bg EXCEPT !.pc = "table"]
             ELSE IF ver.l0 >= L0Compaction
                  THEN [bg EXCEPT !.pc = "merge", !.merging = TRUE, !.left = MergeKeys]
             ELSE Resting
    /\ pc' = IF bg'.pc = "idle" THEN SignalAll(pc) ELSE pc
    /\ UNCHANGED <<writers, call, group, calls, acked, synced, mem, imm, hasImm, lastSeq,
                   logNum, nextFile, bgError, ver, logs, manifests, db, crashes>>

\* DoCompactionWork looks at has_imm_ before every key.
MergeStopsForImm ==
    /\ bg.pc = "merge" /\ hasImm /\ bg.left > 0
    /\ bg' = [bg EXCEPT !.pc = "table", !.left = @ - 1]
    /\ UNCHANGED <<clientVars, acked, synced, mem, imm, hasImm, lastSeq, logNum, nextFile,
                   bgError, ver, diskVars, db, crashes>>

\* The merged tables are written: level 0 has one file less, the log number
\* stays what it was.
MergeDone ==
    /\ bg.pc = "merge"
    /\ bg' = [bg EXCEPT !.pc = "edit", !.merging = FALSE,
                        !.edit = Edit({}, ver.log, -1)]
    /\ UNCHANGED <<clientVars, acked, synced, mem, imm, hasImm, lastSeq, logNum, nextFile,
                   bgError, ver, diskVars, db, crashes>>

\* WriteLevel0Table has written and synced the table of imm_, which goes to
\* level 0 or below; earlier logs are no longer needed.
TableWritten(l0) ==
    /\ bg.pc = "table"
    /\ bg' = [bg EXCEPT !.pc = "edit", !.edit = Edit(imm, logNum, l0)]
    /\ imm = {} => l0 = 0
    /\ UNCHANGED <<clientVars, acked, synced, mem, imm, hasImm, lastSeq, logNum, nextFile,
                   bgError, ver, diskVars, db, crashes>>

\* A table cannot be written: RecordBackgroundError.
WorkFails ==
    /\ "table" \in Faults
    /\ bg.pc \in {"table", "merge"}
    /\ bgError' = TRUE
    /\ bg' = IF bg.pc = "table" THEN EndOfWork(TRUE, hasImm, ver.l0) ELSE Resting
    /\ pc' = SignalAll(pc)
    /\ UNCHANGED <<writers, call, group, calls, acked, synced, mem, imm, hasImm, lastSeq,
                   logNum, nextFile, ver, logs, manifests, db, crashes>>

\* DeleteObsoleteFiles, log files.
KeptLogs(error, log) ==
    [n \in {i \in DOMAIN logs : error \/ i >= log} |-> logs[n]]

\* LogAndApply has synced the manifest.  The edit of a flush lets imm_ go.
LogAndApply ==
    LET e == bg.edit
        flushes == e.l0 # -1
        v == Apply(ver, e)
    IN  /\ bg.pc = "edit"
        /\ ver' = v
        /\ manifests' = {Apply(m, e) : m \in manifests}
        /\ imm' = IF flushes THEN {} ELSE imm
        /\ hasImm' = (hasImm /\ ~flushes)
        /\ logs' = KeptLogs(bgError, v.log)
        /\ bg' = EndOfWork(bgError, hasImm', v.l0)
        /\ pc' = SignalAll(pc)
        /\ UNCHANGED <<writers, call, group, calls, acked, synced, mem, lastSeq, logNum,
                       nextFile, bgError, db, crashes>>

\* The record may or may not be found in the manifest: nothing is deleted any
\* more.
ManifestFails ==
    /\ "manifest" \in Faults
    /\ bg.pc = "edit"
    /\ manifests' = manifests \cup {Apply(m, bg.edit) : m \in manifests}
    /\ bgError' = TRUE
    /\ bg' = EndOfWork(TRUE, hasImm, ver.l0)
    /\ pc' = SignalAll(pc)
    /\ UNCHANGED <<writers, call, group, calls, acked, synced, mem, imm, hasImm, lastSeq,
                   logNum, nextFile, ver, logs, db, crashes>>

(***************************************************************************)
(* Crashes and DB::Open.                                                    *)
(***************************************************************************)
\* What a manifest may hold now, a record being written included.
Found == manifests \cup (IF db # "closed" /\ bg.pc = "edit"
                         THEN {Apply(m, bg.edit) : m \in manifests} ELSE {})

\* What may be left of a log when the power goes: what was synced, and any of the
\* records since then.
Remains(lg) == {[safe |-> lg.safe, rest |-> kept, torn |-> lg.torn, after |-> lg.after] :
                   kept \in SUBSET lg.rest}
Survivors == {ls \in [DOMAIN logs -> UNION {Remains(logs[n]) : n \in DOMAIN logs}] :
                \A n \in DOMAIN logs : ls[n] \in Remains(logs[n])}

Down(found) ==
    /\ db # "closed" /\ crashes < MaxCrashes
    /\ crashes' = crashes + 1
    /\ db' = "closed"
    /\ manifests' = {found}
    /\ writers' = <<>> /\ pc' = [c \in Clients |-> "idle"]
    /\ call' = [c \in Clients |-> NoCall] /\ group' = NoGroup
    /\ mem' = {} /\ imm' = {} /\ hasImm' = FALSE /\ bg' = Resting /\ bgError' = FALSE
    /\ ver' = found
    /\ UNCHANGED <<calls, lastSeq, logNum, nextFile, synced>>

\* The process ends, or DB::Open fails because a table or the new manifest could
\* not be written: what was written to files is there.
Kill == /\ \E m \in Found : Down(m)
        /\ UNCHANGED <<logs, acked>>

\* The machine stops: only what was synced is sure to be there.
PowerLoss == /\ \E m \in Found : Down(m)
             /\ logs' \in Survivors
             /\ acked' = synced

\* A wrong Replayed, as if the manifest's tables covered its log.
ReplayedAfter(m) == {n \in DOMAIN logs : n > m.log}

\* DBImpl::Recover: the logs the manifest does not cover are read, each into
\* a table of level 0, their numbers are marked as used, and there is a new log.
Replayed(m) == {n \in DOMAIN logs : n >= m.log}

ReadBack(n, lost) == InLog(logs[n]) \cup (IF lost THEN {} ELSE logs[n].after)

\* A wrong Unused, without MarkFileNumberUsed.
UnusedByManifest(m) == m.next .. nextFile

\* The numbers the new log may get, the tables of the recovery taking some too.
\* Bound: the process that ended has not given out nextFile.
Unused(m) == {n \in m.next .. nextFile : \A r \in Replayed(m) : r < n}

\* A wrong MaxSequence: the manifest's number only.
MaxSequenceOfManifest(m, ents) == m.seq

MaxSequence(m, ents) == Max({m.seq} \cup {e.seq : e \in ents})

Recover(lost, new) ==
    LET m == ver
        ents == UNION {ReadBack(n, lost) : n \in Replayed(m)}
    IN  /\ db = "closed"
        /\ new \in Unused(m)
        /\ lost => \E n \in Replayed(m) : logs[n].after # {}
        /\ db' = "opening"
        /\ logs' = NewLog(new)
        /\ logNum' = new
        /\ nextFile' = new + 1
        /\ lastSeq' = MaxSequence(m, ents)
        /\ ver' = [log |-> new, ents |-> m.ents \cup ents, seq |-> lastSeq', next |-> new + 1,
                   l0 |-> m.l0 + Cardinality({n \in Replayed(m) : ReadBack(n, lost) # {}})]
        /\ UNCHANGED <<clientVars, acked, synced, mem, imm, hasImm, bgError, bg, manifests,
                       crashes>>

\* A new manifest with all of that is written and CURRENT is switched to it.
Open ==
    /\ db = "opening"
    /\ db' = "open"
    /\ manifests' = {ver}
    /\ logs' = KeptLogs(FALSE, ver.log)
    /\ bg' = Schedule(Resting, FALSE, FALSE, ver.l0)
    /\ UNCHANGED <<clientVars, acked, synced, mem, imm, hasImm, lastSeq, logNum, nextFile,
                   bgError, ver, crashes>>

Next ==
    \/ \E c \in Clients, s \in BOOLEAN, null \in BOOLEAN : Write(c, s, null)
    \/ \E c \in Clients : MakeRoomFails(c)
    \/ \E c \in Clients : Slowdown(c)
    \/ \E c \in Clients : SlowdownOver(c)
    \/ \E c \in Clients : WaitForCompaction(c)
    \/ \E c \in Clients : SwitchMemTable(c)
    \/ \E c \in Clients : SwitchFails(c)
    \/ \E c \in Clients : NothingToWrite(c)
    \/ \E c \in Clients, n \in 1 .. Cardinality(Clients) : BuildBatchGroup(c, n)
    \/ AddRecord \/ AddRecordFails \/ SyncLog \/ SyncFails
    \/ \E e \in group.todo : Insert(e)
    \/ FinishWrite
    \/ BackgroundCall \/ MergeStopsForImm \/ MergeDone
    \/ \E l0 \in {0, 1} : TableWritten(l0)
    \/ WorkFails \/ LogAndApply \/ ManifestFails
    \/ Kill \/ PowerLoss
    \/ \E lost \in BOOLEAN, new \in ver.next .. nextFile : Recover(lost, new)
    \/ Open

Spec == Init /\ [][Next]_vars

\* The operating system runs every thread that can go on: a client in Write,
\* and the background thread, whose loops over keys end.
ClientStep(c) ==
    \/ MakeRoomFails(c) \/ Slowdown(c) \/ SlowdownOver(c) \/ WaitForCompaction(c)
    \/ SwitchMemTable(c) \/ NothingToWrite(c)
    \/ \E n \in 1 .. Cardinality(Clients) : BuildBatchGroup(c, n)
LogStep == AddRecord \/ SyncLog \/ (\E e \in group.todo : Insert(e)) \/ FinishWrite
BackgroundStep == BackgroundCall \/ MergeDone \/ LogAndApply \/ \E l0 \in {0, 1} : TableWritten(l0)
FairSpec == Spec /\ (\A c \in Clients : WF_vars(ClientStep(c)))
                 /\ WF_vars(LogStep) /\ WF_vars(BackgroundStep)

(***************************************************************************)
(* Properties.                                                              *)
(***************************************************************************)
IsEntry(e) == e.id \in 1 .. MaxCalls /\ e.seq \in Nat

\* Types, and what the parts of the state mean to each other: one client is at
\* the head of the queue and the others sleep, only the head logs, and imm_ is
\* being made a table until it is gone.
TypeOK ==
    /\ \A c \in Clients : pc[c] = "idle" <=> \A i \in DOMAIN writers : writers[i] # c
    /\ \A i, j \in DOMAIN writers : writers[i] = writers[j] => i = j
    /\ \A i \in DOMAIN writers : pc[writers[i]] = "asleep" <=> i > 1
    /\ group.phase # "none" <=> \E c \in Clients : pc[c] = "busy"
    /\ group.size <= Len(writers)
    /\ \A e \in acked \cup mem \cup imm \cup ver.ents : IsEntry(e)
    /\ synced \subseteq acked
    /\ db = "open" => logNum \in DOMAIN logs /\ logNum < nextFile /\ ver.log <= logNum
    /\ hasImm => bg.pc # "idle" \/ bgError
    /\ ver.l0 >= 0

\* What a recovery from manifest m finds, and what of it is synced.
LogsFrom(m) == {n \in DOMAIN logs : n >= m.log}
Recoverable(m) == m.ents \cup UNION {InLog(logs[n]) : n \in LogsFrom(m)}
Safe(m) == m.ents \cup UNION {logs[n].safe : n \in LogsFrom(m)}

\* A call of Write that returned without an error is not lost when the process
\* ends, at any moment: whatever the manifest is found to hold, the entry is in
\* a table it names or in a log it does not say is covered.  The log must not
\* go before the table that replaces it is in the manifest, a log created after
\* a recovery must not take the name of one still needed, and a failed flush
\* must leave everything in place (DBImpl::Write, Recover, DeleteObsoleteFiles).
NoneLostByKill == \A m \in Found : acked \subseteq Recoverable(m)

\* A call with WriteOptions.sync survives the loss of power as well: it is in a
\* table, which is synced before the manifest names it, or in the synced part
\* of a log.
Durable == \A m \in Found : synced \subseteq Safe(m)

\* A database that is open shows every acknowledged write, in a memtable or in a
\* table: none falls between a log, a memtable and the tables on the way through
\* flushes, failures and recoveries (DBImpl::CompactMemTable, Recover).
AckedFound == db = "open" => acked \subseteq mem \cup imm \cup ver.ents

\* A sequence number belongs to one entry for ever, though a failed write may
\* be in the log and a recovery finds it: the numbers of failed writes are not
\* given out again, and a recovery goes on after the largest number in any log
\* (DBImpl::Write, RecoverLogFile).
SeqUnique ==
    LET all == mem \cup imm \cup group.ents \cup ver.ents
                 \cup (UNION {m.ents : m \in Found}) \cup UNION {InLog(logs[n]) : n \in DOMAIN logs}
    IN  /\ \A e, f \in all : e.seq = f.seq => e = f
        /\ db = "open" => \A e \in acked : e.seq <= lastSeq

\* Every call of Write returns (or ends with the process): nobody waits for a
\* compaction that is not coming, is left asleep when the front writer returns,
\* or waits on after a background error.
EveryWriteReturns == \A c \in Clients : pc[c] # "idle" ~> pc[c] = "idle"
=============================================================================
