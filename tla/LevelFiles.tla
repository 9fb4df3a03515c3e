----------------------------- MODULE LevelFiles -----------------------------
(***************************************************************************)
(* How leveldb keeps its tables (db/db_impl.cc with db/version_set.cc):      *)
(* writes fill a memtable, a full memtable becomes a table, and one          *)
(* background thread merges tables into deeper levels, all beside snapshots  *)
(* and iterators that keep older versions in use.                           *)
(*                                                                         *)
(* An action is what happens under mutex_; the background thread releases it *)
(* while it writes tables, so a flush and a compaction are steps that others *)
(* get in between of.  The log and the manifest are LevelWrite's.           *)
(***************************************************************************)
EXTENDS LevelTables, Sequences

CONSTANTS MaxWrites,      \* bound: entries ever written
          Deletable,      \* bound: the keys that are deleted
          MaxSnapshots,   \* bound: snapshots in use
          MaxIterators,   \* bound: iterators in use
          MaxFiles,       \* bound: file numbers given out
          MaxOutputs,     \* bound: files of one compaction
          L0Trigger,      \* config::kL0_CompactionTrigger
          LevelLimit,     \* MaxBytesForLevel, for every level but the first
          SeekCompactions,\* bound: are there reads enough to charge a file?
          SplitsKeys,     \* may a compaction put one user key in two files?
          ManualRequests, \* bound: the <<level, lo, hi>> TEST_CompactRange is called with
          Errors          \* may writing a table fail?

ASSUME WritesAssumption == MaxWrites \in Nat
ASSUME RequestsAssumption == \A r \in ManualRequests : r[1] \in 0 .. NumLevels - 2

VARIABLES written,        \* history: every entry; versions_->last_sequence_ is their number
          mem, imm,       \* the entries of mem_ and imm_ ({} for NULL)
          current,        \* versions_->current()
          disk,           \* numbers of the table files in the directory
          nextFile,       \* versions_->next_file_number_
          pending,        \* pending_outputs_
          snapshots,      \* snapshots_, by number
          pins,           \* table numbers of the versions iterators hold
          flush,          \* the table CompactMemTable is writing, 0 for none
          compaction,     \* the compaction under way, or NoCompaction
          bgError         \* bg_error_ is set

vars == <<written, mem, imm, current, disk, nextFile, pending, snapshots, pins,
          flush, compaction, bgError>>

NoCompaction == [phase |-> "none"]
LastSequence == Cardinality(written)

Init == /\ written = {} /\ mem = {} /\ imm = {}
        /\ current = [l \in Levels |-> {}]
        /\ disk = {} /\ nextFile = 1 /\ pending = {}
        /\ snapshots = {} /\ pins = {}
        /\ flush = 0 /\ compaction = NoCompaction
        /\ bgError = FALSE

(***************************************************************************)
(* Reads.                                                                   *)
(***************************************************************************)
\* DBImpl::Get: memtable, immutable memtable, then the tables.
GetEntry(k, snap) ==
    IF Seek(mem, k, snap) # {} THEN Seek(mem, k, snap)
    ELSE IF Seek(imm, k, snap) # {} THEN Seek(imm, k, snap)
    ELSE SeekVersion(current, k, snap)

Missing == 0

\* The value a read finds, named by its sequence number.
Value(es) == IF \E e \in es : ~e.del THEN (CHOOSE e \in es : TRUE).seq ELSE Missing
Get(k, snap) == Value(GetEntry(k, snap))

(***************************************************************************)
(* Client calls.                                                            *)
(***************************************************************************)
\* Write of one entry; MakeRoomForWrite refuses it after a background error.
Write(k, del) ==
    LET e == [key |-> k, seq |-> LastSequence + 1, del |-> del]
    IN  /\ ~bgError
        /\ LastSequence < MaxWrites
        /\ del => k \in Deletable
        /\ written' = written \cup {e}
        /\ mem' = mem \cup {e}
        /\ UNCHANGED <<imm, current, disk, nextFile, pending, snapshots, pins,
                       flush, compaction, bgError>>

\* MakeRoomForWrite switches to a new memtable when the old one is full.
SwitchMemTable ==
    /\ ~bgError
    /\ mem # {} /\ imm = {}
    /\ imm' = mem /\ mem' = {}
    /\ UNCHANGED <<written, current, disk, nextFile, pending, snapshots, pins,
                   flush, compaction, bgError>>

GetSnapshot ==
    /\ Cardinality(snapshots) < MaxSnapshots
    /\ LastSequence \notin snapshots
    /\ snapshots' = snapshots \cup {LastSequence}
    /\ UNCHANGED <<written, mem, imm, current, disk, nextFile, pending, pins,
                   flush, compaction, bgError>>

ReleaseSnapshot(s) ==
    /\ s \in snapshots
    /\ snapshots' = snapshots \ {s}
    /\ UNCHANGED <<written, mem, imm, current, disk, nextFile, pending, pins,
                   flush, compaction, bgError>>

\* NewInternalIterator refers to the current version until it is deleted.
NewIterator ==
    /\ Cardinality(pins) < MaxIterators
    /\ Numbers(FilesOf(current)) \notin pins
    /\ pins' = pins \cup {Numbers(FilesOf(current))}
    /\ UNCHANGED <<written, mem, imm, current, disk, nextFile, pending, snapshots,
                   flush, compaction, bgError>>

CleanupIteratorState(files) ==
    /\ files \in pins
    /\ pins' = pins \ {files}
    /\ UNCHANGED <<written, mem, imm, current, disk, nextFile, pending, snapshots,
                   flush, compaction, bgError>>

(***************************************************************************)
(* The background thread.                                                   *)
(***************************************************************************)
InputFiles(c) == IF c.phase = "none" THEN {} ELSE c.in0 \cup c.in1
InputVersion(c) == IF c.phase = "none" THEN {} ELSE Numbers(FilesOf(c.version))

\* VersionSet::AddLiveFiles: the files of every version still referred to.
LiveFiles(v, c) == Numbers(FilesOf(v)) \cup (UNION pins) \cup InputVersion(c)

\* A wrong DeleteObsoleteFiles, which forgets the tables being written.
DeleteAllButLive(files, outputs, v, c) ==
    IF bgError THEN files ELSE files \cap LiveFiles(v, c)

\* DBImpl::DeleteObsoleteFiles, table files.
DeleteObsoleteFiles(files, outputs, v, c) ==
    IF bgError THEN files ELSE files \cap (outputs \cup LiveFiles(v, c))

\* MaybeScheduleCompaction and BackgroundCall let the thread work.
Idle == compaction.phase = "none" /\ flush = 0 /\ ~bgError

\* CompactMemTable up to where the table is being written.  A compaction
\* under way stops for it, and does not ask for bg_error_.
WriteLevel0Table ==
    /\ imm # {} /\ flush = 0
    /\ Idle \/ compaction.phase # "none"
    /\ nextFile <= MaxFiles
    /\ flush' = nextFile
    /\ nextFile' = nextFile + 1
    /\ pending' = pending \cup {nextFile}
    /\ disk' = disk \cup {nextFile}
    /\ UNCHANGED <<written, mem, imm, current, snapshots, pins, compaction, bgError>>

\* The table is written: it joins the current version, and imm_ goes.
CompactMemTable ==
    LET f == File(flush, imm)
        l == PickLevelForMemTableOutput(current, f.smallest.key, f.largest.key)
    IN  /\ flush # 0
        /\ current' = [current EXCEPT ![l] = @ \cup {f}]
        /\ imm' = {}
        /\ pending' = pending \ {flush}
        /\ disk' = DeleteObsoleteFiles(disk, pending', current', compaction)
        /\ flush' = 0
        /\ UNCHANGED <<written, mem, nextFile, snapshots, pins, compaction, bgError>>

\* BuildTable failed and deleted its file: imm_ stays, and so does the error.
CompactMemTableFails ==
    /\ Errors
    /\ flush # 0
    /\ pending' = pending \ {flush}
    /\ disk' = disk \ {flush}
    /\ flush' = 0
    /\ bgError' = TRUE
    /\ UNCHANGED <<written, mem, imm, current, nextFile, snapshots, pins, compaction>>

\* A wrong SmallestSnapshot: nobody looks back.
SmallestIsLast == LastSequence

\* The oldest snapshot: what a compaction has to keep visible.
SmallestSnapshot == IF snapshots = {} THEN LastSequence ELSE Min(snapshots)

\* The files PickCompaction may start from: those of a level that holds too
\* much (compact_pointer_ only says which of them), or one that a Get charged
\* because it had to look into another after it.
SizeCompaction(l) == IF l = 0 THEN Cardinality(current[0]) >= L0Trigger
                              ELSE Size(current[l]) >= LevelLimit
Charged(l, f) ==
    \/ \E m \in l + 1 .. NumLevels - 1 :
           Overlapping(current[m], f.smallest.key, f.largest.key) # {}
    \/ l = 0 /\ \E g \in Overlapping(current[0], f.smallest.key, f.largest.key) : g.num < f.num

\* BackgroundCompaction with the chosen files: a single file that nothing
\* below overlaps just changes its level, other files are merged.
Begin(l, ins, byHand) ==
    LET in0 == ins[1]
        in1 == ins[2]
        f == CHOOSE g \in in0 : TRUE
    IN  IF /\ ~byHand
           /\ in0 = {f} /\ in1 = {}
           /\ Size(Grandparents(current, l, in0)) <= GrandLimit
        THEN /\ current' = [current EXCEPT ![l] = @ \ {f}, ![l + 1] = @ \cup {f}]
             /\ UNCHANGED compaction
        ELSE /\ nextFile + MaxOutputs <= MaxFiles + 1
             /\ compaction' = [phase |-> "merge", level |-> l, in0 |-> in0, in1 |-> in1,
                               version |-> current, smallest |-> SmallestSnapshot,
                               outputs |-> {}]
             /\ UNCHANGED current

PickCompaction(l, f) ==
    /\ Idle /\ imm = {}
    /\ f \in current[l]
    /\ SizeCompaction(l) \/ (SeekCompactions /\ Charged(l, f))
    /\ Begin(l, InputsFrom(current, l, f), FALSE)
    /\ UNCHANGED <<written, mem, imm, disk, nextFile, pending, snapshots, pins,
                   flush, bgError>>

\* A request of TEST_CompactRange for a level and a range.  Below level 0 a
\* large range is taken by parts, "n" files at a time: the loop that asks again
\* for the rest is another request here.
CompactRange(l, lo, hi, n) ==
    LET all == OverlappingInputs(current, l, lo, hi)
        in0 == {f \in all : Cardinality({g \in all : Before(g.largest, f.largest)}) < n}
    IN  /\ Idle /\ imm = {}
        /\ all # {}
        /\ l = 0 => in0 = all
        /\ Begin(l, SetupOtherInputs(current, l, in0), TRUE)
        /\ UNCHANGED <<written, mem, imm, disk, nextFile, pending, snapshots, pins,
                       flush, bgError>>

\* DoCompactionWork opens and writes its output files without the mutex.
WriteOutputs ==
    /\ compaction.phase = "merge" /\ flush = 0
    /\ \E cut \in Outputs(Kept(InputFiles(compaction), compaction.version,
                               compaction.level, compaction.smallest),
                          MaxOutputs, SplitsKeys) :
         \E name \in [cut -> nextFile .. nextFile + Cardinality(cut) - 1] :
            /\ \A a, b \in cut :
                 (\A x \in a, y \in b : Before(x, y)) => name[a] < name[b]
            /\ compaction' = [compaction EXCEPT !.phase = "written",
                                !.outputs = {File(name[es], es) : es \in cut}]
            /\ nextFile' = nextFile + Cardinality(cut)
            /\ pending' = pending \cup {name[es] : es \in cut}
            /\ disk' = disk \cup {name[es] : es \in cut}
    /\ UNCHANGED <<written, mem, imm, current, snapshots, pins, flush, bgError>>

\* InstallCompactionResults, CleanupCompaction, ReleaseInputs and
\* DeleteObsoleteFiles.
InstallCompactionResults ==
    /\ compaction.phase = "written" /\ flush = 0
    /\ current' = [l \in Levels |->
                     (current[l] \ InputFiles(compaction))
                        \cup (IF l = compaction.level + 1 THEN compaction.outputs ELSE {})]
    /\ pending' = pending \ Numbers(compaction.outputs)
    /\ compaction' = NoCompaction
    /\ disk' = DeleteObsoleteFiles(disk, pending', current', compaction')
    /\ UNCHANGED <<written, mem, imm, nextFile, snapshots, pins, flush, bgError>>

\* A wrong CompactionFails, without CleanupCompaction.
CompactionFailsDirty ==
    /\ Errors
    /\ compaction.phase # "none" /\ flush = 0
    /\ bgError' = TRUE
    /\ compaction' = NoCompaction
    /\ UNCHANGED <<written, mem, imm, current, disk, nextFile, pending, snapshots, pins, flush>>

\* An output could not be written: nothing is installed, the files stay
\* until the database is opened again.
CompactionFails ==
    /\ Errors
    /\ compaction.phase # "none" /\ flush = 0
    /\ bgError' = TRUE
    /\ pending' = pending \ Numbers(compaction.outputs)
    /\ compaction' = NoCompaction
    /\ UNCHANGED <<written, mem, imm, current, disk, nextFile, snapshots, pins, flush>>

Next ==
    \/ \E k \in Keys, del \in BOOLEAN : Write(k, del)
    \/ SwitchMemTable
    \/ GetSnapshot
    \/ \E s \in snapshots : ReleaseSnapshot(s)
    \/ NewIterator
    \/ \E files \in pins : CleanupIteratorState(files)
    \/ WriteLevel0Table
    \/ CompactMemTable
    \/ CompactMemTableFails
    \/ \E l \in 0 .. NumLevels - 2 : \E f \in current[l] : PickCompaction(l, f)
    \/ \E r \in ManualRequests, n \in 1 .. MaxWrites : CompactRange(r[1], r[2], r[3], n)
    \/ WriteOutputs
    \/ InstallCompactionResults
    \/ CompactionFails

Spec == Init /\ [][Next]_vars

(***************************************************************************)
(* Properties.                                                              *)
(***************************************************************************)
Entries == [key : Keys, seq : 1 .. MaxWrites, del : BOOLEAN]

\* Types, and what the fields mean to each other: a table is never empty, a
\* table being written is pending, and no number is given out twice.
TypeOK ==
    /\ written \subseteq Entries
    /\ mem \cup imm \subseteq written
    /\ DOMAIN current = Levels
    /\ \A f \in FilesOf(current) : f.num < nextFile /\ f.ents # {} /\ f.ents \subseteq written
    /\ disk \subseteq 1 .. nextFile - 1
    /\ pending = (IF flush = 0 THEN {} ELSE {flush})
                    \cup (IF compaction.phase = "written" THEN Numbers(compaction.outputs) ELSE {})
    /\ snapshots \subseteq 0 .. LastSequence
    /\ bgError \in BOOLEAN

\* Below level 0 the files of a level do not overlap.  Builder::MaybeAddFile
\* asserts it, and SeekLevel, which opens one file of a level, needs it.
LevelsDisjoint ==
    \A l \in Levels \ {0} : \A f, g \in current[l] :
        f # g => Before(f.largest, g.smallest) \/ Before(g.largest, f.smallest)

\* What is found first is what was written last: an entry that a read meets
\* earlier (memtables, then level by level, level 0 from its newest file) is
\* newer than every entry of its key that it would meet later.  Flushes that
\* skip levels, moves and merges all have to keep this; Version::Get relies on
\* it ("if we find data in an smaller level, later levels are irrelevant").
NewerFirst ==
    LET newer(xs, ys) == \A x \in xs, y \in ys : x.key = y.key => x.seq > y.seq
        level(l) == UNION {f.ents : f \in current[l]}
    IN  /\ newer(mem, imm)
        /\ \A l \in Levels : newer(mem \cup imm, level(l))
        /\ \A f, g \in current[0] : f.num > g.num => newer(f.ents, g.ents)
        /\ \A l, m \in Levels : l < m => newer(level(l), level(m))

\* No table is deleted while someone may still read it or is about to install
\* it: the current version, iterators, a compaction's inputs and outputs, and
\* a table a flush is writing, whichever of them ends first.
FilesKept ==
    LiveFiles(current, compaction) \cup pending \subseteq disk

\* Every read is right: at the newest sequence number and at every snapshot
\* Get finds the last write of the key up to then, or that it was deleted,
\* whatever was flushed, moved, merged or dropped meanwhile.
ReadsRight ==
    \A k \in Keys, snap \in snapshots \cup {LastSequence} :
        Get(k, snap) = Value(Seek(written, k, snap))

\* The tables, memtables and drops of compactions implement a dictionary with
\* snapshots: what a snapshot shows does not change until it is released.
Store == INSTANCE KeyValueStore WITH
            Values <- 1 .. MaxWrites,
            Snapshots <- 0 .. MaxWrites,
            dict <- [k \in Keys |-> Get(k, LastSequence)],
            views <- [s \in snapshots |-> [k \in Keys |-> Get(k, s)]]
IsKeyValueStore == Store!Spec
=============================================================================
