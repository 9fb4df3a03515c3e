-------------------------- MODULE LevelFilesProofs --------------------------
(***************************************************************************)
(* Proofs about LevelFiles: whatever is flushed, merged or asked for by      *)
(* hand, no file that may still be read is deleted, and what is read is right. *)
(***************************************************************************)
EXTENDS LevelFiles, LevelTablesProofs

(***************************************************************************)
(* The invariant of the files.                                              *)
(***************************************************************************)
\* A file has a number that was given out, and entries that were written.
FileOK(f) == f.num \in Nat /\ f.num < nextFile /\ Table(f) /\ f.ents \subseteq written

\* Sequence numbers count the entries.
Entered ==
    /\ IsFiniteSet(written) /\ written \subseteq Entries /\ Distinct(written)
    /\ LastSequence <= MaxWrites /\ \A e \in written : e.seq <= LastSequence
    /\ mem \subseteq written /\ imm \subseteq written
    /\ snapshots \subseteq 0 .. LastSequence

Installed ==
    /\ current = [l \in Levels |-> current[l]]
    /\ \A l \in Levels : \A f \in current[l] : FileOK(f)
    /\ nextFile \in Nat \ {0} /\ flush \in Nat /\ bgError \in BOOLEAN
    /\ flush # 0 => imm # {}

Merging ==
    \/ compaction = NoCompaction
    \/ /\ compaction = [phase |-> compaction.phase, level |-> compaction.level,
                        in0 |-> compaction.in0, in1 |-> compaction.in1,
                        version |-> compaction.version, smallest |-> compaction.smallest,
                        outputs |-> compaction.outputs]
       /\ compaction.phase \in {"merge", "written"}
       /\ compaction.level \in 0 .. NumLevels - 2
       /\ \A f \in compaction.in0 \cup compaction.in1 \cup compaction.outputs : FileOK(f)

\* What is being written is pending, and nobody reads it yet.
Numbered ==
    /\ disk \subseteq 1 .. nextFile - 1
    /\ pending = (IF flush = 0 THEN {} ELSE {flush})
                    \cup (IF compaction.phase = "written" THEN Numbers(compaction.outputs) ELSE {})
    /\ flush # 0 => /\ flush \notin LiveFiles(current, compaction)
                    /\ compaction.phase = "written" => flush \notin Numbers(compaction.outputs)
    /\ FilesKept

FilesInv == Entered /\ Installed /\ Merging /\ Numbered

(***************************************************************************)
(* Files: parts of a step.                                                  *)
(***************************************************************************)
LEMMA EntriesAreRecords == Entries \subseteq Records
BY WritesAssumption DEF Entries, Records

LEMMA CountWritten == Entered => LastSequence \in Nat /\ written \subseteq Records
BY EntriesAreRecords, FS_CardinalityType DEF Entered, LastSequence

LEMMA InFiles ==
    ASSUME NEW v, NEW f
    PROVE  f \in FilesOf(v) <=> \E l \in Levels : f \in v[l]
BY DEF FilesOf

\* A file stays what it is while more is written and numbered.
LEMMA FileStays ==
    ASSUME NEW f, FileOK(f), nextFile \in Nat, nextFile' \in Nat, nextFile <= nextFile',
           written \subseteq written'
    PROVE  FileOK(f)'
BY DEF FileOK

\* A new table with a new number is a file.
LEMMA NewFile ==
    ASSUME Entered, NEW ents, ents # {}, ents \subseteq written, NEW n \in Nat
    PROVE  /\ Table(File(n, ents)) /\ File(n, ents).num = n /\ File(n, ents).ents = ents
           /\ n < nextFile => FileOK(File(n, ents))
<1>1. ents \subseteq Records /\ Distinct(ents) /\ \A e \in ents : e.seq <= LastSequence
  BY CountWritten DEF Entered, Distinct
<1>2. Table(File(n, ents)) /\ File(n, ents).num = n /\ File(n, ents).ents = ents
  BY <1>1, CountWritten, FileIsTable
<1>. QED  BY <1>2 DEF FileOK

\* Steps that change neither entries nor what is installed.
LEMMA EnteredSame ==
    ASSUME Entered, UNCHANGED <<written, mem, imm, snapshots>>
    PROVE  Entered'
BY DEF Entered, LastSequence

LEMMA InstalledSame ==
    ASSUME Installed, UNCHANGED <<current, imm, bgError>>, nextFile' \in Nat, nextFile <= nextFile',
           written \subseteq written', flush' \in {0, flush}
    PROVE  Installed'
<1>1. \A l \in Levels : \A f \in current[l] : FileOK(f)'
  BY FileStays DEF Installed
<1>. QED  BY <1>1 DEF Installed

LEMMA MergingSame ==
    ASSUME Merging, UNCHANGED compaction, nextFile \in Nat, nextFile' \in Nat, nextFile <= nextFile',
           written \subseteq written'
    PROVE  Merging'
<1>1. ASSUME NEW f, FileOK(f)  PROVE FileOK(f)'
  BY <1>1, FileStays
<1>. QED  BY <1>1 DEF Merging

(***************************************************************************)
(* Files: the client's steps.                                               *)
(***************************************************************************)
LEMMA WriteFiles ==
    ASSUME FilesInv, NEW k \in Keys, NEW del \in BOOLEAN, Write(k, del)
    PROVE  /\ FilesInv'
           /\ LastSequence' = LastSequence + 1 /\ LastSequence \in Nat
           /\ written' = written \cup {[key |-> k, seq |-> LastSequence + 1, del |-> del]}
           /\ mem' = mem \cup {[key |-> k, seq |-> LastSequence + 1, del |-> del]}
<1>. DEFINE e == [key |-> k, seq |-> LastSequence + 1, del |-> del]
<1>1. LastSequence \in Nat /\ written \subseteq Records
  BY CountWritten DEF FilesInv
<1>2. e \notin written /\ e \in Entries
  <2>1. \A x \in written : x.seq <= LastSequence /\ x.seq \in Nat
    BY <1>1 DEF FilesInv, Entered, Records
  <2>2. e \in Entries
    BY <1>1, WritesAssumption DEF Write, Entries
  <2>. QED  BY <1>1, <2>1, <2>2
<1>3. /\ written' = written \cup {e} /\ mem' = mem \cup {e}
      /\ UNCHANGED <<imm, current, disk, nextFile, pending, snapshots, pins, flush, compaction, bgError>>
  BY DEF Write
<1>. HIDE DEF e
<1>4. IsFiniteSet(written') /\ LastSequence' = LastSequence + 1
  BY <1>2, <1>3, FS_AddElement DEF FilesInv, Entered, LastSequence
<1>5. e.seq = LastSequence + 1
  BY DEF e
<1>6. Entered'
  <2>1. written' \subseteq Entries
    BY <1>2, <1>3 DEF FilesInv, Entered
  <2>2. \A x \in written : x.seq <= LastSequence /\ x.seq \in Nat
    BY <1>1 DEF FilesInv, Entered, Records
  <2>3. Distinct(written')
    BY <1>1, <1>3, <1>5, <2>2 DEF FilesInv, Entered, Distinct
  <2>4. \A x \in written' : x.seq <= LastSequence'
    BY <1>1, <1>3, <1>4, <1>5, <2>2
  <2>5. snapshots' \subseteq 0 .. LastSequence'
    BY <1>1, <1>3, <1>4 DEF FilesInv, Entered
  <2>6. LastSequence' <= MaxWrites
    BY <1>1, <1>4, WritesAssumption DEF Write
  <2>. QED  BY <1>3, <1>4, <2>1, <2>3, <2>4, <2>5, <2>6 DEF FilesInv, Entered
<1>7. Installed'
  BY <1>3, InstalledSame DEF FilesInv, Installed
<1>8. Merging'
  BY <1>3, MergingSame DEF FilesInv, Installed
<1>9. Numbered'
  BY <1>3 DEF FilesInv, Numbered, FilesKept, LiveFiles
<1>. QED  BY <1>1, <1>3, <1>4, <1>6, <1>7, <1>8, <1>9 DEF FilesInv, e

LEMMA SwitchFiles ==
    ASSUME FilesInv, SwitchMemTable
    PROVE  FilesInv'
<1>1. Entered'
  BY DEF FilesInv, Entered, SwitchMemTable, LastSequence
<1>2. Installed'
  <2>1. \A l \in Levels : \A f \in current[l] : FileOK(f)'
    BY FileStays DEF FilesInv, Installed, SwitchMemTable
  <2>. QED  BY <2>1 DEF FilesInv, Installed, SwitchMemTable
<1>3. Merging'
  BY MergingSame DEF FilesInv, Installed, SwitchMemTable
<1>4. Numbered'
  BY DEF FilesInv, Numbered, FilesKept, LiveFiles, SwitchMemTable
<1>. QED  BY <1>1, <1>2, <1>3, <1>4 DEF FilesInv

\* Snapshots and iterators come and go.
LEMMA ReaderFiles ==
    ASSUME FilesInv,
           \/ GetSnapshot \/ NewIterator
           \/ \E s \in snapshots : ReleaseSnapshot(s)
           \/ \E files \in pins : CleanupIteratorState(files)
    PROVE  FilesInv'
<1>1. /\ UNCHANGED <<written, mem, imm, current, disk, nextFile, pending, flush, compaction, bgError>>
      /\ snapshots' \subseteq snapshots \cup {LastSequence}
      /\ UNION pins' \subseteq (UNION pins) \cup Numbers(FilesOf(current))
  BY DEF GetSnapshot, NewIterator, ReleaseSnapshot, CleanupIteratorState
<1>2. Entered'
  <2>1. LastSequence \in 0 .. LastSequence
    BY CountWritten DEF FilesInv
  <2>. QED  BY <1>1, <2>1 DEF FilesInv, Entered, LastSequence
<1>3. Installed'
  BY <1>1, InstalledSame DEF FilesInv, Installed
<1>4. Merging'
  BY <1>1, MergingSame DEF FilesInv, Installed
<1>5. LiveFiles(current, compaction)' \subseteq LiveFiles(current, compaction)
  BY <1>1 DEF LiveFiles
<1>6. Numbered'
  BY <1>1, <1>5 DEF FilesInv, Numbered, FilesKept
<1>. QED  BY <1>2, <1>3, <1>4, <1>6 DEF FilesInv

(***************************************************************************)
(* Files: flushes.                                                          *)
(***************************************************************************)
LEMMA TableFiles ==
    ASSUME FilesInv, WriteLevel0Table
    PROVE  FilesInv'
<1>1. /\ UNCHANGED <<written, mem, imm, current, snapshots, pins, compaction, bgError>>
      /\ imm # {} /\ flush = 0 /\ flush' = nextFile /\ nextFile' = nextFile + 1
      /\ pending' = pending \cup {nextFile} /\ disk' = disk \cup {nextFile}
  BY DEF WriteLevel0Table
<1>2. nextFile \in Nat \ {0} /\ nextFile \notin disk
  BY DEF FilesInv, Installed, Numbered
<1>3. Entered'
  BY <1>1, EnteredSame DEF FilesInv
<1>4. Installed'
  <2>1. \A l \in Levels : \A f \in current[l] : FileOK(f)'
    BY <1>1, <1>2, FileStays DEF FilesInv, Installed
  <2>. QED  BY <1>1, <1>2, <2>1 DEF FilesInv, Installed
<1>5. Merging'
  BY <1>1, <1>2, MergingSame DEF FilesInv
<1>6. LiveFiles(current, compaction)' = LiveFiles(current, compaction)
  BY <1>1 DEF LiveFiles
<1>7. Numbered'
  <2>1. disk' \subseteq 1 .. nextFile' - 1
    BY <1>1, <1>2 DEF FilesInv, Numbered
  <2>2. compaction.phase = "written" => nextFile \notin Numbers(compaction.outputs)
    BY <1>2 DEF FilesInv, Numbered, FilesKept
  <2>. QED  BY <1>1, <1>2, <1>6, <2>1, <2>2 DEF FilesInv, Numbered, FilesKept
<1>. QED  BY <1>3, <1>4, <1>5, <1>7 DEF FilesInv

\* What a flush installs, and where.
LEMMA FlushInstalls ==
    ASSUME FilesInv, CompactMemTable
    PROVE  LET f == File(flush, imm)
               l == PickLevelForMemTableOutput(current, f.smallest.key, f.largest.key)
           IN  /\ FileOK(f) /\ f.num = flush /\ f.ents = imm
               /\ l \in Levels /\ l \in Nat
               /\ l > 0 => \A m \in 0 .. l : \A g \in current[m] :
                              ~Touches(g, f.smallest.key, f.largest.key)
               /\ current' = [m \in Levels |-> IF m = l THEN current[m] \cup {f} ELSE current[m]]
<1>. DEFINE f == File(flush, imm)
            l == PickLevelForMemTableOutput(current, f.smallest.key, f.largest.key)
<1>1. flush \in Nat /\ flush < nextFile /\ imm # {} /\ imm \subseteq written
  BY DEF FilesInv, Installed, Numbered, FilesKept, Entered, CompactMemTable
<1>2. FileOK(f) /\ f.num = flush /\ f.ents = imm
  BY <1>1, NewFile DEF FilesInv
<1>3. current' = [current EXCEPT ![l] = @ \cup {f}]
  BY Zenon DEF CompactMemTable, f, l
<1>. HIDE DEF f
<1>4. /\ l \in Levels /\ l \in Nat
      /\ l > 0 => \A m \in 0 .. l : \A g \in current[m] :
                     ~Touches(g, f.smallest.key, f.largest.key)
  BY PickedLevel
<1>. HIDE DEF l
<1>5. current' = [m \in Levels |-> IF m = l THEN current[m] \cup {f} ELSE current[m]]
  BY <1>3 DEF FilesInv, Installed
<1>. QED  BY <1>2, <1>4, <1>5 DEF f, l

LEMMA FlushFiles ==
    ASSUME FilesInv, CompactMemTable
    PROVE  FilesInv'
<1>. DEFINE f == File(flush, imm)
            l == PickLevelForMemTableOutput(current, f.smallest.key, f.largest.key)
<1>1. /\ FileOK(f) /\ f.num = flush /\ l \in Levels
      /\ current' = [m \in Levels |-> IF m = l THEN current[m] \cup {f} ELSE current[m]]
  BY FlushInstalls
<1>. HIDE DEF f, l
<1>2. /\ UNCHANGED <<written, mem, nextFile, snapshots, pins, compaction, bgError>>
      /\ flush # 0 /\ imm' = {} /\ flush' = 0 /\ pending' = pending \ {flush}
      /\ disk' = DeleteObsoleteFiles(disk, pending', current', compaction)
  BY DEF CompactMemTable
<1>3. Entered'
  BY <1>2 DEF FilesInv, Entered, LastSequence
<1>4. nextFile \in Nat
  BY DEF FilesInv, Installed
<1>5. \A g : FileOK(g) => FileOK(g)'
  BY <1>2, <1>4, FileStays
<1>6. Installed'
  BY <1>1, <1>2, <1>5 DEF FilesInv, Installed
<1>7. Merging'
  BY <1>2, <1>4, MergingSame DEF FilesInv
<1>8. Numbers(FilesOf(current')) \subseteq Numbers(FilesOf(current)) \cup {flush}
  BY <1>1 DEF Numbers, FilesOf
<1>10. flush \in disk /\ flush \in pending
  BY <1>2 DEF FilesInv, Numbered, FilesKept
<1>. DEFINE live == LiveFiles(current', compaction)
<1>11. LiveFiles(current, compaction)' = live
  BY <1>2 DEF LiveFiles
<1>12. disk' = IF bgError THEN disk ELSE disk \cap (pending' \cup live)
  BY <1>2 DEF DeleteObsoleteFiles
<1>13. live \cup pending' \subseteq disk
  BY <1>2, <1>8, <1>10 DEF FilesInv, Numbered, FilesKept, LiveFiles
<1>14. pending' = IF compaction.phase = "written" THEN Numbers(compaction.outputs) ELSE {}
  BY <1>2 DEF FilesInv, Numbered
<1>. HIDE DEF live
<1>15. Numbered'
  BY <1>2, <1>11, <1>12, <1>13, <1>14 DEF FilesInv, Numbered, FilesKept
<1>. QED  BY <1>3, <1>6, <1>7, <1>15 DEF FilesInv

LEMMA FlushFailsFiles ==
    ASSUME FilesInv, CompactMemTableFails
    PROVE  FilesInv'
<1>1. /\ UNCHANGED <<written, mem, imm, current, nextFile, snapshots, pins, compaction>>
      /\ flush # 0 /\ flush' = 0 /\ bgError' = TRUE
      /\ pending' = pending \ {flush} /\ disk' = disk \ {flush}
  BY DEF CompactMemTableFails
<1>2. Entered'
  BY <1>1, EnteredSame DEF FilesInv
<1>3. Installed'
  <2>1. \A l \in Levels : \A f \in current[l] : FileOK(f)'
    BY <1>1, FileStays DEF FilesInv, Installed
  <2>. QED  BY <1>1, <2>1 DEF FilesInv, Installed
<1>4. Merging'
  BY <1>1, MergingSame DEF FilesInv, Installed
<1>5. LiveFiles(current, compaction)' = LiveFiles(current, compaction)
  BY <1>1 DEF LiveFiles
<1>6. Numbered'
  BY <1>1, <1>5 DEF FilesInv, Numbered, FilesKept
<1>. QED  BY <1>2, <1>3, <1>4, <1>6 DEF FilesInv

(***************************************************************************)
(* Files: compactions.                                                      *)
(***************************************************************************)
\* The chosen file changes its level, or a merge begins.
LEMMA BeginFiles ==
    ASSUME FilesInv, Idle, NEW l \in 0 .. NumLevels - 2, NEW ins, NEW byHand,
           ins[1] \subseteq current[l], ins[2] \subseteq current[l + 1],
           Begin(l, ins, byHand),
           UNCHANGED <<written, mem, imm, disk, nextFile, pending, snapshots, pins, flush, bgError>>
    PROVE  FilesInv'
<1>1. l \in Levels /\ l + 1 \in Levels /\ l # l + 1
  BY LevelsAssumption DEF Levels
<1>2. nextFile \in Nat /\ \A f : FileOK(f) => FileOK(f)'
  BY FileStays DEF FilesInv, Installed
<1>3. Entered'
  BY EnteredSame DEF FilesInv
<1>4. flush = 0 /\ compaction.phase = "none"
  BY DEF Idle
<1>5. compaction = NoCompaction /\ InputVersion(compaction) = {}
  BY <1>4 DEF FilesInv, Merging, InputVersion
<1>6. CASE \E f \in ins[1] : /\ current' = [current EXCEPT ![l] = @ \ {f}, ![l + 1] = @ \cup {f}]
                             /\ UNCHANGED compaction
  <2>1. PICK f \in ins[1] : current' = [current EXCEPT ![l] = @ \ {f}, ![l + 1] = @ \cup {f}]
    BY <1>6
  <2>2. /\ current' = [m \in Levels |-> current'[m]]
        /\ \A m \in Levels : current'[m] \subseteq current[m] \cup {f}
    BY <1>1, <2>1 DEF FilesInv, Installed
  <2>3. f \in current[l] /\ FileOK(f)
    BY <1>1 DEF FilesInv, Installed
  <2>4. Installed'
    BY <1>2, <2>2, <2>3 DEF FilesInv, Installed
  <2>5. Merging'
    BY <1>5, <1>6 DEF Merging
  <2>6. FilesOf(current') \subseteq FilesOf(current)
    BY <1>1, <2>2, <2>3 DEF FilesOf
  <2>7. LiveFiles(current, compaction)' \subseteq LiveFiles(current, compaction)
    BY <1>6, <2>6 DEF LiveFiles, Numbers
  <2>8. Numbered'
    BY <1>4, <1>6, <2>7 DEF FilesInv, Numbered, FilesKept
  <2>. QED  BY <1>3, <2>4, <2>5, <2>8 DEF FilesInv
<1>7. CASE /\ compaction' = [phase |-> "merge", level |-> l, in0 |-> ins[1], in1 |-> ins[2],
                             version |-> current, smallest |-> SmallestSnapshot, outputs |-> {}]
           /\ UNCHANGED current
  <2>1. Installed'
    BY <1>7, InstalledSame, <1>2 DEF FilesInv
  <2>2. \A f \in ins[1] \cup ins[2] : FileOK(f)'
    BY <1>1, <1>2 DEF FilesInv, Installed
  <2>3. Merging'
    BY <1>7, <2>2 DEF Merging
  <2>4. compaction'.phase = "merge" /\ InputVersion(compaction') = Numbers(FilesOf(current))
    BY <1>7 DEF InputVersion
  <2>5. LiveFiles(current, compaction)' \subseteq LiveFiles(current, compaction)
    BY <1>7, <2>4 DEF LiveFiles
  <2>6. Numbered'
    BY <1>4, <2>4, <2>5 DEF FilesInv, Numbered, FilesKept
  <2>. QED  BY <1>3, <2>1, <2>3, <2>6 DEF FilesInv
<1>. QED  BY <1>6, <1>7 DEF Begin

LEMMA PickFiles ==
    ASSUME FilesInv, NEW l \in 0 .. NumLevels - 2, NEW f \in current[l], PickCompaction(l, f)
    PROVE  FilesInv'
<1>1. /\ InputsFrom(current, l, f)[1] \subseteq current[l]
      /\ InputsFrom(current, l, f)[2] \subseteq current[l + 1]
  BY InputsSubset, SetupSubset DEF InputsFrom
<1>. QED  BY <1>1, BeginFiles DEF PickCompaction

LEMMA RangeFiles ==
    ASSUME FilesInv, NEW r \in ManualRequests, NEW n, CompactRange(r[1], r[2], r[3], n)
    PROVE  FilesInv'
<1>. DEFINE all == OverlappingInputs(current, r[1], r[2], r[3])
            in0 == {f \in all : Cardinality({g \in all : Before(g.largest, f.largest)}) < n}
<1>1. r[1] \in 0 .. NumLevels - 2
  BY RequestsAssumption
<1>2. in0 \subseteq current[r[1]]
  BY InputsSubset
<1>. HIDE DEF in0
<1>3. /\ SetupOtherInputs(current, r[1], in0)[1] \subseteq current[r[1]]
      /\ SetupOtherInputs(current, r[1], in0)[2] \subseteq current[r[1] + 1]
  BY <1>2, SetupSubset
<1>4. /\ Idle /\ Begin(r[1], SetupOtherInputs(current, r[1], in0), TRUE)
      /\ UNCHANGED <<written, mem, imm, disk, nextFile, pending, snapshots, pins, flush, bgError>>
  BY DEF CompactRange, in0
<1>. QED  BY <1>1, <1>3, <1>4, BeginFiles

\* The outputs a step writes: each part of the cut becomes a file.
Wrote(cut, name) ==
    /\ nextFile' \in Nat /\ nextFile <= nextFile' /\ name \in [cut -> nextFile .. nextFile' - 1]
    /\ \A es \in cut : /\ es # {} /\ es \subseteq written
                       /\ FileOK(File(name[es], es))'
                       /\ File(name[es], es).num = name[es]
                       /\ File(name[es], es).ents = es
    /\ compaction' = [compaction EXCEPT !.phase = "written",
                        !.outputs = {File(name[es], es) : es \in cut}]
    /\ pending' = pending \cup {name[es] : es \in cut}
    /\ disk' = disk \cup {name[es] : es \in cut}

LEMMA OutputsWritten ==
    ASSUME FilesInv, WriteOutputs
    PROVE  \E cut \in Outputs(Kept(InputFiles(compaction), compaction.version,
                                   compaction.level, compaction.smallest),
                              MaxOutputs, SplitsKeys) :
              \E name : Wrote(cut, name)
<1>. DEFINE kept == Kept(InputFiles(compaction), compaction.version,
                         compaction.level, compaction.smallest)
<1>1. PICK cut \in Outputs(kept, MaxOutputs, SplitsKeys) :
      \E name \in [cut -> nextFile .. nextFile + Cardinality(cut) - 1] :
             /\ compaction' = [compaction EXCEPT !.phase = "written",
                                 !.outputs = {File(name[es], es) : es \in cut}]
             /\ nextFile' = nextFile + Cardinality(cut)
             /\ pending' = pending \cup {name[es] : es \in cut}
             /\ disk' = disk \cup {name[es] : es \in cut}
  BY Zenon DEF WriteOutputs
<1>2. PICK name \in [cut -> nextFile .. nextFile + Cardinality(cut) - 1] :
             /\ compaction' = [compaction EXCEPT !.phase = "written",
                                 !.outputs = {File(name[es], es) : es \in cut}]
             /\ nextFile' = nextFile + Cardinality(cut)
             /\ pending' = pending \cup {name[es] : es \in cut}
             /\ disk' = disk \cup {name[es] : es \in cut}
  BY <1>1
<1>3. /\ UNCHANGED <<written, mem, imm, current, snapshots, pins, flush, bgError>>
      /\ compaction.phase = "merge" /\ flush = 0
  BY DEF WriteOutputs
<1>4. kept \subseteq written
  <2>1. \A f \in InputFiles(compaction) : f.ents \subseteq written
    BY <1>3 DEF FilesInv, Merging, NoCompaction, InputFiles, FileOK
  <2>. QED  BY <2>1 DEF Kept
<1>. HIDE DEF kept
<1>5. /\ kept \subseteq Records /\ Distinct(kept) /\ IsFiniteSet(kept)
      /\ LastSequence \in Nat /\ \A e \in kept : e.seq <= LastSequence
  BY <1>4, CountWritten, FS_Subset DEF FilesInv, Entered, Distinct
<1>6. IsFiniteSet(cut) /\ \A es \in cut : es # {} /\ es \subseteq kept
  <2>1. cut \in Outputs(kept, MaxOutputs, SplitsKeys)
    OBVIOUS
  <2>. QED  BY ONLY <1>5, <2>1, OutputsParts
<1>7. Cardinality(cut) \in Nat /\ nextFile \in Nat
  BY <1>6, FS_CardinalityType DEF FilesInv, Installed
<1>8. nextFile' \in Nat /\ nextFile <= nextFile' /\ name \in [cut -> nextFile .. nextFile' - 1]
  BY <1>2, <1>7
<1>9. ASSUME NEW es \in cut
      PROVE  /\ es # {} /\ es \subseteq written
             /\ FileOK(File(name[es], es))'
             /\ File(name[es], es).num = name[es] /\ File(name[es], es).ents = es
  <2>1. name[es] \in nextFile .. nextFile' - 1
    BY <1>8
  <2>2. name[es] \in Nat /\ name[es] < nextFile'
    BY <1>7, <1>8, <2>1
  <2>3. es # {} /\ es \subseteq written
    BY <1>4, <1>6
  <2>4. /\ Table(File(name[es], es)) /\ File(name[es], es).num = name[es]
        /\ File(name[es], es).ents = es
    BY <2>2, <2>3, NewFile DEF FilesInv
  <2>. QED  BY <1>3, <2>2, <2>3, <2>4 DEF FileOK
<1>10. Wrote(cut, name)
  BY <1>2, <1>8, <1>9 DEF Wrote
<1>. QED  BY <1>10 DEF kept

LEMMA OutputsFiles ==
    ASSUME FilesInv, WriteOutputs
    PROVE  FilesInv'
<1>1. /\ UNCHANGED <<written, mem, imm, current, snapshots, pins, flush, bgError>>
      /\ compaction.phase = "merge" /\ flush = 0
  BY DEF WriteOutputs
<1>2. PICK cut, name : Wrote(cut, name)
  BY OutputsWritten
<1>3. Entered'
  BY <1>1, EnteredSame DEF FilesInv
<1>4. nextFile \in Nat \ {0} /\ \A f : FileOK(f) => FileOK(f)'
  BY <1>1, <1>2, FileStays DEF FilesInv, Installed, Wrote
<1>5. Installed'
  BY <1>1, <1>2, <1>4, InstalledSame DEF FilesInv, Wrote
<1>. DEFINE out == {File(name[es], es) : es \in cut}
<1>6. /\ compaction' = [phase |-> "written", level |-> compaction.level,
                        in0 |-> compaction.in0, in1 |-> compaction.in1,
                        version |-> compaction.version, smallest |-> compaction.smallest,
                        outputs |-> out]
      /\ compaction.level \in 0 .. NumLevels - 2
      /\ \A f \in compaction.in0 \cup compaction.in1 : FileOK(f)
  <2>. HIDE DEF out
  <2>1. compaction' = [compaction EXCEPT !.phase = "written", !.outputs = out]
    BY <1>2 DEF out, Wrote
  <2>2. compaction # NoCompaction
    BY <1>1 DEF NoCompaction
  <2>. QED  BY <2>1, <2>2 DEF FilesInv, Merging
<1>7. \A f \in out : FileOK(f)'
  BY <1>2 DEF Wrote
<1>8. Numbers(out) = {name[es] : es \in cut}
  BY <1>2 DEF Numbers, Wrote
<1>. HIDE DEF out
<1>9. Merging'
  BY <1>4, <1>6, <1>7 DEF Merging
<1>10. LiveFiles(current, compaction)' = LiveFiles(current, compaction)
  BY <1>1, <1>6 DEF LiveFiles, InputVersion
<1>11. Numbered'
  <2>1. disk' \subseteq 1 .. nextFile' - 1
    <3>1. \A es \in cut : name[es] \in 1 .. nextFile' - 1
      BY <1>2, <1>4 DEF Wrote
    <3>. QED  BY <1>2, <1>4, <3>1 DEF FilesInv, Numbered, Wrote
  <2>2. pending' = Numbers(out)
    BY <1>1, <1>2, <1>8 DEF FilesInv, Numbered, Wrote
  <2>3. compaction'.phase = "written" /\ compaction'.outputs = out
    BY <1>6
  <2>4. disk' = disk \cup Numbers(out)
    BY <1>2, <1>8 DEF Wrote
  <2>5. LiveFiles(current, compaction) \subseteq disk
    BY DEF FilesInv, Numbered, FilesKept
  <2>. QED  BY <1>1, <1>10, <2>1, <2>2, <2>3, <2>4, <2>5 DEF Numbered, FilesKept
<1>. QED  BY <1>3, <1>5, <1>9, <1>11 DEF FilesInv

LEMMA InstallFiles ==
    ASSUME FilesInv, InstallCompactionResults
    PROVE  FilesInv'
<1>1. /\ compaction.phase = "written" /\ flush = 0
      /\ current' = [l \in Levels |->
                       (current[l] \ InputFiles(compaction))
                          \cup (IF l = compaction.level + 1 THEN compaction.outputs ELSE {})]
      /\ pending' = pending \ Numbers(compaction.outputs)
      /\ compaction' = NoCompaction
      /\ disk' = DeleteObsoleteFiles(disk, pending', current', compaction')
      /\ UNCHANGED <<written, mem, imm, nextFile, snapshots, pins, flush, bgError>>
  BY DEF InstallCompactionResults
<1>2. Entered'
  BY <1>1, EnteredSame DEF FilesInv
<1>3. nextFile \in Nat /\ \A f : FileOK(f) => FileOK(f)'
  BY <1>1, FileStays DEF FilesInv, Installed
<1>4. \A f \in compaction.outputs : FileOK(f)
  BY <1>1 DEF FilesInv, Merging, NoCompaction
<1>5. Installed'
  BY <1>1, <1>3, <1>4 DEF FilesInv, Installed
<1>6. Merging'
  BY <1>1 DEF Merging
<1>7. pending' = {} /\ pending = Numbers(compaction.outputs)
  BY <1>1 DEF FilesInv, Numbered
<1>8. Numbers(FilesOf(current')) \subseteq Numbers(FilesOf(current)) \cup Numbers(compaction.outputs)
  BY <1>1 DEF Numbers, FilesOf
<1>9. LiveFiles(current, compaction)' \subseteq disk
  BY <1>1, <1>7, <1>8 DEF FilesInv, Numbered, FilesKept, LiveFiles, InputVersion, NoCompaction
<1>10. disk' = IF bgError THEN disk ELSE disk \cap (pending' \cup LiveFiles(current, compaction)')
  BY <1>1 DEF DeleteObsoleteFiles, LiveFiles
<1>11. compaction'.phase = "none"
  BY <1>1 DEF NoCompaction
<1>12. Numbered'
  BY <1>1, <1>7, <1>9, <1>10, <1>11 DEF FilesInv, Numbered, FilesKept
<1>. QED  BY <1>2, <1>5, <1>6, <1>12 DEF FilesInv

LEMMA MergeFailsFiles ==
    ASSUME FilesInv, CompactionFails
    PROVE  FilesInv'
<1>1. /\ compaction.phase # "none" /\ flush = 0 /\ bgError' = TRUE
      /\ pending' = pending \ Numbers(compaction.outputs)
      /\ compaction' = NoCompaction
      /\ UNCHANGED <<written, mem, imm, current, disk, nextFile, snapshots, pins, flush>>
  BY DEF CompactionFails
<1>2. Entered'
  BY <1>1, EnteredSame DEF FilesInv
<1>3. Installed'
  <2>1. \A l \in Levels : \A f \in current[l] : FileOK(f)'
    BY <1>1, FileStays DEF FilesInv, Installed
  <2>. QED  BY <1>1, <2>1 DEF FilesInv, Installed
<1>4. Merging'
  BY <1>1 DEF Merging
<1>5. LiveFiles(current, compaction)' \subseteq LiveFiles(current, compaction)
  BY <1>1 DEF LiveFiles, InputVersion, NoCompaction
<1>6. pending' = {} /\ compaction'.phase = "none"
  BY <1>1 DEF FilesInv, Numbered, NoCompaction
<1>7. Numbered'
  BY <1>1, <1>5, <1>6 DEF FilesInv, Numbered, FilesKept
<1>. QED  BY <1>2, <1>3, <1>4, <1>7 DEF FilesInv

(***************************************************************************)
(* Files: the theorem.                                                      *)
(***************************************************************************)
LEMMA InitFiles == Init => FilesInv
<1>. SUFFICES ASSUME Init  PROVE FilesInv
  OBVIOUS
<1>1. Entered
  BY FS_EmptySet, WritesAssumption DEF Init, Entered, Distinct, LastSequence
<1>2. Installed
  <2>1. current = [l \in Levels |-> current[l]] /\ \A l \in Levels : current[l] = {}
    BY DEF Init
  <2>2. nextFile = 1 /\ flush = 0 /\ bgError = FALSE
    BY DEF Init
  <2>3. \A l \in Levels : \A f \in current[l] : FileOK(f)
    BY <2>1
  <2>4. nextFile \in Nat \ {0} /\ flush \in Nat /\ (flush # 0 => imm # {})
    BY <2>2
  <2>5. bgError \in BOOLEAN
    BY <2>2, Zenon
  <2>. QED  BY <2>1, <2>3, <2>4, <2>5, Zenon DEF Installed
<1>3. Merging
  BY DEF Init, Merging
<1>4. Numbers(FilesOf(current)) = {}
  BY DEF Init, FilesOf, Numbers
<1>5. Numbered
  BY <1>4 DEF Init, Numbered, FilesKept, LiveFiles, InputVersion, NoCompaction
<1>. QED  BY <1>1, <1>2, <1>3, <1>5 DEF FilesInv

LEMMA NextFiles == FilesInv /\ [Next]_vars => FilesInv'
<1>. SUFFICES ASSUME FilesInv, [Next]_vars  PROVE FilesInv'
  OBVIOUS
<1>1. CASE UNCHANGED vars
  BY <1>1 DEF vars, FilesInv, Entered, Installed, Merging, Numbered, FilesKept, LiveFiles,
              FileOK, LastSequence
<1>2. CASE Next
  BY <1>2, WriteFiles, SwitchFiles, ReaderFiles, TableFiles, FlushFiles, FlushFailsFiles,
     PickFiles, RangeFiles, OutputsFiles, InstallFiles, MergeFailsFiles DEF Next
<1>. QED  BY <1>1, <1>2

LEMMA FilesInvariant == Spec => []FilesInv
BY InitFiles, NextFiles, PTL DEF Spec

\* No table goes that someone may still read or is about to install, for any keys,
\* levels, triggers, manual requests and numbers of snapshots and iterators:
\* DeleteObsoleteFiles keeps what versions refer to and what is pending.
THEOREM NoFileLost == Spec => []FilesKept
<1>1. FilesInv => FilesKept
  BY DEF FilesInv, Numbered
<1>. QED  BY <1>1, FilesInvariant, PTL

\* The state is well typed, and no file number is given out twice.
THEOREM FilesTyped == Spec => []TypeOK
<1>1. FilesInv => TypeOK
  <2>. SUFFICES ASSUME FilesInv  PROVE TypeOK
    OBVIOUS
  <2>1. \A f \in FilesOf(current) : f.num < nextFile /\ f.ents # {} /\ f.ents \subseteq written
    BY DEF FilesInv, Installed, FilesOf, FileOK, Table
  <2>2. DOMAIN current = Levels
    BY DEF FilesInv, Installed
  <2>. QED  BY <2>1, <2>2 DEF FilesInv, Entered, Installed, Numbered, TypeOK
<1>. QED  BY <1>1, FilesInvariant, PTL

(***************************************************************************)
(* What LevelFiles reads.  If compactions by hand are for one key, and if no  *)
(* merge puts a user key in two files or no snapshot is in use: the levels    *)
(* stay in order, and the tables implement a dictionary with snapshots.       *)
(***************************************************************************)

\* No compaction by hand is for more than a key, and no output ends between two
\* entries of one key unless no snapshot is ever in use.
NeverSplit ==
    /\ \A r \in ManualRequests : r[2] \in Keys /\ r[3] = r[2]
    /\ ~SplitsKeys \/ MaxSnapshots = 0

(***************************************************************************)
(* The invariant of the entries.                                            *)
(***************************************************************************)
LevelEnts(l) == EntsOf(current[l])
Tree == mem \cup imm \cup UNION {LevelEnts(l) : l \in Levels}

\* NewerFirst, part by part.
Ordered ==
    /\ Newer(mem, imm)
    /\ \A l \in Levels : Newer(mem, LevelEnts(l)) /\ Newer(imm, LevelEnts(l))
    /\ \A f, g \in current[0] : f.num > g.num => Newer(f.ents, g.ents)
    /\ \A l, m \in Levels : l < m => Newer(LevelEnts(l), LevelEnts(m))

\* Files of level 0 are numbered in the order of their flushes.
Flushed ==
    /\ \A f, g \in current[0] : f.num = g.num => f = g
    /\ flush # 0 => \A f \in current[0] : f.num < flush

\* Below level 0 no two files of a level have a key between them.
KeysApart == \A l \in Levels \ {0} : \A f, g \in current[l] : f # g => Apart(f, g)

Ins == compaction.in0 \cup compaction.in1

\* Is the file left or right of all of these?
AsideOf(g, fs) == \/ \A f \in fs : g.largest.key < f.smallest.key
                  \/ \A f \in fs : f.largest.key < g.smallest.key

\* What chosen inputs have to do with the files beside them: what stays on the level
\* is newer, what stays on the next level is left or right of all of them, and where
\* nothing was below a key nothing is.
Free(v, l, in0, in1, base) ==
    /\ in0 \subseteq v[l] /\ in1 \subseteq v[l + 1]
    /\ \A g \in v[l] \ in0 : Newer(g.ents, EntsOf(in0 \cup in1))
    /\ \A g \in v[l + 1] \ in1 : AsideOf(g, in0 \cup in1)
    /\ \A e \in EntsOf(in0 \cup in1) : IsBaseLevelForKey(base, l, e.key) =>
          \A m \in l + 2 .. NumLevels - 1 : \A x \in EntsOf(v[m]) : x.key # e.key

\* A compaction's inputs still are so, although flushes have gone on.
Beside ==
    compaction.phase # "none" =>
        /\ Free(current, compaction.level, compaction.in0, compaction.in1, compaction.version)
        /\ Solid(Ins)

\* The snapshot a compaction goes by is older than all in use.
Oldest ==
    compaction.phase # "none" =>
        /\ compaction.smallest \in Nat /\ compaction.smallest <= LastSequence
        /\ \A s \in snapshots : compaction.smallest <= s
        /\ MaxSnapshots = 0 => \A e \in EntsOf(Ins) : e.seq <= compaction.smallest

\* Written outputs are what is kept of the inputs, in files apart.
WrittenOut ==
    compaction.phase = "written" =>
        /\ EntsOf(compaction.outputs) = Kept(Ins, compaction.version, compaction.level,
                                             compaction.smallest)
        /\ \A f, g \in compaction.outputs : f # g => Apart(f, g)

\* Is there an entry that hides e from everyone?
Hidden(e) == \E o \in written : /\ o.key = e.key /\ o.seq > e.seq
                                /\ \A s \in snapshots : s < e.seq \/ o.seq <= s

\* An entry that is in no table is hidden, or is a deletion with nothing older left.
Present ==
    \A e \in written \ Tree :
        Hidden(e) \/ (e.del /\ \A x \in Tree : x.key = e.key => x.seq > e.seq)

EntriesInv == /\ Ordered /\ Flushed /\ KeysApart /\ Beside /\ Oldest /\ WrittenOut /\ Present
              /\ MaxSnapshots = 0 => snapshots = {}

(***************************************************************************)
(* Parts of a step.                                                         *)
(***************************************************************************)
\* What the invariant of the files gives here.
LEMMA Basics ==
    ASSUME FilesInv
    PROVE  /\ LastSequence \in Nat /\ written \subseteq Records /\ Distinct(written)
           /\ mem \subseteq written /\ imm \subseteq written
           /\ Tables(current)
           /\ \A l \in Levels : LevelEnts(l) \subseteq written
           /\ Tree \subseteq written
           /\ 0 \in Levels /\ Levels \subseteq Nat
           /\ \A e \in written : e.seq \in Nat /\ e.seq <= LastSequence
<1>1. LastSequence \in Nat /\ written \subseteq Records
  BY CountWritten DEF FilesInv
<1>2. mem \subseteq written /\ imm \subseteq written /\ Distinct(written)
  BY DEF FilesInv, Entered
<1>3. Tables(current) /\ \A l \in Levels : LevelEnts(l) \subseteq written
  BY DEF FilesInv, Installed, FileOK, Tables, LevelEnts, EntsOf
<1>4. 0 \in Levels /\ Levels \subseteq Nat
  BY LevelsAssumption DEF Levels
<1>5. \A e \in written : e.seq \in Nat /\ e.seq <= LastSequence
  BY <1>1 DEF FilesInv, Entered, Records
<1>. QED  BY <1>1, <1>2, <1>3, <1>4, <1>5 DEF Tree

\* A compaction under way has its fields.
LEMMA UnderWay ==
    ASSUME FilesInv, compaction.phase # "none"
    PROVE  /\ compaction.level \in 0 .. NumLevels - 2
           /\ compaction.level \in Levels /\ compaction.level + 1 \in Levels
           /\ compaction.level \in Nat
           /\ \A f \in Ins \cup compaction.outputs : FileOK(f)
           /\ EntsOf(Ins) \subseteq written
           /\ InputFiles(compaction) = Ins
<1>1. /\ compaction.level \in 0 .. NumLevels - 2
      /\ \A f \in compaction.in0 \cup compaction.in1 \cup compaction.outputs : FileOK(f)
  BY DEF FilesInv, Merging, NoCompaction
<1>2. /\ compaction.level \in Levels /\ compaction.level + 1 \in Levels
      /\ compaction.level \in Nat
  BY <1>1, LevelsAssumption DEF Levels
<1>. QED  BY <1>1, <1>2 DEF Ins, EntsOf, FileOK, InputFiles

\* Steps that leave the entries where they are, and may give a compaction up or let
\* a snapshot go.
LEMMA EntriesSame ==
    ASSUME EntriesInv, UNCHANGED <<written, mem, imm, current>>,
           compaction' \in {compaction, NoCompaction}, snapshots' \subseteq snapshots,
           flush' # 0 => \A f \in current[0] : f.num < flush'
    PROVE  EntriesInv'
<1>1. Ordered' /\ KeysApart' /\ Tree' = Tree
  BY DEF EntriesInv, Ordered, KeysApart, LevelEnts, Tree
<1>2. Flushed'
  BY DEF EntriesInv, Flushed
<1>3. compaction' = compaction \/ compaction'.phase = "none"
  BY DEF NoCompaction
<1>4. Beside'
  BY <1>3 DEF EntriesInv, Beside, Ins
<1>5. Oldest'
  BY <1>3 DEF EntriesInv, Oldest, Ins, LastSequence
<1>6. WrittenOut'
  BY <1>3 DEF EntriesInv, WrittenOut, Ins
<1>7. Present'
  BY <1>1 DEF EntriesInv, Present, Hidden
<1>. QED  BY <1>1, <1>2, <1>4, <1>5, <1>6, <1>7 DEF EntriesInv

(***************************************************************************)
(* The client's steps.                                                      *)
(***************************************************************************)
LEMMA WriteEntries ==
    ASSUME FilesInv, EntriesInv, NEW k \in Keys, NEW del \in BOOLEAN, Write(k, del)
    PROVE  EntriesInv'
<1>. DEFINE e == [key |-> k, seq |-> LastSequence + 1, del |-> del]
<1>1. /\ LastSequence' = LastSequence + 1 /\ LastSequence \in Nat
      /\ written' = written \cup {e} /\ mem' = mem \cup {e}
      /\ UNCHANGED <<imm, current, snapshots, flush, compaction>>
  BY WriteFiles DEF Write
<1>2. e.seq = LastSequence + 1
  OBVIOUS
<1>. HIDE DEF e
<1>3. \A x \in written : x.seq \in Nat /\ x.seq <= LastSequence
  BY Basics
<1>4. ASSUME NEW xs, xs \subseteq written, Newer(mem, xs)  PROVE Newer(mem', xs)
  BY <1>1, <1>2, <1>3, <1>4 DEF Newer
<1>5. imm \subseteq written /\ Tree \subseteq written /\ \A l \in Levels : LevelEnts(l) \subseteq written
  BY Basics
<1>6. Ordered'
  BY <1>1, <1>4, <1>5 DEF EntriesInv, Ordered, LevelEnts
<1>7. Flushed' /\ KeysApart' /\ Beside' /\ WrittenOut'
  BY <1>1 DEF EntriesInv, Flushed, KeysApart, Beside, WrittenOut, Ins
<1>8. Oldest'
  <2>1. \A n \in Nat : n <= LastSequence => n <= LastSequence'
    BY <1>1
  <2>. QED  BY <1>1, <2>1 DEF EntriesInv, Oldest, Ins
<1>9. Tree' = Tree \cup {e}
  BY <1>1 DEF Tree, LevelEnts
<1>10. Present'
  <2>. SUFFICES ASSUME NEW d \in written \ Tree
                PROVE  Hidden(d)' \/ (d.del /\ \A x \in Tree' : x.key = d.key => x.seq > d.seq)
    BY <1>1, <1>9 DEF Present
  <2>1. CASE Hidden(d)
    BY <1>1, <2>1 DEF Hidden
  <2>2. CASE d.del /\ \A x \in Tree : x.key = d.key => x.seq > d.seq
    <3>1. e.seq > d.seq
      BY <1>1, <1>2, <1>3
    <3>. QED  BY <1>9, <2>2, <3>1
  <2>. QED  BY <2>1, <2>2 DEF EntriesInv, Present
<1>. QED  BY <1>1, <1>6, <1>7, <1>8, <1>10 DEF EntriesInv

LEMMA SwitchEntries ==
    ASSUME EntriesInv, SwitchMemTable
    PROVE  EntriesInv'
<1>1. /\ mem' = {} /\ imm' = mem /\ imm = {}
      /\ UNCHANGED <<written, current, snapshots, flush, compaction>>
  BY DEF SwitchMemTable
<1>2. Ordered'
  BY <1>1 DEF EntriesInv, Ordered, Newer, LevelEnts
<1>3. Flushed' /\ KeysApart' /\ Beside' /\ WrittenOut' /\ Oldest'
  BY <1>1 DEF EntriesInv, Flushed, KeysApart, Beside, WrittenOut, Oldest, Ins, LastSequence
<1>4. Tree' = Tree
  BY <1>1 DEF Tree, LevelEnts
<1>5. Present'
  BY <1>1, <1>4 DEF EntriesInv, Present, Hidden
<1>. QED  BY <1>1, <1>2, <1>3, <1>5 DEF EntriesInv

\* A new snapshot is at the last entry, which hides nothing from it.
LEMMA SnapshotEntries ==
    ASSUME FilesInv, EntriesInv, GetSnapshot
    PROVE  EntriesInv'
<1>1. /\ snapshots' = snapshots \cup {LastSequence} /\ Cardinality(snapshots) < MaxSnapshots
      /\ UNCHANGED <<written, mem, imm, current, flush, compaction>>
  BY DEF GetSnapshot
<1>2. LastSequence \in Nat /\ \A e \in written : e.seq <= LastSequence
  BY Basics
<1>3. MaxSnapshots # 0
  <2>1. IsFiniteSet(snapshots)
    <3>1. IsFiniteSet(0 .. LastSequence)
      BY <1>2, FS_Interval
    <3>. QED  BY <3>1, FS_Subset DEF FilesInv, Entered
  <2>2. Cardinality(snapshots) \in Nat
    BY <2>1, FS_CardinalityType
  <2>. QED  BY <1>1, <2>2
<1>4. Ordered' /\ Flushed' /\ KeysApart' /\ Beside' /\ WrittenOut' /\ Tree' = Tree
  BY <1>1 DEF EntriesInv, Ordered, Flushed, KeysApart, Beside, WrittenOut, Ins, Tree, LevelEnts
<1>5. Oldest'
  BY <1>1, <1>3 DEF EntriesInv, Oldest, LastSequence
<1>6. Present'
  <2>1. ASSUME NEW e, Hidden(e)  PROVE Hidden(e)'
    BY <1>1, <1>2, <2>1 DEF Hidden
  <2>. QED  BY <1>1, <1>4, <2>1 DEF EntriesInv, Present
<1>. QED  BY <1>3, <1>4, <1>5, <1>6 DEF EntriesInv

(***************************************************************************)
(* Flushes.                                                                 *)
(***************************************************************************)
\* Tables with an entry of one key touch each other's ranges.
LEMMA SameKeyTouches ==
    ASSUME NEW f, NEW g, Table(f), Table(g),
           NEW x \in f.ents, NEW y \in g.ents, x.key = y.key
    PROVE  Touches(g, f.smallest.key, f.largest.key) /\ ~Apart(f, g) /\ ~Apart(g, f)
<1>1. /\ f.smallest.key <= x.key /\ x.key <= f.largest.key
      /\ f.smallest.key \in Nat /\ f.largest.key \in Nat
  BY TableKeys
<1>2. /\ g.smallest.key <= y.key /\ y.key <= g.largest.key
      /\ g.smallest.key \in Nat /\ g.largest.key \in Nat
  BY TableKeys
<1>3. x.key \in Nat
  BY KeysAssumption DEF Table, Records
<1>. QED  BY <1>1, <1>2, <1>3 DEF Touches, Apart

\* A table that touches none of a solid set of files is left or right of them.
LEMMA SolidAside ==
    ASSUME NEW fs, Solid(fs), NEW g, Table(g), \A f \in fs : Table(f),
           \A f \in fs : Apart(f, g)
    PROVE  AsideOf(g, fs)
<1>1. /\ g.smallest.key \in Keys /\ g.largest.key \in Keys
      /\ g.smallest.key \in Nat /\ g.largest.key \in Nat
      /\ g.smallest.key <= g.largest.key
  BY TableKeys
<1>2. \A f \in fs : f.smallest.key \in Nat /\ f.largest.key \in Nat
  BY TableKeys
<1>3. \A f \in fs : ~Touches(f, g.smallest.key, g.largest.key)
  BY <1>1, <1>2 DEF Touches, Apart
<1>. QED  BY <1>1, <1>3 DEF Solid, AsideOf

LEMMA FlushEntries ==
    ASSUME FilesInv, EntriesInv, CompactMemTable
    PROVE  EntriesInv'
<1>. DEFINE f == File(flush, imm)
            l == PickLevelForMemTableOutput(current, f.smallest.key, f.largest.key)
<1>1. /\ FileOK(f) /\ f.num = flush /\ f.ents = imm
      /\ l \in Levels /\ l \in Nat
      /\ l > 0 => \A m \in 0 .. l : \A g \in current[m] :
                     ~Touches(g, f.smallest.key, f.largest.key)
      /\ current' = [m \in Levels |-> IF m = l THEN current[m] \cup {f} ELSE current[m]]
  BY FlushInstalls
<1>. HIDE DEF f, l
<1>2. /\ imm' = {} /\ flush # 0 /\ flush' = 0
      /\ UNCHANGED <<written, mem, snapshots, compaction>>
  BY DEF CompactMemTable
<1>3. /\ Tables(current) /\ 0 \in Levels /\ Levels \subseteq Nat /\ Table(f)
      /\ flush \in Nat
  BY <1>1, Basics DEF FileOK, FilesInv, Installed
<1>4. \A m \in Levels : LevelEnts(m)' = LevelEnts(m) \cup (IF m = l THEN imm ELSE {})
  BY <1>1 DEF LevelEnts, EntsOf
\* Nothing on the levels from 0 to a deeper one has a key of the table.
<1>5. ASSUME l > 0, NEW m \in Levels, m <= l, NEW g \in current[m]
      PROVE  /\ Apart(f, g) /\ Apart(g, f)
             /\ \A x \in imm, y \in g.ents : x.key # y.key
  <2>1. Table(g) /\ m \in 0 .. l
    BY <1>1, <1>3, <1>5 DEF Tables
  <2>2. ~Touches(g, f.smallest.key, f.largest.key)
    BY <1>1, <1>5, <2>1
  <2>3. \A x \in imm, y \in g.ents : x.key # y.key
    BY <1>1, <1>3, <2>1, <2>2, SameKeyTouches
  <2>4. /\ f.smallest.key \in Nat /\ f.largest.key \in Nat
        /\ g.smallest.key \in Nat /\ g.largest.key \in Nat
    BY <1>3, <2>1, TableKeys
  <2>. QED  BY <2>2, <2>3, <2>4 DEF Touches, Apart
<1>6. Ordered'
  <2>1. Newer(mem, imm)' /\ \A m \in Levels : Newer(mem, LevelEnts(m))' /\ Newer(imm, LevelEnts(m))'
    BY <1>2, <1>4 DEF EntriesInv, Ordered, Newer
  <2>2. ASSUME NEW g \in current[0]'  PROVE g \in current[0] \/ (l = 0 /\ g = f)
    BY <1>1, <1>3
  <2>3. \A g \in current[0] : g.num < flush /\ g.num \in Nat /\ Newer(imm, g.ents)
    BY <1>2, <1>3 DEF EntriesInv, Flushed, Ordered, LevelEnts, EntsOf, Newer, FilesInv, Installed, FileOK
  <2>4. \A g, h \in current[0]' : g.num > h.num => Newer(g.ents, h.ents)
    BY <1>1, <1>3, <2>2, <2>3 DEF EntriesInv, Ordered
  <2>5. ASSUME NEW a \in Levels, NEW b \in Levels, a < b
        PROVE  Newer(LevelEnts(a), LevelEnts(b))'
    <3>1. Newer(LevelEnts(a), LevelEnts(b)) /\ Newer(imm, LevelEnts(b))
      BY <2>5 DEF EntriesInv, Ordered
    <3>2. ASSUME b = l  PROVE Newer(LevelEnts(a), imm)
      <4>1. l > 0 /\ a <= l
        BY <1>3, <2>5, <3>2
      <4>. QED  BY <1>5, <4>1 DEF Newer, LevelEnts, EntsOf
    <3>3. SUFFICES ASSUME NEW x \in LevelEnts(a)', NEW y \in LevelEnts(b)', x.key = y.key
                   PROVE  x.seq > y.seq
      BY DEF Newer
    <3>4. /\ a # b
          /\ x \in LevelEnts(a) \/ (a = l /\ x \in imm)
          /\ y \in LevelEnts(b) \/ (b = l /\ y \in imm)
      BY <1>3, <1>4, <2>5, <3>3
    <3>. QED  BY <3>1, <3>2, <3>3, <3>4 DEF Newer
  <2>. QED  BY <2>1, <2>4, <2>5 DEF Ordered
<1>7. Flushed'
  <2>1. \A g \in current[0] : g.num < flush /\ g.num \in Nat
    BY <1>2, <1>3 DEF EntriesInv, Flushed, FilesInv, Installed, FileOK
  <2>. QED  BY <1>1, <1>2, <1>3, <2>1 DEF EntriesInv, Flushed
<1>8. KeysApart'
  <2>1. ASSUME NEW m \in Levels \ {0}, NEW g \in current[m]', NEW h \in current[m]', g # h
        PROVE  Apart(g, h)
    <3>1. CASE g \in current[m] /\ h \in current[m]
      BY <2>1, <3>1 DEF EntriesInv, KeysApart
    <3>2. CASE m = l
      <4>1. l > 0 /\ m <= l
        BY <1>3, <3>2
      <4>. QED  BY <1>1, <1>5, <2>1, <3>1, <3>2, <4>1
    <3>. QED  BY <1>1, <3>1, <3>2
  <2>. QED  BY <2>1 DEF KeysApart
<1>9. Beside'
  <2>. SUFFICES ASSUME compaction.phase # "none"
                PROVE  Free(current', compaction.level, compaction.in0, compaction.in1,
                            compaction.version)
    BY <1>2 DEF EntriesInv, Beside, Ins
  <2>. DEFINE c == compaction.level
  <2>1. /\ c \in Levels /\ c + 1 \in Levels /\ c \in Nat /\ c <= NumLevels - 2
        /\ \A g \in Ins : FileOK(g)
    BY UnderWay
  <2>2. /\ Free(current, c, compaction.in0, compaction.in1, compaction.version)
        /\ Solid(Ins)
    BY DEF EntriesInv, Beside
  <2>3. \A g \in Ins : g \in current[c] \/ g \in current[c + 1]
    BY <2>2 DEF Free, Ins
  <2>4. Newer(imm, EntsOf(Ins))
    <3>1. Newer(imm, LevelEnts(c)) /\ Newer(imm, LevelEnts(c + 1))
      BY <2>1 DEF EntriesInv, Ordered
    <3>. QED  BY <2>3, <3>1 DEF Newer, EntsOf, LevelEnts
  <2>. HIDE DEF c
  <2>5. ASSUME l = c + 1  PROVE AsideOf(f, Ins)
    <3>1. \A g \in Ins : Apart(g, f) /\ Table(g)
      <4>1. l > 0 /\ c <= l /\ c + 1 <= l
        BY <2>1, <2>5
      <4>. QED  BY <1>5, <2>1, <2>3, <4>1 DEF FileOK
    <3>. QED  BY <1>3, <2>2, <3>1, SolidAside
  <2>6. ASSUME NEW m \in c + 2 .. NumLevels - 1, NEW e \in EntsOf(Ins), NEW x \in imm, l = m
        PROVE  x.key # e.key
    <3>1. PICK g \in Ins : e \in g.ents
      BY DEF EntsOf
    <3>2. l > 0 /\ c <= l /\ c + 1 <= l
      BY <2>1, <2>6
    <3>. QED  BY <1>5, <2>1, <2>3, <3>1, <3>2
  <2>7. \A m \in c + 2 .. NumLevels - 1 :
           /\ m \in Levels
           /\ EntsOf(current'[m]) = EntsOf(current[m]) \cup (IF m = l THEN imm ELSE {})
    <3>1. \A m \in c + 2 .. NumLevels - 1 : m \in Levels
      BY <2>1, LevelsAssumption DEF Levels
    <3>. QED  BY <1>4, <3>1 DEF LevelEnts
  <2>8. /\ current'[c] \subseteq current[c] \cup {f} /\ current[c] \subseteq current'[c]
        /\ current'[c + 1] \subseteq current[c + 1] \cup (IF l = c + 1 THEN {f} ELSE {})
        /\ current[c + 1] \subseteq current'[c + 1]
    BY <1>1, <2>1
  <2>9. \A g \in current'[c] \ compaction.in0 : Newer(g.ents, EntsOf(Ins))
    BY <1>1, <2>2, <2>4, <2>8 DEF Free, Ins
  <2>10. \A g \in current'[c + 1] \ compaction.in1 : AsideOf(g, Ins)
    BY <2>2, <2>5, <2>8 DEF Free, Ins
  <2>11. \A e \in EntsOf(Ins) : IsBaseLevelForKey(compaction.version, c, e.key) =>
            \A m \in c + 2 .. NumLevels - 1 : \A x \in EntsOf(current'[m]) : x.key # e.key
    BY <2>2, <2>6, <2>7 DEF Free, Ins
  <2>12. compaction.in0 \subseteq current'[c] /\ compaction.in1 \subseteq current'[c + 1]
    BY <2>2, <2>8 DEF Free
  <2>13. Free(current', c, compaction.in0, compaction.in1, compaction.version)
    BY <2>9, <2>10, <2>11, <2>12 DEF Free, Ins
  <2>. QED  BY <2>13 DEF c
<1>10. Oldest' /\ WrittenOut'
  BY <1>2 DEF EntriesInv, Oldest, WrittenOut, Ins, LastSequence
<1>11. Tree' = Tree
  <2>1. UNION {LevelEnts(m)' : m \in Levels} = imm \cup UNION {LevelEnts(m) : m \in Levels}
    BY <1>1, <1>4
  <2>. QED  BY <1>2, <2>1 DEF Tree
<1>12. Present'
  BY <1>2, <1>11 DEF EntriesInv, Present, Hidden
<1>. QED  BY <1>2, <1>6, <1>7, <1>8, <1>9, <1>10, <1>12 DEF EntriesInv

(***************************************************************************)
(* Compactions begin.                                                       *)
(***************************************************************************)
\* Chosen inputs leave files behind that are newer, or left or right of them.
LEMMA LeftBehind ==
    ASSUME FilesInv, EntriesInv, NEW l \in 0 .. NumLevels - 2, NEW in0, NEW in1,
           Chosen(current, l, in0, in1)
    PROVE  Free(current, l, in0, in1, current)
<1>1. /\ Tables(current) /\ 0 \in Levels /\ Levels \subseteq Nat
      /\ l \in Levels /\ l + 1 \in Levels /\ l \in Nat /\ l < l + 1 /\ l + 1 # 0
  BY Basics, LevelsAssumption DEF Levels
<1>2. /\ in0 \subseteq current[l] /\ in0 # {} /\ in1 \subseteq current[l + 1]
      /\ \A g \in current[l + 1] : Touches(g, FirstKey(in0), LastKey(in0)) => g \in in1
      /\ Solid(in0 \cup in1)
      /\ l = 0 => \A f \in in0, g \in current[0] :
                     Touches(g, f.smallest.key, f.largest.key) => g \in in0
  BY DEF Chosen
<1>3. \A f \in current[l] \cup current[l + 1] : Table(f)
  BY <1>1 DEF Tables
<1>4. ASSUME NEW g \in current[l] \ in0, NEW f \in in0, NEW x \in g.ents, NEW y \in f.ents,
             x.key = y.key
      PROVE  FALSE
  <2>1. Table(g) /\ Table(f)
    BY <1>2, <1>3
  <2>2. Touches(g, f.smallest.key, f.largest.key) /\ ~Apart(g, f)
    BY <1>4, <2>1, SameKeyTouches
  <2>3. l # 0 => Apart(g, f)
    BY <1>1, <1>2 DEF EntriesInv, KeysApart
  <2>. QED  BY <1>2, <2>2, <2>3
<1>5. \A g \in current[l] \ in0 : Newer(g.ents, EntsOf(in0 \cup in1))
  <2>1. Newer(LevelEnts(l), LevelEnts(l + 1))
    BY <1>1 DEF EntriesInv, Ordered
  <2>2. SUFFICES ASSUME NEW g \in current[l] \ in0, NEW x \in g.ents,
                        NEW f \in in0 \cup in1, NEW y \in f.ents, x.key = y.key
                 PROVE  x.seq > y.seq
    BY DEF Newer, EntsOf
  <2>3. CASE f \in in0
    BY <1>4, <2>2, <2>3
  <2>4. CASE f \in in1
    BY <1>2, <2>1, <2>2, <2>4 DEF Newer, LevelEnts, EntsOf
  <2>. QED  BY <2>3, <2>4
<1>6. ASSUME NEW g \in current[l + 1] \ in1  PROVE AsideOf(g, in0 \cup in1)
  <2>1. Table(g) /\ \A f \in in0 \cup in1 : Table(f)
    BY <1>2, <1>3
  <2>2. ~Touches(g, FirstKey(in0), LastKey(in0))
    BY <1>2
  <2>3. /\ FirstKey(in0) \in Nat /\ LastKey(in0) \in Nat
        /\ \A f \in in0 : FirstKey(in0) <= f.smallest.key /\ f.largest.key <= LastKey(in0)
    BY <1>2, <2>1, RangeOf, KeysAssumption
  <2>4. ASSUME NEW f \in in0  PROVE Apart(f, g)
    <3>1. f.smallest.key \in Nat /\ f.largest.key \in Nat /\ g.smallest.key \in Nat /\ g.largest.key \in Nat
      BY <2>1, TableKeys
    <3>. QED  BY <2>2, <2>3, <3>1 DEF Touches, Apart
  <2>5. ASSUME NEW f \in in1  PROVE Apart(f, g)
    BY <1>1, <1>2 DEF EntriesInv, KeysApart
  <2>. QED  BY <1>2, <2>1, <2>4, <2>5, SolidAside
<1>7. ASSUME NEW e \in EntsOf(in0 \cup in1), IsBaseLevelForKey(current, l, e.key),
             NEW m \in l + 2 .. NumLevels - 1, NEW x \in EntsOf(current[m])
      PROVE  x.key # e.key
  <2>1. PICK g \in current[m] : x \in g.ents
    BY DEF EntsOf
  <2>2. m \in Levels
    BY <1>1, LevelsAssumption DEF Levels
  <2>3. Table(g)
    BY <1>1, <2>2 DEF Tables
  <2>4. /\ g.smallest.key <= x.key /\ x.key <= g.largest.key
        /\ g.smallest.key \in Nat /\ g.largest.key \in Nat
    BY <2>1, <2>3, TableKeys
  <2>5. Overlapping(current[m], e.key, e.key) = {}
    BY <1>7 DEF IsBaseLevelForKey
  <2>6. x.key \in Nat
    BY <2>1, <2>3, KeysAssumption DEF Table, Records
  <2>. QED  BY <2>4, <2>5, <2>6 DEF Overlapping
<1>. QED  BY <1>2, <1>5, <1>6, <1>7 DEF Free

\* A single file moves down a level.
LEMMA MoveEntries ==
    ASSUME FilesInv, EntriesInv, NEW l \in 0 .. NumLevels - 2, NEW f \in current[l],
           Free(current, l, {f}, {}, current),
           current' = [current EXCEPT ![l] = @ \ {f}, ![l + 1] = @ \cup {f}],
           compaction.phase = "none", flush = 0,
           UNCHANGED <<written, mem, imm, snapshots, flush, compaction>>
    PROVE  EntriesInv'
<1>1. /\ Tables(current) /\ 0 \in Levels /\ Levels \subseteq Nat
      /\ l \in Levels /\ l + 1 \in Levels /\ l \in Nat /\ l < l + 1 /\ l + 1 # 0
  BY Basics, LevelsAssumption DEF Levels
<1>2. /\ current'[l] = current[l] \ {f}
      /\ current'[l + 1] = current[l + 1] \cup {f}
      /\ \A m \in Levels \ {l, l + 1} : current'[m] = current[m]
  BY <1>1 DEF FilesInv, Installed
<1>3. f.ents \subseteq LevelEnts(l)
  BY DEF LevelEnts, EntsOf
<1>4. /\ LevelEnts(l)' \subseteq LevelEnts(l)
      /\ LevelEnts(l) \subseteq LevelEnts(l)' \cup f.ents
      /\ LevelEnts(l + 1)' = LevelEnts(l + 1) \cup f.ents
      /\ \A m \in Levels \ {l, l + 1} : LevelEnts(m)' = LevelEnts(m)
  BY <1>2 DEF LevelEnts, EntsOf
<1>5. \A x \in LevelEnts(l)', y \in f.ents : x.key = y.key => x.seq > y.seq
  <2>1. EntsOf({f} \cup {}) = f.ents
    BY DEF EntsOf
  <2>2. \A g \in current[l] \ {f} : Newer(g.ents, f.ents)
    BY <2>1 DEF Free
  <2>. QED  BY <1>2, <2>2 DEF Newer, LevelEnts, EntsOf
<1>6. Ordered'
  <2>1. ASSUME NEW xs, \A m \in Levels : Newer(xs, LevelEnts(m)), NEW m \in Levels
        PROVE  Newer(xs, LevelEnts(m)')
    BY <1>1, <1>3, <1>4, <2>1 DEF Newer
  <2>2. Newer(mem, imm)' /\ \A m \in Levels : Newer(mem, LevelEnts(m))' /\ Newer(imm, LevelEnts(m))'
    BY <2>1 DEF EntriesInv, Ordered
  <2>3. current'[0] \subseteq current[0]
    BY <1>1, <1>2
  <2>4. \A g, h \in current'[0] : g.num > h.num => Newer(g.ents, h.ents)
    BY <2>3 DEF EntriesInv, Ordered
  <2>5. ASSUME NEW a \in Levels, NEW b \in Levels, a < b
        PROVE  Newer(LevelEnts(a), LevelEnts(b))'
    <3>1. SUFFICES ASSUME NEW x \in LevelEnts(a)', NEW y \in LevelEnts(b)', x.key = y.key
                   PROVE  x.seq > y.seq
      BY DEF Newer
    <3>2. a \in Nat /\ b \in Nat
      BY <1>1
    <3>3. \A m, n \in Levels : m < n => Newer(LevelEnts(m), LevelEnts(n))
      BY DEF EntriesInv, Ordered
    <3>4. x \in LevelEnts(a) \/ (a = l + 1 /\ x \in LevelEnts(l))
      BY <1>1, <1>3, <1>4
    <3>5. y \in LevelEnts(b) \/ (b = l + 1 /\ y \in f.ents /\ y \in LevelEnts(l))
      BY <1>1, <1>3, <1>4
    <3>6. CASE y \in LevelEnts(b)
      <4>1. a = l + 1 => l < b
        BY <1>1, <2>5, <3>2
      <4>. QED  BY <1>1, <2>5, <3>1, <3>3, <3>4, <3>6, <4>1 DEF Newer
    <3>7. CASE b = l + 1 /\ y \in f.ents /\ y \in LevelEnts(l)
      <4>1. a = l \/ a < l
        BY <1>1, <2>5, <3>2, <3>7
      <4>2. CASE a = l
        BY <1>5, <3>1, <3>7, <4>2
      <4>3. CASE a < l
        <5>1. x \in LevelEnts(a)
          BY <1>1, <3>2, <3>4, <4>3
        <5>. QED  BY <1>1, <3>1, <3>3, <3>7, <4>3, <5>1 DEF Newer
      <4>. QED  BY <4>1, <4>2, <4>3
    <3>. QED  BY <3>5, <3>6, <3>7
  <2>. QED  BY <2>2, <2>4, <2>5 DEF Ordered
<1>7. Flushed'
  BY <1>1, <1>2 DEF EntriesInv, Flushed
<1>8. KeysApart'
  <2>1. \A g \in current[l + 1] : Apart(f, g) /\ Apart(g, f)
    BY DEF Free, AsideOf, Apart
  <2>2. ASSUME NEW m \in Levels \ {0}, NEW g \in current[m]', NEW h \in current[m]', g # h
        PROVE  Apart(g, h)
    <3>1. CASE g \in current[m] /\ h \in current[m]
      BY <2>2, <3>1 DEF EntriesInv, KeysApart
    <3>2. CASE m = l + 1
      BY <1>2, <2>1, <2>2, <3>1, <3>2
    <3>. QED  BY <1>1, <1>2, <3>1, <3>2
  <2>. QED  BY <2>2 DEF KeysApart
<1>9. Beside' /\ Oldest' /\ WrittenOut'
  BY DEF Beside, Oldest, WrittenOut
<1>10. Tree' = Tree
  <2>1. ASSUME NEW x  PROVE (\E m \in Levels : x \in LevelEnts(m)') <=> \E m \in Levels : x \in LevelEnts(m)
    BY <1>1, <1>3, <1>4
  <2>2. UNION {LevelEnts(m)' : m \in Levels} = UNION {LevelEnts(m) : m \in Levels}
    BY <2>1
  <2>. QED  BY <2>2 DEF Tree
<1>11. Present'
  BY <1>10 DEF EntriesInv, Present, Hidden
<1>. QED  BY <1>6, <1>7, <1>8, <1>9, <1>11 DEF EntriesInv

\* The chosen file changes its level, or a merge begins with the snapshot that is
\* the oldest now.
LEMMA BeginEntries ==
    ASSUME FilesInv, EntriesInv, NEW l \in 0 .. NumLevels - 2, NEW ins, NEW byHand,
           Chosen(current, l, ins[1], ins[2]), Idle, Begin(l, ins, byHand),
           UNCHANGED <<written, mem, imm, snapshots, flush>>
    PROVE  EntriesInv'
<1>. DEFINE in0 == ins[1]
            in1 == ins[2]
<1>1. LastSequence \in Nat
  BY Basics
<1>2. Chosen(current, l, in0, in1)
  OBVIOUS
<1>3. flush = 0 /\ compaction.phase = "none"
  BY DEF Idle
<1>4. \/ \E g \in in0 : /\ in0 = {g} /\ in1 = {}
                        /\ current' = [current EXCEPT ![l] = @ \ {g}, ![l + 1] = @ \cup {g}]
                        /\ UNCHANGED compaction
      \/ /\ compaction' = [phase |-> "merge", level |-> l, in0 |-> in0, in1 |-> in1,
                           version |-> current, smallest |-> SmallestSnapshot, outputs |-> {}]
         /\ UNCHANGED current
  BY DEF Begin
<1>. HIDE DEF in0, in1
<1>5. Free(current, l, in0, in1, current)
  BY <1>2, LeftBehind
<1>6. CASE UNCHANGED compaction
  <2>1. PICK g \in in0 : /\ in0 = {g} /\ in1 = {}
                         /\ current' = [current EXCEPT ![l] = @ \ {g}, ![l + 1] = @ \cup {g}]
    BY <1>3, <1>4, <1>6
  <2>2. g \in current[l] /\ Free(current, l, {g}, {}, current)
    BY <1>5, <2>1 DEF Free
  <2>. QED  BY <1>3, <1>6, <2>1, <2>2, MoveEntries
<1>7. CASE /\ compaction' = [phase |-> "merge", level |-> l, in0 |-> in0, in1 |-> in1,
                             version |-> current, smallest |-> SmallestSnapshot, outputs |-> {}]
           /\ UNCHANGED current
  <2>1. Ordered' /\ Flushed' /\ KeysApart' /\ Tree' = Tree
    BY <1>3, <1>7 DEF EntriesInv, Ordered, Flushed, KeysApart, LevelEnts, Tree
  <2>2. Ins' = in0 \cup in1
    BY <1>7 DEF Ins
  <2>3. Beside'
    BY <1>2, <1>5, <1>7, <2>2 DEF Beside, Chosen
  <2>4. /\ SmallestSnapshot \in Nat /\ SmallestSnapshot <= LastSequence
        /\ \A s \in snapshots : SmallestSnapshot <= s
        /\ snapshots = {} => SmallestSnapshot = LastSequence
    <3>1. snapshots \subseteq Nat /\ \A s \in snapshots : s <= LastSequence
      BY <1>1 DEF FilesInv, Entered
    <3>2. snapshots # {} => Min(snapshots) \in snapshots /\ \A s \in snapshots : Min(snapshots) <= s
      BY ONLY <3>1, LeastNumber
    <3>3. CASE snapshots = {}
      BY <1>1, <3>3 DEF SmallestSnapshot
    <3>4. CASE snapshots # {}
      <4>1. SmallestSnapshot = Min(snapshots)
        BY <3>4 DEF SmallestSnapshot
      <4>. QED  BY <3>1, <3>2, <3>4, <4>1
    <3>. QED  BY <3>3, <3>4
  <2>5. \A e \in EntsOf(in0 \cup in1) : e.seq <= LastSequence
    <3>1. l \in Levels /\ l + 1 \in Levels
      BY LevelsAssumption DEF Levels
    <3>2. EntsOf(in0 \cup in1) \subseteq LevelEnts(l) \cup LevelEnts(l + 1)
      BY <1>5 DEF Free, EntsOf, LevelEnts
    <3>. QED  BY <3>1, <3>2, Basics
  <2>6. Oldest'
    BY <1>3, <1>7, <2>2, <2>4, <2>5 DEF EntriesInv, Oldest, LastSequence
  <2>7. WrittenOut'
    BY <1>7 DEF WrittenOut
  <2>8. Present'
    BY <1>3, <2>1 DEF EntriesInv, Present, Hidden
  <2>. QED  BY <1>3, <2>1, <2>3, <2>6, <2>7, <2>8 DEF EntriesInv
<1>. QED  BY <1>4, <1>6, <1>7

LEMMA PickEntries ==
    ASSUME FilesInv, EntriesInv, NEW l \in 0 .. NumLevels - 2, NEW f \in current[l],
           PickCompaction(l, f)
    PROVE  EntriesInv'
<1>1. Chosen(current, l, InputsFrom(current, l, f)[1], InputsFrom(current, l, f)[2])
  BY Basics, InputsChosen
<1>. QED  BY <1>1, BeginEntries DEF PickCompaction

\* A request for one key finds files without a gap among them.
LEMMA RequestChosen ==
    ASSUME FilesInv, EntriesInv, NEW l \in 0 .. NumLevels - 2, NEW k \in Keys,
           OverlappingInputs(current, l, k, k) # {}
    PROVE  LET ins == SetupOtherInputs(current, l, OverlappingInputs(current, l, k, k))
           IN  Chosen(current, l, ins[1], ins[2])
<1>. DEFINE in0 == OverlappingInputs(current, l, k, k)
<1>1. /\ Tables(current) /\ 0 \in Levels /\ l \in Levels
  BY Basics, LevelsAssumption DEF Levels
<1>2. in0 \subseteq current[l] /\ \A f \in current[l] : Touches(f, k, k) => f \in in0
  BY <1>1, InputsTouch
<1>3. \A f \in current[l] : f.smallest.key \in Nat /\ f.largest.key \in Nat
  BY <1>1, TableKeys DEF Tables
<1>4. \E f \in in0 : Touches(f, k, k)
  <2>1. CASE l # 0
    BY <1>1, <2>1, InputsBelow
  <2>2. ASSUME l = 0, \A f \in in0 : ~Touches(f, k, k)  PROVE FALSE
    <3>1. PICK f \in in0 : TRUE
      OBVIOUS
    <3>2. Overlapping(current[0], k, k) = {}
      BY <1>2, <2>2 DEF Overlapping, Touches
    <3>3. k <= f.smallest.key /\ f.largest.key <= k
      BY <2>2, <3>2, KeysAssumption DEF OverlappingInputs
    <3>4. f.smallest.key <= f.largest.key
      BY <1>1, <1>2, TableKeys DEF Tables
    <3>. QED  BY <1>2, <1>3, <2>2, <3>3, <3>4, KeysAssumption DEF Touches
  <2>. QED  BY <2>1, <2>2
<1>5. Solid(in0)
  <2>. SUFFICES ASSUME NEW a \in Keys, NEW b \in Keys, a <= b, \A f \in in0 : ~Touches(f, a, b)
                PROVE  \/ \A f \in in0 : b < f.smallest.key
                       \/ \A f \in in0 : f.largest.key < a
    BY DEF Solid
  <2>1. a \in Nat /\ b \in Nat /\ k \in Nat
    BY KeysAssumption
  <2>2. b < k \/ k < a
    BY <1>2, <1>3, <1>4, <2>1 DEF Touches
  <2>3. CASE b < k
    BY <1>1, <2>1, <2>3, InputsRight
  <2>4. CASE k < a
    BY <1>1, <2>1, <2>4, InputsLeft
  <2>. QED  BY <2>2, <2>3, <2>4
<1>6. l = 0 => \A f \in in0, g \in current[0] :
                  Touches(g, f.smallest.key, f.largest.key) => g \in in0
  BY <1>1, InputsClosed
<1>. HIDE DEF in0
<1>7. in0 # {}
  BY DEF in0
<1>8. Chosen(current, l, SetupOtherInputs(current, l, in0)[1], SetupOtherInputs(current, l, in0)[2])
  BY <1>1, <1>2, <1>5, <1>6, <1>7, SetupChosen
<1>. QED  BY <1>8 DEF in0

LEMMA RequestEntries ==
    ASSUME NeverSplit, FilesInv, EntriesInv, NEW r \in ManualRequests, NEW n \in 1 .. MaxWrites,
           CompactRange(r[1], r[2], r[3], n)
    PROVE  EntriesInv'
<1>. DEFINE all == OverlappingInputs(current, r[1], r[2], r[3])
            in0 == {f \in all : Cardinality({g \in all : Before(g.largest, f.largest)}) < n}
<1>1. r[1] \in 0 .. NumLevels - 2 /\ r[2] \in Keys /\ r[3] = r[2]
  BY RequestsAssumption DEF NeverSplit
<1>2. /\ Idle /\ all # {} /\ (r[1] = 0 => in0 = all)
      /\ Begin(r[1], SetupOtherInputs(current, r[1], in0), TRUE)
      /\ UNCHANGED <<written, mem, imm, snapshots, flush>>
  BY DEF CompactRange
\* One file of a level has the key, unless the level is the first.
<1>3. ASSUME r[1] # 0  PROVE in0 = all
  <2>1. r[1] \in Levels \ {0}
    BY <1>1, <1>3, LevelsAssumption DEF Levels
  <2>2. all = {f \in current[r[1]] : Touches(f, r[2], r[2])}
    BY <1>1, <2>1, InputsBelow
  <2>3. \A f \in all : f.smallest.key \in Nat /\ f.largest.key \in Nat /\ f.largest.seq \in Nat
    <3>1. \A f \in all : Table(f)
      BY <2>1, <2>2, Basics DEF Tables
    <3>. QED  BY <3>1, TableKeys DEF Table, Records
  <2>4. \A f, g \in all : f = g
    <3>1. \A f, g \in all : f # g => Apart(f, g)
      BY <2>1, <2>2 DEF EntriesInv, KeysApart
    <3>2. r[2] \in Nat
      BY <1>1, KeysAssumption
    <3>3. ASSUME NEW f \in all, NEW g \in all  PROVE ~Apart(f, g)
      <4>1. Touches(f, r[2], r[2]) /\ Touches(g, r[2], r[2])
        BY <2>2
      <4>2. /\ f.smallest.key \in Nat /\ f.largest.key \in Nat
            /\ g.smallest.key \in Nat /\ g.largest.key \in Nat
        BY <2>3
      <4>. HIDE DEF all
      <4>. QED  BY <3>2, <4>1, <4>2 DEF Touches, Apart
    <3>. QED  BY <3>1, <3>3
  <2>. HIDE DEF all
  <2>5. \A f \in all : {g \in all : Before(g.largest, f.largest)} = {}
    BY <2>3, <2>4 DEF Before
  <2>. QED  BY <2>5, FS_EmptySet, WritesAssumption
<1>4. in0 = all
  BY <1>2, <1>3
<1>5. Begin(r[1], SetupOtherInputs(current, r[1], all), TRUE)
  BY <1>2, <1>4
<1>6. Chosen(current, r[1], SetupOtherInputs(current, r[1], all)[1],
             SetupOtherInputs(current, r[1], all)[2])
  BY <1>1, <1>2, RequestChosen
<1>. HIDE DEF all, in0
<1>. QED  BY <1>1, <1>2, <1>5, <1>6, BeginEntries

(***************************************************************************)
(* Compactions end.                                                         *)
(***************************************************************************)
\* Two entries of one key are kept only for a snapshot.
LEMMA KeptOnce ==
    ASSUME FilesInv, EntriesInv, compaction.phase # "none", MaxSnapshots = 0,
           NEW a \in Kept(Ins, compaction.version, compaction.level, compaction.smallest),
           NEW b \in Kept(Ins, compaction.version, compaction.level, compaction.smallest),
           a.key = b.key
    PROVE  a = b
<1>. DEFINE kept == Kept(Ins, compaction.version, compaction.level, compaction.smallest)
<1>1. EntsOf(Ins) \subseteq written /\ written \subseteq Records /\ Distinct(written)
  BY Basics, UnderWay
<1>2. a \in EntsOf(Ins) /\ b \in EntsOf(Ins)
  BY DEF Kept, EntsOf
<1>3. compaction.smallest \in Nat /\ \A e \in EntsOf(Ins) : e.seq <= compaction.smallest
  BY DEF EntriesInv, Oldest
<1>4. EntsOf(Ins) \subseteq Records
  BY <1>1
<1>5. ~(a.seq < b.seq)
  <2>1. a.seq < b.seq => compaction.smallest < b.seq
    BY <1>2, <1>3, <1>4, KeptIsNew
  <2>. QED  BY <1>2, <1>3, <1>4, <2>1 DEF Records
<1>6. ~(b.seq < a.seq)
  <2>1. b.seq < a.seq => compaction.smallest < a.seq
    BY <1>2, <1>3, <1>4, KeptIsNew
  <2>. QED  BY <1>2, <1>3, <1>4, <2>1 DEF Records
<1>7. a.seq = b.seq
  BY <1>2, <1>4, <1>5, <1>6 DEF Records
<1>. QED  BY <1>1, <1>2, <1>7 DEF Distinct

LEMMA OutputsEntries ==
    ASSUME NeverSplit, FilesInv, EntriesInv, WriteOutputs
    PROVE  EntriesInv'
<1>. DEFINE kept == Kept(Ins, compaction.version, compaction.level, compaction.smallest)
<1>1. /\ compaction.phase = "merge" /\ flush = 0
      /\ UNCHANGED <<written, mem, imm, current, snapshots, flush>>
  BY DEF WriteOutputs
<1>2. InputFiles(compaction) = Ins /\ EntsOf(Ins) \subseteq written
  BY <1>1, UnderWay
<1>18. PICK cut \in Outputs(kept, MaxOutputs, SplitsKeys) : \E name : Wrote(cut, name)
  BY <1>2, OutputsWritten
<1>3. PICK name : Wrote(cut, name)
  BY <1>18
<1>. DEFINE out == {File(name[es], es) : es \in cut}
<1>4. /\ compaction'.phase = "written" /\ compaction'.level = compaction.level
      /\ compaction'.in0 = compaction.in0 /\ compaction'.in1 = compaction.in1
      /\ compaction'.version = compaction.version /\ compaction'.smallest = compaction.smallest
      /\ compaction'.outputs = out
  <2>. HIDE DEF out
  <2>1. compaction' = [compaction EXCEPT !.phase = "written", !.outputs = out]
    BY <1>3 DEF out, Wrote
  <2>2. compaction = [phase |-> compaction.phase, level |-> compaction.level,
                      in0 |-> compaction.in0, in1 |-> compaction.in1,
                      version |-> compaction.version, smallest |-> compaction.smallest,
                      outputs |-> compaction.outputs]
    BY <1>1 DEF FilesInv, Merging, NoCompaction
  <2>. QED  BY <2>1, <2>2
<1>5. Ins' = Ins
  BY <1>4 DEF Ins
<1>6. kept \subseteq EntsOf(Ins)
  BY DEF Kept, EntsOf
<1>7. /\ written \subseteq Records /\ Distinct(written) /\ LastSequence \in Nat
      /\ \A e \in written : e.seq <= LastSequence
  BY Basics
<1>8. /\ kept \subseteq Records /\ Distinct(kept) /\ \A e \in kept : e.seq <= LastSequence
  BY <1>2, <1>6, <1>7 DEF Distinct
<1>9. ~SplitsKeys \/ \A a, b \in kept : a.key = b.key => a = b
  BY <1>1, KeptOnce DEF NeverSplit
<1>. HIDE DEF kept
<1>10. UNION cut = kept
  BY ONLY <1>7, <1>8, <1>18, OutputsParts
<1>11. \A es \in cut : File(name[es], es).ents = es /\ Table(File(name[es], es))
  BY <1>3 DEF Wrote, FileOK
<1>12. EntsOf(out) = kept
  BY <1>10, <1>11 DEF EntsOf
<1>13. ASSUME NEW f \in out, NEW g \in out, f # g  PROVE Apart(f, g)
  <2>1. PICK es \in cut, fs \in cut : f = File(name[es], es) /\ g = File(name[fs], fs)
    OBVIOUS
  <2>2. es # fs
    BY <1>13, <2>1
  <2>3. \/ \A x \in es, y \in fs : x.key < y.key
        \/ \A x \in es, y \in fs : y.key < x.key
    BY ONLY <1>8, <1>18, <1>9, <2>2, es \in cut, fs \in cut, OutputsApart
  <2>4. /\ f.smallest \in es /\ f.largest \in es /\ g.smallest \in fs /\ g.largest \in fs
    BY <1>11, <2>1 DEF Table
  <2>. QED  BY <2>3, <2>4 DEF Apart
<1>. HIDE DEF out
<1>14. WrittenOut'
  BY <1>4, <1>5, <1>12, <1>13 DEF WrittenOut, kept
<1>15. Ordered' /\ Flushed' /\ KeysApart' /\ Tree' = Tree
  BY <1>1 DEF EntriesInv, Ordered, Flushed, KeysApart, LevelEnts, Tree
<1>16. Beside' /\ Oldest'
  BY <1>1, <1>4, <1>5 DEF EntriesInv, Beside, Oldest, LastSequence
<1>17. Present'
  BY <1>1, <1>15 DEF EntriesInv, Present, Hidden
<1>. QED  BY <1>1, <1>14, <1>15, <1>16, <1>17 DEF EntriesInv

\* A file is on one level only.
LEMMA OneLevel ==
    ASSUME FilesInv, EntriesInv, NEW a \in Levels, NEW b \in Levels,
           NEW f \in current[a], f \in current[b]
    PROVE  a = b
<1>1. Tables(current) /\ Levels \subseteq Nat
  BY Basics
<1>2. PICK e \in f.ents : e.seq \in Nat
  BY <1>1 DEF Tables, Table, Records
<1>3. e \in LevelEnts(a) /\ e \in LevelEnts(b)
  BY DEF LevelEnts, EntsOf
<1>4. ~(a < b) /\ ~(b < a)
  BY <1>2, <1>3 DEF EntriesInv, Ordered, Newer
<1>. QED  BY <1>1, <1>4

\* What the installation of results does to each level.
LEMMA Installs ==
    ASSUME FilesInv, EntriesInv, InstallCompactionResults
    PROVE  LET c == compaction.level
               kept == Kept(Ins, compaction.version, c, compaction.smallest)
           IN  /\ c \in Levels /\ c + 1 \in Levels /\ c \in Nat
               /\ EntsOf(compaction.outputs) = kept /\ kept \subseteq EntsOf(Ins)
               /\ EntsOf(Ins) \subseteq LevelEnts(c) \cup LevelEnts(c + 1)
               /\ current'[c] = current[c] \ compaction.in0
               /\ current'[c + 1] = (current[c + 1] \ compaction.in1) \cup compaction.outputs
               /\ \A m \in Levels \ {c, c + 1} : current'[m] = current[m]
<1>. DEFINE c == compaction.level
            kept == Kept(Ins, compaction.version, c, compaction.smallest)
<1>1. /\ compaction.phase = "written"
      /\ current' = [l \in Levels |->
                       (current[l] \ InputFiles(compaction))
                          \cup (IF l = c + 1 THEN compaction.outputs ELSE {})]
  BY DEF InstallCompactionResults
<1>2. c \in Levels /\ c + 1 \in Levels /\ c \in Nat /\ InputFiles(compaction) = Ins
  BY <1>1, UnderWay
<1>3. EntsOf(compaction.outputs) = kept
  BY <1>1 DEF EntriesInv, WrittenOut
<1>4. kept \subseteq EntsOf(Ins)
  BY DEF Kept, EntsOf
<1>. HIDE DEF kept
<1>5. compaction.in0 \subseteq current[c] /\ compaction.in1 \subseteq current[c + 1]
  BY <1>1 DEF EntriesInv, Beside, Free
<1>. HIDE DEF c
<1>6. EntsOf(Ins) \subseteq LevelEnts(c) \cup LevelEnts(c + 1)
  BY <1>5 DEF Ins, EntsOf, LevelEnts
<1>7. c # c + 1
  BY <1>2
<1>8. \A f \in current[c] : f \in Ins <=> f \in compaction.in0
  BY <1>2, <1>5, <1>7, OneLevel DEF Ins
<1>9. \A f \in current[c + 1] : f \in Ins <=> f \in compaction.in1
  BY <1>2, <1>5, <1>7, OneLevel DEF Ins
<1>10. \A m \in Levels \ {c, c + 1} : \A f \in current[m] : f \notin Ins
  BY <1>2, <1>5, OneLevel DEF Ins
<1>11. /\ current'[c] = current[c] \ compaction.in0
       /\ current'[c + 1] = (current[c + 1] \ compaction.in1) \cup compaction.outputs
       /\ \A m \in Levels \ {c, c + 1} : current'[m] = current[m]
  BY <1>1, <1>2, <1>7, <1>8, <1>9, <1>10
<1>. QED  BY <1>2, <1>3, <1>4, <1>6, <1>11 DEF c, kept

LEMMA InstallEntries ==
    ASSUME FilesInv, EntriesInv, InstallCompactionResults
    PROVE  EntriesInv'
<1>. DEFINE c == compaction.level
            kept == Kept(Ins, compaction.version, c, compaction.smallest)
            after(m) == EntsOf(current'[m])
<1>1. /\ c \in Levels /\ c + 1 \in Levels /\ c \in Nat
      /\ EntsOf(compaction.outputs) = kept /\ kept \subseteq EntsOf(Ins)
      /\ EntsOf(Ins) \subseteq LevelEnts(c) \cup LevelEnts(c + 1)
      /\ current'[c] = current[c] \ compaction.in0
      /\ current'[c + 1] = (current[c + 1] \ compaction.in1) \cup compaction.outputs
      /\ \A m \in Levels \ {c, c + 1} : current'[m] = current[m]
  BY Installs
<1>2. /\ compaction.phase = "written" /\ flush = 0 /\ compaction' = NoCompaction
      /\ UNCHANGED <<written, mem, imm, snapshots, flush>>
  BY DEF InstallCompactionResults
<1>3. /\ written \subseteq Records /\ Distinct(written) /\ EntsOf(Ins) \subseteq written
      /\ Tables(current) /\ Levels \subseteq Nat /\ 0 \in Levels
      /\ \A f \in Ins \cup compaction.outputs : Table(f)
      /\ \A e \in written : e.seq \in Nat
  <2>1. compaction.phase # "none"
    BY <1>2
  <2>2. \A f \in Ins \cup compaction.outputs : FileOK(f)
    BY <2>1, UnderWay
  <2>. QED  BY <2>1, <2>2, Basics, UnderWay DEF FileOK
<1>4. Free(current, c, compaction.in0, compaction.in1, compaction.version)
  BY <1>2 DEF EntriesInv, Beside
<1>5. /\ compaction.smallest \in Nat
      /\ \A s \in snapshots : compaction.smallest <= s /\ s \in Nat
  <2>1. LastSequence \in Nat
    BY Basics
  <2>. QED  BY <1>2, <2>1 DEF EntriesInv, Oldest, FilesInv, Entered
<1>6. \A e \in EntsOf(Ins) \ kept :
         \/ \E o \in EntsOf(Ins) : o.key = e.key /\ o.seq > e.seq /\ o.seq <= compaction.smallest
         \/ e.del /\ e.seq <= compaction.smallest /\ IsBaseLevelForKey(compaction.version, c, e.key)
  BY <1>3, <1>5, DroppedIsHidden
<1>7. \A e \in EntsOf(Ins), x \in kept :
         x.key = e.key /\ x.seq < e.seq => compaction.smallest < e.seq
  BY <1>3, <1>5, KeptIsNew
<1>. HIDE DEF kept, c
<1>8. c # c + 1 /\ c + 1 # 0 /\ c < c + 1
  BY <1>1
\* What stays where it was, and what is new on the next level.
<1>0. \A m \in Levels : LevelEnts(m)' = after(m)
  BY DEF LevelEnts
<1>9. /\ after(c) \subseteq LevelEnts(c)
      /\ after(c + 1) \subseteq LevelEnts(c + 1) \cup EntsOf(Ins)
      /\ \A m \in Levels \ {c, c + 1} : after(m) = LevelEnts(m)
  BY <1>1 DEF LevelEnts, EntsOf
<1>10. \A x \in after(c), y \in EntsOf(Ins) : x.key = y.key => x.seq > y.seq
  <2>1. \A g \in current[c] \ compaction.in0 : Newer(g.ents, EntsOf(Ins))
    BY <1>4 DEF Free, Ins
  <2>. QED  BY <1>1, <2>1 DEF LevelEnts, EntsOf, Newer
<1>11. \A g \in current[c + 1] \ compaction.in1, f \in Ins : Apart(g, f)
  BY <1>4 DEF Free, AsideOf, Apart, Ins
<1>12. \A l, m \in Levels : l < m => Newer(LevelEnts(l), LevelEnts(m))
  BY DEF EntriesInv, Ordered
<1>13. Ordered'
  <2>1. ASSUME NEW xs, \A m \in Levels : Newer(xs, LevelEnts(m)), NEW m \in Levels
        PROVE  Newer(xs, after(m))
    BY <1>1, <1>9, <2>1 DEF Newer
  <2>2. Newer(mem, imm)' /\ \A m \in Levels : Newer(mem, LevelEnts(m))' /\ Newer(imm, LevelEnts(m))'
    BY <1>0, <1>2, <2>1 DEF EntriesInv, Ordered
  <2>3. current'[0] \subseteq current[0]
    BY <1>1, <1>3, <1>8
  <2>4. \A g, h \in current'[0] : g.num > h.num => Newer(g.ents, h.ents)
    BY <2>3 DEF EntriesInv, Ordered
  <2>5. ASSUME NEW a \in Levels, NEW b \in Levels, a < b
        PROVE  Newer(LevelEnts(a), LevelEnts(b))'
    <3>1. SUFFICES ASSUME NEW x \in LevelEnts(a)', NEW y \in LevelEnts(b)', x.key = y.key
                   PROVE  x.seq > y.seq
      BY DEF Newer
    <3>2. a \in Nat /\ b \in Nat /\ x \in after(a) /\ y \in after(b)
      BY <1>0, <1>3, <3>1
    <3>3. x \in LevelEnts(a) \/ (a = c + 1 /\ (x \in LevelEnts(c) \/ x \in LevelEnts(c + 1)))
      BY <1>1, <1>9, <3>2
    <3>4. y \in LevelEnts(b) \/ (b = c + 1 /\ y \in EntsOf(Ins) /\ y \in LevelEnts(c))
      BY <1>1, <1>9, <3>2
    <3>5. CASE y \in LevelEnts(b)
      <4>1. a = c + 1 => c < b
        BY <1>1, <2>5, <3>2
      <4>. QED  BY <1>1, <1>12, <2>5, <3>1, <3>3, <3>5, <4>1 DEF Newer
    <3>6. CASE b = c + 1 /\ y \in EntsOf(Ins) /\ y \in LevelEnts(c)
      <4>1. a = c \/ a < c
        BY <1>1, <2>5, <3>2, <3>6
      <4>2. CASE a = c
        BY <1>10, <3>1, <3>2, <3>6, <4>2
      <4>3. CASE a < c
        <5>1. x \in LevelEnts(a)
          BY <1>1, <3>2, <3>3, <4>3
        <5>. QED  BY <1>1, <1>12, <3>1, <3>6, <4>3, <5>1 DEF Newer
      <4>. QED  BY <4>1, <4>2, <4>3
    <3>. QED  BY <3>4, <3>5, <3>6
  <2>. QED  BY <2>2, <2>4, <2>5 DEF Ordered
<1>14. Flushed'
  BY <1>1, <1>2, <1>3, <1>8 DEF EntriesInv, Flushed
<1>15. KeysApart'
  <2>1. \A h \in compaction.outputs :
           \E f, g \in Ins : /\ h.smallest \in f.ents /\ h.largest \in g.ents
    BY <1>1, <1>3 DEF EntsOf, Table
  <2>2. ASSUME NEW g \in current[c + 1] \ compaction.in1, NEW h \in compaction.outputs
        PROVE  Apart(g, h) /\ Apart(h, g)
    <3>1. PICK f1 \in Ins, f2 \in Ins : h.smallest \in f1.ents /\ h.largest \in f2.ents
      BY <2>1
    <3>2. AsideOf(g, Ins)
      BY <1>4 DEF Free, Ins
    <3>3. Table(f1) /\ Table(f2) /\ Table(g)
      BY <1>1, <1>3 DEF Tables
    <3>4. f1.smallest.key <= h.smallest.key /\ h.largest.key <= f2.largest.key
      BY <3>1, <3>3, TableKeys
    <3>5. /\ f1.smallest.key \in Nat /\ f2.largest.key \in Nat
          /\ g.smallest.key \in Nat /\ g.largest.key \in Nat
      BY <3>3, TableKeys
    <3>6. h.smallest.key \in Nat /\ h.largest.key \in Nat
      BY <1>3, TableKeys
    <3>7. CASE \A f \in Ins : g.largest.key < f.smallest.key
      <4>1. g.largest.key < h.smallest.key
        BY <3>4, <3>5, <3>6, <3>7
      <4>. QED  BY <4>1 DEF Apart
    <3>8. CASE \A f \in Ins : f.largest.key < g.smallest.key
      <4>1. h.largest.key < g.smallest.key
        BY <3>4, <3>5, <3>6, <3>8
      <4>. QED  BY <4>1 DEF Apart
    <3>. QED  BY <3>2, <3>7, <3>8 DEF AsideOf
  <2>3. \A f, g \in compaction.outputs : f # g => Apart(f, g)
    BY <1>2 DEF EntriesInv, WrittenOut
  <2>4. ASSUME NEW m \in Levels \ {0}, NEW g \in current[m]', NEW h \in current[m]', g # h
        PROVE  Apart(g, h)
    <3>1. CASE g \in current[m] /\ h \in current[m]
      BY <2>4, <3>1 DEF EntriesInv, KeysApart
    <3>2. CASE m = c + 1
      BY <1>1, <2>2, <2>3, <2>4, <3>1, <3>2
    <3>. QED  BY <1>1, <3>1, <3>2
  <2>. QED  BY <2>4 DEF KeysApart
<1>16. Beside' /\ Oldest' /\ WrittenOut'
  BY <1>2 DEF Beside, Oldest, WrittenOut, NoCompaction
\* The tree loses only what is dropped.
<1>17. Tree' \subseteq Tree /\ \A e \in Tree \ Tree' : e \in EntsOf(Ins) \ kept
  <2>1. \A m \in Levels : \A x \in after(m) : \E n \in Levels : x \in LevelEnts(n)
    BY <1>1, <1>9
  <2>2. \A m \in Levels : \A x \in LevelEnts(m) :
           (\E n \in Levels : x \in after(n)) \/ x \in EntsOf(Ins)
    BY <1>1, <1>8 DEF LevelEnts, EntsOf, Ins
  <2>3. kept \subseteq after(c + 1)
    BY <1>1 DEF LevelEnts, EntsOf
  <2>4. Tree' = mem \cup imm \cup UNION {after(m) : m \in Levels}
    BY <1>0, <1>2 DEF Tree
  <2>. HIDE DEF after
  <2>5. Tree' \subseteq Tree
    BY <2>1, <2>4 DEF Tree
  <2>6. ASSUME NEW e \in Tree, e \notin Tree'  PROVE e \in EntsOf(Ins) \ kept
    <3>1. PICK m \in Levels : e \in LevelEnts(m)
      BY <2>4, <2>6 DEF Tree
    <3>2. \A n \in Levels : e \notin after(n)
      BY <2>4, <2>6
    <3>. QED  BY <1>1, <2>2, <2>3, <3>1, <3>2
  <2>. QED  BY <2>5, <2>6
<1>18. ASSUME NEW e \in EntsOf(Ins) \ kept, e.del, e.seq <= compaction.smallest,
              IsBaseLevelForKey(compaction.version, c, e.key),
              NEW x \in Tree', x.key = e.key
       PROVE  x.seq > e.seq
  <2>1. e \in LevelEnts(c) \/ e \in LevelEnts(c + 1)
    BY <1>1
  <2>2. CASE x \in mem \/ x \in imm
    BY <1>1, <1>18, <2>1, <2>2 DEF EntriesInv, Ordered, Newer
  <2>3. ASSUME NEW m \in Levels, x \in after(m)  PROVE x.seq > e.seq
    <3>1. m \in Nat /\ c \in Nat
      BY <1>1, <1>3
    <3>2. CASE m = c
      BY <1>10, <1>18, <2>3, <3>2
    <3>3. CASE m = c + 1
      <4>1. CASE x \in kept
        <5>1. x \in written /\ e \in written /\ x # e
          BY <1>1, <1>3, <4>1
        <5>2. x.seq # e.seq /\ x.seq \in Nat /\ e.seq \in Nat
          BY <1>3, <5>1 DEF Distinct
        <5>3. ~(x.seq < e.seq)
          BY <1>5, <1>7, <1>18, <4>1, <5>2
        <5>. QED  BY <5>2, <5>3
      <4>2. CASE x \notin kept
        <5>1. PICK g \in current[c + 1] \ compaction.in1 : x \in g.ents
          BY <1>1, <2>3, <3>3, <4>2 DEF LevelEnts, EntsOf
        <5>2. PICK f \in Ins : e \in f.ents
          BY DEF EntsOf
        <5>3. Table(g) /\ Table(f)
          BY <1>1, <1>3 DEF Tables
        <5>. QED  BY <1>11, <1>18, <5>1, <5>2, <5>3, SameKeyTouches
      <4>. QED  BY <4>1, <4>2
    <3>4. CASE m < c
      <4>1. x \in LevelEnts(m) /\ m < c + 1
        BY <1>9, <2>3, <3>1, <3>4
      <4>. QED  BY <1>1, <1>12, <1>18, <2>1, <3>4, <4>1 DEF Newer
    <3>5. CASE c + 1 < m
      <4>1. m \in c + 2 .. NumLevels - 1 /\ x \in EntsOf(current[m])
        BY <1>9, <2>3, <3>1, <3>5, LevelsAssumption DEF Levels, LevelEnts
      <4>2. e \in EntsOf(compaction.in0 \cup compaction.in1)
        BY DEF Ins
      <4>. QED  BY <1>4, <1>18, <4>1, <4>2 DEF Free
    <3>. QED  BY <3>1, <3>2, <3>3, <3>4, <3>5
  <2>. QED  BY <1>0, <1>2, <2>2, <2>3 DEF Tree
<1>19. Present'
  <2>1. \A e : Hidden(e)' <=> Hidden(e)
    BY <1>2 DEF Hidden
  <2>. SUFFICES ASSUME NEW e \in written, e \notin Tree'
                PROVE  Hidden(e) \/ (e.del /\ \A x \in Tree' : x.key = e.key => x.seq > e.seq)
    BY <1>2, <2>1 DEF Present
  <2>2. CASE e \notin Tree
    BY <1>17, <2>2 DEF EntriesInv, Present
  <2>3. CASE e \in Tree
    <3>1. e \in EntsOf(Ins) \ kept
      BY <1>17, <2>3
    <3>2. ASSUME NEW o \in EntsOf(Ins), o.key = e.key, o.seq > e.seq, o.seq <= compaction.smallest
          PROVE  Hidden(e)
      <4>1. o \in written /\ o.seq \in Nat
        BY <1>3
      <4>2. \A s \in snapshots : o.seq <= s
        BY <1>5, <3>2, <4>1
      <4>. QED  BY <3>2, <4>1, <4>2 DEF Hidden
    <3>. QED  BY <1>6, <1>18, <3>1, <3>2
  <2>. QED  BY <2>2, <2>3
<1>. QED  BY <1>2, <1>13, <1>14, <1>15, <1>16, <1>19 DEF EntriesInv

(***************************************************************************)
(* The invariant, and the order of the levels.                              *)
(***************************************************************************)
LEMMA InitEntries == Init => EntriesInv
<1>. SUFFICES ASSUME Init  PROVE EntriesInv
  OBVIOUS
<1>1. /\ written = {} /\ mem = {} /\ imm = {} /\ snapshots = {} /\ flush = 0
      /\ compaction.phase = "none" /\ \A l \in Levels : current[l] = {}
      /\ 0 \in Levels
  BY LevelsAssumption DEF Init, NoCompaction, Levels
<1>2. \A l \in Levels : LevelEnts(l) = {}
  BY <1>1 DEF LevelEnts, EntsOf
<1>3. Ordered
  BY <1>1, <1>2 DEF Ordered, Newer
<1>. QED  BY <1>1, <1>3 DEF EntriesInv, Flushed, KeysApart, Beside, Oldest, WrittenOut, Present

LEMMA NextEntries == NeverSplit /\ FilesInv /\ EntriesInv /\ [Next]_vars => EntriesInv'
<1>. SUFFICES ASSUME NeverSplit, FilesInv, EntriesInv, [Next]_vars  PROVE EntriesInv'
  OBVIOUS
<1>1. \A f \in current[0] : flush # 0 => f.num < flush
  BY DEF EntriesInv, Flushed
<1>2. CASE UNCHANGED vars
  BY <1>1, <1>2, EntriesSame DEF vars
<1>3. CASE \E s \in snapshots : ReleaseSnapshot(s)
  BY <1>1, <1>3, EntriesSame DEF ReleaseSnapshot
<1>4. CASE NewIterator \/ \E files \in pins : CleanupIteratorState(files)
  BY <1>1, <1>4, EntriesSame DEF NewIterator, CleanupIteratorState
<1>5. CASE CompactMemTableFails \/ CompactionFails
  BY <1>1, <1>5, EntriesSame DEF CompactMemTableFails, CompactionFails
<1>6. CASE WriteLevel0Table
  <2>1. \A f \in current[0] : f.num < nextFile
    BY Basics DEF FilesInv, Installed, FileOK
  <2>. QED  BY <1>6, <2>1, EntriesSame DEF WriteLevel0Table
<1>7. CASE \E r \in ManualRequests, n \in 1 .. MaxWrites : CompactRange(r[1], r[2], r[3], n)
  BY <1>7, RequestEntries
<1>. QED  BY <1>2, <1>3, <1>4, <1>5, <1>6, <1>7, WriteEntries, SwitchEntries, SnapshotEntries,
          FlushEntries, PickEntries, OutputsEntries, InstallEntries DEF Next

LEMMA EntriesInvariant == NeverSplit => (Spec => [](FilesInv /\ EntriesInv))
<1>. SUFFICES ASSUME NeverSplit  PROVE Spec => [](FilesInv /\ EntriesInv)
  OBVIOUS
<1>1. Init => FilesInv /\ EntriesInv
  BY InitFiles, InitEntries
<1>2. FilesInv /\ EntriesInv /\ [Next]_vars => (FilesInv /\ EntriesInv)'
  BY NextFiles, NextEntries
<1>. QED  BY <1>1, <1>2, PTL DEF Spec

\* Below level 0 no two files of a level overlap: what Builder::MaybeAddFile asserts.
THEOREM NoOverlap == NeverSplit => (Spec => []LevelsDisjoint)
<1>1. EntriesInv => LevelsDisjoint
  BY DEF EntriesInv, KeysApart, Apart, LevelsDisjoint, Before
<1>. QED  BY <1>1, EntriesInvariant, PTL

\* Entries never hop across levels: what Version::Get relies on.
THEOREM NoHop == NeverSplit => (Spec => []NewerFirst)
<1>1. EntriesInv => NewerFirst
  BY DEF EntriesInv, Ordered, NewerFirst, Newer, LevelEnts, EntsOf
<1>. QED  BY <1>1, EntriesInvariant, PTL

(***************************************************************************)
(* Reads.                                                                   *)
(***************************************************************************)
\* The search through memtables and levels finds the newest entry of all.
LEMMA GetFinds ==
    ASSUME FilesInv, EntriesInv, NEW k \in Keys, NEW snap \in Nat
    PROVE  GetEntry(k, snap) = Seek(Tree, k, snap)
<1>. DEFINE deep == UNION {LevelEnts(l) : l \in Levels}
<1>1. /\ Tables(current) /\ 0 \in Levels /\ written \subseteq Records
      /\ mem \subseteq written /\ imm \subseteq written
      /\ \A l \in Levels : LevelEnts(l) \subseteq written
  BY Basics
<1>2. deep \subseteq written
  BY <1>1
<1>3. SeekVersion(current, k, snap) = Seek(deep, k, snap)
  <2>1. nextFile \in Nat /\ \A f \in current[0] : f.num \in Nat /\ f.num <= nextFile
    BY <1>1 DEF FilesInv, Installed, FileOK
  <2>2. \A l \in Levels \ {0} : \A f, g \in current[l] : f # g => Apart(f, g)
    BY DEF EntriesInv, KeysApart
  <2>3. /\ \A f, g \in current[0] : f.num = g.num => f = g
        /\ \A f, g \in current[0] : f.num > g.num => Newer(f.ents, g.ents)
        /\ \A l, m \in Levels : l < m => Newer(EntsOf(current[l]), EntsOf(current[m]))
    BY DEF EntriesInv, Flushed, Ordered, LevelEnts
  <2>4. SeekVersion(current, k, snap) = Seek(UNION {EntsOf(current[l]) : l \in Levels}, k, snap)
    BY <1>1, <2>1, <2>2, <2>3, SeekVersionRight
  <2>. QED  BY <2>4 DEF LevelEnts
<1>4. Newer(imm, deep) /\ Newer(mem, imm \cup deep)
  BY DEF EntriesInv, Ordered, Newer
<1>. HIDE DEF deep
<1>5. Seek(imm \cup deep, k, snap)
        = IF Seek(imm, k, snap) # {} THEN Seek(imm, k, snap) ELSE Seek(deep, k, snap)
  <2>1. imm \subseteq Records /\ deep \subseteq Records
    BY <1>1, <1>2
  <2>. QED  BY ONLY <1>4, <2>1, snap \in Nat, SeekUnion
<1>6. Seek(mem \cup (imm \cup deep), k, snap)
        = IF Seek(mem, k, snap) # {} THEN Seek(mem, k, snap) ELSE Seek(imm \cup deep, k, snap)
  <2>1. mem \subseteq Records /\ imm \cup deep \subseteq Records
    BY <1>1, <1>2
  <2>. QED  BY ONLY <1>4, <2>1, snap \in Nat, SeekUnion
<1>7. Tree = mem \cup (imm \cup deep)
  BY DEF Tree, deep
<1>. QED  BY <1>3, <1>5, <1>6, <1>7 DEF GetEntry

\* What is in no table any more does not change the answer.
LEMMA TreeAnswers ==
    ASSUME FilesInv, EntriesInv, NEW k \in Keys, NEW snap \in snapshots \cup {LastSequence}
    PROVE  Value(Seek(Tree, k, snap)) = Value(Seek(written, k, snap))
<1>1. /\ written \subseteq Records /\ Distinct(written) /\ Tree \subseteq written
      /\ LastSequence \in Nat /\ \A e \in written : e.seq \in Nat /\ e.seq <= LastSequence
  BY Basics
<1>2. snap \in Nat
  BY <1>1 DEF FilesInv, Entered
<1>3. CASE Seek(written, k, snap) = {}
  <2>1. \A e \in written : ~Seen(e, k, snap)
    BY <1>1, <1>2, <1>3, SeekFound
  <2>2. Seek(Tree, k, snap) = {}
    BY <1>1, <2>1, SeekNewest
  <2>. QED  BY <1>3, <2>2
<1>4. ASSUME NEW w \in Seek(written, k, snap)
      PROVE  Value(Seek(Tree, k, snap)) = Value(Seek(written, k, snap))
  <2>1. w \in written /\ Seen(w, k, snap) /\ \A o \in written : Seen(o, k, snap) => o.seq <= w.seq
    BY SeekNewest
  <2>2. Seek(written, k, snap) = {w}
    <3>1. ASSUME NEW o \in Seek(written, k, snap)  PROVE o = w
      <4>1. o \in written /\ Seen(o, k, snap) /\ w.seq <= o.seq
        BY <2>1, SeekNewest
      <4>2. o.seq = w.seq
        BY <1>1, <2>1, <4>1
      <4>. QED  BY <1>1, <2>1, <4>1, <4>2 DEF Distinct
    <3>. QED  BY <3>1
  <2>3. CASE w \in Tree
    <3>1. w \in Seek(Tree, k, snap)
      BY <1>1, <2>1, <2>3 DEF Seek, Seen
    <3>2. ASSUME NEW o \in Seek(Tree, k, snap)  PROVE o = w
      <4>1. o \in written /\ Seen(o, k, snap) /\ w.seq <= o.seq /\ o.seq <= w.seq
        BY <1>1, <2>1, <2>3, SeekNewest
      <4>2. o.seq = w.seq
        BY <1>1, <2>1, <4>1
      <4>. QED  BY <1>1, <2>1, <4>1, <4>2 DEF Distinct
    <3>3. Seek(Tree, k, snap) = {w}
      BY <3>1, <3>2
    <3>. QED  BY <2>2, <3>3
  <2>4. CASE w \notin Tree
    <3>1. ~Hidden(w)
      <4>1. SUFFICES ASSUME NEW o \in written, o.key = w.key, o.seq > w.seq,
                            \A s \in snapshots : s < w.seq \/ o.seq <= s
                     PROVE  FALSE
        BY DEF Hidden
      <4>2. o.seq <= snap
        <5>1. snap = LastSequence \/ (snap \in snapshots /\ ~(snap < w.seq))
          BY <1>1, <1>2, <2>1 DEF Seen
        <5>. QED  BY <1>1, <4>1, <5>1
      <4>3. o.seq <= w.seq
        BY <2>1, <4>1, <4>2 DEF Seen
      <4>. QED  BY <1>1, <2>1, <4>1, <4>3
    <3>2. w.del /\ \A x \in Tree : x.key = w.key => x.seq > w.seq
      BY <2>1, <2>4, <3>1 DEF EntriesInv, Present
    <3>3. \A x \in Tree : ~Seen(x, k, snap)
      <4>1. SUFFICES ASSUME NEW x \in Tree, Seen(x, k, snap)  PROVE FALSE
        OBVIOUS
      <4>2. x.seq > w.seq /\ x.seq <= w.seq
        BY <1>1, <2>1, <3>2, <4>1 DEF Seen
      <4>. QED  BY <1>1, <2>1, <4>2
    <3>4. Seek(Tree, k, snap) = {}
      BY <3>3, SeekNewest
    <3>. QED  BY <2>2, <3>2, <3>4 DEF Value
  <2>. QED  BY <2>3, <2>4
<1>. QED  BY <1>3, <1>4

LEMMA Reads == FilesInv /\ EntriesInv => ReadsRight
<1>. SUFFICES ASSUME FilesInv, EntriesInv, NEW k \in Keys,
                     NEW snap \in snapshots \cup {LastSequence}
              PROVE  Get(k, snap) = Value(Seek(written, k, snap))
  BY DEF ReadsRight
<1>1. snap \in Nat
  <2>1. LastSequence \in Nat
    BY Basics
  <2>. QED  BY <2>1 DEF FilesInv, Entered
<1>. QED  BY <1>1, GetFinds, TreeAnswers DEF Get

\* Get answers with the last write at the newest number and at every snapshot.
THEOREM ReadsAreRight == NeverSplit => (Spec => []ReadsRight)
BY Reads, EntriesInvariant, PTL

(***************************************************************************)
(* The dictionary.                                                          *)
(***************************************************************************)
\* What reads return, and what they have to.
Dict == [k \in Keys |-> Get(k, LastSequence)]
Views == [s \in snapshots |-> [k \in Keys |-> Get(k, s)]]
LastWrites == [k \in Keys |-> Value(Seek(written, k, LastSequence))]
WritesBefore == [s \in snapshots |-> [k \in Keys |-> Value(Seek(written, k, s))]]

LEMMA Shown == FilesInv /\ EntriesInv => Dict = LastWrites /\ Views = WritesBefore
BY Reads DEF ReadsRight, Dict, Views, LastWrites, WritesBefore

\* A write is seen by reads of its key, and by no snapshot.
LEMMA WriteShown ==
    ASSUME FilesInv, NEW k \in Keys, NEW del \in BOOLEAN, Write(k, del)
    PROVE  /\ LastWrites'[k] \in (1 .. MaxWrites) \cup {Missing}
           /\ \A j \in Keys \ {k} : LastWrites'[j] = LastWrites[j]
           /\ WritesBefore' = WritesBefore
<1>. DEFINE e == [key |-> k, seq |-> LastSequence + 1, del |-> del]
<1>1. /\ LastSequence' = LastSequence + 1 /\ LastSequence \in Nat
      /\ written' = written \cup {e} /\ snapshots' = snapshots /\ FilesInv'
  BY WriteFiles DEF Write
<1>2. e.key = k /\ e.seq = LastSequence + 1
  OBVIOUS
<1>. HIDE DEF e
<1>3. \A x \in written : x.seq \in Nat /\ x.seq <= LastSequence
  BY Basics
<1>4. written' \subseteq Entries
  BY <1>1 DEF FilesInv, Entered
<1>5. ASSUME NEW es, es \subseteq written'  PROVE Value(es) \in (1 .. MaxWrites) \cup {Missing}
  <2>1. CASE es = {}
    BY <2>1 DEF Value
  <2>2. CASE es # {}
    <3>1. (CHOOSE x \in es : TRUE) \in es
      BY <2>2
    <3>. QED  BY <1>4, <1>5, <3>1 DEF Value, Entries
  <2>. QED  BY <2>1, <2>2
<1>6. LastWrites'[k] \in (1 .. MaxWrites) \cup {Missing}
  <2>1. Seek(written', k, LastSequence') \subseteq written'
    BY DEF Seek
  <2>. QED  BY <1>5, <2>1 DEF LastWrites
<1>7. ASSUME NEW j \in Keys \ {k}  PROVE LastWrites'[j] = LastWrites[j]
  <2>1. Seek(written', j, LastSequence') = Seek(written, j, LastSequence)
    <3>1. \A x \in written' : Seen(x, j, LastSequence') <=> x \in written /\ Seen(x, j, LastSequence)
      BY <1>1, <1>2, <1>3 DEF Seen
    <3>2. {x \in written' : Seen(x, j, LastSequence')} = {x \in written : Seen(x, j, LastSequence)}
      BY <1>1, <3>1
    <3>. QED  BY <3>2 DEF Seek, Seen
  <2>. QED  BY <2>1 DEF LastWrites
<1>8. ASSUME NEW j \in Keys, NEW s \in snapshots
      PROVE  Seek(written', j, s) = Seek(written, j, s)
  <2>1. s <= LastSequence /\ s \in Nat
    BY <1>1 DEF FilesInv, Entered
  <2>2. ~Seen(e, j, s)
    BY <1>1, <1>2, <2>1 DEF Seen
  <2>3. {x \in written' : Seen(x, j, s)} = {x \in written : Seen(x, j, s)}
    BY <1>1, <2>2
  <2>. QED  BY <2>3 DEF Seek, Seen
<1>. QED  BY <1>1, <1>6, <1>7, <1>8 DEF WritesBefore

\* Every step writes one key, takes a snapshot or releases it, or changes nothing
\* that a read shows.
LEMMA StoreStep ==
    ASSUME FilesInv, [Next]_vars,
           Dict = LastWrites, Views = WritesBefore, Dict' = LastWrites', Views' = WritesBefore'
    PROVE  [Store!Next]_(Store!vars)
<1>1. CASE written' = written /\ snapshots' = snapshots
  <2>1. LastWrites' = LastWrites /\ WritesBefore' = WritesBefore
    BY <1>1 DEF LastWrites, WritesBefore, LastSequence
  <2>. QED  BY <2>1 DEF Store!vars, Dict, Views
<1>2. ASSUME NEW k \in Keys, NEW del \in BOOLEAN, Write(k, del)
      PROVE  Store!Next
  <2>1. /\ Dict'[k] \in (1 .. MaxWrites) \cup {Missing}
        /\ \A j \in Keys \ {k} : Dict'[j] = Dict[j]
        /\ Views' = Views
    BY <1>2, WriteShown
  <2>2. Store!Write(k)
    BY <2>1 DEF Store!Write, Dict, Views
  <2>. QED  BY <2>2 DEF Store!Next
<1>3. ASSUME GetSnapshot  PROVE Store!Next
  <2>1. /\ LastSequence \notin snapshots /\ snapshots' = snapshots \cup {LastSequence}
        /\ written' = written /\ LastSequence' = LastSequence
    BY <1>3 DEF GetSnapshot, LastSequence
  <2>2. LastSequence \in 0 .. MaxWrites
    BY Basics, WritesAssumption DEF FilesInv, Entered
  <2>3. /\ Dict' = Dict /\ DOMAIN Views = snapshots
        /\ Views' = [t \in snapshots \cup {LastSequence} |->
                       IF t = LastSequence THEN Dict ELSE Views[t]]
    BY <2>1 DEF LastWrites, WritesBefore
  <2>4. Store!GetSnapshot(LastSequence)
    BY <2>1, <2>3 DEF Store!GetSnapshot, Dict, Views
  <2>. QED  BY <2>2, <2>4 DEF Store!Next
<1>4. ASSUME NEW s \in snapshots, ReleaseSnapshot(s)  PROVE Store!Next
  <2>1. snapshots' = snapshots \ {s} /\ written' = written /\ LastSequence' = LastSequence
    BY <1>4 DEF ReleaseSnapshot, LastSequence
  <2>2. s \in 0 .. MaxWrites
    BY Basics, WritesAssumption DEF FilesInv, Entered
  <2>3. /\ Dict' = Dict /\ DOMAIN Views = snapshots
        /\ Views' = [t \in snapshots \ {s} |-> Views[t]]
    BY <2>1 DEF LastWrites, WritesBefore
  <2>4. Store!ReleaseSnapshot(s)
    BY <2>3 DEF Store!ReleaseSnapshot, Dict, Views
  <2>. QED  BY <2>2, <2>4 DEF Store!Next
<1>5. \/ written' = written /\ snapshots' = snapshots
      \/ \E k \in Keys, del \in BOOLEAN : Write(k, del)
      \/ GetSnapshot
      \/ \E s \in snapshots : ReleaseSnapshot(s)
  BY DEF Next, vars, SwitchMemTable, NewIterator, CleanupIteratorState, WriteLevel0Table,
         CompactMemTable, CompactMemTableFails, PickCompaction, CompactRange, WriteOutputs,
         InstallCompactionResults, CompactionFails
<1>. QED  BY <1>1, <1>2, <1>3, <1>4, <1>5

LEMMA StoreInit == Init => Store!Init
<1>. SUFFICES ASSUME Init  PROVE Store!Init
  OBVIOUS
<1>1. FilesInv /\ EntriesInv /\ written = {} /\ snapshots = {}
  BY InitFiles, InitEntries DEF Init
<1>2. \A k \in Keys : \A s : Value(Seek(written, k, s)) = Missing
  BY <1>1 DEF Seek, Value
<1>3. Dict = [k \in Keys |-> Missing] /\ Views = [s \in {} |-> Dict]
  BY <1>1, <1>2, Shown DEF LastWrites, WritesBefore
<1>. QED  BY <1>3 DEF Store!Init, Dict, Views

\* Flushes, moves and merges with what they drop implement a dictionary with snapshots,
\* for any keys, levels, triggers and numbers of files, snapshots and iterators.
THEOREM ImplementsStore == NeverSplit => (Spec => IsKeyValueStore)
<1>. SUFFICES ASSUME NeverSplit  PROVE Spec => IsKeyValueStore
  OBVIOUS
<1>1. /\ FilesInv /\ EntriesInv /\ (FilesInv /\ EntriesInv)' /\ [Next]_vars
        => [Store!Next]_(Store!vars)
  <2>. SUFFICES ASSUME FilesInv, EntriesInv, (FilesInv /\ EntriesInv)', [Next]_vars
                PROVE  [Store!Next]_(Store!vars)
    OBVIOUS
  <2>1. Dict = LastWrites /\ Views = WritesBefore
    BY Shown
  <2>2. (Dict = LastWrites /\ Views = WritesBefore)'
    BY Shown, PTL
  <2>3. Dict' = LastWrites' /\ Views' = WritesBefore'
    BY <2>2
  <2>. QED  BY <2>1, <2>3, StoreStep
<1>2. Spec => [](FilesInv /\ EntriesInv)
  BY EntriesInvariant
<1>. QED  BY <1>1, <1>2, StoreInit, PTL DEF Spec, IsKeyValueStore, Store!Spec
=============================================================================
