-------------------------- MODULE LevelWriteProofs --------------------------
(***************************************************************************)
(* Proofs about LevelWrite: for any number of clients, calls and crashes and *)
(* any faults but a torn record, no acknowledged write is lost and no        *)
(* sequence number is given out twice.                                       *)
(***************************************************************************)
EXTENDS LevelWrite, SequenceTheorems, FiniteSetTheorems, WellFoundedInduction, TLAPS

PCs == {"idle", "asleep", "front", "delay", "wait", "busy"}
Calls == [sync : BOOLEAN, id : Nat, force : BOOLEAN, delay : BOOLEAN]

\* The queue: its head is at work and the others sleep; a group is the batch of
\* a head that is busy.
Queue ==
    /\ writers \in Seq(Clients) /\ pc \in [Clients -> PCs]
    /\ call \in [Clients -> Calls] /\ calls \in Nat
    /\ \A c \in Clients : pc[c] = "idle" <=> \A i \in 1 .. Len(writers) : writers[i] # c
    /\ \A i, j \in 1 .. Len(writers) : writers[i] = writers[j] => i = j
    /\ \A i \in 1 .. Len(writers) : pc[writers[i]] = "asleep" <=> i > 1

Phase ==
    /\ group = [phase |-> group.phase, ents |-> group.ents, todo |-> group.todo,
                sync |-> group.sync, size |-> group.size]
    /\ group.phase # "none" <=> \E c \in Clients : pc[c] = "busy"
    /\ group.phase # "none" => group.size \in 1 .. Len(writers)
    /\ db # "open" => writers = <<>>

\* A writer that wants its group synced is in a synced group.
GroupSync ==
    group.phase # "none" =>
        \A i \in 1 .. group.size : call[writers[i]].sync => group.sync

\* File numbers: a log's is below nextFile, and a manifest's log below the next.
Numbers ==
    /\ logNum \in Nat /\ nextFile \in Nat /\ logNum < nextFile
    /\ \A n \in DOMAIN logs : n \in Nat /\ n < nextFile
    /\ \A m \in manifests \cup {ver} : m.log \in Nat /\ m.next \in Nat /\ m.log <= m.next
    /\ db \in {"open", "opening", "closed"}
    /\ db # "closed" => logNum \in DOMAIN logs
    /\ db = "closed" => manifests = {ver}

NotTorn == \A n \in DOMAIN logs : logs[n].torn = FALSE /\ logs[n].after = {}

\* What a flush or a merge is about to put in the manifest.
Background ==
    /\ bg = [pc |-> bg.pc, merging |-> bg.merging, left |-> bg.left, edit |-> bg.edit]
    /\ bg.pc # "idle" => db = "open"
    /\ bg.pc = "table" => hasImm
    /\ bg.pc = "edit" =>
          /\ \/ bg.edit.l0 = -1 /\ bg.edit.adds = {} /\ bg.edit.log = ver.log
             \/ bg.edit.l0 # -1 /\ bg.edit.adds = imm /\ bg.edit.log = logNum /\ hasImm
          /\ bg.edit.next \in Nat /\ bg.edit.log <= bg.edit.next
    /\ ~hasImm => imm = {}

\* Where the entries are.  While the database is open each acknowledged one is
\* in a table, in imm or in mem, whatever the manifest; mem is in the current
\* log, imm in logs that every manifest without its table still names, and what
\* was synced is in the synced part of a log until it is in a table.
Held ==
    /\ synced \subseteq acked
    /\ db = "closed" => mem = {} /\ imm = {} /\ acked \subseteq Recoverable(ver)
    /\ db = "opening" =>
          /\ mem = {} /\ imm = {} /\ ver.log = logNum /\ acked \subseteq ver.ents
          /\ \A m \in manifests : acked \subseteq Recoverable(m)
    /\ \A m \in manifests \cup {ver} : synced \subseteq Safe(m)
    /\ db = "open" =>
          /\ mem \subseteq InLog(logs[logNum])
          /\ \A m \in manifests \cup {ver} :
                /\ ver.log <= m.log /\ m.log <= logNum
                /\ acked \subseteq m.ents \cup imm \cup mem
                /\ imm \subseteq Recoverable(m)
                /\ synced \subseteq m.ents \cup imm \cup logs[logNum].safe

\* How far the group's entries have got.
Logged ==
    /\ group.phase \in {"sync", "insert"} => group.ents \subseteq InLog(logs[logNum])
    /\ group.phase = "insert" /\ group.sync => group.ents \subseteq logs[logNum].safe
    /\ group.phase # "none" => group.ents \subseteq group.todo \cup mem /\ group.todo \subseteq group.ents

IInv == Queue /\ Phase /\ GroupSync /\ Numbers /\ NotTorn /\ Background /\ Held /\ Logged

(***************************************************************************)
(* The queue.                                                               *)
(***************************************************************************)
\* A client that neither sleeps nor rests is the first of the queue.
LEMMA HeadAwake ==
    ASSUME Queue, NEW c \in Clients, pc[c] \notin {"idle", "asleep"}
    PROVE  Len(writers) \in Nat /\ Len(writers) > 0 /\ c = writers[1] /\ c = Head(writers)
<1>1. Len(writers) \in Nat  BY DEF Queue
<1>2. PICK i \in 1 .. Len(writers) : writers[i] = c  BY DEF Queue
<1>3. i = 1  BY <1>1, <1>2 DEF Queue
<1> QED  BY <1>1, <1>2, <1>3 DEF Queue

\* Only one client is at the head.
LEMMA OneHead ==
    ASSUME Queue, NEW c \in Clients, pc[c] \notin {"idle", "asleep", "busy"}
    PROVE  \A b \in Clients : pc[b] # "busy"
BY HeadAwake

\* Return takes the first writers off the queue and wakes the next.
LEMMA ReturnQueue ==
    ASSUME Queue, NEW n \in 1 .. Len(writers), Return(n), UNCHANGED calls
    PROVE  /\ Queue'
           /\ \A c \in Clients : pc'[c] = "busy" => pc[c] = "busy" /\ c # writers[1]
<1> DEFINE k == Len(writers) - n
<1>1. /\ Len(writers) \in Nat /\ n \in Nat /\ k \in Nat
      /\ writers' \in Seq(Clients) /\ Len(writers') = k
      /\ \A i \in 1 .. k : writers'[i] = writers[n + i] /\ n + i \in 1 .. Len(writers)
  BY DEF Queue, Return
<1>2. \A i \in 1 .. Len(writers) : writers[i] \in Clients  BY DEF Queue
<1>3. ASSUME NEW c \in Clients
      PROVE  /\ (\E i \in 1 .. n : writers[i] = c) => pc'[c] = "idle"
             /\ ~(\E i \in 1 .. n : writers[i] = c) =>
                   pc'[c] = IF k > 0 /\ c = writers[n + 1] THEN "front" ELSE pc[c]
  <2>1. SubSeq(writers, n + 1, Len(writers)) = writers'  BY DEF Return
  <2>2. writers' # <<>> <=> k > 0  BY <1>1
  <2>3. k > 0 => Head(writers') = writers[n + 1]  BY <1>1
  <2> QED  BY <1>1, <2>1, <2>2, <2>3 DEF Return
<1>4. pc' \in [Clients -> PCs]
  <2>1. pc' = [c \in Clients |-> pc'[c]]  BY DEF Return
  <2>2. ASSUME NEW c \in Clients PROVE pc'[c] \in PCs  BY <1>3 DEF Queue, PCs
  <2> QED  BY <2>1, <2>2
<1>5. call' \in [Clients -> Calls]
  <2>1. NoCall \in Calls  BY DEF NoCall, Calls
  <2> QED  BY <2>1 DEF Return, Queue
<1>6. \A i \in 1 .. k, j \in 1 .. n : writers'[i] # writers[j]
  BY <1>1 DEF Queue
<1>7. ASSUME NEW c \in Clients
      PROVE  pc'[c] = "idle" <=> \A i \in 1 .. k : writers'[i] # c
  <2>1. CASE \E i \in 1 .. n : writers[i] = c  BY <1>3, <1>6, <2>1
  <2>2. CASE ~ \E i \in 1 .. n : writers[i] = c
    <3>1. (\A i \in 1 .. k : writers'[i] # c) <=> \A i \in 1 .. Len(writers) : writers[i] # c
      <4>1. \A i \in 1 .. Len(writers) : i \in 1 .. n \/ (i - n \in 1 .. k /\ writers'[i - n] = writers[i])
        BY <1>1
      <4> QED  BY <1>1, <2>2, <4>1
    <3>2. k > 0 /\ c = writers[n + 1] => 1 \in 1 .. k /\ writers'[1] = c  BY <1>1
    <3> QED  BY <1>3, <2>2, <3>1, <3>2 DEF Queue
  <2> QED  BY <2>1, <2>2
<1>8. \A i, j \in 1 .. k : writers'[i] = writers'[j] => i = j
  <2>1. SUFFICES ASSUME NEW i \in 1 .. k, NEW j \in 1 .. k, writers'[i] = writers'[j]
                 PROVE  i = j
    OBVIOUS
  <2>2. n + i = n + j
    <3>1. writers[n + i] = writers[n + j]  BY <1>1, <2>1
    <3> QED  BY <1>1, <3>1 DEF Queue
  <2> QED  BY <1>1, <2>2
<1>9. ASSUME NEW i \in 1 .. k PROVE pc'[writers'[i]] = "asleep" <=> i > 1
  <2>1. ~ \E j \in 1 .. n : writers[j] = writers'[i]  BY <1>6
  <2>2. writers'[i] \in Clients  BY <1>1, <1>2
  <2>3. pc'[writers'[i]] = IF writers'[i] = writers[n + 1] THEN "front" ELSE pc[writers'[i]]
    BY <1>1, <1>3, <2>1, <2>2
  <2>4. writers'[i] = writers[n + 1] <=> i = 1
    <3>1. 1 \in 1 .. k /\ writers'[1] = writers[n + 1]  BY <1>1
    <3> QED  BY <1>8, <3>1
  <2>5. pc[writers[n + i]] = "asleep" /\ writers'[i] = writers[n + i]  BY <1>1 DEF Queue
  <2>6. CASE i = 1  BY <2>3, <2>4, <2>6
  <2>7. CASE i # 1  BY <1>1, <2>3, <2>4, <2>5, <2>7
  <2> QED  BY <2>6, <2>7
<1>10. \A c \in Clients : pc'[c] = "busy" => pc[c] = "busy" /\ c # writers[1]
  <2>1. 1 \in 1 .. n  BY <1>1
  <2> QED  BY <1>3, <2>1
<1> QED  BY <1>1, <1>4, <1>5, <1>7, <1>8, <1>9, <1>10 DEF Queue

\* Waking those who wait for a compaction leaves the queue as it is.
LEMMA SignalQueue ==
    ASSUME Queue, pc' = SignalAll(pc), UNCHANGED <<writers, call, calls>>
    PROVE  Queue' /\ \A c \in Clients : pc'[c] = "busy" <=> pc[c] = "busy"
<1>1. pc' \in [Clients -> PCs]  BY DEF Queue, SignalAll, PCs
<1>2. \A c \in Clients : /\ pc'[c] = "busy" <=> pc[c] = "busy"
                         /\ pc'[c] = "idle" <=> pc[c] = "idle"
                         /\ pc'[c] = "asleep" <=> pc[c] = "asleep"
  BY DEF SignalAll
<1>3. \A i \in 1 .. Len(writers) : writers[i] \in Clients  BY DEF Queue
<1> QED  BY <1>1, <1>2, <1>3 DEF Queue

(***************************************************************************)
(* Where the entries are.                                                   *)
(***************************************************************************)
\* A log that keeps what it holds keeps what a manifest can recover.
LEMMA LogsGrow ==
    ASSUME NEW m, \A n \in DOMAIN logs : n >= m.log =>
               /\ n \in DOMAIN logs'
               /\ InLog(logs[n]) \subseteq InLog(logs'[n]) /\ logs[n].safe \subseteq logs'[n].safe
    PROVE  Recoverable(m) \subseteq Recoverable(m)' /\ Safe(m) \subseteq Safe(m)'
BY DEF Recoverable, Safe, LogsFrom

\* A manifest that names more tables and no later log recovers no less.
LEMMA ManifestGrows ==
    ASSUME NEW m, NEW w, m.ents \subseteq w.ents, w.log <= m.log,
           m.log \in Nat, w.log \in Nat, DOMAIN logs \subseteq Nat
    PROVE  Recoverable(m) \subseteq Recoverable(w) /\ Safe(m) \subseteq Safe(w)
BY DEF Recoverable, Safe, LogsFrom

\* What is synced is in the log.
LEMMA SafeInLog == \A lg : lg.safe \subseteq InLog(lg)
BY DEF InLog

\* An open database: every manifest recovers the acknowledged entries.
LEMMA OpenRecovers ==
    ASSUME IInv, db = "open", NEW m \in manifests \cup {ver}
    PROVE  acked \subseteq Recoverable(m) /\ InLog(logs[logNum]) \subseteq Recoverable(m)
<1>1. logNum \in LogsFrom(m)  BY DEF IInv, Numbers, Held, LogsFrom
<1>2. InLog(logs[logNum]) \subseteq Recoverable(m)  BY <1>1 DEF Recoverable
<1>3. m.ents \subseteq Recoverable(m)  BY DEF Recoverable
<1> QED  BY <1>2, <1>3 DEF IInv, Held

\* The same of a manifest with the edit that is being written.
LEMMA EditRecovers ==
    ASSUME IInv, bg.pc = "edit", NEW m \in manifests \cup {ver}, NEW w, w = Apply(m, bg.edit)
    PROVE  /\ ver.log <= w.log /\ w.log <= logNum /\ w.log \in Nat
           /\ w.next \in Nat /\ w.log <= w.next
           /\ w.ents = m.ents \cup bg.edit.adds
           /\ imm \subseteq Recoverable(w) /\ acked \subseteq Recoverable(w)
           /\ synced \subseteq Safe(w)
           /\ acked \subseteq w.ents \cup imm \cup mem
           /\ synced \subseteq w.ents \cup imm \cup logs[logNum].safe
           /\ bg.edit.l0 # -1 => imm \subseteq w.ents
<1>1. /\ db = "open" /\ w.log = bg.edit.log /\ w.ents = m.ents \cup bg.edit.adds
      /\ w.next = bg.edit.next
  BY DEF IInv, Background, Apply
<1>2. /\ ver.log <= w.log /\ w.log <= logNum /\ w.log \in Nat /\ w.next \in Nat /\ w.log <= w.next
      /\ logNum \in DOMAIN logs /\ logNum \in LogsFrom(w)
  BY <1>1 DEF IInv, Background, Numbers, Held, LogsFrom
<1>3. /\ acked \subseteq w.ents \cup imm \cup mem
      /\ synced \subseteq w.ents \cup imm \cup logs[logNum].safe
  BY <1>1 DEF IInv, Held
<1>4. mem \subseteq Recoverable(w) /\ logs[logNum].safe \subseteq Safe(w)
  BY <1>1, <1>2 DEF IInv, Held, Recoverable, Safe
<1>5. w.ents \subseteq Recoverable(w) /\ w.ents \subseteq Safe(w)  BY DEF Recoverable, Safe
<1>6. CASE bg.edit.l0 = -1
  <2>1. bg.edit.adds = {} /\ w.log = ver.log  BY <1>1, <1>6 DEF IInv, Background
  <2>2. Recoverable(m) \subseteq Recoverable(w) /\ Safe(m) \subseteq Safe(w)
    <3>1. w.log <= m.log /\ m.log \in Nat /\ DOMAIN logs \subseteq Nat
      BY <1>1, <2>1 DEF IInv, Held, Numbers
    <3> QED  BY <1>1, <1>2, <3>1, ManifestGrows
  <2>3. imm \subseteq Recoverable(w)  BY <1>1, <2>2 DEF IInv, Held
  <2>4. synced \subseteq Safe(w)  BY <2>2 DEF IInv, Held
  <2> QED  BY <1>1, <1>2, <1>3, <1>4, <1>5, <1>6, <2>3, <2>4
<1>7. CASE bg.edit.l0 # -1
  <2>1. imm \subseteq w.ents  BY <1>1, <1>7 DEF IInv, Background
  <2> QED  BY <1>1, <1>2, <1>3, <1>4, <1>5, <2>1
<1> QED  BY <1>6, <1>7

(***************************************************************************)
(* The steps.                                                               *)
(***************************************************************************)
\* A step that touches no file, no memtable and no promise.
LEMMA HeldUnchanged ==
    ASSUME Numbers, NotTorn, Held,
           UNCHANGED <<acked, synced, mem, imm, logNum, nextFile, ver, logs, manifests, db>>
    PROVE  Numbers' /\ NotTorn' /\ Held'
<1>1. \A m : Recoverable(m)' = Recoverable(m) /\ Safe(m)' = Safe(m)
  BY DEF Recoverable, Safe, LogsFrom
<1> QED  BY <1>1 DEF Numbers, NotTorn, Held

\* A step of the queue's head outside a group: the calls may change, not what is
\* stored.
LEMMA QueueStep ==
    ASSUME IInv, Queue', group.phase = "none", group' = group,
           \A c \in Clients : pc'[c] # "busy",
           db' # "open" => writers' = <<>>,
           UNCHANGED <<acked, synced, mem, imm, hasImm, logNum, nextFile, ver, bg, logs,
                       manifests, db>>
    PROVE  IInv'
<1>1. Numbers' /\ NotTorn' /\ Held'  BY HeldUnchanged DEF IInv
<1>2. Phase' /\ GroupSync' /\ Logged'  BY DEF IInv, Phase, GroupSync, Logged
<1>3. Background'  BY DEF IInv, Background
<1> QED  BY <1>1, <1>2, <1>3 DEF IInv

\* At the front nobody is logging.
LEMMA FrontAlone ==
    ASSUME IInv, NEW c \in Clients, pc[c] \in {"front", "delay", "wait"}
    PROVE  /\ group.phase = "none" /\ \A b \in Clients : pc[b] # "busy"
           /\ Len(writers) \in Nat /\ 1 \in 1 .. Len(writers) /\ c = writers[1] /\ c = Head(writers)
           /\ db = "open"
<1>1. \A b \in Clients : pc[b] # "busy"  BY OneHead DEF IInv
<1>2. Len(writers) \in Nat /\ Len(writers) > 0 /\ c = writers[1] /\ c = Head(writers)
  BY HeadAwake DEF IInv
<1>3. writers # <<>>  BY <1>2
<1> QED  BY <1>1, <1>2, <1>3 DEF IInv, Phase

LEMMA WriteStep ==
    ASSUME IInv, NEW c \in Clients, NEW s \in BOOLEAN, NEW null \in BOOLEAN, Write(c, s, null)
    PROVE  IInv'
<1>1. /\ writers \in Seq(Clients) /\ Len(writers) \in Nat /\ pc[c] = "idle"
      /\ writers' = Append(writers, c) /\ writers' \in Seq(Clients)
      /\ Len(writers') = Len(writers) + 1 /\ writers'[Len(writers) + 1] = c
      /\ \A i \in 1 .. Len(writers) : writers'[i] = writers[i]
      /\ \A i \in 1 .. Len(writers) : writers[i] # c /\ writers[i] \in Clients
  BY DEF IInv, Queue, Write
<1>2. /\ pc' = [pc EXCEPT ![c] = IF Len(writers) = 0 THEN "front" ELSE "asleep"]
      /\ pc' \in [Clients -> PCs]
  <2>1. writers = <<>> <=> Len(writers) = 0  BY <1>1
  <2> QED  BY <2>1 DEF IInv, Queue, Write, PCs
<1>3. /\ call' \in [Clients -> Calls] /\ calls' \in Nat
      /\ \A b \in Clients \ {c} : call'[b] = call[b]
  <2>1. [sync |-> s, id |-> IF null THEN 0 ELSE calls + 1, force |-> null, delay |-> ~null] \in Calls
    BY DEF IInv, Queue, Calls
  <2> QED  BY <2>1 DEF IInv, Queue, Write
<1>4. \A b \in Clients : pc'[b] = "idle" <=> \A i \in 1 .. Len(writers') : writers'[i] # b
  BY <1>1, <1>2 DEF IInv, Queue
<1>5. \A i, j \in 1 .. Len(writers') : writers'[i] = writers'[j] => i = j
  BY <1>1 DEF IInv, Queue
<1>6. \A i \in 1 .. Len(writers') : pc'[writers'[i]] = "asleep" <=> i > 1
  BY <1>1, <1>2 DEF IInv, Queue
<1>7. Queue'  BY <1>1, <1>2, <1>3, <1>4, <1>5, <1>6 DEF Queue
<1>8. Numbers' /\ NotTorn' /\ Held'  BY HeldUnchanged DEF IInv, Write
<1>9. group' = group /\ \A b \in Clients : pc'[b] = "busy" <=> pc[b] = "busy"
  BY <1>1, <1>2 DEF Write, IInv, Queue
<1>10. Phase'  BY <1>1, <1>9 DEF IInv, Phase, Write
<1>11. GroupSync'
  <2>1. group.phase # "none" => \A i \in 1 .. group.size : i \in 1 .. Len(writers)
    BY <1>1 DEF IInv, Phase
  <2>2. ASSUME group.phase # "none", NEW i \in 1 .. group.size
        PROVE  call'[writers'[i]] = call[writers[i]]
    BY <1>1, <1>3, <2>1, <2>2
  <2> QED  BY <1>9, <2>2 DEF IInv, GroupSync
<1>12. Background' /\ Logged'  BY DEF IInv, Background, Logged, Write
<1> QED  BY <1>7, <1>8, <1>10, <1>11, <1>12 DEF IInv

LEMMA FrontSteps ==
    ASSUME IInv, NEW c \in Clients,
           \/ MakeRoomFails(c) \/ SwitchFails(c) \/ NothingToWrite(c)
           \/ Slowdown(c) \/ SlowdownOver(c) \/ WaitForCompaction(c)
    PROVE  IInv'
<1>1. pc[c] \in {"front", "delay"}
  BY DEF MakeRoomFails, SwitchFails, NothingToWrite, Slowdown, SlowdownOver, WaitForCompaction,
         AtFront, NeedsSwitch
<1>2. /\ group.phase = "none" /\ \A b \in Clients : pc[b] # "busy"
      /\ Len(writers) \in Nat /\ 1 \in 1 .. Len(writers) /\ c = writers[1] /\ db = "open"
  BY <1>1, FrontAlone
<1>3. CASE MakeRoomFails(c) \/ SwitchFails(c) \/ NothingToWrite(c)
  <2>1. Return(1) /\ UNCHANGED <<calls, group, acked, synced, mem, imm, hasImm, logNum, nextFile,
                                 ver, bg, logs, manifests, db>>
    BY <1>3 DEF MakeRoomFails, SwitchFails, NothingToWrite
  <2>2. Queue' /\ \A b \in Clients : pc'[b] # "busy"
    BY <1>2, <2>1, ReturnQueue DEF IInv
  <2> QED  BY <1>2, <2>1, <2>2, QueueStep
<1>4. CASE Slowdown(c) \/ SlowdownOver(c) \/ WaitForCompaction(c)
  <2>1. /\ \E p \in {"front", "delay", "wait"} : pc' = [pc EXCEPT ![c] = p]
        /\ call' = call \/ call' = [call EXCEPT ![c].delay = FALSE]
        /\ UNCHANGED <<writers, calls, group, acked, synced, mem, imm, hasImm, logNum, nextFile,
                       ver, bg, logs, manifests, db>>
    BY <1>4 DEF Slowdown, SlowdownOver, WaitForCompaction
  <2>2. call' \in [Clients -> Calls]
    <3>1. call[c] \in Calls  BY DEF IInv, Queue
    <3>2. [call[c] EXCEPT !.delay = FALSE] \in Calls  BY <3>1 DEF Calls
    <3> QED  BY <2>1, <3>2 DEF IInv, Queue
  <2>3. Queue' /\ \A b \in Clients : pc'[b] # "busy"
    <3>1. PICK p \in {"front", "delay", "wait"} : pc' = [pc EXCEPT ![c] = p]  BY <2>1
    <3>2. pc' \in [Clients -> PCs] /\ pc'[c] = p /\ \A b \in Clients \ {c} : pc'[b] = pc[b]
      BY <3>1 DEF IInv, Queue, PCs
    <3>3. \A i \in 1 .. Len(writers) : writers[i] \in Clients /\ (writers[i] = c <=> i = 1)
      BY <1>2 DEF IInv, Queue
    <3> QED  BY <1>2, <2>1, <2>2, <3>2, <3>3 DEF IInv, Queue
  <2> QED  BY <1>2, <2>1, <2>3, QueueStep
<1> QED  BY <1>3, <1>4

\* A new memtable and a new log: the old ones are kept for the flush.
LEMMA SwitchStep ==
    ASSUME IInv, NEW c \in Clients, SwitchMemTable(c)
    PROVE  IInv'
<1>1. /\ group.phase = "none" /\ \A b \in Clients : pc[b] # "busy"
      /\ db = "open" /\ ~hasImm /\ imm = {} /\ ~(bg.pc = "table")
  BY FrontAlone DEF SwitchMemTable, NeedsSwitch, AtFront, IInv, Background
<1>2. call' \in [Clients -> Calls]
  <2>1. call[c] \in Calls  BY DEF IInv, Queue
  <2>2. [call[c] EXCEPT !.force = FALSE] \in Calls  BY <2>1 DEF Calls
  <2> QED  BY <2>2 DEF IInv, Queue, SwitchMemTable
<1>3. Queue'  BY <1>2 DEF IInv, Queue, SwitchMemTable
<1>4. Phase' /\ GroupSync' /\ Logged'
  BY <1>1 DEF SwitchMemTable, IInv, Phase, GroupSync, Logged
<1>5. /\ DOMAIN logs' = DOMAIN logs \cup {nextFile} /\ logs'[nextFile] = EmptyLog
      /\ \A n \in DOMAIN logs : logs'[n] = logs[n]
      /\ logNum \in DOMAIN logs /\ logNum' = nextFile /\ nextFile' = nextFile + 1
      /\ nextFile \notin DOMAIN logs
  BY <1>1 DEF SwitchMemTable, NewLog, WithLog, IInv, Numbers
<1>6. Numbers'  BY <1>1, <1>5 DEF SwitchMemTable, IInv, Numbers
<1>7. NotTorn'  BY <1>5 DEF IInv, NotTorn, EmptyLog
<1>8. Background'
  <2>1. /\ bg' = [pc |-> bg'.pc, merging |-> bg'.merging, left |-> bg'.left, edit |-> bg'.edit]
        /\ bg'.edit = bg.edit /\ (bg'.pc = bg.pc \/ bg'.pc = "scheduled")
    BY DEF SwitchMemTable, Schedule, IInv, Background
  <2>2. bg'.pc = "edit" => bg.edit.l0 = -1 /\ bg.edit.adds = {} /\ bg.edit.log = ver.log
                              /\ bg.edit.next \in Nat /\ bg.edit.log <= bg.edit.next
    BY <1>1, <2>1 DEF IInv, Background
  <2> QED  BY <1>1, <2>1, <2>2 DEF SwitchMemTable, IInv, Background
<1>9. \A m : Recoverable(m) \subseteq Recoverable(m)' /\ Safe(m) \subseteq Safe(m)'
  BY <1>5, LogsGrow
<1>10. Held'
  <2>1. mem \subseteq InLog(logs[logNum])  BY <1>1 DEF IInv, Held
  <2>2. ASSUME NEW m \in manifests \cup {ver}
        PROVE  /\ ver.log <= m.log /\ m.log <= nextFile
               /\ acked \subseteq m.ents \cup mem
               /\ mem \subseteq Recoverable(m)' /\ synced \subseteq Safe(m)'
    <3>1. mem \subseteq Recoverable(m)  BY <1>1, <2>1, OpenRecovers
    <3>2. ver.log <= m.log /\ m.log <= logNum /\ acked \subseteq m.ents \cup mem
      BY <1>1 DEF IInv, Held
    <3>3. m.log <= nextFile  BY <3>2 DEF IInv, Numbers
    <3>4. synced \subseteq Safe(m)  BY DEF IInv, Held
    <3> QED  BY <1>9, <3>1, <3>2, <3>3, <3>4
  <2>3. mem' = {} /\ imm' = mem
        /\ UNCHANGED <<acked, synced, manifests, ver, db>>
    BY DEF SwitchMemTable
  <2>4. synced \subseteq acked  BY DEF IInv, Held
  <2> QED  BY <1>1, <1>5, <2>2, <2>3, <2>4 DEF Held
<1> QED  BY <1>3, <1>4, <1>6, <1>7, <1>8, <1>10 DEF IInv

\* The head takes the batches of those behind it.
LEMMA GroupStep ==
    ASSUME IInv, NEW c \in Clients, NEW n \in 1 .. Cardinality(Clients), BuildBatchGroup(c, n)
    PROVE  IInv'
<1>1. /\ group.phase = "none" /\ \A b \in Clients : pc[b] # "busy"
      /\ Len(writers) \in Nat /\ 1 \in 1 .. Len(writers) /\ c = writers[1] /\ c = Head(writers)
      /\ db = "open"
  BY FrontAlone DEF BuildBatchGroup, AtFront
<1>2. /\ n \in 1 .. Len(writers) /\ Joins(n)
      /\ pc' = [pc EXCEPT ![c] = "busy"]
      /\ group' = [phase |-> "log", ents |-> group'.ents, todo |-> group'.ents,
                   sync |-> call[c].sync, size |-> n]
      /\ UNCHANGED <<writers, call, calls, acked, synced, mem, imm, hasImm, logNum, nextFile, ver,
                     bg, logs, manifests, db>>
  BY DEF BuildBatchGroup
<1>3. Queue'
  <2>1. pc' \in [Clients -> PCs] /\ pc'[c] = "busy" /\ \A b \in Clients \ {c} : pc'[b] = pc[b]
    BY <1>2 DEF IInv, Queue, PCs
  <2>2. \A i \in 1 .. Len(writers) : writers[i] \in Clients /\ (writers[i] = c <=> i = 1)
    BY <1>1 DEF IInv, Queue
  <2> QED  BY <1>1, <1>2, <2>1, <2>2 DEF IInv, Queue
<1>4. Phase'
  <2>1. pc'[c] = "busy"  BY <1>2 DEF IInv, Queue
  <2> QED  BY <1>1, <1>2, <2>1 DEF IInv, Phase
<1>5. GroupSync'
  <2>1. ASSUME NEW i \in 1 .. n, call[writers[i]].sync PROVE call[c].sync
    <3>1. CASE i = 1  BY <1>1, <2>1, <3>1
    <3>2. CASE i # 1
      <4>1. i \in 2 .. n  BY <3>2
      <4> QED  BY <1>1, <1>2, <2>1, <4>1 DEF Joins
    <3> QED  BY <3>1, <3>2
  <2> QED  BY <1>2, <2>1 DEF GroupSync
<1>6. Numbers' /\ NotTorn' /\ Held'  BY <1>2, HeldUnchanged DEF IInv
<1>7. Background' /\ Logged'
  <2>1. group'.phase = "log" /\ group'.todo = group'.ents  BY <1>2
  <2> QED  BY <1>2, <2>1 DEF IInv, Background, Logged
<1> QED  BY <1>3, <1>4, <1>5, <1>6, <1>7 DEF IInv

\* While a group is being logged the database is open.
LEMMA GroupOpen ==
    ASSUME IInv, group.phase # "none"
    PROVE  /\ db = "open" /\ Len(writers) \in Nat /\ group.size \in 1 .. Len(writers)
           /\ Len(writers) > 0 /\ pc[writers[1]] = "busy" /\ logNum \in DOMAIN logs
<1>1. PICK c \in Clients : pc[c] = "busy"  BY DEF IInv, Phase
<1>2. Len(writers) \in Nat /\ Len(writers) > 0 /\ c = writers[1]  BY <1>1, HeadAwake DEF IInv
<1>3. db = "open"  BY <1>2 DEF IInv, Phase
<1> QED  BY <1>1, <1>2, <1>3 DEF IInv, Phase, Numbers

\* The current log gets longer, or more of it is synced.
LEMMA LogWritten ==
    ASSUME IInv, db = "open", NEW lg, logs' = WithLog(logNum, lg),
           InLog(logs[logNum]) \subseteq InLog(lg), logs[logNum].safe \subseteq lg.safe,
           lg.torn = FALSE, lg.after = {},
           UNCHANGED <<acked, synced, mem, imm, logNum, nextFile, ver, manifests, db>>
    PROVE  Numbers' /\ NotTorn' /\ Held' /\ logs'[logNum] = lg
<1>1. /\ logNum \in DOMAIN logs /\ DOMAIN logs' = DOMAIN logs /\ logs'[logNum] = lg
      /\ \A n \in DOMAIN logs : n # logNum => logs'[n] = logs[n]
  BY DEF WithLog, IInv, Numbers
<1>2. \A n \in DOMAIN logs :
          InLog(logs[n]) \subseteq InLog(logs'[n]) /\ logs[n].safe \subseteq logs'[n].safe
  <2>1. ASSUME NEW n \in DOMAIN logs
        PROVE  InLog(logs[n]) \subseteq InLog(logs'[n]) /\ logs[n].safe \subseteq logs'[n].safe
    <3>1. CASE n = logNum  BY <1>1, <3>1
    <3>2. CASE n # logNum
      <4>1. logs'[n] = logs[n]  BY <1>1, <3>2
      <4> QED  BY <4>1
    <3> QED  BY <3>1, <3>2
  <2> QED  BY <2>1
<1>3. \A m : Recoverable(m) \subseteq Recoverable(m)' /\ Safe(m) \subseteq Safe(m)'
  BY <1>1, <1>2, LogsGrow
<1>4. Numbers'  BY <1>1 DEF IInv, Numbers
<1>5. NotTorn'  BY <1>1 DEF IInv, NotTorn
<1>6. Held'
  <2>1. mem \subseteq InLog(lg)  BY DEF IInv, Held
  <2>2. ASSUME NEW m \in manifests \cup {ver}
        PROVE  /\ imm \subseteq Recoverable(m)' /\ synced \subseteq Safe(m)'
               /\ synced \subseteq m.ents \cup imm \cup lg.safe
    BY <1>3 DEF IInv, Held
  <2> QED  BY <1>1, <2>1, <2>2 DEF IInv, Held
<1> QED  BY <1>1, <1>4, <1>5, <1>6

\* The steps of a group leave the queue and the background thread alone.
LEMMA GroupPhase ==
    ASSUME IInv, group.phase # "none", group'.phase # "none",
           group' = [phase |-> group'.phase, ents |-> group.ents, todo |-> group'.todo,
                     sync |-> group.sync, size |-> group.size],
           UNCHANGED <<writers, pc, call, calls, imm, hasImm, logNum, ver, bg, db>>
    PROVE  Queue' /\ Phase' /\ GroupSync' /\ Background'
<1>1. Queue' /\ Background'  BY DEF IInv, Queue, Background
<1>2. Phase' /\ GroupSync'  BY DEF IInv, Phase, GroupSync
<1> QED  BY <1>1, <1>2

LEMMA RecordStep ==
    ASSUME IInv, "tear" \notin Faults, AddRecord \/ AddRecordFails
    PROVE  IInv'
<1> DEFINE lg == Record(logs[logNum], group.ents)
<1>1. /\ group.phase = "log" /\ logs' = WithLog(logNum, lg)
      /\ \E p \in {"sync", "insert", "failed"} :
            group' = [group EXCEPT !.phase = p] /\ (p = "insert" => ~group.sync)
      /\ UNCHANGED <<writers, pc, call, calls, acked, synced, memVars, manifests, db>>
  BY DEF AddRecord, AddRecordFails
<1>2. /\ db = "open" /\ logNum \in DOMAIN logs
  BY <1>1, GroupOpen
<1>3. /\ lg.rest = logs[logNum].rest \cup {group.ents} /\ lg.safe = logs[logNum].safe
      /\ lg.torn = FALSE /\ lg.after = {}
  BY <1>2 DEF Record, IInv, NotTorn
<1>4. InLog(logs[logNum]) \subseteq InLog(lg) /\ group.ents \subseteq InLog(lg)
  BY <1>3 DEF InLog
<1> HIDE DEF lg
<1>5. Numbers' /\ NotTorn' /\ Held' /\ logs'[logNum] = lg
  BY <1>1, <1>2, <1>3, <1>4, LogWritten DEF memVars
<1>6. PICK p \in {"sync", "insert", "failed"} :
          /\ group' = [phase |-> p, ents |-> group.ents, todo |-> group.todo,
                       sync |-> group.sync, size |-> group.size]
          /\ p = "insert" => ~group.sync
  BY <1>1 DEF IInv, Phase
<1>7. Queue' /\ Phase' /\ GroupSync' /\ Background'
  BY <1>1, <1>6, GroupPhase DEF memVars
<1>8. Logged'  BY <1>1, <1>4, <1>5, <1>6 DEF IInv, Logged, memVars
<1> QED  BY <1>5, <1>7, <1>8 DEF IInv

LEMMA SyncStep ==
    ASSUME IInv, SyncLog
    PROVE  IInv'
<1> DEFINE lg == Synced(logs[logNum])
<1>1. /\ group.phase = "sync" /\ logs' = WithLog(logNum, lg)
      /\ group' = [group EXCEPT !.phase = "insert"]
      /\ UNCHANGED <<writers, pc, call, calls, acked, synced, memVars, manifests, db>>
  BY DEF SyncLog
<1>2. db = "open" /\ logNum \in DOMAIN logs  BY <1>1, GroupOpen
<1>3. /\ lg.safe = InLog(logs[logNum]) /\ lg.torn = FALSE /\ lg.after = {}
      /\ InLog(lg) = InLog(logs[logNum]) /\ logs[logNum].safe \subseteq lg.safe
  BY <1>2 DEF Synced, IInv, NotTorn, InLog
<1> HIDE DEF lg
<1>5. Numbers' /\ NotTorn' /\ Held' /\ logs'[logNum] = lg
  BY <1>1, <1>2, <1>3, LogWritten DEF memVars
<1>6. group' = [phase |-> "insert", ents |-> group.ents, todo |-> group.todo,
                sync |-> group.sync, size |-> group.size]
  BY <1>1 DEF IInv, Phase
<1>7. Queue' /\ Phase' /\ GroupSync' /\ Background'
  BY <1>1, <1>6, GroupPhase DEF memVars
<1>8. Logged'  BY <1>1, <1>3, <1>5, <1>6 DEF IInv, Logged, memVars
<1> QED  BY <1>5, <1>7, <1>8 DEF IInv

LEMMA SyncFailsStep ==
    ASSUME IInv, SyncFails
    PROVE  IInv'
<1>1. /\ group.phase = "sync" /\ group' = [group EXCEPT !.phase = "syncerror"]
      /\ UNCHANGED <<writers, pc, call, calls, acked, synced, memVars, logs, manifests, db>>
  BY DEF SyncFails
<1>2. group' = [phase |-> "syncerror", ents |-> group.ents, todo |-> group.todo,
                sync |-> group.sync, size |-> group.size]
  BY <1>1 DEF IInv, Phase
<1>3. Queue' /\ Phase' /\ GroupSync' /\ Background'
  BY <1>1, <1>2, GroupPhase DEF memVars
<1>4. Numbers' /\ NotTorn' /\ Held'  BY <1>1, HeldUnchanged DEF memVars, IInv
<1>5. Logged'  BY <1>1, <1>2 DEF IInv, Logged, memVars
<1> QED  BY <1>3, <1>4, <1>5 DEF IInv

LEMMA InsertStep ==
    ASSUME IInv, NEW e \in group.todo, Insert(e)
    PROVE  IInv'
<1>1. /\ group.phase = "insert" /\ mem' = mem \cup {e}
      /\ group' = [phase |-> "insert", ents |-> group.ents, todo |-> group.todo \ {e},
                   sync |-> group.sync, size |-> group.size]
      /\ UNCHANGED <<writers, pc, call, calls, acked, synced, imm, hasImm, logNum, nextFile, ver,
                     bg, logs, manifests, db>>
  BY DEF Insert, IInv, Phase
<1>2. db = "open"  BY <1>1, GroupOpen
<1>3. Queue' /\ Phase' /\ GroupSync' /\ Background'
  BY <1>1, GroupPhase
<1>4. Numbers' /\ NotTorn'  BY <1>1 DEF IInv, Numbers, NotTorn
<1>5. e \in InLog(logs[logNum])  BY <1>1 DEF IInv, Logged
<1>6. \A m : Recoverable(m)' = Recoverable(m) /\ Safe(m)' = Safe(m)
  BY <1>1 DEF Recoverable, Safe, LogsFrom
<1>7. Held'  BY <1>1, <1>2, <1>5, <1>6 DEF IInv, Held
<1>8. Logged'  BY <1>1 DEF IInv, Logged
<1> QED  BY <1>3, <1>4, <1>7, <1>8 DEF IInv

\* The group's writers return; what they were told is in mem, and in the synced
\* part of the log if one of them asked for that.
LEMMA FinishStep ==
    ASSUME IInv, FinishWrite
    PROVE  IInv'
<1>1. /\ group.phase \in {"insert", "failed", "syncerror"}
      /\ Return(group.size) /\ group' = NoGroup
      /\ UNCHANGED <<calls, mem, imm, hasImm, logNum, nextFile, ver, bg, logs, manifests, db>>
  BY DEF FinishWrite
<1>2. /\ db = "open" /\ Len(writers) \in Nat /\ group.size \in 1 .. Len(writers)
      /\ Len(writers) > 0 /\ pc[writers[1]] = "busy" /\ logNum \in DOMAIN logs
  BY <1>1, GroupOpen
<1>3. Queue' /\ \A c \in Clients : pc'[c] = "busy" => pc[c] = "busy" /\ c # writers[1]
  BY <1>1, <1>2, ReturnQueue DEF IInv
<1>4. \A c \in Clients : pc'[c] # "busy"
  BY <1>3, HeadAwake DEF IInv
<1>5. Phase' /\ GroupSync' /\ Logged'
  <2>1. group'.phase = "none" /\ group' = [phase |-> "none", ents |-> {}, todo |-> {}, sync |-> FALSE, size |-> 0]
    BY <1>1 DEF NoGroup
  <2> QED  BY <1>1, <1>2, <1>4, <2>1 DEF Phase, GroupSync, Logged
<1>6. Background' /\ Numbers' /\ NotTorn'
  BY <1>1 DEF IInv, Background, Numbers, NotTorn
<1>7. \A m : Recoverable(m)' = Recoverable(m) /\ Safe(m)' = Safe(m)
  BY <1>1 DEF Recoverable, Safe, LogsFrom
<1>8. CASE acked' = acked /\ synced' = synced
  BY <1>1, <1>2, <1>7, <1>8, <1>3, <1>5, <1>6 DEF IInv, Held
<1>9. CASE group.phase = "insert" /\ group.todo = {} /\ acked' = acked \cup group.ents
  <2>1. acked' \subseteq acked \cup mem  BY <1>9 DEF IInv, Logged
  <2>2. synced' \subseteq synced \cup logs[logNum].safe
    <3>1. SUFFICES ASSUME NEW e \in synced', e \notin synced PROVE e \in logs[logNum].safe
      OBVIOUS
    <3>2. e \in group.ents /\ \E i \in 1 .. group.size : call[writers[i]].sync
      BY <1>9, <3>1 DEF FinishWrite
    <3>3. group.sync  BY <1>1, <3>2 DEF IInv, GroupSync
    <3> QED  BY <1>9, <3>2, <3>3 DEF IInv, Logged
  <2>3. synced' \subseteq acked'
    BY <1>9 DEF FinishWrite, IInv, Held
  <2>4. ASSUME NEW m \in manifests \cup {ver} PROVE synced' \subseteq Safe(m)
    <3>1. logNum \in LogsFrom(m)  BY <1>2 DEF IInv, Held, LogsFrom
    <3>2. logs[logNum].safe \subseteq Safe(m)  BY <3>1 DEF Safe
    <3> QED  BY <2>2, <3>2 DEF IInv, Held
  <2>5. Held'  BY <1>1, <1>2, <1>7, <2>1, <2>2, <2>3, <2>4 DEF IInv, Held
  <2> QED  BY <1>3, <1>5, <1>6, <2>5 DEF IInv
<1>10. \/ acked' = acked /\ synced' = synced
       \/ group.phase = "insert" /\ group.todo = {} /\ acked' = acked \cup group.ents
  BY DEF FinishWrite
<1> QED  BY <1>8, <1>9, <1>10

\* The background thread at work that reaches no file yet.
LEMMA BackgroundQuiet ==
    ASSUME IInv, Queue', \A c \in Clients : pc'[c] = "busy" <=> pc[c] = "busy", Background',
           UNCHANGED <<writers, call, calls, group, acked, synced, mem, imm, hasImm, logNum,
                       nextFile, ver, logs, manifests, db>>
    PROVE  IInv'
<1>1. Numbers' /\ NotTorn' /\ Held'  BY HeldUnchanged DEF IInv
<1>2. Phase' /\ GroupSync' /\ Logged'  BY DEF IInv, Phase, GroupSync, Logged
<1> QED  BY <1>1, <1>2 DEF IInv

LEMMA BackgroundCallStep ==
    ASSUME IInv, BackgroundCall \/ WorkFails
    PROVE  IInv'
<1>1. /\ bg.pc # "idle" /\ bg.pc # "edit"
      /\ pc' = pc \/ pc' = SignalAll(pc)
      /\ UNCHANGED <<writers, call, calls, group, acked, synced, mem, imm, hasImm, logNum,
                     nextFile, ver, logs, manifests, db>>
  BY DEF BackgroundCall, WorkFails
<1>2. Queue' /\ \A c \in Clients : pc'[c] = "busy" <=> pc[c] = "busy"
  <2>1. CASE pc' = pc  BY <1>1, <2>1 DEF IInv, Queue
  <2>2. CASE pc' = SignalAll(pc)  BY <1>1, <2>2, SignalQueue DEF IInv
  <2> QED  BY <1>1, <2>1, <2>2
<1>3. /\ bg' = [pc |-> bg'.pc, merging |-> bg'.merging, left |-> bg'.left, edit |-> bg'.edit]
      /\ bg'.pc \in {"idle", "scheduled", "table", "merge"}
      /\ bg'.pc = "table" => hasImm
  <2>1. CASE BackgroundCall
    BY <2>1 DEF BackgroundCall, Resting, IInv, Background
  <2>2. CASE WorkFails
    BY <2>2 DEF WorkFails, EndOfWork, Schedule, Resting, IInv, Background
  <2> QED  BY <2>1, <2>2
<1>4. Background'  BY <1>1, <1>3 DEF IInv, Background
<1> QED  BY <1>1, <1>2, <1>4, BackgroundQuiet

LEMMA EditStep ==
    ASSUME IInv, MergeStopsForImm \/ MergeDone \/ (\E l0 \in {0, 1} : TableWritten(l0))
    PROVE  IInv'
<1>1. UNCHANGED <<writers, pc, call, calls, group, acked, synced, mem, imm, hasImm, logNum,
                  nextFile, ver, logs, manifests, db>>
  BY DEF MergeStopsForImm, MergeDone, TableWritten, clientVars, diskVars
<1>2. Queue'  BY <1>1 DEF IInv, Queue
<1>3. db = "open"
  BY DEF MergeStopsForImm, MergeDone, TableWritten, IInv, Background
<1>4. logNum \in Nat /\ nextFile \in Nat /\ logNum < nextFile /\ ver.log \in Nat /\ ver.log <= logNum
  BY <1>3 DEF IInv, Numbers, Held
<1>5. CASE MergeStopsForImm
  <2>1. /\ bg' = [pc |-> "table", merging |-> bg.merging, left |-> bg'.left, edit |-> bg.edit]
        /\ hasImm
    BY <1>5 DEF MergeStopsForImm, IInv, Background
  <2>2. Background'  BY <1>1, <1>3, <2>1 DEF IInv, Background
  <2> QED  BY <1>1, <1>2, <2>2, BackgroundQuiet
<1>6. CASE MergeDone
  <2>1. bg' = [pc |-> "edit", merging |-> FALSE, left |-> bg.left, edit |-> Edit({}, ver.log, -1)]
    BY <1>6 DEF MergeDone, IInv, Background
  <2>2. Background'  BY <1>1, <1>3, <1>4, <2>1 DEF Edit, IInv, Background
  <2> QED  BY <1>1, <1>2, <2>2, BackgroundQuiet
<1>7. ASSUME NEW l0 \in {0, 1}, TableWritten(l0) PROVE IInv'
  <2>1. /\ bg' = [pc |-> "edit", merging |-> bg.merging, left |-> bg.left,
                  edit |-> Edit(imm, logNum, l0)]
        /\ bg.pc = "table"
    BY <1>7 DEF TableWritten, IInv, Background
  <2>2. Background'  BY <1>1, <1>3, <1>4, <2>1 DEF Edit, IInv, Background
  <2> QED  BY <1>1, <1>2, <2>2, BackgroundQuiet
<1> QED  BY <1>5, <1>6, <1>7

\* The edit is in the manifest: the logs before the one it names may go.
LEMMA ApplyStep ==
    ASSUME IInv, LogAndApply
    PROVE  IInv'
<1>1. /\ bg.pc = "edit" /\ db = "open" /\ ver' = Apply(ver, bg.edit)
      /\ manifests' = {Apply(m, bg.edit) : m \in manifests}
      /\ pc' = SignalAll(pc) /\ logs' = KeptLogs(bgError, ver'.log)
      /\ imm' = (IF bg.edit.l0 # -1 THEN {} ELSE imm)
      /\ hasImm' = (hasImm /\ ~(bg.edit.l0 # -1))
      /\ bg' = EndOfWork(bgError, hasImm', ver'.l0)
      /\ UNCHANGED <<writers, call, calls, group, acked, synced, mem, logNum, nextFile, db>>
  BY DEF LogAndApply, IInv, Background
<1>2. Queue' /\ \A c \in Clients : pc'[c] = "busy" <=> pc[c] = "busy"
  BY <1>1, SignalQueue DEF IInv
<1>3. Phase' /\ GroupSync'  BY <1>1, <1>2 DEF IInv, Phase, GroupSync
<1>4. /\ bg' = [pc |-> bg'.pc, merging |-> bg'.merging, left |-> bg'.left, edit |-> bg'.edit]
      /\ bg'.pc \in {"idle", "scheduled", "merge"}
  BY <1>1 DEF EndOfWork, Schedule, Resting, IInv, Background
<1>5. Background'  BY <1>1, <1>4 DEF IInv, Background
<1>6. \A w \in manifests' \cup {ver'} :
          /\ w.log = ver'.log /\ ver'.log = bg.edit.log
          /\ \E m \in manifests \cup {ver} : w = Apply(m, bg.edit)
  BY <1>1 DEF Apply
<1>7. ASSUME NEW w \in manifests' \cup {ver'}
      PROVE  /\ w.log <= logNum /\ w.log \in Nat /\ w.next \in Nat /\ w.log <= w.next
             /\ imm \subseteq Recoverable(w) /\ synced \subseteq Safe(w)
             /\ acked \subseteq w.ents \cup imm \cup mem
             /\ synced \subseteq w.ents \cup imm \cup logs[logNum].safe
             /\ bg.edit.l0 # -1 => imm \subseteq w.ents
  <2>1. PICK m \in manifests \cup {ver} : w = Apply(m, bg.edit)  BY <1>6
  <2> QED  BY <1>1, <2>1, EditRecovers
<1>8. /\ DOMAIN logs' \subseteq DOMAIN logs /\ logNum \in DOMAIN logs'
      /\ \A n \in DOMAIN logs' : logs'[n] = logs[n]
      /\ \A n \in DOMAIN logs : n >= ver'.log => n \in DOMAIN logs'
  <2>1. /\ logNum \in DOMAIN logs /\ logNum \in Nat /\ logNum >= ver'.log
    BY <1>1, <1>7 DEF IInv, Numbers
  <2> QED  BY <1>1, <2>1 DEF KeptLogs
<1>9. ASSUME NEW w \in manifests' \cup {ver'}
      PROVE  Recoverable(w) \subseteq Recoverable(w)' /\ Safe(w) \subseteq Safe(w)'
  <2>1. w.log = ver'.log  BY <1>6
  <2> QED  BY <1>8, <2>1, LogsGrow
<1>10. Numbers'
  <2>1. logNum \in Nat /\ nextFile \in Nat /\ logNum < nextFile /\ \A n \in DOMAIN logs : n \in Nat /\ n < nextFile
    BY DEF IInv, Numbers
  <2> QED  BY <1>1, <1>7, <1>8, <2>1 DEF Numbers
<1>11. NotTorn'  BY <1>8 DEF IInv, NotTorn
<1>12. Held'
  <2>1. synced \subseteq acked /\ mem \subseteq InLog(logs[logNum])  BY <1>1 DEF IInv, Held
  <2>2. ASSUME NEW w \in manifests' \cup {ver'}
        PROVE  /\ ver'.log <= w.log /\ w.log <= logNum
               /\ acked \subseteq w.ents \cup imm' \cup mem
               /\ imm' \subseteq Recoverable(w)' /\ synced \subseteq Safe(w)'
               /\ synced \subseteq w.ents \cup imm' \cup logs'[logNum].safe
    <3>1. w.log = ver'.log /\ w.log \in Nat /\ w.log <= logNum  BY <1>6, <1>7
    <3>2. logs'[logNum] = logs[logNum]  BY <1>8
    <3>3. imm' \subseteq imm /\ imm \subseteq w.ents \cup imm'  BY <1>1, <1>7
    <3> QED  BY <1>7, <1>9, <3>1, <3>2, <3>3
  <2>3. logs'[logNum] = logs[logNum]  BY <1>8
  <2> QED  BY <1>1, <2>1, <2>2, <2>3 DEF Held
<1>13. Logged'  BY <1>1, <1>8 DEF IInv, Logged
<1> QED  BY <1>2, <1>3, <1>5, <1>10, <1>11, <1>12, <1>13 DEF IInv

LEMMA ManifestFailsStep ==
    ASSUME IInv, ManifestFails
    PROVE  IInv'
<1>1. /\ bg.pc = "edit" /\ db = "open"
      /\ manifests' = manifests \cup {Apply(m, bg.edit) : m \in manifests}
      /\ pc' = SignalAll(pc) /\ bg' = EndOfWork(TRUE, hasImm, ver.l0)
      /\ UNCHANGED <<writers, call, calls, group, acked, synced, mem, imm, hasImm, logNum,
                     nextFile, ver, logs, db>>
  BY DEF ManifestFails, IInv, Background
<1>2. Queue' /\ \A c \in Clients : pc'[c] = "busy" <=> pc[c] = "busy"
  BY <1>1, SignalQueue DEF IInv
<1>3. Phase' /\ GroupSync' /\ Logged'  BY <1>1, <1>2 DEF IInv, Phase, GroupSync, Logged
<1>4. /\ bg' = [pc |-> bg'.pc, merging |-> bg'.merging, left |-> bg'.left, edit |-> bg'.edit]
      /\ bg'.pc \in {"idle", "scheduled", "merge"}
  BY <1>1 DEF EndOfWork, Schedule, Resting, IInv, Background
<1>5. Background'  BY <1>1, <1>4 DEF IInv, Background
<1>6. \A w : Recoverable(w)' = Recoverable(w) /\ Safe(w)' = Safe(w)
  BY <1>1 DEF Recoverable, Safe, LogsFrom
<1>7. ASSUME NEW w \in manifests' \cup {ver}
      PROVE  /\ w.log \in Nat /\ w.next \in Nat /\ w.log <= w.next
             /\ ver.log <= w.log /\ w.log <= logNum
             /\ acked \subseteq w.ents \cup imm \cup mem
             /\ imm \subseteq Recoverable(w) /\ synced \subseteq Safe(w)
             /\ synced \subseteq w.ents \cup imm \cup logs[logNum].safe
  <2>1. CASE w \in manifests \cup {ver}  BY <1>1, <2>1 DEF IInv, Numbers, Held
  <2>2. CASE w \notin manifests \cup {ver}
    <3>1. PICK m \in manifests : w = Apply(m, bg.edit)  BY <1>1, <2>2
    <3> QED  BY <1>1, <3>1, EditRecovers
  <2> QED  BY <2>1, <2>2
<1>8. Numbers'  BY <1>1, <1>7 DEF IInv, Numbers
<1>9. NotTorn'  BY <1>1 DEF IInv, NotTorn
<1>10. Held'  BY <1>1, <1>6, <1>7 DEF IInv, Held
<1> QED  BY <1>2, <1>3, <1>5, <1>8, <1>9, <1>10 DEF IInv

(***************************************************************************)
(* Crashes and recovery.                                                    *)
(***************************************************************************)
\* Whatever the manifest is found to hold, what was promised can be recovered.
LEMMA FoundRecovers ==
    ASSUME IInv, NEW m \in Found
    PROVE  /\ acked \subseteq Recoverable(m) /\ synced \subseteq Safe(m)
           /\ m.log \in Nat /\ m.next \in Nat /\ m.log <= m.next
<1>1. CASE m \in manifests
  <2>1. CASE db = "open"  BY <1>1, <2>1, OpenRecovers DEF IInv, Held, Numbers
  <2>2. CASE db # "open"
    <3>1. bg.pc = "idle"  BY <2>2 DEF IInv, Background
    <3>2. CASE db = "closed"  BY <1>1, <3>2 DEF IInv, Held, Numbers
    <3>3. CASE db = "opening"  BY <1>1, <3>3 DEF IInv, Held, Numbers
    <3> QED  BY <2>2, <3>2, <3>3 DEF IInv, Numbers
  <2> QED  BY <2>1, <2>2
<1>2. CASE m \notin manifests
  <2>1. bg.pc = "edit" /\ \E w \in manifests : m = Apply(w, bg.edit)  BY <1>2 DEF Found
  <2> QED  BY <2>1, EditRecovers
<1> QED  BY <1>1, <1>2

\* The process or the machine stops.
LEMMA DownStep ==
    ASSUME IInv, NEW found \in Found, Down(found),
           \/ UNCHANGED <<logs, acked>>
           \/ logs' \in Survivors /\ acked' = synced
    PROVE  IInv'
<1>1. /\ db' = "closed" /\ manifests' = {found} /\ ver' = found
      /\ writers' = <<>> /\ pc' = [c \in Clients |-> "idle"]
      /\ call' = [c \in Clients |-> NoCall] /\ group' = NoGroup
      /\ mem' = {} /\ imm' = {} /\ hasImm' = FALSE /\ bg' = Resting
      /\ UNCHANGED <<calls, logNum, nextFile, synced>>
  BY DEF Down
<1>2. /\ acked \subseteq Recoverable(found) /\ synced \subseteq Safe(found)
      /\ found.log \in Nat /\ found.next \in Nat /\ found.log <= found.next
  BY FoundRecovers
<1>3. /\ DOMAIN logs' = DOMAIN logs
      /\ \A n \in DOMAIN logs : logs'[n].safe = logs[n].safe
                                /\ logs'[n].torn = logs[n].torn /\ logs'[n].after = logs[n].after
  <2>1. CASE UNCHANGED logs  BY <2>1
  <2>2. CASE logs' \in Survivors
    <3>1. DOMAIN logs' = DOMAIN logs /\ \A n \in DOMAIN logs : logs'[n] \in Remains(logs[n])
      BY <2>2 DEF Survivors
    <3>2. \A lg : \A x \in Remains(lg) :
              x.safe = lg.safe /\ x.torn = lg.torn /\ x.after = lg.after
      BY DEF Remains
    <3> QED  BY <3>1, <3>2
  <2> QED  BY <2>1, <2>2
<1>4. Queue'
  <2>1. /\ writers' \in Seq(Clients) /\ Len(writers') = 0 /\ pc' \in [Clients -> PCs]
    BY <1>1 DEF PCs
  <2>2. NoCall \in Calls  BY DEF NoCall, Calls
  <2> QED  BY <1>1, <2>1, <2>2 DEF IInv, Queue
<1>5. Phase' /\ GroupSync' /\ Logged'
  BY <1>1 DEF NoGroup, Phase, GroupSync, Logged
<1>6. Background'  BY <1>1 DEF Resting, Background
<1>7. Numbers'  BY <1>1, <1>2, <1>3 DEF IInv, Numbers
<1>8. NotTorn'  BY <1>3 DEF IInv, NotTorn
<1>9. Safe(found)' = Safe(found)  BY <1>3 DEF Safe, LogsFrom
<1>10. Safe(found)' \subseteq Recoverable(found)'  BY DEF Safe, Recoverable, InLog
<1>11. acked' \subseteq Recoverable(found)' /\ synced' \subseteq acked'
  <2>1. CASE UNCHANGED <<logs, acked>>
    <3>1. Recoverable(found)' = Recoverable(found)  BY <2>1 DEF Recoverable, LogsFrom
    <3> QED  BY <1>1, <1>2, <2>1, <3>1 DEF IInv, Held
  <2>2. CASE acked' = synced  BY <1>1, <1>2, <1>9, <1>10, <2>2
  <2> QED  BY <2>1, <2>2
<1>12. Held'
  <2>1. synced' \subseteq Safe(found)'  BY <1>1, <1>2, <1>9
  <2> QED  BY <1>1, <1>11, <2>1 DEF Held
<1> QED  BY <1>4, <1>5, <1>6, <1>7, <1>8, <1>12 DEF IInv

\* The logs become tables; the new log takes none of their names.
LEMMA RecoverStep ==
    ASSUME IInv, NEW lost \in BOOLEAN, NEW new \in ver.next .. nextFile, Recover(lost, new)
    PROVE  IInv'
<1>1. /\ db = "closed" /\ db' = "opening" /\ logNum' = new /\ nextFile' = new + 1
      /\ logs' = NewLog(new) /\ ver'.log = new /\ ver'.next = new + 1
      /\ ver'.ents = ver.ents \cup UNION {ReadBack(n, lost) : n \in Replayed(ver)}
      /\ new \in Unused(ver)
      /\ UNCHANGED <<writers, pc, call, group, calls, acked, synced, mem, imm, hasImm, bg, manifests>>
  BY DEF Recover, clientVars
<1>2. /\ manifests = {ver} /\ ver.log \in Nat /\ ver.next \in Nat /\ ver.log <= ver.next
      /\ nextFile \in Nat /\ new \in Nat /\ ver.next <= new
      /\ \A n \in DOMAIN logs : n \in Nat /\ (n >= ver.log => n < new)
  BY <1>1 DEF IInv, Numbers, Unused, Replayed
<1>3. /\ writers = <<>> /\ \A c \in Clients : pc[c] = "idle"
      /\ group.phase = "none" /\ bg.pc = "idle"
  <2>1. writers = <<>> /\ bg.pc = "idle"  BY <1>1 DEF IInv, Phase, Background
  <2>2. Len(writers) = 0  BY <2>1
  <2>3. \A c \in Clients : pc[c] = "idle"  BY <2>2 DEF IInv, Queue
  <2> QED  BY <2>1, <2>3 DEF IInv, Phase
<1>4. Queue'  BY <1>1 DEF IInv, Queue
<1>5. Phase' /\ GroupSync' /\ Logged'
  BY <1>1, <1>3 DEF IInv, Phase, GroupSync, Logged
<1>6. Background'  BY <1>1, <1>3 DEF IInv, Background
<1>7. /\ DOMAIN logs' = DOMAIN logs \cup {new} /\ logs'[new] = EmptyLog
      /\ \A n \in DOMAIN logs : n >= ver.log => logs'[n] = logs[n]
      /\ \A n \in DOMAIN logs \ {new} : logs'[n] = logs[n]
  BY <1>1, <1>2 DEF NewLog, WithLog
<1>8. Numbers'
  <2>1. \A n \in DOMAIN logs' : n \in Nat /\ n < nextFile'
    <3>1. \A n \in DOMAIN logs : n < new + 1  BY <1>2
    <3> QED  BY <1>1, <1>2, <1>7, <3>1
  <2> QED  BY <1>1, <1>2, <1>7, <2>1 DEF Numbers
<1>9. NotTorn'  BY <1>7 DEF IInv, NotTorn, EmptyLog
<1>10. ASSUME NEW m, m = ver
       PROVE  Recoverable(m) \subseteq Recoverable(m)' /\ Safe(m) \subseteq Safe(m)'
  <2>1. \A n \in DOMAIN logs : n >= m.log => n \in DOMAIN logs' /\ logs'[n] = logs[n]
    BY <1>7, <1>10
  <2> QED  BY <2>1, LogsGrow
<1>11. Recoverable(ver) \subseteq ver'.ents
  <2>1. \A n : InLog(logs[n]) \subseteq ReadBack(n, lost)  BY DEF ReadBack
  <2>2. LogsFrom(ver) = Replayed(ver)  BY DEF LogsFrom, Replayed
  <2> QED  BY <1>1, <2>1, <2>2 DEF Recoverable
<1>12. Held'
  <2>1. acked \subseteq Recoverable(ver) /\ synced \subseteq Safe(ver) /\ synced \subseteq acked
    BY <1>1 DEF IInv, Held
  <2>2. ASSUME NEW m, m = ver
        PROVE  acked \subseteq Recoverable(m)' /\ synced \subseteq Safe(m)'
    BY <1>10, <2>1, <2>2
  <2>3. \A m \in manifests : acked \subseteq Recoverable(m)' /\ synced \subseteq Safe(m)'
    BY <1>2, <2>2
  <2>4. synced \subseteq Safe(ver)'
    <3>1. ver'.ents \subseteq Safe(ver)'  BY DEF Safe
    <3> QED  BY <1>11, <2>1, <3>1
  <2>5. mem = {} /\ imm = {}  BY <1>1 DEF IInv, Held
  <2> QED  BY <1>1, <1>11, <2>1, <2>3, <2>4, <2>5 DEF Held
<1> QED  BY <1>4, <1>5, <1>6, <1>8, <1>9, <1>12 DEF IInv

\* The new manifest has all of that, and the old logs go.
LEMMA OpenStep ==
    ASSUME IInv, Open
    PROVE  IInv'
<1>1. /\ db = "opening" /\ db' = "open" /\ manifests' = {ver}
      /\ logs' = KeptLogs(FALSE, ver.log) /\ bg' = Schedule(Resting, FALSE, FALSE, ver.l0)
      /\ UNCHANGED <<writers, pc, call, group, calls, acked, synced, mem, imm, hasImm, logNum,
                     nextFile, ver>>
  BY DEF Open, clientVars
<1>2. /\ ver.log = logNum /\ logNum \in Nat /\ logNum \in DOMAIN logs /\ mem = {} /\ imm = {}
      /\ acked \subseteq ver.ents /\ synced \subseteq acked
  BY <1>1 DEF IInv, Held, Numbers
<1>3. writers = <<>> /\ \A c \in Clients : pc[c] # "busy"
  <2>1. writers = <<>>  BY <1>1 DEF IInv, Phase
  <2>2. Len(writers) = 0  BY <2>1
  <2> QED  BY <2>1, <2>2, HeadAwake DEF IInv
<1>4. Queue'  BY <1>1 DEF IInv, Queue
<1>5. Phase' /\ GroupSync' /\ Logged'
  <2>1. group.phase = "none"  BY <1>3 DEF IInv, Phase
  <2> QED  BY <1>1, <1>3, <2>1 DEF IInv, Phase, GroupSync, Logged
<1>6. /\ bg' = [pc |-> bg'.pc, merging |-> bg'.merging, left |-> bg'.left, edit |-> bg'.edit]
      /\ bg'.pc \in {"idle", "scheduled"}
  BY <1>1 DEF Schedule, Resting
<1>7. Background'  BY <1>1, <1>2, <1>6 DEF Background
<1>8. /\ DOMAIN logs' \subseteq DOMAIN logs /\ logNum \in DOMAIN logs'
      /\ \A n \in DOMAIN logs' : logs'[n] = logs[n]
  BY <1>1, <1>2 DEF KeptLogs
<1>9. Numbers'  BY <1>1, <1>2, <1>8 DEF IInv, Numbers
<1>10. NotTorn'  BY <1>8 DEF IInv, NotTorn
<1>11. Held'
  <2>1. ver.ents \subseteq Safe(ver)'  BY <1>1 DEF Safe
  <2>2. synced' \subseteq acked' /\ synced' \subseteq Safe(ver)'  BY <1>1, <1>2, <2>1
  <2>3. \A m \in manifests' \cup {ver'} : m = ver  BY <1>1
  <2>4. mem' = {} /\ imm' = {} /\ logNum' = logNum /\ ver' = ver /\ db' = "open"  BY <1>1, <1>2
  <2>5. \A m \in manifests' \cup {ver'} : synced' \subseteq Safe(m)'
    <3>1. ASSUME NEW m, m = ver PROVE synced' \subseteq Safe(m)'  BY <1>1, <1>2, <3>1 DEF Safe
    <3> QED  BY <2>3, <3>1
  <2>6. ASSUME NEW m \in manifests' \cup {ver'}
        PROVE  /\ ver'.log <= m.log /\ m.log <= logNum'
               /\ acked' \subseteq m.ents \cup imm' \cup mem'
               /\ imm' \subseteq Recoverable(m)'
               /\ synced' \subseteq m.ents \cup imm' \cup logs'[logNum'].safe
    <3>1. m = ver  BY <2>3
    <3>2. acked' \subseteq ver.ents /\ synced' \subseteq ver.ents  BY <1>1, <1>2
    <3> QED  BY <1>2, <2>4, <3>1, <3>2
  <2>7. mem' \subseteq InLog(logs'[logNum'])  BY <2>4
  <2> QED  BY <2>2, <2>4, <2>5, <2>6, <2>7 DEF Held
<1> QED  BY <1>4, <1>5, <1>7, <1>9, <1>10, <1>11 DEF IInv

(***************************************************************************)
(* The theorems.                                                            *)
(***************************************************************************)
LEMMA InitInv == Init => IInv
<1> SUFFICES ASSUME Init PROVE IInv
  OBVIOUS
<1>1. /\ writers = <<>> /\ pc = [c \in Clients |-> "idle"] /\ call = [c \in Clients |-> NoCall]
      /\ group = NoGroup /\ calls = 0 /\ acked = {} /\ synced = {} /\ mem = {} /\ imm = {}
      /\ hasImm = FALSE /\ logNum = 1 /\ nextFile = 2 /\ ver = NewDB /\ bg = Resting
      /\ logs = [n \in {1} |-> EmptyLog] /\ manifests = {NewDB} /\ db = "open"
  BY DEF Init
<1>2. Queue
  <2>1. /\ writers \in Seq(Clients) /\ Len(writers) = 0 /\ pc \in [Clients -> PCs]
    BY <1>1 DEF PCs
  <2>2. NoCall \in Calls  BY DEF NoCall, Calls
  <2> QED  BY <1>1, <2>1, <2>2 DEF Queue
<1>3. Phase /\ GroupSync /\ Logged  BY <1>1 DEF NoGroup, Phase, GroupSync, Logged
<1>4. Numbers /\ NotTorn  BY <1>1 DEF NewDB, EmptyLog, Numbers, NotTorn
<1>5. Background  BY <1>1 DEF Resting, Background
<1>6. Held  BY <1>1 DEF NewDB, EmptyLog, Held
<1> QED  BY <1>2, <1>3, <1>4, <1>5, <1>6 DEF IInv

LEMMA NextInv == "tear" \notin Faults /\ IInv /\ [Next]_vars => IInv'
<1> SUFFICES ASSUME "tear" \notin Faults, IInv, [Next]_vars PROVE IInv'
  OBVIOUS
<1>1. CASE \E c \in Clients, s \in BOOLEAN, null \in BOOLEAN : Write(c, s, null)
  BY <1>1, WriteStep
<1>2. CASE \E c \in Clients : \/ MakeRoomFails(c) \/ Slowdown(c) \/ SlowdownOver(c)
                              \/ WaitForCompaction(c) \/ SwitchFails(c) \/ NothingToWrite(c)
  BY <1>2, FrontSteps
<1>3. CASE \E c \in Clients : SwitchMemTable(c)  BY <1>3, SwitchStep
<1>4. CASE \E c \in Clients, n \in 1 .. Cardinality(Clients) : BuildBatchGroup(c, n)
  BY <1>4, GroupStep
<1>5. CASE AddRecord \/ AddRecordFails  BY <1>5, RecordStep
<1>6. CASE SyncLog  BY <1>6, SyncStep
<1>7. CASE SyncFails  BY <1>7, SyncFailsStep
<1>8. CASE \E e \in group.todo : Insert(e)  BY <1>8, InsertStep
<1>9. CASE FinishWrite  BY <1>9, FinishStep
<1>10. CASE BackgroundCall \/ WorkFails  BY <1>10, BackgroundCallStep
<1>11. CASE MergeStopsForImm \/ MergeDone \/ \E l0 \in {0, 1} : TableWritten(l0)
  BY <1>11, EditStep
<1>12. CASE LogAndApply  BY <1>12, ApplyStep
<1>13. CASE ManifestFails  BY <1>13, ManifestFailsStep
<1>14. CASE Kill  BY <1>14, DownStep DEF Kill
<1>15. CASE PowerLoss  BY <1>15, DownStep DEF PowerLoss
<1>16. CASE \E lost \in BOOLEAN, new \in ver.next .. nextFile : Recover(lost, new)
  BY <1>16, RecoverStep
<1>17. CASE Open  BY <1>17, OpenStep
<1>18. CASE UNCHANGED vars
  <2>1. Numbers' /\ NotTorn' /\ Held'  BY <1>18, HeldUnchanged DEF vars, IInv
  <2>2. Queue' /\ Phase' /\ GroupSync' /\ Logged' /\ Background'
    BY <1>18 DEF vars, IInv, Queue, Phase, GroupSync, Logged, Background
  <2> QED  BY <2>1, <2>2 DEF IInv
<1> QED
  BY <1>1, <1>2, <1>3, <1>4, <1>5, <1>6, <1>7, <1>8, <1>9, <1>10, <1>11, <1>12, <1>13, <1>14,
     <1>15, <1>16, <1>17, <1>18 DEF Next

LEMMA Invariant ==
    ASSUME "tear" \notin Faults
    PROVE  Spec => []IInv
<1>1. Init => IInv  BY InitInv
<1>2. IInv /\ [Next]_vars => IInv'  BY NextInv
<1> QED  BY <1>1, <1>2, PTL DEF Spec

\* A write that was acknowledged survives the end of the process at any moment,
\* for any number of clients, calls and crashes and whatever call of the file
\* system fails, as long as no record is written in part.
THEOREM AcknowledgedSurvives ==
    ASSUME "tear" \notin Faults
    PROVE  Spec => []NoneLostByKill
<1>1. IInv => NoneLostByKill  BY FoundRecovers DEF NoneLostByKill
<1> QED  BY <1>1, Invariant, PTL

\* A write acknowledged with WriteOptions.sync survives the loss of power too.
THEOREM SyncedSurvives ==
    ASSUME "tear" \notin Faults
    PROVE  Spec => []Durable
<1>1. IInv => Durable  BY FoundRecovers DEF Durable
<1> QED  BY <1>1, Invariant, PTL

\* An open database shows every acknowledged write.
THEOREM AcknowledgedVisible ==
    ASSUME "tear" \notin Faults
    PROVE  Spec => []AckedFound
<1>1. IInv => AckedFound  BY DEF AckedFound, IInv, Held
<1> QED  BY <1>1, Invariant, PTL

(***************************************************************************)
(* Sequence numbers.                                                        *)
(***************************************************************************)
\* Every entry there is: in memory, being logged, in tables, in logs.
Entries ==
    mem \cup imm \cup group.ents \cup ver.ents \cup (UNION {m.ents : m \in manifests})
        \cup UNION {InLog(logs[n]) : n \in DOMAIN logs}

\* No number is given twice, and some number is above them all.
Distinct ==
    /\ \A e \in Entries : e.seq \in Nat
    /\ \A e, f \in Entries : e.seq = f.seq => e = f
    /\ \E b \in Nat : \A e \in Entries : e.seq <= b

\* s is at least every number in the tables ents and in the logs before log:
\* what a recovery does not read again.
Covers(s, ents, log) ==
    /\ s \in Nat
    /\ \A e \in ents : e.seq <= s
    /\ \A n \in DOMAIN logs : n < log => \A e \in InLog(logs[n]) : e.seq <= s

\* What the manifest says of the last sequence number, and the edit under way.
Manifested ==
    /\ \A m \in manifests \cup {ver} : Covers(m.seq, m.ents, m.log)
    /\ db # "closed" => \A m \in manifests \cup {ver} : m.seq <= lastSeq
    /\ bg.pc = "edit" =>
          /\ Covers(bg.edit.seq, bg.edit.adds, bg.edit.log) /\ bg.edit.seq <= lastSeq
          /\ \A m \in manifests \cup {ver} : m.seq <= bg.edit.seq

\* The group's numbers are those after lastSeq; no other entry has one of them.
Fresh ==
    /\ lastSeq \in Nat /\ Cardinality(group.ents) \in Nat
    /\ \A e \in group.ents : lastSeq < e.seq /\ e.seq <= lastSeq + Cardinality(group.ents)
    /\ group.phase = "none" => group.ents = {}
    /\ db # "closed" =>
          /\ \A e \in Entries \ group.ents : e.seq <= lastSeq
          /\ \A e \in imm : e.seq <= lastSeq
          /\ \A n \in DOMAIN logs \ {logNum} : \A e \in InLog(logs[n]) : e.seq <= lastSeq
    /\ db = "open" => \A e \in acked : e.seq <= lastSeq

Sequences == Distinct /\ Manifested /\ Fresh

\* Without a new entry the numbers stay distinct.
LEMMA StayDistinct ==
    ASSUME Distinct, Entries' \subseteq Entries
    PROVE  Distinct'
BY DEF Distinct

\* A number that covers what a manifest says still does when its logs gain nothing.
LEMMA StaysCovered ==
    ASSUME NEW s, NEW ents, NEW log, Covers(s, ents, log),
           \A n \in DOMAIN logs' : n < log =>
               n \in DOMAIN logs /\ InLog(logs'[n]) \subseteq InLog(logs[n])
    PROVE  Covers(s, ents, log)'
BY DEF Covers

\* A step that gives out no number: the current log and mem may gain what the
\* group is writing.
LEMMA QuietSequences ==
    ASSUME IInv, Sequences, DOMAIN logs' = DOMAIN logs,
           \A n \in DOMAIN logs \ {logNum} : logs'[n] = logs[n],
           logNum \in DOMAIN logs =>
               \/ logs'[logNum] = logs[logNum]
               \/ db = "open" /\ InLog(logs'[logNum]) \subseteq InLog(logs[logNum]) \cup group.ents,
           mem' \subseteq mem \cup group.ents,
           group'.ents = group.ents, group'.phase = "none" => group.phase = "none",
           bg'.pc = "edit" => bg.pc = "edit" /\ bg'.edit = bg.edit,
           UNCHANGED <<acked, imm, lastSeq, logNum, ver, manifests, db>>
    PROVE  Sequences' /\ Entries' \subseteq Entries
<1>1. \A n \in DOMAIN logs : InLog(logs'[n]) \subseteq InLog(logs[n]) \cup group.ents
  OBVIOUS
<1>2. Entries' \subseteq Entries  BY <1>1 DEF Entries
<1>3. Distinct'  BY <1>2, StayDistinct DEF Sequences
<1>4. ASSUME NEW log \in Nat, db = "open" => log <= logNum, NEW n \in DOMAIN logs, n < log
      PROVE  logs'[n] = logs[n]
  <2>1. n \in Nat /\ logNum \in Nat  BY DEF IInv, Numbers
  <2>2. CASE n = logNum
    <3>1. db # "open"
      <4>1. SUFFICES ASSUME db = "open" PROVE FALSE  OBVIOUS
      <4> QED  BY <1>4, <2>1, <2>2, <4>1
    <3> QED  BY <2>2, <3>1
  <2>3. CASE n # logNum  BY <2>3
  <2> QED  BY <2>2, <2>3
<1>5. Manifested'
  <2>1. ASSUME NEW m \in manifests \cup {ver}
        PROVE  Covers(m.seq, m.ents, m.log)'
    <3>1. m.log \in Nat /\ (db = "open" => m.log <= logNum)  BY DEF IInv, Numbers, Held
    <3>2. \A n \in DOMAIN logs' : n < m.log => logs'[n] = logs[n]  BY <1>4, <3>1
    <3>3. Covers(m.seq, m.ents, m.log)  BY DEF Sequences, Manifested
    <3> QED  BY <3>2, <3>3, StaysCovered
  <2>2. ASSUME bg.pc = "edit", NEW e, e = bg.edit
        PROVE  Covers(e.seq, e.adds, e.log)'
    <3>1. e.log \in Nat /\ e.log <= logNum  BY <2>2 DEF IInv, Background, Held, Numbers
    <3>2. \A n \in DOMAIN logs' : n < e.log => logs'[n] = logs[n]  BY <1>4, <3>1
    <3>3. Covers(e.seq, e.adds, e.log)  BY <2>2 DEF Sequences, Manifested
    <3> QED  BY <3>2, <3>3, StaysCovered
  <2> QED  BY <2>1, <2>2 DEF Sequences, Manifested
<1>6. Fresh'
  <2>1. \A e \in Entries' \ group'.ents : e \in Entries \ group.ents  BY <1>2
  <2> QED  BY <2>1 DEF Sequences, Fresh
<1> QED  BY <1>2, <1>3, <1>5, <1>6 DEF Sequences

\* The queue, the log and the memtable.
LEMMA QuietSteps ==
    ASSUME IInv, Sequences, "tear" \notin Faults,
           \/ \E c \in Clients, s \in BOOLEAN, null \in BOOLEAN : Write(c, s, null)
           \/ \E c \in Clients : \/ MakeRoomFails(c) \/ Slowdown(c) \/ SlowdownOver(c)
                                 \/ WaitForCompaction(c) \/ SwitchFails(c) \/ NothingToWrite(c)
           \/ SyncFails \/ BackgroundCall \/ WorkFails \/ MergeStopsForImm
           \/ UNCHANGED vars
    PROVE  Sequences' /\ Entries' \subseteq Entries
<1>1. /\ UNCHANGED <<acked, mem, imm, lastSeq, logNum, ver, manifests, logs, db>>
      /\ group'.ents = group.ents /\ (group'.phase = "none" => group.phase = "none")
  BY DEF Write, MakeRoomFails, Slowdown, SlowdownOver, WaitForCompaction, SwitchFails,
         NothingToWrite, SyncFails, BackgroundCall, WorkFails, MergeStopsForImm, vars,
         clientVars, memVars, diskVars, IInv, Phase
<1>2. bg'.pc = "edit" => bg.pc = "edit" /\ bg'.edit = bg.edit
  <2>1. CASE UNCHANGED bg  BY <2>1
  <2>2. CASE BackgroundCall  BY <2>2 DEF BackgroundCall, Resting, IInv, Background
  <2>3. CASE WorkFails
    BY <2>3 DEF WorkFails, EndOfWork, Schedule, Resting, IInv, Background
  <2>4. CASE MergeStopsForImm  BY <2>4 DEF MergeStopsForImm, IInv, Background
  <2> QED
    BY <2>1, <2>2, <2>3, <2>4 DEF Write, MakeRoomFails, Slowdown, SlowdownOver,
       WaitForCompaction, SwitchFails, NothingToWrite, SyncFails, vars, memVars
<1> QED  BY <1>1, <1>2, QuietSequences

\* The group's record is written, synced, put in mem.
LEMMA GroupSequences ==
    ASSUME IInv, Sequences, "tear" \notin Faults,
           AddRecord \/ AddRecordFails \/ SyncLog \/ \E e \in group.todo : Insert(e)
    PROVE  Sequences' /\ Entries' \subseteq Entries
<1>1. /\ group.phase # "none" /\ group'.phase # "none" /\ group'.ents = group.ents
      /\ UNCHANGED <<acked, imm, lastSeq, logNum, ver, manifests, bg, db>>
  BY DEF AddRecord, AddRecordFails, SyncLog, Insert, memVars, IInv, Phase
<1>2. db = "open" /\ logNum \in DOMAIN logs  BY <1>1, GroupOpen
<1>3. logs[logNum].torn = FALSE  BY <1>2 DEF IInv, NotTorn
<1>4. CASE \E e \in group.todo : Insert(e)
  <2>1. mem' \subseteq mem \cup group.ents /\ logs' = logs
    BY <1>1, <1>4 DEF Insert, IInv, Logged
  <2> QED  BY <1>1, <2>1, QuietSequences
<1>5. CASE AddRecord \/ AddRecordFails \/ SyncLog
  <2>1. /\ mem' = mem
        /\ \E lg : logs' = WithLog(logNum, lg) /\ InLog(lg) \subseteq InLog(logs[logNum]) \cup group.ents
    <3>1. InLog(Record(logs[logNum], group.ents)) \subseteq InLog(logs[logNum]) \cup group.ents
      BY <1>3 DEF InLog, Record
    <3>2. InLog(Synced(logs[logNum])) \subseteq InLog(logs[logNum])
      BY DEF InLog, Synced
    <3> QED  BY <1>5, <3>1, <3>2 DEF AddRecord, AddRecordFails, SyncLog, memVars
  <2>2. PICK lg : logs' = WithLog(logNum, lg) /\ InLog(lg) \subseteq InLog(logs[logNum]) \cup group.ents
    BY <2>1
  <2>3. /\ DOMAIN logs' = DOMAIN logs /\ logs'[logNum] = lg
        /\ \A n \in DOMAIN logs \ {logNum} : logs'[n] = logs[n]
    BY <1>2, <2>2 DEF WithLog
  <2> QED  BY <1>1, <1>2, <2>1, <2>2, <2>3, QuietSequences
<1> QED  BY <1>4, <1>5

\* The memtable and its log make room for new ones.
LEMMA SwitchSequences ==
    ASSUME IInv, Sequences, NEW c \in Clients, SwitchMemTable(c)
    PROVE  Sequences' /\ Entries' \subseteq Entries
<1>1. /\ group.phase = "none" /\ db = "open" /\ imm = {}
  BY FrontAlone DEF SwitchMemTable, NeedsSwitch, AtFront, IInv, Background
<1>2. /\ group.ents = {} /\ lastSeq \in Nat
      /\ \A e \in Entries : e.seq <= lastSeq
  BY <1>1 DEF Sequences, Fresh
<1>3. /\ DOMAIN logs' = DOMAIN logs \cup {nextFile} /\ logs'[nextFile] = EmptyLog
      /\ nextFile \notin DOMAIN logs
      /\ \A n \in DOMAIN logs : logs'[n] = logs[n]
      /\ imm' = mem /\ mem' = {} /\ logNum' = nextFile
      /\ UNCHANGED <<group, acked, lastSeq, ver, manifests, db>>
  BY DEF SwitchMemTable, NewLog, WithLog, IInv, Numbers
<1>4. InLog(EmptyLog) = {}  BY DEF InLog, EmptyLog
<1>5. Entries' \subseteq Entries  BY <1>3, <1>4 DEF Entries
<1>6. Distinct'  BY <1>5, StayDistinct DEF Sequences
<1>7. ASSUME NEW s, NEW ents, NEW log, Covers(s, ents, log), log \in Nat, log <= logNum
      PROVE  Covers(s, ents, log)'
  <2>1. ~ (nextFile < log)  BY <1>7 DEF IInv, Numbers
  <2>2. \A n \in DOMAIN logs' : n < log => n \in DOMAIN logs /\ logs'[n] = logs[n]
    BY <1>3, <2>1
  <2> QED  BY <1>7, <2>2, StaysCovered
<1>8. Manifested'
  <2>1. \A m \in manifests \cup {ver} : Covers(m.seq, m.ents, m.log)'
    BY <1>1, <1>7 DEF IInv, Numbers, Held, Sequences, Manifested
  <2>2. bg'.pc = "edit" => bg.pc = "edit" /\ bg'.edit = bg.edit
    BY DEF SwitchMemTable, Schedule, IInv, Background
  <2>3. ASSUME bg.pc = "edit", NEW e, e = bg.edit
        PROVE  Covers(e.seq, e.adds, e.log)'
    <3>1. e.log \in Nat /\ e.log <= logNum
      BY <1>1, <2>3 DEF IInv, Background, Numbers, Held
    <3> QED  BY <1>7, <2>3, <3>1 DEF Sequences, Manifested
  <2> QED  BY <1>3, <2>1, <2>2, <2>3 DEF Sequences, Manifested
<1>9. Fresh'
  <2>1. \A n \in DOMAIN logs' \ {logNum'} : InLog(logs'[n]) \subseteq Entries
    BY <1>3 DEF Entries
  <2>2. imm' \subseteq Entries  BY <1>3 DEF Entries
  <2> QED  BY <1>1, <1>2, <1>3, <1>5, <2>1, <2>2 DEF Sequences, Fresh
<1> QED  BY <1>5, <1>6, <1>8, <1>9 DEF Sequences

\* The rank of a member of W among those of W: what a group adds to lastSeq.
Rank(W, i) == Cardinality({j \in W : j <= i})

\* A rank is one of 1 .. Cardinality(W), and a later member has a greater one.
LEMMA RankGrows ==
    ASSUME NEW n \in Nat, NEW W \in SUBSET (1 .. n)
    PROVE  /\ IsFiniteSet(W) /\ Cardinality(W) \in Nat
           /\ \A i \in W : Rank(W, i) \in 1 .. Cardinality(W)
           /\ \A i, k \in W : i < k => Rank(W, i) < Rank(W, k)
<1>1. IsFiniteSet(1 .. n)  BY FS_Interval
<1>2. IsFiniteSet(W) /\ Cardinality(W) \in Nat  BY <1>1, FS_Subset, FS_CardinalityType
<1>3. ASSUME NEW i \in W, NEW U, U = {j \in W : j <= i}
      PROVE  IsFiniteSet(U) /\ i \in U /\ Cardinality(U) \in 1 .. Cardinality(W)
  <2>1. i \in U /\ U \in SUBSET W  BY <1>3
  <2>2. IsFiniteSet(U) /\ Cardinality(U) <= Cardinality(W) /\ Cardinality(U) \in Nat
    BY <1>2, <2>1, FS_Subset, FS_CardinalityType
  <2>3. Cardinality(U) # 0  BY <2>1, <2>2, FS_EmptySet
  <2> QED  BY <1>2, <2>1, <2>2, <2>3
<1>4. ASSUME NEW i \in W, NEW k \in W, i < k,
             NEW U, U = {j \in W : j <= i}, NEW V, V = {j \in W : j <= k}
      PROVE  Cardinality(U) < Cardinality(V)
  <2>1. \A j \in W : j \in Int  OBVIOUS
  <2>2. k \in V /\ k \notin U  BY <1>4, <2>1
  <2>3. \A j \in W : j <= i => j <= k  BY <1>4, <2>1
  <2>4. U \in SUBSET V  BY <1>4, <2>3
  <2>5. IsFiniteSet(V) /\ Cardinality(V) \in Nat /\ Cardinality(U) \in Nat
    BY <1>2, <1>3, <1>4
  <2>6. Cardinality(U) <= Cardinality(V) /\ Cardinality(U) # Cardinality(V)
    BY <2>2, <2>4, <2>5, FS_Subset
  <2> QED  BY <2>5, <2>6
<1> QED  BY <1>2, <1>3, <1>4 DEF Rank

\* The entries of the calls f[i], numbered after s by rank.
Numbered(W, f, s) == {[id |-> f[i], seq |-> s + Rank(W, i)] : i \in W}

\* The numbers of ents are the next ones after s, none twice.
Following(ents, s) ==
    /\ Cardinality(ents) \in Nat
    /\ \A e \in ents : e.seq \in Nat /\ s < e.seq /\ e.seq <= s + Cardinality(ents)
    /\ \A e, g \in ents : e.seq = g.seq => e = g

\* They follow s.
LEMMA NumberedByRank ==
    ASSUME NEW n \in Nat, NEW W \in SUBSET (1 .. n), NEW s \in Nat, NEW f
    PROVE  Following(Numbered(W, f, s), s)
<1> PICK ents : ents = Numbered(W, f, s)  OBVIOUS
<1> USE DEF Numbered
<1> DEFINE entry(i) == [id |-> f[i], seq |-> s + Rank(W, i)]
<1>1. /\ IsFiniteSet(W) /\ Cardinality(W) \in Nat
      /\ \A i \in W : Rank(W, i) \in 1 .. Cardinality(W)
      /\ \A i, k \in W : i < k => Rank(W, i) < Rank(W, k)
  BY RankGrows
<1>2. ASSUME NEW i \in W, NEW k \in W, Rank(W, i) = Rank(W, k)
      PROVE  i = k
  <2>1. ~ (i < k) /\ ~ (k < i)
    <3>1. Rank(W, i) \in Nat /\ Rank(W, k) \in Nat  BY <1>1
    <3> QED  BY <1>1, <1>2, <3>1
  <2> QED  BY <2>1
<1>3. \A i, k \in W : entry(i).seq = entry(k).seq => i = k
  <2>1. SUFFICES ASSUME NEW i \in W, NEW k \in W, s + Rank(W, i) = s + Rank(W, k)
                 PROVE  i = k
    OBVIOUS
  <2>2. Rank(W, i) = Rank(W, k)  BY <1>1, <2>1
  <2> QED  BY <1>2, <2>2
<1>4. Cardinality(ents) = Cardinality(W)
  <2>1. PICK g : g = [i \in W |-> entry(i)]  OBVIOUS
  <2>2. g \in [W -> ents] /\ \A i \in W : g[i] = entry(i)  BY <2>1
  <2>3. \A i, k \in W : g[i] = g[k] => i = k  BY <1>3, <2>2
  <2>4. \A e \in ents : \E i \in W : g[i] = e  BY <2>2
  <2>5. g \in Bijection(W, ents)
    BY <2>2, <2>3, <2>4 DEF Bijection, Injection, Surjection, IsInjective
  <2> HIDE DEF entry
  <2> QED  BY <1>1, <2>5, FS_Bijection DEF ExistsBijection
<1>5. \A e \in ents : e.seq \in Nat /\ s < e.seq /\ e.seq <= s + Cardinality(W)
  <2>1. SUFFICES ASSUME NEW i \in W
                 PROVE  LET q == s + Rank(W, i) IN q \in Nat /\ s < q /\ q <= s + Cardinality(W)
    OBVIOUS
  <2> QED  BY <1>1
<1>6. \A e, g \in ents : e.seq = g.seq => e = g
  <2>1. SUFFICES ASSUME NEW i \in W, NEW k \in W, entry(i).seq = entry(k).seq
                 PROVE  entry(i) = entry(k)
    OBVIOUS
  <2> QED  BY <1>3, <2>1
<1> QED  BY <1>1, <1>4, <1>5, <1>6 DEF Following

\* The group gets the next numbers.
LEMMA BuildSequences ==
    ASSUME IInv, Sequences, NEW c \in Clients, NEW n \in 1 .. Cardinality(Clients),
           BuildBatchGroup(c, n)
    PROVE  Sequences'
<1>1. group.phase = "none" /\ db = "open" /\ Len(writers) \in Nat /\ n \in Nat
  BY FrontAlone DEF BuildBatchGroup, AtFront
<1>2. group.ents = {} /\ lastSeq \in Nat /\ \A e \in Entries : e.seq <= lastSeq
  BY <1>1 DEF Sequences, Fresh
<1>3. PICK W \in SUBSET (1 .. n) : W = {i \in 1 .. n : call[writers[i]].id # 0}
  OBVIOUS
<1>4. PICK f : f = [i \in W |-> call[writers[i]].id]
  OBVIOUS
<1>5. /\ group'.ents = Numbered(W, f, lastSeq)
      /\ group'.phase = "log"
      /\ UNCHANGED <<acked, mem, imm, lastSeq, logNum, ver, bg, logs, manifests, db>>
  BY <1>3, <1>4 DEF BuildBatchGroup, Rank, Numbered
<1>6. PICK ents : ents = group'.ents  OBVIOUS
<1>7. /\ Cardinality(ents) \in Nat
      /\ \A e \in ents : e.seq \in Nat /\ lastSeq < e.seq /\ e.seq <= lastSeq + Cardinality(ents)
      /\ \A e, g \in ents : e.seq = g.seq => e = g
  <2>1. Following(Numbered(W, f, lastSeq), lastSeq)  BY <1>1, <1>2, NumberedByRank
  <2> QED  BY <1>5, <1>6, <2>1 DEF Following
<1>8. Entries' = Entries \cup ents  BY <1>2, <1>5, <1>6 DEF Entries
<1>9. Distinct'
  <2>1. \A e \in Entries' : e.seq \in Nat  BY <1>7, <1>8 DEF Sequences, Distinct
  <2>2. \A e \in Entries, g \in ents : e.seq # g.seq
    <3>1. \A e \in Entries : e.seq \in Nat  BY DEF Sequences, Distinct
    <3> QED  BY <1>2, <1>7, <3>1
  <2>3. \A e, g \in Entries' : e.seq = g.seq => e = g
    BY <1>7, <1>8, <2>2 DEF Sequences, Distinct
  <2>4. \A e \in Entries' : e.seq <= lastSeq + Cardinality(ents)
    <3>1. \A e \in Entries : e.seq \in Nat  BY DEF Sequences, Distinct
    <3> QED  BY <1>2, <1>7, <1>8, <3>1
  <2>5. lastSeq + Cardinality(ents) \in Nat  BY <1>2, <1>7
  <2> QED  BY <2>1, <2>3, <2>4, <2>5 DEF Distinct
<1>10. Manifested'
  <2>1. \A s, es, log : Covers(s, es, log) => Covers(s, es, log)'  BY <1>5 DEF Covers
  <2>2. \A m \in manifests \cup {ver} : Covers(m.seq, m.ents, m.log)'
    BY <2>1 DEF Sequences, Manifested
  <2>3. ASSUME bg.pc = "edit", NEW e, e = bg.edit
        PROVE  Covers(e.seq, e.adds, e.log)'
    BY <2>1, <2>3 DEF Sequences, Manifested
  <2> QED  BY <1>5, <2>2, <2>3 DEF Sequences, Manifested
<1>11. Fresh'
  BY <1>1, <1>2, <1>5, <1>6, <1>7, <1>8 DEF Sequences, Fresh
<1> QED  BY <1>9, <1>10, <1>11 DEF Sequences

\* The last number is that of the group's last entry, whether it was logged or not.
LEMMA FinishSequences ==
    ASSUME IInv, Sequences, FinishWrite
    PROVE  Sequences' /\ Entries' \subseteq Entries
<1>1. /\ group.phase # "none" /\ group' = NoGroup
      /\ lastSeq' = lastSeq + Cardinality(group.ents) /\ acked' \subseteq acked \cup group.ents
      /\ UNCHANGED <<mem, imm, logNum, ver, bg, logs, manifests, db>>
  BY DEF FinishWrite
<1>2. db = "open"  BY <1>1, GroupOpen
<1>3. group'.ents = {} /\ group'.phase = "none" /\ Cardinality(group'.ents) = 0
  BY <1>1, FS_EmptySet DEF NoGroup
<1>4. Entries' \subseteq Entries  BY <1>1, <1>3 DEF Entries
<1>5. lastSeq \in Nat /\ lastSeq' \in Nat /\ lastSeq <= lastSeq'
  BY <1>1 DEF Sequences, Fresh
<1>6. \A e \in Entries : e.seq \in Nat /\ e.seq <= lastSeq'
  BY <1>1, <1>2, <1>5 DEF Sequences, Distinct, Fresh
<1>7. Distinct'  BY <1>4, StayDistinct DEF Sequences
<1>8. Manifested'
  <2>1. \A s, es, log : Covers(s, es, log) => Covers(s, es, log)'  BY <1>1 DEF Covers
  <2>2. \A m \in manifests \cup {ver} : Covers(m.seq, m.ents, m.log)' /\ m.seq \in Nat /\ m.seq <= lastSeq
    BY <1>2, <2>1 DEF Sequences, Manifested, Covers
  <2>3. \A m \in manifests \cup {ver} : m.seq <= lastSeq'  BY <1>5, <2>2
  <2>4. ASSUME bg.pc = "edit", NEW e, e = bg.edit
        PROVE  /\ Covers(e.seq, e.adds, e.log)' /\ e.seq <= lastSeq'
               /\ \A m \in manifests \cup {ver} : m.seq <= e.seq
    <3>1. Covers(e.seq, e.adds, e.log) /\ e.seq \in Nat /\ e.seq <= lastSeq
      BY <2>4 DEF Sequences, Manifested, Covers
    <3> QED  BY <1>5, <2>1, <2>4, <3>1 DEF Sequences, Manifested
  <2> QED  BY <1>1, <2>2, <2>3, <2>4 DEF Manifested
<1>9. Fresh'
  <2>1. imm' \subseteq Entries /\ \A n \in DOMAIN logs' : InLog(logs'[n]) \subseteq Entries
    BY <1>1 DEF Entries
  <2>2. \A e \in acked' : e.seq <= lastSeq'
    <3>1. \A e \in group.ents : e.seq <= lastSeq'  BY <1>1 DEF Sequences, Fresh
    <3>2. acked \subseteq Entries  BY <1>2 DEF Entries, IInv, Held
    <3> QED  BY <1>1, <1>6, <3>1, <3>2
  <2> QED  BY <1>3, <1>4, <1>5, <1>6, <2>1, <2>2 DEF Fresh
<1> QED  BY <1>4, <1>7, <1>8, <1>9 DEF Sequences

\* A flush or a merge takes the last number, which is above what it covers.
LEMMA EditSequences ==
    ASSUME IInv, Sequences, MergeDone \/ \E l0 \in {0, 1} : TableWritten(l0)
    PROVE  Sequences' /\ Entries' \subseteq Entries
<1>1. /\ UNCHANGED <<group, acked, mem, imm, lastSeq, logNum, ver, logs, manifests, db>>
      /\ bg.pc \in {"merge", "table"} /\ db = "open"
  BY DEF MergeDone, TableWritten, clientVars, diskVars, IInv, Background
<1>2. /\ bg'.edit.seq = lastSeq
      /\ \/ bg'.edit.adds = {} /\ bg'.edit.log = ver.log
         \/ bg'.edit.adds = imm /\ bg'.edit.log = logNum
  <2>1. CASE MergeDone
    <3>1. bg' = [pc |-> "edit", merging |-> FALSE, left |-> bg.left, edit |-> Edit({}, ver.log, -1)]
      BY <2>1 DEF MergeDone, IInv, Background
    <3> QED  BY <3>1 DEF Edit
  <2>2. ASSUME NEW l0 \in {0, 1}, TableWritten(l0)
        PROVE  bg'.edit = Edit(imm, logNum, l0)
    BY <2>2 DEF TableWritten, IInv, Background
  <2>3. CASE \E l0 \in {0, 1} : TableWritten(l0)
    BY <2>2, <2>3 DEF Edit
  <2> QED  BY <2>1, <2>3
<1>3. /\ logNum \in Nat /\ ver.log \in Nat /\ ver.log <= logNum
      /\ \A n \in DOMAIN logs : n \in Nat
  BY <1>1 DEF IInv, Numbers, Held
<1>4. ASSUME NEW log \in Nat, log <= logNum, NEW adds, adds \subseteq imm
      PROVE  Covers(lastSeq, adds, log)
  <2>1. \A n \in DOMAIN logs : n < log => n # logNum  BY <1>3, <1>4
  <2> QED  BY <1>1, <1>4, <2>1 DEF Sequences, Fresh, Covers
<1>5. \A s, es, log : Covers(s, es, log) <=> Covers(s, es, log)'  BY <1>1 DEF Covers
<1>6. Covers(lastSeq, bg'.edit.adds, bg'.edit.log)  BY <1>2, <1>3, <1>4
<1>7. Manifested'
  <2>1. \A m \in manifests \cup {ver} : Covers(m.seq, m.ents, m.log)' /\ m.seq <= lastSeq
    BY <1>1, <1>5 DEF Sequences, Manifested
  <2>2. ASSUME NEW e, e = bg'.edit PROVE Covers(e.seq, e.adds, e.log)'
    <3>1. Covers(e.seq, e.adds, e.log)  BY <1>2, <1>6, <2>2
    <3> QED  BY <1>5, <3>1
  <2>3. lastSeq <= lastSeq  BY DEF Sequences, Fresh
  <2> QED  BY <1>1, <1>2, <2>1, <2>2, <2>3 DEF Manifested
<1>8. Entries' = Entries  BY <1>1 DEF Entries
<1>9. Distinct'  BY <1>8, StayDistinct DEF Sequences
<1>10. Fresh'  BY <1>1, <1>8 DEF Sequences, Fresh
<1> QED  BY <1>7, <1>8, <1>9, <1>10 DEF Sequences

\* What the edit makes of a manifest is covered by the edit's number.
LEMMA EditCovers ==
    ASSUME IInv, Sequences, bg.pc = "edit", NEW m \in manifests \cup {ver},
           NEW w, w = Apply(m, bg.edit)
    PROVE  /\ Covers(w.seq, w.ents, w.log) /\ w.seq <= lastSeq
           /\ w.ents \subseteq Entries /\ m.seq <= w.seq
<1>1. w.seq = bg.edit.seq /\ w.log = bg.edit.log /\ w.ents = m.ents \cup bg.edit.adds
  BY DEF Apply
<1>2. /\ Covers(bg.edit.seq, bg.edit.adds, bg.edit.log) /\ bg.edit.seq <= lastSeq
      /\ Covers(m.seq, m.ents, m.log) /\ m.seq <= bg.edit.seq
  BY DEF Sequences, Manifested
<1>3. m.ents \subseteq Entries /\ imm \subseteq Entries  BY DEF Entries
<1>4. bg.edit.adds \subseteq imm  BY DEF IInv, Background
<1>5. \A e \in m.ents : e.seq \in Nat /\ e.seq <= bg.edit.seq
  <2>1. \A e \in m.ents : e.seq \in Nat /\ e.seq <= m.seq
    BY <1>2, <1>3 DEF Sequences, Distinct, Covers
  <2> QED  BY <1>2, <2>1 DEF Covers
<1> QED  BY <1>1, <1>2, <1>3, <1>4, <1>5 DEF Covers

\* The edit is applied, or perhaps applied.
LEMMA ApplySequences ==
    ASSUME IInv, Sequences, LogAndApply \/ ManifestFails
    PROVE  Sequences' /\ Entries' \subseteq Entries
<1>1. /\ bg.pc = "edit" /\ db = "open" /\ bg'.pc # "edit" /\ imm' \subseteq imm
      /\ UNCHANGED <<group, acked, mem, lastSeq, logNum, db>>
  <2>1. \A error, has, l0 : EndOfWork(error, has, l0).pc # "edit"
    BY DEF EndOfWork, Schedule, Resting, IInv, Background
  <2>2. CASE LogAndApply  BY <2>1, <2>2 DEF LogAndApply, IInv, Background
  <2>3. CASE ManifestFails  BY <2>1, <2>3 DEF ManifestFails, IInv, Background
  <2> QED  BY <2>2, <2>3
<1>2. /\ DOMAIN logs' \subseteq DOMAIN logs
      /\ \A n \in DOMAIN logs' : logs'[n] = logs[n]
  BY DEF LogAndApply, ManifestFails, KeptLogs
<1>3. \A w \in manifests' \cup {ver'} :
          w \in manifests \cup {ver} \/ \E m \in manifests \cup {ver} : w = Apply(m, bg.edit)
  BY DEF LogAndApply, ManifestFails
<1>4. ASSUME NEW w \in manifests' \cup {ver'}
      PROVE  Covers(w.seq, w.ents, w.log) /\ w.seq <= lastSeq /\ w.ents \subseteq Entries
  <2>1. CASE w \in manifests \cup {ver}
    <3>1. w.ents \subseteq Entries  BY <2>1 DEF Entries
    <3> QED  BY <1>1, <2>1, <3>1 DEF Sequences, Manifested
  <2>2. CASE \E m \in manifests \cup {ver} : w = Apply(m, bg.edit)
    BY <1>1, <2>2, EditCovers
  <2> QED  BY <1>3, <2>1, <2>2
<1>5. \A n \in DOMAIN logs' : InLog(logs'[n]) \subseteq Entries  BY <1>2 DEF Entries
<1>6. Entries' \subseteq Entries
  <2>1. mem \cup imm \cup group.ents \subseteq Entries  BY DEF Entries
  <2> QED  BY <1>1, <1>4, <1>5, <2>1 DEF Entries
<1>7. Distinct'  BY <1>6, StayDistinct DEF Sequences
<1>8. Manifested'
  <2>1. ASSUME NEW w \in manifests' \cup {ver'} PROVE Covers(w.seq, w.ents, w.log)'
    BY <1>2, <1>4, StaysCovered
  <2> QED  BY <1>1, <1>4, <2>1 DEF Manifested
<1>9. Fresh'  BY <1>1, <1>2, <1>6 DEF Sequences, Fresh
<1> QED  BY <1>6, <1>7, <1>8, <1>9 DEF Sequences

\* Whatever the manifest is found to hold, its number covers it.
LEMMA FoundCovers ==
    ASSUME IInv, Sequences, NEW m \in Found
    PROVE  Covers(m.seq, m.ents, m.log) /\ m.ents \subseteq Entries
<1>1. CASE m \in manifests
  <2>1. m.ents \subseteq Entries  BY <1>1 DEF Entries
  <2> QED  BY <1>1, <2>1 DEF Sequences, Manifested
<1>2. CASE m \notin manifests
  <2>1. bg.pc = "edit" /\ \E w \in manifests : m = Apply(w, bg.edit)  BY <1>2 DEF Found
  <2> QED  BY <2>1, EditCovers
<1> QED  BY <1>1, <1>2

\* What is left after a crash was there before.
LEMMA DownSequences ==
    ASSUME IInv, Sequences, NEW found \in Found, Down(found),
           UNCHANGED logs \/ logs' \in Survivors
    PROVE  Sequences' /\ Entries' \subseteq Entries
<1>1. /\ db' = "closed" /\ manifests' = {found} /\ ver' = found /\ group' = NoGroup
      /\ mem' = {} /\ imm' = {} /\ bg' = Resting /\ lastSeq' = lastSeq
  BY DEF Down
<1>2. Covers(found.seq, found.ents, found.log) /\ found.ents \subseteq Entries
  BY FoundCovers
<1>3. /\ DOMAIN logs' = DOMAIN logs
      /\ \A n \in DOMAIN logs : InLog(logs'[n]) \subseteq InLog(logs[n])
  <2>1. CASE UNCHANGED logs  BY <2>1
  <2>2. CASE logs' \in Survivors
    <3>1. DOMAIN logs' = DOMAIN logs /\ \A n \in DOMAIN logs : logs'[n] \in Remains(logs[n])
      BY <2>2 DEF Survivors
    <3>2. \A lg : \A x \in Remains(lg) : InLog(x) \subseteq InLog(lg)
      BY DEF Remains, InLog
    <3> QED  BY <3>1, <3>2
  <2> QED  BY <2>1, <2>2
<1>4. group'.ents = {} /\ Cardinality(group'.ents) = 0
  BY <1>1, FS_EmptySet DEF NoGroup
<1>5. Entries' \subseteq Entries
  <2>1. \A n \in DOMAIN logs' : InLog(logs'[n]) \subseteq Entries  BY <1>3 DEF Entries
  <2> QED  BY <1>1, <1>2, <1>4, <2>1 DEF Entries
<1>6. Distinct'  BY <1>5, StayDistinct DEF Sequences
<1>7. Manifested'
  <2>1. Covers(found.seq, found.ents, found.log)'  BY <1>2, <1>3, StaysCovered
  <2> QED  BY <1>1, <2>1 DEF Manifested, Resting
<1>8. Fresh'  BY <1>1, <1>4 DEF Sequences, Fresh
<1> QED  BY <1>5, <1>6, <1>7, <1>8 DEF Sequences

\* The largest of numbers that are not above n.
LEMMA MaxIsLargest ==
    ASSUME NEW n \in Nat, NEW T \in SUBSET (0 .. n), T # {}
    PROVE  Max(T) \in T /\ \A t \in T : t <= Max(T)
<1> DEFINE D == {n - t : t \in T}
<1>1. D \subseteq Nat /\ D # {}
  <2>1. \A t \in T : n - t \in Nat  OBVIOUS
  <2> QED  BY <2>1
<1>2. PICK R : R = OpToRel(<, Nat)  OBVIOUS
<1>3. \A k, m \in Nat : k < m => <<k, m>> \in R  BY <1>2 DEF OpToRel
<1>4. \E m \in D : \A k \in D : ~ (<<k, m>> \in R)
  BY <1>1, <1>2, NatLessThanWellFounded, WFMin
<1>5. PICK m \in T : \A k \in D : ~ (<<k, n - m>> \in R)  BY <1>4
<1>6. ASSUME NEW k \in T  PROVE m >= k
  <2>1. n - k \in D /\ n - k \in Nat /\ n - m \in Nat  OBVIOUS
  <2>2. ~ (n - k < n - m)  BY <1>3, <1>5, <2>1
  <2> QED  BY <2>1, <2>2
<1>7. \E x \in T : \A y \in T : x >= y  BY <1>6
<1>8. PICK x : x = Max(T)  OBVIOUS
<1>9. x \in T /\ \A y \in T : x >= y  BY <1>7, <1>8 DEF Max
<1>10. \A t \in T : t <= x
  <2>1. \A t \in T : t \in Int  OBVIOUS
  <2> QED  BY <1>9, <2>1
<1> QED  BY <1>8, <1>9, <1>10

\* Recovery goes on after the largest number the manifest covers or a log holds.
LEMMA RecoverSequences ==
    ASSUME IInv, Sequences, NEW lost \in BOOLEAN, NEW new \in ver.next .. nextFile,
           Recover(lost, new)
    PROVE  Sequences' /\ Entries' \subseteq Entries
<1>1. PICK ents : ents = UNION {ReadBack(n, lost) : n \in Replayed(ver)}  OBVIOUS
<1>2. /\ db = "closed" /\ db' = "opening" /\ new \in Unused(ver)
      /\ logs' = NewLog(new) /\ logNum' = new
      /\ lastSeq' = MaxSequence(ver, ents)
      /\ ver'.log = new /\ ver'.ents = ver.ents \cup ents /\ ver'.seq = lastSeq'
      /\ UNCHANGED <<group, acked, mem, imm, bg, manifests>>
  BY <1>1 DEF Recover, clientVars
<1>3. /\ mem = {} /\ imm = {} /\ manifests = {ver} /\ bg.pc = "idle"
      /\ group.phase = "none" /\ group.ents = {}
  <2>1. /\ mem = {} /\ imm = {} /\ manifests = {ver} /\ bg.pc = "idle" /\ writers = <<>>
    BY <1>2 DEF IInv, Held, Numbers, Background, Phase
  <2>2. Len(writers) = 0  BY <2>1
  <2>3. \A c \in Clients : pc[c] = "idle"  BY <2>2 DEF IInv, Queue
  <2> QED  BY <2>1, <2>3 DEF IInv, Phase, Sequences, Fresh
<1>4. /\ ver.log \in Nat /\ new \in Nat /\ \A n \in DOMAIN logs : n \in Nat /\ (n >= ver.log => n < new)
  BY <1>2 DEF IInv, Numbers, Unused, Replayed
<1>5. /\ DOMAIN logs' = DOMAIN logs \cup {new} /\ logs'[new] = EmptyLog
      /\ \A n \in DOMAIN logs \ {new} : logs'[n] = logs[n]
  BY <1>2 DEF NewLog, WithLog
<1>6. InLog(EmptyLog) = {}  BY DEF InLog, EmptyLog
<1>7. /\ ents \subseteq Entries
      /\ \A n \in DOMAIN logs : n >= ver.log => InLog(logs[n]) \subseteq ents
  <2>1. \A n \in DOMAIN logs : ReadBack(n, lost) = InLog(logs[n])
    BY DEF ReadBack, IInv, NotTorn
  <2> QED  BY <1>1, <2>1 DEF Replayed, Entries
<1>8. Entries' \subseteq Entries
  <2>1. \A n \in DOMAIN logs' : InLog(logs'[n]) \subseteq Entries
    BY <1>5, <1>6 DEF Entries
  <2>2. ver'.ents \subseteq Entries  BY <1>2, <1>7 DEF Entries
  <2>3. UNION {m.ents : m \in manifests'} \subseteq Entries  BY <1>2 DEF Entries
  <2> QED  BY <1>2, <1>3, <2>1, <2>2, <2>3 DEF Entries
<1>9. Distinct'  BY <1>8, StayDistinct DEF Sequences
<1>10. Covers(ver.seq, ver.ents, ver.log)  BY DEF Sequences, Manifested
<1>11. lastSeq' \in Nat /\ ver.seq \in Nat /\ ver.seq <= lastSeq' /\ \A e \in ents : e.seq <= lastSeq'
  <2>1. PICK T : T = {ver.seq} \cup {e.seq : e \in ents}  OBVIOUS
  <2>2. PICK b \in Nat : \A e \in Entries : e.seq \in Nat /\ e.seq <= b
    BY DEF Sequences, Distinct
  <2>3. ver.seq \in Nat  BY <1>10 DEF Covers
  <2>4. T \in SUBSET (0 .. (b + ver.seq))
    <3>1. \A e \in ents : e.seq \in 0 .. (b + ver.seq)
      <4>1. ASSUME NEW q \in Nat, q <= b PROVE q \in 0 .. (b + ver.seq)  BY <2>3, <4>1
      <4> QED  BY <1>7, <2>2, <4>1
    <3> QED  BY <2>1, <2>3, <3>1
  <2>5. b + ver.seq \in Nat /\ T # {}
    <3>1. ver.seq \in T  BY <2>1
    <3> QED  BY <2>3, <3>1
  <2>6. Max(T) \in T /\ \A t \in T : t <= Max(T)  BY <2>4, <2>5, MaxIsLargest
  <2>7. lastSeq' = Max(T)  BY <1>2, <2>1 DEF MaxSequence
  <2>8. T \subseteq Nat  BY <2>4, <2>5
  <2> QED  BY <2>1, <2>3, <2>6, <2>7, <2>8
<1>12. \A e \in Entries : e.seq \in Nat /\ e.seq <= lastSeq'
  <2>1. \A e \in Entries : e.seq \in Nat  BY DEF Sequences, Distinct
  <2>2. ASSUME NEW e \in Entries, e.seq <= ver.seq PROVE e.seq <= lastSeq'
    BY <1>11, <2>1, <2>2
  <2>3. \A e \in ver.ents : e.seq <= ver.seq  BY <1>10 DEF Covers
  <2>4. ASSUME NEW n \in DOMAIN logs, NEW e \in InLog(logs[n])
        PROVE  e.seq <= lastSeq'
    <3>1. CASE n >= ver.log  BY <1>7, <1>11, <3>1
    <3>2. CASE n < ver.log
      <4>1. e.seq <= ver.seq  BY <1>10, <3>2 DEF Covers
      <4>2. e \in Entries  BY DEF Entries
      <4> QED  BY <2>2, <4>1, <4>2
    <3> QED  BY <1>4, <3>1, <3>2
  <2>5. Entries = ver.ents \cup UNION {InLog(logs[n]) : n \in DOMAIN logs}
    BY <1>3 DEF Entries
  <2> QED  BY <2>1, <2>2, <2>3, <2>4, <2>5
<1>13. Manifested'
  <2>1. ASSUME NEW m, m = ver PROVE Covers(m.seq, m.ents, m.log)'
    <3>1. Covers(m.seq, m.ents, m.log)  BY <1>10, <2>1
    <3>2. \A n \in DOMAIN logs' : InLog(logs'[n]) # {} => n \in DOMAIN logs /\ logs'[n] = logs[n]
      BY <1>5, <1>6
    <3> QED  BY <3>1, <3>2 DEF Covers
  <2>2. ASSUME NEW v, v = ver' PROVE Covers(v.seq, v.ents, v.log)'
    <3>1. \A n \in DOMAIN logs' : InLog(logs'[n]) \subseteq Entries
      BY <1>5, <1>6 DEF Entries
    <3>2. v.ents \subseteq Entries  BY <1>2, <1>7, <2>2 DEF Entries
    <3>3. v.seq = lastSeq'  BY <1>2, <2>2
    <3> QED  BY <1>11, <1>12, <3>1, <3>2, <3>3 DEF Covers
  <2>3. \A m \in manifests' \cup {ver'} : m = ver \/ m = ver'  BY <1>2, <1>3
  <2>4. \A m \in manifests' \cup {ver'} : m.seq <= lastSeq'
    BY <1>2, <1>11, <2>3
  <2> QED  BY <1>2, <1>3, <2>1, <2>2, <2>3, <2>4 DEF Manifested
<1>14. Fresh'
  <2>1. Cardinality(group'.ents) \in Nat  BY <1>2 DEF Sequences, Fresh
  <2>2. \A n \in DOMAIN logs' : InLog(logs'[n]) \subseteq Entries'  BY DEF Entries
  <2>3. imm' \subseteq Entries'  BY DEF Entries
  <2> QED  BY <1>2, <1>3, <1>8, <1>11, <1>12, <2>1, <2>2, <2>3 DEF Fresh
<1> QED  BY <1>8, <1>9, <1>13, <1>14 DEF Sequences

\* The manifest of the recovery is the only one.
LEMMA OpenSequences ==
    ASSUME IInv, Sequences, Open
    PROVE  Sequences' /\ Entries' \subseteq Entries
<1>1. /\ db = "opening" /\ db' = "open" /\ manifests' = {ver} /\ bg'.pc # "edit"
      /\ UNCHANGED <<group, acked, mem, imm, lastSeq, logNum, ver>>
  BY DEF Open, clientVars, Schedule, Resting
<1>2. /\ DOMAIN logs' \subseteq DOMAIN logs
      /\ \A n \in DOMAIN logs' : logs'[n] = logs[n]
  BY DEF Open, KeptLogs
<1>3. acked \subseteq ver.ents /\ mem = {} /\ group.ents = {}
  <2>1. writers = <<>> /\ acked \subseteq ver.ents /\ mem = {}
    BY <1>1 DEF IInv, Phase, Held
  <2>2. Len(writers) = 0  BY <2>1
  <2>3. \A c \in Clients : pc[c] = "idle"  BY <2>2 DEF IInv, Queue
  <2> QED  BY <2>1, <2>3 DEF IInv, Phase, Sequences, Fresh
<1>4. Entries' \subseteq Entries
  <2>1. \A n \in DOMAIN logs' : InLog(logs'[n]) \subseteq Entries  BY <1>2 DEF Entries
  <2>2. UNION {m.ents : m \in manifests'} \subseteq Entries  BY <1>1 DEF Entries
  <2>3. mem \cup imm \cup group.ents \cup ver.ents \subseteq Entries  BY DEF Entries
  <2> QED  BY <1>1, <2>1, <2>2, <2>3 DEF Entries
<1>5. Distinct'  BY <1>4, StayDistinct DEF Sequences
<1>6. Manifested'
  <2>1. ASSUME NEW m, m = ver PROVE Covers(m.seq, m.ents, m.log)'
    <3>1. Covers(m.seq, m.ents, m.log)  BY <2>1 DEF Sequences, Manifested
    <3> QED  BY <1>2, <3>1, StaysCovered
  <2>2. ver.seq <= lastSeq  BY <1>1 DEF Sequences, Manifested
  <2> QED  BY <1>1, <2>1, <2>2 DEF Manifested
<1>7. Fresh'
  <2>1. ver.ents \subseteq Entries  BY DEF Entries
  <2> QED  BY <1>1, <1>2, <1>3, <1>4, <2>1 DEF Sequences, Fresh
<1> QED  BY <1>4, <1>5, <1>6, <1>7 DEF Sequences

\* The numbers are right at first.
LEMMA InitSequences == Init => Sequences
<1> SUFFICES ASSUME Init PROVE Sequences
  OBVIOUS
<1>1. /\ group = NoGroup /\ acked = {} /\ mem = {} /\ imm = {} /\ lastSeq = 0 /\ ver = NewDB
      /\ bg = Resting /\ logs = [n \in {1} |-> EmptyLog] /\ manifests = {NewDB}
  BY DEF Init
<1>2. group.ents = {} /\ group.phase = "none" /\ Cardinality(group.ents) = 0
  BY <1>1, FS_EmptySet DEF NoGroup
<1>3. \A n \in DOMAIN logs : InLog(logs[n]) = {}  BY <1>1 DEF InLog, EmptyLog
<1>4. \A m \in manifests \cup {ver} : m.ents = {} /\ m.seq = 0  BY <1>1 DEF NewDB
<1>5. Entries = {}  BY <1>1, <1>2, <1>3, <1>4 DEF Entries
<1>6. Distinct
  <2>1. \A e \in Entries : e.seq <= 0  BY <1>5
  <2> QED  BY <1>5, <2>1 DEF Distinct
<1>7. Manifested  BY <1>1, <1>3, <1>4 DEF Manifested, Covers, Resting
<1>8. Fresh  BY <1>1, <1>2, <1>3, <1>5 DEF Fresh
<1> QED  BY <1>6, <1>7, <1>8 DEF Sequences

\* Every step keeps the numbers right.
LEMMA NextSequences ==
    "tear" \notin Faults /\ IInv /\ Sequences /\ [Next]_vars => Sequences'
<1> SUFFICES ASSUME "tear" \notin Faults, IInv, Sequences, [Next]_vars PROVE Sequences'
  OBVIOUS
<1>1. CASE \/ \E c \in Clients, s \in BOOLEAN, null \in BOOLEAN : Write(c, s, null)
           \/ \E c \in Clients : \/ MakeRoomFails(c) \/ Slowdown(c) \/ SlowdownOver(c)
                                 \/ WaitForCompaction(c) \/ SwitchFails(c) \/ NothingToWrite(c)
           \/ SyncFails \/ BackgroundCall \/ WorkFails \/ MergeStopsForImm
           \/ UNCHANGED vars
  BY <1>1, QuietSteps
<1>2. CASE \E c \in Clients : SwitchMemTable(c)  BY <1>2, SwitchSequences
<1>3. CASE \E c \in Clients, n \in 1 .. Cardinality(Clients) : BuildBatchGroup(c, n)
  BY <1>3, BuildSequences
<1>4. CASE AddRecord \/ AddRecordFails \/ SyncLog \/ \E e \in group.todo : Insert(e)
  BY <1>4, GroupSequences
<1>5. CASE FinishWrite  BY <1>5, FinishSequences
<1>6. CASE MergeDone \/ \E l0 \in {0, 1} : TableWritten(l0)  BY <1>6, EditSequences
<1>7. CASE LogAndApply \/ ManifestFails  BY <1>7, ApplySequences
<1>8. CASE Kill  BY <1>8, DownSequences DEF Kill
<1>9. CASE PowerLoss  BY <1>9, DownSequences DEF PowerLoss
<1>10. CASE \E lost \in BOOLEAN, new \in ver.next .. nextFile : Recover(lost, new)
  BY <1>10, RecoverSequences
<1>11. CASE Open  BY <1>11, OpenSequences
<1> QED
  BY <1>1, <1>2, <1>3, <1>4, <1>5, <1>6, <1>7, <1>8, <1>9, <1>10, <1>11 DEF Next

\* A sequence number is never given to two entries, and a database that is open
\* goes on after every acknowledged one: in memory, in the tables, in any manifest
\* that a crash may leave and in the logs, whatever call of the file system fails.
THEOREM SequenceNumbersUnique ==
    ASSUME "tear" \notin Faults
    PROVE  Spec => []SeqUnique
<1>1. Init => Sequences  BY InitSequences
<1>2. IInv /\ Sequences /\ [Next]_vars => Sequences'  BY NextSequences
<1>3. IInv /\ Sequences => SeqUnique
  <2> SUFFICES ASSUME IInv, Sequences PROVE SeqUnique
    OBVIOUS
  <2>1. UNION {m.ents : m \in Found} \subseteq Entries  BY FoundCovers
  <2>2. mem \cup imm \cup group.ents \cup ver.ents \cup (UNION {m.ents : m \in Found})
            \cup UNION {InLog(logs[n]) : n \in DOMAIN logs} \subseteq Entries
    BY <2>1 DEF Entries
  <2> QED  BY <2>2 DEF Sequences, Distinct, Fresh, SeqUnique
<1> QED  BY <1>1, <1>2, <1>3, Invariant, PTL DEF Spec

(***************************************************************************)
(* Types.                                                                   *)
(***************************************************************************)
\* Every entry has the id of a call that was made.
Named ==
    /\ calls \in 0 .. MaxCalls
    /\ \A c \in Clients : call[c].id \in 0 .. calls
    /\ \A e \in Entries : e.id \in 1 .. calls

\* imm_ is being made a table, or nothing is done any more.
Flushing ==
    /\ bgError \in BOOLEAN /\ hasImm \in BOOLEAN /\ bg.merging \in BOOLEAN
    /\ hasImm => bg.pc # "idle" \/ bgError
    /\ db # "open" => ~hasImm
    /\ group.phase = "none" => group.size = 0

\* A merge has a file of level 0 to take away, whatever the manifest.
Level0 ==
    /\ \A m \in manifests \cup {ver} : m.l0 \in Nat
    /\ db = "open" /\ ~bgError => manifests = {ver}
    /\ bg.pc = "merge" => bg.merging
    /\ bg.pc = "edit" => bg.edit.l0 \in {-1, 0, 1} /\ (bg.edit.l0 = -1 => ~bg.merging)
    /\ bg.merging \/ (bg.pc = "edit" /\ bg.edit.l0 = -1) =>
          bg.pc # "idle" /\ \A m \in manifests \cup {ver} : m.l0 >= 1

Types == Named /\ Flushing /\ Level0

\* A step makes no entry, but for a group's.
LEMMA NextEntries ==
    ASSUME "tear" \notin Faults, IInv, Sequences, [Next]_vars
    PROVE  \/ Entries' \subseteq Entries
           \/ \E c \in Clients, n \in 1 .. Cardinality(Clients) : BuildBatchGroup(c, n)
<1>1. CASE \/ \E c \in Clients, s \in BOOLEAN, null \in BOOLEAN : Write(c, s, null)
           \/ \E c \in Clients : \/ MakeRoomFails(c) \/ Slowdown(c) \/ SlowdownOver(c)
                                 \/ WaitForCompaction(c) \/ SwitchFails(c) \/ NothingToWrite(c)
           \/ SyncFails \/ BackgroundCall \/ WorkFails \/ MergeStopsForImm
           \/ UNCHANGED vars
  BY <1>1, QuietSteps
<1>2. CASE \E c \in Clients : SwitchMemTable(c)  BY <1>2, SwitchSequences
<1>3. CASE AddRecord \/ AddRecordFails \/ SyncLog \/ \E e \in group.todo : Insert(e)
  BY <1>3, GroupSequences
<1>4. CASE FinishWrite  BY <1>4, FinishSequences
<1>5. CASE MergeDone \/ \E l0 \in {0, 1} : TableWritten(l0)  BY <1>5, EditSequences
<1>6. CASE LogAndApply \/ ManifestFails  BY <1>6, ApplySequences
<1>7. CASE Kill  BY <1>7, DownSequences DEF Kill
<1>8. CASE PowerLoss  BY <1>8, DownSequences DEF PowerLoss
<1>9. CASE \E lost \in BOOLEAN, new \in ver.next .. nextFile : Recover(lost, new)
  BY <1>9, RecoverSequences
<1>10. CASE Open  BY <1>10, OpenSequences
<1> QED
  BY <1>1, <1>2, <1>3, <1>4, <1>5, <1>6, <1>7, <1>8, <1>9, <1>10 DEF Next

\* A call that is not made now keeps its id or is over.
LEMMA CallsKept ==
    ASSUME IInv, [Next]_vars,
           ~ \E c \in Clients, s \in BOOLEAN, null \in BOOLEAN : Write(c, s, null)
    PROVE  /\ calls' = calls
           /\ \A c \in Clients : call'[c].id \in {call[c].id, 0}
<1> DEFINE P == \A c \in Clients : call'[c].id \in {call[c].id, 0}
<1>1. NoCall.id = 0  BY DEF NoCall
<1>2. \A n : Return(n) => P  BY <1>1 DEF Return
<1>3. \A c \in Clients : SlowdownOver(c) => P
  BY DEF SlowdownOver, IInv, Queue, Calls
<1>4. \A c \in Clients : SwitchMemTable(c) => P
  BY DEF SwitchMemTable, IInv, Queue, Calls
<1>5. \A m : Down(m) => P  BY <1>1 DEF Down
<1>6. UNCHANGED call => P  OBVIOUS
<1> HIDE DEF P
<1>7. CASE \E c \in Clients : \/ MakeRoomFails(c) \/ Slowdown(c) \/ SlowdownOver(c)
                              \/ WaitForCompaction(c) \/ SwitchMemTable(c) \/ SwitchFails(c)
                              \/ NothingToWrite(c)
                              \/ \E n \in 1 .. Cardinality(Clients) : BuildBatchGroup(c, n)
  <2>1. P
    BY <1>2, <1>3, <1>4, <1>6, <1>7 DEF MakeRoomFails, Slowdown, WaitForCompaction, SwitchFails,
       NothingToWrite, BuildBatchGroup
  <2>2. calls' = calls
    BY <1>7 DEF MakeRoomFails, Slowdown, SlowdownOver, WaitForCompaction, SwitchMemTable,
       SwitchFails, NothingToWrite, BuildBatchGroup
  <2> QED  BY <2>1, <2>2 DEF P
<1>8. CASE \/ AddRecord \/ AddRecordFails \/ SyncLog \/ SyncFails
           \/ (\E e \in group.todo : Insert(e)) \/ FinishWrite
  <2>1. P  BY <1>2, <1>6, <1>8 DEF AddRecord, AddRecordFails, SyncLog, SyncFails, Insert, FinishWrite
  <2>2. calls' = calls
    BY <1>8 DEF AddRecord, AddRecordFails, SyncLog, SyncFails, Insert, FinishWrite
  <2> QED  BY <2>1, <2>2 DEF P
<1>9. CASE \/ BackgroundCall \/ MergeStopsForImm \/ MergeDone \/ WorkFails \/ LogAndApply
           \/ ManifestFails \/ (\E l0 \in {0, 1} : TableWritten(l0))
           \/ Open \/ UNCHANGED vars
           \/ \E lost \in BOOLEAN, new \in ver.next .. nextFile : Recover(lost, new)
  <2>1. UNCHANGED <<call, calls>>
    BY <1>9 DEF BackgroundCall, MergeStopsForImm, MergeDone, WorkFails, LogAndApply,
       ManifestFails, TableWritten, Open, vars, Recover, clientVars
  <2> QED  BY <1>6, <2>1 DEF P
<1>10. CASE Kill \/ PowerLoss
  BY <1>5, <1>10 DEF Kill, PowerLoss, Down, P
<1> QED  BY <1>7, <1>8, <1>9, <1>10 DEF Next

\* Every step keeps the ids right.
LEMMA NextNamed ==
    ASSUME "tear" \notin Faults, IInv, Sequences, Named, [Next]_vars
    PROVE  Named'
<1>0. MaxCalls \in Nat /\ calls \in 0 .. MaxCalls  BY CallsAssumption DEF Named
<1>1. CASE \E c \in Clients, s \in BOOLEAN, null \in BOOLEAN : Write(c, s, null)
  <2>1. PICK c \in Clients, s \in BOOLEAN, null \in BOOLEAN : Write(c, s, null)  BY <1>1
  <2>2. calls' = calls + 1 /\ calls < MaxCalls  BY <2>1 DEF Write
  <2>3. calls' \in 0 .. MaxCalls /\ 0 .. calls \subseteq 0 .. calls' /\ 1 .. calls \subseteq 1 .. calls'
    BY <1>0, <2>2
  <2>4. \A b \in Clients : call'[b].id \in {call[b].id, 0, calls + 1}
    <3>1. call' = [call EXCEPT ![c] = [sync |-> s, id |-> IF null THEN 0 ELSE calls + 1,
                                      force |-> null, delay |-> ~null]]
      BY <2>1 DEF Write
    <3>2. call'[c].id \in {0, calls + 1}  BY <3>1 DEF IInv, Queue
    <3>3. \A b \in Clients \ {c} : call'[b] = call[b]  BY <3>1 DEF IInv, Queue
    <3> QED  BY <3>2, <3>3
  <2>5. \A b \in Clients : call'[b].id \in 0 .. calls'
    <3>1. 0 \in 0 .. calls' /\ calls + 1 \in 0 .. calls'  BY <1>0, <2>2
    <3> QED  BY <2>3, <2>4, <3>1 DEF Named
  <2>6. Entries' \subseteq Entries  BY <1>1, QuietSteps
  <2> QED  BY <2>3, <2>5, <2>6 DEF Named
<1>2. CASE ~ \E c \in Clients, s \in BOOLEAN, null \in BOOLEAN : Write(c, s, null)
  <2>1. /\ calls' = calls /\ \A c \in Clients : call'[c].id \in {call[c].id, 0}
    BY <1>2, CallsKept
  <2>2. \A c \in Clients : call'[c].id \in 0 .. calls
    <3>1. 0 \in 0 .. calls  BY <1>0
    <3> QED  BY <2>1, <3>1 DEF Named
  <2>3. \A e \in Entries' : e.id \in 1 .. calls
    <3>1. CASE Entries' \subseteq Entries  BY <3>1 DEF Named
    <3>2. ASSUME NEW c \in Clients, NEW n \in 1 .. Cardinality(Clients), BuildBatchGroup(c, n)
          PROVE  \A e \in Entries' : e.id \in 1 .. calls
      <4>1. group.phase = "none" /\ n \in 1 .. Len(writers) /\ Len(writers) \in Nat
        BY <3>2, FrontAlone DEF BuildBatchGroup, AtFront
      <4>2. \A i \in 1 .. n : writers[i] \in Clients  BY <4>1 DEF IInv, Queue
      <4>3. \A e \in group'.ents : \E i \in 1 .. n : e.id = call[writers[i]].id /\ e.id # 0
        <5>1. PICK W \in SUBSET (1 .. n) : W = {i \in 1 .. n : call[writers[i]].id # 0}
          OBVIOUS
        <5>2. group'.ents = {[id |-> call[writers[i]].id, seq |-> lastSeq + Rank(W, i)] : i \in W}
          BY <3>2, <5>1 DEF BuildBatchGroup, Rank
        <5>3. ASSUME NEW e \in group'.ents
              PROVE  \E i \in 1 .. n : e.id = call[writers[i]].id /\ e.id # 0
          <6>1. PICK i \in W : e = [id |-> call[writers[i]].id, seq |-> lastSeq + Rank(W, i)]
            BY <5>2
          <6>2. e.id = call[writers[i]].id /\ i \in 1 .. n /\ call[writers[i]].id # 0
            BY <5>1, <6>1
          <6> QED  BY <6>2
        <5> QED  BY <5>3
      <4>4. \A e \in group'.ents : e.id \in 1 .. calls
        <5>1. \A q \in 0 .. calls : q # 0 => q \in 1 .. calls  BY <1>0
        <5> QED  BY <4>2, <4>3, <5>1 DEF Named
      <4>5. Entries' \subseteq Entries \cup group'.ents
        <5>1. UNCHANGED <<mem, imm, ver, manifests, logs>>  BY <3>2 DEF BuildBatchGroup
        <5> QED  BY <5>1 DEF Entries
      <4> QED  BY <4>4, <4>5 DEF Named
    <3> QED  BY <3>1, <3>2, NextEntries
  <2> QED  BY <2>1, <2>2, <2>3 DEF Named
<1> QED  BY <1>1, <1>2

\* The background thread goes on, or has no more to do for imm_.
LEMMA WorkEnds ==
    ASSUME NEW error \in BOOLEAN, NEW has \in BOOLEAN, NEW l0, NEW b, b = EndOfWork(error, has, l0),
           IInv, bg.merging \in BOOLEAN
    PROVE  /\ b.pc \in {"idle", "scheduled", "merge"} /\ b.merging \in BOOLEAN
           /\ b.pc = "merge" <=> bg.merging
           /\ b.merging = bg.merging
           /\ has => b.pc # "idle" \/ error
BY DEF EndOfWork, Schedule, Resting, IInv, Background

\* Work has gone back to the merge it was part of, or is nowhere.
GoneBack(b, m) ==
    /\ b.pc \in {"idle", "scheduled", "merge"} /\ b.merging = m
    /\ b.pc = "merge" <=> m

\* Work that failed has.
LEMMA WorkFailed ==
    ASSUME NEW has, NEW l0, NEW b, b = EndOfWork(TRUE, has, l0),
           NEW m \in BOOLEAN, m = bg.merging, IInv
    PROVE  GoneBack(b, m)
<1>1. CASE m
  <2>1. bg = [pc |-> bg.pc, merging |-> bg.merging, left |-> bg.left, edit |-> bg.edit]
    BY DEF IInv, Background
  <2> QED  BY <1>1, <2>1 DEF EndOfWork, GoneBack
<1>2. CASE ~m
  <2>1. b = Schedule(Resting, TRUE, has, l0)  BY <1>2 DEF EndOfWork
  <2>2. b = Resting  BY <2>1, Zenon DEF Schedule
  <2>3. m = FALSE  BY <1>2
  <2>4. b.pc = "idle" /\ b.merging = FALSE
    <3>1. Resting.pc = "idle" /\ Resting.merging = FALSE  BY DEF Resting
    <3> QED  BY <2>2, <3>1, Zenon
  <2>5. (b.pc = "merge" <=> FALSE) /\ b.merging = m  BY <2>3, <2>4
  <2> QED  BY <1>2, <2>4, <2>5 DEF GoneBack
<1> QED  BY <1>1, <1>2

\* A step of the clients: it starts no work, and work that waits is not forgotten.
LEMMA ClientWork ==
    ASSUME IInv, Flushing, Level0,
           group' = group \/ group'.phase # "none" \/ group' = NoGroup,
           bgError' \in BOOLEAN, bgError => bgError',
           UNCHANGED <<hasImm, bg, ver, manifests, db>>
    PROVE  Flushing' /\ Level0'
BY DEF Flushing, Level0, NoGroup

\* The steps of the clients.
LEMMA ClientSteps ==
    ASSUME IInv, Flushing, Level0,
           \/ \E c \in Clients, s \in BOOLEAN, null \in BOOLEAN : Write(c, s, null)
           \/ \E c \in Clients : \/ MakeRoomFails(c) \/ Slowdown(c) \/ SlowdownOver(c)
                                 \/ WaitForCompaction(c) \/ SwitchFails(c) \/ NothingToWrite(c)
                                 \/ \E n \in 1 .. Cardinality(Clients) : BuildBatchGroup(c, n)
           \/ AddRecord \/ AddRecordFails \/ SyncLog \/ SyncFails
           \/ (\E e \in group.todo : Insert(e)) \/ FinishWrite
           \/ UNCHANGED vars
    PROVE  Flushing' /\ Level0'
<1>1. bgError \in BOOLEAN  BY DEF Flushing
<1>2. CASE \/ \E c \in Clients, s \in BOOLEAN, null \in BOOLEAN : Write(c, s, null)
           \/ \E c \in Clients : \/ MakeRoomFails(c) \/ Slowdown(c) \/ SlowdownOver(c)
                                 \/ WaitForCompaction(c) \/ SwitchFails(c) \/ NothingToWrite(c)
           \/ UNCHANGED vars
  <2>1. UNCHANGED <<group, hasImm, bg, bgError, ver, manifests, db>>
    BY <1>2 DEF Write, MakeRoomFails, Slowdown, SlowdownOver, WaitForCompaction, SwitchFails,
       NothingToWrite, vars
  <2> QED  BY <1>1, <2>1, ClientWork
<1>3. CASE \E c \in Clients, n \in 1 .. Cardinality(Clients) : BuildBatchGroup(c, n)
  <2>1. PICK c \in Clients, n \in 1 .. Cardinality(Clients) : BuildBatchGroup(c, n)  BY <1>3
  <2>2. group'.phase = "log" /\ UNCHANGED <<hasImm, bg, bgError, ver, manifests, db>>
    BY <2>1 DEF BuildBatchGroup
  <2> QED  BY <1>1, <2>2, ClientWork
<1>4. CASE AddRecord \/ AddRecordFails \/ SyncLog \/ SyncFails \/ \E e \in group.todo : Insert(e)
  <2>1. group'.phase # "none" /\ UNCHANGED <<hasImm, bg, bgError, ver, manifests, db>>
    BY <1>4 DEF AddRecord, AddRecordFails, SyncLog, SyncFails, Insert, memVars, IInv, Phase
  <2> QED  BY <1>1, <2>1, ClientWork
<1>5. CASE FinishWrite
  BY <1>1, <1>5, ClientWork DEF FinishWrite
<1> QED  BY <1>2, <1>3, <1>4, <1>5

\* The memtable is switched, and its flush is scheduled.
LEMMA SwitchWork ==
    ASSUME IInv, Flushing, Level0, NEW c \in Clients, SwitchMemTable(c)
    PROVE  Flushing' /\ Level0'
<1>1. /\ ~bgError /\ bgError' = bgError /\ hasImm' = TRUE /\ db = "open"
      /\ bg' = Schedule(bg, FALSE, TRUE, ver.l0)
      /\ UNCHANGED <<group, ver, manifests, db>>
  BY FrontAlone DEF SwitchMemTable, NeedsSwitch, AtFront, Flushing
<1>2. /\ bg'.pc = (IF bg.pc = "idle" THEN "scheduled" ELSE bg.pc)
      /\ bg'.merging = bg.merging /\ bg'.edit = bg.edit
  BY <1>1 DEF Schedule, IInv, Background
<1> QED  BY <1>1, <1>2 DEF Flushing, Level0

\* BackgroundCall takes up a flush, a merge, or nothing.
LEMMA CallWork ==
    ASSUME IInv, Flushing, Level0, BackgroundCall
    PROVE  Flushing' /\ Level0'
<1>1. /\ bg.pc = "scheduled" /\ db = "open"
      /\ UNCHANGED <<group, hasImm, bgError, ver, manifests, db>>
  BY DEF BackgroundCall, IInv, Background
<1>2. /\ Resting.pc = "idle" /\ Resting.merging = FALSE
      /\ bg.merging \in BOOLEAN /\ bgError \in BOOLEAN
  BY DEF Resting, Flushing
<1>3. CASE bgError
  <2>1. bg' = Resting  BY <1>3 DEF BackgroundCall
  <2> QED  BY <1>1, <1>2, <1>3, <2>1 DEF Flushing, Level0
<1>4. CASE ~bgError /\ hasImm
  <2>1. bg'.pc = "table" /\ bg'.merging = bg.merging
    BY <1>4 DEF BackgroundCall, IInv, Background
  <2> QED  BY <1>1, <1>2, <1>4, <2>1 DEF Flushing, Level0
<1>5. CASE ~bgError /\ ~hasImm /\ ver.l0 >= L0Compaction
  <2>1. bg'.pc = "merge" /\ bg'.merging = TRUE
    BY <1>5 DEF BackgroundCall, IInv, Background
  <2>2. ver.l0 >= 1  BY <1>5, TriggerAssumption DEF Level0
  <2>3. manifests = {ver}  BY <1>1, <1>5 DEF Level0
  <2> QED  BY <1>1, <1>2, <1>5, <2>1, <2>2, <2>3 DEF Flushing, Level0
<1>6. CASE ~bgError /\ ~hasImm /\ ~(ver.l0 >= L0Compaction)
  <2>1. bg' = Resting  BY <1>6 DEF BackgroundCall
  <2> QED  BY <1>1, <1>2, <1>6, <2>1 DEF Flushing, Level0
<1> QED  BY <1>3, <1>4, <1>5, <1>6

\* A flush or a merge goes on, or fails.
LEMMA TableWork ==
    ASSUME IInv, Flushing, Level0,
           MergeStopsForImm \/ MergeDone \/ WorkFails \/ \E l0 \in {0, 1} : TableWritten(l0)
    PROVE  Flushing' /\ Level0'
<1>1. /\ UNCHANGED <<group, hasImm, ver, manifests, db>>
      /\ bg.pc # "idle" /\ db = "open"
      /\ bg.merging \in BOOLEAN /\ hasImm \in BOOLEAN /\ bgError \in BOOLEAN
  BY DEF MergeStopsForImm, MergeDone, WorkFails, TableWritten, clientVars, diskVars, IInv,
         Background, Flushing
<1>2. CASE MergeStopsForImm
  <2>1. bg'.pc = "table" /\ bg'.merging = bg.merging /\ bgError' = bgError
    BY <1>2 DEF MergeStopsForImm, IInv, Background
  <2> QED  BY <1>1, <2>1 DEF Flushing, Level0
<1>3. CASE MergeDone
  <2>1. bg' = [pc |-> "edit", merging |-> FALSE, left |-> bg.left, edit |-> Edit({}, ver.log, -1)]
    BY <1>3 DEF MergeDone, IInv, Background
  <2>2. bg'.pc = "edit" /\ bg'.merging = FALSE /\ bg'.edit.l0 = -1 /\ bgError' = bgError /\ bg.merging
    BY <1>3, <2>1 DEF MergeDone, Edit, Level0
  <2> QED  BY <1>1, <2>2 DEF Flushing, Level0
<1>4. ASSUME NEW l0 \in {0, 1}, TableWritten(l0) PROVE Flushing' /\ Level0'
  <2>1. bg' = [pc |-> "edit", merging |-> bg.merging, left |-> bg.left,
               edit |-> Edit(imm, logNum, l0)]
    BY <1>4 DEF TableWritten, IInv, Background
  <2>2. bg'.pc = "edit" /\ bg'.merging = bg.merging /\ bg'.edit.l0 \in {0, 1} /\ bgError' = bgError
    BY <1>4, <2>1 DEF TableWritten, Edit
  <2> QED  BY <1>1, <2>2 DEF Flushing, Level0
<1>5. CASE WorkFails
  <2>1. CASE bg.pc = "table"
    <3>1. bg' = EndOfWork(TRUE, hasImm, ver.l0) /\ bgError' = TRUE
      BY <1>5, <2>1 DEF WorkFails
    <3>2. bg'.pc \in {"idle", "scheduled", "merge"} /\ bg'.merging = bg.merging
          /\ (bg'.pc = "merge" <=> bg.merging)
      <4> PICK m, has, l0, b :
               m \in BOOLEAN /\ m = bg.merging /\ has = hasImm /\ l0 = ver.l0 /\ b = bg'
        BY <1>1
      <4>1. b = EndOfWork(TRUE, has, l0)  BY <3>1
      <4>2. GoneBack(b, m)  BY <4>1, WorkFailed
      <4> QED  BY <4>2 DEF GoneBack
    <3> QED  BY <1>1, <3>1, <3>2 DEF Flushing, Level0
  <2>2. CASE bg.pc # "table"
    <3>1. bg' = Resting /\ bgError' = TRUE  BY <1>5, <2>2 DEF WorkFails
    <3>2. Resting.pc = "idle" /\ Resting.merging = FALSE  BY DEF Resting
    <3> QED  BY <1>1, <3>1, <3>2 DEF Flushing, Level0
  <2> QED  BY <2>1, <2>2
<1> QED  BY <1>2, <1>3, <1>4, <1>5

\* An edit leaves each manifest a number of files of level 0 that is not negative.
LEMMA EditLevel0 ==
    ASSUME Level0, bg.pc = "edit", NEW m \in manifests \cup {ver}, NEW w, w = Apply(m, bg.edit)
    PROVE  w.l0 \in Nat /\ (bg.merging => w.l0 >= 1)
<1>1. w.l0 = m.l0 + bg.edit.l0  BY DEF Apply
<1> QED  BY <1>1 DEF Level0

\* The edit is in the manifest, or perhaps.
LEMMA ApplyWork ==
    ASSUME IInv, Flushing, Level0, LogAndApply \/ ManifestFails
    PROVE  Flushing' /\ Level0'
<1>1. /\ bg.pc = "edit" /\ db = "open" /\ UNCHANGED <<group, db>>
      /\ bg.merging \in BOOLEAN /\ hasImm \in BOOLEAN /\ bgError \in BOOLEAN
  BY DEF LogAndApply, ManifestFails, IInv, Background, Flushing
<1>2. CASE LogAndApply
  <2>1. /\ bgError' = bgError /\ bg' = EndOfWork(bgError, hasImm', ver'.l0)
        /\ hasImm' = (hasImm /\ ~(bg.edit.l0 # -1))
        /\ ver' = Apply(ver, bg.edit) /\ manifests' = {Apply(m, bg.edit) : m \in manifests}
    BY <1>2 DEF LogAndApply
  <2>2. /\ bg'.pc \in {"idle", "scheduled", "merge"} /\ bg'.merging = bg.merging
        /\ bg'.pc = "merge" <=> bg.merging
        /\ hasImm' => bg'.pc # "idle" \/ bgError
    <3>1. PICK has \in BOOLEAN : has = hasImm'  BY <2>1
    <3>2. PICK l0 : l0 = ver'.l0  OBVIOUS
    <3>3. bg' = EndOfWork(bgError, has, l0)  BY <2>1, <3>1, <3>2
    <3> QED  BY <1>1, <3>1, <3>3, WorkEnds
  <2>3. \A w \in manifests' \cup {ver'} : w.l0 \in Nat /\ (bg.merging => w.l0 >= 1)
    BY <1>1, <2>1, EditLevel0
  <2>4. ~bgError' => manifests' = {ver'}  BY <1>1, <2>1 DEF Level0
  <2>5. Flushing'  BY <1>1, <2>1, <2>2 DEF Flushing
  <2>6. Level0'  BY <1>1, <2>2, <2>3, <2>4 DEF Level0
  <2> QED  BY <2>5, <2>6
<1>3. CASE ManifestFails
  <2>1. /\ bgError' = TRUE /\ bg' = EndOfWork(TRUE, hasImm, ver.l0) /\ hasImm' = hasImm
        /\ ver' = ver /\ manifests' = manifests \cup {Apply(m, bg.edit) : m \in manifests}
    BY <1>3 DEF ManifestFails
  <2>2. /\ bg'.pc \in {"idle", "scheduled", "merge"} /\ bg'.merging = bg.merging
        /\ bg'.pc = "merge" <=> bg.merging
    <3> PICK m, has, l0, b :
               m \in BOOLEAN /\ m = bg.merging /\ has = hasImm /\ l0 = ver.l0 /\ b = bg'
        BY <1>1
    <3>1. b = EndOfWork(TRUE, has, l0)  BY <2>1
    <3>2. GoneBack(b, m)  BY <3>1, WorkFailed
    <3> QED  BY <3>2 DEF GoneBack
  <2>3. \A w \in manifests' \cup {ver'} : w.l0 \in Nat /\ (bg.merging => w.l0 >= 1)
    <3>1. \A m \in manifests \cup {ver} : m.l0 \in Nat /\ (bg.merging => m.l0 >= 1)  BY DEF Level0
    <3> QED  BY <1>1, <2>1, <3>1, EditLevel0
  <2>4. Flushing'  BY <1>1, <2>1, <2>2 DEF Flushing
  <2>5. Level0'  BY <1>1, <2>1, <2>2, <2>3 DEF Level0
  <2> QED  BY <2>4, <2>5
<1> QED  BY <1>2, <1>3

\* After a crash nothing is under way.
LEMMA DownWork ==
    ASSUME IInv, Flushing, Level0, NEW found \in Found, Down(found)
    PROVE  Flushing' /\ Level0'
<1>1. /\ db' = "closed" /\ manifests' = {found} /\ ver' = found /\ group' = NoGroup
      /\ hasImm' = FALSE /\ bg' = Resting /\ bgError' = FALSE
  BY DEF Down
<1>2. found.l0 \in Nat
  <2>1. CASE found \in manifests  BY <2>1 DEF Level0
  <2>2. CASE found \notin manifests
    <3>1. bg.pc = "edit" /\ \E w \in manifests : found = Apply(w, bg.edit)  BY <2>2 DEF Found
    <3> QED  BY <3>1, EditLevel0
  <2> QED  BY <2>1, <2>2
<1> QED  BY <1>1, <1>2 DEF Resting, NoGroup, Flushing, Level0

\* A recovery makes a table of level 0 of each log.
LEMMA RecoverWork ==
    ASSUME IInv, Flushing, Level0, NEW lost \in BOOLEAN, NEW new \in ver.next .. nextFile,
           Recover(lost, new)
    PROVE  Flushing' /\ Level0'
<1> DEFINE R == {n \in Replayed(ver) : ReadBack(n, lost) # {}}
<1>1. /\ db = "closed" /\ db' = "opening" /\ ver'.l0 = ver.l0 + Cardinality(R)
      /\ UNCHANGED <<group, hasImm, bgError, bg, manifests>>
  BY DEF Recover, clientVars
<1>2. Cardinality(R) \in Nat
  <2>1. nextFile \in Nat /\ R \in SUBSET Nat /\ \A n \in R : n <= nextFile
    BY DEF IInv, Numbers, Replayed
  <2> HIDE DEF R
  <2> QED  BY <2>1, FS_BoundedSetOfNaturals, FS_CardinalityType
<1>3. bg.pc = "idle"  BY <1>1 DEF IInv, Background
<1>4. ver'.l0 \in Nat
  <2>1. ver.l0 \in Nat  BY DEF Level0
  <2> HIDE DEF R
  <2> QED  BY <1>1, <1>2, <2>1
<1> HIDE DEF R
<1> QED  BY <1>1, <1>3, <1>4 DEF Flushing, Level0

\* The database opens with nothing to flush.
LEMMA OpenWork ==
    ASSUME IInv, Flushing, Level0, Open
    PROVE  Flushing' /\ Level0'
<1>1. /\ db = "opening" /\ db' = "open" /\ manifests' = {ver} /\ ver' = ver
      /\ bg' = Schedule(Resting, FALSE, FALSE, ver.l0)
      /\ UNCHANGED <<group, hasImm, bgError>>
  BY DEF Open, clientVars
<1>2. bg'.pc \in {"idle", "scheduled"} /\ bg'.merging = FALSE
  BY <1>1 DEF Schedule, Resting
<1> QED  BY <1>1, <1>2 DEF Flushing, Level0

\* Every step keeps the types.
LEMMA NextTypes ==
    "tear" \notin Faults /\ IInv /\ Sequences /\ Types /\ [Next]_vars => Types'
<1> SUFFICES ASSUME "tear" \notin Faults, IInv, Sequences, Types, [Next]_vars PROVE Types'
  OBVIOUS
<1>1. Named'  BY NextNamed DEF Types
<1>2. Flushing /\ Level0  BY DEF Types
<1>3. CASE \/ \E c \in Clients, s \in BOOLEAN, null \in BOOLEAN : Write(c, s, null)
           \/ \E c \in Clients : \/ MakeRoomFails(c) \/ Slowdown(c) \/ SlowdownOver(c)
                                 \/ WaitForCompaction(c) \/ SwitchFails(c) \/ NothingToWrite(c)
                                 \/ \E n \in 1 .. Cardinality(Clients) : BuildBatchGroup(c, n)
           \/ AddRecord \/ AddRecordFails \/ SyncLog \/ SyncFails
           \/ (\E e \in group.todo : Insert(e)) \/ FinishWrite
           \/ UNCHANGED vars
  BY <1>1, <1>2, <1>3, ClientSteps DEF Types
<1>4. CASE \E c \in Clients : SwitchMemTable(c)  BY <1>1, <1>2, <1>4, SwitchWork DEF Types
<1>5. CASE BackgroundCall  BY <1>1, <1>2, <1>5, CallWork DEF Types
<1>6. CASE MergeStopsForImm \/ MergeDone \/ WorkFails \/ \E l0 \in {0, 1} : TableWritten(l0)
  BY <1>1, <1>2, <1>6, TableWork DEF Types
<1>7. CASE LogAndApply \/ ManifestFails  BY <1>1, <1>2, <1>7, ApplyWork DEF Types
<1>8. CASE Kill \/ PowerLoss
  BY <1>1, <1>2, <1>8, DownWork DEF Types, Kill, PowerLoss
<1>9. CASE \E lost \in BOOLEAN, new \in ver.next .. nextFile : Recover(lost, new)
  BY <1>1, <1>2, <1>9, RecoverWork DEF Types
<1>10. CASE Open  BY <1>1, <1>2, <1>10, OpenWork DEF Types
<1> QED
  BY <1>3, <1>4, <1>5, <1>6, <1>7, <1>8, <1>9, <1>10 DEF Next

\* The types hold at first.
LEMMA InitTypes == Init => Types
<1> SUFFICES ASSUME Init PROVE Types
  OBVIOUS
<1>1. /\ group = NoGroup /\ mem = {} /\ imm = {} /\ hasImm = FALSE /\ bgError = FALSE
      /\ ver = NewDB /\ bg = Resting /\ logs = [n \in {1} |-> EmptyLog] /\ manifests = {NewDB}
      /\ calls = 0 /\ call = [c \in Clients |-> NoCall] /\ db = "open"
  BY DEF Init
<1>2. Named
  <2>1. \A n \in DOMAIN logs : InLog(logs[n]) = {}  BY <1>1 DEF InLog, EmptyLog
  <2>2. Entries = {}  BY <1>1, <2>1 DEF Entries, NewDB, NoGroup
  <2> QED  BY <1>1, <2>2, CallsAssumption DEF Named, NoCall
<1>3. /\ group.size = 0 /\ bg.pc = "idle" /\ bg.merging = FALSE
      /\ \A m \in manifests \cup {ver} : m.l0 = 0
  BY <1>1 DEF NoGroup, Resting, NewDB
<1>4. Flushing  BY <1>1, <1>3 DEF Flushing
<1>5. Level0
  <2>1. manifests = {ver}  BY <1>1
  <2> QED  BY <1>3, <2>1 DEF Level0
<1> QED  BY <1>2, <1>4, <1>5 DEF Types

\* The invariants of the write path together.
LEMMA AllInvariant ==
    ASSUME "tear" \notin Faults
    PROVE  Spec => [](IInv /\ Sequences /\ Types)
<1>1. Init => IInv /\ Sequences /\ Types  BY InitInv, InitSequences, InitTypes
<1>2. IInv /\ Sequences /\ Types /\ [Next]_vars => (IInv /\ Sequences /\ Types)'
  BY NextInv, NextSequences, NextTypes
<1> QED  BY <1>1, <1>2, PTL DEF Spec

\* Types, and what the parts of the state mean to each other: one client is at the
\* head of the queue and the others sleep, only the head logs, entries are those of
\* calls that were made, imm_ is being made a table until it is gone, and a merge
\* takes no more files from level 0 than there are.
THEOREM WriteTypes ==
    ASSUME "tear" \notin Faults
    PROVE  Spec => []TypeOK
<1>1. IInv /\ Sequences /\ Types => TypeOK
  <2> SUFFICES ASSUME IInv, Sequences, Types PROVE TypeOK
    OBVIOUS
  <2>1. /\ Len(writers) \in Nat /\ DOMAIN writers = 1 .. Len(writers)
    BY DEF IInv, Queue
  <2>2. /\ \A c \in Clients : pc[c] = "idle" <=> \A i \in DOMAIN writers : writers[i] # c
        /\ \A i, j \in DOMAIN writers : writers[i] = writers[j] => i = j
        /\ \A i \in DOMAIN writers : pc[writers[i]] = "asleep" <=> i > 1
    BY <2>1 DEF IInv, Queue
  <2>3. /\ group.phase # "none" <=> \E c \in Clients : pc[c] = "busy"
        /\ group.size <= Len(writers)
    BY <2>1 DEF IInv, Phase, Types, Flushing
  <2>4. acked \cup mem \cup imm \cup ver.ents \subseteq Entries
    <3>1. mem \cup imm \cup ver.ents \subseteq Entries  BY DEF Entries
    <3>2. Recoverable(ver) \subseteq Entries  BY DEF Recoverable, LogsFrom, Entries
    <3>3. db \in {"open", "opening", "closed"}  BY DEF IInv, Numbers
    <3>4. acked \subseteq mem \cup imm \cup ver.ents \cup Recoverable(ver)
      BY <3>3 DEF IInv, Held
    <3> QED  BY <3>1, <3>2, <3>4
  <2>5. \A e \in acked \cup mem \cup imm \cup ver.ents : IsEntry(e)
    <3>1. calls \in 0 .. MaxCalls /\ MaxCalls \in Nat  BY CallsAssumption DEF Types, Named
    <3>2. 1 .. calls \subseteq 1 .. MaxCalls  BY <3>1
    <3> QED  BY <2>4, <3>2 DEF Types, Named, Sequences, Distinct, IsEntry
  <2>6. synced \subseteq acked  BY DEF IInv, Held
  <2>7. db = "open" => logNum \in DOMAIN logs /\ logNum < nextFile /\ ver.log <= logNum
    BY DEF IInv, Numbers, Held
  <2>8. (hasImm => bg.pc # "idle" \/ bgError) /\ ver.l0 >= 0
    BY DEF Types, Flushing, Level0
  <2> QED  BY <2>2, <2>3, <2>5, <2>6, <2>7, <2>8 DEF TypeOK
<1> QED  BY <1>1, AllInvariant, PTL
=============================================================================
