# LandCap, verified

LandCap (`src/LandCapApp/LandCapApp/`) is an iOS app: the user takes a photo,
Firebase's vision service names the landmark on it, Wikipedia describes it, and
the photo is kept with sentences of that description under the user's key in
Firebase's realtime database.  An account may have 100 photos analysed, a guest
10.  This directory holds TLA+ models of the parts whose behaviour is hard to
test, the runs that model-check them, and proofs about them.  The app also links
leveldb, whose whole source is in the repository: its write path, recovery,
tables and compactions are modelled as well.

Paths below are relative to `src/LandCapApp/LandCapApp/`, and `Pods/` is
`src/LandCapApp/Pods/`.

## The system

| Component | State | Operations | Talks to |
|---|---|---|---|
| Photo quota: `Firebase/CapDatabase.swift`, `Controllers/Photo/PhotoController.swift`, `CapUser/CapUser.swift` | the record `users/<key>` {name, isAnonymous, photoLimit, profileUrl, images}; the photo screen's spinner | `setupUser`, `photoLimit`, `getName`, `update(profileUrl:)`; Process, Cancel; detection callbacks | database client; detector |
| Realtime database client: `Pods/FirebaseDatabase` (vendored) | observers and views, write tree, outstanding puts, held-back confirmations, count of unanswered listens | observe once, set, push, ack, disconnect, restore | server; the app's main queue |
| User session and sign-in: `Helpers/Helper.swift`, `AppDelegate.swift`, `Controllers/Page/`, `Controllers/Connection/`, sign-out in `Controllers/Home/` and `Controllers/Profile/` | isSignedIn, isAnonymous, currentUserID, anonymousUserID in UserDefaults; the stacks of screens | sign in, register, Facebook, Skip, sign out, launch, look for the network | Firebase Auth, `setupUser` |
| Image upload and save: `CapDatabase.uploadImage/addNew`, `Controllers/Info/InfoController.swift` | storage objects, `images/<id>` entries, spinner and buttons | upload, success callback, add entry | storage, database |
| Profile gallery: `Controllers/Profile/ProfileController.swift`, deletion in `Controllers/Detail/` | array of images, childAdded observers | appear, observe, reload, delete | database |
| Info selection: `Controllers/Info/InfoCollectionViewDelegate.swift` | chosen sentences by row | tap, join | - |
| Wikipedia text: `Models/InfoModel.swift` | - | request, parse, split into sentences | Wikipedia |
| leveldb, write path and recovery: `Pods/leveldb-library/db/db_impl.cc`, `log_writer.cc`, `log_reader.cc`, `version_set.cc` | queue of writers, memtables, sequence and file numbers, background thread; logs and manifest on disk | Write, group commit, MakeRoomForWrite, flush, LogAndApply, Open | file system; its users' threads |
| leveldb, tables and compaction: `db_impl.cc`, `version_set.cc`, `dbformat.cc` | the files of each level, snapshots, versions in use, a compaction under way | Get, flush, move, merge, GetSnapshot, iterators, DeleteObsoleteFiles | the same |
| Home, camera, detail, views, labels, image helpers | UI | - | UIKit, AVFoundation |

How they interact: a sign-in completion (main queue) sets `User.session` and
calls `setupUser`, whose observer waits for the database; everything afterwards
takes its key from `User.session` (`PhotoController.swift:81-89`,
`InfoController.swift:118`).  Calls into the database client go to its serial
queue; its answers and Firebase Auth's come back as blocks on the main queue,
in any order relative to each other and to the buttons.  UserDefaults outlives
the process; the client's unconfirmed writes do not: disk persistence, the one
user of leveldb (`FirebaseDatabase/.../APLevelDB.mm`, opened by
`FRepo.m:119-122` when `persistenceEnabled`), is never switched on.  leveldb's
users call `Write`, `Get`, `GetSnapshot` and iterators from any thread; one
mutex guards its state, and is released around every write to a file.

What is hard: reads and writes of the limit in separate steps, from several
taps and devices; connections that break with requests under way; completions
that run when the session they were meant for is gone; a process that ends
between the creation of an account and its record; callbacks that never come.
In leveldb: writers that wait for each other and for one background thread;
file operations that fail half-way; a crash between any two of them; merges whose
inputs were chosen before what has happened meanwhile.
`PROJECT.json` lists each such place with its line.

What makes each component correct:

* *Quota*: a photo costs exactly one of the limit; no photo beyond it; a refusal
  only at zero; each request is answered; `setupUser` writes only the first time.
* *Client*: what is set reaches the server once and in order, as far as anyone
  can see; an observer is told a state that was there.
* *Session*: the key in use is that of the user signed in; a guest session has a key;
  the flag that picks the first screen agrees with the screen; who is signed in has
  a record.
* *Gallery*: every stored picture is shown, none that was deleted, none twice; no
  cell reads a row that is gone; the profile picture on screen is the stored one.
* *Info screen and text*: the sentences are the text; no more than five are
  chosen; a cell looks the way its row is.
* *leveldb, durability*: what was acknowledged survives the end of the process,
  what was acknowledged as synced the loss of power; a sequence number means one
  entry; every call returns.
* *leveldb, tables*: a read finds the last write up to its snapshot, whatever was
  flushed, moved, merged or dropped; no file that may be read is deleted.
* *Save* (mostly unreachable, see below): an entry points to its own picture.

## The modules

| Module | Models |
|---|---|
| `UserRecord` | the record reduced to its limit and "has other children", and what a sequence of writes makes of it (FWriteTree's layering) |
| `PhotoQuota` | several devices, each with its client, a connection and a photo screen, and the server's record |
| `QuotaCounter` | the abstract promise: an atomic counter with Grant and Deny |
| `PhotoQuotaAlone` | one device, one read at a time; its refinement mapping to `QuotaCounter` |
| `PhotoQuotaProofs` | theorems about `PhotoQuota` |
| `PhotoQuotaAloneProofs` | the theorem that `PhotoQuotaAlone` implements `QuotaCounter` |
| `UserSession` | User.session, Firebase Auth's current user and requests, the main queue, the screens, the connection screen |
| `UserSessionProofs` | theorems about `UserSession` |
| `ProfileGallery` | the profile screen's grid and picture, the detail screen's deletion, childAdded observers, the main queue, other devices |
| `ProfileGalleryProofs` | theorems about `ProfileGallery` |
| `WikiText` | the split of a text into sentences |
| `InfoScreen` | the Wikipedia answer, a collection view's cells, the choice of sentences, Save and Cancel |
| `InfoScreenProofs` | theorems about `InfoScreen` |
| `LevelWrite` | leveldb's Write, queue of writers, log, memtables, background thread, manifest, crashes and recovery |
| `LevelWriteProofs` | theorems about `LevelWrite` |
| `LevelTables` | operators: tables and levels, the search of Get, the choice of a compaction's files, what a merge keeps and how it cuts its output |
| `LevelFiles` | flushes, moves, merges, snapshots, iterators and file deletion, over `LevelTables` |
| `KeyValueStore` | the abstract promise: a dictionary with snapshots; `LevelFiles` refines it |
| `LevelTablesProofs` | lemmas about the operators of `LevelTables` |
| `LevelFilesProofs` | theorems about the files of `LevelFiles` and what it reads, and that it implements `KeyValueStore` |
| `MCPhotoQuota`, `MCPhotoQuotaAlone`, `MCUserSession`, `MCProfileGallery`, `MCInfoScreen`, `MCLevelFiles` | bounds of the runs |

### PhotoQuota

One record, because every path the code uses is under `users/<key>` and keys do
not interact.  Of the record only `photoLimit` and the existence of another
child matter (`name` and `isAnonymous` are always written with the limit).

*State and code.*  `writes` is `outstandingPuts` and `acked` is `putsToAck`
(`Pods/.../FPersistentConnection.m:93,101`): together they are what the write
tree still lays over the cache.  `unanswered` is `unackedListensCount`.
`waiting`, `loaded`, `cache` are the one view at the record's path; `main` holds
the blocks that FEventRaiser has put on the main queue, each with the snapshot
it was made with.  `up` and `down` are the websocket, each way.

*Operations.*  `observeSingleEvent` is split where the code can be interrupted:
`Observe` when the app calls it, the arrival of the snapshot (`ArrivePush`), and
the callback on the main queue (`Fire`), which removes the observer first and
then runs the app's closure, set included.  Thus `photoLimit` is `Process`, then
`Grant`, `Deny`, `NoAnswer` (no record: no callback) or `BadCast` (a record
without a limit: the forced cast traps), and the detection's answer `Detected`.
`SetupUser`/`SetupCallback` and `GetName`/`GetNameCallback` likewise.
`Reconnect` is `restoreState`: listens first, then every unconfirmed write,
oldest first.  `Drop` is `onDisconnect`, which forgets the callbacks of requests
under way and resets the count of listens but keeps the held-back
confirmations.

*The environment.*  The server handles what comes over one connection in order;
a put is applied, pushed to every connection that listens, the writer's own
included, and then confirmed; a listen is answered with the whole record and
then confirmed.  What a broken connection had not delivered is lost, whether the
server had applied it or not.  A killed process loses all of its device's state.
The detector answers in one of three ways, all of which stop the spinner.

*Left out.*  The hop to Firebase's serial queue (main-thread calls reach it in
order, and nothing the app does meanwhile depends on it); the gallery's listen on
`images` and `update(name:)`, which nothing calls; security rules, which are not
in the repository, and with them writes that the server refuses; transactions and disk persistence, which the app does
not use; what is presented after a detection.

*Constants.*  `Limit`, `Devices`, `Photos`; `Budget` bounds each kind of input
(taps, setups, drops, ...); `Known` starts with a record; `Overlapping = FALSE`
keeps the user from asking before the previous read was answered;
`Withheld = FALSE` keeps a connection from breaking while a confirmation is held
back.  The last two are restrictions of the environment that only the
refinement needs: without the first `quota_two_taps` shows two photos for one, and
with `Withheld = TRUE` a confirmation held back when the connection breaks leaves
a stale limit over newer data, and `CountsExactly` fails.

### UserSession

*State and code.*  `isSignedIn`, `isAnonymous`, `currentUserID` and
`anonymousUserID` are the four properties of `User` (`Helpers/Helper.swift:36-74`).
`auth` is `Auth.auth().currentUser` with the `isEmailVerified` it was last told.
`requests` are Firebase Auth's calls under way, `main` the blocks on the main
queue.  `nav` are the navigation controllers: a sign-out *presents* a new one
(`HomeViewDelegate.swift:18`), while a completion pushes on the one of the page
that asked (`First.level`), which may be covered by then.

*Operations.*  A completion is up to three steps, as in the code: the answer
makes the user Firebase Auth's current user and queues the completion
(`Complete`); the completion sets the session's values and `setupUser`
(`SignedIn`, `Registered`, `VerificationSent`, `Facebook`, `Guest`); its
`DispatchQueue.main.async` block sets `isSignedIn` and pushes
(`EnterAccount`, `EnterGuest`).  Skip and its alert's OK are one step.
Registration ends with a second request, for whoever is the current user then.
`Refuse` is an error, lost answers included: the account of a refused
registration may exist all the same.  `StoreRecord` stands for
PhotoQuota's `SetupUser`, its callback and the put's arrival.  `Kill` ends the
process at any point: UserDefaults, Firebase Auth's keychain, and the servers'
state remain.

*Left out.*  Alerts, texts, `forgotPasswordBtn` (sends an e-mail and changes
nothing); popping from the home screen (its bar is hidden); the database's
rules.

*A history variable.*  No button is ever disabled, so requests may overlap in every
run.  `overlapped` remembers that a button which starts work was used before
the work of the one before was done; nothing reads it but `AccountIsAuth` and
the second half of `SignedInIsShown`, which promise nothing after that.

### ProfileGallery

*State and code.*  `grid` is `userImageObjects`, `observers` the number of
childAdded observers that append to it: `viewWillAppear` empties the array and
adds another one each time, and none is removed.  `known` is the client's copy
of the entries and `removing` the removals laid over it; `Events` makes one
block for each entry new in their difference and each observer, as
`FView.generateEventsForChanges` and `FEventRaiser` do.  `dirty` is a
`reloadData` that UIKit has not laid out; `Layout` then leaves `cellForItemAt`'s
blocks on the main queue, and `RunCells` runs them: a row beyond the array traps.
`fetch`, `uploads`, `shown` and `profileUrl` are the profile picture's part:
`getName` and its download, the picker's upload.

*Operations.*  `ShowProfile` is `viewDidLoad` and `viewWillAppear` of a new
controller; `OpenDetail` and `HandleProfileTap` cover the profile full-screen, so
that `Dismiss`, `DeleteUserImage` and `Choose` bring `viewWillAppear` (`Appear`)
again.  A deletion is seen in this client at once and served later.  Other
devices add entries (`CapDatabase.addNew`; this version never gets there, but
the entries of other versions are in the same database) and delete them.  An
upload that fails, or has no address, tells nobody.

*What is assumed of UIKit*: a modal or a pop lasts longer than the blocks queued
when it begins (`Quiet`); blocks queued during it may still be there at its end.
A controller that was popped goes on filling an array that nobody sees, and is
left out.  *Left out* too: connections that break and the end of the process
(PhotoQuota has both), sign-out from the profile (UserSession), texts and names.

### InfoScreen and WikiText

`rowOf` says which row a cell shows and its `didCellTap` handles, `coloured` which
cells are painted; `ScrollAway` puts a cell back without touching its colour and
`CellForItemAt` uses it again.  `selected` is the dictionary's set of rows (the
text is the row's).  `Answered` is `parse` with its one call back and the split;
`Lost` every way it ends without one; `SetModel` the block on the main queue.  A
text is a sequence of tokens of which some end a sentence; a terminator of
several characters ends one with its first.  White space is left out.

`viewDidLoad` calls `testData`, and `setupModel` is commented out
(`InfoController.swift:41-42`): the text is always that of one page, and
`landmarkName` is nil when `saveHandler` passes it on as a String.  So `Save`
ends the process for an account, and for a guest it is only an alert: nothing
after it (`addNew`, the spinner, the "saved" alert) is reached.

### LevelWrite

*State and code.*  `writers` is `writers_`; `pc` says where a thread is in
`DBImpl::Write` (`front`: at the head and about to look, `delay`: in
`MakeRoomForWrite`'s sleep, `wait`: in `background_work_finished_signal_.Wait`,
`busy`: logging without the mutex, `asleep`: behind others).  `group` is the
batch `BuildBatchGroup` made, with what is left to log, sync and insert.  `mem`,
`imm`, `hasImm`, `lastSeq`, `logNum`, `nextFile`, `bgError` are the members of
those names; `ver` is what `versions_` has installed, `bg` the background
thread's place in `BackgroundCompaction`, `DoCompactionWork` and `LogAndApply`.

*The disk.*  A log is what has been synced (`safe`), the records since
(`rest`), whether a record was torn, and what was written after that one.
`manifests` is the set of contents the manifest may be found to have: one,
unless writing an edit failed and it may or may not be there.  `Kill` leaves the
files; `PowerLoss` leaves what was synced and any of the other records.

*Operations.*  Each disjunct of `Write` under the mutex is an action
(`MakeRoomFails`, `Slowdown`, `WaitForCompaction`, `SwitchMemTable`,
`NothingToWrite`, `BuildBatchGroup`), as are the steps without it (`AddRecord`,
`SyncLog`, `Insert`, with their failures) and the end, `FinishWrite`.  A flush is
`BackgroundCall`, `TableWritten`, `LogAndApply`; a merge is the same with
`MergeDone`, and may stop for an immutable memtable (`MergeStopsForImm`) as
`DoCompactionWork` does before every key.  `Recover` is `DBImpl::Recover` with
`RecoverLogFile` for each log, and `Open` the write of the new manifest; a crash
may come in between.

*Left out.*  Renames and directory entries are durable; a manifest record is not
torn; logs are not reused (`reuse_logs`, off by default); a flush that fails
within a merge is recorded as an error, and what is merged is `LevelFiles`'.
`MergeKeys` bounds how often a merge stops.

### LevelTables and LevelFiles

*State and code.*  An entry is [key, seq, del]; `written` is the history of all,
numbered as `versions_->last_sequence_` numbers them.  `current` maps each level
to its set of files (`versions_->current()`), a file being its number, its
entries and its range (`FileMetaData`).  `disk` is the directory's tables,
`pending` is `pending_outputs_`, `snapshots` and `pins` the snapshots and the
versions of iterators in use, `flush` and `compaction` what the background thread
is in the middle of, with the version and the smallest snapshot it has read.

*Operations.*  A flush is `WriteLevel0Table` (the table is being written,
without the mutex) and `CompactMemTable`, which chooses the level
(`PickLevelForMemTableOutput`) and installs it; a compaction is `PickCompaction`
or `CompactRange`, with `InputsFrom` and `SetupOtherInputs` for its files and the
trivial move done at once, then `WriteOutputs`, which cuts what is kept into
files in every way that sizes of values could, then `InstallCompactionResults`.
Flushes come in between of a merge's steps.  The error paths are
`CompactMemTableFails` and `CompactionFails`.  `Get` is the search through mem, imm and
the levels.

*`GetOverlappingInputs`* on level 0 starts again whenever a file widens the
range; `OverlappingInputs` says what it ends with, the files that every range which
no file reaches beyond must contain.

*Bounds and abstractions.*  `MaxWrites`, `MaxFiles`, `MaxSnapshots`,
`MaxIterators`, `MaxOutputs`, and `Deletable`, the keys that are deleted.  Sizes
are numbers of entries.  `compact_pointer_` is left open (any file of a level that
is too big may be next), as is which file reads have charged
(`SeekCompactions`).  `ManualRequests` are the calls of `TEST_CompactRange`;
Firebase never makes one, and `ldb_files` checks requests for one key.  With a
range that has a gap between files, a table flushed during the merge can land
within the range of the outputs, and the assertion "Must not overlap" of
`Builder::MaybeAddFile` would fail.  `SplitsKeys` says whether a merge may end an output
between two entries of one user key: the code may, and `ldb_split` shows what
follows; `ldb_files` is everything else.

*What is promised* is `KeyValueStore`: a dictionary, and snapshots that keep showing
it as it was.  The mapping takes `dict` and `views` from what `Get` returns.

## The runs

| Run | Question | Bounds |
|---|---|---|
| `quota_two_devices` | is any limit, anywhere, ever less than what was granted leaves; do confirmations match the writes they are for; is an observer that shares a view ever left waiting for an event that could be raised? | 2 devices, limit 2, no record at first, 2 taps, 1 setup, 1 name, 1 drop; 2,578,185 states |
| `quota_alone` | does one careful user see an atomic counter; does a profile picture that was set stay in sight? | 1 device, limit 2, no record at first, 3 taps, 1 setup, 1 profile picture, 2 drops |
| `quota_live` | does every spinner stop and every write arrive; are listens counted right; is a profile picture set over an empty view ever taken for a record without a limit? | 1 device with a record, 2 photos, 2 taps, 1 profile picture, 1 drop, 1 kill, fairness |
| `session` | buttons pressed at any time: has a guest session its key, who is in a record, a home screen in front a session; and for who waits, do session, Firebase Auth and screen agree? | 1 e-mail account, 1 Facebook account, 2 guests; 3 requests, 2 sign-outs, 2 kills, 1 change of the network; 2,754,225 states |
| `gallery` | is no row read that is gone, nothing missed, nothing deleted shown, nothing shown more often than there are observers, the picture on screen the stored one? | 1 entry at first and 1 added, 2 profile screens, 2 modals, 1 deletion elsewhere, 2 profile pictures, 1 failed upload, fairness |
| `info_screen` | are the sentences the text, is the choice bounded, do colours agree with it? | all texts of up to 5 tokens (5 sentences), 2 cells, 2 choices |
| `ldb_write` | is nothing acknowledged lost, is a sequence number one entry's, does every Write return? | 2 threads, 3 calls, 2 crashes (the recovery may be one), memtables of 1 entry, level 0 full at 2 files, every call of the file system may fail, fairness; 230,554 states |
| `ldb_files` | do flushes, moves, merges and drops implement a dictionary with snapshots; is every read right, no file in use deleted? | 2 keys, 3 writes, 4 levels, 5 file numbers, 1 snapshot, 1 iterator, outputs of up to 2 files, failures; 172,511 states |

Runs that show what the code does against its documentation (`findings` in
`PROJECT.json` quotes it):

| Run | Shows |
|---|---|
| `quota_two_taps` | two taps on Process read the same limit: two photos for the last one |
| `quota_setup_late` | a setup has read that there is no record; a profile picture is stored, by the same or another device; the setup then sets the whole record and wipes it |
| `session_account` | a registration is asked for, then Skip lets a guest in; the registration's completion, which runs last, turns the guest session into one of account "None" |
| `ldb_split` | a merge ends an output file between two entries of one user key (a snapshot keeps the older); a later compaction takes the file of the newer entry down alone, and a read finds the older one first |

Further things the models show have no run of their own:

* `saveHandler` traps for every account (`InfoScreen`'s `Save`).
* Without a record `photoLimit` never calls back and the spinner turns for ever
  (`NoAnswer`; `SpinnerMeansWork` holds in `quota_live`, which starts with a record).
* A process that ends before the first record is written leaves a user whom no
  later sign-in sets up (`RecordUnlessLost` needs its exception).
* A profile picture stored before the record makes `photoLimit`'s cast trap
  (`BadCast`, which `quota_alone` reaches; `CastHolds` is checked in `quota_live`,
  whose user has a record).
* A second Skip before the first answer makes a second guest, whose key replaces the
  first one's; what `session` shows is that the new one has a record as well
  (`RecordUnlessLost`).
* Of two requests under way the first answer lets the user in; if they sign out before
  the second, that one signs them in again and pushes its home screen under the
  sign-in page they see.  The account in session need not be Firebase Auth's either
  (`AccountIsAuth` and the second half of `SignedInIsShown` need `~overlapped`).
* From the second appearance on an entry can be in the grid twice:
  `CopiesBounded` cannot be sharpened to one copy.  It takes a new entry from
  another device, or a picker dismissed before the entries had arrived.
* A picture chosen while getName's download or another upload is under way may be
  replaced, on screen or in the database, by the older one (`PictureStored` needs
  `hurried` to be false).
* "No Description", which has no terminator, is offered as no sentence at all.
* The connection screen looks for the network when it loads and when it appears
  (`ConnectionController.swift:18-28`), so it stays when the network is back.
* A log record of which only a part is appended: `EmitPhysicalRecord`
  (`log_writer.cc:99-110`) counts it as whole and only a failed *sync* sets
  `bg_error_`, so later synced writes follow it in the same block, and
  `log::Reader` drops the rest of a block after a bad record
  (`log_reader.cc:253-266`).  With the fault `"tear"` in `Faults`, `LevelWrite`
  violates `Durable`, although `options.h` promises that a synced write
  survives a machine crash.  The run leaves that fault out.

*Why the bounds are enough to be interesting.*  Every hazard of the app needs at most
two devices or two overlapping requests, one broken connection at the wrong
moment and limits of one or two; those of leveldb's write path two threads, three
calls and two crashes, so that a recovery is interrupted and a log outlives
it; those of its tables two keys, one of them deleted, and three versions of a
key on three levels.  The wrong variants in the modules (`GrantTakesTwo`,
`ReconnectNewestFirst`, `ReplayedAfter`, `UnusedByManifest`, `SmallestIsLast`,
`InputsFromOne`, ...) are each found well within the bounds: each property of a
passing run is violated when its variant takes the place of the definition it is
a variant of.  No run checks for deadlock: the bounds end every behaviour.

*Symmetry* is used in `quota_two_devices` (devices, photos) and `session` (guests)
only, which check no temporal property.

*Fairness* (`quota_live`, and of these the first two in `gallery`): the main queue runs its blocks, the server handles
and the network delivers messages, the detector answers (with an error on its
own timeout), and a client without a connection tries again
(`FPersistentConnection.m:328-341`).  Nothing is assumed of the user, and
connections break only `Drops` times, since one that always breaks in time
delivers nothing.  `ldb_write`: the operating system runs every thread that
can go on (`ClientStep`, `LogStep`, `BackgroundStep`); the loops of the
background thread end.  No call need fail and none need succeed: a failure
that ends a step also ends the wait for it.  Nothing is assumed of crashes or of a database
that is not opened again.

## The properties

* `NeverOvercharged`: `record.limit + granted >= Limit`.  A write puts back
  a limit read long ago and may give photos back, but never takes one that was
  not analysed.
* `AllFair` is its inductive form: the same of every limit in a cache, a
  snapshot, a message or an unconfirmed write.
* `CountsExactly`: under the two restrictions and while no process is killed, the record with everything
  unconfirmed laid over it, and the numbers of grants and refusals, implement
  `QuotaCounter`; a Process step stutters, its callback counts.
* `PictureStays`: under the same restrictions a profile picture leaves the device's
  sight by `setupUser` only (that it does is `quota_setup_late`), or with the
  process when the cast traps.
* `CastHolds`: with a record in the database no order of reads, pictures, breaks
  and kills shows `photoLimit` a record without a limit.
* `AcksMatchWrites`, `ListensCounted`: what the client's
  bookkeeping relies on without saying it (confirmations name no write in the
  model; the puts still to serve plus the confirmations to come are exactly the
  unconfirmed writes).
* `WaitingIsBlind`: observers share a view, join it and leave it; one waits only
  while the view has neither the server's record nor a whole one set here.  (With
  the latter an observer is called although the server has not answered.)
* `GuestHasID`, `RecordUnlessLost` and the first half of `SignedInIsShown`, in
  whatever order requests, sign-outs, kills and answers come: a guest session has
  its key; whoever the session names has a record or one on its way, or lost it
  with the process or an answer; a home screen in front is a signed-in one.
  `AccountIsAuth` and the second half of `SignedInIsShown` for who waits.
  `SignedInHasKey` is what `session_account` violates.
* `NoneLostByKill`, `Durable`, `AckedFound`: acknowledged entries against the
  files, for every content the manifest may turn out to have, and against the
  memory; `SeqUnique` looks at failed writes too; `EveryWriteReturns` is the
  queue's and the background thread's liveness.
* `IsKeyValueStore` is the refinement; `NewerFirst` and `LevelsDisjoint` are what
  `Version::Get` takes for granted; `FilesKept` relates the directory to every
  version, iterator, flush and merge; `ReadsRight` says in one state what the
  refinement says of steps, and is what `ldb_split` violates.
* `RowsInRange`, `CopiesBounded`, `NothingMissed`, `DeletedGone`, `AllShown`,
  `PictureStored`: the grid against the client's entries and the main queue.
* `AtMostChosen`, `ColourIsChoice`, `SentencesCoverAnswer`: the choice against
  the cells, the sentences against the text, with the prefix up to its last
  terminator as the reference.

## The proofs

Every safety property that a passing run checks, but `PictureStays`, is also a
theorem, and so are the two refinements.  They
are proved by TLAPS for all values of the constants, from the modules'
assumptions (`LimitAssumption`, `BudgetAssumption`, `UidsAssumption`, ...).
Some need a hypothesis on a constant besides, which the statement of the
theorem names and the run that checks the property meets:

| Hypothesis | Theorems | Without it |
|---|---|---|
| `Known`, or no profile picture is stored | `CastNeverFails` | the cast traps (`BadCast`) |
| `Known` | `SpinnerAlwaysMeansWork` | without a record there is no call back (`NoAnswer`) |
| `"tear" \notin Faults` | all of `LevelWriteProofs` | a torn record hides the synced ones behind it |
| `NeverSplit` | `NoOverlap`, `NoHop`, `ReadsAreRight`, `ImplementsStore` | run `ldb_split` violates `ReadsRight` |
| `Careful` | `AloneCountsExactly` | two devices, taps, a process killed or a confirmation withheld: a photo too many, or a stale limit |

The arguments:

* `PhotoQuotaProofs!TypeCorrect`: `Spec => []TypeOK`, and
  `AlwaysFair`: `Spec => []AllFair`, from which
  `Overcharge`: `Spec => []NeverOvercharged`, for any number of devices.
  `NeverOvercharged` is not inductive: a device writes what it read, so the same must
  hold of everything it can read.  Both theorems are instances of one argument:
  `LimitsIn(Q)` says that every limit anywhere is in Q, and each action keeps it
  if the only new numbers, the full limit and a positive member of Q less one,
  are in Q (after the step).  Q is `Quota` for the first theorem and
  `FairQuota`, which changes with `granted`, for the second: a grant of q - 1
  raises `granted` by one, so q - 1 + granted does not fall.  The lemmas say
  that `Overlay` and `Apply` take their limit from the record or from one of the
  writes, and that queues keep their members' sets.
* `PhotoQuotaProofs!WaitingAlwaysBlind` (`WaitingIsBlind`): inductive with
  `Blind`, that a write of the whole record always has a limit, and that a block
  whose snapshot has none was queued when the view had the server's record.
  `CastNeverFails` (`CastHolds`): `Castable` says that every record and write,
  stored, cached, unconfirmed or on its way, is fit for the cast: with a record
  from the start each has a limit, without pictures none has another child
  only.  `SpinnerAlwaysMeansWork`
  (`SpinnerMeansWork`).  `AcksAlwaysMatch` (`AcksMatchWrites`) and
  `ListensAlwaysCounted` (`ListensCounted`): the invariant is `Sent`, the two of
  them for a connected device, that of a broken connection nothing is left, and
  that the server pushes to connected ones only.  The lemmas say what `Number`
  counts when a queue gains a message at its end or loses one at its head.
* `PhotoQuotaAloneProofs!AloneCountsExactly` (`CountsExactly`): `PhotoQuotaAlone`
  implements `QuotaCounter` for any limit, photos, bounds and number of drops, if the
  user is `Careful`: one device, one read at a time, no process killed and no
  connection lost while a confirmation is held back.  `AloneInv` adds two things
  to `WaitingIsBlind` and to `Sent`.  `Steady` relates the record,
  the writes and the messages to the device: a confirmed write is held back
  only while a listen has no answer; of the writes served, confirmed or about to be,
  the last that names a limit names the stored one (`Settled`), so that serving the
  next one, or freeing confirmed ones, does not change what the writes laid over
  the record show; and each record that is pushed has the limit
  that is stored but for the writes served behind it (`Told`), so that the cache's first
  record has it too.  `Single` says that at most one read is under way and that its
  snapshot has the limit seen, so what is granted is one less than what is left
  now, not what was left once.  Most of the module is about `LimitAfter`,
  `Settled` and `Told` when one of the sequences gains or loses a member.
* `UserSessionProofs!SessionTyped`: `Spec => []TypeOK`, and `GuestAlwaysHasID`:
  `Spec => []GuestHasID`, whatever overlaps.  `GuestHasID` needs that the block
  which enters as a guest is queued only after the key is kept and that nothing
  takes a key away (`GuestEnters`); `GuestKept` is the conjunction.
* `UserSessionProofs!AccountAlwaysAuth` (`AccountIsAuth`) and `SignedInAlwaysShown`
  (`SignedInIsShown`).  The invariant is `overlapped \/ Alone`.  `Alone` says that at
  most one request or block is under way, of the page in front, and that it is about
  the user Firebase Auth has (`UnderWay`); that a profile lies on a home screen, and
  isSignedIn is true on these two only (`Stacked`); that an account in session is
  Firebase Auth's (`AccountFits`).  Since `overlapped` is never taken back, a step that
  leaves it false began without it (`OverlapKept`).  What holds after overlaps too is
  `HomeSigned`: a block that pushes a home screen sets isSignedIn in the same step, and
  a sign-out presents a page over the screen it leaves.
* `UserSessionProofs!RecordAlways` (`RecordUnlessLost`), whatever overlaps.
  `RecordsKept` says that everyone who can sign in is known to the database, is being
  set up, was lost, or is in a registration's block on the main queue; so a sign-in
  which is answered while that block still waits is queued behind it (`InOrder`), and
  when its own block puts the uid into the session the registration's has run
  (`KeysStored`).
* `ProfileGalleryProofs!RowsAlwaysInRange`: `Spec => []RowsInRange`.  The strengthening
  is `RowsKept`: a cell's block that is queued asks for a row the array has, and
  is queued only while the profile is in front, when the array only grows; with
  it goes `ClientTyped`, that the server's messages are about entries there can
  be.  The argument uses the guard `Quiet` of the user's actions: a modal or a
  pop begins when the blocks queued before it have run.
* `ProfileGalleryProofs!PictureAlwaysStored` (`PictureStored`): `PictureKept` says
  that for a user who waits, and whose uploads do not fail, getName's callback
  comes before any upload, a download excludes uploads, and there is at most one
  block of an upload (`OneAtATime`).
* `ProfileGalleryProofs!GalleryTypes` (`TypeOK`), `DeletedAlwaysGone`
  (`DeletedGone`), `NothingEverMissed` (`NothingMissed`) and
  `CopiesAlwaysBounded` (`CopiesBounded`).  Their invariant, `Traced`, follows an
  entry from the server to the grid: `Fresh`, what a message brings is new to the
  client and brought once; `Losses`, of an entry it has that the server has no more
  the message is on its way; `Acked`, a removal is confirmed only behind the
  message that takes the entry away, so that laying the removals over the copy
  never lets a deleted entry through for a moment; `Hidden`, no queued block is for
  a deleted entry nor for the one a detail shows, which could be deleted next;
  `Covered`, on the profile screen every entry in view is in the grid or queued for
  it, or an observer that will be told of all of them is.  What is new in the view has then
  never been in the grid nor on the queue, and each observer is told of it once:
  that is the bound on copies.  `EventsOf` says what the blocks are that `Events`
  makes; `Events` takes the entries by their rank (`Nth`) rather than through a sort,
  of which the provers know nothing.
* `InfoScreenProofs!ChoiceBounded`: `Spec => []AtMostChosen`, with the finiteness
  of the choice; `ColourTrue`: `Spec => []ColourIsChoice`, which needs that no two
  cells show the same row (`Painted`): a tap repaints one cell only.
* `InfoScreenProofs!ScreenTyped` (`TypeOK`) and `SentencesAlwaysCover`
  (`SentencesCoverAnswer`), for extracts of any length.  `Offered` says that the one
  answer is on its way or shown: rows that are gone could be chosen otherwise.
  The text part is `SentencesCover`: terminators are counted from left to right,
  none is left out (`IxsOf`), and the first n sentences are the text up to the n-th
  (`Flattened`).  Induction is by the least place where two functions differ, since the
  provers cannot instantiate the library's induction theorems.

* `LevelWriteProofs!AcknowledgedSurvives` (`NoneLostByKill`), `SyncedSurvives`
  (`Durable`) and `AcknowledgedVisible` (`AckedFound`), for any number of threads,
  calls and crashes, any triggers, and any `Faults` without `"tear"`.  None of
  the three is inductive.  `IInv` adds where an entry is on its way: `Held` says
  that the memtable's entries are in the current log, the immutable one's in logs
  that every manifest without its table still names, the synced ones in synced
  parts; `Logged` how far the group under way has got, and `GroupSync` that whoever
  wants a sync is in a synced group; `Background` what the edit being written
  replaces; `Numbers` that no file number is given out twice and that a manifest's
  log is not beyond the current one; `Queue` and `Phase` that one thread at a time
  is at the head; `NotTorn` is where the assumption on `Faults` is used.
* `LevelWriteProofs!SequenceNumbersUnique` (`SeqUnique`) and `WriteTypes` (`TypeOK`).
  `Sequences` adds that no two entries anywhere share a number (`Distinct`); that a
  manifest's last sequence number covers its tables and the logs it leaves out
  (`Manifested`), so that a recovery goes on from the greatest; and that the group
  under way has the numbers after `last_sequence_`, all other entries lower
  ones (`Fresh`).  `Types` adds that entries are
  those of calls that were made, what the background thread does with the immutable
  memtable, and that a merge takes no more of level 0 than every manifest has there.

* `LevelFilesProofs!NoFileLost` (`FilesKept`) and `FilesTyped` (`TypeOK`), for any
  keys, levels, limits, requests and bounds.  `FilesInv` adds that a flush's number
  belongs to no file anyone refers to and to no output, so that deleting it after a
  failure deletes nothing else, and that `pending` is exactly what is being written.
* `LevelFilesProofs!NoOverlap` (`LevelsDisjoint`), `NoHop` (`NewerFirst`),
  `ReadsAreRight` (`ReadsRight`) and `ImplementsStore` (`IsKeyValueStore`), for any
  keys, levels, limits and bounds under `NeverSplit`: manual requests are for one
  key, and either no output ends between two entries of a user key or there are no
  snapshots.  Without the first a gap is left that a flush can fall into; without
  the second `ldb_split` has the counterexample.  `EntriesInv` is inductive together
  with `FilesInv`:
    - `Ordered`, `Flushed` and `KeysApart`: the levels as reads need them.  Files of a
      level have to be apart by user key, not by internal key, as `LevelsDisjoint` says:
      moves would put an older entry above a newer one otherwise.
    - `Beside`: what a merge's inputs, chosen in an older version, still have to do with
      the files beside them.  A flush in between puts its table below level 0 only where
      no file of that level or above touches it; the inputs are `Solid` (no range of
      keys fits between some of them without touching one), so the table is left or
      right of all of them, and not below a key that had nothing below.
    - `Oldest` and `WrittenOut`: the snapshot the merge goes by is older than all in
      use, and its outputs are what `Kept` says, apart.
    - `Present`: an entry that is in no table is hidden from everyone by a newer
      one, or is a deletion with nothing older left.
  `GetFinds` then says that the search by memtables and levels finds the newest
  entry of all tables, and `TreeAnswers` that this is the newest entry written, or
  that both say the key is deleted.  The refinement follows: a write changes one key,
  no other step changes what is shown.
* `LevelTablesProofs` has the lemmas: least and greatest numbers, the range of a
  table, what `GetOverlappingInputs` and `SetupOtherInputs` choose (`Chosen`), where a
  flush goes, what is dropped and kept, how outputs are cut, and that `Seek` over a
  level, over level 0 and over a version is `Seek` over all their entries.

Model-checked only: the liveness properties (`SpinnerStops`, `WritesConfirmed`,
`AllShown`, `EveryWriteReturns`), which are out of the prover's reach, and
`PictureStays`, which would need for the other children what `Settled` and `Told` say
of the limit.

## Not modelled

* The camera, views, labels and pixel geometry have no state that a property is
  about; the web site is static; Xcode's test templates are empty.
* leveldb's table format, block and table caches, filters, the skip list, `DBIter`,
  `RepairDB`, the C interface and the POSIX environment: byte formats and data
  structures below the operations modelled.
* The other pods are mostly headers of binary frameworks (`GoogleAPIClientForREST`'s
  generated Vision classes, `GTMSessionFetcher`, `Protobuf`'s `GPBDictionary.h`)
  and byte-level decoders (`nanopb`).  They are most of the repository's C and
  Objective-C lines and declare interfaces; there is no behaviour in them to
  model.  The app's own code, which is, is Swift.

## What comes next

1. `LandCapApp`: session and quota composed, the key taken from the session.
2. `ProfileGallery` over a connection that breaks and a process that ends.
3. leveldb's `DBIter` over the merged levels; torn manifest records.
