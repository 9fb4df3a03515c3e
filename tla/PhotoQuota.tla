----------------------------- MODULE PhotoQuota -----------------------------
(***************************************************************************)
(* One user record shared by the devices the user is signed in on, and the *)
(* code that spends its photo limit: CapDatabase.setupUser, photoLimit,    *)
(* getName and update(profileUrl:), PhotoController's Process and Cancel   *)
(* buttons, and under them the Firebase client that CapDatabase calls:     *)
(* observeSingleEvent, setValue, the write tree that overlays unconfirmed  *)
(* writes on what the server said, and the connection that sends every     *)
(* unconfirmed write again when it comes back.                             *)
(*                                                                         *)
(* The server applies what it receives over one connection in order, tells *)
(* every listening connection, then confirms; what a broken connection had *)
(* not yet delivered is lost.                                              *)
(***************************************************************************)
EXTENDS UserRecord, FiniteSets

CONSTANTS
    Devices,
    Photos,       \* photo screens a device can have had
    NoPhoto,
    Budget,       \* bound on each input of the environment
    Known,        \* the record is there from the start
    Overlapping,  \* FALSE: nobody asks before the previous read was answered
    Withheld      \* FALSE: no connection breaks while a confirmation is held back

Inputs == {"setupUser", "photoLimit", "getName", "update", "drop", "kill"}

ASSUME NoPhotoAssumption == NoPhoto \notin Photos
ASSUME BudgetAssumption  == Budget \in [Inputs -> Nat]
ASSUME FlagsAssumption   == {Known, Overlapping, Withheld} \subseteq BOOLEAN

VARIABLES
    record,      \* users/<key> on the server
    listening,   \* the server pushes changes of the record to the device
    linked,      \* the device has a connection
    up, down,    \* messages on the connection, each way
    writes,      \* outstandingPuts: unconfirmed setValues, oldest first
    acked,       \* putsToAck: confirmed, but still laid over the cache
    unanswered,  \* unackedListensCount
    loaded,      \* the open view has the server's record
    cache,       \* and this is it
    waiting,     \* single-event observers that wait for the first snapshot
    main,        \* blocks on the main queue, each with its snapshot
    photo,       \* the PhotoController on screen
    spinning,    \* photo screens whose spinner turns
    detecting,   \* landmark detections under way, by photo
    spent,       \* inputs used up
    granted,     \* callbacks with a positive limit: photos sent to detection
    denied,      \* callbacks with limit 0: "photo limit" alerts
    crashed      \* a forced cast failed

server == <<record, listening>>
wire   == <<linked, up, down>>
client == <<writes, acked, unanswered>>
view   == <<loaded, cache, waiting, main>>
screen == <<photo, spinning, detecting>>
ghosts == <<granted, denied, crashed>>
vars   == <<server, wire, client, view, screen, spent, ghosts>>

Ops == [type : {"setupUser", "getName"}, photo : {NoPhoto}]
           \cup [type : {"photoLimit"}, photo : Photos]
Op(t) == [type |-> t, photo |-> NoPhoto]
PhotoLimit(p) == [type |-> "photoLimit", photo |-> p]

BlockOf(Q) == [op : Ops, snap : RecordOf(Q)]

UpMessageOf(Q) ==
    [type : {"put"}, write : WriteOf(Q)] \cup [type : {"listen", "unlisten"}]
DownMessageOf(Q) ==
    [type : {"push"}, write : WriteOf(Q)] \cup [type : {"listening", "ack"}]

Put(w)  == [type |-> "put", write |-> w]
Push(w) == [type |-> "push", write |-> w]
Msg(t)  == [type |-> t]
Puts(ws) == [i \in DOMAIN ws |-> Put(ws[i])]

\* Every photo limit, stored, cached, in a snapshot or on the way, is in Q.
LimitsIn(Q) ==
    /\ record \in RecordOf(Q)
    /\ up \in [Devices -> Seq(UpMessageOf(Q))]
    /\ down \in [Devices -> Seq(DownMessageOf(Q))]
    /\ writes \in [Devices -> Seq(WriteOf(Q))]
    /\ acked \in [Devices -> Seq(WriteOf(Q))]
    /\ cache \in [Devices -> RecordOf(Q)]
    /\ main \in [Devices -> Seq(BlockOf(Q))]

ControlOK ==
    /\ listening \in [Devices -> BOOLEAN]
    /\ linked \in [Devices -> BOOLEAN]
    /\ unanswered \in [Devices -> Int]
    /\ loaded \in [Devices -> BOOLEAN]
    /\ waiting \in [Devices -> Seq(Ops)]
    /\ photo \in [Devices -> Photos \cup {NoPhoto}]
    /\ spinning \in [Devices -> SUBSET Photos]
    /\ detecting \in [Devices -> [Photos -> Nat]]
    /\ spent \in [Inputs -> Nat]
    /\ granted \in Nat /\ denied \in Nat
    /\ crashed \in BOOLEAN

\* Every limit anywhere is absent or between 0 and the user's limit.
TypeOK == ControlOK /\ LimitsIn(Quota)

Init ==
    /\ record = IF Known THEN [limit |-> Limit, child |-> FALSE] ELSE NoRecord
    /\ listening = [d \in Devices |-> FALSE]
    /\ linked = [d \in Devices |-> TRUE]
    /\ up = [d \in Devices |-> <<>>]
    /\ down = [d \in Devices |-> <<>>]
    /\ writes = [d \in Devices |-> <<>>]
    /\ acked = [d \in Devices |-> <<>>]
    /\ unanswered = [d \in Devices |-> 0]
    /\ loaded = [d \in Devices |-> FALSE]
    /\ cache = [d \in Devices |-> NoRecord]
    /\ waiting = [d \in Devices |-> <<>>]
    /\ main = [d \in Devices |-> <<>>]
    /\ photo = [d \in Devices |-> NoPhoto]
    /\ spinning = [d \in Devices |-> {}]
    /\ detecting = [d \in Devices |-> [p \in Photos |-> 0]]
    /\ spent = [i \in Inputs |-> 0]
    /\ granted = 0 /\ denied = 0
    /\ crashed = FALSE

-----------------------------------------------------------------------------
(* The client library.                                                     *)

ViewOpen(d) == waiting[d] # <<>> \/ main[d] # <<>>
Pending(d)  == acked[d] \o writes[d]

\* A wrong Complete, for which a write below the record is a record.
CompleteWithAnyWrite(d) == loaded[d] \/ Pending(d) # <<>>

\* An event can be raised: the server's record is there, or a whole one set here.
Complete(d) == loaded[d] \/ Touched(Pending(d), {"record"})

\* What the device sees of the record.
Local(d) == Overlay(cache[d], Pending(d))

Send(d, ms) == up' = IF linked[d] THEN [up EXCEPT ![d] = @ \o ms] ELSE up

\* setValue: laid over the cache at once, sent now or when the link is back.
SetValue(d, ws) == writes' = [writes EXCEPT ![d] = @ \o ws]

\* observeSingleEvent: the first observer opens the view and the listen; one
\* that finds a complete view is called with what is there.
Observe(d, op) ==
    /\ IF Complete(d)
       THEN /\ main' = [main EXCEPT ![d] = Append(@, [op |-> op, snap |-> Local(d)])]
            /\ UNCHANGED waiting
       ELSE /\ waiting' = [waiting EXCEPT ![d] = Append(@, op)]
            /\ UNCHANGED main
    /\ IF ViewOpen(d)
       THEN UNCHANGED <<up, unanswered>>
       ELSE /\ Send(d, <<Msg("listen")>>)
            /\ unanswered' = [unanswered EXCEPT ![d] = IF linked[d] THEN @ + 1 ELSE @]
    /\ UNCHANGED <<linked, down, writes, acked, loaded, cache>>

\* The first block of the main queue runs: its observer is removed, the last
\* one closes the view, and then the callback sets the values ws.
Fire(d, ws) ==
    LET closes == Len(main[d]) = 1 /\ waiting[d] = <<>>
        bye    == IF closes THEN <<Msg("unlisten")>> ELSE <<>>
    IN /\ main' = [main EXCEPT ![d] = Tail(@)]
       /\ loaded' = [loaded EXCEPT ![d] = @ /\ ~closes]
       /\ cache' = [cache EXCEPT ![d] = IF closes THEN NoRecord ELSE @]
       /\ SetValue(d, ws)
       /\ Send(d, bye \o Puts(ws))
       /\ UNCHANGED <<linked, down, acked, unanswered, waiting>>

\* The process ends: nothing of the device's state is kept.
Restart(d) ==
    /\ listening' = [listening EXCEPT ![d] = FALSE]
    /\ linked' = [linked EXCEPT ![d] = FALSE]
    /\ up' = [up EXCEPT ![d] = <<>>]
    /\ down' = [down EXCEPT ![d] = <<>>]
    /\ writes' = [writes EXCEPT ![d] = <<>>]
    /\ acked' = [acked EXCEPT ![d] = <<>>]
    /\ unanswered' = [unanswered EXCEPT ![d] = 0]
    /\ loaded' = [loaded EXCEPT ![d] = FALSE]
    /\ cache' = [cache EXCEPT ![d] = NoRecord]
    /\ waiting' = [waiting EXCEPT ![d] = <<>>]
    /\ main' = [main EXCEPT ![d] = <<>>]
    /\ photo' = [photo EXCEPT ![d] = NoPhoto]
    /\ spinning' = [spinning EXCEPT ![d] = {}]
    /\ detecting' = [detecting EXCEPT ![d] = [p \in Photos |-> 0]]
    /\ UNCHANGED <<record, granted, denied>>

-----------------------------------------------------------------------------
(* The operations of CapDatabase and the buttons of PhotoController.       *)

Spend(i) == spent[i] < Budget[i] /\ spent' = [spent EXCEPT ![i] = @ + 1]

Ready(d) == Overlapping \/ ~ViewOpen(d)

SetupUser(d) ==
    /\ Ready(d) /\ Spend("setupUser")
    /\ Observe(d, Op("setupUser"))
    /\ UNCHANGED <<server, screen, ghosts>>

GetName(d) ==
    /\ Ready(d) /\ Spend("getName")
    /\ Observe(d, Op("getName"))
    /\ UNCHANGED <<server, screen, ghosts>>

Update(d) ==
    /\ Spend("update")
    /\ SetValue(d, <<SetChild>>)
    /\ Send(d, <<Put(SetChild)>>)
    /\ UNCHANGED <<server, linked, down, acked, unanswered, view, screen, ghosts>>

\* A request of photo p is with the database or with the detector.
UnderWay(d, p) ==
    \/ \E i \in DOMAIN waiting[d] : waiting[d][i] = PhotoLimit(p)
    \/ \E i \in DOMAIN main[d] : main[d][i].op = PhotoLimit(p)
    \/ detecting[d][p] > 0

OpenPhoto(d, p) ==
    /\ photo[d] = NoPhoto
    /\ p \notin spinning[d] /\ ~UnderWay(d, p)
    /\ photo' = [photo EXCEPT ![d] = p]
    /\ UNCHANGED <<server, wire, client, view, spinning, detecting, spent, ghosts>>

\* The requests of a dismissed screen go on, and keep it alive.
Cancel(d) ==
    /\ photo[d] # NoPhoto
    /\ photo' = [photo EXCEPT ![d] = NoPhoto]
    /\ UNCHANGED <<server, wire, client, view, spinning, detecting, spent, ghosts>>

\* The Process button is never disabled.
Process(d) ==
    /\ photo[d] # NoPhoto
    /\ Ready(d) /\ Spend("photoLimit")
    /\ spinning' = [spinning EXCEPT ![d] = @ \cup {photo[d]}]
    /\ Observe(d, PhotoLimit(photo[d]))
    /\ UNCHANGED <<server, photo, detecting, ghosts>>

-----------------------------------------------------------------------------
(* Callbacks on the main queue.                                            *)

Fires(d, t) == main[d] # <<>> /\ Head(main[d]).op.type = t
Snap(d)  == Head(main[d]).snap
Asked(d) == Head(main[d]).op.photo

SetupCallback(d) ==
    /\ Fires(d, "setupUser")
    /\ Fire(d, IF Snap(d) = NoRecord THEN <<FirstRecord>> ELSE <<>>)
    /\ UNCHANGED <<server, screen, spent, ghosts>>

GetNameCallback(d) ==
    /\ Fires(d, "getName")
    /\ Fire(d, <<>>)
    /\ UNCHANGED <<server, screen, spent, ghosts>>

\* Wrong Grants: one that takes a photo when none is left, and one that takes two.
GrantAtZero(d) ==
    /\ Fires(d, "photoLimit")
    /\ Snap(d).limit >= 0
    /\ Fire(d, <<SetPhotoLimit(Snap(d).limit - 1)>>)
    /\ detecting' = [detecting EXCEPT ![d][Asked(d)] = @ + 1]
    /\ granted' = granted + 1
    /\ UNCHANGED <<server, photo, spinning, spent, denied, crashed>>

GrantTakesTwo(d) ==
    /\ Fires(d, "photoLimit")
    /\ Snap(d).limit > 0
    /\ Fire(d, <<SetPhotoLimit(Snap(d).limit - 2)>>)
    /\ detecting' = [detecting EXCEPT ![d][Asked(d)] = @ + 1]
    /\ granted' = granted + 1
    /\ UNCHANGED <<server, photo, spinning, spent, denied, crashed>>

\* photoLimit takes one and calls back; PhotoController starts a detection.
Grant(d) ==
    /\ Fires(d, "photoLimit")
    /\ Snap(d).limit > 0
    /\ Fire(d, <<SetPhotoLimit(Snap(d).limit - 1)>>)
    /\ detecting' = [detecting EXCEPT ![d][Asked(d)] = @ + 1]
    /\ granted' = granted + 1
    /\ UNCHANGED <<server, photo, spinning, spent, denied, crashed>>

\* A wrong Deny, which leaves the spinner on.
DenySpinning(d) ==
    /\ Fires(d, "photoLimit")
    /\ Snap(d).limit # Missing /\ Snap(d).limit <= 0
    /\ Fire(d, <<>>)
    /\ denied' = denied + 1
    /\ UNCHANGED <<server, screen, spent, granted, crashed>>

Deny(d) ==
    /\ Fires(d, "photoLimit")
    /\ Snap(d).limit # Missing /\ Snap(d).limit <= 0
    /\ Fire(d, <<>>)
    /\ spinning' = [spinning EXCEPT ![d] = @ \ {Asked(d)}]
    /\ denied' = denied + 1
    /\ UNCHANGED <<server, photo, detecting, spent, granted, crashed>>

\* A wrong NoAnswer, for which no record means no photo left.
NoAnswerSetsZero(d) ==
    /\ Fires(d, "photoLimit")
    /\ Snap(d) = NoRecord
    /\ Fire(d, <<SetPhotoLimit(0)>>)
    /\ UNCHANGED <<server, screen, spent, ghosts>>

\* Without a record photoLimit does not call back.
NoAnswer(d) ==
    /\ Fires(d, "photoLimit")
    /\ Snap(d) = NoRecord
    /\ Fire(d, <<>>)
    /\ UNCHANGED <<server, screen, spent, ghosts>>

\* A record without photoLimit fails the forced cast.
BadCast(d) ==
    /\ Fires(d, "photoLimit")
    /\ Snap(d) # NoRecord /\ Snap(d).limit = Missing
    /\ Restart(d)
    /\ crashed' = TRUE
    /\ UNCHANGED spent

\* A wrong Detected, which forgets the spinner.
DetectedSpinning(d, p) ==
    /\ detecting[d][p] > 0
    /\ detecting' = [detecting EXCEPT ![d][p] = @ - 1]
    /\ UNCHANGED <<server, wire, client, view, photo, spinning, spent, ghosts>>

\* An error, no landmark, or landmarks: each stops the spinner.
Detected(d, p) ==
    /\ detecting[d][p] > 0
    /\ detecting' = [detecting EXCEPT ![d][p] = @ - 1]
    /\ spinning' = [spinning EXCEPT ![d] = @ \ {p}]
    /\ UNCHANGED <<server, wire, client, view, photo, spent, ghosts>>

-----------------------------------------------------------------------------
(* The connection and the server.                                          *)

Receives(d, t) == linked[d] /\ up[d] # <<>> /\ Head(up[d]).type = t

ServePut(d) ==
    /\ Receives(d, "put")
    /\ LET w == Head(up[d]).write
       IN /\ record' = Apply(record, w)
          /\ down' = [e \in Devices |->
                        down[e] \o (IF listening[e] THEN <<Push(w)>> ELSE <<>>)
                                \o (IF e = d THEN <<Msg("ack")>> ELSE <<>>)]
    /\ up' = [up EXCEPT ![d] = Tail(@)]
    /\ UNCHANGED <<listening, linked, client, view, screen, spent, ghosts>>

ServeListen(d) ==
    /\ Receives(d, "listen")
    /\ listening' = [listening EXCEPT ![d] = TRUE]
    /\ down' = [down EXCEPT ![d] = @ \o <<Push(WholeRecord(record)), Msg("listening")>>]
    /\ up' = [up EXCEPT ![d] = Tail(@)]
    /\ UNCHANGED <<record, linked, client, view, screen, spent, ghosts>>

ServeUnlisten(d) ==
    /\ Receives(d, "unlisten")
    /\ listening' = [listening EXCEPT ![d] = FALSE]
    /\ up' = [up EXCEPT ![d] = Tail(@)]
    /\ UNCHANGED <<record, linked, down, client, view, screen, spent, ghosts>>

Arrives(d, t) == linked[d] /\ down[d] # <<>> /\ Head(down[d]).type = t

\* A wrong ArrivePush, which calls the oldest observer only.
ArrivePushOldest(d) ==
    /\ Arrives(d, "push")
    /\ down' = [down EXCEPT ![d] = Tail(@)]
    /\ LET w == Head(down[d]).write
           c == Apply(cache[d], w)
       IN IF ViewOpen(d) /\ (loaded[d] \/ w.at = "record")
          THEN /\ cache' = [cache EXCEPT ![d] = c]
               /\ loaded' = [loaded EXCEPT ![d] = TRUE]
               /\ IF waiting[d] = <<>>
                  THEN UNCHANGED <<main, waiting>>
                  ELSE /\ main' = [main EXCEPT ![d] = Append(@,
                                     [op |-> Head(waiting[d]),
                                      snap |-> Overlay(c, Pending(d))])]
                       /\ waiting' = [waiting EXCEPT ![d] = Tail(@)]
          ELSE UNCHANGED view
    /\ UNCHANGED <<server, linked, up, client, screen, spent, ghosts>>

\* Data for an open view; the whole record completes it, and every waiting
\* observer's event goes to the main queue with what is seen now.
ArrivePush(d) ==
    /\ Arrives(d, "push")
    /\ down' = [down EXCEPT ![d] = Tail(@)]
    /\ LET w    == Head(down[d]).write
           c    == Apply(cache[d], w)
           snap == Overlay(c, Pending(d))
       IN IF ViewOpen(d) /\ (loaded[d] \/ w.at = "record")
          THEN /\ cache' = [cache EXCEPT ![d] = c]
               /\ loaded' = [loaded EXCEPT ![d] = TRUE]
               /\ main' = [main EXCEPT ![d] = @ \o
                              [i \in DOMAIN waiting[d] |->
                                 [op |-> waiting[d][i], snap |-> snap]]]
               /\ waiting' = [waiting EXCEPT ![d] = <<>>]
          ELSE UNCHANGED view
    /\ UNCHANGED <<server, linked, up, client, screen, spent, ghosts>>

\* A confirmed write leaves the write tree, but not before the listens sent
\* so far are answered.
ArriveAck(d) ==
    /\ Arrives(d, "ack")
    /\ down' = [down EXCEPT ![d] = Tail(@)]
    /\ IF writes[d] = <<>>
       THEN UNCHANGED <<writes, acked>>
       ELSE /\ writes' = [writes EXCEPT ![d] = Tail(@)]
            /\ acked' = [acked EXCEPT ![d] =
                            IF unanswered[d] = 0 THEN @ ELSE Append(@, Head(writes[d]))]
    /\ UNCHANGED <<server, linked, up, unanswered, view, screen, spent, ghosts>>

ArriveListening(d) ==
    /\ Arrives(d, "listening")
    /\ down' = [down EXCEPT ![d] = Tail(@)]
    /\ unanswered' = [unanswered EXCEPT ![d] = @ - 1]
    /\ acked' = [acked EXCEPT ![d] = IF unanswered[d] = 1 THEN <<>> ELSE @]
    /\ UNCHANGED <<server, linked, up, writes, view, screen, spent, ghosts>>

\* A wrong Drop, which keeps counting the listens of the old connection.
DropCounting(d) ==
    /\ linked[d] /\ Spend("drop")
    /\ Withheld \/ acked[d] = <<>>
    /\ linked' = [linked EXCEPT ![d] = FALSE]
    /\ listening' = [listening EXCEPT ![d] = FALSE]
    /\ up' = [up EXCEPT ![d] = <<>>]
    /\ down' = [down EXCEPT ![d] = <<>>]
    /\ UNCHANGED <<record, writes, acked, unanswered, view, screen, ghosts>>

Drop(d) ==
    /\ linked[d] /\ Spend("drop")
    /\ Withheld \/ acked[d] = <<>>
    /\ linked' = [linked EXCEPT ![d] = FALSE]
    /\ listening' = [listening EXCEPT ![d] = FALSE]
    /\ up' = [up EXCEPT ![d] = <<>>]
    /\ down' = [down EXCEPT ![d] = <<>>]
    /\ unanswered' = [unanswered EXCEPT ![d] = 0]
    /\ UNCHANGED <<record, writes, acked, view, screen, ghosts>>

\* Wrong Reconnects: one sends no write again, one the newest write first.
ReconnectForgetting(d) ==
    /\ ~linked[d]
    /\ linked' = [linked EXCEPT ![d] = TRUE]
    /\ up' = [up EXCEPT ![d] = IF ViewOpen(d) THEN <<Msg("listen")>> ELSE <<>>]
    /\ unanswered' = [unanswered EXCEPT ![d] = IF ViewOpen(d) THEN 1 ELSE 0]
    /\ UNCHANGED <<server, down, writes, acked, view, screen, spent, ghosts>>

ReconnectNewestFirst(d) ==
    LET n == Len(writes[d])
    IN /\ ~linked[d]
       /\ linked' = [linked EXCEPT ![d] = TRUE]
       /\ up' = [up EXCEPT ![d] =
                    (IF ViewOpen(d) THEN <<Msg("listen")>> ELSE <<>>)
                        \o Puts([i \in 1..n |-> writes[d][n + 1 - i]])]
       /\ unanswered' = [unanswered EXCEPT ![d] = IF ViewOpen(d) THEN 1 ELSE 0]
       /\ UNCHANGED <<server, down, writes, acked, view, screen, spent, ghosts>>

\* Listens first, then every unconfirmed write, oldest first.
Reconnect(d) ==
    /\ ~linked[d]
    /\ linked' = [linked EXCEPT ![d] = TRUE]
    /\ up' = [up EXCEPT ![d] =
                 (IF ViewOpen(d) THEN <<Msg("listen")>> ELSE <<>>) \o Puts(writes[d])]
    /\ unanswered' = [unanswered EXCEPT ![d] = IF ViewOpen(d) THEN 1 ELSE 0]
    /\ UNCHANGED <<server, down, writes, acked, view, screen, spent, ghosts>>

Kill(d) ==
    /\ Spend("kill")
    /\ Restart(d)
    /\ UNCHANGED crashed

-----------------------------------------------------------------------------
User(d)     == \/ SetupUser(d) \/ GetName(d) \/ Update(d)
               \/ Process(d) \/ Cancel(d) \/ \E p \in Photos : OpenPhoto(d, p)
Callback(d) == \/ SetupCallback(d) \/ GetNameCallback(d)
               \/ Grant(d) \/ Deny(d) \/ NoAnswer(d) \/ BadCast(d)
Answer(d)   == \E p \in Photos : Detected(d, p)
Serve(d)    == ServePut(d) \/ ServeListen(d) \/ ServeUnlisten(d)
Arrive(d)   == ArrivePush(d) \/ ArriveAck(d) \/ ArriveListening(d)

Next == \E d \in Devices :
    User(d) \/ Callback(d) \/ Answer(d) \/ Serve(d) \/ Arrive(d)
        \/ Drop(d) \/ Reconnect(d) \/ Kill(d)

Spec == Init /\ [][Next]_vars

\* The queues run, the network delivers, the server and the detector answer,
\* and the client reconnects on its own.
Fairness == \A d \in Devices :
    /\ WF_vars(Callback(d)) /\ WF_vars(Serve(d)) /\ WF_vars(Arrive(d))
    /\ WF_vars(Reconnect(d))
    /\ \A p \in Photos : WF_vars(Detected(d, p))

FairSpec == Spec /\ Fairness

-----------------------------------------------------------------------------
(* Properties.                                                             *)

\* A photo sent to detection costs at most one: whatever is sent again, read
\* late or laid over, the stored limit is never below what photoLimit granted.
NeverOvercharged ==
    record.limit # Missing => record.limit + granted >= Limit

\* Its inductive form: so is every limit in a cache, a snapshot or a message.
FairQuota == {q \in Quota : q # Missing => q + granted >= Limit}
AllFair   == ControlOK /\ LimitsIn(FairQuota)

\* No more photos are analysed than the user's limit (CapUser.photoLimit).
GrantedWithinLimit == granted <= Limit

\* The spinner of a photo turns only while a request of it is under way.
SpinnerMeansWork ==
    \A d \in Devices : \A p \in spinning[d] : UnderWay(d, p)

\* The limit read back as an Int is there (as! Int in CapDatabase.photoLimit)
\* when the user had a record first: a profile picture set while the view is
\* empty, killed or cut off, is never taken for the whole record.
CastHolds == ~crashed

\* setupUser is for the first time: it takes no picture or profile away.
SetupKeepsChildren == [][record.child => record'.child]_vars

\* How many of the first n messages, or of all, have one of the types.
Number(ms, types, n) == Cardinality({i \in 1..n : ms[i].type \in types})
Count(ms, types)     == Number(ms, types, Len(ms))

\* Every confirmation on its way is for the oldest unconfirmed write: the
\* puts still to be served and the confirmations are the unconfirmed writes.
AcksMatchWrites ==
    \A d \in Devices : linked[d] =>
        LET acks == Count(down[d], {"ack"})
        IN /\ acks + Count(up[d], {"put"}) = Len(writes[d])
           /\ \A i \in DOMAIN up[d] : up[d][i].type = "put" =>
                  up[d][i].write = writes[d][acks + Number(up[d], {"put"}, i)]

\* The listens still to be answered are those sent and not served, and the
\* answers on their way: the client's count is right (NSAssert in sendListen).
ListensCounted ==
    \A d \in Devices :
        unanswered[d] = Count(up[d], {"listen"}) + Count(down[d], {"listening"})

\* Nobody is left waiting for an event that could be raised: an observer waits
\* only while the view has neither the server's record nor a whole one that was
\* set here, however many observers share it and come and go.
WaitingIsBlind == \A d \in Devices : waiting[d] # <<>> => ~Complete(d)

\* A spinner that turns stops: photoLimit and the detector answer.
SpinnerStops ==
    \A d \in Devices : \A p \in Photos : p \in spinning[d] ~> p \notin spinning[d]

\* What was set reaches the server.
WritesConfirmed == \A d \in Devices : writes[d] # <<>> ~> writes[d] = <<>>
=============================================================================
