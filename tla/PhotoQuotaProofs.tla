-------------------------- MODULE PhotoQuotaProofs --------------------------
(***************************************************************************)
(* Proofs about PhotoQuota, for every set of devices and photos, limit and *)
(* bound: the type invariant; that no photo is charged twice; that an      *)
(* observer waits only while nothing is known of the record; when the      *)
(* forced cast holds; that a spinner means work; and that confirmations    *)
(* and listens are counted right.                                          *)
(***************************************************************************)
EXTENDS PhotoQuota, SequenceTheorems, FiniteSetTheorems, WellFoundedInduction, TLAPS

(***************************************************************************)
(* The operators on records and writes keep limits in a set Q that they    *)
(* were in.                                                                *)
(***************************************************************************)

\* A record with writes laid over it has its limit from one of them.
LEMMA OverlayIn ==
    ASSUME NEW Q, NEW r \in RecordOf(Q), NEW ws \in Seq(WriteOf(Q))
    PROVE  Overlay(r, ws) \in RecordOf(Q)
<1>1. LimitAfter(r, ws) \in Q
  <2> DEFINE P == {"record", "photoLimit"}
  <2>1. CASE Touched(ws, P)
    <3>1. Last(ws, P) \in DOMAIN ws  BY <2>1 DEF Touched, Last
    <3>2. ws[Last(ws, P)] \in WriteOf(Q)  BY <3>1
    <3> QED  BY <2>1, <3>2 DEF LimitAfter, WriteOf
  <2>2. CASE ~Touched(ws, P)
    BY <2>2 DEF LimitAfter, RecordOf
  <2> QED  BY <2>1, <2>2
<1>2. ChildAfter(r, ws) \in BOOLEAN
  <2> DEFINE P == {"record", "child"}
  <2>1. CASE Touched(ws, P)
    <3>1. Last(ws, P) \in DOMAIN ws  BY <2>1 DEF Touched, Last
    <3>2. ws[Last(ws, P)] \in WriteOf(Q)  BY <3>1
    <3> QED  BY <2>1, <3>2 DEF ChildAfter, WriteOf
  <2>2. CASE ~Touched(ws, P)
    BY <2>2 DEF ChildAfter, RecordOf
  <2> QED  BY <2>1, <2>2
<1> QED  BY <1>1, <1>2 DEF Overlay, RecordOf

\* So has the server's record after a put.
LEMMA ApplyIn ==
    ASSUME NEW Q, NEW r \in RecordOf(Q), NEW w \in WriteOf(Q)
    PROVE  Apply(r, w) \in RecordOf(Q)
BY OverlayIn, <<w>> \in Seq(WriteOf(Q)) DEF Apply

\* The writes CapDatabase sets have limits of Q when their numbers are.
LEMMA WritesIn ==
    ASSUME NEW Q, Missing \in Q
    PROVE  /\ NoRecord \in RecordOf(Q)
           /\ SetChild \in WriteOf(Q)
           /\ \A n \in Q : SetPhotoLimit(n) \in WriteOf(Q)
           /\ \A r \in RecordOf(Q) : WholeRecord(r) \in WriteOf(Q)
           /\ Limit \in Q => FirstRecord \in WriteOf(Q)
BY DEF NoRecord, SetChild, SetPhotoLimit, WholeRecord, FirstRecord, RecordOf, WriteOf

\* A message carries the limits of the write in it.
LEMMA MessagesIn ==
    ASSUME NEW Q
    PROVE  /\ \A t \in {"listen", "unlisten"} : Msg(t) \in UpMessageOf(Q)
           /\ \A t \in {"listening", "ack"} : Msg(t) \in DownMessageOf(Q)
           /\ \A w \in WriteOf(Q) : Put(w) \in UpMessageOf(Q) /\ Push(w) \in DownMessageOf(Q)
           /\ \A m \in UpMessageOf(Q) : m.type = "put" => m.write \in WriteOf(Q)
           /\ \A m \in DownMessageOf(Q) : m.type = "push" => m.write \in WriteOf(Q)
BY DEF Msg, Put, Push, UpMessageOf, DownMessageOf

\* The writes sent again on a new connection are messages of Q.
LEMMA PutsIn ==
    ASSUME NEW Q, NEW ws \in Seq(WriteOf(Q))
    PROVE  Puts(ws) \in Seq(UpMessageOf(Q))
BY MessagesIn DEF Puts

\* The events raised for the waiting observers carry the snapshot's limit.
LEMMA BlocksIn ==
    ASSUME NEW Q, NEW b \in BlockOf(Q)
    PROVE  /\ b.op \in Ops /\ b.snap \in RecordOf(Q)
           /\ b.snap.limit \in Q
BY DEF BlockOf, RecordOf

-----------------------------------------------------------------------------
(***************************************************************************)
(* LimitsIn(Q) in the next state, Q being a set of the present one.        *)
(***************************************************************************)

StillIn(Q) ==
    /\ record' \in RecordOf(Q)
    /\ up' \in [Devices -> Seq(UpMessageOf(Q))]
    /\ down' \in [Devices -> Seq(DownMessageOf(Q))]
    /\ writes' \in [Devices -> Seq(WriteOf(Q))]
    /\ acked' \in [Devices -> Seq(WriteOf(Q))]
    /\ cache' \in [Devices -> RecordOf(Q)]
    /\ main' \in [Devices -> Seq(BlockOf(Q))]

\* A larger set keeps the limits.
LEMMA Larger ==
    ASSUME NEW Q, NEW R, Q \subseteq R, LimitsIn(Q)
    PROVE  LimitsIn(R)
<1>1. /\ RecordOf(Q) \subseteq RecordOf(R)
      /\ WriteOf(Q) \subseteq WriteOf(R)
  BY DEF RecordOf, WriteOf
<1>2. /\ UpMessageOf(Q) \subseteq UpMessageOf(R)
      /\ DownMessageOf(Q) \subseteq DownMessageOf(R)
      /\ BlockOf(Q) \subseteq BlockOf(R)
  BY <1>1 DEF UpMessageOf, DownMessageOf, BlockOf
<1>3. /\ Seq(UpMessageOf(Q)) \subseteq Seq(UpMessageOf(R))
      /\ Seq(DownMessageOf(Q)) \subseteq Seq(DownMessageOf(R))
      /\ Seq(WriteOf(Q)) \subseteq Seq(WriteOf(R))
      /\ Seq(BlockOf(Q)) \subseteq Seq(BlockOf(R))
  BY <1>1, <1>2, SeqMonotonic
<1> QED  BY <1>1, <1>3 DEF LimitsIn

\* The local view is built from the cache and the writes laid over it.
LEMMA LocalIn ==
    ASSUME NEW Q, LimitsIn(Q), NEW d \in Devices
    PROVE  /\ Pending(d) \in Seq(WriteOf(Q))
           /\ Local(d) \in RecordOf(Q)
           /\ \A c \in RecordOf(Q) : Overlay(c, Pending(d)) \in RecordOf(Q)
<1>1. acked[d] \in Seq(WriteOf(Q)) /\ writes[d] \in Seq(WriteOf(Q)) /\ cache[d] \in RecordOf(Q)
  BY DEF LimitsIn
<1>2. Pending(d) \in Seq(WriteOf(Q))
  BY <1>1, ConcatProperties DEF Pending
<1> QED  BY <1>1, <1>2, OverlayIn DEF Local

\* Sending to the server keeps the limits in Q.
LEMMA SendIn ==
    ASSUME NEW Q, LimitsIn(Q), NEW d \in Devices,
           NEW ms \in Seq(UpMessageOf(Q)), Send(d, ms)
    PROVE  up' \in [Devices -> Seq(UpMessageOf(Q))]
<1>1. up[d] \o ms \in Seq(UpMessageOf(Q))
  BY ConcatProperties DEF LimitsIn
<1> QED  BY <1>1 DEF Send, LimitsIn

\* setValue keeps the limits in Q.
LEMMA SetValueIn ==
    ASSUME NEW Q, LimitsIn(Q), NEW d \in Devices,
           NEW ws \in Seq(WriteOf(Q)), SetValue(d, ws)
    PROVE  writes' \in [Devices -> Seq(WriteOf(Q))]
<1>1. writes[d] \o ws \in Seq(WriteOf(Q))
  BY ConcatProperties DEF LimitsIn
<1> QED  BY <1>1 DEF SetValue, LimitsIn

\* observeSingleEvent hands on no limit but those it finds.
LEMMA ObserveIn ==
    ASSUME NEW Q, LimitsIn(Q), NEW d \in Devices, NEW op \in Ops,
           Observe(d, op), UNCHANGED server
    PROVE  StillIn(Q)
<1>1. [op |-> op, snap |-> Local(d)] \in BlockOf(Q)
  BY LocalIn DEF BlockOf
<1>2. main' \in [Devices -> Seq(BlockOf(Q))]
  <2>1. Append(main[d], [op |-> op, snap |-> Local(d)]) \in Seq(BlockOf(Q))
    BY <1>1 DEF LimitsIn
  <2> QED  BY <2>1 DEF Observe, LimitsIn
<1>3. up' \in [Devices -> Seq(UpMessageOf(Q))]
  <2>1. CASE ViewOpen(d)
    BY <2>1 DEF Observe, LimitsIn
  <2>2. CASE ~ViewOpen(d)
    <3>1. <<Msg("listen")>> \in Seq(UpMessageOf(Q))
      BY MessagesIn
    <3> QED  BY <2>2, <3>1, SendIn DEF Observe
  <2> QED  BY <2>1, <2>2
<1> QED  BY <1>2, <1>3 DEF Observe, LimitsIn, StillIn, server

\* A callback may set values of a larger set of limits.
LEMMA FireIn ==
    ASSUME NEW Q, Missing \in Q, LimitsIn(Q), NEW d \in Devices, main[d] # <<>>,
           NEW ws \in Seq(WriteOf(Q)), Fire(d, ws), UNCHANGED server
    PROVE  StillIn(Q)
<1>1. main' \in [Devices -> Seq(BlockOf(Q))]
  <2>1. Tail(main[d]) \in Seq(BlockOf(Q))
    BY HeadTailProperties DEF LimitsIn
  <2> QED  BY <2>1 DEF Fire, LimitsIn
<1>2. cache' \in [Devices -> RecordOf(Q)]
  BY WritesIn DEF Fire, LimitsIn
<1>3. writes' \in [Devices -> Seq(WriteOf(Q))]
  BY SetValueIn DEF Fire
<1>4. up' \in [Devices -> Seq(UpMessageOf(Q))]
  <2> DEFINE bye == IF Len(main[d]) = 1 /\ waiting[d] = <<>>
                    THEN <<Msg("unlisten")>> ELSE <<>>
  <2>1. bye \in Seq(UpMessageOf(Q))
    BY MessagesIn
  <2>2. bye \o Puts(ws) \in Seq(UpMessageOf(Q))
    BY <2>1, PutsIn, ConcatProperties
  <2>3. Send(d, bye \o Puts(ws))
    BY DEF Fire
  <2> QED  BY <2>2, <2>3, SendIn
<1> QED  BY <1>1, <1>2, <1>3, <1>4 DEF Fire, LimitsIn, StillIn, server

\* A new process has no limit at all.
LEMMA RestartIn ==
    ASSUME NEW Q, Missing \in Q, LimitsIn(Q), NEW d \in Devices, Restart(d)
    PROVE  StillIn(Q)
BY WritesIn DEF Restart, LimitsIn, StillIn

\* The server stores and pushes only limits it was sent or had.
LEMMA ServeIn ==
    ASSUME NEW Q, LimitsIn(Q), NEW d \in Devices, Serve(d)
    PROVE  StillIn(Q)
<1>1. up[d] # <<>> /\ up' = [up EXCEPT ![d] = Tail(@)]
  BY DEF Serve, ServePut, ServeListen, ServeUnlisten, Receives
<1>2. up' \in [Devices -> Seq(UpMessageOf(Q))]
  <2>1. Tail(up[d]) \in Seq(UpMessageOf(Q))
    BY <1>1, HeadTailProperties DEF LimitsIn
  <2> QED  BY <1>1, <2>1 DEF LimitsIn
<1>3. CASE ServePut(d)
  <2> DEFINE w == Head(up[d]).write
  <2>1. w \in WriteOf(Q)
    <3>1. Head(up[d]) \in UpMessageOf(Q) /\ Head(up[d]).type = "put"
      BY <1>1, <1>3, HeadTailProperties DEF LimitsIn, ServePut, Receives
    <3> QED  BY <3>1, MessagesIn
  <2>2. record' \in RecordOf(Q)
    BY <1>3, <2>1, ApplyIn DEF ServePut, LimitsIn
  <2>3. down' \in [Devices -> Seq(DownMessageOf(Q))]
    <3> DEFINE push(e) == IF listening[e] THEN <<Push(w)>> ELSE <<>>
               ack(e)  == IF e = d THEN <<Msg("ack")>> ELSE <<>>
    <3>1. ASSUME NEW e \in Devices
          PROVE  down[e] \o push(e) \o ack(e) \in Seq(DownMessageOf(Q))
      <4>1. push(e) \in Seq(DownMessageOf(Q)) /\ ack(e) \in Seq(DownMessageOf(Q))
        BY <2>1, MessagesIn
      <4>2. down[e] \in Seq(DownMessageOf(Q))
        BY DEF LimitsIn
      <4> HIDE DEF push, ack
      <4> QED  BY <4>1, <4>2, ConcatProperties
    <3>2. down' = [e \in Devices |-> down[e] \o push(e) \o ack(e)]
      BY <1>3 DEF ServePut
    <3> HIDE DEF push, ack
    <3> QED  BY <3>1, <3>2
  <2> QED  BY <1>2, <1>3, <2>2, <2>3 DEF ServePut, LimitsIn, StillIn, client, view
<1>4. CASE ServeListen(d)
  <2> DEFINE ms == <<Push(WholeRecord(record)), Msg("listening")>>
  <2>1. WholeRecord(record) \in WriteOf(Q)
    BY DEF LimitsIn, WholeRecord, RecordOf, WriteOf
  <2>2. ms \in Seq(DownMessageOf(Q))
    BY <2>1, MessagesIn
  <2>3. down[d] \o ms \in Seq(DownMessageOf(Q))
    BY <2>2, ConcatProperties DEF LimitsIn
  <2> QED  BY <1>2, <1>4, <2>3 DEF ServeListen, LimitsIn, StillIn, client, view
<1>5. CASE ServeUnlisten(d)
  BY <1>2, <1>5 DEF ServeUnlisten, LimitsIn, StillIn, client, view
<1> QED  BY <1>3, <1>4, <1>5 DEF Serve

\* A client caches, confirms and hands on only limits it was sent or had.
LEMMA ArriveIn ==
    ASSUME NEW Q, LimitsIn(Q), ControlOK, NEW d \in Devices, Arrive(d)
    PROVE  StillIn(Q)
<1>1. down[d] # <<>> /\ down' = [down EXCEPT ![d] = Tail(@)]
  BY DEF Arrive, ArrivePush, ArriveAck, ArriveListening, Arrives
<1>2. down' \in [Devices -> Seq(DownMessageOf(Q))]
  <2>1. Tail(down[d]) \in Seq(DownMessageOf(Q))
    BY <1>1, HeadTailProperties DEF LimitsIn
  <2> QED  BY <1>1, <2>1 DEF LimitsIn
<1>3. CASE ArrivePush(d)
  <2> DEFINE w      == Head(down[d]).write
             c      == Apply(cache[d], w)
             snap   == Overlay(c, Pending(d))
             blocks == [i \in DOMAIN waiting[d] |->
                          [op |-> waiting[d][i], snap |-> snap]]
  <2>1. w \in WriteOf(Q)
    <3>1. Head(down[d]) \in DownMessageOf(Q) /\ Head(down[d]).type = "push"
      BY <1>1, <1>3, HeadTailProperties DEF LimitsIn, ArrivePush, Arrives
    <3> QED  BY <3>1, MessagesIn
  <2>2. c \in RecordOf(Q)
    BY <2>1, ApplyIn DEF LimitsIn
  <2>3. snap \in RecordOf(Q)
    BY <2>2, LocalIn
  <2>4. main[d] \o blocks \in Seq(BlockOf(Q))
    <3>1. waiting[d] \in Seq(Ops)
      BY DEF ControlOK
    <3> HIDE DEF snap
    <3>2. ASSUME NEW i \in DOMAIN waiting[d]
          PROVE  [op |-> waiting[d][i], snap |-> snap] \in BlockOf(Q)
      BY <2>3, <3>1 DEF BlockOf
    <3>3. blocks \in [1..Len(waiting[d]) -> BlockOf(Q)] /\ Len(waiting[d]) \in Nat
      BY <3>1, <3>2
    <3>4. blocks \in Seq(BlockOf(Q))
      <4> PICK n, B : n = Len(waiting[d]) /\ B = BlockOf(Q)  OBVIOUS
      <4> HIDE DEF blocks
      <4>1. n \in Nat /\ blocks \in [1..n -> B]  BY <3>3
      <4>2. blocks \in Seq(B)  BY ONLY <4>1
      <4> QED  BY <4>2
    <3> HIDE DEF blocks
    <3> QED  BY <3>4, ConcatProperties DEF LimitsIn
  <2>5. \/ /\ cache' = [cache EXCEPT ![d] = c]
           /\ main' = [main EXCEPT ![d] = @ \o blocks]
        \/ UNCHANGED <<cache, main>>
    BY <1>3 DEF ArrivePush, view
  <2> HIDE DEF blocks, c
  <2>6. cache' \in [Devices -> RecordOf(Q)]
    BY <2>2, <2>5 DEF LimitsIn
  <2>7. main' \in [Devices -> Seq(BlockOf(Q))]
    BY <2>4, <2>5 DEF LimitsIn
  <2> QED  BY <1>2, <1>3, <2>6, <2>7 DEF ArrivePush, LimitsIn, StillIn, server, client
<1>4. CASE ArriveAck(d)
  <2>1. CASE writes[d] = <<>>
    BY <1>2, <1>4, <2>1 DEF ArriveAck, LimitsIn, StillIn, server, view
  <2>2. CASE writes[d] # <<>>
    <3>1. Tail(writes[d]) \in Seq(WriteOf(Q)) /\ Head(writes[d]) \in WriteOf(Q)
      BY <2>2, HeadTailProperties DEF LimitsIn
    <3>2. Append(acked[d], Head(writes[d])) \in Seq(WriteOf(Q))
      BY <3>1 DEF LimitsIn
    <3>3. writes' \in [Devices -> Seq(WriteOf(Q))]
      BY <1>4, <2>2, <3>1 DEF ArriveAck, LimitsIn
    <3>4. acked' \in [Devices -> Seq(WriteOf(Q))]
      BY <1>4, <2>2, <3>2 DEF ArriveAck, LimitsIn
    <3> QED  BY <1>2, <1>4, <3>3, <3>4 DEF ArriveAck, LimitsIn, StillIn, server, view
  <2> QED  BY <2>1, <2>2
<1>5. CASE ArriveListening(d)
  BY <1>2, <1>5 DEF ArriveListening, LimitsIn, StillIn, server, view
<1> QED  BY <1>3, <1>4, <1>5 DEF Arrive

\* A broken or restored connection brings no new limit.
LEMMA LinkIn ==
    ASSUME NEW Q, Missing \in Q, LimitsIn(Q), NEW d \in Devices,
           Drop(d) \/ Reconnect(d) \/ Kill(d)
    PROVE  StillIn(Q)
<1>1. CASE Drop(d)
  BY <1>1 DEF Drop, LimitsIn, StillIn, view
<1>2. CASE Reconnect(d)
  <2> DEFINE ms == IF ViewOpen(d) THEN <<Msg("listen")>> ELSE <<>>
  <2>1. ms \in Seq(UpMessageOf(Q)) /\ Puts(writes[d]) \in Seq(UpMessageOf(Q))
    BY MessagesIn, PutsIn DEF LimitsIn
  <2>2. up' = [up EXCEPT ![d] = ms \o Puts(writes[d])]
    BY <1>2 DEF Reconnect
  <2> HIDE DEF ms
  <2>3. ms \o Puts(writes[d]) \in Seq(UpMessageOf(Q))
    BY <2>1, ConcatProperties
  <2>4. up' \in [Devices -> Seq(UpMessageOf(Q))]
    BY <2>2, <2>3 DEF LimitsIn
  <2> QED  BY <1>2, <2>4 DEF Reconnect, LimitsIn, StillIn, server, view
<1>3. CASE Kill(d)
  BY <1>3, RestartIn DEF Kill
<1> QED  BY <1>1, <1>2, <1>3

\* No tap makes a limit.
LEMMA UserIn ==
    ASSUME NEW Q, Missing \in Q, LimitsIn(Q), ControlOK, NEW d \in Devices, User(d)
    PROVE  StillIn(Q)
<1>1. CASE SetupUser(d) \/ GetName(d)
  BY <1>1, ObserveIn DEF SetupUser, GetName, Op, Ops
<1>2. CASE Process(d)
  <2>1. PhotoLimit(photo[d]) \in Ops
    BY <1>2 DEF Process, ControlOK, PhotoLimit, Ops
  <2> QED  BY <1>2, <2>1, ObserveIn DEF Process
<1>3. CASE Update(d)
  <2>1. <<SetChild>> \in Seq(WriteOf(Q)) /\ <<Put(SetChild)>> \in Seq(UpMessageOf(Q))
    BY WritesIn, MessagesIn
  <2>2. writes' \in [Devices -> Seq(WriteOf(Q))]
    BY <1>3, <2>1, SetValueIn DEF Update
  <2>3. up' \in [Devices -> Seq(UpMessageOf(Q))]
    BY <1>3, <2>1, SendIn DEF Update
  <2> QED  BY <1>3, <2>2, <2>3 DEF Update, LimitsIn, StillIn, server, view
<1>4. CASE Cancel(d) \/ \E p \in Photos : OpenPhoto(d, p)
  BY <1>4 DEF Cancel, OpenPhoto, LimitsIn, StillIn, server, wire, client, view
<1> QED  BY <1>1, <1>2, <1>3, <1>4 DEF User

\* Every callback but Grant.
LEMMA CallbackIn ==
    ASSUME NEW Q, {Missing, Limit} \subseteq Q, LimitsIn(Q), NEW d \in Devices,
           \/ SetupCallback(d) \/ GetNameCallback(d)
           \/ Deny(d) \/ NoAnswer(d) \/ BadCast(d)
    PROVE  StillIn(Q)
<1>1. <<>> \in Seq(WriteOf(Q)) /\ <<FirstRecord>> \in Seq(WriteOf(Q))
  BY WritesIn
<1>2. CASE SetupCallback(d)
  BY <1>1, <1>2, FireIn DEF SetupCallback, Fires
<1>3. CASE GetNameCallback(d) \/ Deny(d) \/ NoAnswer(d)
  BY <1>1, <1>3, FireIn DEF GetNameCallback, Deny, NoAnswer, Fires
<1>4. CASE BadCast(d)
  BY <1>4, RestartIn DEF BadCast
<1> QED  BY <1>2, <1>3, <1>4

\* Grant writes one less: enough that the larger set R has it.
LEMMA GrantIn ==
    ASSUME NEW Q, NEW R, Q \subseteq R, Missing \in Q, LimitsIn(Q),
           \A n \in Q : n > 0 => n - 1 \in R,
           NEW d \in Devices, Grant(d)
    PROVE  StillIn(R)
<1>1. LimitsIn(R)
  BY Larger
<1>2. main[d] # <<>> /\ Head(main[d]) \in BlockOf(Q)
  BY HeadTailProperties DEF Grant, Fires, LimitsIn
<1>3. Snap(d).limit - 1 \in R
  BY <1>2, BlocksIn DEF Grant, Snap
<1>4. <<SetPhotoLimit(Snap(d).limit - 1)>> \in Seq(WriteOf(R))
  BY <1>3, WritesIn
<1> QED  BY <1>1, <1>2, <1>4, FireIn DEF Grant

-----------------------------------------------------------------------------
(***************************************************************************)
(* The control state.                                                      *)
(***************************************************************************)

\* The bounds keep their type.
LEMMA SpendOK ==
    ASSUME ControlOK, NEW i \in Inputs, Spend(i)
    PROVE  spent' \in [Inputs -> Nat]
BY DEF ControlOK, Spend

\* observeSingleEvent keeps the control state's type.
LEMMA ObserveOK ==
    ASSUME ControlOK, NEW d \in Devices, NEW op \in Ops, Observe(d, op)
    PROVE  /\ unanswered' \in [Devices -> Int]
           /\ waiting' \in [Devices -> Seq(Ops)]
           /\ UNCHANGED <<linked, loaded>>
<1>1. waiting' \in [Devices -> Seq(Ops)]
  <2>1. Append(waiting[d], op) \in Seq(Ops)
    BY DEF ControlOK
  <2> QED  BY <2>1 DEF ControlOK, Observe
<1>2. unanswered' \in [Devices -> Int]
  <2>1. (IF linked[d] THEN unanswered[d] + 1 ELSE unanswered[d]) \in Int
    BY DEF ControlOK
  <2> QED  BY <2>1 DEF ControlOK, Observe
<1> QED  BY <1>1, <1>2 DEF Observe

\* A block of the main queue keeps the client's control state typed.
LEMMA FireOK ==
    ASSUME ControlOK, NEW d \in Devices, NEW ws, Fire(d, ws)
    PROVE  /\ loaded' \in [Devices -> BOOLEAN]
           /\ UNCHANGED <<linked, unanswered, waiting>>
BY DEF ControlOK, Fire

\* A new process's control state is typed.
LEMMA RestartOK ==
    ASSUME ControlOK, NEW d \in Devices, Restart(d),
           spent' \in [Inputs -> Nat], crashed' \in BOOLEAN
    PROVE  ControlOK'
BY DEF ControlOK, Restart

\* Every user action keeps the control state's type.
LEMMA UserOK ==
    ASSUME ControlOK, NEW d \in Devices, User(d)
    PROVE  ControlOK'
<1>1. CASE SetupUser(d) \/ GetName(d)
  <2>1. Op("setupUser") \in Ops /\ Op("getName") \in Ops
    BY DEF Op, Ops
  <2> QED  BY <1>1, <2>1, ObserveOK, SpendOK
           DEF SetupUser, GetName, Inputs, ControlOK, server, screen, ghosts
<1>2. CASE Process(d)
  <2>1. PhotoLimit(photo[d]) \in Ops
    BY <1>2 DEF Process, ControlOK, PhotoLimit, Ops
  <2> QED  BY <1>2, <2>1, ObserveOK, SpendOK
           DEF Process, Inputs, ControlOK, server, ghosts
<1>3. CASE Update(d)
  BY <1>3, SpendOK DEF Update, Inputs, ControlOK, server, view, screen, ghosts
<1>4. CASE Cancel(d)
  BY <1>4 DEF Cancel, ControlOK, server, wire, client, view, ghosts
<1>5. ASSUME NEW p \in Photos, OpenPhoto(d, p)  PROVE ControlOK'
  BY <1>5 DEF OpenPhoto, ControlOK, server, wire, client, view, ghosts
<1> QED  BY <1>1, <1>2, <1>3, <1>4, <1>5 DEF User

\* Every callback keeps the control state's type.
LEMMA CallbackOK ==
    ASSUME ControlOK, LimitsIn(Quota), NEW d \in Devices, Callback(d)
    PROVE  ControlOK'
<1>1. main[d] # <<>> /\ Head(main[d]).op \in Ops
  BY HeadTailProperties, BlocksIn
     DEF Callback, SetupCallback, GetNameCallback, Grant, Deny, NoAnswer, BadCast,
         Fires, LimitsIn
<1>2. CASE SetupCallback(d) \/ GetNameCallback(d) \/ NoAnswer(d)
  BY <1>2, FireOK DEF SetupCallback, GetNameCallback, NoAnswer, ControlOK, server, screen, ghosts
<1>3. CASE Grant(d)
  <2>1. Asked(d) \in Photos
    BY <1>1, <1>3 DEF Grant, Fires, Asked, Ops
  <2> QED  BY <1>3, <2>1, FireOK DEF Grant, ControlOK, server
<1>4. CASE Deny(d)
  BY <1>4, FireOK DEF Deny, ControlOK, server
<1>5. CASE BadCast(d)
  BY <1>5, RestartOK DEF BadCast, ControlOK
<1> QED  BY <1>2, <1>3, <1>4, <1>5 DEF Callback

\* So do the detector, the server, the network and the end of the process.
LEMMA OtherOK ==
    ASSUME ControlOK, NEW d \in Devices,
           Answer(d) \/ Serve(d) \/ Arrive(d) \/ Drop(d) \/ Reconnect(d) \/ Kill(d)
    PROVE  ControlOK'
<1>1. CASE Answer(d)
  BY <1>1 DEF Answer, Detected, ControlOK, server, wire, client, view, ghosts
<1>2. CASE Serve(d)
  BY <1>2 DEF Serve, ServePut, ServeListen, ServeUnlisten, ControlOK, client, view, screen, ghosts
<1>3. CASE ArrivePush(d)
  <2>1. \/ /\ loaded' = [loaded EXCEPT ![d] = TRUE]
           /\ waiting' = [waiting EXCEPT ![d] = <<>>]
        \/ UNCHANGED <<loaded, waiting>>
    BY <1>3 DEF ArrivePush, view
  <2>2. loaded' \in [Devices -> BOOLEAN]
    BY <2>1 DEF ControlOK
  <2>3. waiting' \in [Devices -> Seq(Ops)]
    <3> DEFINE none == <<>>
    <3>1. none \in Seq(Ops) /\ waiting \in [Devices -> Seq(Ops)]
      BY EmptySeq DEF ControlOK
    <3>2. waiting' = [waiting EXCEPT ![d] = none] \/ waiting' = waiting
      BY <2>1
    <3> HIDE DEF none
    <3> QED  BY <3>1, <3>2
  <2>4. UNCHANGED <<listening, linked, unanswered, photo, spinning, detecting,
                    spent, granted, denied, crashed>>
    BY <1>3 DEF ArrivePush, server, client, screen, ghosts
  <2> QED  BY <2>2, <2>3, <2>4 DEF ControlOK
<1>4. CASE ArriveAck(d) \/ ArriveListening(d)
  BY <1>4 DEF ArriveAck, ArriveListening, ControlOK, server, view, screen, ghosts
<1>5. CASE Drop(d)
  BY <1>5, SpendOK DEF Drop, Inputs, ControlOK, view, screen, ghosts
<1>6. CASE Reconnect(d)
  BY <1>6 DEF Reconnect, ControlOK, server, view, screen, ghosts
<1>7. CASE Kill(d)
  BY <1>7, SpendOK, RestartOK DEF Kill, Inputs, ControlOK
<1> QED  BY <1>1, <1>2, <1>3, <1>4, <1>5, <1>6, <1>7 DEF Arrive

-----------------------------------------------------------------------------
(***************************************************************************)
(* The invariants.  AllFair is inductive: a step that grants a photo only  *)
(* widens FairQuota, and every other step leaves it as it is.              *)
(***************************************************************************)

\* At first every limit is the whole one or missing.
LEMMA InitFair == Init => AllFair
<1> SUFFICES ASSUME Init PROVE AllFair
  OBVIOUS
<1>1. {Missing, Limit} \subseteq FairQuota
  <2>1. granted = 0
    BY DEF Init
  <2> QED  BY <2>1, LimitAssumption DEF FairQuota, Quota, Missing
<1>2. ControlOK
  <2>1. waiting \in [Devices -> Seq(Ops)]
    BY EmptySeq DEF Init
  <2>2. detecting \in [Devices -> [Photos -> Nat]] /\ spent \in [Inputs -> Nat]
    BY DEF Init
  <2>3. /\ photo \in [Devices -> Photos \cup {NoPhoto}]
        /\ spinning \in [Devices -> SUBSET Photos]
    BY DEF Init
  <2>4. /\ listening \in [Devices -> BOOLEAN] /\ linked \in [Devices -> BOOLEAN]
        /\ loaded \in [Devices -> BOOLEAN] /\ crashed \in BOOLEAN
    BY DEF Init
  <2>5. unanswered \in [Devices -> Int] /\ granted \in Nat /\ denied \in Nat
    BY DEF Init
  <2> QED  BY <2>1, <2>2, <2>3, <2>4, <2>5 DEF ControlOK
<1>3. LimitsIn(FairQuota)
  <2>1. NoRecord \in RecordOf(FairQuota)
    BY <1>1, WritesIn
  <2>2. [limit |-> Limit, child |-> FALSE] \in RecordOf(FairQuota)
    BY <1>1 DEF RecordOf
  <2>3. record \in RecordOf(FairQuota)
    BY <2>1, <2>2 DEF Init
  <2>4. cache \in [Devices -> RecordOf(FairQuota)]
    BY <2>1 DEF Init
  <2>5. \A S : [d \in Devices |-> <<>>] \in [Devices -> Seq(S)]
    BY EmptySeq
  <2> QED  BY <2>3, <2>4, <2>5 DEF Init, LimitsIn
<1> QED  BY <1>2, <1>3 DEF AllFair

\* Every step keeps the inductive invariant; only Grant changes FairQuota.
LEMMA StepFair == AllFair /\ [Next]_vars => AllFair'
<1> SUFFICES ASSUME AllFair, [Next]_vars PROVE AllFair'
  OBVIOUS
<1> DEFINE Q == FairQuota
<1>1. ControlOK /\ LimitsIn(Q) /\ granted \in Nat
  BY DEF AllFair, ControlOK
<1>2. {Missing, Limit} \subseteq Q
  BY <1>1, LimitAssumption DEF FairQuota, Quota, Missing
<1>3. LimitsIn(Quota)
  <2>1. Q \subseteq Quota
    BY DEF FairQuota
  <2> QED  BY <1>1, <2>1, Larger
<1>4. granted' = granted => FairQuota' = FairQuota
  BY DEF FairQuota
<1>5. StillIn(FairQuota') => LimitsIn(FairQuota)'
  BY DEF StillIn, LimitsIn
<1>6. CASE UNCHANGED vars
  BY <1>1, <1>4, <1>6
     DEF AllFair, ControlOK, LimitsIn, vars, server, wire, client, view, screen, ghosts
<1>7. ASSUME NEW d \in Devices, Grant(d)
      PROVE  AllFair'
  <2>1. granted' = granted + 1
    BY <1>7 DEF Grant
  <2>2. Q \subseteq FairQuota' /\ \A n \in Q : n > 0 => n - 1 \in FairQuota'
    BY <1>1, <2>1, LimitAssumption DEF FairQuota, Quota, Missing
  <2>3. StillIn(FairQuota')
    BY <1>1, <1>2, <1>7, <2>2, GrantIn
  <2>4. ControlOK'
    BY <1>1, <1>3, <1>7, CallbackOK DEF Callback
  <2> QED  BY <1>5, <2>3, <2>4 DEF AllFair
<1>8. ASSUME NEW d \in Devices,
             \/ User(d) \/ Answer(d) \/ Serve(d) \/ Arrive(d)
             \/ Drop(d) \/ Reconnect(d) \/ Kill(d)
             \/ SetupCallback(d) \/ GetNameCallback(d)
             \/ Deny(d) \/ NoAnswer(d) \/ BadCast(d)
      PROVE  AllFair'
  <2>1. granted' = granted
    BY <1>8 DEF User, SetupUser, GetName, Update, Process, Cancel, OpenPhoto,
                Answer, Detected, Serve, ServePut, ServeListen, ServeUnlisten,
                Arrive, ArrivePush, ArriveAck, ArriveListening,
                Drop, Reconnect, Kill, Restart,
                SetupCallback, GetNameCallback, Deny, NoAnswer, BadCast, ghosts
  <2>2. StillIn(Q)
    <3>1. CASE User(d)  BY <1>1, <1>2, <3>1, UserIn
    <3>2. CASE Answer(d)
      BY <1>1, <3>2 DEF Answer, Detected, StillIn, LimitsIn, server, wire, client, view
    <3>3. CASE Serve(d)  BY <1>1, <3>3, ServeIn
    <3>4. CASE Arrive(d)  BY <1>1, <3>4, ArriveIn
    <3>5. CASE Drop(d) \/ Reconnect(d) \/ Kill(d)  BY <1>1, <1>2, <3>5, LinkIn
    <3>6. CASE \/ SetupCallback(d) \/ GetNameCallback(d)
               \/ Deny(d) \/ NoAnswer(d) \/ BadCast(d)
      BY <1>1, <1>2, <3>6, CallbackIn
    <3> QED  BY <1>8, <3>1, <3>2, <3>3, <3>4, <3>5, <3>6
  <2>3. ControlOK'
    BY <1>1, <1>3, <1>8, UserOK, CallbackOK, OtherOK DEF Callback
  <2> QED  BY <1>4, <1>5, <2>1, <2>2, <2>3 DEF AllFair
<1> QED  BY <1>6, <1>7, <1>8 DEF Next, Callback

\* Not only the stored limit: no limit in a cache, a snapshot, an unconfirmed
\* write or a message is below what photoLimit has left the user.
THEOREM AlwaysFair == Spec => []AllFair
BY InitFair, StepFair, PTL DEF Spec

\* PhotoQuota is well typed; above all, no limit that is stored, cached, read
\* or on its way is negative or more than the user started with.
THEOREM TypeCorrect == Spec => []TypeOK
<1>1. AllFair => TypeOK
  <2>1. FairQuota \subseteq Quota
    BY DEF FairQuota
  <2> QED  BY <2>1, Larger DEF AllFair, TypeOK
<1> QED  BY <1>1, AlwaysFair, PTL

\* However reads overlap, writes are sent again and devices are killed, the
\* stored limit has lost at most one for each photo sent to detection.
THEOREM Overcharge == Spec => []NeverOvercharged
<1>1. AllFair => NeverOvercharged
  BY DEF AllFair, LimitsIn, RecordOf, FairQuota, NeverOvercharged
<1> QED  BY <1>1, AlwaysFair, PTL

-----------------------------------------------------------------------------
(***************************************************************************)
(* Waiting: an observer that waits finds nothing of the record on the      *)
(* device, and a block without a limit comes from a view that is loaded.   *)
(***************************************************************************)

\* A set of natural numbers up to n that is not empty has a greatest one.
LEMMA Greatest ==
    ASSUME NEW n \in Nat, NEW T \in SUBSET (0..n), T # {}
    PROVE  \E m \in T : \A k \in T : k <= m
<1> DEFINE D == {n - t : t \in T}
<1>1. D \subseteq Nat /\ D # {}
  <2>1. \A t \in T : n - t \in Nat  OBVIOUS
  <2> QED  BY <2>1
<1>2. PICK R : R = OpToRel(<, Nat)  OBVIOUS
<1>3. \A k, m \in Nat : k < m => <<k, m>> \in R  BY <1>2 DEF OpToRel
<1>4. \E m \in D : \A k \in D : ~ (<<k, m>> \in R)
  BY <1>1, <1>2, NatLessThanWellFounded, WFMin
<1>5. PICK m \in T : \A k \in D : ~ (<<k, n - m>> \in R)  BY <1>4
<1>6. ASSUME NEW k \in T  PROVE k <= m
  <2>1. n - k \in D /\ n - k \in Nat /\ n - m \in Nat  OBVIOUS
  <2>2. ~ (n - k < n - m)  BY <1>3, <1>5, <2>1
  <2> QED  BY <2>1, <2>2
<1> QED  BY <1>6

\* There is a last write at a path when there is one.
LEMMA TouchedBy ==
    ASSUME NEW S, NEW ws \in Seq(S), NEW P
    PROVE  Touched(ws, P) <=> \E i \in DOMAIN ws : ws[i].at \in P
<1>1. ASSUME NEW i \in DOMAIN ws, ws[i].at \in P
      PROVE  Touched(ws, P)
  <2> DEFINE T == {j \in DOMAIN ws : ws[j].at \in P}
  <2>1. T \in SUBSET (0..Len(ws)) /\ T # {} /\ Len(ws) \in Nat  BY <1>1
  <2>2. PICK m \in T : \A k \in T : k <= m  BY <2>1, Greatest
  <2> QED  BY <2>2 DEF Touched, IsLast
<1> QED  BY <1>1 DEF Touched, IsLast

\* One of the writes is to the whole record.
SetBy(ws) == \E i \in DOMAIN ws : ws[i].at = "record"

\* One of two sequences of writes has one to the whole record.
LEMMA SetByConcat ==
    ASSUME NEW S, NEW s \in Seq(S), NEW t \in Seq(S)
    PROVE  SetBy(s \o t) <=> SetBy(s) \/ SetBy(t)
<1> PICK c : c = s \o t  OBVIOUS
<1>1. /\ DOMAIN s = 1..Len(s) /\ DOMAIN t = 1..Len(t) /\ Len(s) \in Nat /\ Len(t) \in Nat
      /\ DOMAIN c = 1..(Len(s) + Len(t))
  BY ConcatProperties, LenProperties
<1>2. \A i \in 1 .. Len(s) + Len(t) : c[i] = IF i <= Len(s) THEN s[i] ELSE t[i - Len(s)]
  BY ConcatProperties
<1>3. ASSUME NEW i \in DOMAIN s  PROVE i \in DOMAIN c /\ c[i] = s[i]  BY <1>1, <1>2
<1>4. ASSUME NEW i \in DOMAIN t  PROVE Len(s) + i \in DOMAIN c /\ c[Len(s) + i] = t[i]
  BY <1>1, <1>2
<1>5. ASSUME NEW i \in DOMAIN c
      PROVE  \/ i \in DOMAIN s /\ c[i] = s[i]
             \/ i - Len(s) \in DOMAIN t /\ c[i] = t[i - Len(s)]
  BY <1>1, <1>2
<1>6. ASSUME SetBy(c) PROVE SetBy(s) \/ SetBy(t)
  <2>1. PICK i \in DOMAIN c : c[i].at = "record"  BY <1>6 DEF SetBy
  <2> QED  BY <1>5, <2>1, Zenon DEF SetBy
<1>7. ASSUME SetBy(s) PROVE SetBy(c)
  <2>1. PICK i \in DOMAIN s : s[i].at = "record"  BY <1>7 DEF SetBy
  <2> QED  BY <1>3, <2>1, Zenon DEF SetBy
<1>8. ASSUME SetBy(t) PROVE SetBy(c)
  <2>1. PICK i \in DOMAIN t : t[i].at = "record"  BY <1>8 DEF SetBy
  <2> QED  BY <1>4, <2>1, Zenon DEF SetBy
<1> QED  BY <1>6, <1>7, <1>8

\* Writes set the record if the first does or the others do.
LEMMA SetByTail ==
    ASSUME NEW S, NEW s \in Seq(S), s # <<>>
    PROVE  SetBy(s) <=> SetBy(Tail(s)) \/ Head(s).at = "record"
<1>1. /\ DOMAIN s = 1..Len(s) /\ Len(s) \in Nat \ {0} /\ DOMAIN Tail(s) = 1..(Len(s) - 1)
      /\ Head(s) = s[1] /\ \A i \in 1..(Len(s) - 1) : Tail(s)[i] = s[i + 1]
  BY HeadTailProperties, LenProperties, EmptySeq
<1> PICK t : t = Tail(s)  OBVIOUS
<1>2. ASSUME NEW i \in DOMAIN s  PROVE i = 1 \/ (i - 1 \in DOMAIN t /\ t[i - 1] = s[i])
  BY <1>1
<1>3. ASSUME NEW i \in DOMAIN t  PROVE i + 1 \in DOMAIN s /\ t[i] = s[i + 1]
  BY <1>1
<1>4. 1 \in DOMAIN s /\ Head(s) = s[1]  BY <1>1
<1>5. ASSUME SetBy(s) PROVE SetBy(t) \/ Head(s).at = "record"
  <2>1. PICK i \in DOMAIN s : s[i].at = "record"  BY <1>5 DEF SetBy
  <2> QED  BY <1>2, <1>4, <2>1, Zenon DEF SetBy
<1>6. ASSUME SetBy(t) PROVE SetBy(s)
  <2>1. PICK i \in DOMAIN t : t[i].at = "record"  BY <1>6 DEF SetBy
  <2> QED  BY <1>3, <2>1, Zenon DEF SetBy
<1>7. ASSUME Head(s).at = "record" PROVE SetBy(s)
  BY <1>4, <1>7, Zenon DEF SetBy
<1> QED  BY <1>5, <1>6, <1>7

\* A single write, or none.
LEMMA SetByOne ==
    /\ ~SetBy(<<>>)
    /\ \A w : SetBy(<<w>>) <=> w.at = "record"
BY DEF SetBy

\* The writes of a client that name a limit have one.
Limited(w) == w.at # "child" => w.limit # Missing

LimitedWrites == {w \in WriteOf(Quota) : Limited(w)}

Blind ==
    /\ writes \in [Devices -> Seq(LimitedWrites)]
    /\ acked \in [Devices -> Seq(LimitedWrites)]
    /\ \A d \in Devices : \A i \in DOMAIN main[d] :
           main[d][i].snap.limit = Missing => loaded[d]
    /\ WaitingIsBlind

\* What a client lays over the record has a limit when it has a record.
LEMMA LimitedOverlay ==
    ASSUME NEW r, NEW ws \in Seq(LimitedWrites), Touched(ws, {"record"})
    PROVE  Overlay(r, ws).limit # Missing
<1> DEFINE P == {"record", "photoLimit"}
<1>1. Touched(ws, P)  BY TouchedBy
<1>2. Last(ws, P) \in DOMAIN ws /\ ws[Last(ws, P)].at \in P  BY <1>1 DEF Touched, Last, IsLast
<1>3. ws[Last(ws, P)] \in LimitedWrites  BY <1>2
<1> QED  BY <1>1, <1>2, <1>3 DEF Overlay, LimitAfter, LimitedWrites, Limited

\* The writes the callbacks and update set.
LEMMA ClientWrites ==
    /\ FirstRecord \in LimitedWrites /\ SetChild \in LimitedWrites
    /\ \A n \in 0..Limit : SetPhotoLimit(n) \in LimitedWrites
BY LimitAssumption DEF FirstRecord, SetChild, SetPhotoLimit, WholeRecord, LimitedWrites, Limited,
                       WriteOf, Quota, Missing

\* A device knows of the record when a view is loaded or it set it itself.
LEMMA CompleteBy ==
    ASSUME NEW S, NEW ak \in Seq(S), NEW ws \in Seq(S)
    PROVE  Touched(ak \o ws, {"record"}) <=> SetBy(ak) \/ SetBy(ws)
<1>1. ak \o ws \in Seq(S)  BY ConcatProperties
<1>2. ASSUME NEW c \in Seq(S)  PROVE Touched(c, {"record"}) <=> SetBy(c)
  BY TouchedBy DEF SetBy
<1> QED  BY <1>1, <1>2, SetByConcat

Knows(d) == loaded[d] \/ SetBy(acked[d]) \/ SetBy(writes[d])

\* The view is complete just when something is known of the record.
LEMMA Knowing ==
    ASSUME Blind, NEW d \in Devices
    PROVE  /\ Pending(d) \in Seq(LimitedWrites)
           /\ Complete(d) <=> Knows(d)
<1>1. writes[d] \in Seq(LimitedWrites) /\ acked[d] \in Seq(LimitedWrites)  BY DEF Blind
<1>2. Pending(d) \in Seq(LimitedWrites)  BY <1>1, ConcatProperties DEF Pending
<1>3. Touched(Pending(d), {"record"}) <=> SetBy(acked[d]) \/ SetBy(writes[d])
  BY <1>1, CompleteBy, Zenon DEF Pending
<1> QED  BY <1>2, <1>3 DEF Complete, Knows

\* In the next state, where the writes still name limits.
LEMMA StaysBlind ==
    ASSUME writes' \in [Devices -> Seq(LimitedWrites)],
           acked' \in [Devices -> Seq(LimitedWrites)],
           \A d \in Devices : \A i \in DOMAIN main'[d] :
               main'[d][i].snap.limit = Missing => loaded'[d],
           \A d \in Devices : waiting'[d] # <<>> => ~Knows(d)'
    PROVE  Blind'
<1>1. ASSUME NEW d \in Devices  PROVE Complete(d)' <=> Knows(d)'
  <2>1. writes'[d] \in Seq(LimitedWrites) /\ acked'[d] \in Seq(LimitedWrites)  OBVIOUS
  <2>2. Touched(acked'[d] \o writes'[d], {"record"}) <=> SetBy(acked'[d]) \/ SetBy(writes'[d])
    BY <2>1, CompleteBy, Zenon
  <2> QED  BY <2>2 DEF Complete, Knows, Pending
<1> QED  BY <1>1 DEF Blind, WaitingIsBlind

\* observeSingleEvent lets one wait only where nothing is known.
LEMMA ObserveBlind ==
    ASSUME Blind, TypeOK, NEW d \in Devices, NEW op, Observe(d, op)
    PROVE  Blind'
<1>1. Pending(d) \in Seq(LimitedWrites) /\ (Complete(d) <=> Knows(d))  BY Knowing
<1>2. UNCHANGED <<writes, acked, loaded>>  BY DEF Observe
<1>3. \A e \in Devices : Knows(e)' <=> Knows(e)  BY <1>2 DEF Knows
<1>4. CASE Complete(d)
  <2> PICK b : b = [op |-> op, snap |-> Local(d)]  OBVIOUS
  <2>1. main' = [main EXCEPT ![d] = Append(@, b)] /\ waiting' = waiting
    BY <1>4 DEF Observe
  <2>2. b.snap.limit = Missing => loaded[d]
    <3>1. Touched(Pending(d), {"record"}) => Overlay(cache[d], Pending(d)).limit # Missing
      BY <1>1, LimitedOverlay
    <3> QED  BY <1>4, <3>1 DEF Complete, Local
  <2>3. ASSUME NEW e \in Devices, NEW i \in DOMAIN main'[e],
               main'[e][i].snap.limit = Missing
        PROVE  loaded'[e]
    BY <1>2, <2>1, <2>2, <2>3 DEF Blind, TypeOK, LimitsIn
  <2> QED
    BY <1>2, <1>3, <2>1, <2>3, Knowing, StaysBlind DEF Blind, WaitingIsBlind
<1>5. CASE ~Complete(d)
  <2>1. main' = main /\ \A e \in Devices \ {d} : waiting'[e] = waiting[e]
    BY <1>5 DEF Observe, TypeOK, ControlOK
  <2>2. ASSUME NEW e \in Devices, waiting'[e] # <<>>  PROVE ~Knows(e)'
    <3>1. CASE e = d  BY <1>1, <1>3, <1>5, <3>1
    <3>2. CASE e # d  BY <1>3, <2>1, <2>2, <3>2, Knowing DEF Blind, WaitingIsBlind
    <3> QED  BY <3>1, <3>2
  <2> QED  BY <1>2, <2>1, <2>2, StaysBlind DEF Blind
<1> QED  BY <1>4, <1>5

\* A callback that sets a record had one to set in a loaded view: nobody waits.
LEMMA FireBlind ==
    ASSUME Blind, TypeOK, NEW d \in Devices, main[d] # <<>>, NEW ws \in Seq(LimitedWrites),
           SetBy(ws) => loaded[d], Fire(d, ws)
    PROVE  Blind'
<1>1. /\ main[d] \in Seq(BlockOf(Quota)) /\ waiting[d] \in Seq(Ops)
      /\ main \in [Devices -> Seq(BlockOf(Quota))]
      /\ writes[d] \in Seq(LimitedWrites)
  BY DEF TypeOK, ControlOK, LimitsIn, Blind
<1>2. /\ \A e \in Devices \ {d} : /\ main'[e] = main[e] /\ loaded'[e] = loaded[e]
                                 /\ writes'[e] = writes[e]
      /\ main'[d] = Tail(main[d]) /\ writes'[d] = writes[d] \o ws
      /\ loaded'[d] = (loaded[d] /\ ~ (Len(main[d]) = 1 /\ waiting[d] = <<>>))
      /\ UNCHANGED <<acked, waiting>>
  BY DEF Fire, SetValue, TypeOK, ControlOK, LimitsIn, Blind
<1>3. writes' \in [Devices -> Seq(LimitedWrites)]
  <2>1. writes[d] \o ws \in Seq(LimitedWrites)  BY <1>1, ConcatProperties
  <2> QED  BY <2>1 DEF Blind, Fire, SetValue
<1>4. ASSUME NEW e \in Devices, NEW i \in DOMAIN main'[e], main'[e][i].snap.limit = Missing
      PROVE  loaded'[e]
  <2>1. CASE e # d  BY <1>2, <1>4, <2>1 DEF Blind
  <2>2. CASE e = d
    <3>1. /\ i \in 1..(Len(main[d]) - 1) /\ i + 1 \in DOMAIN main[d] /\ main'[d][i] = main[d][i + 1]
      <4>1. i \in DOMAIN Tail(main[d])  BY <1>2, <2>2
      <4> QED  BY <1>1, <1>2, <4>1
    <3>2. loaded[d] /\ Len(main[d]) # 1  BY <1>1, <1>4, <2>2, <3>1 DEF Blind
    <3> QED  BY <1>2, <2>2, <3>2
  <2> QED  BY <2>1, <2>2
<1>5. ASSUME NEW e \in Devices, waiting'[e] # <<>>  PROVE ~Knows(e)'
  <2>1. ~Knows(e)  BY <1>2, <1>5, Knowing DEF Blind, WaitingIsBlind
  <2>2. CASE e # d  BY <1>2, <2>1, <2>2 DEF Knows
  <2>3. CASE e = d
    <3>1. ~SetBy(ws) /\ ~SetBy(writes[d]) /\ ~SetBy(acked[d]) /\ ~loaded[d]
      BY <2>1, <2>3 DEF Knows
    <3>2. ~SetBy(writes[d] \o ws)  BY <1>1, <3>1, SetByConcat
    <3> QED  BY <1>2, <2>3, <3>1, <3>2 DEF Knows
  <2> QED  BY <2>2, <2>3
<1> QED  BY <1>2, <1>3, <1>4, <1>5, StaysBlind DEF Blind

\* The first block of the queue, and who is let in with it.
LEMMA FirstBlock ==
    ASSUME TypeOK, NEW d \in Devices, main[d] # <<>>
    PROVE  /\ 1 \in DOMAIN main[d] /\ Head(main[d]) = main[d][1]
           /\ Head(main[d]) \in BlockOf(Quota)
           /\ Snap(d) \in Record /\ Head(main[d]).op \in Ops
<1>1. main[d] \in Seq(BlockOf(Quota))  BY DEF TypeOK, LimitsIn
<1>2. 1 \in DOMAIN main[d] /\ Head(main[d]) = main[d][1] /\ Head(main[d]) \in BlockOf(Quota)
  BY <1>1
<1> QED  BY <1>2 DEF BlockOf, Snap, Record

\* The callbacks: what they write, and that they leave what waits.
LEMMA CallbackBlind ==
    ASSUME Blind, TypeOK, NEW d \in Devices,
           SetupCallback(d) \/ GetNameCallback(d) \/ Grant(d) \/ Deny(d) \/ NoAnswer(d)
    PROVE  Blind'
<1>0. main[d] # <<>>
  BY DEF SetupCallback, GetNameCallback, Grant, Deny, NoAnswer, Fires
<1>1. <<>> \in Seq(LimitedWrites) /\ ~SetBy(<<>>)  BY SetByOne
<1>2. CASE SetupCallback(d)
  <2>1. CASE Snap(d) = NoRecord
    <3>1. loaded[d]
      BY <1>0, <2>1, FirstBlock DEF Blind, Snap, NoRecord
    <3>2. <<FirstRecord>> \in Seq(LimitedWrites)  BY ClientWrites
    <3> QED  BY <1>0, <1>2, <2>1, <3>1, <3>2, FireBlind DEF SetupCallback
  <2>2. CASE Snap(d) # NoRecord
    BY <1>0, <1>1, <1>2, <2>2, FireBlind DEF SetupCallback
  <2> QED  BY <2>1, <2>2
<1>3. CASE GetNameCallback(d) \/ Deny(d) \/ NoAnswer(d)
  BY <1>0, <1>1, <1>3, FireBlind DEF GetNameCallback, Deny, NoAnswer
<1>4. CASE Grant(d)
  <2> PICK w : w = SetPhotoLimit(Snap(d).limit - 1)  OBVIOUS
  <2>1. Snap(d).limit - 1 \in 0..Limit
    BY <1>0, <1>4, FirstBlock, LimitAssumption DEF Grant, Record, RecordOf, Quota, Missing
  <2>2. <<w>> \in Seq(LimitedWrites) /\ ~SetBy(<<w>>)
    BY <2>1, ClientWrites, SetByOne DEF SetPhotoLimit
  <2> QED  BY <1>0, <1>4, <2>2, FireBlind DEF Grant
<1> QED  BY <1>2, <1>3, <1>4

\* update sets no record.
LEMMA UpdateBlind == ASSUME Blind, TypeOK, NEW d \in Devices, Update(d)  PROVE Blind'
<1>1. /\ writes' = [writes EXCEPT ![d] = @ \o <<SetChild>>]
      /\ UNCHANGED <<acked, loaded, main, waiting>>
  BY DEF Update, SetValue, view
<1>2. /\ writes[d] \in Seq(LimitedWrites) /\ <<SetChild>> \in Seq(LimitedWrites)
      /\ ~SetBy(<<SetChild>>)
  BY ClientWrites, SetByOne DEF Blind, SetChild
<1>3. /\ writes[d] \o <<SetChild>> \in Seq(LimitedWrites)
      /\ SetBy(writes[d] \o <<SetChild>>) <=> SetBy(writes[d])
  <2>1. SetBy(writes[d] \o <<SetChild>>) <=> SetBy(writes[d])
    BY <1>2, SetByConcat
  <2> QED  BY <1>2, <2>1, ConcatProperties
<1>4. writes' \in [Devices -> Seq(LimitedWrites)]  BY <1>1, <1>3 DEF Blind
<1>5. \A e \in Devices : Knows(e)' <=> Knows(e)
  BY <1>1, <1>3 DEF Knows, Blind
<1> QED  BY <1>1, <1>4, <1>5, Knowing, StaysBlind DEF Blind, WaitingIsBlind

\* The event that loads the view takes everyone who waits.
LEMMA PushBlind == ASSUME Blind, TypeOK, NEW d \in Devices, ArrivePush(d)  PROVE Blind'
<1>1. UNCHANGED <<writes, acked>>  BY DEF ArrivePush, client
<1>2. CASE UNCHANGED view
  BY <1>1, <1>2, Knowing, StaysBlind DEF Blind, WaitingIsBlind, Knows, view
<1>3. CASE loaded' = [loaded EXCEPT ![d] = TRUE] /\ waiting' = [waiting EXCEPT ![d] = <<>>]
  <2>1. /\ \A e \in Devices \ {d} : /\ main'[e] = main[e] /\ loaded'[e] = loaded[e]
                                   /\ waiting'[e] = waiting[e]
        /\ loaded'[d] = TRUE /\ waiting'[d] = <<>>
    <3>1. main' = main \/ \E x : main' = [main EXCEPT ![d] = x]
      BY DEF ArrivePush, view
    <3> QED  BY <1>3, <3>1 DEF TypeOK, ControlOK, LimitsIn
  <2>2. \A e \in Devices : waiting'[e] # <<>> => ~Knows(e)'
    BY <1>1, <2>1, Knowing DEF Blind, WaitingIsBlind, Knows
  <2>3. \A e \in Devices : \A i \in DOMAIN main'[e] :
           main'[e][i].snap.limit = Missing => loaded'[e]
    BY <2>1 DEF Blind
  <2> QED  BY <1>1, <2>2, <2>3, StaysBlind DEF Blind
<1> QED  BY <1>2, <1>3 DEF ArrivePush

\* A confirmed write moves behind the older ones, or is forgotten.
LEMMA AckBlind == ASSUME Blind, TypeOK, NEW d \in Devices, ArriveAck(d)  PROVE Blind'
<1>1. UNCHANGED <<loaded, main, waiting>>  BY DEF ArriveAck, view
<1>2. CASE UNCHANGED <<writes, acked>>
  BY <1>1, <1>2, Knowing, StaysBlind DEF Blind, WaitingIsBlind, Knows
<1>3. CASE writes[d] # <<>>
  <2> PICK t, a : t = Tail(writes[d]) /\ a = Head(writes[d])  OBVIOUS
  <2>0. \E x : /\ x = acked[d] \/ x = Append(acked[d], a)
              /\ acked' = [acked EXCEPT ![d] = x]
    BY <1>3 DEF ArriveAck
  <2> PICK ak : /\ ak = acked[d] \/ ak = Append(acked[d], a)
                /\ acked' = [acked EXCEPT ![d] = ak]
    BY <2>0
  <2>1. writes' = [writes EXCEPT ![d] = t] /\ acked' = [acked EXCEPT ![d] = ak]
    BY <1>3 DEF ArriveAck
  <2>2. writes[d] \in Seq(LimitedWrites) /\ acked[d] \in Seq(LimitedWrites)  BY DEF Blind
  <2>3. /\ t \in Seq(LimitedWrites) /\ a \in LimitedWrites
        /\ SetBy(writes[d]) <=> SetBy(t) \/ a.at = "record"
    <3>1. SetBy(writes[d]) <=> SetBy(t) \/ a.at = "record"  BY <1>3, <2>2, SetByTail
    <3> QED  BY <1>3, <2>2, <3>1
  <2>4. ak \in Seq(LimitedWrites) /\ (SetBy(ak) => SetBy(acked[d]) \/ a.at = "record")
    <3>1. CASE ak = acked[d]  BY <2>2, <3>1
    <3>2. CASE ak = Append(acked[d], a)
      <4>1. ak = acked[d] \o <<a>>
        <5>1. Append(acked[d], a) = acked[d] \o <<a>>  BY <2>2, <2>3, AppendIsConcat
        <5> QED  BY ONLY <3>2, <5>1
      <4>2. <<a>> \in Seq(LimitedWrites)  BY <2>3
      <4>3. SetBy(acked[d] \o <<a>>) <=> SetBy(acked[d]) \/ SetBy(<<a>>)
        BY <2>2, <4>2, SetByConcat
      <4>4. SetBy(<<a>>) <=> a.at = "record"  BY SetByOne
      <4>5. SetBy(ak) <=> SetBy(acked[d]) \/ a.at = "record"
        BY ONLY <4>1, <4>3, <4>4
      <4>6. ak \in Seq(LimitedWrites)  BY <2>2, <2>3, <3>2
      <4> QED  BY <4>5, <4>6
    <3>3. ak = acked[d] \/ ak = Append(acked[d], a)  OBVIOUS
    <3> QED  BY <3>1, <3>2, <3>3, Zenon
  <2>5. \A e \in Devices : Knows(e)' => Knows(e)
    BY <1>1, <2>1, <2>3, <2>4 DEF Knows, Blind
  <2>6. writes' \in [Devices -> Seq(LimitedWrites)] /\ acked' \in [Devices -> Seq(LimitedWrites)]
    BY <2>1, <2>3, <2>4 DEF Blind
  <2> QED  BY <1>1, <2>5, <2>6, Knowing, StaysBlind DEF Blind, WaitingIsBlind
<1> QED  BY <1>2, <1>3 DEF ArriveAck

\* An answer to a listen frees confirmed writes: no more is known without them.
LEMMA ListeningBlind == ASSUME Blind, TypeOK, NEW d \in Devices, ArriveListening(d)  PROVE Blind'
<1>1. UNCHANGED <<writes, loaded, main, waiting>>  BY DEF ArriveListening, view
<1>2. PICK ak : (ak = acked[d] \/ ak = <<>>) /\ acked' = [acked EXCEPT ![d] = ak]
  BY DEF ArriveListening
<1>3. ak \in Seq(LimitedWrites) /\ (SetBy(ak) => SetBy(acked[d]))
  BY <1>2, EmptySeq, SetByOne DEF Blind
<1>4. \A e \in Devices : Knows(e)' => Knows(e)  BY <1>1, <1>2, <1>3 DEF Knows, Blind
<1>5. acked' \in [Devices -> Seq(LimitedWrites)]  BY <1>2, <1>3 DEF Blind
<1> QED  BY <1>1, <1>4, <1>5, Knowing, StaysBlind DEF Blind, WaitingIsBlind

\* A process that ends takes everything with it.
LEMMA RestartBlind == ASSUME Blind, TypeOK, NEW d \in Devices, Restart(d)  PROVE Blind'
<1> PICK none : none = <<>>  OBVIOUS
<1>1. none \in Seq(LimitedWrites)  BY EmptySeq
<1>2. /\ writes' = [writes EXCEPT ![d] = none] /\ acked' = [acked EXCEPT ![d] = none]
      /\ main' = [main EXCEPT ![d] = none] /\ waiting' = [waiting EXCEPT ![d] = none]
      /\ loaded' = [loaded EXCEPT ![d] = FALSE]
  BY DEF Restart
<1>3. writes' \in [Devices -> Seq(LimitedWrites)] /\ acked' \in [Devices -> Seq(LimitedWrites)]
  BY <1>1, <1>2 DEF Blind
<1>4. ASSUME NEW e \in Devices
      PROVE  /\ waiting'[e] # <<>> => ~Knows(e)'
             /\ \A i \in DOMAIN main'[e] : main'[e][i].snap.limit = Missing => loaded'[e]
  <2>1. CASE e = d
    <3>1. waiting'[e] = <<>> /\ main'[e] = <<>>  BY <1>2, <2>1 DEF TypeOK, ControlOK, LimitsIn
    <3> QED  BY <3>1
  <2>2. CASE e # d
    <3>1. /\ writes'[e] = writes[e] /\ acked'[e] = acked[e] /\ main'[e] = main[e]
          /\ waiting'[e] = waiting[e] /\ loaded'[e] = loaded[e]
      BY <1>2, <2>2 DEF TypeOK, ControlOK, LimitsIn
    <3> QED  BY <3>1, Knowing DEF Blind, WaitingIsBlind, Knows
  <2> QED  BY <2>1, <2>2
<1> QED  BY <1>3, <1>4, StaysBlind

\* Every step keeps the invariant.
LEMMA NextBlind == Blind /\ TypeOK /\ [Next]_vars => Blind'
<1> SUFFICES ASSUME Blind, TypeOK, [Next]_vars  PROVE Blind'
  OBVIOUS
<1>1. ASSUME UNCHANGED <<writes, acked, main, loaded, waiting>>  PROVE Blind'
  BY <1>1, Knowing, StaysBlind DEF Blind, WaitingIsBlind, Knows
<1>2. CASE UNCHANGED vars
  BY <1>1, <1>2 DEF vars, client, view
<1>3. ASSUME NEW d \in Devices,
             \/ User(d) \/ Callback(d) \/ Answer(d) \/ Serve(d) \/ Arrive(d)
             \/ Drop(d) \/ Reconnect(d) \/ Kill(d)
      PROVE  Blind'
  <2>1. CASE SetupUser(d) \/ GetName(d) \/ Process(d)
    BY <2>1, ObserveBlind DEF SetupUser, GetName, Process
  <2>2. CASE Update(d)  BY <2>2, UpdateBlind
  <2>3. CASE \/ Cancel(d) \/ (\E p \in Photos : OpenPhoto(d, p)) \/ Answer(d) \/ Serve(d)
             \/ Drop(d) \/ Reconnect(d)
    BY <1>1, <2>3 DEF Cancel, OpenPhoto, Answer, Detected, Serve, ServePut, ServeListen,
                      ServeUnlisten, Drop, Reconnect, client, view
  <2>4. CASE Callback(d)
    BY <2>4, CallbackBlind, RestartBlind DEF Callback, BadCast
  <2>5. CASE Arrive(d)  BY <2>5, PushBlind, AckBlind, ListeningBlind DEF Arrive
  <2>6. CASE Kill(d)  BY <2>6, RestartBlind DEF Kill
  <2> QED  BY <1>3, <2>1, <2>2, <2>3, <2>4, <2>5, <2>6 DEF User
<1> QED  BY <1>2, <1>3 DEF Next

\* At first nobody waits and nothing is set.
LEMMA InitBlind == Init => Blind
<1> SUFFICES ASSUME Init PROVE Blind  OBVIOUS
<1>1. writes \in [Devices -> Seq(LimitedWrites)] /\ acked \in [Devices -> Seq(LimitedWrites)]
  <2>1. \A S : [d \in Devices |-> <<>>] \in [Devices -> Seq(S)]  BY EmptySeq
  <2> QED  BY <2>1 DEF Init
<1>2. \A d \in Devices : waiting[d] = <<>> /\ main[d] = <<>>  BY DEF Init
<1> QED  BY <1>1, <1>2 DEF Blind, WaitingIsBlind

(***************************************************************************)
(* However reads overlap and connections break, an observer waits only     *)
(* while the view has neither the server's record nor a whole one set      *)
(* here: observeSingleEvent leaves none waiting that could be called.      *)
(***************************************************************************)
THEOREM WaitingAlwaysBlind == Spec => []WaitingIsBlind
<1>1. Blind => WaitingIsBlind  BY DEF Blind
<1> QED  BY <1>1, InitBlind, NextBlind, TypeCorrect, PTL DEF Spec

-----------------------------------------------------------------------------
(***************************************************************************)
(* Casts: with a record there from the start every record anyone sees has  *)
(* a limit, and without pictures none but the empty one lacks it.          *)
(***************************************************************************)

Fits(r) == IF Known THEN r.limit # Missing ELSE ~r.child

\* A write that keeps what it is laid over fit.
FitWrite(w) == IF Known THEN Limited(w) ELSE w.at # "child" /\ ~w.child

FitRecords == {r \in Record : Fits(r)}
FitWrites  == {w \in WriteOf(Quota) : FitWrite(w)}
FitBlocks  == [op : Ops, snap : FitRecords]
FitUp      == {m \in UpMessageOf(Quota) : m.type = "put" => m.write \in FitWrites}
FitDown    == {m \in DownMessageOf(Quota) : m.type = "push" => m.write \in FitWrites}

Castable ==
    /\ record \in FitRecords
    /\ up \in [Devices -> Seq(FitUp)]
    /\ down \in [Devices -> Seq(FitDown)]
    /\ writes \in [Devices -> Seq(FitWrites)]
    /\ acked \in [Devices -> Seq(FitWrites)]
    /\ main \in [Devices -> Seq(FitBlocks)]
    /\ \A d \in Devices : loaded[d] \/ ~Known => cache[d] \in FitRecords
    /\ ~crashed

\* Writes laid over a fit record, or over nothing but with a record among
\* them, give a fit record.
LEMMA FitOverlay ==
    ASSUME NEW r \in Record, NEW ws \in Seq(FitWrites),
           r \in FitRecords \/ (Known /\ Touched(ws, {"record"}))
    PROVE  Overlay(r, ws) \in FitRecords
<1>1. Overlay(r, ws) \in Record
  <2>1. FitWrites \subseteq WriteOf(Quota)  BY DEF FitWrites
  <2>2. ws \in Seq(WriteOf(Quota))  BY <2>1, SeqMonotonic
  <2> QED  BY <2>2, OverlayIn DEF Record
<1>2. CASE Known
  <2> DEFINE P == {"record", "photoLimit"}
  <2>1. CASE Touched(ws, P)
    <3>1. Last(ws, P) \in DOMAIN ws /\ ws[Last(ws, P)].at \in P
      BY <2>1 DEF Touched, Last, IsLast
    <3>2. ws[Last(ws, P)] \in FitWrites  BY <3>1
    <3> QED
      BY <1>1, <1>2, <2>1, <3>1, <3>2
      DEF Overlay, LimitAfter, FitRecords, FitWrites, FitWrite, Fits, Limited
  <2>2. CASE ~Touched(ws, P)
    <3>1. ~Touched(ws, {"record"})  BY <2>2, TouchedBy
    <3> QED  BY <1>1, <1>2, <2>2, <3>1 DEF Overlay, LimitAfter, FitRecords, Fits
  <2> QED  BY <2>1, <2>2
<1>3. CASE ~Known
  <2> DEFINE P == {"record", "child"}
  <2>1. CASE Touched(ws, P)
    <3>1. Last(ws, P) \in DOMAIN ws  BY <2>1 DEF Touched, Last, IsLast
    <3>2. ws[Last(ws, P)] \in FitWrites  BY <3>1
    <3> QED
      BY <1>1, <1>3, <2>1, <3>2 DEF Overlay, ChildAfter, FitRecords, FitWrites, FitWrite, Fits
  <2>2. CASE ~Touched(ws, P)
    BY <1>1, <1>3, <2>2 DEF Overlay, ChildAfter, FitRecords, Fits
  <2> QED  BY <2>1, <2>2
<1> QED  BY <1>2, <1>3

\* A write to the whole record makes any fit.
LEMMA FitApply ==
    ASSUME NEW r \in Record, NEW w \in FitWrites,
           r \in FitRecords \/ (Known /\ w.at = "record")
    PROVE  Apply(r, w) \in FitRecords
<1>1. <<w>> \in Seq(FitWrites)  OBVIOUS
<1>2. w.at = "record" => Touched(<<w>>, {"record"})
  <2>1. 1 \in DOMAIN <<w>> /\ DOMAIN <<w>> = {1} /\ <<w>>[1] = w  OBVIOUS
  <2> QED  BY <2>1 DEF Touched, IsLast
<1> QED  BY <1>1, <1>2, FitOverlay DEF Apply

\* What CapDatabase and the server write, where it fits.
LEMMA FitMade ==
    /\ FirstRecord \in FitWrites
    /\ Known => SetChild \in FitWrites
    /\ \A n \in 0..Limit : SetPhotoLimit(n) \in FitWrites
    /\ \A r \in FitRecords : WholeRecord(r) \in FitWrites
    /\ ~Known => NoRecord \in FitRecords
BY LimitAssumption DEF FirstRecord, SetChild, SetPhotoLimit, WholeRecord, NoRecord, FitWrites,
   FitWrite, FitRecords, Fits, Limited, Record, RecordOf, WriteOf, Quota, Missing

\* Single messages and writes as sequences of fit ones.
LEMMA FitMessages ==
    /\ \A t \in {"listen", "unlisten"} : Msg(t) \in FitUp
    /\ \A t \in {"listening", "ack"} : Msg(t) \in FitDown
    /\ \A w \in FitWrites : Put(w) \in FitUp /\ Push(w) \in FitDown
<1>1. FitWrites \subseteq WriteOf(Quota)  BY DEF FitWrites
<1> QED  BY <1>1, MessagesIn DEF FitUp, FitDown, Msg, Put, Push

\* Fit writes are sent as fit messages.
LEMMA FitPuts == ASSUME NEW ws \in Seq(FitWrites)  PROVE Puts(ws) \in Seq(FitUp)
BY FitMessages DEF Puts

\* The local view of a device that knows of the record.
LEMMA FitLocal ==
    ASSUME Castable, TypeOK, NEW d \in Devices
    PROVE  /\ Pending(d) \in Seq(FitWrites)
           /\ Complete(d) => Local(d) \in FitRecords
           /\ \A c \in FitRecords : Overlay(c, Pending(d)) \in FitRecords
<1>1. Pending(d) \in Seq(FitWrites)
  <2>1. acked[d] \in Seq(FitWrites) /\ writes[d] \in Seq(FitWrites)  BY DEF Castable
  <2> QED  BY <2>1, ConcatProperties DEF Pending
<1>2. cache[d] \in Record  BY DEF TypeOK, LimitsIn, Record
<1>3. Complete(d) => cache[d] \in FitRecords \/ (Known /\ Touched(Pending(d), {"record"}))
  BY DEF Complete, Castable
<1>4. Complete(d) => Overlay(cache[d], Pending(d)) \in FitRecords
  BY <1>1, <1>2, <1>3, FitOverlay
<1>5. ASSUME NEW c \in FitRecords  PROVE Overlay(c, Pending(d)) \in FitRecords
  <2>1. c \in Record  BY DEF FitRecords
  <2> QED  BY <1>1, <2>1, FitOverlay
<1> QED  BY <1>1, <1>4, <1>5 DEF Local

\* A new observer: its snapshot, if it has one at once, is fit.
LEMMA ObserveCast ==
    ASSUME Castable, TypeOK, NEW d \in Devices, NEW op \in Ops, Observe(d, op),
           UNCHANGED <<record, crashed>>
    PROVE  Castable'
<1>1. main' \in [Devices -> Seq(FitBlocks)]
  <2>1. CASE Complete(d)
    <3> PICK b : b = [op |-> op, snap |-> Local(d)]  OBVIOUS
    <3>1. b \in FitBlocks  BY <2>1, FitLocal DEF FitBlocks
    <3>2. main' = [main EXCEPT ![d] = Append(@, b)]  BY <2>1 DEF Observe
    <3> QED  BY <3>1, <3>2 DEF Castable
  <2>2. CASE ~Complete(d)  BY <2>2 DEF Observe, Castable
  <2> QED  BY <2>1, <2>2
<1>2. up' \in [Devices -> Seq(FitUp)]
  <2>1. <<Msg("listen")>> \in Seq(FitUp)  BY FitMessages
  <2>2. up[d] \o <<Msg("listen")>> \in Seq(FitUp)  BY <2>1, ConcatProperties DEF Castable
  <2> QED  BY <2>2 DEF Observe, Send, Castable
<1> QED  BY <1>1, <1>2 DEF Observe, Castable

\* A callback that writes what is fit.
LEMMA FireCast ==
    ASSUME Castable, TypeOK, NEW d \in Devices, main[d] # <<>>, NEW ws \in Seq(FitWrites),
           Fire(d, ws), UNCHANGED <<record, crashed>>
    PROVE  Castable'
<1>1. main' \in [Devices -> Seq(FitBlocks)]
  <2>1. Tail(main[d]) \in Seq(FitBlocks)  BY HeadTailProperties DEF Castable
  <2> QED  BY <2>1 DEF Fire, Castable
<1>2. writes' \in [Devices -> Seq(FitWrites)]
  <2>1. writes[d] \o ws \in Seq(FitWrites)  BY ConcatProperties DEF Castable
  <2> QED  BY <2>1 DEF Fire, SetValue, Castable
<1>3. up' \in [Devices -> Seq(FitUp)]
  <2> PICK bye : /\ bye = <<>> \/ bye = <<Msg("unlisten")>>
                 /\ Send(d, bye \o Puts(ws))
    BY DEF Fire
  <2>0. <<>> \in Seq(FitUp) /\ <<Msg("unlisten")>> \in Seq(FitUp)  BY FitMessages
  <2>1. bye \in Seq(FitUp) /\ Puts(ws) \in Seq(FitUp)  BY <2>0, FitPuts
  <2>2. bye \o Puts(ws) \in Seq(FitUp)  BY <2>1, ConcatProperties
  <2>3. up[d] \o (bye \o Puts(ws)) \in Seq(FitUp)  BY <2>2, ConcatProperties DEF Castable
  <2> QED  BY <2>3 DEF Send, Castable
<1>4. \A e \in Devices : loaded'[e] \/ ~Known => cache'[e] \in FitRecords
  BY FitMade DEF Fire, Castable, TypeOK, ControlOK, LimitsIn
<1> QED  BY <1>1, <1>2, <1>3, <1>4 DEF Fire, Castable

\* The callbacks, BadCast excluded because no fit snapshot has it.
LEMMA CallbackCast ==
    ASSUME Castable, TypeOK, NEW d \in Devices, Callback(d)
    PROVE  Castable'
<1>0. main[d] # <<>>
  BY DEF Callback, SetupCallback, GetNameCallback, Grant, Deny, NoAnswer, BadCast, Fires
<1>1. Snap(d) \in FitRecords
  <2>1. main[d] \in Seq(FitBlocks)  BY DEF Castable
  <2>2. Head(main[d]) \in FitBlocks  BY <1>0, <2>1
  <2> QED  BY <2>2 DEF FitBlocks, Snap
<1>2. UNCHANGED record
  BY DEF Callback, SetupCallback, GetNameCallback, Grant, Deny, NoAnswer, BadCast, Restart, server
<1>3. CASE SetupCallback(d) \/ GetNameCallback(d) \/ Deny(d) \/ NoAnswer(d)
  <2>1. \E ws \in {<<>>, <<FirstRecord>>} : Fire(d, ws)
    BY <1>3 DEF SetupCallback, GetNameCallback, Deny, NoAnswer
  <2>2. <<>> \in Seq(FitWrites) /\ <<FirstRecord>> \in Seq(FitWrites)  BY FitMade
  <2>3. UNCHANGED crashed
    BY <1>3 DEF SetupCallback, GetNameCallback, Deny, NoAnswer, ghosts
  <2> QED  BY <1>0, <1>2, <2>1, <2>2, <2>3, FireCast
<1>4. CASE Grant(d)
  <2> PICK w : w = SetPhotoLimit(Snap(d).limit - 1)  OBVIOUS
  <2>1. Snap(d).limit - 1 \in 0..Limit
    BY <1>1, <1>4, LimitAssumption DEF Grant, FitRecords, Record, RecordOf, Quota, Missing
  <2>2. <<w>> \in Seq(FitWrites)  BY <2>1, FitMade
  <2> QED  BY <1>0, <1>2, <1>4, <2>2, FireCast DEF Grant
<1>5. CASE BadCast(d)
  <2>1. Snap(d) # NoRecord /\ Snap(d).limit = Missing  BY <1>5 DEF BadCast
  <2>2. ~Known /\ ~Snap(d).child  BY <1>1, <2>1 DEF FitRecords, Fits
  <2> QED  BY <1>1, <2>1, <2>2 DEF FitRecords, Record, RecordOf, NoRecord
<1> QED  BY <1>3, <1>4, <1>5 DEF Callback

\* The server applies fit writes to a fit record, and sends them on.
LEMMA ServeCast ==
    ASSUME Castable, TypeOK, NEW d \in Devices, Serve(d)
    PROVE  Castable'
<1>1. up[d] # <<>> /\ up' = [up EXCEPT ![d] = Tail(@)]
  BY DEF Serve, ServePut, ServeListen, ServeUnlisten, Receives
<1>2. up' \in [Devices -> Seq(FitUp)]
  <2>1. Tail(up[d]) \in Seq(FitUp)  BY <1>1, HeadTailProperties DEF Castable
  <2> QED  BY <1>1, <2>1 DEF Castable
<1>3. UNCHANGED <<client, view, crashed>>
  BY DEF Serve, ServePut, ServeListen, ServeUnlisten, ghosts
<1>4. CASE ServePut(d)
  <2> PICK w : w = Head(up[d]).write  OBVIOUS
  <2>1. w \in FitWrites
    <3>1. Head(up[d]) \in FitUp /\ Head(up[d]).type = "put"
      BY <1>1, <1>4, HeadTailProperties DEF Castable, ServePut, Receives
    <3> QED  BY <3>1 DEF FitUp
  <2>2. record' \in FitRecords
    <3>1. record \in Record /\ record' = Apply(record, w)
      BY <1>4 DEF ServePut, Castable, FitRecords
    <3> QED  BY <2>1, <3>1, FitApply DEF Castable
  <2>3. down' \in [Devices -> Seq(FitDown)]
    <3> DEFINE push(e) == IF listening[e] THEN <<Push(w)>> ELSE <<>>
               ack(e)  == IF e = d THEN <<Msg("ack")>> ELSE <<>>
    <3>1. ASSUME NEW e \in Devices
          PROVE  down[e] \o push(e) \o ack(e) \in Seq(FitDown)
      <4>1. push(e) \in Seq(FitDown) /\ ack(e) \in Seq(FitDown)
        BY <2>1, FitMessages
      <4>2. down[e] \in Seq(FitDown)  BY DEF Castable
      <4> HIDE DEF push, ack
      <4> QED  BY <4>1, <4>2, ConcatProperties
    <3>2. down' = [e \in Devices |-> down[e] \o push(e) \o ack(e)]
      BY <1>4 DEF ServePut
    <3> HIDE DEF push, ack
    <3> QED  BY <3>1, <3>2
  <2> QED  BY <1>2, <1>3, <2>2, <2>3 DEF Castable, client, view
<1>5. CASE ServeListen(d)
  <2> PICK ms : ms = <<Push(WholeRecord(record)), Msg("listening")>>  OBVIOUS
  <2>1. WholeRecord(record) \in FitWrites  BY FitMade DEF Castable
  <2>2. Push(WholeRecord(record)) \in FitDown /\ Msg("listening") \in FitDown
    BY <2>1, FitMessages
  <2>3. ms \in Seq(FitDown)  BY <2>2
  <2>4. down[d] \o ms \in Seq(FitDown)  BY <2>3, ConcatProperties DEF Castable
  <2>5. down' = [down EXCEPT ![d] = @ \o ms] /\ record' = record
    BY <1>5 DEF ServeListen
  <2> QED  BY <1>2, <1>3, <2>4, <2>5 DEF Castable, client, view
<1>6. CASE ServeUnlisten(d)
  BY <1>2, <1>3, <1>6 DEF ServeUnlisten, Castable, client, view
<1> QED  BY <1>4, <1>5, <1>6 DEF Serve

\* A device takes a message: what it loads and queues is fit.
LEMMA ArriveCast ==
    ASSUME Castable, TypeOK, NEW d \in Devices, Arrive(d)
    PROVE  Castable'
<1>1. down[d] # <<>> /\ down' = [down EXCEPT ![d] = Tail(@)]
  BY DEF Arrive, ArrivePush, ArriveAck, ArriveListening, Arrives
<1>2. down' \in [Devices -> Seq(FitDown)]
  <2>1. Tail(down[d]) \in Seq(FitDown)  BY <1>1, HeadTailProperties DEF Castable
  <2> QED  BY <1>1, <2>1 DEF Castable
<1>3. UNCHANGED <<record, up, crashed>>
  BY DEF Arrive, ArrivePush, ArriveAck, ArriveListening, server, ghosts
<1>4. CASE ArrivePush(d)
  <2> PICK w, c, snap : /\ w = Head(down[d]).write /\ c = Apply(cache[d], w)
                        /\ snap = Overlay(c, Pending(d))
    OBVIOUS
  <2>1. UNCHANGED <<writes, acked>>  BY <1>4 DEF ArrivePush, client
  <2>2. CASE UNCHANGED view
    BY <1>2, <1>3, <2>1, <2>2 DEF Castable, view
  <2>3. CASE /\ loaded[d] \/ w.at = "record"
             /\ cache' = [cache EXCEPT ![d] = c]
             /\ loaded' = [loaded EXCEPT ![d] = TRUE]
             /\ main' = [main EXCEPT ![d] = @ \o
                            [i \in DOMAIN waiting[d] |-> [op |-> waiting[d][i], snap |-> snap]]]
    <3>1. w \in FitWrites
      <4>1. Head(down[d]) \in FitDown /\ Head(down[d]).type = "push"
        BY <1>1, <1>4, HeadTailProperties DEF Castable, ArrivePush, Arrives
      <4> QED  BY <4>1 DEF FitDown
    <3>2. c \in FitRecords
      <4>1. cache[d] \in Record  BY DEF TypeOK, LimitsIn, Record
      <4>2. cache[d] \in FitRecords \/ (Known /\ w.at = "record")  BY <2>3 DEF Castable
      <4> QED  BY <3>1, <4>1, <4>2, FitApply
    <3>3. snap \in FitRecords  BY <3>2, FitLocal
    <3> PICK blocks : blocks = [i \in DOMAIN waiting[d] |-> [op |-> waiting[d][i], snap |-> snap]]
      OBVIOUS
    <3>4. blocks \in Seq(FitBlocks)
      <4>1. waiting[d] \in Seq(Ops)  BY DEF TypeOK, ControlOK
      <4>2. \A i \in DOMAIN waiting[d] : [op |-> waiting[d][i], snap |-> snap] \in FitBlocks
        BY <3>3, <4>1 DEF FitBlocks
      <4>3. DOMAIN waiting[d] = 1..Len(waiting[d]) /\ Len(waiting[d]) \in Nat
        BY <4>1, LenProperties
      <4>4. [i \in DOMAIN waiting[d] |-> [op |-> waiting[d][i], snap |-> snap]]
               \in [DOMAIN waiting[d] -> FitBlocks]
        BY ONLY <4>2
      <4>5. blocks \in [1..Len(waiting[d]) -> FitBlocks]  BY <4>3, <4>4
      <4> QED  BY <4>3, <4>5, SeqDef
    <3>5. main[d] \o blocks \in Seq(FitBlocks)  BY <3>4, ConcatProperties DEF Castable
    <3>6. main' = [main EXCEPT ![d] = @ \o blocks]  BY <2>3
    <3>7. main' \in [Devices -> Seq(FitBlocks)]  BY <3>5, <3>6 DEF Castable
    <3>8. \A e \in Devices : loaded'[e] \/ ~Known => cache'[e] \in FitRecords
      BY <2>3, <3>2 DEF Castable, TypeOK, ControlOK, LimitsIn
    <3> QED  BY <1>2, <1>3, <2>1, <3>7, <3>8 DEF Castable
  <2> QED  BY <1>4, <2>2, <2>3 DEF ArrivePush
<1>5. CASE ArriveAck(d)
  <2>1. UNCHANGED <<main, loaded, cache>>  BY <1>5 DEF ArriveAck, view
  <2>2. CASE UNCHANGED <<writes, acked>>  BY <1>2, <1>3, <2>1, <2>2 DEF Castable
  <2>3. CASE writes[d] # <<>>
    <3>1. Tail(writes[d]) \in Seq(FitWrites) /\ Head(writes[d]) \in FitWrites
      BY <2>3, HeadTailProperties DEF Castable
    <3>2. writes' \in [Devices -> Seq(FitWrites)]
      BY <1>5, <2>3, <3>1 DEF ArriveAck, Castable
    <3>3. acked' \in [Devices -> Seq(FitWrites)]
      <4>1. Append(acked[d], Head(writes[d])) \in Seq(FitWrites)  BY <3>1 DEF Castable
      <4> QED  BY <1>5, <2>3, <4>1 DEF ArriveAck, Castable
    <3> QED  BY <1>2, <1>3, <2>1, <3>2, <3>3 DEF Castable
  <2> QED  BY <1>5, <2>2, <2>3 DEF ArriveAck
<1>6. CASE ArriveListening(d)
  <2>1. acked' \in [Devices -> Seq(FitWrites)]
    <3>1. <<>> \in Seq(FitWrites)  BY EmptySeq
    <3> QED  BY <1>6, <3>1 DEF ArriveListening, Castable
  <2>2. UNCHANGED <<writes, main, loaded, cache>>  BY <1>6 DEF ArriveListening, view
  <2> QED  BY <1>2, <1>3, <2>1, <2>2 DEF Castable
<1> QED  BY <1>4, <1>5, <1>6 DEF Arrive

\* The connection breaks or comes back, or the process ends.
LEMMA LinkCast ==
    ASSUME Castable, TypeOK, NEW d \in Devices, Drop(d) \/ Reconnect(d) \/ Kill(d)
    PROVE  Castable'
<1>1. \A S : <<>> \in Seq(S)  BY EmptySeq
<1>2. CASE Drop(d)
  BY <1>1, <1>2 DEF Drop, Castable, view, ghosts
<1>3. CASE Reconnect(d)
  <2> PICK ms : /\ ms = <<>> \/ ms = <<Msg("listen")>>
                /\ up' = [up EXCEPT ![d] = ms \o Puts(writes[d])]
    BY <1>3 DEF Reconnect
  <2>1. ms \in Seq(FitUp)
    <3>1. <<>> \in Seq(FitUp) /\ <<Msg("listen")>> \in Seq(FitUp)  BY FitMessages
    <3> QED  BY <3>1
  <2>2. Puts(writes[d]) \in Seq(FitUp)  BY FitPuts DEF Castable
  <2>3. ms \o Puts(writes[d]) \in Seq(FitUp)  BY <2>1, <2>2, ConcatProperties
  <2>4. up' \in [Devices -> Seq(FitUp)]  BY <2>3 DEF Castable
  <2>5. UNCHANGED <<record, down, writes, acked, main, loaded, cache, crashed>>
    BY <1>3 DEF Reconnect, server, view, ghosts
  <2> QED  BY <2>4, <2>5 DEF Castable
<1>4. CASE Kill(d)
  BY <1>1, <1>4, FitMade DEF Kill, Restart, Castable, TypeOK, ControlOK, LimitsIn
<1> QED  BY <1>2, <1>3, <1>4

\* The user's operations; update is possible only where no record can be without a limit.
LEMMA UserCast ==
    ASSUME Known \/ Budget["update"] = 0, Castable, TypeOK, NEW d \in Devices, User(d)
    PROVE  Castable'
<1>1. CASE SetupUser(d) \/ GetName(d)
  <2>1. Op("setupUser") \in Ops /\ Op("getName") \in Ops  BY DEF Op, Ops
  <2> QED  BY <1>1, <2>1, ObserveCast DEF SetupUser, GetName, server, ghosts
<1>2. CASE Process(d)
  <2>1. PhotoLimit(photo[d]) \in Ops
    BY <1>2 DEF Process, TypeOK, ControlOK, PhotoLimit, Ops
  <2> QED  BY <1>2, <2>1, ObserveCast DEF Process, server, ghosts
<1>3. CASE Update(d)
  <2>1. Known
    <3>1. spent["update"] \in Nat  BY DEF TypeOK, ControlOK, Inputs
    <3> QED  BY <1>3, <3>1 DEF Update, Spend
  <2>2. SetChild \in FitWrites  BY <2>1, FitMade
  <2>3. <<SetChild>> \in Seq(FitWrites) /\ <<Put(SetChild)>> \in Seq(FitUp)
    BY <2>2, FitMessages
  <2>4. /\ writes[d] \o <<SetChild>> \in Seq(FitWrites)
        /\ up[d] \o <<Put(SetChild)>> \in Seq(FitUp)
    BY <2>3, ConcatProperties DEF Castable
  <2>5. writes' \in [Devices -> Seq(FitWrites)] /\ up' \in [Devices -> Seq(FitUp)]
    BY <1>3, <2>4 DEF Update, SetValue, Send, Castable
  <2> QED  BY <1>3, <2>5 DEF Update, Castable, server, view, ghosts
<1>4. CASE Cancel(d) \/ \E p \in Photos : OpenPhoto(d, p)
  BY <1>4 DEF Cancel, OpenPhoto, Castable, server, wire, client, view, ghosts
<1> QED  BY <1>1, <1>2, <1>3, <1>4 DEF User

\* The invariant holds in every reachable state.
LEMMA AlwaysCastable ==
    ASSUME Known \/ Budget["update"] = 0  PROVE Spec => []Castable
<1>1. Init => Castable
  <2> SUFFICES ASSUME Init PROVE Castable  OBVIOUS
  <2>1. \A S : [d \in Devices |-> <<>>] \in [Devices -> Seq(S)]  BY EmptySeq
  <2>2. record \in FitRecords
    BY FitMade, LimitAssumption DEF Init, FitRecords, Fits, Record, RecordOf, Quota, Missing
  <2> QED  BY <2>1, <2>2, FitMade DEF Init, Castable
<1>2. TypeOK /\ Castable /\ [Next]_vars => Castable'
  <2>1. ASSUME TypeOK, Castable, Next  PROVE Castable'
    <3> PICK d \in Devices : \/ User(d) \/ Callback(d) \/ Answer(d) \/ Serve(d) \/ Arrive(d)
                             \/ Drop(d) \/ Reconnect(d) \/ Kill(d)
      BY <2>1 DEF Next
    <3>1. CASE Answer(d)
      BY <2>1, <3>1 DEF Answer, Detected, Castable, server, wire, client, view, ghosts
    <3> QED
      BY <2>1, <3>1, UserCast, CallbackCast, ServeCast, ArriveCast, LinkCast
  <2>2. ASSUME Castable, UNCHANGED vars  PROVE Castable'
    BY <2>2 DEF Castable, vars, server, wire, client, view, ghosts
  <2> QED  BY <2>1, <2>2
<1> QED  BY <1>1, <1>2, TypeCorrect, PTL DEF Spec

(***************************************************************************)
(* The forced cast in photoLimit never fails for a user whose record was   *)
(* there before, nor while no profile picture is stored: it takes a        *)
(* picture stored before the record.                                       *)
(***************************************************************************)
THEOREM CastNeverFails ==
    ASSUME Known \/ Budget["update"] = 0  PROVE Spec => []CastHolds
<1>1. Castable => CastHolds  BY DEF Castable, CastHolds
<1> QED  BY <1>1, AlwaysCastable, PTL

-----------------------------------------------------------------------------
(***************************************************************************)
(* Spinners.                                                               *)
(***************************************************************************)

\* What the step of a device leaves of another one.
LEMMA ElsewhereUnderWay ==
    ASSUME NEW e \in Devices, NEW p \in Photos, UnderWay(e, p),
           waiting'[e] = waiting[e], main'[e] = main[e], detecting'[e] = detecting[e]
    PROVE  UnderWay(e, p)'
BY DEF UnderWay

\* A step of device d that turns no other spinner on.
LEMMA SpinOf ==
    ASSUME SpinnerMeansWork, NEW d \in Devices,
           \A e \in Devices \ {d} :
               /\ waiting'[e] = waiting[e] /\ main'[e] = main[e]
               /\ detecting'[e] = detecting[e] /\ spinning'[e] = spinning[e],
           spinning'[d] \in SUBSET Photos,
           \A e \in Devices : spinning[e] \in SUBSET Photos,
           \A p \in spinning'[d] : UnderWay(d, p)'
    PROVE  SpinnerMeansWork'
<1>1. ASSUME NEW e \in Devices, NEW p \in spinning'[e]  PROVE UnderWay(e, p)'
  <2>1. CASE e = d  BY <1>1, <2>1
  <2>2. CASE e # d
    <3>1. p \in spinning[e] /\ p \in Photos  BY <1>1, <2>2
    <3>2. UnderWay(e, p)  BY <3>1 DEF SpinnerMeansWork
    <3> QED  BY <2>2, <3>1, <3>2, ElsewhereUnderWay
  <2> QED  BY <2>1, <2>2
<1> QED  BY <1>1 DEF SpinnerMeansWork

\* A request stays under way when another one is made, and the new one is.
LEMMA ObserveUnderWay ==
    ASSUME TypeOK, NEW d \in Devices, NEW op, Observe(d, op), NEW p \in Photos,
           UNCHANGED detecting, UnderWay(d, p) \/ op = PhotoLimit(p)
    PROVE  UnderWay(d, p)'
<1>1. waiting[d] \in Seq(Ops) /\ main[d] \in Seq(BlockOf(Quota))
  BY DEF TypeOK, ControlOK, LimitsIn
<1>2. \/ /\ waiting'[d] = waiting[d]
         /\ \E b : b.op = op /\ main'[d] = Append(main[d], b)
      \/ main'[d] = main[d] /\ waiting'[d] = Append(waiting[d], op)
  BY DEF Observe, TypeOK, ControlOK, LimitsIn
<1>3. CASE main'[d] = main[d] /\ waiting'[d] = Append(waiting[d], op)
  <2>1. /\ Len(waiting[d]) + 1 \in DOMAIN waiting'[d]
        /\ waiting'[d][Len(waiting[d]) + 1] = op
        /\ \A i \in DOMAIN waiting[d] : i \in DOMAIN waiting'[d] /\ waiting'[d][i] = waiting[d][i]
    BY <1>1, <1>3
  <2> QED  BY <1>3, <2>1 DEF UnderWay
<1>4. ASSUME NEW b, b.op = op, main'[d] = Append(main[d], b), waiting'[d] = waiting[d]
      PROVE  UnderWay(d, p)'
  <2>1. /\ Len(main[d]) + 1 \in DOMAIN main'[d]
        /\ main'[d][Len(main[d]) + 1] = b
        /\ \A i \in DOMAIN main[d] : i \in DOMAIN main'[d] /\ main'[d][i] = main[d][i]
    BY <1>1, <1>4
  <2> QED  BY <1>4, <2>1 DEF UnderWay
<1> QED  BY <1>2, <1>3, <1>4

\* A callback ends the request it is for, and no other.
LEMMA FireUnderWay ==
    ASSUME TypeOK, NEW d \in Devices, main[d] # <<>>, NEW ws, Fire(d, ws), NEW p \in Photos,
           UnderWay(d, p), detecting'[d][p] >= detecting[d][p], detecting'[d][p] \in Nat,
           Head(main[d]).op = PhotoLimit(p) => detecting'[d][p] > 0
    PROVE  UnderWay(d, p)'
<1>1. main[d] \in Seq(BlockOf(Quota)) /\ detecting[d][p] \in Nat
  BY DEF TypeOK, ControlOK, LimitsIn
<1>2. main'[d] = Tail(main[d]) /\ waiting' = waiting
  BY DEF Fire, TypeOK, LimitsIn
<1>3. CASE detecting[d][p] > 0 \/ Head(main[d]).op = PhotoLimit(p)
  BY <1>1, <1>3 DEF UnderWay
<1>4. CASE \E i \in DOMAIN waiting[d] : waiting[d][i] = PhotoLimit(p)
  BY <1>2, <1>4 DEF UnderWay
<1>5. ASSUME NEW i \in DOMAIN main[d], main[d][i].op = PhotoLimit(p),
             Head(main[d]).op # PhotoLimit(p)
      PROVE  UnderWay(d, p)'
  <2>1. i - 1 \in DOMAIN Tail(main[d]) /\ Tail(main[d])[i - 1] = main[d][i]
    <3>1. i # 1  BY <1>1, <1>5
    <3> QED  BY <1>1, <3>1
  <2> QED  BY <1>2, <1>5, <2>1 DEF UnderWay
<1> QED  BY <1>3, <1>4, <1>5 DEF UnderWay

\* A request that waited is in the queue when the record has come.
LEMMA PushUnderWay ==
    ASSUME TypeOK, NEW d \in Devices, ArrivePush(d), NEW p \in Photos, UnderWay(d, p)
    PROVE  UnderWay(d, p)'
<1>1. waiting[d] \in Seq(Ops) /\ main[d] \in Seq(BlockOf(Quota)) /\ detecting' = detecting
  BY DEF TypeOK, ControlOK, LimitsIn, ArrivePush, screen
<1>2. CASE UNCHANGED view
  BY <1>1, <1>2 DEF UnderWay, view
<1>3. CASE ~UNCHANGED view
  <2> PICK snap : main' = [main EXCEPT ![d] = @ \o
                              [i \in DOMAIN waiting[d] |-> [op |-> waiting[d][i], snap |-> snap]]]
    BY <1>3 DEF ArrivePush
  <2> PICK blocks : blocks = [i \in DOMAIN waiting[d] |-> [op |-> waiting[d][i], snap |-> snap]]
    OBVIOUS
  <2>1. main'[d] = main[d] \o blocks  BY DEF TypeOK, LimitsIn
  <2>2. DOMAIN blocks = 1..Len(waiting[d]) /\ Len(waiting[d]) \in Nat
    BY <1>1, LenProperties
  <2>3. blocks \in Seq({blocks[i] : i \in 1..Len(waiting[d])})
    <3>1. \A i \in 1..Len(waiting[d]) : blocks[i] \in {blocks[j] : j \in 1..Len(waiting[d])}
      OBVIOUS
    <3>2. blocks = [i \in 1..Len(waiting[d]) |-> blocks[i]]  BY <2>2
    <3>3. blocks \in [1..Len(waiting[d]) -> {blocks[i] : i \in 1..Len(waiting[d])}]
      BY ONLY <3>1, <3>2
    <3> PICK n, B : n = Len(waiting[d]) /\ B = {blocks[i] : i \in 1..Len(waiting[d])}  OBVIOUS
    <3>4. n \in Nat /\ blocks \in [1..n -> B]  BY <2>2, <3>3
    <3>5. blocks \in Seq(B)  BY ONLY <3>4
    <3> QED  BY <3>5
  <2>4. Len(blocks) = Len(waiting[d])  BY <2>2, <2>3, LenProperties
  <2> DEFINE S == BlockOf(Quota) \cup {blocks[i] : i \in 1..Len(waiting[d])}
  <2>5. main[d] \in Seq(S) /\ blocks \in Seq(S)  BY <1>1, <2>3, SeqMonotonic
  <2>6. /\ Len(main[d] \o blocks) = Len(main[d]) + Len(blocks)
        /\ \A i \in 1 .. Len(main[d]) + Len(blocks) :
              (main[d] \o blocks)[i] = IF i <= Len(main[d]) THEN main[d][i]
                                       ELSE blocks[i - Len(main[d])]
        /\ main[d] \o blocks \in Seq(S)
    <3> HIDE DEF S
    <3> QED  BY <2>5, ConcatProperties
  <2>7. DOMAIN main'[d] = 1..(Len(main[d]) + Len(waiting[d])) /\ Len(main[d]) \in Nat
        /\ DOMAIN main[d] = 1..Len(main[d])
    BY <1>1, <2>1, <2>4, <2>6, LenProperties
  <2>8. ASSUME NEW i \in DOMAIN main[d]
        PROVE  i \in DOMAIN main'[d] /\ main'[d][i] = main[d][i]
    BY <2>1, <2>2, <2>4, <2>6, <2>7
  <2>9. ASSUME NEW i \in DOMAIN waiting[d]
        PROVE  /\ Len(main[d]) + i \in DOMAIN main'[d]
               /\ main'[d][Len(main[d]) + i].op = waiting[d][i]
    <3>1. i \in 1..Len(waiting[d])  BY <1>1, LenProperties
    <3> PICK k : k = Len(main[d]) + i  OBVIOUS
    <3>2. k \in DOMAIN main'[d] /\ ~ (k <= Len(main[d])) /\ k - Len(main[d]) = i
      <4>1. \A n, m \in Nat : i \in 1..m => /\ n + i \in 1..(n + m) /\ ~ (n + i <= n)
                                           /\ (n + i) - n = i
        OBVIOUS
      <4>2. DOMAIN main'[d] = 1..(Len(main[d]) + Len(waiting[d])) /\ Len(main[d]) \in Nat
        BY <2>7
      <4>3. /\ k \in 1..(Len(main[d]) + Len(waiting[d])) /\ ~ (k <= Len(main[d]))
            /\ k - Len(main[d]) = i
        BY <2>2, <3>1, <4>1, <4>2
      <4> QED  BY <4>2, <4>3
    <3>3. main'[d][k] = blocks[i]  BY <2>1, <2>2, <2>4, <2>6, <2>7, <3>1, <3>2
    <3>4. blocks[i].op = waiting[d][i]  OBVIOUS
    <3> QED  BY <3>2, <3>3, <3>4
  <2> QED  BY <1>1, <2>8, <2>9 DEF UnderWay
<1> QED  BY <1>2, <1>3

\* A callback: Grant moves the request to the detector, Deny stops the spinner.
LEMMA CallbackSpin ==
    ASSUME Known, TypeOK, Castable, SpinnerMeansWork, NEW d \in Devices, Callback(d)
    PROVE  SpinnerMeansWork'
<1>1. /\ main[d] # <<>> /\ Head(main[d]).op \in Ops
      /\ \A e \in Devices : spinning[e] \in SUBSET Photos
      /\ \A e \in Devices : \A p \in Photos : detecting[e][p] \in Nat
      /\ \A e \in Devices : DOMAIN detecting[e] = Photos
  <2>1. main[d] # <<>>
    BY DEF Callback, SetupCallback, GetNameCallback, Grant, Deny, NoAnswer, BadCast, Fires
  <2> QED  BY <2>1, FirstBlock DEF TypeOK, ControlOK
<1>2. Snap(d).limit # Missing
  <2>1. main[d] \in Seq(FitBlocks)  BY DEF Castable
  <2>2. Head(main[d]) \in FitBlocks  BY <1>1, <2>1
  <2> QED  BY <2>2 DEF FitBlocks, Snap, FitRecords, Fits
<1>3. ~NoAnswer(d) /\ ~BadCast(d)  BY <1>2 DEF NoAnswer, BadCast, NoRecord
<1>4. ASSUME NEW ws, Fire(d, ws)
      PROVE  \A e \in Devices \ {d} : waiting'[e] = waiting[e] /\ main'[e] = main[e]
  BY <1>4 DEF Fire, TypeOK, LimitsIn
<1>5. ASSUME NEW p \in spinning[d]  PROVE UnderWay(d, p) /\ p \in Photos
  BY <1>1 DEF SpinnerMeansWork
<1>6. CASE SetupCallback(d) \/ GetNameCallback(d)
  <2>1. PICK ws : Fire(d, ws)  BY <1>6 DEF SetupCallback, GetNameCallback
  <2>2. UNCHANGED <<spinning, detecting>>
    BY <1>6 DEF SetupCallback, GetNameCallback, screen
  <2>3. Head(main[d]).op.type # "photoLimit"
    BY <1>6 DEF SetupCallback, GetNameCallback, Fires
  <2>4. \A p \in Photos : Head(main[d]).op # PhotoLimit(p)  BY <2>3 DEF PhotoLimit
  <2>5. ASSUME NEW p \in spinning'[d]  PROVE UnderWay(d, p)'
    <3>1. UnderWay(d, p) /\ p \in Photos  BY <1>5, <2>2
    <3> QED  BY <1>1, <2>1, <2>2, <2>4, <3>1, FireUnderWay
  <2> QED  BY <1>1, <1>4, <2>1, <2>2, <2>5, SpinOf
<1>7. CASE Grant(d)
  <2>1. PICK ws : Fire(d, ws)  BY <1>7 DEF Grant
  <2>2. /\ spinning' = spinning /\ Asked(d) \in Photos
        /\ Head(main[d]).op = PhotoLimit(Asked(d))
        /\ detecting' = [detecting EXCEPT ![d][Asked(d)] = @ + 1]
    BY <1>1, <1>7 DEF Grant, Fires, Ops, Asked, PhotoLimit
  <2>3. /\ \A e \in Devices \ {d} : detecting'[e] = detecting[e]
        /\ detecting'[d] = [detecting[d] EXCEPT ![Asked(d)] = @ + 1]
    BY <2>2 DEF TypeOK, ControlOK
  <2>4. ASSUME NEW p \in Photos
        PROVE  /\ detecting'[d][p] >= detecting[d][p] /\ detecting'[d][p] \in Nat
               /\ p = Asked(d) => detecting'[d][p] > 0
    BY <1>1, <2>2, <2>3
  <2>5. ASSUME NEW p \in spinning'[d]  PROVE UnderWay(d, p)'
    <3>1. UnderWay(d, p) /\ p \in Photos  BY <1>5, <2>2
    <3>2. Head(main[d]).op = PhotoLimit(p) => p = Asked(d)  BY DEF Asked, PhotoLimit
    <3> QED  BY <1>1, <2>1, <2>4, <3>1, <3>2, FireUnderWay
  <2> QED  BY <1>1, <1>4, <2>1, <2>2, <2>3, <2>5, SpinOf
<1>8. CASE Deny(d)
  <2>1. PICK ws : Fire(d, ws)  BY <1>8 DEF Deny
  <2>2. /\ spinning' = [spinning EXCEPT ![d] = @ \ {Asked(d)}]
        /\ detecting' = detecting
    BY <1>8 DEF Deny
  <2>3. /\ spinning'[d] = spinning[d] \ {Asked(d)}
        /\ \A e \in Devices \ {d} : spinning'[e] = spinning[e]
    BY <2>2 DEF TypeOK, ControlOK
  <2>4. ASSUME NEW p \in spinning'[d]  PROVE UnderWay(d, p)'
    <3>1. UnderWay(d, p) /\ p \in Photos /\ p # Asked(d)  BY <1>5, <2>3
    <3>2. Head(main[d]).op # PhotoLimit(p)  BY <3>1 DEF Asked, PhotoLimit
    <3> QED  BY <1>1, <2>1, <2>2, <3>1, <3>2, FireUnderWay
  <2> QED  BY <1>1, <1>4, <2>1, <2>2, <2>3, <2>4, SpinOf
<1> QED  BY <1>3, <1>6, <1>7, <1>8 DEF Callback

\* The user's operations; Process turns a spinner on and makes its request.
LEMMA UserSpin ==
    ASSUME TypeOK, SpinnerMeansWork, NEW d \in Devices, User(d)
    PROVE  SpinnerMeansWork'
<1>1. \A e \in Devices : spinning[e] \in SUBSET Photos  BY DEF TypeOK, ControlOK
<1>2. ASSUME NEW op, Observe(d, op)
      PROVE  \A e \in Devices \ {d} : waiting'[e] = waiting[e] /\ main'[e] = main[e]
  BY <1>2 DEF Observe, TypeOK, ControlOK, LimitsIn
<1>3. CASE SetupUser(d) \/ GetName(d)
  <2>1. PICK op : Observe(d, op)  BY <1>3 DEF SetupUser, GetName
  <2>2. UNCHANGED <<spinning, detecting>>  BY <1>3 DEF SetupUser, GetName, screen
  <2>3. ASSUME NEW p \in spinning'[d]  PROVE UnderWay(d, p)'
    BY <1>1, <2>1, <2>2, ObserveUnderWay DEF SpinnerMeansWork
  <2> QED  BY <1>1, <1>2, <2>1, <2>2, <2>3, SpinOf
<1>4. CASE Process(d)
  <2>1. /\ Observe(d, PhotoLimit(photo[d])) /\ detecting' = detecting
        /\ spinning' = [spinning EXCEPT ![d] = @ \cup {photo[d]}]
        /\ photo[d] \in Photos
    BY <1>4 DEF Process, TypeOK, ControlOK
  <2>2. /\ spinning'[d] = spinning[d] \cup {photo[d]}
        /\ \A e \in Devices \ {d} : spinning'[e] = spinning[e]
    BY <2>1 DEF TypeOK, ControlOK
  <2>3. ASSUME NEW p \in spinning'[d]  PROVE UnderWay(d, p)'
    <3>1. p \in Photos /\ (UnderWay(d, p) \/ p = photo[d])
      BY <1>1, <2>1, <2>2 DEF SpinnerMeansWork
    <3> QED  BY <2>1, <3>1, ObserveUnderWay
  <2> QED  BY <1>1, <1>2, <2>1, <2>2, <2>3, SpinOf
<1>5. CASE Update(d) \/ Cancel(d) \/ \E p \in Photos : OpenPhoto(d, p)
  BY <1>5 DEF Update, Cancel, OpenPhoto, view, screen, SpinnerMeansWork, UnderWay
<1> QED  BY <1>3, <1>4, <1>5 DEF User

\* The detector, the network, the server and the end of the process.
LEMMA OtherSpin ==
    ASSUME TypeOK, SpinnerMeansWork, NEW d \in Devices,
           Answer(d) \/ Serve(d) \/ Arrive(d) \/ Drop(d) \/ Reconnect(d) \/ Kill(d)
    PROVE  SpinnerMeansWork'
<1>1. \A e \in Devices : spinning[e] \in SUBSET Photos  BY DEF TypeOK, ControlOK
<1>2. CASE Answer(d)
  <2> PICK q \in Photos : Detected(d, q)  BY <1>2 DEF Answer
  <2>1. /\ spinning' = [spinning EXCEPT ![d] = @ \ {q}]
        /\ detecting' = [detecting EXCEPT ![d][q] = @ - 1]
        /\ UNCHANGED <<waiting, main>>
    BY DEF Detected, view
  <2>2. /\ spinning'[d] = spinning[d] \ {q}
        /\ \A e \in Devices \ {d} : spinning'[e] = spinning[e] /\ detecting'[e] = detecting[e]
        /\ \A p \in Photos \ {q} : detecting'[d][p] = detecting[d][p]
    BY <2>1 DEF TypeOK, ControlOK
  <2>3. ASSUME NEW p \in spinning'[d]  PROVE UnderWay(d, p)'
    <3>1. p \in Photos \ {q} /\ UnderWay(d, p)  BY <1>1, <2>2 DEF SpinnerMeansWork
    <3> QED  BY <2>1, <2>2, <3>1 DEF UnderWay
  <2> QED  BY <1>1, <2>1, <2>2, <2>3, SpinOf
<1>3. CASE Serve(d) \/ Drop(d) \/ Reconnect(d) \/ ArriveAck(d) \/ ArriveListening(d)
  <2>1. UNCHANGED <<waiting, main, detecting, spinning>>
    BY <1>3 DEF Serve, ServePut, ServeListen, ServeUnlisten, Drop, Reconnect, ArriveAck,
                ArriveListening, view, screen
  <2> QED  BY <2>1 DEF SpinnerMeansWork, UnderWay
<1>4. CASE ArrivePush(d)
  <2>1. UNCHANGED <<detecting, spinning>>  BY <1>4 DEF ArrivePush, screen
  <2>2. \A e \in Devices \ {d} : waiting'[e] = waiting[e] /\ main'[e] = main[e]
    <3>1. /\ main' = main \/ \E x : main' = [main EXCEPT ![d] = x]
          /\ waiting' = waiting \/ waiting' = [waiting EXCEPT ![d] = <<>>]
      BY <1>4 DEF ArrivePush, view
    <3> QED  BY <3>1 DEF TypeOK, ControlOK, LimitsIn
  <2>3. ASSUME NEW p \in spinning'[d]  PROVE UnderWay(d, p)'
    BY <1>1, <1>4, <2>1, PushUnderWay DEF SpinnerMeansWork
  <2> QED  BY <1>1, <2>1, <2>2, <2>3, SpinOf
<1>5. CASE Kill(d)
  <2>1. /\ spinning'[d] = {}
        /\ \A e \in Devices \ {d} : /\ waiting'[e] = waiting[e] /\ main'[e] = main[e]
                                  /\ detecting'[e] = detecting[e] /\ spinning'[e] = spinning[e]
    BY <1>5 DEF Kill, Restart, TypeOK, ControlOK, LimitsIn
  <2> QED  BY <1>1, <2>1, SpinOf
<1> QED  BY <1>2, <1>3, <1>4, <1>5 DEF Arrive

(***************************************************************************)
(* For a user who has a record, the spinner of a photo turns only while a  *)
(* request of it is with the database or the detector, however often       *)
(* Process is tapped and whatever the connection does.                     *)
(***************************************************************************)
THEOREM SpinnerAlwaysMeansWork == ASSUME Known PROVE Spec => []SpinnerMeansWork
<1>1. Init => SpinnerMeansWork
  <2> SUFFICES ASSUME Init PROVE SpinnerMeansWork  OBVIOUS
  <2>1. \A d \in Devices : spinning[d] = {}  BY DEF Init
  <2> QED  BY <2>1 DEF SpinnerMeansWork
<1>2. TypeOK /\ Castable /\ SpinnerMeansWork /\ [Next]_vars => SpinnerMeansWork'
  <2>1. ASSUME TypeOK, Castable, SpinnerMeansWork, Next  PROVE SpinnerMeansWork'
    BY <2>1, UserSpin, CallbackSpin, OtherSpin DEF Next
  <2>2. ASSUME SpinnerMeansWork, UNCHANGED vars  PROVE SpinnerMeansWork'
    BY <2>2 DEF SpinnerMeansWork, UnderWay, vars, view, screen
  <2> QED  BY <2>1, <2>2
<1> QED  BY <1>1, <1>2, TypeCorrect, AlwaysCastable, PTL DEF Spec

-----------------------------------------------------------------------------
(***************************************************************************)
(* Counting the messages on a connection.                                  *)
(***************************************************************************)

\* A number, which no message changes that is not counted.
LEMMA NumberType ==
    ASSUME NEW ms, NEW T, NEW n \in Nat
    PROVE  /\ IsFiniteSet({i \in 1..n : ms[i].type \in T})
           /\ Number(ms, T, n) \in Nat
<1>1. {i \in 1..n : ms[i].type \in T} \in SUBSET (1..n)  OBVIOUS
<1>2. IsFiniteSet(1..n)  BY FS_Interval
<1>3. IsFiniteSet({i \in 1..n : ms[i].type \in T})  BY <1>1, <1>2, FS_Subset
<1> QED  BY <1>3, FS_CardinalityType DEF Number

\* None of no messages.
LEMMA NumberNone == ASSUME NEW ms, NEW T  PROVE Number(ms, T, 0) = 0
<1>1. {i \in 1..0 : ms[i].type \in T} = {}  OBVIOUS
<1> QED  BY <1>1, FS_EmptySet DEF Number

\* One message more.
LEMMA NumberNext ==
    ASSUME NEW ms, NEW T, NEW n \in Nat
    PROVE  Number(ms, T, n + 1) = Number(ms, T, n) + (IF ms[n + 1].type \in T THEN 1 ELSE 0)
<1> DEFINE S == {i \in 1..n : ms[i].type \in T}
<1>1. IsFiniteSet(S)  BY NumberType
<1>2. n + 1 \notin S  OBVIOUS
<1>3. CASE ms[n + 1].type \in T
  <2>1. {i \in 1..(n + 1) : ms[i].type \in T} = S \cup {n + 1}  BY <1>3
  <2>7. Number(ms, T, n) \in Nat  BY NumberType
  <2> HIDE DEF S
  <2>2. Cardinality(S \cup {n + 1}) = Cardinality(S) + 1  BY <1>1, <1>2, FS_AddElement
  <2>3. Number(ms, T, n) = Cardinality(S)  BY DEF Number, S
  <2>4. Number(ms, T, n + 1) = Cardinality(S \cup {n + 1})  BY <2>1 DEF Number
  <2>5. (IF ms[n + 1].type \in T THEN 1 ELSE 0) = 1  BY <1>3
  <2>6. Number(ms, T, n + 1) = Number(ms, T, n) + 1  BY ONLY <2>2, <2>3, <2>4
  <2> QED  BY ONLY <2>5, <2>6, <2>7
<1>4. CASE ms[n + 1].type \notin T
  <2>1. {i \in 1..(n + 1) : ms[i].type \in T} = S  BY <1>4
  <2>2. Number(ms, T, n) \in Nat  BY NumberType
  <2>3. Number(ms, T, n + 1) = Number(ms, T, n)  BY ONLY <2>1 DEF Number, S
  <2>4. (IF ms[n + 1].type \in T THEN 1 ELSE 0) = 0  BY <1>4
  <2> QED  BY ONLY <2>2, <2>3, <2>4
<1> QED  BY <1>3, <1>4

\* More messages give no smaller number.
LEMMA NumberGrows ==
    ASSUME NEW ms, NEW T, NEW n \in Nat, NEW m \in 0..n
    PROVE  Number(ms, T, m) <= Number(ms, T, n)
<1> PICK S : S = {i \in 1..n : ms[i].type \in T}  OBVIOUS
<1>1. IsFiniteSet(S)  BY NumberType
<1>2. {i \in 1..m : ms[i].type \in T} \in SUBSET S  OBVIOUS
<1>3. Cardinality({i \in 1..m : ms[i].type \in T}) <= Cardinality(S)  BY <1>1, <1>2, FS_Subset
<1> QED  BY <1>3 DEF Number

\* The numbers depend on the types only.
LEMMA NumberSame ==
    ASSUME NEW ms, NEW ls, NEW T, NEW n \in Nat,
           \A i \in 1..n : ms[i].type \in T <=> ls[i].type \in T
    PROVE  Number(ms, T, n) = Number(ls, T, n)
<1>1. {i \in 1..n : ms[i].type \in T} = {i \in 1..n : ls[i].type \in T}  OBVIOUS
<1> QED  BY <1>1 DEF Number

\* The first n messages of ls are those of ms behind its first k.
Behind(ms, ls, k, n) == \A i \in 1..n : ms[k + i].type = ls[i].type

\* Behind the first k come as many more as ls has.
LEMMA NumberMoved ==
    ASSUME NEW ms, NEW ls, NEW T, NEW n \in Nat, NEW k \in Nat, Behind(ms, ls, k, n)
    PROVE  Number(ms, T, k + n) = Number(ms, T, k) + Number(ls, T, n)
<1> USE DEF Behind
<1> DEFINE A == {i \in 1..k : ms[i].type \in T}
           B == {i \in 1..n : ls[i].type \in T}
           C == {k + i : i \in B}
           f == [i \in B |-> k + i]
<1>1. IsFiniteSet(A) /\ IsFiniteSet(B)  BY NumberType
<1>2. IsFiniteSet(C) /\ Cardinality(C) = Cardinality(B)
  <2>1. f \in [B -> C] /\ (\A x, y \in B : f[x] = f[y] => x = y) /\ (\A c \in C : \E b \in B : f[b] = c)
    OBVIOUS
  <2>2. ExistsBijection(B, C)
    <3>1. f \in Bijection(B, C)
      BY <2>1 DEF Bijection, Injection, Surjection, IsInjective
    <3> QED  BY <3>1 DEF ExistsBijection
  <2> QED  BY <1>1, <2>2, FS_Bijection
<1>3. {i \in 1..(k + n) : ms[i].type \in T} = A \cup C
  <2>1. ASSUME NEW i \in 1..(k + n), ms[i].type \in T  PROVE i \in A \cup C
    <3>1. CASE i <= k  BY <2>1, <3>1
    <3>2. CASE i > k
      <4>1. i - k \in 1..n /\ k + (i - k) = i  BY <3>2
      <4> QED  BY <2>1, <4>1
    <3> QED  BY <3>1, <3>2
  <2>2. \A i \in A \cup C : i \in 1..(k + n) /\ ms[i].type \in T  OBVIOUS
  <2> QED  BY <2>1, <2>2
<1>4. A \cap C = {}  OBVIOUS
<1>5. Cardinality(A \cup C) = Cardinality(A) + Cardinality(C)
  <2> HIDE DEF A, C
  <2>1. Cardinality(A \cap C) = 0  BY <1>4, FS_EmptySet
  <2>2. Cardinality(A) \in Nat /\ Cardinality(C) \in Nat  BY <1>1, <1>2, FS_CardinalityType
  <2>3. Cardinality(A \cup C) = Cardinality(A) + Cardinality(C) - Cardinality(A \cap C)
    BY <1>1, <1>2, FS_Union
  <2> QED  BY <2>1, <2>2, <2>3
<1> QED  BY <1>2, <1>3, <1>5 DEF Number

\* The messages behind the first.
LEMMA NumberTail ==
    ASSUME NEW S, NEW ms \in Seq(S), ms # <<>>, NEW T, NEW n \in Nat, n + 1 <= Len(ms)
    PROVE  Number(ms, T, n + 1) = (IF Head(ms).type \in T THEN 1 ELSE 0) + Number(Tail(ms), T, n)
<1>1. \A i \in 1..n : ms[1 + i].type = Tail(ms)[i].type
  BY HeadTailProperties, LenProperties
<1>2. Number(ms, T, 1 + n) = Number(ms, T, 1) + Number(Tail(ms), T, n)
  <2>1. 1 \in Nat  OBVIOUS
  <2>2. Behind(ms, Tail(ms), 1, n)  BY <1>1 DEF Behind
  <2> QED  BY <2>1, <2>2, NumberMoved
<1>3. Number(ms, T, 0 + 1) = Number(ms, T, 0) + (IF ms[0 + 1].type \in T THEN 1 ELSE 0)
  BY NumberNext
<1>4. Head(ms) = ms[1] /\ 1 + n = n + 1  OBVIOUS
<1> QED  BY <1>2, <1>3, <1>4, NumberNone

\* All the messages and those behind the first.
LEMMA CountTail ==
    ASSUME NEW S, NEW ms \in Seq(S), ms # <<>>, NEW T
    PROVE  Count(ms, T) = (IF Head(ms).type \in T THEN 1 ELSE 0) + Count(Tail(ms), T)
<1>1. Len(Tail(ms)) \in Nat /\ Len(Tail(ms)) + 1 = Len(ms)
  BY HeadTailProperties, LenProperties, EmptySeq
<1> QED  BY <1>1, NumberTail DEF Count

\* Messages sent behind others.
LEMMA NumberFront ==
    ASSUME NEW S, NEW s \in Seq(S), NEW t \in Seq(S), NEW T, NEW n \in 0..Len(s)
    PROVE  Number(s \o t, T, n) = Number(s, T, n)
<1> PICK c : c = s \o t  OBVIOUS
<1>1. /\ Len(s) \in Nat /\ Len(t) \in Nat
      /\ \A i \in 1 .. Len(s) + Len(t) : c[i] = IF i <= Len(s) THEN s[i] ELSE t[i - Len(s)]
  BY ConcatProperties, LenProperties
<1>2. \A i \in 1..n : c[i] = s[i]  BY <1>1
<1>3. n \in Nat  BY <1>1
<1> QED  BY <1>2, <1>3, NumberSame

\* And as many of those behind as there were, with all those in front.
LEMMA NumberRear ==
    ASSUME NEW S, NEW s \in Seq(S), NEW t \in Seq(S), NEW T, NEW n \in 0..Len(t)
    PROVE  Number(s \o t, T, Len(s) + n) = Count(s, T) + Number(t, T, n)
<1> PICK c : c = s \o t  OBVIOUS
<1>1. /\ Len(s) \in Nat /\ Len(t) \in Nat
      /\ \A i \in 1 .. Len(s) + Len(t) : c[i] = IF i <= Len(s) THEN s[i] ELSE t[i - Len(s)]
  BY ConcatProperties, LenProperties
<1>2. Behind(c, t, Len(s), n)
  <2>1. ASSUME NEW i \in 1..n  PROVE c[Len(s) + i].type = t[i].type
    <3> PICK k : k = Len(s) + i  OBVIOUS
    <3>1. k \in 1 .. Len(s) + Len(t) /\ ~ (k <= Len(s)) /\ k - Len(s) = i  BY <1>1
    <3> QED  BY <1>1, <3>1
  <2> QED  BY <2>1 DEF Behind
<1>3. n \in Nat  BY <1>1
<1>4. Number(c, T, Len(s) + n) = Number(c, T, Len(s)) + Number(t, T, n)
  BY <1>1, <1>2, <1>3, NumberMoved
<1>5. Len(s) \in 0..Len(s)  BY <1>1
<1>6. Number(c, T, Len(s)) = Number(s, T, Len(s))  BY <1>5, NumberFront
<1> QED  BY <1>4, <1>6 DEF Count

\* All of them.
LEMMA CountConcat ==
    ASSUME NEW S, NEW s \in Seq(S), NEW t \in Seq(S), NEW T
    PROVE  Count(s \o t, T) = Count(s, T) + Count(t, T)
<1>1. Len(t) \in 0..Len(t) /\ Len(s \o t) = Len(s) + Len(t)
  BY ConcatProperties, LenProperties
<1>2. Number(s \o t, T, Len(s) + Len(t)) = Count(s, T) + Number(t, T, Len(t))
  BY <1>1, NumberRear
<1> QED  BY <1>1, <1>2 DEF Count

\* One message, two, or none.
LEMMA CountFew ==
    ASSUME NEW T
    PROVE  /\ Count(<<>>, T) = 0
           /\ \A m : Count(<<m>>, T) = IF m.type \in T THEN 1 ELSE 0
           /\ \A m, l : Count(<<m, l>>, T) = (IF m.type \in T THEN 1 ELSE 0)
                                          + (IF l.type \in T THEN 1 ELSE 0)
<1>1. Len(<<>>) = 0 /\ Count(<<>>, T) = 0  BY NumberNone DEF Count
<1>2. ASSUME NEW m  PROVE Count(<<m>>, T) = IF m.type \in T THEN 1 ELSE 0
  <2>1. Number(<<m>>, T, 0 + 1) = Number(<<m>>, T, 0) + (IF <<m>>[0 + 1].type \in T THEN 1 ELSE 0)
    BY NumberNext
  <2>2. Len(<<m>>) = 0 + 1 /\ <<m>>[0 + 1] = m  OBVIOUS
  <2> QED  BY <2>1, <2>2, NumberNone DEF Count
<1>3. ASSUME NEW m, NEW l
      PROVE  Count(<<m, l>>, T) = (IF m.type \in T THEN 1 ELSE 0) + (IF l.type \in T THEN 1 ELSE 0)
  <2> PICK b : b = <<m, l>>  OBVIOUS
  <2>1. Len(b) = 2 /\ b[0 + 1] = m /\ b[1 + 1] = l  OBVIOUS
  <2>2. 0 \in Nat /\ 1 \in Nat  OBVIOUS
  <2>3. Number(b, T, 0 + 1) = Number(b, T, 0) + (IF b[0 + 1].type \in T THEN 1 ELSE 0)
    BY ONLY <2>2, NumberNext, Zenon
  <2>4. Number(b, T, 1 + 1) = Number(b, T, 1) + (IF b[1 + 1].type \in T THEN 1 ELSE 0)
    BY ONLY <2>2, NumberNext, Zenon
  <2> QED  BY <2>1, <2>3, <2>4, NumberNone DEF Count
<1> QED  BY <1>1, <1>2, <1>3

\* All the messages that send writes again, and nothing else.
LEMMA CountPuts ==
    ASSUME NEW S, NEW ws \in Seq(S)
    PROVE  /\ \A n \in 0..Len(ws) : Number(Puts(ws), {"put"}, n) = n
           /\ Count(Puts(ws), {"put"}) = Len(ws) /\ Count(Puts(ws), {"listen"}) = 0
<1>1. /\ Len(ws) \in Nat /\ DOMAIN ws = 1..Len(ws) /\ Len(Puts(ws)) = Len(ws)
      /\ \A i \in 1..Len(ws) : Puts(ws)[i].type = "put"
  BY DEF Puts, Put
<1>2. ASSUME NEW n \in 0..Len(ws)  PROVE Number(Puts(ws), {"put"}, n) = n
  <2>1. {i \in 1..n : Puts(ws)[i].type \in {"put"}} = 1..n  BY <1>1
  <2>2. Cardinality(1..n) = n  BY <1>1, FS_Interval
  <2> QED  BY <2>1, <2>2 DEF Number
<1>3. Count(Puts(ws), {"listen"}) = 0
  <2>1. {i \in 1..Len(ws) : Puts(ws)[i].type \in {"listen"}} = {}  BY <1>1
  <2> QED  BY <1>1, <2>1, FS_EmptySet DEF Count, Number
<1> QED  BY <1>1, <1>2, <1>3 DEF Count

-----------------------------------------------------------------------------
(***************************************************************************)
(* What is on the two ways of a connection, and what the client counts.    *)
(***************************************************************************)

\* The messages u of a client and dn of the server stand for the writes ws:
\* those confirmed come first, those still to be served behind them, in order.
Matched(u, dn, ws) ==
    /\ Count(dn, {"ack"}) + Count(u, {"put"}) = Len(ws)
    /\ \A i \in DOMAIN u : u[i].type = "put" =>
           u[i].write = ws[Count(dn, {"ack"}) + Number(u, {"put"}, i)]

\* n listens are not answered.
Counted(u, dn, n) == n = Count(u, {"listen"}) + Count(dn, {"listening"})

Connected(l, u, dn, ws, n) ==
    /\ ~l => u = <<>> /\ dn = <<>>
    /\ l => Matched(u, dn, ws)
    /\ Counted(u, dn, n)

\* The invariant: nothing is on a broken connection, the server does not push
\* to it, and of the others both hold.
Sent ==
    \A d \in Devices :
        /\ Connected(linked[d], up[d], down[d], writes[d], unanswered[d])
        /\ listening[d] => linked[d]

\* Numbers and places of the puts of a client.
LEMMA PutPlace ==
    ASSUME NEW S, NEW u \in Seq(S), NEW i \in DOMAIN u, u[i].type = "put"
    PROVE  Number(u, {"put"}, i) \in 1..Count(u, {"put"})
<1>1. /\ i \in 1..Len(u) /\ i \in Nat /\ Len(u) \in Nat /\ i - 1 \in Nat /\ (i - 1) + 1 = i
      /\ i \in 0..Len(u)
  BY LenProperties
<1>2. Number(u, {"put"}, i) <= Number(u, {"put"}, Len(u))  BY <1>1, NumberGrows
<1>3. /\ Number(u, {"put"}, (i - 1) + 1)
            = Number(u, {"put"}, i - 1) + (IF u[(i - 1) + 1].type \in {"put"} THEN 1 ELSE 0)
      /\ Number(u, {"put"}, i - 1) \in Nat /\ Number(u, {"put"}, Len(u)) \in Nat
  BY <1>1, NumberNext, NumberType
<1>4. (IF u[(i - 1) + 1].type \in {"put"} THEN 1 ELSE 0) = 1  BY <1>1
<1>5. Number(u, {"put"}, i) = Number(u, {"put"}, i - 1) + 1  BY <1>1, <1>3, <1>4
<1> QED  BY <1>2, <1>3, <1>5 DEF Count

\* A count and a length are numbers.
LEMMA CountType ==
    ASSUME NEW S, NEW ms \in Seq(S), NEW T
    PROVE  Count(ms, T) \in Nat /\ Len(ms) \in Nat /\ DOMAIN ms = 1..Len(ms)
<1>1. Len(ms) \in Nat /\ DOMAIN ms = 1..Len(ms)  BY LenProperties
<1> QED  BY <1>1, NumberType DEF Count

\* Place m of y behind the first x of w = x + y places.
LEMMA InFront ==
    ASSUME NEW w, NEW x \in Nat, NEW y \in Nat, NEW m \in 1..y, w = x + y, NEW k, k = x + m
    PROVE  k \in 1..w
OBVIOUS

\* Place m of z behind the w = x + y places before.
LEMMA InRear ==
    ASSUME NEW w, NEW x \in Nat, NEW y \in Nat, NEW z \in Nat, NEW m \in 1..z, w = x + y, NEW k, k = x + (y + m)
    PROVE  k \in 1..(w + z) /\ ~ (k <= w) /\ k - w = m
OBVIOUS

\* New writes behind the old ones, and their messages behind the old messages.
LEMMA MatchedSend ==
    ASSUME NEW S, NEW W, NEW D, NEW u \in Seq(S), NEW ms \in Seq(S), NEW dn \in Seq(D),
           NEW ws \in Seq(W), NEW xs \in Seq(W), Matched(u, dn, ws), Matched(ms, <<>>, xs)
    PROVE  Matched(u \o ms, dn, ws \o xs)
<1> DEFINE P == {"put"}
<1> PICK a : a = Count(dn, {"ack"})  OBVIOUS
<1> PICK c : c = u \o ms  OBVIOUS
<1> PICK ys : ys = ws \o xs  OBVIOUS
<1>1. a \in Nat /\ Count(u, P) \in Nat /\ Count(ms, P) \in Nat  BY CountType
<1>2. /\ Len(u) \in Nat /\ Len(ms) \in Nat /\ Len(c) = Len(u) + Len(ms)
      /\ DOMAIN c = 1 .. Len(u) + Len(ms)
      /\ DOMAIN u = 1..Len(u) /\ DOMAIN ms = 1..Len(ms)
      /\ \A i \in 1 .. Len(u) + Len(ms) : c[i] = IF i <= Len(u) THEN u[i] ELSE ms[i - Len(u)]
  BY ConcatProperties, LenProperties
<1>3. /\ Len(ws) \in Nat /\ Len(xs) \in Nat /\ Len(ys) = Len(ws) + Len(xs)
      /\ \A i \in 1 .. Len(ws) + Len(xs) : ys[i] = IF i <= Len(ws) THEN ws[i] ELSE xs[i - Len(ws)]
  BY ConcatProperties, LenProperties
<1>4. /\ \A n \in 0..Len(u) : Number(c, P, n) = Number(u, P, n)
      /\ \A n \in 0..Len(ms) : Number(c, P, Len(u) + n) = Count(u, P) + Number(ms, P, n)
      /\ Count(c, P) = Count(u, P) + Count(ms, P)
  <2>1. ASSUME NEW n \in 0..Len(u)  PROVE Number(c, P, n) = Number(u, P, n)
    BY NumberFront
  <2>2. ASSUME NEW n \in 0..Len(ms)  PROVE Number(c, P, Len(u) + n) = Count(u, P) + Number(ms, P, n)
    BY NumberRear
  <2>3. Count(c, P) = Count(u, P) + Count(ms, P)
    BY CountConcat
  <2> QED  BY <2>1, <2>2, <2>3
<1>5. Len(ws) = a + Count(u, P) /\ Len(xs) = Count(ms, P)
  BY <1>1, CountFew DEF Matched
<1>6. ASSUME NEW i \in DOMAIN c, c[i].type = "put"
      PROVE  c[i].write = ys[a + Number(c, P, i)]
  <2>1. CASE i <= Len(u)
    <3>1. i \in DOMAIN u /\ c[i] = u[i] /\ Number(c, P, i) = Number(u, P, i)
      BY <1>2, <1>4, <2>1
    <3>2. u[i].write = ws[a + Number(u, P, i)]  BY <1>6, <3>1 DEF Matched
    <3> PICK k : k = a + Number(u, P, i)  OBVIOUS
    <3>3. k \in 1..Len(ws)
      <4>1. Number(u, P, i) \in 1..Count(u, P)  BY <1>6, <3>1, PutPlace
      <4> HIDE DEF P
      <4> QED  BY <1>1, <1>5, <4>1, InFront
    <3>4. ys[k] = ws[k]  BY <1>3, <3>3
    <3> QED  BY <3>1, <3>2, <3>4
  <2>2. CASE ~ (i <= Len(u))
    <3> PICK j : j = i - Len(u)  OBVIOUS
    <3>1. j \in DOMAIN ms /\ j \in 0..Len(ms) /\ i = Len(u) + j  BY <1>2, <2>2
    <3>2. c[i] = ms[j]  BY <1>2, <2>2
    <3>3. Number(c, P, i) = Count(u, P) + Number(ms, P, j)  BY <1>4, <3>1
    <3>4. Number(ms, P, j) \in 1..Count(ms, P)  BY <1>6, <3>1, <3>2, PutPlace
    <3>5. ms[j].write = xs[Number(ms, P, j)]
      <4>1. Count(<<>>, {"ack"}) = 0  BY CountFew
      <4>2. ms[j].write = xs[Count(<<>>, {"ack"}) + Number(ms, P, j)]
        BY <1>6, <3>1, <3>2 DEF Matched
      <4> QED  BY <3>4, <4>1, <4>2
    <3> PICK k : k = a + Number(c, P, i)  OBVIOUS
    <3>6. k \in 1 .. Len(ws) + Len(xs) /\ ~ (k <= Len(ws)) /\ k - Len(ws) = Number(ms, P, j)
      <4>1. Number(ms, P, j) \in Nat /\ k = a + (Count(u, P) + Number(ms, P, j))
        BY <1>1, <3>3, <3>4
      <4>2. Number(ms, P, j) \in 1..Len(xs) /\ Len(ws) = a + Count(u, P)  BY <1>5, <3>4
      <4> PICK w, y, z, m : /\ w = Len(ws) /\ y = Count(u, P) /\ z = Len(xs)
                            /\ m = Number(ms, P, j)
        OBVIOUS
      <4>3. a \in Nat /\ y \in Nat /\ z \in Nat /\ m \in 1..z /\ w = a + y /\ k = a + (y + m)
        BY <1>1, <1>3, <4>1, <4>2
      <4>4. k \in 1..(w + z) /\ ~ (k <= w) /\ k - w = m  BY ONLY <4>3, InRear
      <4> QED  BY <4>4
    <3> QED  BY <1>3, <3>2, <3>5, <3>6
  <2> QED  BY <2>1, <2>2
<1>7. a + Count(c, P) = Len(ys)  BY <1>1, <1>3, <1>4, <1>5
<1> QED  BY <1>6, <1>7, Zenon DEF Matched

\* Puts stand for what they put; nothing, a listen and an unlisten for nothing.
LEMMA MatchedPuts ==
    ASSUME NEW W, NEW xs \in Seq(W)
    PROVE  Matched(Puts(xs), <<>>, xs)
<1>1. /\ \A n \in 0..Len(xs) : Number(Puts(xs), {"put"}, n) = n
      /\ Count(Puts(xs), {"put"}) = Len(xs)
  BY CountPuts
<1>2. Len(xs) \in Nat /\ DOMAIN xs = 1..Len(xs) /\ Count(<<>>, {"ack"}) = 0
  BY CountFew, LenProperties
<1>3. ASSUME NEW i \in DOMAIN Puts(xs)
      PROVE  Puts(xs)[i].write = xs[0 + Number(Puts(xs), {"put"}, i)]
  <2>1. i \in DOMAIN xs /\ Puts(xs)[i].write = xs[i]  BY DEF Puts, Put
  <2>2. i \in 0..Len(xs) /\ 0 + i = i  BY <1>2, <2>1
  <2> QED  BY <1>1, <2>1, <2>2
<1> QED  BY <1>1, <1>2, <1>3 DEF Matched

\* No message, a listen and an unlisten stand for no write.
LEMMA MatchedNone ==
    /\ Matched(<<>>, <<>>, <<>>)
    /\ Matched(<<Msg("listen")>>, <<>>, <<>>)
    /\ Matched(<<Msg("unlisten")>>, <<>>, <<>>)
<1>1. Count(<<>>, {"ack"}) = 0 /\ Count(<<>>, {"put"}) = 0 /\ Len(<<>>) = 0  BY CountFew
<1>2. ASSUME NEW t \in {"listen", "unlisten"}  PROVE Matched(<<Msg(t)>>, <<>>, <<>>)
  <2>1. Count(<<Msg(t)>>, {"put"}) = 0  BY CountFew DEF Msg
  <2>2. \A i \in DOMAIN <<Msg(t)>> : <<Msg(t)>>[i].type # "put"
    <3>1. DOMAIN <<Msg(t)>> = {1} /\ <<Msg(t)>>[1] = Msg(t)  OBVIOUS
    <3> QED  BY <3>1 DEF Msg
  <2> QED  BY <1>1, <2>1, <2>2 DEF Matched
<1> QED  BY <1>1, <1>2 DEF Matched

\* The server takes the first message and confirms it if it is a put.
LEMMA MatchedServe ==
    ASSUME NEW S, NEW D, NEW u \in Seq(S), u # <<>>, NEW dn \in Seq(D), NEW es \in Seq(D), NEW ws,
           Matched(u, dn, ws),
           Count(es, {"ack"}) = IF Head(u).type = "put" THEN 1 ELSE 0
    PROVE  Matched(Tail(u), dn \o es, ws)
<1> DEFINE P == {"put"}
<1> PICK a, t, k : /\ a = Count(dn, {"ack"}) /\ t = Tail(u)
                   /\ k = Count(es, {"ack"})
  OBVIOUS
<1>1. a \in Nat /\ k \in {0, 1} /\ Count(dn \o es, {"ack"}) = a + k
  <2>1. Count(dn \o es, {"ack"}) = a + k  BY CountConcat
  <2> QED  BY <2>1, CountType
<1>2. /\ t \in Seq(S) /\ Len(t) \in Nat /\ Len(t) + 1 = Len(u) /\ DOMAIN t = 1..Len(t)
      /\ \A i \in 1..Len(t) : t[i] = u[i + 1] /\ i + 1 \in DOMAIN u
  BY HeadTailProperties, LenProperties, EmptySeq
<1>3. k = IF Head(u).type \in P THEN 1 ELSE 0  OBVIOUS
<1>4. Count(u, P) = k + Count(t, P)  BY <1>3, CountTail
<1>5. ASSUME NEW i \in DOMAIN t, t[i].type = "put"
      PROVE  t[i].write = ws[(a + k) + Number(t, P, i)]
  <2>1. i \in Nat /\ i + 1 <= Len(u) /\ t[i] = u[i + 1] /\ i + 1 \in DOMAIN u
    BY <1>2, LenProperties
  <2>2. Number(u, P, i + 1) = k + Number(t, P, i)  BY <1>3, <2>1, NumberTail
  <2>3. u[i + 1].write = ws[a + Number(u, P, i + 1)]  BY <1>5, <2>1 DEF Matched
  <2>4. Number(t, P, i) \in Nat  BY <2>1, NumberType
  <2>5. a + Number(u, P, i + 1) = (a + k) + Number(t, P, i)  BY <1>1, <2>2, <2>4
  <2> QED  BY <2>1, <2>3, <2>5
<1>6. (a + k) + Count(t, P) = Len(ws)
  <2>1. Count(t, P) \in Nat  BY <1>2, CountType
  <2>2. a + Count(u, P) = Len(ws)  BY DEF Matched
  <2> QED  BY <1>1, <1>4, <2>1, <2>2
<1> QED  BY <1>1, <1>5, <1>6 DEF Matched

\* Messages of the server that confirm nothing.
LEMMA MatchedPush ==
    ASSUME NEW D, NEW u, NEW dn \in Seq(D), NEW es \in Seq(D), NEW ws,
           Matched(u, dn, ws), Count(es, {"ack"}) = 0
    PROVE  Matched(u, dn \o es, ws)
<1>1. Count(dn \o es, {"ack"}) = Count(dn, {"ack"})
  <2>1. Count(dn \o es, {"ack"}) = Count(dn, {"ack"}) + Count(es, {"ack"})  BY CountConcat
  <2>2. Count(dn, {"ack"}) \in Nat  BY CountType
  <2> QED  BY <2>1, <2>2
<1> QED  BY <1>1 DEF Matched

\* A message that confirms nothing has come.
LEMMA MatchedTake ==
    ASSUME NEW D, NEW u, NEW dn \in Seq(D), dn # <<>>, NEW ws,
           Matched(u, dn, ws), Head(dn).type # "ack"
    PROVE  Matched(u, Tail(dn), ws)
<1>1. Count(dn, {"ack"}) = Count(Tail(dn), {"ack"})
  <2>1. Tail(dn) \in Seq(D)  BY HeadTailProperties
  <2>2. Count(dn, {"ack"}) = (IF Head(dn).type \in {"ack"} THEN 1 ELSE 0) + Count(Tail(dn), {"ack"})
    BY CountTail
  <2>3. Count(Tail(dn), {"ack"}) \in Nat  BY <2>1, CountType
  <2> QED  BY <2>2, <2>3
<1> QED  BY <1>1 DEF Matched

\* A confirmation has come: it is for the oldest write, and there is one.
LEMMA MatchedAck ==
    ASSUME NEW S, NEW D, NEW W, NEW u \in Seq(S), NEW dn \in Seq(D), dn # <<>>, NEW ws \in Seq(W),
           Matched(u, dn, ws), Head(dn).type = "ack"
    PROVE  ws # <<>> /\ Matched(u, Tail(dn), Tail(ws))
<1> DEFINE P == {"put"}
<1> PICK a, t : a = Count(Tail(dn), {"ack"}) /\ t = Tail(ws)  OBVIOUS
<1>1. Count(dn, {"ack"}) = 1 + a /\ a \in Nat
  <2>1. Tail(dn) \in Seq(D)  BY HeadTailProperties
  <2>2. Count(dn, {"ack"}) = (IF Head(dn).type \in {"ack"} THEN 1 ELSE 0) + Count(Tail(dn), {"ack"})
    BY CountTail
  <2>3. Count(Tail(dn), {"ack"}) \in Nat  BY <2>1, CountType
  <2> QED  BY <2>2, <2>3
<1>2. Count(u, P) \in Nat  BY CountType
<1>3. Len(ws) = (1 + a) + Count(u, P)  BY <1>1 DEF Matched
<1>4. ws # <<>>
  <2>1. Len(ws) # 0  BY <1>1, <1>2, <1>3
  <2> QED  BY <2>1, CountFew
<1>5. /\ Len(t) = a + Count(u, P)
      /\ \A i \in 1..Len(t) : t[i] = ws[i + 1]
  BY <1>1, <1>2, <1>3, <1>4, HeadTailProperties, LenProperties
<1>6. ASSUME NEW i \in DOMAIN u, u[i].type = "put"
      PROVE  u[i].write = t[a + Number(u, P, i)]
  <2>1. u[i].write = ws[(1 + a) + Number(u, P, i)]  BY <1>1, <1>6 DEF Matched
  <2> PICK n, c : n = Number(u, P, i) /\ c = Count(u, P)  OBVIOUS
  <2>2. n \in 1..c  BY <1>6, PutPlace
  <2>3. a + n \in 1 .. a + c /\ (1 + a) + n = (a + n) + 1  BY ONLY <1>1, <1>2, <2>2, c = Count(u, P)
  <2>4. t[a + n] = ws[(a + n) + 1]  BY <1>5, <2>3
  <2> QED  BY <2>1, <2>3, <2>4
<1> QED  BY <1>4, <1>5, <1>6 DEF Matched

\* The same of the listens.
LEMMA CountedSend ==
    ASSUME NEW S, NEW u \in Seq(S), NEW ms \in Seq(S), NEW dn, NEW n, Counted(u, dn, n),
           NEW D, dn \in Seq(D)
    PROVE  Counted(u \o ms, dn, n + Count(ms, {"listen"}))
<1>1. Count(u \o ms, {"listen"}) = Count(u, {"listen"}) + Count(ms, {"listen"})
  BY CountConcat
<1>2. Count(u, {"listen"}) \in Nat /\ Count(ms, {"listen"}) \in Nat /\ Count(dn, {"listening"}) \in Nat
  BY CountType
<1> QED  BY <1>1, <1>2 DEF Counted

\* The server takes the first message and answers it if it is a listen.
LEMMA CountedServe ==
    ASSUME NEW S, NEW D, NEW u \in Seq(S), u # <<>>, NEW dn \in Seq(D), NEW es \in Seq(D), NEW n,
           Counted(u, dn, n),
           Count(es, {"listening"}) = IF Head(u).type = "listen" THEN 1 ELSE 0
    PROVE  Counted(Tail(u), dn \o es, n)
<1> PICK k : k = Count(es, {"listening"})  OBVIOUS
<1>1. Count(dn \o es, {"listening"}) = Count(dn, {"listening"}) + k  BY CountConcat
<1>2. Tail(u) \in Seq(S)  BY HeadTailProperties
<1>3. k = IF Head(u).type \in {"listen"} THEN 1 ELSE 0  OBVIOUS
<1>4. Count(u, {"listen"}) = k + Count(Tail(u), {"listen"})  BY <1>3, CountTail
<1>5. Count(Tail(u), {"listen"}) \in Nat /\ Count(dn, {"listening"}) \in Nat /\ k \in {0, 1}
  BY <1>2, CountType
<1> QED  BY <1>1, <1>4, <1>5 DEF Counted

\* Messages of the server that answer no listen.
LEMMA CountedPush ==
    ASSUME NEW D, NEW u, NEW dn \in Seq(D), NEW es \in Seq(D), NEW n,
           Counted(u, dn, n), Count(es, {"listening"}) = 0
    PROVE  Counted(u, dn \o es, n)
<1>1. Count(dn \o es, {"listening"}) = Count(dn, {"listening"}) + Count(es, {"listening"})
  BY CountConcat
<1>2. Count(dn, {"listening"}) \in Nat  BY CountType
<1>3. Count(dn \o es, {"listening"}) = Count(dn, {"listening"})  BY <1>1, <1>2
<1> QED  BY <1>3 DEF Counted

\* A message of the server has come.
LEMMA CountedTake ==
    ASSUME NEW S, NEW D, NEW u \in Seq(S), NEW dn \in Seq(D), dn # <<>>, NEW n, Counted(u, dn, n)
    PROVE  Counted(u, Tail(dn), IF Head(dn).type = "listening" THEN n - 1 ELSE n)
<1> PICK k : k = IF Head(dn).type \in {"listening"} THEN 1 ELSE 0  OBVIOUS
<1>1. Tail(dn) \in Seq(D)  BY HeadTailProperties
<1>2. Count(dn, {"listening"}) = k + Count(Tail(dn), {"listening"})  BY CountTail
<1>3. Count(Tail(dn), {"listening"}) \in Nat /\ Count(u, {"listen"}) \in Nat  BY <1>1, CountType
<1>4. n - k = Count(u, {"listen"}) + Count(Tail(dn), {"listening"}) /\ n \in Int /\ k \in {0, 1}
  BY <1>2, <1>3 DEF Counted
<1> QED  BY <1>4 DEF Counted

-----------------------------------------------------------------------------
\* The types the lemmas above ask for.
LEMMA SentTypes ==
    ASSUME TypeOK, NEW d \in Devices
    PROVE  /\ up[d] \in Seq(UpMessageOf(Quota)) /\ down[d] \in Seq(DownMessageOf(Quota))
           /\ writes[d] \in Seq(WriteOf(Quota)) /\ unanswered[d] \in Int
           /\ linked[d] \in BOOLEAN
BY DEF TypeOK, ControlOK, LimitsIn

\* A step of device d, in which the others are at most told of the record.
LEMMA SentOf ==
    ASSUME TypeOK, Sent, NEW d \in Devices,
           \A e \in Devices \ {d} :
               /\ linked'[e] = linked[e] /\ up'[e] = up[e] /\ listening'[e] = listening[e]
               /\ writes'[e] = writes[e] /\ unanswered'[e] = unanswered[e]
               /\ \/ down'[e] = down[e]
                  \/ linked[e] /\ \E m \in DownMessageOf(Quota) :
                        m.type = "push" /\ down'[e] = down[e] \o <<m>>,
           Connected(linked'[d], up'[d], down'[d], writes'[d], unanswered'[d]),
           listening'[d] => linked'[d]
    PROVE  Sent'
<1>1. ASSUME NEW e \in Devices \ {d}
      PROVE  Connected(linked'[e], up'[e], down'[e], writes'[e], unanswered'[e])
  <2>1. Connected(linked[e], up[e], down[e], writes[e], unanswered[e])  BY DEF Sent
  <2>2. CASE down'[e] = down[e]  BY <2>1, <2>2
  <2>3. ASSUME NEW m \in DownMessageOf(Quota), m.type = "push", down'[e] = down[e] \o <<m>>, linked[e]
        PROVE  Connected(linked'[e], up'[e], down'[e], writes'[e], unanswered'[e])
    <3>1. Count(<<m>>, {"ack"}) = 0 /\ Count(<<m>>, {"listening"}) = 0  BY <2>3, CountFew
    <3>2. <<m>> \in Seq(DownMessageOf(Quota)) /\ down[e] \in Seq(DownMessageOf(Quota))
      BY SentTypes
    <3>3. Matched(up[e], down[e] \o <<m>>, writes[e])
      BY <2>1, <2>3, <3>1, <3>2, MatchedPush DEF Connected
    <3>4. Counted(up[e], down[e] \o <<m>>, unanswered[e])
      BY <2>1, <3>1, <3>2, CountedPush DEF Connected
    <3> QED  BY <2>3, <3>3, <3>4 DEF Connected
  <2> QED  BY <2>2, <2>3
<1> QED  BY <1>1 DEF Sent

\* A listen, an unlisten or neither, and then writes.
LEMMA Says ==
    ASSUME NEW hs \in {<<>>, <<Msg("listen")>>, <<Msg("unlisten")>>},
           NEW xs \in Seq(WriteOf(Quota))
    PROVE  /\ hs \o Puts(xs) \in Seq(UpMessageOf(Quota))
           /\ Matched(hs \o Puts(xs), <<>>, xs)
           /\ Count(hs \o Puts(xs), {"listen"}) = Count(hs, {"listen"})
<1> DEFINE U == UpMessageOf(Quota)
<1>1. hs \in Seq(U) /\ Puts(xs) \in Seq(U)
  <2>1. \A m \in {Msg("listen"), Msg("unlisten")} : m \in U  BY DEF UpMessageOf, Msg
  <2>2. \A w \in WriteOf(Quota) : Put(w) \in U  BY DEF UpMessageOf, Put
  <2> HIDE DEF U
  <2>3. hs \in Seq(U)
    <3>1. <<>> \in Seq(U) /\ \A m \in U : <<m>> \in Seq(U)  OBVIOUS
    <3>2. hs = <<>> \/ hs = <<Msg("listen")>> \/ hs = <<Msg("unlisten")>>  OBVIOUS
    <3> QED  BY ONLY <2>1, <3>1, <3>2
  <2>4. Puts(xs) \in Seq(U)
    <3>1. DOMAIN xs = 1..Len(xs) /\ Len(xs) \in Nat /\ \A i \in 1..Len(xs) : xs[i] \in WriteOf(Quota)
      BY LenProperties, ElementOfSeq
    <3>2. Puts(xs) \in [1..Len(xs) -> U]  BY <2>2, <3>1 DEF Puts
    <3> QED  BY <3>1, <3>2, SeqDef
  <2> QED  BY <2>3, <2>4
<1> HIDE DEF U
<1>2. Matched(hs, <<>>, <<>>)  BY MatchedNone
<1>3. Matched(Puts(xs), <<>>, xs)  BY MatchedPuts
<1>4. <<>> \in Seq(WriteOf(Quota)) /\ <<>> \in Seq(DownMessageOf(Quota)) /\ <<>> \o xs = xs
  BY EmptySeq, ConcatEmptySeq
<1>5. Matched(hs \o Puts(xs), <<>>, xs)
  <2>1. Matched(hs \o Puts(xs), <<>>, <<>> \o xs)  BY <1>1, <1>2, <1>3, <1>4, MatchedSend
  <2> QED  BY <1>4, <2>1
<1>6. hs \o Puts(xs) \in Seq(U)  BY <1>1, ConcatProperties
<1>7. Count(hs \o Puts(xs), {"listen"}) = Count(hs, {"listen"})
  <2>1. Count(hs \o Puts(xs), {"listen"}) = Count(hs, {"listen"}) + Count(Puts(xs), {"listen"})
    BY <1>1, CountConcat
  <2>2. Count(Puts(xs), {"listen"}) = 0  BY CountPuts
  <2>3. Count(hs, {"listen"}) \in Nat  BY <1>1, CountType
  <2> QED  BY <2>1, <2>2, <2>3
<1> QED  BY <1>5, <1>6, <1>7 DEF U

\* Device d, over its connection, says hs and then writes xs.
LEMMA SentMore ==
    ASSUME TypeOK, Sent, NEW d \in Devices, linked[d],
           NEW hs \in {<<>>, <<Msg("listen")>>, <<Msg("unlisten")>>},
           NEW xs \in Seq(WriteOf(Quota))
    PROVE  Connected(linked[d], up[d] \o (hs \o Puts(xs)), down[d], writes[d] \o xs,
                     unanswered[d] + Count(hs, {"listen"}))
<1> PICK ms : ms = hs \o Puts(xs)  OBVIOUS
<1>1. /\ ms \in Seq(UpMessageOf(Quota)) /\ Matched(ms, <<>>, xs)
      /\ Count(ms, {"listen"}) = Count(hs, {"listen"})
  BY Says
<1>2. Matched(up[d], down[d], writes[d]) /\ Counted(up[d], down[d], unanswered[d])
  BY DEF Sent, Connected
<1>3. /\ up[d] \in Seq(UpMessageOf(Quota)) /\ down[d] \in Seq(DownMessageOf(Quota))
      /\ writes[d] \in Seq(WriteOf(Quota))
  BY SentTypes
<1>4. Matched(up[d] \o ms, down[d], writes[d] \o xs)  BY <1>1, <1>2, <1>3, MatchedSend
<1>5. Counted(up[d] \o ms, down[d], unanswered[d] + Count(ms, {"listen"}))
  BY <1>1, <1>2, <1>3, CountedSend
<1> QED  BY <1>1, <1>4, <1>5 DEF Connected

\* What a broken or fresh connection has.
LEMMA SentNothing ==
    Connected(FALSE, <<>>, <<>>, <<>>, 0) /\ \A ws : Connected(FALSE, <<>>, <<>>, ws, 0)
<1>1. Count(<<>>, {"listen"}) = 0 /\ Count(<<>>, {"listening"}) = 0  BY CountFew
<1> QED  BY <1>1 DEF Connected, Counted

\* An operation: a listen where the view was not open.
LEMMA ObserveSent ==
    ASSUME TypeOK, Sent, NEW d \in Devices, NEW op, Observe(d, op), UNCHANGED listening
    PROVE  Sent'
<1>1. /\ \A e \in Devices \ {d} :
             /\ linked'[e] = linked[e] /\ up'[e] = up[e] /\ down'[e] = down[e]
             /\ writes'[e] = writes[e] /\ unanswered'[e] = unanswered[e]
             /\ listening'[e] = listening[e]
      /\ listening'[d] => linked'[d]
      /\ linked'[d] = linked[d] /\ down'[d] = down[d] /\ writes'[d] = writes[d]
      /\ \/ up'[d] = up[d] /\ unanswered'[d] = unanswered[d]
         \/ linked[d] /\ up'[d] = up[d] \o <<Msg("listen")>> /\ unanswered'[d] = unanswered[d] + 1
  BY DEF Observe, Send, TypeOK, ControlOK, LimitsIn, Sent
<1>2. Connected(linked[d], up[d], down[d], writes[d], unanswered[d])  BY DEF Sent
<1>3. CASE up'[d] = up[d] /\ unanswered'[d] = unanswered[d]
  BY <1>1, <1>2, <1>3, SentOf
<1>4. CASE linked[d] /\ up'[d] = up[d] \o <<Msg("listen")>> /\ unanswered'[d] = unanswered[d] + 1
  <2>1. Count(<<Msg("listen")>>, {"listen"}) = 1  BY CountFew DEF Msg
  <2>2. Puts(<<>>) = <<>> /\ <<Msg("listen")>> \o <<>> = <<Msg("listen")>>  BY DEF Puts
  <2>3. writes[d] \o <<>> = writes[d] /\ <<>> \in Seq(WriteOf(Quota))
    BY SentTypes, ConcatEmptySeq
  <2>4. Connected(linked[d], up[d] \o (<<Msg("listen")>> \o Puts(<<>>)), down[d], writes[d] \o <<>>,
                  unanswered[d] + Count(<<Msg("listen")>>, {"listen"}))
    BY <1>4, <2>3, SentMore
  <2>5. Connected(linked'[d], up'[d], down'[d], writes'[d], unanswered'[d])
    BY <1>1, <1>4, <2>1, <2>2, <2>3, <2>4
  <2> QED  BY <1>1, <2>5, SentOf
<1> QED  BY <1>1, <1>3, <1>4

\* Values set, behind an unlisten where the view is closed.
LEMMA SetSent ==
    ASSUME TypeOK, Sent, NEW d \in Devices, NEW hs \in {<<>>, <<Msg("unlisten")>>},
           NEW xs \in Seq(WriteOf(Quota)), SetValue(d, xs), Send(d, hs \o Puts(xs)),
           UNCHANGED <<listening, linked, down, unanswered>>
    PROVE  Sent'
<1>1. /\ \A e \in Devices \ {d} : up'[e] = up[e] /\ writes'[e] = writes[e]
      /\ up'[d] = IF linked[d] THEN up[d] \o (hs \o Puts(xs)) ELSE up[d]
      /\ writes'[d] = writes[d] \o xs
      /\ listening'[d] => linked'[d]
  BY DEF SetValue, Send, TypeOK, LimitsIn, Sent
<1>2. Connected(linked[d], up[d], down[d], writes[d], unanswered[d])  BY DEF Sent
<1>3. CASE linked[d]
  <2>1. Count(hs, {"listen"}) = 0
    <3>1. Count(<<>>, {"listen"}) = 0 /\ Count(<<Msg("unlisten")>>, {"listen"}) = 0
      BY CountFew DEF Msg
    <3>2. hs = <<>> \/ hs = <<Msg("unlisten")>>  OBVIOUS
    <3> QED  BY <3>1, <3>2
  <2>2. unanswered[d] + 0 = unanswered[d]  BY SentTypes
  <2>3. hs \in {<<>>, <<Msg("listen")>>, <<Msg("unlisten")>>}  OBVIOUS
  <2>4. Connected(linked[d], up[d] \o (hs \o Puts(xs)), down[d], writes[d] \o xs,
                  unanswered[d] + Count(hs, {"listen"}))
    BY <1>3, <2>3, SentMore
  <2>5. Connected(linked'[d], up'[d], down'[d], writes'[d], unanswered'[d])
    BY <1>1, <1>3, <2>1, <2>2, <2>4
  <2> QED  BY <1>1, <2>5, SentOf
<1>4. CASE ~linked[d]
  <2>1. Connected(linked'[d], up'[d], down'[d], writes'[d], unanswered'[d])
    BY <1>1, <1>2, <1>4 DEF Connected
  <2> QED  BY <1>1, <2>1, SentOf
<1> QED  BY <1>3, <1>4

\* The writes of a callback.
LEMMA FireSent ==
    ASSUME TypeOK, Sent, NEW d \in Devices, NEW xs \in Seq(WriteOf(Quota)), Fire(d, xs),
           UNCHANGED listening
    PROVE  Sent'
<1>1. PICK hs \in {<<>>, <<Msg("unlisten")>>} : Send(d, hs \o Puts(xs))  BY DEF Fire
<1>2. SetValue(d, xs) /\ UNCHANGED <<listening, linked, down, unanswered>>  BY DEF Fire
<1> QED  BY <1>1, <1>2, SetSent

\* The callbacks: each writes something or nothing, or crashes.
LEMMA CallbackSent ==
    ASSUME TypeOK, Sent, NEW d \in Devices, Callback(d)
    PROVE  Sent'
<1>1. /\ <<>> \in Seq(WriteOf(Quota)) /\ <<FirstRecord>> \in Seq(WriteOf(Quota))
      /\ \A w \in WriteOf(Quota) : <<w>> \in Seq(WriteOf(Quota))
  <2>1. FirstRecord \in WriteOf(Quota)  BY LimitAssumption DEF FirstRecord, WholeRecord, WriteOf, Quota
  <2> QED  BY <2>1
<1>2. CASE SetupCallback(d)
  <2>1. PICK xs \in {<<FirstRecord>>, <<>>} : Fire(d, xs)  BY <1>2 DEF SetupCallback
  <2> QED  BY <1>1, <1>2, <2>1, FireSent DEF SetupCallback, server
<1>3. CASE GetNameCallback(d) \/ Deny(d) \/ NoAnswer(d)
  BY <1>1, <1>3, FireSent DEF GetNameCallback, Deny, NoAnswer, server
<1>4. CASE Grant(d)
  <2>1. main[d] # <<>> /\ main[d] \in Seq(BlockOf(Quota))
    BY <1>4 DEF Grant, Fires, TypeOK, LimitsIn
  <2>2. Head(main[d]) \in BlockOf(Quota)  BY <2>1
  <2>3. Snap(d).limit \in Quota  BY <2>2 DEF BlockOf, RecordOf, Snap
  <2>4. SetPhotoLimit(Snap(d).limit - 1) \in WriteOf(Quota)
    BY <1>4, <2>3, LimitAssumption DEF Grant, Quota, Missing, SetPhotoLimit, WriteOf
  <2> QED  BY <1>1, <1>4, <2>4, FireSent DEF Grant, server
<1>5. CASE BadCast(d)
  <2>1. /\ \A e \in Devices \ {d} :
               /\ linked'[e] = linked[e] /\ up'[e] = up[e] /\ down'[e] = down[e]
               /\ writes'[e] = writes[e] /\ unanswered'[e] = unanswered[e]
               /\ listening'[e] = listening[e]
        /\ listening'[d] = FALSE
        /\ linked'[d] = FALSE /\ up'[d] = <<>> /\ down'[d] = <<>> /\ unanswered'[d] = 0
    BY <1>5 DEF BadCast, Restart, TypeOK, ControlOK, LimitsIn
  <2> QED  BY <2>1, SentNothing, SentOf
<1> QED  BY <1>2, <1>3, <1>4, <1>5 DEF Callback

\* The user's operations.
LEMMA UserSent ==
    ASSUME TypeOK, Sent, NEW d \in Devices, User(d)
    PROVE  Sent'
<1>1. CASE SetupUser(d) \/ GetName(d) \/ Process(d)
  BY <1>1, ObserveSent DEF SetupUser, GetName, Process, server
<1>2. CASE Update(d)
  <2>1. Puts(<<SetChild>>) = <<Put(SetChild)>> /\ <<>> \o <<Put(SetChild)>> = <<Put(SetChild)>>
    <3>1. DOMAIN <<SetChild>> = {1} /\ <<SetChild>>[1] = SetChild  OBVIOUS
    <3>2. Puts(<<SetChild>>) = [i \in {1} |-> Put(SetChild)]  BY <3>1 DEF Puts
    <3>3. [i \in {1} |-> Put(SetChild)] = <<Put(SetChild)>>  OBVIOUS
    <3> QED  BY <3>2, <3>3
  <2>2. <<SetChild>> \in Seq(WriteOf(Quota))  BY DEF SetChild, WriteOf, Quota
  <2>3. /\ SetValue(d, <<SetChild>>) /\ Send(d, <<>> \o Puts(<<SetChild>>))
        /\ UNCHANGED <<listening, linked, down, unanswered>>
    BY <1>2, <2>1 DEF Update, server
  <2> QED  BY <2>2, <2>3, SetSent
<1>3. CASE Cancel(d) \/ \E p \in Photos : OpenPhoto(d, p)
  BY <1>3 DEF Cancel, OpenPhoto, server, wire, client, Sent
<1> QED  BY <1>1, <1>2, <1>3 DEF User

\* The server takes a message, and the client one.
LEMMA ServeSent ==
    ASSUME TypeOK, Sent, NEW d \in Devices, Serve(d)
    PROVE  Sent'
<1> DEFINE D == DownMessageOf(Quota)
<1>1. /\ linked[d] /\ up[d] # <<>> /\ up[d] \in Seq(UpMessageOf(Quota)) /\ down[d] \in Seq(D)
      /\ up' = [up EXCEPT ![d] = Tail(@)]
      /\ UNCHANGED <<linked, writes, unanswered>>
  BY SentTypes DEF Serve, ServePut, ServeListen, ServeUnlisten, Receives, client
<1>2. Head(up[d]) \in UpMessageOf(Quota)  BY <1>1
<1>3. /\ up'[d] = Tail(up[d])
      /\ \A e \in Devices \ {d} :
             /\ linked'[e] = linked[e] /\ up'[e] = up[e]
             /\ writes'[e] = writes[e] /\ unanswered'[e] = unanswered[e]
      /\ linked'[d] = linked[d] /\ writes'[d] = writes[d] /\ unanswered'[d] = unanswered[d]
  BY <1>1 DEF TypeOK, LimitsIn
<1>4. Matched(up[d], down[d], writes[d]) /\ Counted(up[d], down[d], unanswered[d])
  BY <1>1 DEF Sent, Connected
<1>5. ASSUME NEW es \in Seq(D), down'[d] = down[d] \o es,
             Count(es, {"ack"}) = (IF Head(up[d]).type = "put" THEN 1 ELSE 0),
             Count(es, {"listening"}) = (IF Head(up[d]).type = "listen" THEN 1 ELSE 0)
      PROVE  Connected(linked'[d], up'[d], down'[d], writes'[d], unanswered'[d])
  <2> HIDE DEF D
  <2>1. Matched(Tail(up[d]), down[d] \o es, writes[d])  BY <1>1, <1>4, <1>5, MatchedServe
  <2>2. Counted(Tail(up[d]), down[d] \o es, unanswered[d])  BY <1>1, <1>4, <1>5, CountedServe
  <2> QED  BY <1>1, <1>3, <1>5, <2>1, <2>2 DEF Connected
<1>6. CASE ServePut(d)
  <2> PICK w : /\ w = Head(up[d]).write
               /\ down' = [e \in Devices |->
                              down[e] \o (IF listening[e] THEN <<Push(w)>> ELSE <<>>)
                                      \o (IF e = d THEN <<Msg("ack")>> ELSE <<>>)]
    BY <1>6 DEF ServePut
  <2>1. Head(up[d]).type = "put"  BY <1>6 DEF ServePut, Receives
  <2>2. Push(w) \in D /\ Msg("ack") \in D /\ Push(w).type = "push"
    BY <1>2, <2>1 DEF UpMessageOf, DownMessageOf, Push, Msg
  <2>3. ASSUME NEW e \in Devices \ {d}
        PROVE  \/ down'[e] = down[e]
               \/ linked[e] /\ \E m \in D : m.type = "push" /\ down'[e] = down[e] \o <<m>>
    <3>1. down[e] \in Seq(D)  BY SentTypes
    <3>2. down'[e] = down[e] \o (IF listening[e] THEN <<Push(w)>> ELSE <<>>) \o <<>>  OBVIOUS
    <3>3. listening[e] => linked[e]  BY DEF Sent
    <3>4. CASE listening[e]
      <4>1. down'[e] = down[e] \o <<Push(w)>> \o <<>>  BY <3>2, <3>4
      <4>2. down[e] \o <<Push(w)>> \in Seq(D)  BY <2>2, <3>1, ConcatProperties
      <4>3. down'[e] = down[e] \o <<Push(w)>>  BY <4>1, <4>2, ConcatEmptySeq
      <4> QED  BY <2>2, <3>3, <3>4, <4>3
    <3>5. CASE ~listening[e]
      <4>1. down'[e] = down[e] \o <<>> \o <<>>  BY <3>2, <3>5
      <4> QED  BY <3>1, <4>1, ConcatEmptySeq
    <3> QED  BY <3>4, <3>5
  <2>4. ASSUME NEW ps \in {<<>>, <<Push(w)>>}, down'[d] = down[d] \o ps \o <<Msg("ack")>>
        PROVE  Connected(linked'[d], up'[d], down'[d], writes'[d], unanswered'[d])
    <3> PICK es : es = ps \o <<Msg("ack")>>  OBVIOUS
    <3>1. ps \in Seq(D) /\ <<Msg("ack")>> \in Seq(D) /\ es \in Seq(D)
      <4> HIDE DEF D
      <4>1. <<>> \in Seq(D) /\ <<Push(w)>> \in Seq(D) /\ <<Msg("ack")>> \in Seq(D)  BY <2>2
      <4>2. ps = <<>> \/ ps = <<Push(w)>>  OBVIOUS
      <4>3. ps \in Seq(D)  BY <4>1, <4>2
      <4> QED  BY <4>1, <4>3, ConcatProperties
    <3>2. down'[d] = down[d] \o es
      <4> HIDE DEF D
      <4>1. \A x, y, z \in Seq(D) : (x \o y) \o z = x \o (y \o z)  BY ConcatAssociative
      <4> QED  BY <1>1, <2>4, <3>1, <4>1
    <3>3. Count(ps, {"ack"}) = 0 /\ Count(ps, {"listening"}) = 0
      <4> PICK m : m = Push(w)  OBVIOUS
      <4>1. Count(<<m>>, {"ack"}) = 0 /\ Count(<<m>>, {"listening"}) = 0
        BY <2>2, CountFew
      <4>2. Count(<<>>, {"ack"}) = 0 /\ Count(<<>>, {"listening"}) = 0
        BY CountFew
      <4> QED  BY <4>1, <4>2, Zenon
    <3>4. Count(<<Msg("ack")>>, {"ack"}) = 1 /\ Count(<<Msg("ack")>>, {"listening"}) = 0
      BY CountFew DEF Msg
    <3>5. Count(es, {"ack"}) = 1 /\ Count(es, {"listening"}) = 0
      <4> HIDE DEF D
      <4>1. /\ Count(es, {"ack"}) = Count(ps, {"ack"}) + Count(<<Msg("ack")>>, {"ack"})
            /\ Count(es, {"listening"}) = Count(ps, {"listening"}) + Count(<<Msg("ack")>>, {"listening"})
        BY <3>1, CountConcat
      <4> QED  BY <3>3, <3>4, <4>1
    <3> QED  BY <1>5, <2>1, <3>1, <3>2, <3>5
  <2>5. \E ps \in {<<>>, <<Push(w)>>} : down'[d] = down[d] \o ps \o <<Msg("ack")>>
    OBVIOUS
  <2>6. Connected(linked'[d], up'[d], down'[d], writes'[d], unanswered'[d])
    BY <2>4, <2>5
  <2>7. listening' = listening  BY <1>6 DEF ServePut
  <2>8. listening'[d] => linked'[d]  BY <1>1
  <2> HIDE DEF D
  <2> QED  BY <1>3, <2>3, <2>6, <2>7, <2>8, SentOf DEF D
<1>7. CASE ServeListen(d)
  <2> PICK w : w = WholeRecord(record)  OBVIOUS
  <2> PICK es : es = <<Push(w), Msg("listening")>>  OBVIOUS
  <2>1. Head(up[d]).type = "listen"  BY <1>7 DEF ServeListen, Receives
  <2>2. /\ \A e \in Devices \ {d} : down'[e] = down[e] /\ listening'[e] = listening[e]
        /\ down'[d] = down[d] \o es
    BY <1>7 DEF ServeListen, TypeOK, ControlOK, LimitsIn
  <2>3. es \in Seq(D)
    <3>1. record \in RecordOf(Quota)  BY DEF TypeOK, LimitsIn
    <3>2. Push(w) \in D /\ Msg("listening") \in D
      BY <3>1 DEF WholeRecord, WriteOf, RecordOf, DownMessageOf, Push, Msg
    <3> HIDE DEF D
    <3> QED  BY <3>2
  <2>4. Count(es, {"ack"}) = 0 /\ Count(es, {"listening"}) = 1
    <3> PICK p, q : p = Push(w) /\ q = Msg("listening")  OBVIOUS
    <3>1. p.type = "push" /\ q.type = "listening"  BY DEF Push, Msg
    <3>2. /\ Count(<<p, q>>, {"ack"}) = (IF p.type \in {"ack"} THEN 1 ELSE 0)
                                        + (IF q.type \in {"ack"} THEN 1 ELSE 0)
          /\ Count(<<p, q>>, {"listening"}) = (IF p.type \in {"listening"} THEN 1 ELSE 0)
                                              + (IF q.type \in {"listening"} THEN 1 ELSE 0)
      BY ONLY CountFew, Zenon
    <3>3. p.type \notin {"ack"} /\ q.type \notin {"ack"} /\ p.type \notin {"listening"}
          /\ q.type \in {"listening"}
      BY <3>1
    <3>4. Count(<<p, q>>, {"ack"}) = 0 /\ Count(<<p, q>>, {"listening"}) = 1
      BY ONLY <3>2, <3>3
    <3> QED  BY <3>4
  <2>5. Connected(linked'[d], up'[d], down'[d], writes'[d], unanswered'[d])
    BY <1>5, <2>1, <2>2, <2>3, <2>4
  <2> QED  BY <1>1, <1>3, <2>2, <2>5, SentOf
<1>8. CASE ServeUnlisten(d)
  <2>1. Head(up[d]).type = "unlisten"  BY <1>8 DEF ServeUnlisten, Receives
  <2>2. /\ \A e \in Devices \ {d} : down'[e] = down[e] /\ listening'[e] = listening[e]
        /\ down'[d] = down[d]
    BY <1>8 DEF ServeUnlisten, TypeOK, ControlOK
  <2>3. down'[d] = down[d] \o <<>> /\ <<>> \in Seq(D)  BY <1>1, <2>2, ConcatEmptySeq
  <2>4. Count(<<>>, {"ack"}) = 0 /\ Count(<<>>, {"listening"}) = 0  BY CountFew
  <2>5. Connected(linked'[d], up'[d], down'[d], writes'[d], unanswered'[d])
    BY <1>5, <2>1, <2>3, <2>4
  <2> QED  BY <1>1, <1>3, <2>2, <2>5, SentOf
<1> QED  BY <1>6, <1>7, <1>8 DEF Serve

\* The client takes a message.
LEMMA ArriveSent ==
    ASSUME TypeOK, Sent, NEW d \in Devices, Arrive(d)
    PROVE  Sent'
<1> DEFINE D == DownMessageOf(Quota)
<1>1. /\ linked[d] /\ down[d] # <<>> /\ down[d] \in Seq(D) /\ up[d] \in Seq(UpMessageOf(Quota))
      /\ writes[d] \in Seq(WriteOf(Quota)) /\ unanswered[d] \in Int
      /\ down' = [down EXCEPT ![d] = Tail(@)]
      /\ UNCHANGED <<linked, listening, up>>
  BY SentTypes DEF Arrive, ArrivePush, ArriveAck, ArriveListening, Arrives, server
<1>2. Matched(up[d], down[d], writes[d]) /\ Counted(up[d], down[d], unanswered[d])
  BY <1>1 DEF Sent, Connected
<1>3. /\ down'[d] = Tail(down[d])
      /\ \A e \in Devices \ {d} :
             /\ linked'[e] = linked[e] /\ up'[e] = up[e] /\ listening'[e] = listening[e]
             /\ writes'[e] = writes[e] /\ unanswered'[e] = unanswered[e] /\ down'[e] = down[e]
      /\ linked'[d] /\ up'[d] = up[d]
  <2>1. writes' = writes \/ \E x : writes' = [writes EXCEPT ![d] = x]
    BY DEF Arrive, ArrivePush, ArriveAck, ArriveListening, client
  <2>2. unanswered' = unanswered \/ \E x : unanswered' = [unanswered EXCEPT ![d] = x]
    BY DEF Arrive, ArrivePush, ArriveAck, ArriveListening, client
  <2> QED  BY <1>1, <2>1, <2>2 DEF TypeOK, ControlOK, LimitsIn
<1>4. Counted(up[d], Tail(down[d]), IF Head(down[d]).type = "listening" THEN unanswered[d] - 1
                                    ELSE unanswered[d])
  <2> HIDE DEF D
  <2> QED  BY <1>1, <1>2, CountedTake
<1>5. ASSUME Matched(up[d], Tail(down[d]), writes'[d]), Counted(up[d], Tail(down[d]), unanswered'[d])
      PROVE  Sent'
  <2>1. Connected(linked'[d], up'[d], down'[d], writes'[d], unanswered'[d])
    BY <1>3, <1>5 DEF Connected
  <2> QED  BY <1>3, <2>1, SentOf
<1>6. CASE ArrivePush(d)
  <2>1. Head(down[d]).type = "push" /\ writes'[d] = writes[d] /\ unanswered'[d] = unanswered[d]
    BY <1>6 DEF ArrivePush, Arrives, client
  <2>2. Matched(up[d], Tail(down[d]), writes[d])
    <3> HIDE DEF D
    <3> QED  BY <1>1, <1>2, <2>1, MatchedTake
  <2> QED  BY <1>4, <1>5, <2>1, <2>2
<1>7. CASE ArriveAck(d)
  <2>1. Head(down[d]).type = "ack" /\ unanswered'[d] = unanswered[d]
    BY <1>7 DEF ArriveAck, Arrives
  <2>2. writes[d] # <<>> /\ Matched(up[d], Tail(down[d]), Tail(writes[d]))
    <3> HIDE DEF D
    <3> QED  BY <1>1, <1>2, <2>1, MatchedAck
  <2>3. writes'[d] = Tail(writes[d])
    BY <1>7, <2>2 DEF ArriveAck, TypeOK, LimitsIn
  <2> QED  BY <1>4, <1>5, <2>1, <2>2, <2>3
<1>8. CASE ArriveListening(d)
  <2>1. Head(down[d]).type = "listening" /\ writes'[d] = writes[d] /\ unanswered'[d] = unanswered[d] - 1
    BY <1>8 DEF ArriveListening, Arrives, TypeOK, ControlOK
  <2>2. Matched(up[d], Tail(down[d]), writes[d])
    <3> HIDE DEF D
    <3> QED  BY <1>1, <1>2, <2>1, MatchedTake
  <2> QED  BY <1>4, <1>5, <2>1, <2>2
<1> QED  BY <1>6, <1>7, <1>8 DEF Arrive

\* The connection breaks or comes back, or the process ends.
LEMMA LinkSent ==
    ASSUME TypeOK, Sent, NEW d \in Devices, Drop(d) \/ Reconnect(d) \/ Kill(d)
    PROVE  Sent'
<1>1. CASE Drop(d) \/ Kill(d)
  <2>1. /\ \A e \in Devices \ {d} :
               /\ linked'[e] = linked[e] /\ up'[e] = up[e] /\ down'[e] = down[e]
               /\ writes'[e] = writes[e] /\ unanswered'[e] = unanswered[e]
               /\ listening'[e] = listening[e]
        /\ listening'[d] = FALSE
        /\ linked'[d] = FALSE /\ up'[d] = <<>> /\ down'[d] = <<>> /\ unanswered'[d] = 0
    BY <1>1 DEF Drop, Kill, Restart, TypeOK, ControlOK, LimitsIn
  <2> QED  BY <2>1, SentNothing, SentOf
<1>2. CASE Reconnect(d)
  <2> PICK hs, n : \/ hs = <<Msg("listen")>> /\ n = 1 /\ ViewOpen(d)
                   \/ hs = <<>> /\ n = 0 /\ ~ViewOpen(d)
    OBVIOUS
  <2>1. /\ ~linked[d] /\ linked'[d] = TRUE /\ up'[d] = hs \o Puts(writes[d])
        /\ unanswered'[d] = n /\ down'[d] = down[d] /\ writes'[d] = writes[d]
        /\ \A e \in Devices \ {d} :
               /\ linked'[e] = linked[e] /\ up'[e] = up[e] /\ down'[e] = down[e]
               /\ writes'[e] = writes[e] /\ unanswered'[e] = unanswered[e]
               /\ listening'[e] = listening[e]
    BY <1>2 DEF Reconnect, server, TypeOK, ControlOK, LimitsIn
  <2>2. down[d] = <<>>  BY <2>1 DEF Sent, Connected
  <2>3. Count(hs, {"listen"}) = n /\ n + 0 = n
    <3>1. Count(<<>>, {"listen"}) = 0 /\ Count(<<Msg("listen")>>, {"listen"}) = 1
      BY CountFew DEF Msg
    <3> QED  BY <3>1
  <2>4. hs \in {<<>>, <<Msg("listen")>>, <<Msg("unlisten")>>}  OBVIOUS
  <2>5. Connected(linked'[d], up'[d], down'[d], writes'[d], unanswered'[d])
    <3> PICK ws, ms : ws = writes[d] /\ ms = hs \o Puts(ws)  OBVIOUS
    <3>1. Matched(ms, <<>>, ws) /\ Count(ms, {"listen"}) = n
      BY <2>3, <2>4, Says, SentTypes
    <3>2. Counted(ms, <<>>, n)
      <4>1. Count(<<>>, {"listening"}) = 0  BY CountFew
      <4> QED  BY <2>3, <3>1, <4>1 DEF Counted
    <3> QED  BY <2>1, <2>2, <3>1, <3>2 DEF Connected
  <2> QED  BY <2>1, <2>5, SentOf
<1> QED  BY <1>1, <1>2

\* The invariant holds in every reachable state.
LEMMA AlwaysSent == Spec => []Sent
<1>1. Init => Sent
  <2> SUFFICES ASSUME Init PROVE Sent  OBVIOUS
  <2>1. ASSUME NEW d \in Devices
        PROVE  /\ Connected(linked[d], up[d], down[d], writes[d], unanswered[d])
               /\ listening[d] => linked[d]
    <3>1. /\ linked[d] /\ up[d] = <<>> /\ down[d] = <<>> /\ writes[d] = <<>> /\ unanswered[d] = 0
          /\ ~listening[d]
      BY DEF Init
    <3>2. Counted(<<>>, <<>>, 0)  BY SentNothing DEF Connected
    <3> QED  BY <3>1, <3>2, MatchedNone DEF Connected
  <2> QED  BY <2>1 DEF Sent
<1>2. TypeOK /\ Sent /\ [Next]_vars => Sent'
  <2>1. ASSUME TypeOK, Sent, NEW d \in Devices, Answer(d)  PROVE Sent'
    BY <2>1 DEF Answer, Detected, server, wire, client, Sent
  <2>2. ASSUME Sent, UNCHANGED vars  PROVE Sent'
    BY <2>2 DEF vars, server, wire, client, Sent
  <2> QED  BY <2>1, <2>2, UserSent, CallbackSent, ServeSent, ArriveSent, LinkSent DEF Next
<1> QED  BY <1>1, <1>2, TypeCorrect, PTL DEF Spec

\* On any number of devices, whatever is confirmed, sent again or lost: every
\* confirmation on its way is for the oldest unconfirmed write, because the puts
\* not yet served and the confirmations are exactly those writes, in order.
THEOREM AcksAlwaysMatch == Spec => []AcksMatchWrites
<1>1. Sent => AcksMatchWrites  BY DEF Sent, Connected, Matched, AcksMatchWrites
<1> QED  BY <1>1, AlwaysSent, PTL

\* unackedListensCount is the number of listens that are not answered, so it is
\* never negative and the confirmed writes are freed at the right answer.
THEOREM ListensAlwaysCounted == Spec => []ListensCounted
<1>1. Sent => ListensCounted  BY DEF Sent, Connected, Counted, ListensCounted
<1> QED  BY <1>1, AlwaysSent, PTL
=============================================================================
