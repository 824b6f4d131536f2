---------------------------- MODULE ConsentProofs ----------------------------
(***************************************************************************)
(* Proofs about Consent for any number of teams, actions, records and      *)
(* crashes.                                                                *)
(*                                                                         *)
(* The argument: a handler's program runs its transactions in order, so    *)
(* what is left of it says what was already made and what still holds of   *)
(* the action it is about, wherever the room and the referee go meanwhile. *)
(* What a crash leaves behind are facts of the durable tables alone: every *)
(* roster and withdrawal in the room has a reserved row, every receipt is  *)
(* for a roster in the room, and receipts are handled in order.            *)
(*                                                                         *)
(* For OneConsentOut there is more to say of each consent that is out:     *)
(* something durable keeps Saruku from the next one.  It is pending, or a  *)
(* receipt for it is still to be handled, or the epoch says that it may    *)
(* have been sent, or Saruku writes for its team (Held).  One hands over   *)
(* to the next, and a program that leaves a team or signs for one begins   *)
(* only when nothing is out.  All this ends once a withdrawal is outrun,   *)
(* and then it stays outrun.                                               *)
(***************************************************************************)
EXTENDS Consent, WellFoundedInduction, SequenceTheorems, TLAPS
-----------------------------------------------------------------------------
\* The inductive invariant.

Rosters == Records("roster", Len(room))
Id(i) == room[i].id
Sent(a) == \E i \in 1 .. Len(room) : room[i].kind # "peers" /\ Id(i) = a

\* Saruku's records are of actions it has reserved, one for each roster; a receipt is for
\* a roster that the referee has read; peers complete a team once.
RoomInv ==
    \A i \in 1 .. Len(room) :
        /\ room[i].kind \in Kinds => /\ Id(i) \in DOMAIN action
                                     /\ action[Id(i)].kind = room[i].kind
                                     /\ action[Id(i)].status # "none"
        /\ room[i].kind \in ReceiptKinds =>
              \E j \in 1 .. judged : j < i /\ room[j].kind = "roster" /\ Id(j) = Id(i)
        /\ room[i].kind \in {"roster", "peers"} =>
              \A j \in 1 .. Len(room) : room[j].kind = room[i].kind /\ Id(j) = Id(i) => i = j

\* The referee refuses no roster that stands, and declares a team ready once and only with
\* its peers, whom no roster it merely notes has before it.  It answers in order.
RefereeInv ==
    /\ \A r \in standing :
          /\ \E j \in 1 .. judged : room[j].kind = "roster" /\ Id(j) = r
          /\ \A q \in Records("refused", Len(room)) : Id(q) # r
    /\ \A g \in frozen : \E p \in 1 .. judged : room[p].kind = "peers" /\ Id(p) = g
    /\ \A q \in Records("ready", Len(room)) :
          /\ GameOf(Id(q)) \in frozen
          /\ \A p \in Records("ready", Len(room)) : GameOf(Id(p)) = GameOf(Id(q)) => p = q
          /\ \A p \in Records("refused", Len(room)) :
                /\ Id(p) # Id(q)
                /\ q < p => \A i, j \in Rosters : Id(i) = Id(q) /\ Id(j) = Id(p) => i < j
    /\ \A q \in Records("consented", Len(room)) : \A i \in Rosters :
          Id(i) = Id(q) => \A p \in Records("peers", i) : Id(p) # GameOf(Id(i))

\* Receipts are handled in order, and a game is over when one that it is ready was read.
ReadInv ==
    /\ \A q \in done : \A p \in 1 .. q : room[p].kind \in ReceiptKinds => p \in done
    /\ \A g \in over : g \in frozen /\ \E q \in Records("ready", known) : GameOf(Id(q)) = g

\* The withdrawal that would be looked for, if it was reserved, is the only one in doubt, is
\* from the team of the pending roster, ends no consent that is out and holds the epoch.
PendingRosters == {r \in Ids("roster") : action[r].status = "pending"}
Doubted == {w \in Ids("withdraw") : action[w].delivery \in Unresolved}
Oldest == UnresolvedIntent("withdraw")
OldestUnsent == Oldest # NoAction => action[Oldest].status = "none"

WithdrawalInv ==
    Oldest # NoAction /\ action[Oldest].status # "none" =>
        /\ epoch = NoEpoch \/ epoch.retreating
        /\ \A w \in Doubted : action[w].status # "none" => w = Oldest
        /\ \A r \in PendingRosters : GameOf(r) = GameOf(Oldest)
        /\ \A j \in Records("withdraw", Len(room)), i \in Rosters :
              Id(j) = Oldest /\ GameOf(Id(i)) = GameOf(Oldest) => ~Out(i)

ActionInv ==
    /\ epoch.application # NoAction => epoch.application \in Ids("application")
    /\ \A r, s \in PendingRosters : r = s

\* The programs of the handlers; k commits of one have been made, and the rest is to do.
Rest(program, k) == [j \in 1 .. Len(program) - k |-> program[k + j]]
Retreating == <<"retreated", "retreatDone", "abandon", "leave">>
Signing == <<"intend", "consent", "reserve", "post", "wait">>
GivingUp == <<"abandon", "expire">>
Leaving == <<"retreated", "retreatDone", "withdrawn", "abandon", "leave", "discover">>
Fleeing == <<"flee", "fleeEpoch", "reserve", "post", "posted">>
Confirming == <<"confirm", "confirmEpoch">>
Doubting == <<"doubt", "doubtEpoch">>

\* The receipt at hand is the oldest that is not done.  One that says ready has made its
\* team the active one with the second commit, and the phase WRITING with the fifth.
AtHand(q) == q \in Unprocessed /\ (\A p \in Unprocessed : q <= p) /\ Id(q) = focus

HandleAt(q, k) ==
    /\ AtHand(q) /\ k < Len(Program(room[q].kind)) /\ todo = Rest(Program(room[q].kind), k)
    /\ room[q].kind = "ready" => /\ k >= 2 => team = GameOf(focus)
                                 /\ k = 5 => phase = "WRITING"
HandleInv == \E q \in 1 .. known, k \in 0 .. 5 : HandleAt(q, k)

\* A withdrawal that is done with was the only one in doubt that was reserved.
SeenOldest == focus = Oldest /\ focus \in Ids("withdraw") /\ ReadBack(focus)
SentWithdrawal == focus \in Ids("withdraw") /\ action[focus].status # "none"

RetreatAt(k) ==
    /\ todo = Rest(Retreating, k)
    /\ k = 0 => SeenOldest /\ GameOf(focus) = epoch.game
    /\ k = 1 => SentWithdrawal
    /\ k > 0 => OldestUnsent
ChoosingInv == \E k \in 0 .. 4 : RetreatAt(k)

\* Signing: what the epoch says protects the new consent before it is sent.
Protects(r) == epoch.roster = r /\ epoch.game = GameOf(r) /\ PossiblyConsented
EpochFits == epoch.game = team \/ (epoch = NoEpoch /\ PeersComplete(team))
Drafted ==
    /\ focus = Len(action) /\ focus \in Ids("roster") /\ GameOf(focus) = team /\ ~Sent(focus)
SignAt(k) ==
    /\ todo = Rest(Signing, k) /\ phase = "DISCOVERY" /\ team \in Game
    /\ k < 4 => OldestUnsent /\ EpochFits
    /\ k < 3 => PendingRosters = {}
    /\ k = 0 => Len(action) < MaxActions
    /\ k \in 1 .. 3 => Drafted
    /\ k \in 2 .. 3 => epoch = NoEpoch \/ Protects(focus)
    /\ k = 3 => focus \in PendingRosters
SignInv == \E k \in 0 .. 4 : SignAt(k)

GiveUpAt(k) ==
    /\ todo = Rest(GivingUp, k) /\ (focus = NoAction \/ focus \in Ids("application"))
    /\ k = 0 => ~PossiblyConsented
GiveUpInv == \E k \in 0 .. 1 : GiveUpAt(k)

LeaveAt(k) ==
    /\ todo = Rest(Leaving, k)
    /\ k = 0 => SeenOldest
    /\ k = 1 => SentWithdrawal
LeaveInv == \E k \in 0 .. 5 : LeaveAt(k)

FleeAt(k) ==
    /\ todo = Rest(Fleeing, k)
    /\ k < 3 => /\ team \in Game /\ epoch # NoEpoch /\ OldestUnsent
                /\ \A r \in PendingRosters : GameOf(r) = team
    /\ k = 0 => Len(action) < MaxActions
    /\ k \in 1 .. 2 => focus = Len(action) /\ focus \in Doubted /\ GameOf(focus) = team
    /\ k = 2 => epoch.retreating
    /\ k > 2 => SentWithdrawal
FleeInv == \E k \in 0 .. 4 : FleeAt(k)

ConfirmAt(k) == todo = Rest(Confirming, k) /\ focus \in Ids("roster")
ConfirmInv == \E k \in 0 .. 1 : ConfirmAt(k)
DoubtAt(k) == todo = Rest(Doubting, k) /\ focus \in Ids("roster")
DoubtInv == \E k \in 0 .. 1 : DoubtAt(k)

RunInv ==
    /\ place \in {"idle", "deciding"} => todo = <<>>
    /\ place \in {"deciding", "choosing"} => phase = "DISCOVERY"
    /\ place = "waiting" => phase = "WAIT_ROSTER_READY" /\ (todo = <<>> \/ ConfirmInv)
    /\ place = "returning" => phase # "WRITING"
    /\ place \in {"deciding", "choosing", "waiting", "returning"} => Unprocessed = {}
    /\ place = "receipts" => todo = <<>> \/ HandleInv
    /\ place = "choosing" => ChoosingInv
    /\ place = "returning" => \/ todo = <<>> \/ SignInv \/ GiveUpInv \/ LeaveInv \/ FleeInv
                              \/ DoubtInv

Facts == /\ TypeOK /\ RoomInv /\ RefereeInv /\ ReadInv /\ WithdrawalInv /\ ActionInv
         /\ WritingIsReady
Base == Facts /\ RunInv

-----------------------------------------------------------------------------
\* The oldest and the latest of some actions.

LEMMA LeastExists ==
  ASSUME NEW S \in SUBSET Nat, S # {}
  PROVE  \E x \in S : \A y \in S : x <= y
<1> DEFINE Less == {ss \in Nat \X Nat : ss[1] < ss[2]}
<1>1. IsWellFoundedOn(Less, Nat)
  BY NatLessThanWellFounded, Zenon DEF OpToRel
<1>2. \A x, y \in Nat : <<y, x>> \notin Less => x <= y
  OBVIOUS
<1> HIDE DEF Less
<1>3. PICK x \in S : \A y \in S : <<y, x>> \notin Less
  BY <1>1, WFMin, Zenon
<1> QED BY <1>2, <1>3, Zenon

LEMMA MinIsLeast ==
  ASSUME NEW S \in SUBSET Nat, S # {}
  PROVE  Min(S) \in S /\ \A y \in S : Min(S) <= y
<1>1. PICK x \in S : \A y \in S : x <= y
  BY LeastExists
<1> QED BY <1>1 DEF Min

LEMMA MaxIsIn ==
  ASSUME NEW n \in Nat, NEW S \in SUBSET (0 .. n), S # {}
  PROVE  Max(S) \in S
<1> DEFINE T == {n - x : x \in S}
<1>1. T \in SUBSET Nat /\ T # {}
  <2>1. \A x \in S : x \in 0 .. n /\ n - x \in Nat
    OBVIOUS
  <2>2. PICK x \in S : TRUE
    OBVIOUS
  <2> QED BY <2>1, <2>2
<1>2. PICK t \in T : \A y \in T : t <= y
  BY <1>1, LeastExists
<1>3. PICK x \in S : t = n - x
  BY <1>2
<1>4. \A y \in S : y <= x
  <2> SUFFICES ASSUME NEW y \in S PROVE y <= x
    OBVIOUS
  <2>1. n - y \in T
    OBVIOUS
  <2>2. t <= n - y
    BY <1>2, <2>1
  <2> QED BY <1>3, <2>2
<1> QED BY <1>3, <1>4 DEF Max

LEMMA Basics ==
  ASSUME TypeOK
  PROVE  /\ Len(room) \in Nat /\ DOMAIN room = 1 .. Len(room)
         /\ \A i \in 1 .. Len(room) : room[i] \in Record
         /\ known \in Nat /\ known <= Len(room) /\ judged \in Nat /\ judged <= Len(room)
         /\ Len(action) \in Nat /\ DOMAIN action = 1 .. Len(action)
         /\ \A a \in DOMAIN action : action[a] \in Row /\ a \in Action
         /\ GameCount \in Nat /\ MaxActions \in Nat /\ MaxRoom \in Nat /\ MaxCrashes \in Nat
<1>1. \A i \in 1 .. Len(room) : room[i] \in Record
  <2> HIDE DEF Record
  <2> QED BY DEF TypeOK
<1>2. \A a \in 1 .. Len(action) : action[a] \in Row
  <2> HIDE DEF Row
  <2> QED BY DEF TypeOK
<1> QED BY <1>1, <1>2, BoundsAssumption DEF TypeOK, Action

LEMMA OldestIn ==
  ASSUME NEW S, S \subseteq Nat, 0 \notin S
  PROVE  /\ OldestOf(S) = NoAction <=> S = {}
         /\ OldestOf(S) # NoAction => OldestOf(S) \in S /\ \A w \in S : OldestOf(S) <= w
  BY MinIsLeast DEF OldestOf, NoAction

LEMMA OldestIsOldest ==
  ASSUME TypeOK
  PROVE  /\ Doubted \subseteq DOMAIN action
         /\ Oldest = NoAction <=> Doubted = {}
         /\ Oldest # NoAction => Oldest \in Doubted /\ \A w \in Doubted : Oldest <= w
<1>1. Doubted \subseteq Nat /\ 0 \notin Doubted /\ Doubted \subseteq DOMAIN action
  BY Basics DEF Doubted, Ids
<1>2. Oldest = OldestOf(Doubted)
  BY DEF Oldest, UnresolvedIntent, Doubted
<1> QED BY <1>1, <1>2, OldestIn

LEMMA PendingIsPending ==
  ASSUME TypeOK, NEW k
  PROVE  /\ Pending(k) # NoAction => Pending(k) \in Ids(k) /\ action[Pending(k)].status = "pending"
         /\ Pending(k) = NoAction => \A a \in Ids(k) : action[a].status # "pending"
<1> DEFINE S == {a \in Ids(k) : action[a].status = "pending"}
<1>1. S \subseteq Nat /\ 0 \notin S
  BY Basics DEF Ids
<1>2. Pending(k) = OldestOf(S)
  BY DEF Pending
<1> QED BY <1>1, <1>2, MinIsLeast DEF OldestOf, NoAction

-----------------------------------------------------------------------------
\* What a step does to the rows of the actions and to the room.

RowsStand ==
    /\ Len(action) <= Len(action')
    /\ \A a \in DOMAIN action :
          /\ a \in DOMAIN action'
          /\ action'[a].kind = action[a].kind /\ action'[a].game = action[a].game
          /\ action[a].status # "none" => action'[a].status # "none"

RoomStands ==
    /\ Len(room) <= Len(room')
    /\ \A i \in 1 .. Len(room) : room'[i] = room[i]

LEMMA IsSeq ==
  ASSUME NEW S, NEW n \in Nat, NEW f \in [1 .. n -> S]
  PROVE  f \in Seq(S) /\ Len(f) = n
  OBVIOUS

LEMMA IsRows ==
  ASSUME TypeOK, NEW b, DOMAIN b = DOMAIN action, b = [a \in DOMAIN b |-> b[a]],
         \A a \in DOMAIN action : b[a] \in Row
  PROVE  b \in Seq(Row) /\ Len(b) = Len(action)
<1>1. Len(action) \in Nat /\ DOMAIN action = 1 .. Len(action)
  BY Basics
<1> HIDE DEF Row
<1>2. b \in [1 .. Len(action) -> Row]
  BY <1>1
<1> QED BY <1>1, <1>2, IsSeq

LEMMA StatusSet ==
  ASSUME TypeOK, NEW f, NEW s \in Statuses, action' = [action EXCEPT ![f].status = s]
  PROVE  /\ action' \in Seq(Row) /\ Len(action') = Len(action) /\ DOMAIN action' = DOMAIN action
         /\ \A a \in DOMAIN action :
               /\ action'[a].kind = action[a].kind /\ action'[a].game = action[a].game
               /\ action'[a].delivery = action[a].delivery
               /\ action'[a].status = IF a = f THEN s ELSE action[a].status
<1>1. DOMAIN action' = 1 .. Len(action) /\ Len(action) \in Nat
  BY Basics
<1>2. \A a \in DOMAIN action : action'[a] = IF a = f THEN [action[a] EXCEPT !.status = s] ELSE action[a]
  OBVIOUS
<1>3. \A a \in DOMAIN action : action[a] \in Row
  BY Basics
<1>4. \A a \in DOMAIN action :
               /\ action'[a].kind = action[a].kind /\ action'[a].game = action[a].game
               /\ action'[a].delivery = action[a].delivery
               /\ action'[a].status = IF a = f THEN s ELSE action[a].status
               /\ action'[a] \in Row
  BY <1>2, <1>3 DEF Row
<1>5. action' \in Seq(Row) /\ Len(action') = Len(action)
  <2>1. DOMAIN action' = DOMAIN action /\ action' = [a \in DOMAIN action' |-> action'[a]]
    OBVIOUS
  <2> QED BY <1>4, <2>1, IsRows, Zenon
<1> QED BY <1>1, <1>4, <1>5, Basics

LEMMA DeliverySet ==
  ASSUME TypeOK, NEW f, NEW d \in Deliveries, action' = [action EXCEPT ![f].delivery = d]
  PROVE  /\ action' \in Seq(Row) /\ Len(action') = Len(action) /\ DOMAIN action' = DOMAIN action
         /\ \A a \in DOMAIN action :
               /\ action'[a].kind = action[a].kind /\ action'[a].game = action[a].game
               /\ action'[a].status = action[a].status
               /\ action'[a].delivery = IF a = f THEN d ELSE action[a].delivery
<1>1. DOMAIN action' = 1 .. Len(action) /\ Len(action) \in Nat
  BY Basics
<1>2. \A a \in DOMAIN action : action'[a] = IF a = f THEN [action[a] EXCEPT !.delivery = d] ELSE action[a]
  OBVIOUS
<1>3. \A a \in DOMAIN action : action[a] \in Row
  BY Basics
<1>4. \A a \in DOMAIN action :
               /\ action'[a].kind = action[a].kind /\ action'[a].game = action[a].game
               /\ action'[a].status = action[a].status
               /\ action'[a].delivery = IF a = f THEN d ELSE action[a].delivery
               /\ action'[a] \in Row
  BY <1>2, <1>3 DEF Row
<1>5. action' \in Seq(Row) /\ Len(action') = Len(action)
  <2>1. DOMAIN action' = DOMAIN action /\ action' = [a \in DOMAIN action' |-> action'[a]]
    OBVIOUS
  <2> QED BY <1>4, <2>1, IsRows, Zenon
<1> QED BY <1>1, <1>4, <1>5, Basics

LEMMA RowAdded ==
  ASSUME TypeOK, NEW x \in Row, Len(action) < MaxActions, action' = Append(action, x)
  PROVE  /\ action' \in Seq(Row) /\ Len(action') = Len(action) + 1 /\ Len(action') <= MaxActions
         /\ DOMAIN action' = 1 .. (Len(action) + 1) /\ DOMAIN action = 1 .. Len(action)
         /\ Len(action') \in Action /\ Len(action) \in Nat
         /\ \A a \in DOMAIN action : a \in DOMAIN action' /\ action'[a] = action[a]
         /\ action'[Len(action')] = x
<1> HIDE DEF Row
<1>1. action \in Seq(Row) /\ MaxActions \in Nat
  BY Basics DEF TypeOK
<1> QED BY <1>1 DEF Action

LEMMA RecordAdded ==
  ASSUME TypeOK, NEW x \in Record, Len(room) < MaxRoom, room' = Append(room, x)
  PROVE  /\ room' \in Seq(Record) /\ Len(room') = Len(room) + 1 /\ Len(room') <= MaxRoom
         /\ known \in 0 .. Len(room') /\ judged \in 0 .. Len(room')
         /\ \A i \in 1 .. Len(room) : room'[i] = room[i]
         /\ room'[Len(room) + 1] = x /\ Len(room) \in Nat
<1> HIDE DEF Record
<1> QED BY Basics DEF TypeOK

-----------------------------------------------------------------------------
\* Programs and their commits.

LEMMA Rests ==
  ASSUME NEW P \in Seq(Commits), NEW k \in Nat, k <= Len(P)
  PROVE  /\ Rest(P, k) \in Seq(Commits) /\ Len(Rest(P, k)) = Len(P) - k /\ Len(P) \in Nat
         /\ \A j \in 1 .. Len(P) - k : Rest(P, k)[j] = P[k + j]
         /\ Rest(P, k) = <<>> <=> k = Len(P)
<1> HIDE DEF Commits
<1>1. Len(P) \in Nat /\ Len(P) - k \in Nat /\ \A j \in 1 .. Len(P) - k : k + j \in 1 .. Len(P)
  OBVIOUS
<1>2. Rest(P, k) \in [1 .. Len(P) - k -> Commits]
  BY <1>1 DEF Rest
<1>3. Rest(P, k) \in Seq(Commits) /\ Len(Rest(P, k)) = Len(P) - k
  BY <1>1, <1>2
<1>4. \A j \in 1 .. Len(P) - k : Rest(P, k)[j] = P[k + j]
  BY DEF Rest
<1>5. Rest(P, k) = <<>> <=> k = Len(P)
  BY <1>1, <1>3
<1> QED BY <1>1, <1>3, <1>4, <1>5

LEMMA WholeProgram == ASSUME NEW P \in Seq(Commits) PROVE Rest(P, 0) = P
<1>1. /\ Len(P) \in Nat /\ Rest(P, 0) \in Seq(Commits) /\ Len(Rest(P, 0)) = Len(P) - 0
      /\ \A j \in 1 .. Len(P) - 0 : Rest(P, 0)[j] = P[0 + j]
  <2>1. 0 \in Nat /\ 0 <= Len(P)
    OBVIOUS
  <2> QED BY <2>1, Rests, Zenon
<1>2. Len(Rest(P, 0)) = Len(P) /\ \A j \in 1 .. Len(Rest(P, 0)) : Rest(P, 0)[j] = P[j]
  BY <1>1
<1> QED BY <1>1, <1>2, SeqEqual, Zenon

LEMMA RestStep ==
  ASSUME NEW P \in Seq(Commits), NEW k \in Nat, k <= Len(P), todo = Rest(P, k), todo # <<>>
  PROVE  k < Len(P) /\ Head(todo) = P[k + 1] /\ Tail(todo) = Rest(P, k + 1)
<1> HIDE DEF Commits
<1>1. /\ Len(todo) = Len(P) - k /\ Len(P) \in Nat /\ todo \in Seq(Commits)
      /\ \A j \in 1 .. Len(todo) : todo[j] = P[k + j]
  <2>1. /\ Rest(P, k) \in Seq(Commits) /\ Len(Rest(P, k)) = Len(P) - k /\ Len(P) \in Nat
        /\ \A j \in 1 .. Len(P) - k : Rest(P, k)[j] = P[k + j]
    BY Rests, Zenon
  <2> QED BY <2>1
<1>2. k < Len(P) /\ Head(todo) = P[k + 1]
  BY <1>1
<1>3. /\ Rest(P, k + 1) \in Seq(Commits) /\ Len(Rest(P, k + 1)) = Len(P) - (k + 1)
      /\ \A j \in 1 .. Len(P) - (k + 1) : Rest(P, k + 1)[j] = P[(k + 1) + j]
  <2>1. k + 1 \in Nat /\ k + 1 <= Len(P)
    BY <1>1, <1>2
  <2> QED BY <2>1, Rests, Zenon
<1>4. Len(Tail(todo)) = Len(P) - (k + 1) /\ Tail(todo) \in Seq(Commits)
  BY <1>1, <1>2
<1>5. \A j \in 1 .. Len(P) - (k + 1) : Tail(todo)[j] = P[(k + 1) + j]
  <2> TAKE j \in 1 .. Len(P) - (k + 1)
  <2>1. j + 1 \in 1 .. Len(todo) /\ Tail(todo)[j] = todo[j + 1]
    BY <1>1, <1>2
  <2>2. k + (j + 1) = (k + 1) + j
    BY <1>1
  <2> QED BY <1>1, <2>1, <2>2
<1>6. /\ Len(Tail(todo)) = Len(Rest(P, k + 1))
      /\ \A j \in 1 .. Len(Tail(todo)) : Tail(todo)[j] = Rest(P, k + 1)[j]
  BY <1>3, <1>4, <1>5
<1>7. Tail(todo) = Rest(P, k + 1)
  BY <1>3, <1>4, <1>6, SeqEqual, Zenon
<1> QED BY <1>2, <1>7

LEMMA Programs ==
  /\ Retreating \in Seq(Commits) /\ Len(Retreating) = 4
  /\ Signing \in Seq(Commits) /\ Len(Signing) = 5
  /\ GivingUp \in Seq(Commits) /\ Len(GivingUp) = 2
  /\ Leaving \in Seq(Commits) /\ Len(Leaving) = 6
  /\ Fleeing \in Seq(Commits) /\ Len(Fleeing) = 5
  /\ Confirming \in Seq(Commits) /\ Len(Confirming) = 2
  /\ Doubting \in Seq(Commits) /\ Len(Doubting) = 2
  /\ \A kind \in ReceiptKinds : Program(kind) \in Seq(Commits)
  /\ Len(Program("ready")) = 6 /\ Len(Program("consented")) = 4 /\ Len(Program("refused")) = 6
<1>1. Retreating \in Seq(Commits) /\ Len(Retreating) = 4
  BY DEF Retreating, Commits
<1>2. Signing \in Seq(Commits) /\ Len(Signing) = 5
  BY DEF Signing, Commits
<1>3. GivingUp \in Seq(Commits) /\ Len(GivingUp) = 2
  BY DEF GivingUp, Commits
<1>4. Leaving \in Seq(Commits) /\ Len(Leaving) = 6
  BY DEF Leaving, Commits
<1>5. Fleeing \in Seq(Commits) /\ Len(Fleeing) = 5
  BY DEF Fleeing, Commits
<1>6. Confirming \in Seq(Commits) /\ Len(Confirming) = 2
  BY DEF Confirming, Commits
<1>7. Doubting \in Seq(Commits) /\ Len(Doubting) = 2
  BY DEF Doubting, Commits
<1>8. Program("ready") \in Seq(Commits) /\ Len(Program("ready")) = 6
  <2>1. <<"accept", "join", "confirm", "teamReady", "write", "done">> \in Seq(Commits) /\ Len(<<"accept", "join", "confirm", "teamReady", "write", "done">>) = 6
    BY DEF Commits
  <2>2. Program("ready") = <<"accept", "join", "confirm", "teamReady", "write", "done">>
    BY DEF Program
  <2> QED BY <2>1, <2>2, Zenon
<1>9. Program("consented") \in Seq(Commits) /\ Len(Program("consented")) = 4
  <2>1. <<"accept", "confirm", "note", "done">> \in Seq(Commits) /\ Len(<<"accept", "confirm", "note", "done">>) = 4
    BY DEF Commits
  <2>2. Program("consented") = <<"accept", "confirm", "note", "done">>
    BY DEF Program
  <2> QED BY <2>1, <2>2, Zenon
<1>10. Program("refused") \in Seq(Commits) /\ Len(Program("refused")) = 6
  <2>1. <<"reject", "deny", "denyEpoch", "leave", "discover", "done">> \in Seq(Commits) /\ Len(<<"reject", "deny", "denyEpoch", "leave", "discover", "done">>) = 6
    BY DEF Commits
  <2>2. Program("refused") = <<"reject", "deny", "denyEpoch", "leave", "discover", "done">>
    BY DEF Program
  <2> QED BY <2>1, <2>2, Zenon
<1> QED BY <1>1, <1>2, <1>3, <1>4, <1>5, <1>6, <1>7, <1>8, <1>9, <1>10 DEF ReceiptKinds

LEMMA ProgramSteps ==
  /\ Retreating[1] = "retreated" /\ Retreating[2] = "retreatDone" /\ Retreating[3] = "abandon"
  /\ Retreating[4] = "leave"
  /\ Signing[1] = "intend" /\ Signing[2] = "consent" /\ Signing[3] = "reserve"
  /\ Signing[4] = "post" /\ Signing[5] = "wait"
  /\ GivingUp[1] = "abandon" /\ GivingUp[2] = "expire"
  /\ Leaving[1] = "retreated" /\ Leaving[2] = "retreatDone" /\ Leaving[3] = "withdrawn"
  /\ Leaving[4] = "abandon" /\ Leaving[5] = "leave" /\ Leaving[6] = "discover"
  /\ Fleeing[1] = "flee" /\ Fleeing[2] = "fleeEpoch" /\ Fleeing[3] = "reserve"
  /\ Fleeing[4] = "post" /\ Fleeing[5] = "posted"
  /\ Confirming[1] = "confirm" /\ Confirming[2] = "confirmEpoch"
  /\ Doubting[1] = "doubt" /\ Doubting[2] = "doubtEpoch"
  /\ Program("ready")[1] = "accept" /\ Program("ready")[2] = "join"
  /\ Program("ready")[3] = "confirm" /\ Program("ready")[4] = "teamReady"
  /\ Program("ready")[5] = "write" /\ Program("ready")[6] = "done"
  /\ Program("consented")[1] = "accept" /\ Program("consented")[2] = "confirm"
  /\ Program("consented")[3] = "note" /\ Program("consented")[4] = "done"
  /\ Program("refused")[1] = "reject" /\ Program("refused")[2] = "deny"
  /\ Program("refused")[3] = "denyEpoch" /\ Program("refused")[4] = "leave"
  /\ Program("refused")[5] = "discover" /\ Program("refused")[6] = "done"
<1>1. /\ Retreating[1] = "retreated" /\ Retreating[2] = "retreatDone" /\ Retreating[3] = "abandon"
      /\ Retreating[4] = "leave"
  BY DEF Retreating
<1>2. /\ Signing[1] = "intend" /\ Signing[2] = "consent" /\ Signing[3] = "reserve"
      /\ Signing[4] = "post" /\ Signing[5] = "wait"
  BY DEF Signing
<1>3. GivingUp[1] = "abandon" /\ GivingUp[2] = "expire"
  BY DEF GivingUp
<1>4. /\ Leaving[1] = "retreated" /\ Leaving[2] = "retreatDone" /\ Leaving[3] = "withdrawn"
      /\ Leaving[4] = "abandon" /\ Leaving[5] = "leave" /\ Leaving[6] = "discover"
  BY DEF Leaving
<1>5. /\ Fleeing[1] = "flee" /\ Fleeing[2] = "fleeEpoch" /\ Fleeing[3] = "reserve"
      /\ Fleeing[4] = "post" /\ Fleeing[5] = "posted"
  BY DEF Fleeing
<1>6. Confirming[1] = "confirm" /\ Confirming[2] = "confirmEpoch"
  BY DEF Confirming
<1>7. Doubting[1] = "doubt" /\ Doubting[2] = "doubtEpoch"
  BY DEF Doubting
<1>8. /\ Program("ready")[1] = "accept" /\ Program("ready")[2] = "join"
      /\ Program("ready")[3] = "confirm" /\ Program("ready")[4] = "teamReady"
      /\ Program("ready")[5] = "write" /\ Program("ready")[6] = "done"
  <2>1. Program("ready") = <<"accept", "join", "confirm", "teamReady", "write", "done">>
    BY DEF Program
  <2> QED BY <2>1
<1>9. /\ Program("consented")[1] = "accept" /\ Program("consented")[2] = "confirm"
      /\ Program("consented")[3] = "note" /\ Program("consented")[4] = "done"
  <2>1. Program("consented") = <<"accept", "confirm", "note", "done">>
    BY DEF Program
  <2> QED BY <2>1
<1>10. /\ Program("refused")[1] = "reject" /\ Program("refused")[2] = "deny"
      /\ Program("refused")[3] = "denyEpoch" /\ Program("refused")[4] = "leave"
      /\ Program("refused")[5] = "discover" /\ Program("refused")[6] = "done"
  <2>1. Program("refused") = <<"reject", "deny", "denyEpoch", "leave", "discover", "done">>
    BY DEF Program
  <2> QED BY <2>1
<1> QED BY <1>1, <1>2, <1>3, <1>4, <1>5, <1>6, <1>7, <1>8, <1>9, <1>10

-----------------------------------------------------------------------------
\* What is left to commit, and with it what the commit is about.

LEMMA CommitTypes ==
  ASSUME TypeOK, NEW c, Commit(c)
  PROVE  /\ todo # <<>> /\ Head(todo) = c /\ todo' = Tail(todo)
         /\ todo' \in Seq(Commits) /\ c \in Commits
  BY DEF TypeOK, Commit

LEMMA HandleStep ==
  ASSUME TypeOK, HandleInv, NEW c, todo # <<>>, Head(todo) = c
  PROVE  \E q \in 1 .. known, k \in 0 .. 5 :
            /\ HandleAt(q, k) /\ room[q].kind \in ReceiptKinds
            /\ Tail(todo) = Rest(Program(room[q].kind), k + 1)
            /\ k + 1 < Len(Program(room[q].kind)) \/ c = "done"
            /\ \/ /\ room[q].kind = "ready"
                  /\ \/ (k = 0 /\ c = "accept") \/ (k = 1 /\ c = "join") \/ (k = 2 /\ c = "confirm")
                     \/ (k = 3 /\ c = "teamReady") \/ (k = 4 /\ c = "write") \/ (k = 5 /\ c = "done")
               \/ /\ room[q].kind = "consented"
                  /\ \/ (k = 0 /\ c = "accept") \/ (k = 1 /\ c = "confirm") \/ (k = 2 /\ c = "note")
                     \/ (k = 3 /\ c = "done")
               \/ /\ room[q].kind = "refused"
                  /\ \/ (k = 0 /\ c = "reject") \/ (k = 1 /\ c = "deny") \/ (k = 2 /\ c = "denyEpoch")
                     \/ (k = 3 /\ c = "leave") \/ (k = 4 /\ c = "discover") \/ (k = 5 /\ c = "done")
<1>1. PICK q \in 1 .. known, k \in 0 .. 5 : HandleAt(q, k)
  BY DEF HandleInv
<1>2. /\ room[q].kind \in ReceiptKinds /\ k < Len(Program(room[q].kind))
      /\ todo = Rest(Program(room[q].kind), k)
  BY <1>1 DEF HandleAt, AtHand, Unprocessed
<1>3. /\ Program(room[q].kind) \in Seq(Commits) /\ k \in Nat
      /\ Len(Program(room[q].kind)) \in Nat
  BY <1>2, Programs DEF ReceiptKinds
<1>4. k <= Len(Program(room[q].kind))
  BY <1>2, <1>3
<1>5. c = Program(room[q].kind)[k + 1] /\ Tail(todo) = Rest(Program(room[q].kind), k + 1)
  BY <1>2, <1>3, <1>4, RestStep, Zenon
<1>6. k = 0 \/ k = 1 \/ k = 2 \/ k = 3 \/ k = 4 \/ k = 5
  OBVIOUS
<1>7. CASE room[q].kind = "ready"
  <2>1. \/ (k = 0 /\ c = "accept") \/ (k = 1 /\ c = "join") \/ (k = 2 /\ c = "confirm")
        \/ (k = 3 /\ c = "teamReady") \/ (k = 4 /\ c = "write") \/ (k = 5 /\ c = "done")
    BY <1>5, <1>6, <1>7, ProgramSteps
  <2>2. k + 1 < Len(Program(room[q].kind)) \/ c = "done"
    <3>1. Len(Program("ready")) = 6
      BY Programs
    <3>2. k + 1 < 6 \/ c = "done"
      BY <2>1
    <3> QED BY <1>7, <3>1, <3>2
  <2> QED BY <1>1, <1>2, <1>5, <1>7, <2>1, <2>2
<1>8. CASE room[q].kind = "consented"
  <2>1. k < 4
    BY <1>2, <1>8, Programs
  <2>2. \/ (k = 0 /\ c = "accept") \/ (k = 1 /\ c = "confirm") \/ (k = 2 /\ c = "note")
        \/ (k = 3 /\ c = "done")
    BY <1>5, <1>6, <1>8, <2>1, ProgramSteps
  <2>3. k + 1 < Len(Program(room[q].kind)) \/ c = "done"
    <3>1. Len(Program("consented")) = 4
      BY Programs
    <3>2. k + 1 < 4 \/ c = "done"
      BY <2>2
    <3> QED BY <1>8, <3>1, <3>2
  <2> QED BY <1>1, <1>2, <1>5, <1>8, <2>2, <2>3
<1>9. CASE room[q].kind = "refused"
  <2>1. \/ (k = 0 /\ c = "reject") \/ (k = 1 /\ c = "deny") \/ (k = 2 /\ c = "denyEpoch")
        \/ (k = 3 /\ c = "leave") \/ (k = 4 /\ c = "discover") \/ (k = 5 /\ c = "done")
    BY <1>5, <1>6, <1>9, ProgramSteps
  <2>2. k + 1 < Len(Program(room[q].kind)) \/ c = "done"
    <3>1. Len(Program("refused")) = 6
      BY Programs
    <3>2. k + 1 < 6 \/ c = "done"
      BY <2>1
    <3> QED BY <1>9, <3>1, <3>2
  <2> QED BY <1>1, <1>2, <1>5, <1>9, <2>1, <2>2
<1> QED BY <1>2, <1>7, <1>8, <1>9 DEF ReceiptKinds

LEMMA RetreatStep ==
  ASSUME NEW k \in 0 .. 4, todo = Rest(Retreating, k), NEW c, todo # <<>>, Head(todo) = c
  PROVE  /\ Tail(todo) = Rest(Retreating, k + 1)
         /\ \/ (k = 0 /\ c = "retreated") \/ (k = 1 /\ c = "retreatDone") \/ (k = 2 /\ c = "abandon")
            \/ (k = 3 /\ c = "leave")
<1>1. Retreating \in Seq(Commits) /\ k \in Nat /\ k <= Len(Retreating) /\ Len(Retreating) = 4
  BY Programs
<1>2. k < 4 /\ c = Retreating[k + 1] /\ Tail(todo) = Rest(Retreating, k + 1)
  BY <1>1, RestStep, Zenon
<1>3. k = 0 \/ k = 1 \/ k = 2 \/ k = 3
  BY <1>2
<1> QED BY <1>2, <1>3, ProgramSteps

LEMMA SignStep ==
  ASSUME NEW k \in 0 .. 4, todo = Rest(Signing, k), NEW c, todo # <<>>, Head(todo) = c
  PROVE  /\ Tail(todo) = Rest(Signing, k + 1)
         /\ \/ (k = 0 /\ c = "intend") \/ (k = 1 /\ c = "consent") \/ (k = 2 /\ c = "reserve")
            \/ (k = 3 /\ c = "post") \/ (k = 4 /\ c = "wait")
<1>1. Signing \in Seq(Commits) /\ k \in Nat /\ k <= Len(Signing) /\ Len(Signing) = 5
  BY Programs
<1>2. c = Signing[k + 1] /\ Tail(todo) = Rest(Signing, k + 1)
  BY <1>1, RestStep, Zenon
<1>3. k = 0 \/ k = 1 \/ k = 2 \/ k = 3 \/ k = 4
  OBVIOUS
<1> QED BY <1>2, <1>3, ProgramSteps

LEMMA GiveUpStep ==
  ASSUME NEW k \in 0 .. 1, todo = Rest(GivingUp, k), NEW c, todo # <<>>, Head(todo) = c
  PROVE  /\ Tail(todo) = Rest(GivingUp, k + 1)
         /\ (k = 0 /\ c = "abandon") \/ (k = 1 /\ c = "expire")
<1>1. GivingUp \in Seq(Commits) /\ k \in Nat /\ k <= Len(GivingUp) /\ Len(GivingUp) = 2
  BY Programs
<1>2. c = GivingUp[k + 1] /\ Tail(todo) = Rest(GivingUp, k + 1)
  BY <1>1, RestStep, Zenon
<1>3. k = 0 \/ k = 1
  OBVIOUS
<1> QED BY <1>2, <1>3, ProgramSteps

LEMMA LeaveStep ==
  ASSUME NEW k \in 0 .. 5, todo = Rest(Leaving, k), NEW c, todo # <<>>, Head(todo) = c
  PROVE  /\ Tail(todo) = Rest(Leaving, k + 1)
         /\ \/ (k = 0 /\ c = "retreated") \/ (k = 1 /\ c = "retreatDone") \/ (k = 2 /\ c = "withdrawn")
            \/ (k = 3 /\ c = "abandon") \/ (k = 4 /\ c = "leave") \/ (k = 5 /\ c = "discover")
<1>1. Leaving \in Seq(Commits) /\ k \in Nat /\ k <= Len(Leaving) /\ Len(Leaving) = 6
  BY Programs
<1>2. c = Leaving[k + 1] /\ Tail(todo) = Rest(Leaving, k + 1)
  BY <1>1, RestStep, Zenon
<1>3. k = 0 \/ k = 1 \/ k = 2 \/ k = 3 \/ k = 4 \/ k = 5
  OBVIOUS
<1> QED BY <1>2, <1>3, ProgramSteps

LEMMA FleeStep ==
  ASSUME NEW k \in 0 .. 4, todo = Rest(Fleeing, k), NEW c, todo # <<>>, Head(todo) = c
  PROVE  /\ Tail(todo) = Rest(Fleeing, k + 1)
         /\ \/ (k = 0 /\ c = "flee") \/ (k = 1 /\ c = "fleeEpoch") \/ (k = 2 /\ c = "reserve")
            \/ (k = 3 /\ c = "post") \/ (k = 4 /\ c = "posted")
<1>1. Fleeing \in Seq(Commits) /\ k \in Nat /\ k <= Len(Fleeing) /\ Len(Fleeing) = 5
  BY Programs
<1>2. c = Fleeing[k + 1] /\ Tail(todo) = Rest(Fleeing, k + 1)
  BY <1>1, RestStep, Zenon
<1>3. k = 0 \/ k = 1 \/ k = 2 \/ k = 3 \/ k = 4
  OBVIOUS
<1> QED BY <1>2, <1>3, ProgramSteps

LEMMA ConfirmStep ==
  ASSUME NEW k \in 0 .. 1, todo = Rest(Confirming, k), NEW c, todo # <<>>, Head(todo) = c
  PROVE  /\ Tail(todo) = Rest(Confirming, k + 1)
         /\ (k = 0 /\ c = "confirm") \/ (k = 1 /\ c = "confirmEpoch")
<1>1. Confirming \in Seq(Commits) /\ k \in Nat /\ k <= Len(Confirming) /\ Len(Confirming) = 2
  BY Programs
<1>2. c = Confirming[k + 1] /\ Tail(todo) = Rest(Confirming, k + 1)
  BY <1>1, RestStep, Zenon
<1>3. k = 0 \/ k = 1
  OBVIOUS
<1> QED BY <1>2, <1>3, ProgramSteps

LEMMA DoubtStep ==
  ASSUME NEW k \in 0 .. 1, todo = Rest(Doubting, k), NEW c, todo # <<>>, Head(todo) = c
  PROVE  /\ Tail(todo) = Rest(Doubting, k + 1)
         /\ (k = 0 /\ c = "doubt") \/ (k = 1 /\ c = "doubtEpoch")
<1>1. Doubting \in Seq(Commits) /\ k \in Nat /\ k <= Len(Doubting) /\ Len(Doubting) = 2
  BY Programs
<1>2. c = Doubting[k + 1] /\ Tail(todo) = Rest(Doubting, k + 1)
  BY <1>1, RestStep, Zenon
<1>3. k = 0 \/ k = 1
  OBVIOUS
<1> QED BY <1>2, <1>3, ProgramSteps

\* The rest of a program that has been made is nothing.
LEMMA ProgramEnds ==
  /\ Rest(Retreating, 4) = <<>> /\ Rest(Signing, 5) = <<>> /\ Rest(GivingUp, 2) = <<>>
  /\ Rest(Leaving, 6) = <<>> /\ Rest(Fleeing, 5) = <<>> /\ Rest(Confirming, 2) = <<>>
  /\ Rest(Doubting, 2) = <<>>
<1>1. ASSUME NEW P \in Seq(Commits), NEW k \in Nat, k = Len(P) PROVE Rest(P, k) = <<>>
  BY <1>1, Rests
<1> QED BY <1>1, Programs

LEMMA BaseParts ==
  ASSUME Base
  PROVE  /\ TypeOK /\ RoomInv /\ RefereeInv /\ ReadInv /\ WithdrawalInv /\ ActionInv /\ RunInv
         /\ WritingIsReady
  BY DEF Base, Facts

SentRoster == focus \in Ids("roster") /\ action[focus].status # "none"

\* A receipt is for a roster that was sent.
LEMMA ReceiptFocus ==
  ASSUME TypeOK, RoomInv, NEW q \in 1 .. Len(room), room[q].kind \in ReceiptKinds
  PROVE  /\ Id(q) \in DOMAIN action /\ Id(q) \in Ids("roster") /\ action[Id(q)].status # "none"
         /\ \E i \in 1 .. judged : i < q /\ room[i].kind = "roster" /\ Id(i) = Id(q)
<1>1. PICK i \in 1 .. judged : i < q /\ room[i].kind = "roster" /\ Id(i) = Id(q)
  BY DEF RoomInv
<1>2. i \in 1 .. Len(room) /\ room[i].kind \in Kinds
  BY <1>1, Basics DEF Kinds
<1>3. Id(i) \in DOMAIN action /\ action[Id(i)].kind = "roster" /\ action[Id(i)].status # "none"
  BY <1>1, <1>2 DEF RoomInv
<1> QED BY <1>1, <1>3 DEF Ids

LEMMA InReceipts ==
  ASSUME Base, place = "receipts", todo # <<>>, NEW c, Head(todo) = c
  PROVE  /\ SentRoster
         /\ \E q \in 1 .. known, k \in 0 .. 5 :
            /\ HandleAt(q, k) /\ AtHand(q) /\ room[q].kind \in ReceiptKinds
            /\ Tail(todo) = Rest(Program(room[q].kind), k + 1)
            /\ k + 1 < Len(Program(room[q].kind)) \/ c = "done"
            /\ \/ /\ room[q].kind = "ready"
                  /\ \/ (k = 0 /\ c = "accept") \/ (k = 1 /\ c = "join") \/ (k = 2 /\ c = "confirm")
                     \/ (k = 3 /\ c = "teamReady") \/ (k = 4 /\ c = "write") \/ (k = 5 /\ c = "done")
               \/ /\ room[q].kind = "consented"
                  /\ \/ (k = 0 /\ c = "accept") \/ (k = 1 /\ c = "confirm") \/ (k = 2 /\ c = "note")
                     \/ (k = 3 /\ c = "done")
               \/ /\ room[q].kind = "refused"
                  /\ \/ (k = 0 /\ c = "reject") \/ (k = 1 /\ c = "deny") \/ (k = 2 /\ c = "denyEpoch")
                     \/ (k = 3 /\ c = "leave") \/ (k = 4 /\ c = "discover") \/ (k = 5 /\ c = "done")
<1>1. HandleInv
  BY BaseParts DEF RunInv
<1>2. PICK q \in 1 .. known, k \in 0 .. 5 :
            /\ HandleAt(q, k) /\ room[q].kind \in ReceiptKinds
            /\ Tail(todo) = Rest(Program(room[q].kind), k + 1)
            /\ k + 1 < Len(Program(room[q].kind)) \/ c = "done"
            /\ \/ /\ room[q].kind = "ready"
                  /\ \/ (k = 0 /\ c = "accept") \/ (k = 1 /\ c = "join") \/ (k = 2 /\ c = "confirm")
                     \/ (k = 3 /\ c = "teamReady") \/ (k = 4 /\ c = "write") \/ (k = 5 /\ c = "done")
               \/ /\ room[q].kind = "consented"
                  /\ \/ (k = 0 /\ c = "accept") \/ (k = 1 /\ c = "confirm") \/ (k = 2 /\ c = "note")
                     \/ (k = 3 /\ c = "done")
               \/ /\ room[q].kind = "refused"
                  /\ \/ (k = 0 /\ c = "reject") \/ (k = 1 /\ c = "deny") \/ (k = 2 /\ c = "denyEpoch")
                     \/ (k = 3 /\ c = "leave") \/ (k = 4 /\ c = "discover") \/ (k = 5 /\ c = "done")
  BY <1>1, HandleStep, BaseParts
<1>3. q \in 1 .. Len(room) /\ Id(q) = focus /\ AtHand(q)
  BY <1>2, Basics, BaseParts DEF HandleAt, AtHand
<1>4. SentRoster
  BY <1>2, <1>3, ReceiptFocus, BaseParts DEF SentRoster
<1> QED BY <1>2, <1>3, <1>4

LEMMA InChoosing ==
  ASSUME Base, place = "choosing", todo # <<>>, NEW c, Head(todo) = c
  PROVE  \E k \in 0 .. 3 :
            /\ RetreatAt(k) /\ Tail(todo) = Rest(Retreating, k + 1)
            /\ \/ (k = 0 /\ c = "retreated") \/ (k = 1 /\ c = "retreatDone")
               \/ (k = 2 /\ c = "abandon") \/ (k = 3 /\ c = "leave")
<1>1. PICK k \in 0 .. 4 : RetreatAt(k)
  BY BaseParts DEF RunInv, ChoosingInv
<1>2. /\ Tail(todo) = Rest(Retreating, k + 1)
      /\ \/ (k = 0 /\ c = "retreated") \/ (k = 1 /\ c = "retreatDone")
         \/ (k = 2 /\ c = "abandon") \/ (k = 3 /\ c = "leave")
  BY <1>1, RetreatStep DEF RetreatAt
<1> QED BY <1>1, <1>2

LEMMA InWaiting ==
  ASSUME Base, place = "waiting", todo # <<>>, NEW c, Head(todo) = c
  PROVE  \E k \in 0 .. 1 :
            /\ ConfirmAt(k) /\ Tail(todo) = Rest(Confirming, k + 1)
            /\ (k = 0 /\ c = "confirm") \/ (k = 1 /\ c = "confirmEpoch")
<1>1. PICK k \in 0 .. 1 : ConfirmAt(k)
  BY BaseParts DEF RunInv, ConfirmInv
<1>2. /\ Tail(todo) = Rest(Confirming, k + 1)
      /\ (k = 0 /\ c = "confirm") \/ (k = 1 /\ c = "confirmEpoch")
  BY <1>1, ConfirmStep DEF ConfirmAt
<1> QED BY <1>1, <1>2

LEMMA InSigning ==
  ASSUME Base, SignInv, todo # <<>>, NEW c, Head(todo) = c
  PROVE  \E k \in 0 .. 4 :
            /\ SignAt(k) /\ Tail(todo) = Rest(Signing, k + 1)
            /\ \/ (k = 0 /\ c = "intend") \/ (k = 1 /\ c = "consent") \/ (k = 2 /\ c = "reserve")
               \/ (k = 3 /\ c = "post") \/ (k = 4 /\ c = "wait")
<1>1. PICK k \in 0 .. 4 : SignAt(k)
  BY DEF SignInv
<1>2. /\ Tail(todo) = Rest(Signing, k + 1)
      /\ \/ (k = 0 /\ c = "intend") \/ (k = 1 /\ c = "consent") \/ (k = 2 /\ c = "reserve")
         \/ (k = 3 /\ c = "post") \/ (k = 4 /\ c = "wait")
  BY <1>1, SignStep DEF SignAt
<1> QED BY <1>1, <1>2

LEMMA InGivingUp ==
  ASSUME Base, GiveUpInv, todo # <<>>, NEW c, Head(todo) = c
  PROVE  \E k \in 0 .. 1 :
            /\ GiveUpAt(k) /\ Tail(todo) = Rest(GivingUp, k + 1)
            /\ (k = 0 /\ c = "abandon") \/ (k = 1 /\ c = "expire")
<1>1. PICK k \in 0 .. 1 : GiveUpAt(k)
  BY DEF GiveUpInv
<1>2. /\ Tail(todo) = Rest(GivingUp, k + 1)
      /\ (k = 0 /\ c = "abandon") \/ (k = 1 /\ c = "expire")
  BY <1>1, GiveUpStep DEF GiveUpAt
<1> QED BY <1>1, <1>2

LEMMA InLeaving ==
  ASSUME Base, LeaveInv, todo # <<>>, NEW c, Head(todo) = c
  PROVE  \E k \in 0 .. 5 :
            /\ LeaveAt(k) /\ Tail(todo) = Rest(Leaving, k + 1)
            /\ \/ (k = 0 /\ c = "retreated") \/ (k = 1 /\ c = "retreatDone") \/ (k = 2 /\ c = "withdrawn")
               \/ (k = 3 /\ c = "abandon") \/ (k = 4 /\ c = "leave") \/ (k = 5 /\ c = "discover")
<1>1. PICK k \in 0 .. 5 : LeaveAt(k)
  BY DEF LeaveInv
<1>2. /\ Tail(todo) = Rest(Leaving, k + 1)
      /\ \/ (k = 0 /\ c = "retreated") \/ (k = 1 /\ c = "retreatDone") \/ (k = 2 /\ c = "withdrawn")
         \/ (k = 3 /\ c = "abandon") \/ (k = 4 /\ c = "leave") \/ (k = 5 /\ c = "discover")
  BY <1>1, LeaveStep DEF LeaveAt
<1> QED BY <1>1, <1>2

LEMMA InFleeing ==
  ASSUME Base, FleeInv, todo # <<>>, NEW c, Head(todo) = c
  PROVE  \E k \in 0 .. 4 :
            /\ FleeAt(k) /\ Tail(todo) = Rest(Fleeing, k + 1)
            /\ \/ (k = 0 /\ c = "flee") \/ (k = 1 /\ c = "fleeEpoch") \/ (k = 2 /\ c = "reserve")
               \/ (k = 3 /\ c = "post") \/ (k = 4 /\ c = "posted")
<1>1. PICK k \in 0 .. 4 : FleeAt(k)
  BY DEF FleeInv
<1>2. /\ Tail(todo) = Rest(Fleeing, k + 1)
      /\ \/ (k = 0 /\ c = "flee") \/ (k = 1 /\ c = "fleeEpoch") \/ (k = 2 /\ c = "reserve")
         \/ (k = 3 /\ c = "post") \/ (k = 4 /\ c = "posted")
  BY <1>1, FleeStep DEF FleeAt
<1> QED BY <1>1, <1>2

LEMMA InDoubting ==
  ASSUME Base, DoubtInv, todo # <<>>, NEW c, Head(todo) = c
  PROVE  \E k \in 0 .. 1 :
            /\ DoubtAt(k) /\ Tail(todo) = Rest(Doubting, k + 1)
            /\ (k = 0 /\ c = "doubt") \/ (k = 1 /\ c = "doubtEpoch")
<1>1. PICK k \in 0 .. 1 : DoubtAt(k)
  BY DEF DoubtInv
<1>2. /\ Tail(todo) = Rest(Doubting, k + 1)
      /\ (k = 0 /\ c = "doubt") \/ (k = 1 /\ c = "doubtEpoch")
  BY <1>1, DoubtStep DEF DoubtAt
<1> QED BY <1>1, <1>2

LEMMA Somewhere ==
  ASSUME Base, todo # <<>>
  PROVE  \/ place = "receipts" \/ place = "choosing" \/ place = "waiting"
         \/ (place = "returning" /\ (SignInv \/ GiveUpInv \/ LeaveInv \/ FleeInv \/ DoubtInv))
  BY BaseParts DEF TypeOK, Places, RunInv

-----------------------------------------------------------------------------
\* What a change of a row does to what is derived from the rows.

LEMMA StatusEffect ==
  ASSUME TypeOK, NEW f, NEW s \in Statuses \ {"none"}, action' = [action EXCEPT ![f].status = s]
  PROVE  /\ RowsStand /\ Len(action') = Len(action) /\ action' \in Seq(Row)
         /\ \A k : Ids(k)' = Ids(k)
         /\ Doubted' = Doubted /\ Oldest' = Oldest
         /\ (s # "pending" \/ f \notin Ids("roster")) => PendingRosters' \subseteq PendingRosters
         /\ PendingRosters' \subseteq PendingRosters \cup {f}
         /\ \A a \in DOMAIN action : a # f => action'[a].status = action[a].status
<1>1. /\ action' \in Seq(Row) /\ Len(action') = Len(action) /\ DOMAIN action' = DOMAIN action
      /\ \A a \in DOMAIN action :
            /\ action'[a].kind = action[a].kind /\ action'[a].game = action[a].game
            /\ action'[a].delivery = action[a].delivery
            /\ action'[a].status = IF a = f THEN s ELSE action[a].status
  BY StatusSet
<1>2. Len(action) \in Nat
  BY Basics
<1>3. RowsStand
  <2>1. Len(action) <= Len(action')
    BY <1>1, <1>2
  <2>2. \A a \in DOMAIN action :
          /\ a \in DOMAIN action'
          /\ action'[a].kind = action[a].kind /\ action'[a].game = action[a].game
          /\ action[a].status # "none" => action'[a].status # "none"
    BY <1>1
  <2> QED BY <2>1, <2>2 DEF RowsStand
<1>4. \A k : Ids(k)' = Ids(k)
  BY <1>1 DEF Ids
<1>5. Doubted' = Doubted
  BY <1>1, <1>4 DEF Doubted, Ids
<1>6. Oldest' = Oldest
  BY <1>5 DEF Oldest, UnresolvedIntent, Doubted
<1>7. \A r \in PendingRosters' : r \in Ids("roster") /\ r \in DOMAIN action /\ action'[r].status = "pending"
  BY <1>1, <1>4 DEF PendingRosters, Ids
<1>8. PendingRosters' \subseteq PendingRosters \cup {f}
  BY <1>1, <1>7 DEF PendingRosters
<1>9. ASSUME s # "pending" \/ f \notin Ids("roster") PROVE PendingRosters' \subseteq PendingRosters
  BY <1>1, <1>7, <1>9 DEF PendingRosters
<1>10. \A a \in DOMAIN action : a # f => action'[a].status = action[a].status
  BY <1>1
<1> QED BY <1>1, <1>3, <1>4, <1>5, <1>6, <1>8, <1>9, <1>10

LEMMA DeliveryEffect ==
  ASSUME TypeOK, NEW f, NEW d \in Deliveries, action' = [action EXCEPT ![f].delivery = d]
  PROVE  /\ RowsStand /\ Len(action') = Len(action) /\ action' \in Seq(Row)
         /\ \A k : Ids(k)' = Ids(k)
         /\ PendingRosters' = PendingRosters
         /\ f \notin Ids("withdraw") => Doubted' = Doubted /\ Oldest' = Oldest
         /\ d \notin Unresolved => Doubted' = Doubted \ {f}
         /\ \A a \in DOMAIN action : action'[a].status = action[a].status
<1>1. /\ action' \in Seq(Row) /\ Len(action') = Len(action) /\ DOMAIN action' = DOMAIN action
      /\ \A a \in DOMAIN action :
            /\ action'[a].kind = action[a].kind /\ action'[a].game = action[a].game
            /\ action'[a].status = action[a].status
            /\ action'[a].delivery = IF a = f THEN d ELSE action[a].delivery
  BY DeliverySet
<1>2. Len(action) \in Nat
  BY Basics
<1>3. RowsStand
  BY <1>1, <1>2 DEF RowsStand
<1>4. \A k : Ids(k)' = Ids(k)
  BY <1>1 DEF Ids
<1>5. PendingRosters' = PendingRosters
  BY <1>1, <1>4 DEF PendingRosters, Ids
<1>6. ASSUME f \notin Ids("withdraw") PROVE Doubted' = Doubted
  BY <1>1, <1>4, <1>6 DEF Doubted, Ids
<1>7. ASSUME f \notin Ids("withdraw") PROVE Oldest' = Oldest
  BY <1>6, <1>7 DEF Oldest, UnresolvedIntent, Doubted
<1>8. ASSUME d \notin Unresolved PROVE Doubted' = Doubted \ {f}
  BY <1>1, <1>4, <1>8 DEF Doubted, Ids
<1> QED BY <1>1, <1>3, <1>4, <1>5, <1>6, <1>7, <1>8

LEMMA RowEffect ==
  ASSUME TypeOK, NEW x \in Row, Len(action) < MaxActions, action' = Append(action, x)
  PROVE  /\ RowsStand /\ action' \in Seq(Row) /\ Len(action') <= MaxActions
         /\ Len(action') \in Action /\ Len(action') = Len(action) + 1
         /\ Len(action') \notin DOMAIN action
         /\ \A k : Ids(k)' = IF k = x.kind THEN Ids(k) \cup {Len(action')} ELSE Ids(k)
         /\ (x.kind # "roster" \/ x.status # "pending") => PendingRosters' = PendingRosters
         /\ x.kind # "withdraw" => Doubted' = Doubted /\ Oldest' = Oldest
         /\ (x.kind = "withdraw" /\ x.delivery \in Unresolved) => Doubted' = Doubted \cup {Len(action')}
         /\ \A a \in DOMAIN action : action'[a] = action[a]
         /\ action'[Len(action')] = x
<1>1. /\ action' \in Seq(Row) /\ Len(action') = Len(action) + 1 /\ Len(action') <= MaxActions
      /\ DOMAIN action' = 1 .. (Len(action) + 1) /\ DOMAIN action = 1 .. Len(action)
      /\ Len(action') \in Action /\ Len(action) \in Nat
      /\ \A a \in DOMAIN action : a \in DOMAIN action' /\ action'[a] = action[a]
      /\ action'[Len(action')] = x
  BY RowAdded
<1> DEFINE n == Len(action')
<1>2. n \notin DOMAIN action /\ DOMAIN action' = DOMAIN action \cup {n}
  BY <1>1
<1>3. RowsStand
  BY <1>1 DEF RowsStand
<1>4. \A k : Ids(k)' = IF k = x.kind THEN Ids(k) \cup {n} ELSE Ids(k)
  <2>1. \A a \in DOMAIN action : action'[a] = action[a]
    BY <1>1
  <2>2. action'[n] = x
    BY <1>1
  <2> HIDE DEF n
  <2> QED BY <1>2, <2>1, <2>2 DEF Ids
<1>5. ASSUME x.kind # "roster" \/ x.status # "pending" PROVE PendingRosters' = PendingRosters
  <2>1. \A r \in Ids("roster") : r \in DOMAIN action /\ action'[r] = action[r]
    BY <1>1 DEF Ids
  <2> QED BY <1>1, <1>4, <1>5, <2>1 DEF PendingRosters
<1>6. \A r \in Ids("withdraw") : r \in DOMAIN action /\ action'[r] = action[r]
  BY <1>1 DEF Ids
<1>7. ASSUME x.kind # "withdraw" PROVE Doubted' = Doubted
  BY <1>1, <1>4, <1>6, <1>7 DEF Doubted
<1>8. ASSUME x.kind # "withdraw" PROVE Oldest' = Oldest
  BY <1>7, <1>8 DEF Oldest, UnresolvedIntent, Doubted
<1>9. ASSUME x.kind = "withdraw", x.delivery \in Unresolved PROVE Doubted' = Doubted \cup {n}
  BY <1>1, <1>4, <1>6, <1>9 DEF Doubted
<1> QED BY <1>1, <1>2, <1>3, <1>4, <1>5, <1>7, <1>8, <1>9

-----------------------------------------------------------------------------
\* What is known of a commit that is to be made.

CommitFacts(c) ==
    /\ c \in {"accept", "reject", "deny", "note", "denyEpoch", "teamReady", "join", "write",
              "done"} => place = "receipts"
    /\ c \in {"accept", "reject", "deny", "note", "denyEpoch", "confirm", "confirmEpoch", "doubt",
              "doubtEpoch", "join"} => focus \in Ids("roster")
    /\ c \in {"accept", "reject"} => action[focus].status # "none"
    /\ c \in {"retreatDone", "posted"} => SentWithdrawal
    /\ c = "retreated" => SeenOldest
    /\ c = "expire" => focus = NoAction \/ focus \in Ids("application")
    /\ c = "intend" => SignAt(0)
    /\ c = "consent" => SignAt(1)
    /\ c = "reserve" => SignAt(2) \/ FleeAt(2)
    /\ c = "post" => SignAt(3) \/ FleeAt(3)
    /\ c = "wait" => SignAt(4)
    /\ c = "flee" => FleeAt(0)
    /\ c = "fleeEpoch" => FleeAt(1)
    /\ c = "join" => \E q \in 1 .. known : room[q].kind = "ready" /\ HandleAt(q, 1)
    /\ c = "write" => \E q \in 1 .. known : room[q].kind = "ready" /\ HandleAt(q, 4)
    /\ c = "done" => \E q \in 1 .. known : AtHand(q) /\ (room[q].kind = "ready" => HandleAt(q, 5))

LEMMA CommitIs ==
  ASSUME Base, todo # <<>>, NEW c, Head(todo) = c
  PROVE  CommitFacts(c)
<1>1. CASE place = "receipts"
  <2>1. SentRoster
    BY <1>1, InReceipts
  <2>2. PICK q \in 1 .. known, k \in 0 .. 5 :
            /\ HandleAt(q, k) /\ AtHand(q) /\ room[q].kind \in ReceiptKinds
            /\ \/ /\ room[q].kind = "ready"
                  /\ \/ (k = 0 /\ c = "accept") \/ (k = 1 /\ c = "join") \/ (k = 2 /\ c = "confirm")
                     \/ (k = 3 /\ c = "teamReady") \/ (k = 4 /\ c = "write") \/ (k = 5 /\ c = "done")
               \/ /\ room[q].kind = "consented"
                  /\ \/ (k = 0 /\ c = "accept") \/ (k = 1 /\ c = "confirm") \/ (k = 2 /\ c = "note")
                     \/ (k = 3 /\ c = "done")
               \/ /\ room[q].kind = "refused"
                  /\ \/ (k = 0 /\ c = "reject") \/ (k = 1 /\ c = "deny") \/ (k = 2 /\ c = "denyEpoch")
                     \/ (k = 3 /\ c = "leave") \/ (k = 4 /\ c = "discover") \/ (k = 5 /\ c = "done")
    BY <1>1, InReceipts
  <2> HIDE DEF HandleAt, AtHand, SentRoster
  <2> QED BY <1>1, <2>1, <2>2 DEF CommitFacts, SentRoster
<1>2. CASE place = "choosing"
  <2>1. PICK k \in 0 .. 3 :
            /\ RetreatAt(k)
            /\ \/ (k = 0 /\ c = "retreated") \/ (k = 1 /\ c = "retreatDone")
               \/ (k = 2 /\ c = "abandon") \/ (k = 3 /\ c = "leave")
    BY <1>2, InChoosing
  <2> QED BY <2>1 DEF CommitFacts, RetreatAt
<1>3. CASE place = "waiting"
  <2>1. PICK k \in 0 .. 1 : ConfirmAt(k) /\ ((k = 0 /\ c = "confirm") \/ (k = 1 /\ c = "confirmEpoch"))
    BY <1>3, InWaiting
  <2> QED BY <2>1 DEF CommitFacts, ConfirmAt
<1>4. CASE SignInv
  <2>1. PICK k \in 0 .. 4 :
            /\ SignAt(k)
            /\ \/ (k = 0 /\ c = "intend") \/ (k = 1 /\ c = "consent") \/ (k = 2 /\ c = "reserve")
               \/ (k = 3 /\ c = "post") \/ (k = 4 /\ c = "wait")
    BY <1>4, InSigning
  <2> QED BY <2>1 DEF CommitFacts
<1>5. CASE GiveUpInv
  <2>1. PICK k \in 0 .. 1 : GiveUpAt(k) /\ ((k = 0 /\ c = "abandon") \/ (k = 1 /\ c = "expire"))
    BY <1>5, InGivingUp
  <2> QED BY <2>1 DEF CommitFacts, GiveUpAt
<1>6. CASE LeaveInv
  <2>1. PICK k \in 0 .. 5 :
            /\ LeaveAt(k)
            /\ \/ (k = 0 /\ c = "retreated") \/ (k = 1 /\ c = "retreatDone") \/ (k = 2 /\ c = "withdrawn")
               \/ (k = 3 /\ c = "abandon") \/ (k = 4 /\ c = "leave") \/ (k = 5 /\ c = "discover")
    BY <1>6, InLeaving
  <2> QED BY <2>1 DEF CommitFacts, LeaveAt
<1>7. CASE FleeInv
  <2>1. PICK k \in 0 .. 4 :
            /\ FleeAt(k)
            /\ \/ (k = 0 /\ c = "flee") \/ (k = 1 /\ c = "fleeEpoch") \/ (k = 2 /\ c = "reserve")
               \/ (k = 3 /\ c = "post") \/ (k = 4 /\ c = "posted")
    BY <1>7, InFleeing
  <2>2. k = 4 => SentWithdrawal
    BY <2>1 DEF FleeAt
  <2> QED BY <2>1, <2>2 DEF CommitFacts
<1>8. CASE DoubtInv
  <2>1. PICK k \in 0 .. 1 : DoubtAt(k) /\ ((k = 0 /\ c = "doubt") \/ (k = 1 /\ c = "doubtEpoch"))
    BY <1>8, InDoubting
  <2> QED BY <2>1 DEF CommitFacts, DoubtAt
<1> QED BY <1>1, <1>2, <1>3, <1>4, <1>5, <1>6, <1>7, <1>8, Somewhere

-----------------------------------------------------------------------------
\* What stands while rows change as they do.

LEMMA RoomKept ==
  ASSUME TypeOK, RoomInv, RowsStand, UNCHANGED <<room, judged>>
  PROVE  RoomInv'
<1> SUFFICES ASSUME NEW i \in 1 .. Len(room)
    PROVE /\ room[i].kind \in Kinds => /\ Id(i) \in DOMAIN action'
                                     /\ action'[Id(i)].kind = room[i].kind
                                     /\ action'[Id(i)].status # "none"
          /\ room[i].kind \in ReceiptKinds =>
              \E j \in 1 .. judged : j < i /\ room[j].kind = "roster" /\ Id(j) = Id(i)
          /\ room[i].kind \in {"roster", "peers"} =>
              \A j \in 1 .. Len(room) : room[j].kind = room[i].kind /\ Id(j) = Id(i) => i = j
  BY DEF RoomInv, Id
<1>1. room[i].kind \in Kinds => /\ Id(i) \in DOMAIN action /\ action[Id(i)].kind = room[i].kind
                                /\ action[Id(i)].status # "none"
  BY DEF RoomInv
<1>2. room[i].kind \in Kinds => /\ Id(i) \in DOMAIN action'
                                /\ action'[Id(i)].kind = room[i].kind
                                /\ action'[Id(i)].status # "none"
  BY <1>1 DEF RowsStand
<1> QED BY <1>2 DEF RoomInv

\* The games of what is in the room.
LEMMA GamesStand ==
  ASSUME TypeOK, RoomInv, RowsStand
  PROVE  /\ \A i \in Rosters : Id(i) \in DOMAIN action /\ action'[Id(i)].game = action[Id(i)].game
         /\ \A i \in 1 .. Len(room) : room[i].kind # "peers" =>
               Id(i) \in DOMAIN action /\ action'[Id(i)].game = action[Id(i)].game
<1>1. \A i \in 1 .. Len(room) : room[i].kind # "peers" => Id(i) \in DOMAIN action
  <2> SUFFICES ASSUME NEW i \in 1 .. Len(room), room[i].kind # "peers" PROVE Id(i) \in DOMAIN action
    OBVIOUS
  <2>1. room[i].kind \in Kinds \/ room[i].kind \in ReceiptKinds
    BY Basics DEF Record, Kinds, ReceiptKinds
  <2> QED BY <2>1, ReceiptFocus DEF RoomInv
<1> QED BY <1>1 DEF RowsStand, Rosters, Records

LEMMA RefereeKept ==
  ASSUME TypeOK, RoomInv, RefereeInv, RowsStand, UNCHANGED <<room, refereeVars>>
  PROVE  RefereeInv'
<1>1. \A q \in 1 .. Len(room) : room[q].kind # "peers" => GameOf(Id(q))' = GameOf(Id(q))
  BY GamesStand DEF GameOf, Id
<1>2. \A r \in standing :
          /\ \E j \in 1 .. judged : room[j].kind = "roster" /\ Id(j) = r
          /\ \A q \in Records("refused", Len(room)) : Id(q) # r
  BY DEF RefereeInv
<1>3. \A g \in frozen : \E p \in 1 .. judged : room[p].kind = "peers" /\ Id(p) = g
  BY DEF RefereeInv
<1>4. \A q \in Records("ready", Len(room)) :
          /\ GameOf(Id(q))' \in frozen
          /\ \A p \in Records("ready", Len(room)) : GameOf(Id(p))' = GameOf(Id(q))' => p = q
          /\ \A p \in Records("refused", Len(room)) :
                /\ Id(p) # Id(q)
                /\ q < p => \A i, j \in Rosters : Id(i) = Id(q) /\ Id(j) = Id(p) => i < j
  <2>1. \A q \in Records("ready", Len(room)) : GameOf(Id(q))' = GameOf(Id(q))
    BY <1>1 DEF Records
  <2> QED BY <2>1 DEF RefereeInv
<1>5. \A q \in Records("consented", Len(room)) : \A i \in Rosters :
          Id(i) = Id(q) => \A p \in Records("peers", i) : Id(p) # GameOf(Id(i))'
  <2>1. \A i \in Rosters : GameOf(Id(i))' = GameOf(Id(i))
    BY <1>1 DEF Rosters, Records
  <2> QED BY <2>1 DEF RefereeInv
<1>6. \A q : Id(q)' = Id(q)
  BY DEF Id
<1>7. Rosters' = Rosters /\ \A k, n : Records(k, n)' = Records(k, n)
  BY DEF Rosters, Records
<1>8. standing' = standing /\ frozen' = frozen /\ judged' = judged /\ room' = room
  BY DEF refereeVars
<1> QED BY <1>2, <1>3, <1>4, <1>5, <1>6, <1>7, <1>8 DEF RefereeInv

LEMMA ReadKept ==
  ASSUME TypeOK, RoomInv, ReadInv, RowsStand, UNCHANGED <<room, known, done, frozen, over>>
  PROVE  ReadInv'
<1>1. \A g \in over' : g \in frozen' /\ \E q \in Records("ready", known)' : GameOf(Id(q))' = g
  <2> SUFFICES ASSUME NEW g \in over
               PROVE  g \in frozen /\ \E q \in Records("ready", known)' : GameOf(Id(q))' = g
    OBVIOUS
  <2>1. g \in frozen
    BY DEF ReadInv
  <2>2. PICK q \in Records("ready", known) : GameOf(Id(q)) = g
    BY DEF ReadInv
  <2>3. q \in 1 .. Len(room) /\ room[q].kind # "peers"
    BY <2>2, Basics DEF Records
  <2>4. GameOf(Id(q))' = g
    BY <2>2, <2>3, GamesStand DEF GameOf, Id
  <2>5. q \in Records("ready", known)'
    BY DEF Records
  <2> QED BY <2>1, <2>4, <2>5
<1>2. \A q \in done' : \A p \in 1 .. q : room'[p].kind \in ReceiptKinds => p \in done'
  BY DEF ReadInv
<1> QED BY <1>1, <1>2 DEF ReadInv

\* A withdrawal is kept in doubt or the oldest in doubt is unsent.
LEMMA WithdrawalUnsent == ASSUME OldestUnsent' PROVE WithdrawalInv'
  BY DEF OldestUnsent, WithdrawalInv

LEMMA OutKept ==
  ASSUME TypeOK, RoomInv, RowsStand, room' = room, over \subseteq over', NEW i \in Rosters
  PROVE  Out(i)' => Out(i)
<1>1. \A j \in 1 .. Len(room) : room[j].kind # "peers" => GameOf(room[j].id)' = GameOf(room[j].id)
  BY GamesStand DEF GameOf, Id
<1>2. i \in 1 .. Len(room) /\ room[i].kind # "peers"
  BY DEF Rosters, Records
<1>3. \A k, n : Records(k, n)' = Records(k, n)
  BY DEF Records
<1>4. \A j \in Records("withdraw", Len(room)) : j \in 1 .. Len(room) /\ room[j].kind # "peers"
  BY DEF Records
<1> SUFFICES ASSUME Out(i)' PROVE Out(i)
  OBVIOUS
<1>5. GameOf(room[i].id) \notin over
  BY <1>1, <1>2 DEF Out
<1>6. \A j \in Records("refused", Len(room)) : room[j].id # room[i].id
  BY <1>3 DEF Out
<1>7. \A j \in Records("withdraw", Len(room)) : GameOf(room[j].id) = GameOf(room[i].id) => j < i
  BY <1>1, <1>2, <1>3, <1>4 DEF Out
<1> QED BY <1>5, <1>6, <1>7 DEF Out

LEMMA WithdrawalKept ==
  ASSUME TypeOK, RoomInv, WithdrawalInv, RowsStand, Oldest' = Oldest, Doubted' = Doubted,
         \A w \in Doubted : action[w].status = "none" => action'[w].status = "none",
         PendingRosters' \subseteq PendingRosters,
         epoch = NoEpoch => epoch' = NoEpoch,
         epoch.retreating => epoch' = NoEpoch \/ epoch'.retreating,
         room' = room, over \subseteq over'
  PROVE  WithdrawalInv'
<1> SUFFICES ASSUME Oldest # NoAction, action'[Oldest].status # "none"
    PROVE /\ epoch' = NoEpoch \/ epoch'.retreating
          /\ \A w \in Doubted : action'[w].status # "none" => w = Oldest
          /\ \A r \in PendingRosters' : GameOf(r)' = GameOf(Oldest)'
          /\ \A j \in Records("withdraw", Len(room)), i \in Rosters :
                Id(j) = Oldest /\ GameOf(Id(i))' = GameOf(Oldest)' => ~Out(i)'
  BY DEF WithdrawalInv, Rosters, Records, Id
<1>1. Oldest \in Doubted /\ Doubted \subseteq DOMAIN action
  BY OldestIsOldest
<1>2. action[Oldest].status # "none"
  BY <1>1
<1>3. epoch' = NoEpoch \/ epoch'.retreating
  BY <1>2 DEF WithdrawalInv
<1>4. \A w \in Doubted : action'[w].status # "none" => w = Oldest
  BY <1>1, <1>2 DEF WithdrawalInv
<1>5. GameOf(Oldest)' = GameOf(Oldest)
  BY <1>1 DEF GameOf, RowsStand
<1>6. \A r \in PendingRosters : r \in DOMAIN action /\ GameOf(r)' = GameOf(r)
  BY DEF PendingRosters, Ids, GameOf, RowsStand
<1>7. \A r \in PendingRosters' : GameOf(r)' = GameOf(Oldest)'
  BY <1>2, <1>5, <1>6 DEF WithdrawalInv
<1>8. \A j \in Records("withdraw", Len(room)), i \in Rosters :
                Id(j) = Oldest /\ GameOf(Id(i))' = GameOf(Oldest)' => ~Out(i)'
  <2> TAKE j \in Records("withdraw", Len(room)), i \in Rosters
  <2>1. GameOf(Id(i))' = GameOf(Id(i))
    BY GamesStand DEF GameOf, Id
  <2> QED BY <1>2, <1>5, <2>1, OutKept DEF WithdrawalInv
<1> QED BY <1>3, <1>4, <1>7, <1>8

LEMMA ActionKept ==
  ASSUME ActionInv, epoch'.application \in {epoch.application, NoAction},
         Ids("application") \subseteq Ids("application")', PendingRosters' \subseteq PendingRosters
  PROVE  ActionInv'
  BY DEF ActionInv

LEMMA WritingKept ==
  ASSUME TypeOK, RoomInv, WritingIsReady, RowsStand, UNCHANGED <<room, known>>,
         phase' = phase \/ phase' # "WRITING", team' = team \/ team' = NoGame
  PROVE  WritingIsReady'
<1> SUFFICES ASSUME phase' = "WRITING", team' # NoGame
             PROVE  \E i \in Records("ready", known)' : GameOf(room[i].id)' = team'
  BY DEF WritingIsReady
<1>1. PICK i \in Records("ready", known) : GameOf(room[i].id) = team
  BY DEF WritingIsReady
<1>2. i \in 1 .. Len(room) /\ room[i].kind # "peers"
  BY <1>1, Basics DEF Records
<1>3. GameOf(room[i].id)' = team
  BY <1>1, <1>2, GamesStand DEF GameOf, Id
<1>4. i \in Records("ready", known)'
  BY DEF Records
<1> QED BY <1>3, <1>4

-----------------------------------------------------------------------------
\* The transactions and what does not depend on the program they are of.

LEMMA CommitType ==
  ASSUME TypeOK, NEW c, Commit(c), UNCHANGED <<readVars, place, worldVars, crashes>>,
         phase' \in {"DISCOVERY", "WAIT_ROSTER_READY", "WRITING"}, team' \in Game \cup {NoGame},
         action' \in Seq(Row), Len(action') <= MaxActions, epoch' \in Epoch \cup {NoEpoch},
         ended' \subseteq Ended, focus' \in 0 .. MaxActions
  PROVE  TypeOK'
<1>1. todo' \in Seq(Commits)
  BY CommitTypes
<1>2. UNCHANGED <<known, done, room, judged, standing, frozen, over>>
  BY DEF readVars, worldVars, refereeVars
<1> HIDE DEF Row, Record, Epoch, Ended
<1> QED BY <1>1, <1>2 DEF TypeOK

LEMMA StatusCommits ==
  ASSUME Base, CommitStatus
  PROVE  Facts'
<1>1. TypeOK /\ RoomInv /\ RefereeInv /\ ReadInv /\ WithdrawalInv /\ ActionInv /\ WritingIsReady
  BY DEF Base, Facts
<1>2. PICK c \in DOMAIN NewStatus :
         /\ Commit(c)
         /\ action' = IF focus = NoAction THEN action
                      ELSE [action EXCEPT ![focus].status = NewStatus[c]]
  BY DEF CommitStatus
<1>3. /\ UNCHANGED <<phase, team, epoch, ended, readVars, place, focus, worldVars, crashes>>
      /\ UNCHANGED <<known, done, room, judged, standing, frozen, over, refereeVars>>
  BY DEF CommitStatus, readVars, worldVars, refereeVars
<1>4. CommitFacts(c)
  BY <1>2, CommitIs DEF Commit
<1>5. c \in {"accept", "reject", "retreatDone", "expire", "reserve", "posted"}
  BY <1>2 DEF NewStatus
<1>6. NewStatus[c] \in Statuses \ {"none"} /\ (NewStatus[c] = "pending" <=> c = "reserve")
  BY <1>5 DEF NewStatus, Statuses
<1>7. CASE focus = NoAction
  <2>1. action' = action
    BY <1>2, <1>7
  <2>2. RowsStand /\ UNCHANGED <<Oldest, Doubted, PendingRosters, Ids("application")>>
    BY <1>1, <2>1, Basics DEF RowsStand, Oldest, Doubted, PendingRosters, UnresolvedIntent, Ids
  <2>3. TypeOK'
    <3>1. /\ phase \in {"DISCOVERY", "WAIT_ROSTER_READY", "WRITING"} /\ team \in Game \cup {NoGame}
          /\ action \in Seq(Row) /\ Len(action) <= MaxActions /\ epoch \in Epoch \cup {NoEpoch}
          /\ ended \subseteq Ended /\ focus \in 0 .. MaxActions
      BY <1>1 DEF TypeOK
    <3> QED BY <1>1, <1>2, <1>3, <2>1, <3>1, CommitType
  <2>4. RoomInv'
    BY <1>1, <1>3, <2>2, RoomKept
  <2>5. RefereeInv'
    BY <1>1, <1>3, <2>2, RefereeKept
  <2>6. ReadInv'
    BY <1>1, <1>3, <2>2, ReadKept
  <2>7. WithdrawalInv'
    BY <1>1, <1>3, <2>1, <2>2, WithdrawalKept
  <2>8. ActionInv'
    BY <1>1, <1>3, <2>2, ActionKept
  <2>9. WritingIsReady'
    BY <1>1, <1>3, <2>2, WritingKept
  <2> QED BY <2>3, <2>4, <2>5, <2>6, <2>7, <2>8, <2>9 DEF Facts
<1>8. CASE focus # NoAction
  <2>1. /\ RowsStand /\ Len(action') = Len(action) /\ action' \in Seq(Row)
        /\ Ids("application")' = Ids("application")
        /\ Doubted' = Doubted /\ Oldest' = Oldest
        /\ (c # "reserve" \/ focus \notin Ids("roster")) => PendingRosters' \subseteq PendingRosters
        /\ PendingRosters' \subseteq PendingRosters \cup {focus}
        /\ \A a \in DOMAIN action : a # focus => action'[a].status = action[a].status
    <3> DEFINE s == NewStatus[c]
    <3>1. action' = [action EXCEPT ![focus].status = s] /\ s \in Statuses \ {"none"}
      BY <1>2, <1>6, <1>8
    <3>2. s = "pending" <=> c = "reserve"
      BY <1>6
    <3> HIDE DEF s
    <3>3. /\ RowsStand /\ Len(action') = Len(action) /\ action' \in Seq(Row)
          /\ \A k : Ids(k)' = Ids(k)
          /\ Doubted' = Doubted /\ Oldest' = Oldest
          /\ (s # "pending" \/ focus \notin Ids("roster")) => PendingRosters' \subseteq PendingRosters
          /\ PendingRosters' \subseteq PendingRosters \cup {focus}
          /\ \A a \in DOMAIN action : a # focus => action'[a].status = action[a].status
      BY <1>1, <3>1, StatusEffect, Zenon
    <3> QED BY <3>2, <3>3
  <2>2. TypeOK'
    <3>1. /\ phase \in {"DISCOVERY", "WAIT_ROSTER_READY", "WRITING"} /\ team \in Game \cup {NoGame}
          /\ Len(action) <= MaxActions /\ epoch \in Epoch \cup {NoEpoch}
          /\ ended \subseteq Ended /\ focus \in 0 .. MaxActions
      BY <1>1 DEF TypeOK
    <3> QED BY <1>1, <1>2, <1>3, <2>1, <3>1, CommitType
  <2>3. RoomInv'
    BY <1>1, <1>3, <2>1, RoomKept
  <2>4. RefereeInv'
    BY <1>1, <1>3, <2>1, RefereeKept
  <2>5. ReadInv'
    BY <1>1, <1>3, <2>1, ReadKept
  <2>6. WritingIsReady'
    BY <1>1, <1>3, <2>1, WritingKept
  <2>7. CASE c # "reserve"
    <3>1. \A w \in Doubted : action[w].status = "none" => action'[w].status = "none"
      <4>1. \A w \in Doubted : w \in DOMAIN action /\ w \in Ids("withdraw")
        BY <1>1, OldestIsOldest DEF Doubted
      <4>2. focus \in Ids("withdraw") => action[focus].status # "none"
        <5>1. focus \in Ids("withdraw") => focus \notin Ids("roster") /\ focus \notin Ids("application")
          BY DEF Ids
        <5> QED BY <1>4, <1>5, <1>8, <2>7, <5>1 DEF CommitFacts, SentWithdrawal
      <4> QED BY <2>1, <4>1, <4>2
    <3>2. WithdrawalInv'
      BY <1>1, <1>3, <2>1, <2>7, <3>1, WithdrawalKept
    <3>3. ActionInv'
      BY <1>1, <1>3, <2>1, <2>7, ActionKept
    <3> QED BY <2>2, <2>3, <2>4, <2>5, <2>6, <3>2, <3>3 DEF Facts
  <2>8. CASE c = "reserve" /\ SignAt(2)
    <3>1. /\ OldestUnsent /\ PendingRosters = {} /\ focus \in Ids("roster")
      BY <2>8 DEF SignAt, Drafted
    <3>2. OldestUnsent'
      <4>1. Oldest # NoAction => Oldest \in Ids("withdraw") /\ Oldest \in DOMAIN action
        BY <1>1, OldestIsOldest DEF Doubted
      <4>2. Oldest # NoAction => Oldest # focus
        BY <3>1, <4>1 DEF Ids
      <4> QED BY <2>1, <3>1, <4>1, <4>2 DEF OldestUnsent
    <3>3. ActionInv'
      BY <1>1, <1>3, <2>1, <3>1 DEF ActionInv
    <3> QED BY <2>2, <2>3, <2>4, <2>5, <2>6, <3>2, <3>3, WithdrawalUnsent DEF Facts
  <2>9. CASE c = "reserve" /\ FleeAt(2)
    <3>1. /\ epoch.retreating /\ OldestUnsent /\ focus = Len(action) /\ focus \in Doubted
          /\ \A r \in PendingRosters : GameOf(r) = GameOf(focus)
      BY <2>9 DEF FleeAt
    <3>2. PendingRosters' \subseteq PendingRosters
      <4>1. focus \notin Ids("roster")
        BY <3>1 DEF Doubted, Ids
      <4> QED BY <2>1, <4>1
    <3>3. ActionInv'
      BY <1>1, <1>3, <2>1, <3>2, ActionKept
    <3>4. CASE Oldest # focus
      <4>1. OldestUnsent'
        <5>1. Oldest # NoAction => Oldest \in DOMAIN action
          BY <1>1, OldestIsOldest
        <5> QED BY <2>1, <3>1, <3>4, <5>1 DEF OldestUnsent
      <4> QED BY <2>2, <2>3, <2>4, <2>5, <2>6, <3>3, <4>1, WithdrawalUnsent DEF Facts
    <3>5. CASE Oldest = focus
      <4>1. \A w \in Doubted : w = Oldest
        <5>1. \A w \in Doubted : w \in DOMAIN action /\ Oldest <= w
          BY <1>1, <1>8, <3>5, OldestIsOldest
        <5>2. \A w \in Doubted : w \in 1 .. Len(action)
          BY <1>1, <5>1, Basics
        <5>3. Len(action) \in Nat
          BY <1>1, Basics
        <5> QED BY <3>1, <3>5, <5>1, <5>2, <5>3
      <4>2. \A r \in PendingRosters' : GameOf(r)' = GameOf(Oldest)'
        <5>1. \A r \in PendingRosters : r \in DOMAIN action
          BY DEF PendingRosters, Ids
        <5>2. Oldest \in DOMAIN action
          BY <1>1, <3>1, <3>5, OldestIsOldest
        <5> QED BY <2>1, <3>1, <3>2, <3>5, <5>1, <5>2 DEF RowsStand, GameOf
      <4>3. \A j \in Records("withdraw", Len(room)) : Id(j) # Oldest
        <5>1. action[Oldest].status = "none"
          BY <1>8, <3>1, <3>5 DEF OldestUnsent
        <5> QED BY <1>1, <5>1 DEF RoomInv, Records, Kinds
      <4>4. /\ epoch' = epoch /\ Records("withdraw", Len(room))' = Records("withdraw", Len(room))
            /\ \A j : Id(j)' = Id(j)
        BY <1>3 DEF Records, Id
      <4>5. WithdrawalInv'
        BY <2>1, <3>1, <4>1, <4>2, <4>3, <4>4 DEF WithdrawalInv
      <4> QED BY <2>2, <2>3, <2>4, <2>5, <2>6, <3>3, <4>5 DEF Facts
    <3> QED BY <3>4, <3>5
  <2> QED BY <1>4, <2>7, <2>8, <2>9 DEF CommitFacts
<1> QED BY <1>7, <1>8

LEMMA WithdrawnCommits ==
  ASSUME Base, CommitWithdrawn
  PROVE  Facts'
<1>1. TypeOK /\ RoomInv /\ RefereeInv /\ ReadInv /\ WithdrawalInv /\ ActionInv /\ WritingIsReady
  BY DEF Base, Facts
<1>2. /\ Commit("withdrawn")
      /\ action' = [action EXCEPT ![Pending("roster")].status = "withdrawn"]
      /\ UNCHANGED <<phase, team, epoch, ended, readVars, place, focus, worldVars, crashes>>
      /\ UNCHANGED <<known, done, room, judged, standing, frozen, over, refereeVars>>
  BY DEF CommitWithdrawn, readVars, worldVars, refereeVars
<1>3. /\ RowsStand /\ Len(action') = Len(action) /\ action' \in Seq(Row)
      /\ Ids("application")' = Ids("application")
      /\ Doubted' = Doubted /\ Oldest' = Oldest
      /\ PendingRosters' \subseteq PendingRosters
      /\ \A a \in DOMAIN action : a # Pending("roster") => action'[a].status = action[a].status
  <2> DEFINE f == Pending("roster")
  <2>1. action' = [action EXCEPT ![f].status = "withdrawn"]
    BY <1>2
  <2>2. "withdrawn" \in Statuses \ {"none"} /\ "withdrawn" # "pending"
    BY DEF Statuses
  <2> HIDE DEF f
  <2>3. /\ RowsStand /\ Len(action') = Len(action) /\ action' \in Seq(Row)
        /\ \A k : Ids(k)' = Ids(k)
        /\ Doubted' = Doubted /\ Oldest' = Oldest
        /\ ("withdrawn" # "pending" \/ f \notin Ids("roster")) => PendingRosters' \subseteq PendingRosters
        /\ \A a \in DOMAIN action : a # f => action'[a].status = action[a].status
    BY <1>1, <2>1, <2>2, StatusEffect
  <2> QED BY <2>2, <2>3 DEF f
<1>4. TypeOK'
  <2>1. /\ phase \in {"DISCOVERY", "WAIT_ROSTER_READY", "WRITING"} /\ team \in Game \cup {NoGame}
        /\ Len(action) <= MaxActions /\ epoch \in Epoch \cup {NoEpoch}
        /\ ended \subseteq Ended /\ focus \in 0 .. MaxActions
    BY <1>1 DEF TypeOK
  <2> QED BY <1>1, <1>2, <1>3, <2>1, CommitType
<1>5. RoomInv'
  BY <1>1, <1>2, <1>3, RoomKept
<1>6. RefereeInv'
  BY <1>1, <1>2, <1>3, RefereeKept
<1>7. ReadInv'
  BY <1>1, <1>2, <1>3, ReadKept
<1>8. WritingIsReady'
  BY <1>1, <1>2, <1>3, WritingKept
<1>9. WithdrawalInv'
  <2>1. \A w \in Doubted : action[w].status = "none" => action'[w].status = "none"
    <3>1. \A w \in Doubted : w \in DOMAIN action /\ w \in Ids("withdraw")
      BY <1>1, OldestIsOldest DEF Doubted
    <3>2. Pending("roster") \notin Ids("withdraw")
      <4>1. CASE Pending("roster") = NoAction
        BY <1>1, <4>1, Basics DEF Ids, NoAction
      <4>2. CASE Pending("roster") # NoAction
        <5>1. Pending("roster") \in Ids("roster")
          BY <1>1, <4>2, PendingIsPending
        <5> QED BY <5>1 DEF Ids
      <4> QED BY <4>1, <4>2
    <3> QED BY <1>3, <3>1, <3>2
  <2> QED BY <1>1, <1>2, <1>3, <2>1, WithdrawalKept
<1>10. ActionInv'
  BY <1>1, <1>2, <1>3, ActionKept
<1> QED BY <1>4, <1>5, <1>6, <1>7, <1>8, <1>9, <1>10 DEF Facts

LEMMA DeliveryCommits ==
  ASSUME Base, CommitDelivery
  PROVE  Facts' /\ (Head(todo) = "retreated" => OldestUnsent')
<1>1. TypeOK /\ RoomInv /\ RefereeInv /\ ReadInv /\ WithdrawalInv /\ ActionInv /\ WritingIsReady
  BY DEF Base, Facts
<1>2. PICK c \in DOMAIN NewDelivery :
         Commit(c) /\ action' = [action EXCEPT ![focus].delivery = NewDelivery[c]]
  BY DEF CommitDelivery
<1>3. /\ UNCHANGED <<phase, team, epoch, ended, readVars, place, focus, worldVars, crashes>>
      /\ UNCHANGED <<known, done, room, judged, standing, frozen, over, refereeVars>>
  BY DEF CommitDelivery, readVars, worldVars, refereeVars
<1>4. CommitFacts(c)
  BY <1>2, CommitIs DEF Commit
<1>5. c \in {"confirm", "deny", "retreated", "doubt"}
  BY <1>2 DEF NewDelivery
<1>6. NewDelivery[c] \in Deliveries /\ (c = "retreated" => NewDelivery[c] \notin Unresolved)
  BY <1>5 DEF NewDelivery, Deliveries, Unresolved
<1>7. /\ RowsStand /\ Len(action') = Len(action) /\ action' \in Seq(Row)
      /\ Ids("application")' = Ids("application")
      /\ PendingRosters' = PendingRosters
      /\ focus \notin Ids("withdraw") => Doubted' = Doubted /\ Oldest' = Oldest
      /\ c = "retreated" => Doubted' = Doubted \ {focus}
      /\ \A a \in DOMAIN action : action'[a].status = action[a].status
  <2> DEFINE d == NewDelivery[c]
  <2>1. action' = [action EXCEPT ![focus].delivery = d] /\ d \in Deliveries
    BY <1>2, <1>6
  <2>2. c = "retreated" => d \notin Unresolved
    BY <1>6
  <2> HIDE DEF d
  <2>3. /\ RowsStand /\ Len(action') = Len(action) /\ action' \in Seq(Row)
        /\ \A k : Ids(k)' = Ids(k)
        /\ PendingRosters' = PendingRosters
        /\ focus \notin Ids("withdraw") => Doubted' = Doubted /\ Oldest' = Oldest
        /\ d \notin Unresolved => Doubted' = Doubted \ {focus}
        /\ \A a \in DOMAIN action : action'[a].status = action[a].status
    BY <1>1, <2>1, DeliveryEffect, Zenon
  <2> QED BY <2>2, <2>3
<1>8. TypeOK'
  <2>1. /\ phase \in {"DISCOVERY", "WAIT_ROSTER_READY", "WRITING"} /\ team \in Game \cup {NoGame}
        /\ Len(action) <= MaxActions /\ epoch \in Epoch \cup {NoEpoch}
        /\ ended \subseteq Ended /\ focus \in 0 .. MaxActions
    BY <1>1 DEF TypeOK
  <2> QED BY <1>1, <1>2, <1>3, <1>7, <2>1, CommitType
<1>9. RoomInv'
  BY <1>1, <1>3, <1>7, RoomKept
<1>10. RefereeInv'
  BY <1>1, <1>3, <1>7, RefereeKept
<1>11. ReadInv'
  BY <1>1, <1>3, <1>7, ReadKept
<1>12. WritingIsReady'
  BY <1>1, <1>3, <1>7, WritingKept
<1>13. ActionInv'
  BY <1>1, <1>3, <1>7, ActionKept
<1>14. Head(todo) = c
  BY <1>2 DEF Commit
<1>15. CASE c = "retreated"
  <2>1. focus = Oldest /\ focus \in Ids("withdraw") /\ ReadBack(focus)
    BY <1>4, <1>15 DEF CommitFacts, SeenOldest
  <2>2. action[Oldest].status # "none"
    <3>1. PICK i \in Records("withdraw", known) : room[i].id = focus
      BY <2>1 DEF ReadBack, Ids
    <3>2. i \in 1 .. Len(room) /\ room[i].kind \in Kinds /\ Id(i) = focus
      BY <1>1, <3>1, Basics DEF Records, Kinds, Id
    <3> QED BY <1>1, <2>1, <3>2 DEF RoomInv
  <2>3. Oldest # NoAction
    BY <1>1, <2>1, Basics DEF Ids, NoAction
  <2>4. \A w \in Doubted' : w \in DOMAIN action /\ action[w].status = "none"
    <3>1. \A w \in Doubted' : w \in Doubted /\ w # Oldest
      BY <1>7, <1>15, <2>1
    <3>2. \A w \in Doubted : w \in DOMAIN action
      BY <1>1, OldestIsOldest
    <3> QED BY <1>1, <2>2, <2>3, <3>1, <3>2 DEF WithdrawalInv
  <2>5. OldestUnsent'
    <3>1. Oldest' # NoAction => Oldest' \in Doubted'
      <4>1. Doubted' \subseteq Nat /\ 0 \notin Doubted'
        BY <1>1, <2>4, Basics
      <4>2. Oldest' = OldestOf(Doubted')
        BY DEF Oldest, UnresolvedIntent, Doubted, OldestOf
      <4> QED BY <4>1, <4>2, OldestIn
    <3> QED BY <1>7, <2>4, <3>1 DEF OldestUnsent
  <2> QED BY <1>8, <1>9, <1>10, <1>11, <1>12, <1>13, <2>5, WithdrawalUnsent DEF Facts
<1>16. CASE c # "retreated"
  <2>1. focus \in Ids("roster") /\ focus \notin Ids("withdraw")
    BY <1>4, <1>5, <1>16 DEF CommitFacts, Ids
  <2>2. \A w \in Doubted : action[w].status = "none" => action'[w].status = "none"
    BY <1>1, <1>7, OldestIsOldest
  <2>3. WithdrawalInv'
    BY <1>1, <1>3, <1>7, <2>1, <2>2, WithdrawalKept
  <2> QED BY <1>8, <1>9, <1>10, <1>11, <1>12, <1>13, <1>16, <1>14, <2>3 DEF Facts
<1> QED BY <1>15, <1>16

LEMMA IntentCommits ==
  ASSUME Base, CommitIntent
  PROVE  /\ Facts' /\ OldestUnsent' /\ PendingRosters' = PendingRosters
         /\ \E k : k = NewKind[Head(todo)] /\ focus' \in Ids(k)'
         /\ focus' \notin DOMAIN action
         /\ GameOf(focus)' = team
         /\ Head(todo) = "flee" => focus' \in Doubted'
<1>1. TypeOK /\ RoomInv /\ RefereeInv /\ ReadInv /\ WithdrawalInv /\ ActionInv /\ WritingIsReady
  BY DEF Base, Facts
<1> DEFINE row(c) == [kind |-> NewKind[c], game |-> team, delivery |-> "POSTED_UNCONFIRMED",
                      status |-> "none"]
<1>2. PICK c \in DOMAIN NewKind : Commit(c) /\ action' = Append(action, row(c))
  BY DEF CommitIntent
<1>3. /\ UNCHANGED <<phase, team, epoch, ended, readVars, place, worldVars, crashes>>
      /\ UNCHANGED <<known, done, room, judged, standing, frozen, over, refereeVars>>
      /\ focus' = Len(action')
  BY DEF CommitIntent, readVars, worldVars, refereeVars
<1>4. CommitFacts(c)
  BY <1>2, CommitIs DEF Commit
<1>5. (c = "intend" /\ NewKind[c] = "roster") \/ (c = "flee" /\ NewKind[c] = "withdraw")
  BY <1>2 DEF NewKind
<1>6. team \in Game /\ Len(action) < MaxActions /\ OldestUnsent
  BY <1>4, <1>5 DEF CommitFacts, SignAt, FleeAt
<1>7. /\ RowsStand /\ action' \in Seq(Row) /\ Len(action') <= MaxActions
      /\ Len(action') \in Action
      /\ Ids("application")' = Ids("application")
      /\ PendingRosters' = PendingRosters
      /\ Doubted' = Doubted \/ Doubted' = Doubted \cup {Len(action')}
      /\ \A a \in DOMAIN action : action'[a] = action[a]
      /\ action'[Len(action')].status = "none" /\ action'[Len(action')].game = team
      /\ Len(action') \notin DOMAIN action /\ Len(action') \in Ids(NewKind[c])'
      /\ c = "flee" => Len(action') \in Doubted'
  <2>1. row(c) \in Row /\ row(c).kind = NewKind[c] /\ row(c).status = "none"
        /\ row(c).delivery \in Unresolved /\ row(c).game = team
    BY <1>5, <1>6 DEF Row, Kinds, Deliveries, Statuses, Unresolved
  <2> DEFINE x == row(c)
  <2> HIDE DEF row
  <2>2. /\ RowsStand /\ action' \in Seq(Row) /\ Len(action') <= MaxActions
        /\ Len(action') \in Action /\ Len(action') = Len(action) + 1
        /\ Len(action') \notin DOMAIN action
        /\ \A k : Ids(k)' = IF k = x.kind THEN Ids(k) \cup {Len(action')} ELSE Ids(k)
        /\ (x.kind # "roster" \/ x.status # "pending") => PendingRosters' = PendingRosters
        /\ x.kind # "withdraw" => Doubted' = Doubted /\ Oldest' = Oldest
        /\ (x.kind = "withdraw" /\ x.delivery \in Unresolved) => Doubted' = Doubted \cup {Len(action')}
        /\ \A a \in DOMAIN action : action'[a] = action[a]
        /\ action'[Len(action')] = x
    BY <1>1, <1>2, <1>6, <2>1, RowEffect, Zenon
  <2> QED BY <1>5, <2>1, <2>2
<1>8. TypeOK'
  <2>1. /\ phase \in {"DISCOVERY", "WAIT_ROSTER_READY", "WRITING"} /\ team \in Game \cup {NoGame}
        /\ epoch \in Epoch \cup {NoEpoch} /\ ended \subseteq Ended
    BY <1>1 DEF TypeOK
  <2>2. focus' \in 0 .. MaxActions
    BY <1>3, <1>7 DEF Action
  <2> QED BY <1>1, <1>2, <1>3, <1>7, <2>1, <2>2, CommitType
<1>9. RoomInv'
  BY <1>1, <1>3, <1>7, RoomKept
<1>10. RefereeInv'
  BY <1>1, <1>3, <1>7, RefereeKept
<1>11. ReadInv'
  BY <1>1, <1>3, <1>7, ReadKept
<1>12. WritingIsReady'
  BY <1>1, <1>3, <1>7, WritingKept
<1>13. ActionInv'
  BY <1>1, <1>3, <1>7, ActionKept
<1>14. OldestUnsent'
  <2> SUFFICES ASSUME Oldest' # NoAction PROVE action'[Oldest'].status = "none"
    BY DEF OldestUnsent
  <2>1. Oldest' \in Doubted' /\ \A w \in Doubted' : Oldest' <= w
    <3>1. Doubted' \subseteq Nat /\ 0 \notin Doubted'
      <4>1. Doubted \subseteq Nat /\ 0 \notin Doubted
        BY <1>1, OldestIsOldest, Basics
      <4>2. Len(action') \in Nat /\ Len(action') # 0
        <5>1. Len(action') \in 1 .. MaxActions
          BY <1>7 DEF Action
        <5> QED BY <5>1, BoundsAssumption
      <4> QED BY <1>7, <4>1, <4>2
    <3>2. Oldest' = OldestOf(Doubted')
      BY DEF Oldest, UnresolvedIntent, Doubted, OldestOf
    <3> QED BY <3>1, <3>2, OldestIn
  <2>2. CASE Oldest' = Len(action')
    BY <1>7, <2>2
  <2>3. CASE Oldest' \in Doubted
    <3>1. /\ Doubted \subseteq DOMAIN action
          /\ Oldest = NoAction <=> Doubted = {}
          /\ Oldest # NoAction => Oldest \in Doubted /\ \A w \in Doubted : Oldest <= w
      BY <1>1, OldestIsOldest
    <3>2. Oldest <= Oldest' /\ Oldest' <= Oldest
      BY <1>7, <2>1, <2>3, <3>1
    <3>3. Oldest \in Nat /\ Oldest' \in Nat
      BY <1>1, <2>3, <3>1, Basics
    <3>4. Oldest' = Oldest
      BY <3>2, <3>3
    <3> QED BY <1>6, <1>7, <2>3, <3>1, <3>4 DEF OldestUnsent
  <2> QED BY <1>7, <2>1, <2>2, <2>3
<1>15. Facts'
  BY <1>8, <1>9, <1>10, <1>11, <1>12, <1>13, <1>14, WithdrawalUnsent DEF Facts
<1>16. Head(todo) = c
  BY <1>2 DEF Commit
<1>17. GameOf(focus)' = team
  BY <1>3, <1>7 DEF GameOf
<1> QED BY <1>3, <1>7, <1>14, <1>15, <1>16, <1>17

\* Transactions that write no row of an action.
LEMMA RowsSame ==
  ASSUME TypeOK, action' = action
  PROVE  RowsStand /\ UNCHANGED <<Oldest, Doubted, PendingRosters, Ids("application")>>
  BY Basics DEF RowsStand, Oldest, Doubted, PendingRosters, UnresolvedIntent, Ids

LEMMA EpochTypes ==
  ASSUME TypeOK, ActionInv, epoch # NoEpoch,
         NEW c \in {"note", "denyEpoch", "confirmEpoch", "doubtEpoch", "consent", "fleeEpoch"},
         c = "consent" => focus \in Action
  PROVE  /\ EpochAfter(c) \in Epoch /\ EpochAfter(c).application = epoch.application
         /\ epoch.retreating => EpochAfter(c).retreating
<1>1. epoch \in Epoch
  BY DEF TypeOK
<1>2. CASE c = "note"
  <2>1. EpochAfter(c) = [epoch EXCEPT !.consent = IF epoch.roster = focus THEN "CONFIRMED" ELSE @]
    BY <1>2 DEF EpochAfter
  <2> QED BY <1>1, <2>1 DEF Epoch, Deliveries
<1>3. CASE c = "denyEpoch"
  <2>1. EpochAfter(c) =
           [epoch EXCEPT !.consent = IF epoch.roster = focus THEN "EXPLICITLY_NOT_PERSISTED" ELSE @]
    BY <1>3 DEF EpochAfter
  <2> QED BY <1>1, <2>1 DEF Epoch, Deliveries
<1>4. CASE c = "confirmEpoch"
  <2>1. EpochAfter(c) = [epoch EXCEPT !.consent = "CONFIRMED"]
    BY <1>4 DEF EpochAfter
  <2> QED BY <1>1, <2>1 DEF Epoch, Deliveries
<1>5. CASE c = "doubtEpoch"
  <2>1. EpochAfter(c) = [epoch EXCEPT !.consent = "DELIVERY_UNKNOWN"]
    BY <1>5 DEF EpochAfter
  <2> QED BY <1>1, <2>1 DEF Epoch, Deliveries
<1>6. CASE c = "consent"
  <2>1. EpochAfter(c) = [epoch EXCEPT !.consent = "POSTED_UNCONFIRMED", !.roster = focus]
    BY <1>6 DEF EpochAfter
  <2> QED BY <1>1, <1>6, <2>1 DEF Epoch, Deliveries
<1>7. CASE c = "fleeEpoch"
  <2>1. EpochAfter(c) = [epoch EXCEPT !.retreating = TRUE]
    BY <1>7 DEF EpochAfter
  <2> QED BY <1>1, <2>1 DEF Epoch
<1> QED BY <1>2, <1>3, <1>4, <1>5, <1>6, <1>7

LEMMA EpochCommits ==
  ASSUME Base, CommitEpoch
  PROVE  Facts'
<1>1. TypeOK /\ RoomInv /\ RefereeInv /\ ReadInv /\ WithdrawalInv /\ ActionInv /\ WritingIsReady
  BY DEF Base, Facts
<1>2. PICK c \in {"note", "denyEpoch", "confirmEpoch", "doubtEpoch", "consent", "fleeEpoch"} :
         Commit(c) /\ epoch' = IF epoch = NoEpoch THEN NoEpoch ELSE EpochAfter(c)
  BY DEF CommitEpoch
<1>3. /\ UNCHANGED <<phase, team, action, ended, readVars, place, focus, worldVars, crashes>>
      /\ UNCHANGED <<known, done, room, judged, standing, frozen, over, refereeVars>>
  BY DEF CommitEpoch, readVars, worldVars, refereeVars
<1>4. c = "consent" => focus \in Action
  <2>1. c = "consent" => SignAt(1)
    BY <1>2, CommitIs DEF Commit, CommitFacts
  <2>2. c = "consent" => focus \in DOMAIN action
    BY <2>1 DEF SignAt, Drafted, Ids
  <2> QED BY <1>1, <2>2, Basics
<1>5. /\ epoch' \in Epoch \cup {NoEpoch} /\ epoch'.application \in {epoch.application, NoAction}
      /\ epoch.retreating => epoch' = NoEpoch \/ epoch'.retreating
      /\ epoch = NoEpoch => epoch' = NoEpoch
  <2>1. CASE epoch = NoEpoch
    BY <1>2, <2>1
  <2>2. CASE epoch # NoEpoch
    <3>1. epoch' = EpochAfter(c)
      BY <1>2, <2>2
    <3>2. /\ EpochAfter(c) \in Epoch /\ EpochAfter(c).application = epoch.application
          /\ epoch.retreating => EpochAfter(c).retreating
      BY <1>1, <1>2, <1>4, <2>2, EpochTypes
    <3> QED BY <2>2, <3>1, <3>2
  <2> QED BY <2>1, <2>2
<1>6. RowsStand /\ UNCHANGED <<Oldest, Doubted, PendingRosters, Ids("application")>>
  BY <1>1, <1>3, RowsSame
<1>7. TypeOK'
  <2>1. /\ phase \in {"DISCOVERY", "WAIT_ROSTER_READY", "WRITING"} /\ team \in Game \cup {NoGame}
        /\ action \in Seq(Row) /\ Len(action) <= MaxActions
        /\ ended \subseteq Ended /\ focus \in 0 .. MaxActions
    BY <1>1 DEF TypeOK
  <2> QED BY <1>1, <1>2, <1>3, <1>5, <2>1, CommitType
<1>8. RoomInv'
  BY <1>1, <1>3, <1>6, RoomKept
<1>9. RefereeInv'
  BY <1>1, <1>3, <1>6, RefereeKept
<1>10. ReadInv'
  BY <1>1, <1>3, <1>6, ReadKept
<1>11. WritingIsReady'
  BY <1>1, <1>3, <1>6, WritingKept
<1>12. ActionInv'
  BY <1>1, <1>5, <1>6, ActionKept
<1>13. WithdrawalInv'
  BY <1>1, <1>3, <1>5, <1>6, WithdrawalKept
<1> QED BY <1>7, <1>8, <1>9, <1>10, <1>11, <1>12, <1>13 DEF Facts

LEMMA EndCommits ==
  ASSUME Base, CommitEnd
  PROVE  Facts'
<1>1. TypeOK /\ RoomInv /\ RefereeInv /\ ReadInv /\ WithdrawalInv /\ ActionInv /\ WritingIsReady
  BY DEF Base, Facts
<1>2. PICK c \in DOMAIN NewEnd :
          /\ Commit(c)
          /\ ended' = IF epoch = NoEpoch THEN ended
                      ELSE ended \cup {[game |-> epoch.game, application |-> epoch.application,
                                        status |-> NewEnd[c]]}
  BY DEF CommitEnd
<1>3. /\ UNCHANGED <<phase, team, action, readVars, place, focus, worldVars, crashes>>
      /\ UNCHANGED <<known, done, room, judged, standing, frozen, over, refereeVars>>
      /\ epoch' = NoEpoch
  BY DEF CommitEnd, readVars, worldVars, refereeVars
<1>4. ended' \subseteq Ended
  <2>1. ended \subseteq Ended /\ epoch \in Epoch \cup {NoEpoch}
    BY <1>1 DEF TypeOK
  <2>2. NewEnd[c] \in {"team_ready", "given_up"}
    BY DEF NewEnd
  <2>3. epoch # NoEpoch => [game |-> epoch.game, application |-> epoch.application,
                            status |-> NewEnd[c]] \in Ended
    BY <2>1, <2>2 DEF Epoch, Ended
  <2> QED BY <1>2, <2>1, <2>3
<1>5. RowsStand /\ UNCHANGED <<Oldest, Doubted, PendingRosters, Ids("application")>>
  BY <1>1, <1>3, RowsSame
<1>6. TypeOK'
  <2>1. /\ phase \in {"DISCOVERY", "WAIT_ROSTER_READY", "WRITING"} /\ team \in Game \cup {NoGame}
        /\ action \in Seq(Row) /\ Len(action) <= MaxActions /\ focus \in 0 .. MaxActions
    BY <1>1 DEF TypeOK
  <2> QED BY <1>1, <1>2, <1>3, <1>4, <2>1, CommitType
<1>7. RoomInv'
  BY <1>1, <1>3, <1>5, RoomKept
<1>8. RefereeInv'
  BY <1>1, <1>3, <1>5, RefereeKept
<1>9. ReadInv'
  BY <1>1, <1>3, <1>5, ReadKept
<1>10. WritingIsReady'
  BY <1>1, <1>3, <1>5, WritingKept
<1>11. ActionInv'
  BY <1>1, <1>3, <1>5, ActionKept DEF NoEpoch
<1>12. WithdrawalInv'
  BY <1>1, <1>3, <1>5, WithdrawalKept
<1> QED BY <1>6, <1>7, <1>8, <1>9, <1>10, <1>11, <1>12 DEF Facts

\* The receipt that makes a team the active one, and then the phase WRITING, says ready.
LEMMA ReadyAtHand ==
  ASSUME TypeOK, NEW q \in 1 .. known, AtHand(q), room[q].kind = "ready"
  PROVE  q \in Records("ready", known) /\ room[q].id = focus
  BY DEF AtHand, Records, Id

LEMMA TeamCommits ==
  ASSUME Base, CommitTeam
  PROVE  Facts'
<1>1. TypeOK /\ RoomInv /\ RefereeInv /\ ReadInv /\ WithdrawalInv /\ ActionInv /\ WritingIsReady
  BY DEF Base, Facts
<1>2. PICK c : (c = "join" \/ c = "leave") /\ Commit(c)
  BY DEF CommitTeam
<1>3. /\ UNCHANGED <<phase, action, epoch, ended, readVars, place, focus, worldVars, crashes>>
      /\ UNCHANGED <<known, done, room, judged, standing, frozen, over, refereeVars>>
  BY DEF CommitTeam, readVars, worldVars, refereeVars
<1>4. team' = NoGame \/ (c = "join" /\ team' = GameOf(focus))
  BY <1>2 DEF CommitTeam, Commit
<1>5. CommitFacts(c)
  BY <1>2, CommitIs DEF Commit
<1>6. team' \in Game \cup {NoGame}
  <2>1. c = "join" => focus \in DOMAIN action
    BY <1>5 DEF CommitFacts, Ids
  <2>2. c = "join" => GameOf(focus) \in Game
    BY <1>1, <2>1, Basics DEF GameOf, Row
  <2> QED BY <1>4, <2>2
<1>7. RowsStand /\ UNCHANGED <<Oldest, Doubted, PendingRosters, Ids("application")>>
  BY <1>1, <1>3, RowsSame
<1>8. TypeOK'
  <2>1. /\ phase \in {"DISCOVERY", "WAIT_ROSTER_READY", "WRITING"} /\ epoch \in Epoch \cup {NoEpoch}
        /\ action \in Seq(Row) /\ Len(action) <= MaxActions
        /\ ended \subseteq Ended /\ focus \in 0 .. MaxActions
    BY <1>1 DEF TypeOK
  <2> QED BY <1>1, <1>2, <1>3, <1>6, <2>1, CommitType
<1>9. RoomInv'
  BY <1>1, <1>3, <1>7, RoomKept
<1>10. RefereeInv'
  BY <1>1, <1>3, <1>7, RefereeKept
<1>11. ReadInv'
  BY <1>1, <1>3, <1>7, ReadKept
<1>12. WritingIsReady'
  <2>1. CASE team' = NoGame
    BY <1>1, <1>3, <1>7, <2>1, WritingKept
  <2>2. CASE c = "join" /\ team' = GameOf(focus)
    <3>1. PICK q \in 1 .. known : room[q].kind = "ready" /\ HandleAt(q, 1)
      BY <1>5, <2>2 DEF CommitFacts
    <3>2. q \in Records("ready", known) /\ room[q].id = focus
      BY <1>1, <3>1, ReadyAtHand DEF HandleAt
    <3>3. q \in Records("ready", known)' /\ GameOf(room[q].id)' = team'
      BY <1>3, <2>2, <3>2 DEF Records, GameOf
    <3> QED BY <3>3 DEF WritingIsReady
  <2> QED BY <1>4, <2>1, <2>2
<1>13. ActionInv'
  BY <1>1, <1>3, <1>7, ActionKept
<1>14. WithdrawalInv'
  BY <1>1, <1>3, <1>7, WithdrawalKept
<1> QED BY <1>8, <1>9, <1>10, <1>11, <1>12, <1>13, <1>14 DEF Facts

LEMMA PhaseCommits ==
  ASSUME Base, CommitPhase
  PROVE  Facts'
<1>1. TypeOK /\ RoomInv /\ RefereeInv /\ ReadInv /\ WithdrawalInv /\ ActionInv /\ WritingIsReady
  BY DEF Base, Facts
<1>2. PICK c \in DOMAIN NewPhase : Commit(c) /\ phase' = NewPhase[c]
  BY DEF CommitPhase
<1>3. /\ UNCHANGED <<team, action, epoch, ended, readVars, place, focus, worldVars, crashes>>
      /\ UNCHANGED <<known, done, room, judged, standing, frozen, over, refereeVars>>
  BY DEF CommitPhase, readVars, worldVars, refereeVars
<1>4. /\ phase' \in {"DISCOVERY", "WAIT_ROSTER_READY", "WRITING"}
      /\ phase' = "WRITING" => c = "write"
  BY <1>2 DEF NewPhase
<1>5. CommitFacts(c)
  BY <1>2, CommitIs DEF Commit
<1>6. RowsStand /\ UNCHANGED <<Oldest, Doubted, PendingRosters, Ids("application")>>
  BY <1>1, <1>3, RowsSame
<1>7. TypeOK'
  <2>1. /\ team \in Game \cup {NoGame} /\ epoch \in Epoch \cup {NoEpoch}
        /\ action \in Seq(Row) /\ Len(action) <= MaxActions
        /\ ended \subseteq Ended /\ focus \in 0 .. MaxActions
    BY <1>1 DEF TypeOK
  <2> QED BY <1>1, <1>2, <1>3, <1>4, <2>1, CommitType
<1>8. RoomInv'
  BY <1>1, <1>3, <1>6, RoomKept
<1>9. RefereeInv'
  BY <1>1, <1>3, <1>6, RefereeKept
<1>10. ReadInv'
  BY <1>1, <1>3, <1>6, ReadKept
<1>11. WritingIsReady'
  <2>1. CASE phase' # "WRITING"
    BY <2>1 DEF WritingIsReady
  <2>2. CASE phase' = "WRITING"
    <3>1. PICK q \in 1 .. known : room[q].kind = "ready" /\ HandleAt(q, 4)
      BY <1>4, <1>5, <2>2 DEF CommitFacts
    <3>2. q \in Records("ready", known) /\ room[q].id = focus
      BY <1>1, <3>1, ReadyAtHand DEF HandleAt
    <3>3. team = GameOf(focus)
      BY <3>1 DEF HandleAt
    <3>4. q \in Records("ready", known)' /\ GameOf(room[q].id)' = team'
      BY <1>3, <3>2, <3>3 DEF Records, GameOf
    <3> QED BY <3>4 DEF WritingIsReady
  <2> QED BY <2>1, <2>2
<1>12. ActionInv'
  BY <1>1, <1>3, <1>6, ActionKept
<1>13. WithdrawalInv'
  BY <1>1, <1>3, <1>6, WithdrawalKept
<1> QED BY <1>7, <1>8, <1>9, <1>10, <1>11, <1>12, <1>13 DEF Facts

LEMMA DoneCommits ==
  ASSUME Base, CommitDone
  PROVE  /\ Facts'
         /\ \E q \in 1 .. known : done' = done \cup {q} /\ AtHand(q)
<1>1. TypeOK /\ RoomInv /\ RefereeInv /\ ReadInv /\ WithdrawalInv /\ ActionInv /\ WritingIsReady
  BY DEF Base, Facts
<1>2. /\ Commit("done") /\ done' = done \cup {Min(Unprocessed)}
      /\ UNCHANGED <<phase, team, action, epoch, ended, known, place, focus, crashes>>
      /\ UNCHANGED <<room, judged, standing, frozen, over, refereeVars>>
  BY DEF CommitDone, dbVars, worldVars, refereeVars
<1>3. PICK q \in 1 .. known : AtHand(q)
  BY <1>2, CommitIs DEF Commit, CommitFacts
<1>4. Min(Unprocessed) = q
  <2>1. Unprocessed \subseteq Nat /\ Unprocessed # {}
    BY <1>1, <1>3, Basics DEF Unprocessed, AtHand
  <2>2. Min(Unprocessed) \in Unprocessed /\ Min(Unprocessed) <= q
    BY <1>3, <2>1, MinIsLeast DEF AtHand
  <2>3. q <= Min(Unprocessed)
    BY <1>3, <2>2 DEF AtHand
  <2>4. q \in Nat
    <3>1. known \in Nat
      BY <1>1, Basics
    <3> QED BY <3>1
  <2>5. Min(Unprocessed) \in Nat
    BY <2>1, <2>2
  <2> QED BY <2>2, <2>3, <2>4, <2>5
<1>5. done' = done \cup {q} /\ known \in Nat
  BY <1>1, <1>2, <1>4, Basics
<1>6. RowsStand /\ UNCHANGED <<Oldest, Doubted, PendingRosters, Ids("application")>>
  BY <1>1, <1>2, RowsSame
<1>7. TypeOK'
  <2>1. todo' \in Seq(Commits)
    BY <1>1, <1>2, CommitTypes
  <2> HIDE DEF Row, Record, Epoch, Ended
  <2> QED BY <1>1, <1>2, <1>5, <2>1 DEF TypeOK
<1>8. RoomInv'
  BY <1>1, <1>2, <1>6, RoomKept
<1>9. RefereeInv'
  BY <1>1, <1>2, <1>6, RefereeKept
<1>10. ReadInv'
  <2>1. \A b \in done' : \A p \in 1 .. b : room'[p].kind \in ReceiptKinds => p \in done'
    <3> SUFFICES ASSUME NEW b \in done', NEW p \in 1 .. b, room[p].kind \in ReceiptKinds
                 PROVE  p \in done'
      BY <1>2
    <3>1. CASE b \in done
      BY <1>1, <1>5, <3>1 DEF ReadInv
    <3>2. CASE b = q
      <4>1. p \in Unprocessed \/ p \in done
        BY <1>5, <3>2 DEF Unprocessed
      <4>2. p \in Unprocessed => q <= p
        BY <1>3 DEF AtHand
      <4> QED BY <1>5, <3>2, <4>1, <4>2
    <3> QED BY <1>5, <3>1, <3>2
  <2>2. \A g \in over' : g \in frozen' /\ \E p \in Records("ready", known)' : GameOf(Id(p))' = g
    <3>1. \A p : GameOf(Id(p))' = GameOf(Id(p))
      BY <1>2 DEF GameOf, Id
    <3>2. Records("ready", known)' = Records("ready", known)
      BY <1>2 DEF Records
    <3> QED BY <1>1, <1>2, <3>1, <3>2 DEF ReadInv
  <2> QED BY <2>1, <2>2 DEF ReadInv
<1>11. WritingIsReady'
  BY <1>1, <1>2, <1>6, WritingKept
<1>12. ActionInv'
  BY <1>1, <1>2, <1>6, ActionKept
<1>13. WithdrawalInv'
  BY <1>1, <1>2, <1>6, WithdrawalKept
<1> QED BY <1>3, <1>5, <1>7, <1>8, <1>9, <1>10, <1>11, <1>12, <1>13 DEF Facts

-----------------------------------------------------------------------------
\* The room grows.

LEMMA Grown ==
  ASSUME TypeOK, NEW x \in Record, Len(room) < MaxRoom, room' = Append(room, x), action' = action
  PROVE  /\ Len(room) \in Nat /\ Len(room') = Len(room) + 1 /\ Len(room') <= MaxRoom
         /\ room' \in Seq(Record)
         /\ \A i \in 1 .. Len(room) : room'[i] = room[i] /\ Id(i)' = Id(i)
         /\ room'[Len(room) + 1] = x
         /\ \A k : Records(k, Len(room))' = Records(k, Len(room))
                                              \cup (IF x.kind = k THEN {Len(room) + 1} ELSE {})
         /\ \A k : \A m \in 0 .. Len(room) :
               {i \in 1 .. m : room'[i].kind = k} = Records(k, m)
         /\ \A a : GameOf(a)' = GameOf(a)
<1>1. /\ Len(room') = Len(room) + 1 /\ room' \in Seq(Record) /\ Len(room') <= MaxRoom
      /\ \A i \in 1 .. Len(room) : room'[i] = room[i]
      /\ room'[Len(room) + 1] = x /\ Len(room) \in Nat
  BY RecordAdded
<1>2. \A i \in 1 .. Len(room) : Id(i)' = Id(i)
  BY <1>1 DEF Id
<1>4. \A k : Records(k, Len(room))' = Records(k, Len(room))
                                              \cup (IF x.kind = k THEN {Len(room) + 1} ELSE {})
  <2> TAKE k
  <2>1. Records(k, Len(room))' = {i \in 1 .. Len(room) + 1 : room'[i].kind = k}
    BY <1>1 DEF Records
  <2>2. 1 .. Len(room) + 1 = (1 .. Len(room)) \cup {Len(room) + 1}
    BY <1>1
  <2>3. Records(k, Len(room)) = {i \in 1 .. Len(room) : room[i].kind = k}
    BY DEF Records
  <2> QED BY <1>1, <2>1, <2>2, <2>3
<1>5. \A k : \A m \in 0 .. Len(room) : {i \in 1 .. m : room'[i].kind = k} = Records(k, m)
  BY <1>1 DEF Records
<1>6. \A a : GameOf(a)' = GameOf(a)
  BY DEF GameOf
<1> QED BY <1>1, <1>2, <1>4, <1>5, <1>6

LEMMA ReadGrown ==
  ASSUME TypeOK, ReadInv, NEW x \in Record, Len(room) < MaxRoom, room' = Append(room, x),
         action' = action, UNCHANGED <<known, done, over>>, frozen \subseteq frozen'
  PROVE  ReadInv'
<1>1. /\ known \in 0 .. Len(room) /\ done \subseteq 1 .. known
      /\ Len(room) \in Nat /\ known \in Nat
  BY Basics DEF TypeOK
<1>2. \A q \in done' : \A p \in 1 .. q : room'[p].kind \in ReceiptKinds => p \in done'
  <2> SUFFICES ASSUME NEW q \in done, NEW p \in 1 .. q, room'[p].kind \in ReceiptKinds
               PROVE  p \in done
    OBVIOUS
  <2>1. room'[p] = room[p]
    <3>1. p \in 1 .. Len(room)
      BY <1>1
    <3> QED BY <3>1, Grown
  <2> QED BY <2>1 DEF ReadInv
<1>3. Records("ready", known)' = Records("ready", known)
  <2>1. {i \in 1 .. known : room'[i].kind = "ready"} = Records("ready", known)
    BY <1>1, Grown
  <2> QED BY <2>1 DEF Records
<1>4. \A q \in Records("ready", known) : GameOf(Id(q))' = GameOf(Id(q))
  <2> TAKE q \in Records("ready", known)
  <2>1. q \in 1 .. Len(room)
    BY <1>1 DEF Records
  <2> QED BY <2>1, Grown DEF GameOf
<1> QED BY <1>2, <1>3, <1>4 DEF ReadInv

LEMMA WritingGrown ==
  ASSUME TypeOK, WritingIsReady, NEW x \in Record, Len(room) < MaxRoom, room' = Append(room, x),
         action' = action, UNCHANGED <<known, phase, team>>
  PROVE  WritingIsReady'
<1>1. known \in 0 .. Len(room) /\ Len(room) \in Nat /\ known \in Nat
  BY Basics DEF TypeOK
<1> SUFFICES ASSUME phase = "WRITING", team # NoGame
             PROVE  \E i \in Records("ready", known)' : GameOf(room[i].id)' = team
  BY DEF WritingIsReady
<1>2. PICK i \in Records("ready", known) : GameOf(room[i].id) = team
  BY DEF WritingIsReady
<1>3. room'[i] = room[i]
  <2>1. i \in 1 .. Len(room)
    BY <1>1 DEF Records
  <2> QED BY <2>1, Grown
<1>4. {j \in 1 .. known : room'[j].kind = "ready"} = Records("ready", known)
  BY <1>1, Grown
<1>5. i \in Records("ready", known)'
  BY <1>4 DEF Records
<1> QED BY <1>2, <1>3, <1>5 DEF GameOf

\* A consent that is out after the room has grown was out before.
LEMMA OutGrown ==
  ASSUME TypeOK, NEW x \in Record, Len(room) < MaxRoom, room' = Append(room, x),
         action' = action, over \subseteq over', NEW i \in Rosters
  PROVE  /\ Out(i)' => Out(i)
         /\ Out(i)' /\ x.kind = "withdraw" => GameOf(x.id) # GameOf(Id(i))
         /\ Out(i)' /\ x.kind = "refused" => x.id # Id(i)
<1>1. i \in 1 .. Len(room) /\ Len(room) \in Nat /\ room'[i] = room[i]
  BY Grown DEF Rosters, Records
<1> SUFFICES ASSUME Out(i)' PROVE /\ Out(i)
                                  /\ x.kind = "withdraw" => GameOf(x.id) # GameOf(Id(i))
                                  /\ x.kind = "refused" => x.id # Id(i)
  OBVIOUS
<1>2. /\ GameOf(room[i].id) \notin over'
      /\ \A j \in Records("refused", Len(room))' : room'[j].id # room[i].id
      /\ \A j \in Records("withdraw", Len(room))' :
            GameOf(room'[j].id) = GameOf(room[i].id) => j < i
  BY <1>1, Grown DEF Out, GameOf
<1>3. /\ \A j \in Records("refused", Len(room)) : j \in Records("refused", Len(room))'
      /\ \A j \in Records("withdraw", Len(room)) : j \in Records("withdraw", Len(room))'
      /\ x.kind = "refused" => Len(room) + 1 \in Records("refused", Len(room))'
      /\ x.kind = "withdraw" => Len(room) + 1 \in Records("withdraw", Len(room))'
  BY Grown
<1>4. /\ \A j \in Records("refused", Len(room)) : room'[j] = room[j]
      /\ \A j \in Records("withdraw", Len(room)) : room'[j] = room[j]
  BY Grown DEF Records
<1>5. Out(i)
  BY <1>2, <1>3, <1>4 DEF Out
<1>6. ASSUME x.kind = "withdraw" PROVE GameOf(x.id) # GameOf(Id(i))
  <2>1. room'[Len(room) + 1] = x
    BY Grown
  <2>2. ~(Len(room) + 1 < i)
    BY <1>1
  <2> QED BY <1>2, <1>3, <1>6, <2>1, <2>2 DEF Id
<1>7. ASSUME x.kind = "refused" PROVE x.id # Id(i)
  <2>1. room'[Len(room) + 1] = x
    BY Grown
  <2> QED BY <1>2, <1>3, <1>7, <2>1 DEF Id
<1> QED BY <1>5, <1>6, <1>7

\* The referee has read the rosters it has answered.
LEMMA AnsweredRead ==
  ASSUME TypeOK, RoomInv, NEW q \in 1 .. Len(room), room[q].kind \in ReceiptKinds,
         NEW i \in Rosters, Id(i) = Id(q)
  PROVE  i <= judged /\ i < q
<1>1. PICK j \in 1 .. judged : j < q /\ room[j].kind = "roster" /\ Id(j) = Id(q)
  BY DEF RoomInv
<1>2. i \in 1 .. Len(room) /\ room[i].kind = "roster" /\ j \in 1 .. Len(room)
  BY Basics DEF Rosters, Records
<1>3. i = j
  BY <1>1, <1>2 DEF RoomInv
<1> QED BY <1>1, <1>3, Basics

LEMMA AnswerRoom ==
  ASSUME TypeOK, RoomInv, judged < Len(room), judged' = judged + 1, action' = action,
         NEW kind \in ReceiptKinds, NEW r, Answer(kind, r),
         \E j \in 1 .. judged + 1 : room[j].kind = "roster" /\ Id(j) = r
  PROVE  [kind |-> kind, id |-> r] \in Record /\ RoomInv'
<1> DEFINE x == [kind |-> kind, id |-> r]
<1>1. PICK j \in 1 .. judged + 1 : room[j].kind = "roster" /\ Id(j) = r
  OBVIOUS
<1>2. j \in 1 .. Len(room) /\ judged + 1 \in 1 .. Len(room) /\ Len(room) \in Nat
  BY Basics
<1>3. r \in Action
  BY <1>1, <1>2, Basics DEF Record, Id
<1>4. x \in Record /\ Len(room) < MaxRoom /\ room' = Append(room, x)
  BY <1>3 DEF Record, Answer
<1>5. x.kind = kind /\ x.id = r
  OBVIOUS
<1> HIDE DEF x
<1>6. /\ Len(room') = Len(room) + 1 /\ room'[Len(room) + 1] = x
      /\ \A i \in 1 .. Len(room) : room'[i] = room[i]
  BY <1>4, Grown
<1> SUFFICES ASSUME NEW i \in 1 .. Len(room')
    PROVE /\ room'[i].kind \in Kinds => /\ room'[i].id \in DOMAIN action
                                     /\ action[room'[i].id].kind = room'[i].kind
                                     /\ action[room'[i].id].status # "none"
          /\ room'[i].kind \in ReceiptKinds =>
              \E p \in 1 .. judged' : p < i /\ room'[p].kind = "roster" /\ room'[p].id = room'[i].id
          /\ room'[i].kind \in {"roster", "peers"} =>
              \A p \in 1 .. Len(room') : room'[p].kind = room'[i].kind /\ room'[p].id = room'[i].id
                                            => i = p
  BY <1>4 DEF RoomInv, Id, x
<1>7. CASE i = Len(room) + 1
  <2>1. room'[i].kind = kind /\ room'[i].id = r
    BY <1>5, <1>6, <1>7
  <2>2. j \in 1 .. judged' /\ j < i /\ room'[j].kind = "roster" /\ room'[j].id = r
    BY <1>1, <1>2, <1>6, <1>7 DEF Id
  <2> QED BY <2>1, <2>2 DEF ReceiptKinds, Kinds
<1>8. CASE i \in 1 .. Len(room)
  <2>1. room'[i] = room[i]
    BY <1>6, <1>8
  <2>2. room[i].kind \in Kinds => /\ room[i].id \in DOMAIN action
                                  /\ action[room[i].id].kind = room[i].kind
                                  /\ action[room[i].id].status # "none"
    BY <1>8 DEF RoomInv, Id
  <2>3. ASSUME room[i].kind \in ReceiptKinds
        PROVE  \E p \in 1 .. judged' : p < i /\ room'[p].kind = "roster" /\ room'[p].id = room[i].id
    <3>1. PICK p \in 1 .. judged : p < i /\ room[p].kind = "roster" /\ Id(p) = Id(i)
      BY <1>8, <2>3 DEF RoomInv
    <3>2. p \in 1 .. judged' /\ p \in 1 .. Len(room)
      BY Basics
    <3> QED BY <1>6, <3>1, <3>2 DEF Id
  <2>4. ASSUME room[i].kind \in {"roster", "peers"},
               NEW p \in 1 .. Len(room'), room'[p].kind = room[i].kind, room'[p].id = room[i].id
        PROVE  i = p
    <3>1. p # Len(room) + 1
      BY <1>5, <1>6, <2>4 DEF ReceiptKinds
    <3>2. p \in 1 .. Len(room)
      BY <1>2, <1>6, <3>1
    <3> QED BY <1>6, <1>8, <2>4, <3>2 DEF RoomInv, Id
  <2> QED BY <2>1, <2>2, <2>3, <2>4
<1> QED BY <1>2, <1>6, <1>7, <1>8

LEMMA AnswerReferee ==
  ASSUME TypeOK, RoomInv, RefereeInv, judged < Len(room), judged' = judged + 1, action' = action,
         NEW kind \in ReceiptKinds, NEW r, Answer(kind, r),
         \E j \in 1 .. judged + 1 : room[j].kind = "roster" /\ Id(j) = r,
         standing' \subseteq standing \cup {r},
         kind = "refused" => r \notin standing',
         kind # "refused" => \A q \in Records("refused", Len(room)) : Id(q) # r,
         frozen' = frozen \cup (IF kind = "ready" THEN {GameOf(r)} ELSE {}),
         kind = "ready" => GameOf(r) \notin frozen,
         kind = "ready" => \E p \in 1 .. judged + 1 : room[p].kind = "peers" /\ Id(p) = GameOf(r),
         kind # "ready" => room[judged + 1].kind = "roster" /\ Id(judged + 1) = r,
         kind = "consented" => \A p \in Records("peers", judged) : Id(p) # GameOf(r)
  PROVE  RefereeInv'
<1> DEFINE x == [kind |-> kind, id |-> r]
           n == Len(room) + 1
<1>1. PICK j0 \in 1 .. judged + 1 : room[j0].kind = "roster" /\ Id(j0) = r
  OBVIOUS
<1>2. /\ judged + 1 \in 1 .. Len(room) /\ Len(room) \in Nat /\ judged \in Nat
      /\ j0 \in 1 .. Len(room) /\ n \in Nat /\ n > Len(room)
  BY Basics
<1>3. x \in Record /\ Len(room) < MaxRoom /\ room' = Append(room, x)
  BY AnswerRoom DEF Answer
<1>4. x.kind = kind /\ x.id = r
  OBVIOUS
<1> HIDE DEF x
<1>5. /\ Len(room') = n /\ room'[n] = x
      /\ \A i \in 1 .. Len(room) : room'[i] = room[i]
      /\ \A k : Records(k, Len(room))' = Records(k, Len(room)) \cup (IF kind = k THEN {n} ELSE {})
      /\ \A k : \A m \in 0 .. Len(room) : {i \in 1 .. m : room'[i].kind = k} = Records(k, m)
      /\ \A a : GameOf(a)' = GameOf(a)
  BY <1>3, <1>4, Grown
<1> HIDE DEF n
<1>6. \A i, j \in 1 .. Len(room) :
         room[i].kind = "roster" /\ room[j].kind = "roster" /\ Id(i) = Id(j) => i = j
  BY DEF RoomInv
<1>7. \A i \in Rosters : i \in 1 .. Len(room) /\ room[i].kind = "roster"
  BY DEF Rosters, Records
<1>8. Rosters' = Rosters
  <2>1. kind # "roster"
    BY DEF ReceiptKinds
  <2>2. Records("roster", Len(room))' = Records("roster", Len(room)) \cup {}
    BY <1>5, <2>1
  <2> QED BY <2>2 DEF Rosters
<1>9. \A r1 \in standing' :
          /\ \E j \in 1 .. judged' : room'[j].kind = "roster" /\ room'[j].id = r1
          /\ \A q \in Records("refused", Len(room))' : room'[q].id # r1
  <2> SUFFICES ASSUME NEW r1 \in standing'
               PROVE  /\ \E j \in 1 .. judged' : room'[j].kind = "roster" /\ room'[j].id = r1
                      /\ \A q \in Records("refused", Len(room))' : room'[q].id # r1
    OBVIOUS
  <2>1. \E j \in 1 .. judged + 1 : room[j].kind = "roster" /\ Id(j) = r1
    <3>1. CASE r1 = r
      BY <1>1, <3>1
    <3>2. CASE r1 \in standing
      <4>1. PICK j \in 1 .. judged : room[j].kind = "roster" /\ Id(j) = r1
        BY <3>2 DEF RefereeInv
      <4> QED BY <1>2, <4>1
    <3> QED BY <3>1, <3>2
  <2>2. PICK j \in 1 .. judged + 1 : room[j].kind = "roster" /\ Id(j) = r1
    BY <2>1
  <2>3. j \in 1 .. Len(room) /\ j \in 1 .. judged' /\ room'[j] = room[j]
    <3>1. j \in 1 .. Len(room) /\ j \in 1 .. judged'
      BY <1>2
    <3> QED BY <1>5, <3>1
  <2>4. ASSUME NEW q \in Records("refused", Len(room)) PROVE room'[q].id # r1
    <3>1. room'[q] = room[q]
      BY <1>5 DEF Records
    <3>2. CASE r1 \in standing
      BY <3>1, <3>2 DEF RefereeInv, Id
    <3>3. CASE r1 = r /\ kind # "refused"
      BY <3>1, <3>3 DEF Id
    <3> QED BY <3>2, <3>3
  <2>5. kind = "refused" => room'[n].id # r1
    BY <1>4, <1>5
  <2> QED BY <1>5, <2>2, <2>3, <2>4, <2>5 DEF Id
<1>10. \A g \in frozen' : \E p \in 1 .. judged' : room'[p].kind = "peers" /\ room'[p].id = g
  <2> TAKE g \in frozen'
  <2>1. \E p \in 1 .. judged + 1 : room[p].kind = "peers" /\ Id(p) = g
    <3>1. CASE g \in frozen
      <4>1. PICK p \in 1 .. judged : room[p].kind = "peers" /\ Id(p) = g
        BY <3>1 DEF RefereeInv
      <4> QED BY <1>2, <4>1
    <3>2. CASE kind = "ready" /\ g = GameOf(r)
      BY <3>2
    <3> QED BY <3>1, <3>2
  <2>2. PICK p \in 1 .. judged + 1 : room[p].kind = "peers" /\ Id(p) = g
    BY <2>1
  <2>3. p \in 1 .. Len(room) /\ p \in 1 .. judged'
    BY <1>2
  <2> QED BY <1>5, <2>2, <2>3 DEF Id
<1>11. \A q \in Records("ready", Len(room))' : GameOf(room'[q].id) \in frozen'
  <2> TAKE q \in Records("ready", Len(room))'
  <2>1. CASE q \in Records("ready", Len(room))
    <3>1. room'[q] = room[q]
      BY <1>5, <2>1 DEF Records
    <3> QED BY <2>1, <3>1 DEF RefereeInv, Id
  <2>2. CASE q = n /\ kind = "ready"
    BY <1>4, <1>5, <2>2
  <2> QED BY <1>5, <2>1, <2>2
<1>12. \A q \in Records("ready", Len(room))' : \A p \in Records("ready", Len(room))' :
          GameOf(room'[p].id) = GameOf(room'[q].id) => p = q
  <2>1. \A q \in Records("ready", Len(room)) : room'[q] = room[q] /\ GameOf(Id(q)) \in frozen
    BY <1>5 DEF Records, RefereeInv
  <2>2. \A q, p \in Records("ready", Len(room)) : GameOf(room'[p].id) = GameOf(room'[q].id) => p = q
    BY <2>1 DEF RefereeInv, Id
  <2>3. kind = "ready" => \A q \in Records("ready", Len(room)) :
                             GameOf(room'[n].id) # GameOf(room'[q].id)
    BY <1>4, <1>5, <2>1 DEF Id
  <2> QED BY <1>5, <2>2, <2>3
<1>13. \A q \in Records("ready", Len(room))' : \A p \in Records("refused", Len(room))' :
          /\ room'[p].id # room'[q].id
          /\ q < p => \A i, j \in Rosters : room'[i].id = room'[q].id /\ room'[j].id = room'[p].id
                                               => i < j
  <2>0. \A i \in Rosters : room'[i] = room[i]
    BY <1>5, <1>7
  <2>1. \A q \in Records("ready", Len(room)) : /\ q \in 1 .. Len(room) /\ room'[q] = room[q]
                                               /\ room[q].kind \in ReceiptKinds
    BY <1>5 DEF Records, ReceiptKinds
  <2>2. \A q \in Records("refused", Len(room)) : q \in 1 .. Len(room) /\ room'[q] = room[q]
    BY <1>5 DEF Records
  <2>3. ASSUME NEW q \in Records("ready", Len(room)), NEW p \in Records("refused", Len(room))
        PROVE  /\ room'[p].id # room'[q].id
               /\ q < p => \A i, j \in Rosters : room'[i].id = room'[q].id /\ room'[j].id = room'[p].id
                                               => i < j
    <3>1. /\ Id(p) # Id(q)
          /\ q < p => \A i, j \in Rosters : Id(i) = Id(q) /\ Id(j) = Id(p) => i < j
      BY DEF RefereeInv
    <3> QED BY <2>0, <2>1, <2>2, <3>1 DEF Id
  <2>4. ASSUME NEW q \in Records("ready", Len(room)), kind = "refused"
        PROVE  /\ room'[n].id # room'[q].id
               /\ \A i, j \in Rosters : room'[i].id = room'[q].id /\ room'[j].id = room'[n].id => i < j
    <3>1. room[judged + 1].kind = "roster" /\ Id(judged + 1) = r /\ room'[n].id = r
      BY <1>4, <1>5, <2>4
    <3>2. \A i \in Rosters : Id(i) = Id(q) => i <= judged
      BY <2>1, AnsweredRead
    <3>3. \E i \in Rosters : Id(i) = Id(q)
      <4>1. PICK i \in 1 .. judged : i < q /\ room[i].kind = "roster" /\ Id(i) = Id(q)
        BY <2>1 DEF RoomInv
      <4>2. i \in 1 .. Len(room)
        BY <1>2
      <4> QED BY <4>1, <4>2 DEF Rosters, Records
    <3>4. \A i \in Rosters : Id(i) = r => i = judged + 1
      BY <1>2, <1>6, <1>7, <3>1
    <3>5. Id(q) # r
      BY <1>2, <3>2, <3>3, <3>4
    <3>6. \A i, j \in Rosters : Id(i) = Id(q) /\ Id(j) = r => i < j
      BY <1>2, <1>7, <3>2, <3>4
    <3> QED BY <2>0, <2>1, <3>1, <3>5, <3>6 DEF Id
  <2>5. ASSUME NEW p \in Records("refused", Len(room)), kind = "ready"
        PROVE  room'[p].id # room'[n].id /\ ~(n < p)
    BY <1>2, <1>4, <1>5, <2>2, <2>5 DEF Id
  <2>6. \A q \in Records("ready", Len(room))' :
           q \in Records("ready", Len(room)) \/ (kind = "ready" /\ q = n)
    BY <1>5
  <2>7. \A p \in Records("refused", Len(room))' :
           p \in Records("refused", Len(room)) \/ (kind = "refused" /\ p = n)
    BY <1>5
  <2> QED BY <2>3, <2>4, <2>5, <2>6, <2>7
<1>14. \A q \in Records("consented", Len(room))' : \A i \in Rosters :
          room'[i].id = room'[q].id => \A p \in Records("peers", i)' : room'[p].id # GameOf(room'[i].id)
  <2> SUFFICES ASSUME NEW q \in Records("consented", Len(room))', NEW i \in Rosters,
                      room'[i].id = room'[q].id, NEW p \in Records("peers", i)'
               PROVE  room'[p].id # GameOf(room'[i].id)
    OBVIOUS
  <2>1. i \in 1 .. Len(room) /\ room'[i] = room[i]
    BY <1>5, <1>7
  <2>2. p \in Records("peers", i)
    <3>1. {b \in 1 .. i : room'[b].kind = "peers"} = Records("peers", i)
      BY <1>2, <1>5, <2>1
    <3> QED BY <3>1 DEF Records
  <2>3. p \in 1 .. Len(room) /\ p <= i /\ room'[p] = room[p]
    <3>1. p \in 1 .. i
      BY <2>2 DEF Records
    <3>2. p \in 1 .. Len(room) /\ p <= i
      BY <1>2, <2>1, <3>1
    <3> QED BY <1>5, <3>2
  <2>4. CASE q \in Records("consented", Len(room))
    <3>1. room'[q] = room[q]
      BY <1>5, <2>4 DEF Records
    <3> QED BY <2>1, <2>2, <2>3, <2>4, <3>1 DEF RefereeInv, Id
  <2>5. CASE q = n /\ kind = "consented"
    <3>1. Id(i) = r /\ room[judged + 1].kind = "roster" /\ Id(judged + 1) = r
      BY <1>4, <1>5, <2>1, <2>5 DEF Id
    <3>2. i = judged + 1
      BY <1>2, <1>6, <1>7, <3>1
    <3>3. p \in Records("peers", judged)
      <4>1. p # judged + 1 /\ room[p].kind = "peers"
        BY <2>2, <3>1 DEF Records
      <4> QED BY <1>2, <2>3, <3>2, <4>1 DEF Records
    <3> QED BY <2>1, <2>3, <2>5, <3>1, <3>3 DEF Id
  <2> QED BY <1>5, <2>4, <2>5
<1>15. \A q : Id(q)' = room'[q].id
  BY DEF Id
<1>16. \A r1 \in standing' :
          /\ \E j \in 1 .. judged' : room'[j].kind = "roster" /\ Id(j)' = r1
          /\ \A q \in Records("refused", Len(room))' : Id(q)' # r1
  BY <1>9, <1>15
<1>17. \A g \in frozen' : \E p \in 1 .. judged' : room'[p].kind = "peers" /\ Id(p)' = g
  BY <1>10, <1>15
<1>18. \A q \in Records("ready", Len(room))' :
          /\ GameOf(Id(q))' \in frozen'
          /\ \A p \in Records("ready", Len(room))' : GameOf(Id(p))' = GameOf(Id(q))' => p = q
          /\ \A p \in Records("refused", Len(room))' :
                /\ Id(p)' # Id(q)'
                /\ q < p => \A i, j \in Rosters' : Id(i)' = Id(q)' /\ Id(j)' = Id(p)' => i < j
  <2>1. \A q : GameOf(Id(q))' = GameOf(room'[q].id)
    BY DEF GameOf, Id
  <2> QED BY <1>8, <1>11, <1>12, <1>13, <1>15, <2>1
<1>19. \A q \in Records("consented", Len(room))' : \A i \in Rosters' :
          Id(i)' = Id(q)' => \A p \in Records("peers", i)' : Id(p)' # GameOf(Id(i))'
  <2>1. \A q : GameOf(Id(q))' = GameOf(room'[q].id)
    BY DEF GameOf, Id
  <2> QED BY <1>8, <1>14, <1>15, <2>1
<1> QED BY <1>16, <1>17, <1>18, <1>19 DEF RefereeInv

LEMMA Unanswered ==
  ASSUME TypeOK, RoomInv, RefereeInv, judged < Len(room), judged' = judged + 1,
         UNCHANGED <<room, action, frozen>>, standing' \subseteq standing
  PROVE  RoomInv' /\ RefereeInv'
<1>1. \A j \in 1 .. judged : j \in 1 .. judged'
  BY Basics
<1>2. RoomInv'
  BY <1>1 DEF RoomInv, Id
<1>3. (\A q : Id(q)' = Id(q)) /\ (\A q : GameOf(Id(q))' = GameOf(Id(q)))
      /\ (\A k, m : Records(k, m)' = Records(k, m)) /\ Rosters' = Rosters
  BY DEF Id, GameOf, Records, Rosters
<1>4. \A r \in standing' :
          /\ \E j \in 1 .. judged' : room[j].kind = "roster" /\ Id(j) = r
          /\ \A q \in Records("refused", Len(room)) : Id(q) # r
  BY <1>1 DEF RefereeInv
<1>5. \A g \in frozen : \E p \in 1 .. judged' : room[p].kind = "peers" /\ Id(p) = g
  BY <1>1 DEF RefereeInv
<1>6. RefereeInv'
  <2>1. \A q \in Records("ready", Len(room)) :
          /\ GameOf(Id(q)) \in frozen
          /\ \A p \in Records("ready", Len(room)) : GameOf(Id(p)) = GameOf(Id(q)) => p = q
          /\ \A p \in Records("refused", Len(room)) :
                /\ Id(p) # Id(q)
                /\ q < p => \A i, j \in Rosters : Id(i) = Id(q) /\ Id(j) = Id(p) => i < j
    BY DEF RefereeInv
  <2>2. \A q \in Records("consented", Len(room)) : \A i \in Rosters :
          Id(i) = Id(q) => \A p \in Records("peers", i) : Id(p) # GameOf(Id(i))
    BY DEF RefereeInv
  <2> QED BY <1>3, <1>4, <1>5, <2>1, <2>2 DEF RefereeInv
<1> QED BY <1>2, <1>6

LEMMA WithdrawalGrown ==
  ASSUME TypeOK, WithdrawalInv, NEW x \in Record, Len(room) < MaxRoom, room' = Append(room, x),
         x.kind \notin {"roster", "withdraw"}, UNCHANGED <<action, epoch, over>>
  PROVE  WithdrawalInv'
<1>1. RowsStand /\ UNCHANGED <<Oldest, Doubted, PendingRosters, Ids("application")>>
  BY RowsSame
<1>2. /\ Rosters' = Rosters
      /\ Records("withdraw", Len(room))' = Records("withdraw", Len(room))
  <2>1. /\ Records("roster", Len(room))' = Records("roster", Len(room)) \cup {}
        /\ Records("withdraw", Len(room))' = Records("withdraw", Len(room)) \cup {}
    BY Grown
  <2> QED BY <2>1 DEF Rosters
<1>3. \A i \in Rosters \cup Records("withdraw", Len(room)) : Id(i)' = Id(i)
  BY Grown DEF Rosters, Records
<1>4. \A i \in Rosters : Out(i)' => Out(i)
  BY OutGrown
<1> SUFFICES ASSUME Oldest # NoAction, action[Oldest].status # "none"
    PROVE /\ epoch = NoEpoch \/ epoch.retreating
          /\ \A w \in Doubted : action[w].status # "none" => w = Oldest
          /\ \A r \in PendingRosters : GameOf(r)' = GameOf(Oldest)'
          /\ \A j \in Records("withdraw", Len(room)), i \in Rosters :
                Id(j) = Oldest /\ GameOf(Id(i))' = GameOf(Oldest)' => ~Out(i)'
  BY <1>1, <1>2, <1>3 DEF WithdrawalInv
<1>7. GameOf(Oldest)' = GameOf(Oldest)
  BY <1>1 DEF GameOf
<1>8. \A j \in Records("withdraw", Len(room)), i \in Rosters :
                Id(j) = Oldest /\ GameOf(Id(i))' = GameOf(Oldest)' => ~Out(i)'
  <2> TAKE j \in Records("withdraw", Len(room)), i \in Rosters
  <2>1. GameOf(Id(i))' = GameOf(Id(i))
    BY <1>3 DEF GameOf
  <2> QED BY <1>4, <1>7, <2>1 DEF WithdrawalInv
<1>9. \A r \in PendingRosters : GameOf(r)' = GameOf(Oldest)'
  BY <1>7 DEF WithdrawalInv, GameOf
<1> QED BY <1>8, <1>9 DEF WithdrawalInv

\* Nothing the daemon is at depends on what it has not read, but that what it signs is new.
LEMMA RunGrown ==
  ASSUME Base, UNCHANGED <<dbVars, readVars, runVars>>,
         \A q \in 1 .. known : room'[q] = room[q],
         ~Sent(focus) => ~Sent(focus)'
  PROVE  RunInv'
<1>1. TypeOK /\ RunInv
  BY DEF Base, Facts
<1>2. UNCHANGED <<phase, team, action, epoch, known, done, place, todo, focus>>
  BY DEF dbVars, readVars, runVars
<1>3. RowsStand /\ UNCHANGED <<Oldest, Doubted, PendingRosters, Ids("application")>>
  BY <1>1, <1>2, RowsSame
<1>4. /\ \A k : Ids(k)' = Ids(k)
      /\ \A a : GameOf(a)' = GameOf(a)
  BY <1>2 DEF Ids, GameOf
<1>5. \A k : Records(k, known)' = Records(k, known)
  BY <1>2 DEF Records
<1>6. Unprocessed' = Unprocessed /\ \A q \in 1 .. known : AtHand(q)' = AtHand(q)
  BY <1>2 DEF Unprocessed, AtHand, Id
<1>7. ReadBack(focus)' = ReadBack(focus) /\ PeersComplete(team)' = PeersComplete(team)
  <2>1. \A k : \A i \in Records(k, known) : room'[i] = room[i]
    BY DEF Records
  <2> QED BY <1>2, <1>5, <2>1 DEF ReadBack, PeersComplete
<1>8. HandleInv => HandleInv'
  <2> SUFFICES ASSUME HandleInv PROVE HandleInv'
    OBVIOUS
  <2>1. PICK q \in 1 .. known, k \in 0 .. 5 : HandleAt(q, k)
    BY DEF HandleInv
  <2>2. HandleAt(q, k)'
    BY <1>2, <1>6, <2>1 DEF HandleAt, GameOf
  <2> QED BY <1>2, <2>2 DEF HandleInv
<1>9. SeenOldest' = SeenOldest /\ SentWithdrawal' = SentWithdrawal /\ OldestUnsent' = OldestUnsent
  BY <1>2, <1>3, <1>4, <1>7 DEF SeenOldest, SentWithdrawal, OldestUnsent
<1>10. ChoosingInv => ChoosingInv'
  BY <1>2, <1>9 DEF ChoosingInv, RetreatAt, GameOf
<1>11. SignInv => SignInv'
  <2> SUFFICES ASSUME NEW k \in 0 .. 4, SignAt(k) PROVE SignAt(k)'
    BY DEF SignInv
  <2>1. EpochFits' = EpochFits
    BY <1>2, <1>7 DEF EpochFits
  <2>2. Drafted => Drafted'
    BY <1>2, <1>4 DEF Drafted, GameOf
  <2>3. Protects(focus)' = Protects(focus)
    BY <1>2 DEF Protects, PossiblyConsented, GameOf
  <2> QED BY <1>2, <1>3, <1>9, <2>1, <2>2, <2>3 DEF SignAt
<1>12. GiveUpInv => GiveUpInv'
  BY <1>2, <1>4 DEF GiveUpInv, GiveUpAt, PossiblyConsented
<1>13. LeaveInv => LeaveInv'
  BY <1>2, <1>9 DEF LeaveInv, LeaveAt
<1>14. FleeInv => FleeInv'
  <2> SUFFICES ASSUME NEW k \in 0 .. 4, FleeAt(k) PROVE FleeAt(k)'
    BY DEF FleeInv
  <2> QED BY <1>2, <1>3, <1>9 DEF FleeAt, GameOf
<1>15. ConfirmInv => ConfirmInv'
  BY <1>2, <1>4 DEF ConfirmInv, ConfirmAt
<1>16. DoubtInv => DoubtInv'
  BY <1>2, <1>4 DEF DoubtInv, DoubtAt
<1> HIDE DEF HandleInv, ChoosingInv, SignInv, GiveUpInv, LeaveInv, FleeInv, ConfirmInv, DoubtInv
<1> QED BY <1>1, <1>2, <1>6, <1>8, <1>10, <1>11, <1>12, <1>13, <1>14, <1>15, <1>16 DEF RunInv

-----------------------------------------------------------------------------
\* The steps of the world.

LEMMA JudgedRecord ==
  ASSUME TypeOK, judged < Len(room)
  PROVE  /\ judged + 1 \in 1 .. Len(room) /\ room[judged + 1] \in Record
         /\ judged \in Nat /\ Len(room) \in Nat
<1>1. judged + 1 \in 1 .. Len(room) /\ judged \in Nat /\ Len(room) \in Nat
  BY Basics
<1> QED BY <1>1, Basics

\* What the answers of the referee have in common.
LEMMA AnswerFacts ==
  ASSUME Base, judged < Len(room), judged' = judged + 1,
         UNCHANGED <<dbVars, readVars, runVars, over, crashes>>,
         NEW kind \in ReceiptKinds, NEW r, Answer(kind, r),
         \E j \in 1 .. judged + 1 : room[j].kind = "roster" /\ Id(j) = r,
         standing' \subseteq standing \cup {r}, frozen \subseteq frozen', frozen' \subseteq Game,
         RefereeInv'
  PROVE  Base'
<1>1. TypeOK /\ RoomInv /\ RefereeInv /\ ReadInv /\ WithdrawalInv /\ ActionInv /\ WritingIsReady
  BY DEF Base, Facts
<1>2. UNCHANGED <<phase, team, action, epoch, ended, known, done, place, todo, focus, over, crashes>>
  BY DEF dbVars, readVars, runVars
<1> DEFINE x == [kind |-> kind, id |-> r]
<1>3. x \in Record /\ RoomInv' /\ Len(room) < MaxRoom /\ room' = Append(room, x)
  BY <1>1, <1>2, AnswerRoom DEF Answer
<1>4. x.kind \notin {"roster", "withdraw"} /\ x.kind = kind /\ x.id = r
  BY DEF ReceiptKinds
<1> HIDE DEF x
<1>5. /\ Len(room) \in Nat /\ Len(room') = Len(room) + 1 /\ Len(room') <= MaxRoom
      /\ room' \in Seq(Record) /\ room'[Len(room) + 1] = x
      /\ \A i \in 1 .. Len(room) : room'[i] = room[i]
  BY <1>1, <1>2, <1>3, Grown
<1>6. judged' \in 0 .. Len(room') /\ judged + 1 \in 1 .. Len(room) /\ known \in 0 .. Len(room')
  BY <1>1, <1>5, Basics
<1>7. r \in Action
  <2>1. PICK j \in 1 .. judged + 1 : room[j].kind = "roster" /\ Id(j) = r
    OBVIOUS
  <2>2. j \in 1 .. Len(room)
    BY <1>6
  <2> QED BY <1>1, <2>1, <2>2, Basics DEF Record, Id
<1>8. TypeOK'
  <2>1. standing' \subseteq Action
    BY <1>1, <1>7 DEF TypeOK
  <2> HIDE DEF Row, Record, Epoch, Ended, Commits, Deliveries
  <2> QED BY <1>1, <1>2, <1>5, <1>6, <2>1 DEF TypeOK
<1>9. ReadInv'
  BY <1>1, <1>2, <1>3, ReadGrown
<1>10. WithdrawalInv'
  BY <1>1, <1>2, <1>3, <1>4, WithdrawalGrown
<1>11. ActionInv'
  BY <1>1, <1>2 DEF ActionInv, Ids, PendingRosters, GameOf
<1>12. WritingIsReady'
  BY <1>1, <1>2, <1>3, WritingGrown
<1>13. RunInv'
  <2>1. \A q \in 1 .. known : room'[q] = room[q]
    BY <1>1, <1>5, Basics
  <2>2. Sent(focus)' => Sent(focus)
    <3> SUFFICES ASSUME NEW i \in 1 .. Len(room'), room'[i].kind # "peers", room'[i].id = focus
                 PROVE  Sent(focus)
      BY <1>2 DEF Sent, Id
    <3>1. CASE i = Len(room) + 1
      <4>1. PICK j \in 1 .. judged + 1 : room[j].kind = "roster" /\ Id(j) = r
        OBVIOUS
      <4>2. j \in 1 .. Len(room)
        BY <1>6
      <4> QED BY <1>4, <1>5, <3>1, <4>1, <4>2 DEF Sent
    <3>2. CASE i \in 1 .. Len(room)
      BY <1>5, <3>2 DEF Sent, Id
    <3> QED BY <1>5, <3>1, <3>2
  <2> QED BY <2>1, <2>2, RunGrown
<1> QED BY <1>3, <1>8, <1>9, <1>10, <1>11, <1>12, <1>13 DEF Base, Facts

LEMMA NoAnswerFacts ==
  ASSUME Base, judged < Len(room), judged' = judged + 1,
         UNCHANGED <<dbVars, readVars, runVars, room, frozen, over, crashes>>,
         standing' \subseteq standing
  PROVE  Base'
<1>1. TypeOK /\ RoomInv /\ RefereeInv /\ ReadInv /\ WithdrawalInv /\ ActionInv /\ WritingIsReady
  BY DEF Base, Facts
<1>2. UNCHANGED <<phase, team, action, epoch, ended, known, done, place, todo, focus, over, crashes>>
  BY DEF dbVars, readVars, runVars
<1>3. judged' \in 0 .. Len(room)
  BY <1>1, Basics
<1>4. TypeOK'
  <2> HIDE DEF Row, Record, Epoch, Ended, Commits, Deliveries
  <2> QED BY <1>1, <1>2, <1>3 DEF TypeOK
<1>5. RoomInv' /\ RefereeInv'
  BY <1>1, <1>2, Unanswered
<1>6. RowsStand /\ UNCHANGED <<Oldest, Doubted, PendingRosters, Ids("application")>>
  BY <1>1, <1>2, RowsSame
<1>7. ReadInv'
  BY <1>1, <1>2, <1>6, ReadKept
<1>8. WithdrawalInv'
  BY <1>1, <1>2, <1>6, WithdrawalKept
<1>9. ActionInv'
  BY <1>1, <1>2, <1>6, ActionKept
<1>10. WritingIsReady'
  BY <1>1, <1>2, <1>6, WritingKept
<1>11. RunInv'
  BY <1>2, RunGrown DEF Sent, Id
<1> QED BY <1>4, <1>5, <1>7, <1>8, <1>9, <1>10, <1>11 DEF Base, Facts

LEMMA RefereeSteps ==
  ASSUME Base, RefereeJudges
  PROVE  Base'
<1>1. TypeOK /\ RoomInv /\ RefereeInv
  BY DEF Base, Facts
<1> DEFINE record == room[judged + 1]
<1>2. /\ judged < Len(room) /\ judged' = judged + 1
      /\ UNCHANGED <<dbVars, readVars, runVars, over, crashes>> /\ action' = action
  BY DEF RefereeJudges, dbVars
<1>3. /\ judged + 1 \in 1 .. Len(room) /\ record \in Record
      /\ judged \in Nat /\ Len(room) \in Nat
  BY <1>1, <1>2, JudgedRecord
<1>4. standing \subseteq Action /\ frozen \subseteq Game
  BY <1>1 DEF TypeOK
<1>5. CASE record.kind = "roster"
  <2> DEFINE r == record.id
  <2>1. JudgeRoster(r)
    BY <1>2, <1>5 DEF RefereeJudges
  <2>2. Id(judged + 1) = r /\ \E j \in 1 .. judged + 1 : room[j].kind = "roster" /\ Id(j) = r
    BY <1>3, <1>5 DEF Id
  <2>3. GameOf(r) \in Game
    <3>1. r \in DOMAIN action
      BY <1>1, <1>3, <1>5, <2>2 DEF RoomInv, Kinds
    <3> QED BY <1>1, <3>1, Basics DEF GameOf, Row
  <2>4. \A i \in Rosters : Id(i) = r => i = judged + 1
    BY <1>1, <1>3, <1>5, <2>2 DEF RoomInv, Rosters, Records
  <2>5. \A q \in Records("refused", Len(room)) : Id(q) # r
    <3> SUFFICES ASSUME NEW q \in Records("refused", Len(room)), Id(q) = r PROVE FALSE
      OBVIOUS
    <3>1. q \in 1 .. Len(room) /\ room[q].kind \in ReceiptKinds
      BY DEF Records, ReceiptKinds
    <3>2. PICK j \in 1 .. judged : room[j].kind = "roster" /\ Id(j) = r
      BY <1>1, <3>1 DEF RoomInv
    <3>3. j \in Rosters
      BY <1>3, <3>2 DEF Rosters, Records
    <3> QED BY <1>3, <2>4, <3>2, <3>3
  <2>6. r \notin standing
    <3> SUFFICES ASSUME r \in standing PROVE FALSE
      OBVIOUS
    <3>1. PICK j \in 1 .. judged : room[j].kind = "roster" /\ Id(j) = r
      BY <1>1 DEF RefereeInv
    <3>2. j \in Rosters
      BY <1>3, <3>1 DEF Rosters, Records
    <3> QED BY <1>3, <2>4, <3>1, <3>2
  <2> HIDE DEF r
  <2>7. CASE /\ GameOf(r) \notin frozen /\ standing' = standing \cup {r}
             /\ PeersJudged(GameOf(r))
             /\ Answer("ready", r) /\ frozen' = frozen \cup {GameOf(r)}
    <3>1. \E p \in 1 .. judged + 1 : room[p].kind = "peers" /\ Id(p) = GameOf(r)
      BY <1>3, <2>7 DEF PeersJudged, Records, Id
    <3>2. "ready" \in ReceiptKinds
      BY DEF ReceiptKinds
    <3>3. RefereeInv'
      BY <1>1, <1>2, <2>2, <2>5, <2>7, <3>1, <3>2, AnswerReferee
    <3> QED BY <1>2, <1>4, <2>2, <2>3, <2>7, <3>2, <3>3, AnswerFacts
  <2>8. CASE /\ GameOf(r) \notin frozen /\ standing' = standing \cup {r}
             /\ ~PeersJudged(GameOf(r))
             /\ Answer("consented", r) /\ frozen' = frozen
    <3>1. \A p \in Records("peers", judged) : Id(p) # GameOf(r)
      BY <2>8 DEF PeersJudged, Id
    <3>2. "consented" \in ReceiptKinds
      BY DEF ReceiptKinds
    <3>3. RefereeInv'
      BY <1>1, <1>2, <1>5, <2>2, <2>5, <2>8, <3>1, <3>2, AnswerReferee
    <3> QED BY <1>2, <1>4, <2>2, <2>8, <3>2, <3>3, AnswerFacts
  <2>9. CASE Answer("refused", r) /\ UNCHANGED <<standing, frozen>>
    <3>1. "refused" \in ReceiptKinds
      BY DEF ReceiptKinds
    <3>2. RefereeInv'
      BY <1>1, <1>2, <1>5, <2>2, <2>6, <2>9, <3>1, AnswerReferee
    <3> QED BY <1>2, <1>4, <2>2, <2>9, <3>1, <3>2, AnswerFacts
  <2> QED BY <2>1, <2>7, <2>8, <2>9 DEF JudgeRoster
<1>6. CASE record.kind = "withdraw"
  <2>1. JudgeWithdrawal(record.id)
    BY <1>2, <1>6 DEF RefereeJudges
  <2> QED BY <1>2, <2>1, NoAnswerFacts DEF JudgeWithdrawal
<1>7. CASE record.kind = "peers"
  <2> DEFINE g == record.id
  <2>1. JudgePeers(g)
    BY <1>2, <1>7 DEF RefereeJudges
  <2>2. CASE ~\E r \in standing : GameOf(r) = g
    BY <1>2, <2>1, <2>2, NoAnswerFacts DEF JudgePeers
  <2>3. CASE \E r \in standing : GameOf(r) = g
    <3> DEFINE r == CHOOSE r \in standing : GameOf(r) = g
    <3>1. /\ r \in standing /\ GameOf(r) = g
          /\ standing' = standing /\ frozen' = frozen \cup {GameOf(r)} /\ Answer("ready", r)
      BY <2>1, <2>3 DEF JudgePeers
    <3>2. Id(judged + 1) = g /\ \E p \in 1 .. judged + 1 : room[p].kind = "peers" /\ Id(p) = g
      BY <1>3, <1>7 DEF Id
    <3>3. g \in Game
      BY <1>3, <1>7 DEF Record, Kinds, ReceiptKinds
    <3> HIDE DEF r, g
    <3>4. GameOf(r) \notin frozen
      <4> SUFFICES ASSUME g \in frozen PROVE FALSE
        BY <3>1
      <4>1. PICK p \in 1 .. judged : room[p].kind = "peers" /\ Id(p) = g
        BY <1>1 DEF RefereeInv
      <4>2. p \in 1 .. Len(room)
        BY <1>3
      <4>3. p = judged + 1
        BY <1>1, <1>3, <1>7, <3>2, <4>1, <4>2 DEF RoomInv
      <4> QED BY <1>3, <4>3
    <3>5. \E j \in 1 .. judged + 1 : room[j].kind = "roster" /\ Id(j) = r
      <4>1. PICK j \in 1 .. judged : room[j].kind = "roster" /\ Id(j) = r
        BY <1>1, <3>1 DEF RefereeInv
      <4> QED BY <1>3, <4>1
    <3>6. \A q \in Records("refused", Len(room)) : Id(q) # r
      BY <1>1, <3>1 DEF RefereeInv
    <3>7. "ready" \in ReceiptKinds
      BY DEF ReceiptKinds
    <3>8. RefereeInv'
      BY <1>1, <1>2, <3>1, <3>2, <3>4, <3>5, <3>6, <3>7, AnswerReferee
    <3> QED BY <1>2, <1>4, <3>1, <3>3, <3>5, <3>7, <3>8, AnswerFacts
  <2> QED BY <2>2, <2>3
<1>8. CASE record.kind \notin {"roster", "withdraw", "peers"}
  <2>1. UNCHANGED <<room, standing, frozen>>
    BY <1>2, <1>8 DEF RefereeJudges
  <2> QED BY <1>2, <2>1, NoAnswerFacts
<1> QED BY <1>5, <1>6, <1>7, <1>8

LEMMA PeersSteps ==
  ASSUME Base, NEW g \in Game, PeersSign(g)
  PROVE  Base'
<1>1. TypeOK /\ RoomInv /\ RefereeInv /\ ReadInv /\ WithdrawalInv /\ ActionInv /\ WritingIsReady
  BY DEF Base, Facts
<1> DEFINE x == [kind |-> "peers", id |-> g]
<1>2. /\ Len(room) < MaxRoom /\ room' = Append(room, x) /\ x \in Record
      /\ \A i \in Records("peers", Len(room)) : room[i].id # g
  BY DEF PeersSign, Record
<1>3. UNCHANGED <<phase, team, action, epoch, ended, known, done, place, todo, focus, over, crashes,
                  judged, standing, frozen>>
  BY DEF PeersSign, dbVars, readVars, runVars, refereeVars
<1>4. x.kind = "peers" /\ x.id = g
  OBVIOUS
<1> HIDE DEF x
<1>5. /\ Len(room) \in Nat /\ Len(room') = Len(room) + 1 /\ Len(room') <= MaxRoom
      /\ room' \in Seq(Record) /\ room'[Len(room) + 1] = x
      /\ \A i \in 1 .. Len(room) : room'[i] = room[i] /\ Id(i)' = Id(i)
      /\ \A k : \A m \in 0 .. Len(room) : {i \in 1 .. m : room'[i].kind = k} = Records(k, m)
      /\ \A a : GameOf(a)' = GameOf(a)
  BY <1>1, <1>2, <1>3, Grown
<1>6. \A k : k # "peers" => Records(k, Len(room))' = Records(k, Len(room))
  <2> SUFFICES ASSUME NEW k, k # "peers" PROVE Records(k, Len(room))' = Records(k, Len(room))
    OBVIOUS
  <2>1. Records(k, Len(room))' = Records(k, Len(room)) \cup (IF x.kind = k THEN {Len(room) + 1} ELSE {})
    BY <1>1, <1>2, <1>3, Grown
  <2> QED BY <1>4, <2>1
<1>7. judged \in 0 .. Len(room') /\ known \in 0 .. Len(room') /\ known \in Nat /\ judged \in Nat
      /\ known <= Len(room) /\ judged <= Len(room)
  BY <1>1, <1>5, Basics
<1>8. TypeOK'
  <2> HIDE DEF Row, Record, Epoch, Ended, Commits, Deliveries
  <2> QED BY <1>1, <1>3, <1>5, <1>7 DEF TypeOK
<1>9. RoomInv'
  <2> SUFFICES ASSUME NEW i \in 1 .. Len(room')
    PROVE /\ room'[i].kind \in Kinds => /\ room'[i].id \in DOMAIN action
                                     /\ action[room'[i].id].kind = room'[i].kind
                                     /\ action[room'[i].id].status # "none"
          /\ room'[i].kind \in ReceiptKinds =>
              \E p \in 1 .. judged : p < i /\ room'[p].kind = "roster" /\ room'[p].id = room'[i].id
          /\ room'[i].kind \in {"roster", "peers"} =>
              \A p \in 1 .. Len(room') : room'[p].kind = room'[i].kind /\ room'[p].id = room'[i].id
                                            => i = p
    BY <1>3 DEF RoomInv, Id
  <2>1. \A p \in 1 .. Len(room) : room[p].kind = "peers" => room[p].id # g
    BY <1>2 DEF Records
  <2>2. CASE i = Len(room) + 1
    <3>1. \A p \in 1 .. Len(room') : p = i \/ p \in 1 .. Len(room)
      BY <1>5, <2>2
    <3> QED BY <1>4, <1>5, <2>1, <2>2, <3>1 DEF Kinds, ReceiptKinds
  <2>3. CASE i \in 1 .. Len(room)
    <3>1. room'[i] = room[i]
      BY <1>5, <2>3
    <3>2. room[i].kind \in Kinds => /\ room[i].id \in DOMAIN action
                                    /\ action[room[i].id].kind = room[i].kind
                                    /\ action[room[i].id].status # "none"
      BY <1>1, <2>3 DEF RoomInv, Id
    <3>3. ASSUME room[i].kind \in ReceiptKinds
          PROVE  \E p \in 1 .. judged : p < i /\ room'[p].kind = "roster" /\ room'[p].id = room[i].id
      <4>1. PICK p \in 1 .. judged : p < i /\ room[p].kind = "roster" /\ Id(p) = Id(i)
        BY <1>1, <2>3, <3>3 DEF RoomInv
      <4>2. p \in 1 .. Len(room)
        BY <1>5, <1>7
      <4> QED BY <1>5, <4>1, <4>2 DEF Id
    <3>4. ASSUME room[i].kind \in {"roster", "peers"},
                 NEW p \in 1 .. Len(room'), room'[p].kind = room[i].kind, room'[p].id = room[i].id
          PROVE  i = p
      <4>1. p # Len(room) + 1
        BY <1>4, <1>5, <2>1, <2>3, <3>4
      <4>2. p \in 1 .. Len(room)
        BY <1>5, <4>1
      <4> QED BY <1>1, <1>5, <2>3, <3>4, <4>2 DEF RoomInv, Id
    <3> QED BY <3>1, <3>2, <3>3, <3>4
  <2> QED BY <1>5, <2>2, <2>3
<1>10. RefereeInv'
  <2>1. \A r \in standing' :
          /\ \E j \in 1 .. judged' : room'[j].kind = "roster" /\ Id(j)' = r
          /\ \A q \in Records("refused", Len(room))' : Id(q)' # r
    <3>1. \A j \in 1 .. judged : j \in 1 .. Len(room)
      BY <1>5, <1>7
    <3>2. \A q \in Records("refused", Len(room)) : q \in 1 .. Len(room)
      BY DEF Records
    <3> QED BY <1>1, <1>3, <1>5, <1>6, <3>1, <3>2 DEF RefereeInv
  <2>2. \A b \in frozen' : \E p \in 1 .. judged' : room'[p].kind = "peers" /\ Id(p)' = b
    <3>1. \A j \in 1 .. judged : j \in 1 .. Len(room)
      BY <1>5, <1>7
    <3> QED BY <1>1, <1>3, <1>5, <3>1 DEF RefereeInv
  <2>3. \A k : \A q \in Records(k, Len(room)) : Id(q)' = Id(q) /\ GameOf(Id(q))' = GameOf(Id(q))
    <3> TAKE k
    <3> TAKE q \in Records(k, Len(room))
    <3>1. q \in 1 .. Len(room)
      BY DEF Records
    <3> QED BY <1>5, <3>1 DEF GameOf
  <2>4. Rosters' = Rosters
    BY <1>6 DEF Rosters
  <2>5. \A i \in Rosters : Id(i)' = Id(i) /\ GameOf(Id(i))' = GameOf(Id(i))
    BY <2>3 DEF Rosters
  <2>6. \A q \in Records("ready", Len(room))' :
          /\ GameOf(Id(q))' \in frozen'
          /\ \A p \in Records("ready", Len(room))' : GameOf(Id(p))' = GameOf(Id(q))' => p = q
          /\ \A p \in Records("refused", Len(room))' :
                /\ Id(p)' # Id(q)'
                /\ q < p => \A i, j \in Rosters' : Id(i)' = Id(q)' /\ Id(j)' = Id(p)' => i < j
    BY <1>1, <1>3, <1>6, <2>3, <2>4, <2>5 DEF RefereeInv
  <2>7. \A q \in Records("consented", Len(room))' : \A i \in Rosters' :
          Id(i)' = Id(q)' => \A p \in Records("peers", i)' : Id(p)' # GameOf(Id(i))'
    <3> SUFFICES ASSUME NEW q \in Records("consented", Len(room)), NEW i \in Rosters, Id(i) = Id(q),
                        NEW p \in Records("peers", i)'
                 PROVE  Id(p)' # GameOf(Id(i))
      BY <1>6, <2>3, <2>4, <2>5
    <3>1. i \in 1 .. Len(room)
      BY DEF Rosters, Records
    <3>2. {b \in 1 .. i : room'[b].kind = "peers"} = Records("peers", i)
      BY <1>5, <3>1
    <3>3. p \in Records("peers", i)
      BY <3>2 DEF Records
    <3>4. p \in 1 .. i
      BY <3>3 DEF Records
    <3>5. p \in 1 .. Len(room)
      BY <1>5, <3>1, <3>4
    <3> QED BY <1>1, <1>5, <3>3, <3>5 DEF RefereeInv
  <2> QED BY <2>1, <2>2, <2>6, <2>7 DEF RefereeInv
<1>11. ReadInv'
  BY <1>1, <1>2, <1>3, ReadGrown
<1>12. WithdrawalInv'
  BY <1>1, <1>2, <1>3, <1>4, WithdrawalGrown
<1>13. ActionInv'
  BY <1>1, <1>3 DEF ActionInv, Ids, PendingRosters, GameOf
<1>14. WritingIsReady'
  BY <1>1, <1>2, <1>3, WritingGrown
<1>15. RunInv'
  <2>1. \A q \in 1 .. known : room'[q] = room[q]
    <3>1. \A q \in 1 .. known : q \in 1 .. Len(room)
      BY <1>5, <1>7
    <3> QED BY <1>5, <3>1
  <2>2. Sent(focus)' => Sent(focus)
    <3> SUFFICES ASSUME NEW i \in 1 .. Len(room'), room'[i].kind # "peers", room'[i].id = focus
                 PROVE  Sent(focus)
      BY <1>3 DEF Sent, Id
    <3>1. i # Len(room) + 1
      BY <1>4, <1>5
    <3>2. i \in 1 .. Len(room)
      BY <1>5, <3>1
    <3> QED BY <1>5, <3>2 DEF Sent, Id
  <2> QED BY <1>3, <2>1, <2>2, RunGrown DEF dbVars, readVars, runVars
<1> QED BY <1>8, <1>9, <1>10, <1>11, <1>12, <1>13, <1>14, <1>15 DEF Base, Facts

LEMMA OverSteps ==
  ASSUME Base, GameOver
  PROVE  Base'
<1>1. TypeOK /\ RoomInv /\ RefereeInv /\ ReadInv /\ WithdrawalInv /\ ActionInv /\ WritingIsReady
      /\ RunInv
  BY DEF Base, Facts
<1>2. /\ place = "idle" /\ phase = "WRITING" /\ team \in frozen \ over
      /\ over' = over \cup {team}
      /\ team' = NoGame /\ phase' = "DISCOVERY"
      /\ UNCHANGED <<action, epoch, ended, known, done, place, todo, focus, room, judged, standing,
                     frozen, refereeVars, crashes>>
  BY DEF GameOver, readVars, runVars, refereeVars
<1>3. RowsStand /\ UNCHANGED <<Oldest, Doubted, PendingRosters, Ids("application")>>
  BY <1>1, <1>2, RowsSame
<1>4. team \in Game /\ team # NoGame
  <2>1. team \in Game
    BY <1>1, <1>2 DEF TypeOK
  <2> QED BY <2>1 DEF Game, NoGame
<1>5. TypeOK'
  <2> HIDE DEF Row, Record, Epoch, Ended, Commits, Deliveries
  <2> QED BY <1>1, <1>2, <1>4 DEF TypeOK
<1>6. RoomInv'
  BY <1>1, <1>2, <1>3, RoomKept
<1>7. RefereeInv'
  BY <1>1, <1>2, <1>3, RefereeKept
<1>8. ReadInv'
  <2>1. PICK q \in Records("ready", known) : GameOf(room[q].id) = team
    BY <1>1, <1>2, <1>4 DEF WritingIsReady
  <2>2. \A g \in over' : g \in frozen /\ \E p \in Records("ready", known) : GameOf(Id(p)) = g
    BY <1>1, <1>2, <2>1 DEF ReadInv, Id
  <2>3. \A b \in done : \A p \in 1 .. b : room[p].kind \in ReceiptKinds => p \in done
    BY <1>1 DEF ReadInv
  <2>4. (\A p : GameOf(Id(p))' = GameOf(Id(p))) /\ Records("ready", known)' = Records("ready", known)
    BY <1>2 DEF GameOf, Id, Records
  <2> QED BY <1>2, <2>2, <2>3, <2>4 DEF ReadInv
<1>9. WithdrawalInv'
  BY <1>1, <1>2, <1>3, WithdrawalKept
<1>10. ActionInv'
  BY <1>1, <1>2, <1>3, ActionKept
<1>11. WritingIsReady'
  BY <1>2 DEF WritingIsReady
<1>12. RunInv'
  BY <1>1, <1>2 DEF RunInv
<1> QED BY <1>5, <1>6, <1>7, <1>8, <1>9, <1>10, <1>11, <1>12 DEF Base, Facts

-----------------------------------------------------------------------------
\* A roster or a withdrawal is posted.

LEMMA PostedRecord ==
  ASSUME Base, todo # <<>>, Head(todo) = "post"
  PROVE  /\ focus \in DOMAIN action /\ action[focus].status # "none"
         /\ [kind |-> action[focus].kind, id |-> focus] \in Record
         /\ \/ /\ action[focus].kind = "roster" /\ focus \in PendingRosters /\ ~Sent(focus)
               /\ OldestUnsent /\ SignAt(3)
            \/ action[focus].kind = "withdraw" /\ FleeAt(3)
<1>1. TypeOK
  BY DEF Base, Facts
<1>2. SignAt(3) \/ FleeAt(3)
  BY CommitIs DEF CommitFacts
<1>3. CASE SignAt(3)
  <2>1. focus \in PendingRosters /\ Drafted /\ OldestUnsent
    BY <1>3 DEF SignAt
  <2>2. focus \in DOMAIN action /\ action[focus].kind = "roster" /\ action[focus].status = "pending"
        /\ ~Sent(focus)
    BY <2>1 DEF PendingRosters, Ids, Drafted
  <2>3. focus \in Action
    BY <1>1, <2>2, Basics
  <2> QED BY <1>3, <2>1, <2>2, <2>3 DEF Record
<1>4. CASE FleeAt(3)
  <2>1. focus \in DOMAIN action /\ action[focus].kind = "withdraw" /\ action[focus].status # "none"
    BY <1>4 DEF FleeAt, SentWithdrawal, Ids
  <2>2. focus \in Action
    BY <1>1, <2>1, Basics
  <2> QED BY <1>4, <2>1, <2>2 DEF Record
<1> QED BY <1>2, <1>3, <1>4

LEMMA PostCommits ==
  ASSUME Base, CommitPost
  PROVE  Facts'
<1>1. TypeOK /\ RoomInv /\ RefereeInv /\ ReadInv /\ WithdrawalInv /\ ActionInv /\ WritingIsReady
  BY DEF Base, Facts
<1> DEFINE x == [kind |-> action[focus].kind, id |-> focus]
<1>2. /\ todo # <<>> /\ Head(todo) = "post"
      /\ UNCHANGED <<phase, team, action, epoch, ended, known, done, judged, standing, frozen, over,
                     refereeVars, crashes>>
  BY DEF CommitPost, dbVars, readVars, refereeVars
<1>3. /\ focus \in DOMAIN action /\ action[focus].status # "none" /\ x \in Record
      /\ \/ action[focus].kind = "roster" /\ ~Sent(focus) /\ OldestUnsent
         \/ action[focus].kind = "withdraw"
  BY <1>2, PostedRecord
<1>4. place' \in Places /\ todo' \in Seq(Commits) /\ focus' \in 0 .. MaxActions
  <2>1. place \in Places /\ todo \in Seq(Commits) /\ focus \in 0 .. MaxActions
    BY <1>1 DEF TypeOK
  <2>2. \/ place' = place /\ todo' = Tail(todo) /\ focus' = focus
        \/ place' = "idle" /\ todo' = <<>> /\ focus' = 0
    BY DEF CommitPost, EndCycle, Run, NoAction
  <2>3. MaxActions \in Nat
    BY BoundsAssumption
  <2>4. Tail(todo) \in Seq(Commits)
    BY <1>2, <2>1
  <2>5. place' \in Places
    BY <2>1, <2>2 DEF Places
  <2>6. focus' \in 0 .. MaxActions
    BY <2>1, <2>2, <2>3
  <2>7. todo' \in Seq(Commits)
    <3>1. <<>> \in Seq(Commits)
      OBVIOUS
    <3> QED BY <2>2, <2>4, <3>1, Zenon
  <2> QED BY <2>5, <2>6, <2>7
<1>5. CASE room' = room
  <2>1. RowsStand /\ UNCHANGED <<Oldest, Doubted, PendingRosters, Ids("application")>>
    BY <1>1, <1>2, RowsSame
  <2>2. TypeOK'
    <3> HIDE DEF Row, Record, Epoch, Ended, Commits, Deliveries, Places
    <3> QED BY <1>1, <1>2, <1>4, <1>5 DEF TypeOK
  <2>3. RoomInv'
    BY <1>1, <1>2, <1>5, <2>1, RoomKept
  <2>4. RefereeInv'
    BY <1>1, <1>2, <1>5, <2>1, RefereeKept
  <2>5. ReadInv'
    BY <1>1, <1>2, <1>5, <2>1, ReadKept
  <2>6. WithdrawalInv'
    BY <1>1, <1>2, <1>5, <2>1, WithdrawalKept
  <2>7. ActionInv'
    BY <1>1, <1>2, <2>1, ActionKept
  <2>8. WritingIsReady'
    BY <1>1, <1>2, <1>5, <2>1, WritingKept
  <2> QED BY <2>2, <2>3, <2>4, <2>5, <2>6, <2>7, <2>8 DEF Facts
<1>6. CASE Len(room) < MaxRoom /\ room' = Append(room, x)
  <2>1. x.kind = action[focus].kind /\ x.id = focus
    OBVIOUS
  <2> HIDE DEF x
  <2>2. /\ Len(room) \in Nat /\ Len(room') = Len(room) + 1 /\ Len(room') <= MaxRoom
        /\ room' \in Seq(Record) /\ room'[Len(room) + 1] = x
        /\ \A i \in 1 .. Len(room) : room'[i] = room[i] /\ Id(i)' = Id(i)
        /\ \A k : \A m \in 0 .. Len(room) : {i \in 1 .. m : room'[i].kind = k} = Records(k, m)
        /\ \A k : Records(k, Len(room))' = Records(k, Len(room))
                                              \cup (IF x.kind = k THEN {Len(room) + 1} ELSE {})
        /\ \A a : GameOf(a)' = GameOf(a)
    BY <1>1, <1>2, <1>3, <1>6, Grown
  <2>3. judged \in 0 .. Len(room') /\ known \in 0 .. Len(room') /\ known \in Nat /\ judged \in Nat
        /\ known <= Len(room) /\ judged <= Len(room)
    BY <1>1, <2>2, Basics
  <2>4. TypeOK'
    <3> HIDE DEF Row, Record, Epoch, Ended, Commits, Deliveries, Places
    <3> QED BY <1>1, <1>2, <1>4, <2>2, <2>3 DEF TypeOK
  <2>5. x.kind = "roster" => \A i \in 1 .. Len(room) : room[i].kind # "peers" => Id(i) # focus
    BY <1>3, <2>1 DEF Sent
  <2>6. x.kind = "roster" \/ x.kind = "withdraw"
    BY <1>3, <2>1
  <2>7. RoomInv'
    <3> SUFFICES ASSUME NEW i \in 1 .. Len(room')
      PROVE /\ room'[i].kind \in Kinds => /\ room'[i].id \in DOMAIN action
                                       /\ action[room'[i].id].kind = room'[i].kind
                                       /\ action[room'[i].id].status # "none"
            /\ room'[i].kind \in ReceiptKinds =>
                \E p \in 1 .. judged : p < i /\ room'[p].kind = "roster" /\ room'[p].id = room'[i].id
            /\ room'[i].kind \in {"roster", "peers"} =>
                \A p \in 1 .. Len(room') : room'[p].kind = room'[i].kind /\ room'[p].id = room'[i].id
                                              => i = p
      BY <1>2 DEF RoomInv, Id
    <3>1. CASE i = Len(room) + 1
      <4>1. \A p \in 1 .. Len(room') : p = i \/ p \in 1 .. Len(room)
        BY <2>2, <3>1
      <4>2. room'[i] = x
        BY <2>2, <3>1
      <4>3. x.kind = "roster" => \A p \in 1 .. Len(room') : room'[p].kind = "roster" /\ room'[p].id = focus
                                                              => i = p
        BY <2>2, <2>5, <4>1 DEF Id
      <4> QED BY <1>3, <2>1, <2>6, <4>2, <4>3 DEF Kinds, ReceiptKinds
    <3>2. CASE i \in 1 .. Len(room)
      <4>1. room'[i] = room[i]
        BY <2>2, <3>2
      <4>2. room[i].kind \in Kinds => /\ room[i].id \in DOMAIN action
                                      /\ action[room[i].id].kind = room[i].kind
                                      /\ action[room[i].id].status # "none"
        BY <1>1, <3>2 DEF RoomInv, Id
      <4>3. ASSUME room[i].kind \in ReceiptKinds
            PROVE  \E p \in 1 .. judged : p < i /\ room'[p].kind = "roster" /\ room'[p].id = room[i].id
        <5>1. PICK p \in 1 .. judged : p < i /\ room[p].kind = "roster" /\ Id(p) = Id(i)
          BY <1>1, <3>2, <4>3 DEF RoomInv
        <5>2. p \in 1 .. Len(room)
          BY <2>2, <2>3
        <5> QED BY <2>2, <5>1, <5>2 DEF Id
      <4>4. ASSUME room[i].kind \in {"roster", "peers"},
                   NEW p \in 1 .. Len(room'), room'[p].kind = room[i].kind, room'[p].id = room[i].id
            PROVE  i = p
        <5>1. p # Len(room) + 1
          <6>1. CASE x.kind = "roster"
            BY <2>1, <2>2, <2>5, <3>2, <4>4, <6>1 DEF Id
          <6>2. CASE x.kind = "withdraw"
            BY <2>2, <4>4, <6>2
          <6> QED BY <2>6, <6>1, <6>2
        <5>2. p \in 1 .. Len(room)
          BY <2>2, <5>1
        <5> QED BY <1>1, <2>2, <3>2, <4>4, <5>2 DEF RoomInv, Id
      <4> QED BY <4>1, <4>2, <4>3, <4>4
    <3> QED BY <2>2, <3>1, <3>2
  <2>8. \A k : k \notin {"roster", "withdraw"} => Records(k, Len(room))' = Records(k, Len(room))
    <3> SUFFICES ASSUME NEW k, k \notin {"roster", "withdraw"}
                 PROVE Records(k, Len(room))' = Records(k, Len(room))
      OBVIOUS
    <3>1. Records(k, Len(room))' = Records(k, Len(room)) \cup {}
      BY <2>2, <2>6
    <3> QED BY <3>1
  <2>9. \A i \in Rosters' : \/ i \in Rosters /\ Id(i)' = Id(i) /\ i \in 1 .. Len(room)
                            \/ x.kind = "roster" /\ i = Len(room) + 1 /\ Id(i)' = focus
    <3> SUFFICES ASSUME NEW i \in Rosters'
                 PROVE  \/ i \in Rosters /\ Id(i)' = Id(i) /\ i \in 1 .. Len(room)
                        \/ x.kind = "roster" /\ i = Len(room) + 1 /\ Id(i)' = focus
      OBVIOUS
    <3>1. i \in Records("roster", Len(room)) \cup (IF x.kind = "roster" THEN {Len(room) + 1} ELSE {})
      BY <2>2 DEF Rosters
    <3>2. CASE i \in Records("roster", Len(room))
      BY <2>2, <3>2 DEF Rosters, Records
    <3>3. CASE x.kind = "roster" /\ i = Len(room) + 1
      BY <2>1, <2>2, <3>3 DEF Id
    <3> QED BY <3>1, <3>2, <3>3
  <2>10. RefereeInv'
    <3>1. \A r \in standing' :
            /\ \E j \in 1 .. judged' : room'[j].kind = "roster" /\ Id(j)' = r
            /\ \A q \in Records("refused", Len(room))' : Id(q)' # r
      <4>1. \A j \in 1 .. judged : j \in 1 .. Len(room)
        BY <2>2, <2>3
      <4>2. \A q \in Records("refused", Len(room)) : q \in 1 .. Len(room)
        BY DEF Records
      <4> QED BY <1>1, <1>2, <2>2, <2>8, <4>1, <4>2 DEF RefereeInv
    <3>2. \A b \in frozen' : \E p \in 1 .. judged' : room'[p].kind = "peers" /\ Id(p)' = b
      <4>1. \A j \in 1 .. judged : j \in 1 .. Len(room)
        BY <2>2, <2>3
      <4> QED BY <1>1, <1>2, <2>2, <4>1 DEF RefereeInv
    <3>3. \A k : \A q \in Records(k, Len(room)) : Id(q)' = Id(q) /\ GameOf(Id(q))' = GameOf(Id(q))
      <4> TAKE k
      <4> TAKE q \in Records(k, Len(room))
      <4>1. q \in 1 .. Len(room)
        BY DEF Records
      <4> QED BY <1>2, <2>2, <4>1 DEF GameOf
    <3>4. \A k \in ReceiptKinds : \A q \in Records(k, Len(room)) : \A i \in Rosters' :
             Id(i)' = Id(q) => i \in Rosters /\ Id(i)' = Id(i)
      <4> SUFFICES ASSUME NEW k \in ReceiptKinds, NEW q \in Records(k, Len(room)), NEW i \in Rosters',
                          Id(i)' = Id(q)
                   PROVE  i \in Rosters /\ Id(i)' = Id(i)
        OBVIOUS
      <4>1. q \in 1 .. Len(room) /\ room[q].kind # "peers"
        BY DEF Records, ReceiptKinds
      <4> QED BY <2>5, <2>9, <4>1
    <3>5. \A q \in Records("ready", Len(room))' :
            /\ GameOf(Id(q))' \in frozen'
            /\ \A p \in Records("ready", Len(room))' : GameOf(Id(p))' = GameOf(Id(q))' => p = q
            /\ \A p \in Records("refused", Len(room))' :
                  /\ Id(p)' # Id(q)'
                  /\ q < p => \A i, j \in Rosters' : Id(i)' = Id(q)' /\ Id(j)' = Id(p)' => i < j
      BY <1>1, <1>2, <2>8, <3>3, <3>4 DEF RefereeInv, ReceiptKinds
    <3>6. \A q \in Records("consented", Len(room))' : \A i \in Rosters' :
            Id(i)' = Id(q)' => \A p \in Records("peers", i)' : Id(p)' # GameOf(Id(i))'
      <4> SUFFICES ASSUME NEW q \in Records("consented", Len(room)), NEW i \in Rosters',
                          Id(i)' = Id(q), NEW p \in Records("peers", i)'
                   PROVE  Id(p)' # GameOf(Id(i))'
        BY <2>8, <3>3
      <4>1. i \in Rosters /\ Id(i) = Id(q) /\ GameOf(Id(i))' = GameOf(Id(i))
        <5>1. i \in Rosters /\ Id(i)' = Id(i)
          BY <3>4 DEF ReceiptKinds
        <5> QED BY <3>3, <5>1 DEF Rosters
      <4>2. i \in 1 .. Len(room)
        BY <4>1 DEF Rosters, Records
      <4>3. {b \in 1 .. i : room'[b].kind = "peers"} = Records("peers", i)
        BY <2>2, <4>2
      <4>4. p \in Records("peers", i)
        BY <4>3 DEF Records
      <4>5. p \in 1 .. i
        BY <4>4 DEF Records
      <4>6. p \in 1 .. Len(room)
        BY <2>2, <4>2, <4>5
      <4> QED BY <1>1, <2>2, <4>1, <4>4, <4>6 DEF RefereeInv
    <3> QED BY <3>1, <3>2, <3>5, <3>6 DEF RefereeInv
  <2>11. ReadInv'
    BY <1>1, <1>2, <1>3, <1>6, ReadGrown
  <2>12. ActionInv'
    BY <1>1, <1>2 DEF ActionInv, Ids, PendingRosters, GameOf
  <2>13. WritingIsReady'
    BY <1>1, <1>2, <1>3, <1>6, WritingGrown
  <2>14. RowsStand /\ UNCHANGED <<Oldest, Doubted, PendingRosters, Ids("application")>>
    BY <1>1, <1>2, RowsSame
  <2>15. CASE x.kind = "roster"
    <3>1. OldestUnsent'
      BY <1>2, <1>3, <2>1, <2>14, <2>15 DEF OldestUnsent
    <3> QED BY <2>4, <2>7, <2>10, <2>11, <2>12, <2>13, <3>1, WithdrawalUnsent DEF Facts
  <2>16. CASE x.kind = "withdraw"
    <3>1. Rosters' = Rosters
      <4>1. Records("roster", Len(room))' = Records("roster", Len(room)) \cup {}
        BY <2>2, <2>16
      <4> QED BY <4>1 DEF Rosters
    <3>2. \A i \in Rosters : i \in 1 .. Len(room) /\ Id(i)' = Id(i) /\ GameOf(Id(i))' = GameOf(Id(i))
      <4>1. \A i \in Rosters : i \in 1 .. Len(room)
        BY DEF Rosters, Records
      <4> QED BY <1>2, <2>2, <4>1 DEF GameOf
    <3>3. \A i \in Rosters : Out(i)' => Out(i) /\ GameOf(focus) # GameOf(Id(i))
      BY <1>1, <1>2, <1>3, <1>6, <2>1, <2>16, OutGrown
    <3>4. GameOf(Oldest)' = GameOf(Oldest)
      BY <1>2, <2>14 DEF GameOf
    <3>5. WithdrawalInv'
      <4> SUFFICES ASSUME Oldest # NoAction, action[Oldest].status # "none"
          PROVE /\ epoch = NoEpoch \/ epoch.retreating
                /\ \A w \in Doubted : action[w].status # "none" => w = Oldest
                /\ \A r \in PendingRosters : GameOf(r)' = GameOf(Oldest)'
                /\ \A j \in Records("withdraw", Len(room))', i \in Rosters :
                      Id(j)' = Oldest /\ GameOf(Id(i))' = GameOf(Oldest)' => ~Out(i)'
        BY <1>2, <2>14, <3>1 DEF WithdrawalInv
      <4>1. \A r \in PendingRosters : GameOf(r)' = GameOf(Oldest)'
        BY <1>1, <1>2, <3>4 DEF WithdrawalInv, GameOf
      <4>2. ASSUME NEW j \in Records("withdraw", Len(room))', NEW i \in Rosters,
                   Id(j)' = Oldest, GameOf(Id(i))' = GameOf(Oldest)'
            PROVE  ~Out(i)'
        <5>1. CASE j \in Records("withdraw", Len(room))
          <6>1. Id(j)' = Id(j)
            BY <2>2, <5>1 DEF Records
          <6> QED BY <1>1, <3>2, <3>3, <3>4, <4>2, <5>1, <6>1 DEF WithdrawalInv
        <5>2. CASE j = Len(room) + 1
          <6>1. Id(j)' = focus
            BY <2>1, <2>2, <5>2 DEF Id
          <6> QED BY <3>2, <3>3, <3>4, <4>2, <6>1
        <5> QED BY <2>2, <2>16, <5>1, <5>2
      <4> QED BY <1>1, <4>1, <4>2 DEF WithdrawalInv
    <3> QED BY <2>4, <2>7, <2>10, <2>11, <2>12, <2>13, <3>5 DEF Facts
  <2> QED BY <2>6, <2>15, <2>16
<1> QED BY <1>5, <1>6 DEF CommitPost

-----------------------------------------------------------------------------
\* The programs go on.

LEMMA TransactionIs ==
  ASSUME Transaction, NEW c, Head(todo) = c
  PROVE  /\ todo # <<>>
         /\ c \in DOMAIN NewStatus => CommitStatus
         /\ c = "withdrawn" => CommitWithdrawn
         /\ c \in DOMAIN NewDelivery => CommitDelivery
         /\ c \in DOMAIN NewKind => CommitIntent
         /\ c \in {"note", "denyEpoch", "confirmEpoch", "doubtEpoch", "consent", "fleeEpoch"} =>
               CommitEpoch
         /\ c \in DOMAIN NewEnd => CommitEnd
         /\ c \in {"join", "leave"} => CommitTeam
         /\ c \in DOMAIN NewPhase => CommitPhase
         /\ c = "done" => CommitDone
         /\ c = "post" => CommitPost
<1> DEFINE G == /\ todo # <<>>
                /\ c \in DOMAIN NewStatus => CommitStatus
                /\ c = "withdrawn" => CommitWithdrawn
                /\ c \in DOMAIN NewDelivery => CommitDelivery
                /\ c \in DOMAIN NewKind => CommitIntent
                /\ c \in {"note", "denyEpoch", "confirmEpoch", "doubtEpoch", "consent", "fleeEpoch"}
                      => CommitEpoch
                /\ c \in DOMAIN NewEnd => CommitEnd
                /\ c \in {"join", "leave"} => CommitTeam
                /\ c \in DOMAIN NewPhase => CommitPhase
                /\ c = "done" => CommitDone
                /\ c = "post" => CommitPost
<1>1. /\ DOMAIN NewStatus = {"accept", "reject", "retreatDone", "expire", "reserve", "posted"}
      /\ DOMAIN NewDelivery = {"confirm", "deny", "retreated", "doubt"}
      /\ DOMAIN NewKind = {"intend", "flee"} /\ DOMAIN NewEnd = {"teamReady", "abandon"}
      /\ DOMAIN NewPhase = {"write", "discover", "wait"}
  BY DEF NewStatus, NewDelivery, NewKind, NewEnd, NewPhase
<1>2. CASE CommitStatus
  <2>1. c \in DOMAIN NewStatus /\ todo # <<>>
    BY <1>2 DEF CommitStatus, Commit
  <2> QED BY <1>1, <1>2, <2>1
<1>3. CASE CommitWithdrawn
  <2>1. c = "withdrawn" /\ todo # <<>>
    BY <1>3 DEF CommitWithdrawn, Commit
  <2> QED BY <1>1, <1>3, <2>1
<1>4. CASE CommitDelivery
  <2>1. c \in DOMAIN NewDelivery /\ todo # <<>>
    BY <1>4 DEF CommitDelivery, Commit
  <2> QED BY <1>1, <1>4, <2>1
<1>5. CASE CommitIntent
  <2>1. c \in DOMAIN NewKind /\ todo # <<>>
    BY <1>5 DEF CommitIntent, Commit
  <2> QED BY <1>1, <1>5, <2>1
<1>6. CASE CommitEpoch
  <2>1. /\ c \in {"note", "denyEpoch", "confirmEpoch", "doubtEpoch", "consent", "fleeEpoch"}
        /\ todo # <<>>
    BY <1>6 DEF CommitEpoch, Commit
  <2> QED BY <1>1, <1>6, <2>1
<1>7. CASE CommitEnd
  <2>1. c \in DOMAIN NewEnd /\ todo # <<>>
    BY <1>7 DEF CommitEnd, Commit
  <2> QED BY <1>1, <1>7, <2>1
<1>8. CASE CommitTeam
  <2>1. c \in {"join", "leave"} /\ todo # <<>>
    BY <1>8 DEF CommitTeam, Commit
  <2> QED BY <1>1, <1>8, <2>1
<1>9. CASE CommitPhase
  <2>1. c \in DOMAIN NewPhase /\ todo # <<>>
    BY <1>9 DEF CommitPhase, Commit
  <2> QED BY <1>1, <1>9, <2>1
<1>10. CASE CommitDone
  <2>1. c = "done" /\ todo # <<>>
    BY <1>10 DEF CommitDone, Commit
  <2> QED BY <1>1, <1>10, <2>1
<1>11. CASE CommitPost
  <2>1. c = "post" /\ todo # <<>>
    BY <1>11 DEF CommitPost
  <2> QED BY <1>1, <1>11, <2>1
<1> QED BY <1>2, <1>3, <1>4, <1>5, <1>6, <1>7, <1>8, <1>9, <1>10, <1>11 DEF Transaction

\* What a transaction leaves alone.
LEMMA TransactionFrame ==
  ASSUME Transaction, NEW c, Head(todo) = c
  PROVE  /\ known' = known /\ over' = over /\ crashes' = crashes
         /\ c # "post" => todo' = Tail(todo) /\ place' = place /\ room' = room
         /\ c # "done" => done' = done
         /\ c \notin {"post", "intend", "flee"} => focus' = focus
         /\ c \notin {"join", "leave"} => team' = team
         /\ c \notin {"write", "discover", "wait"} => phase' = phase
         /\ c \notin {"note", "denyEpoch", "confirmEpoch", "doubtEpoch", "consent", "fleeEpoch",
                      "teamReady", "abandon"} => epoch' = epoch
         /\ c \in {"note", "denyEpoch", "confirmEpoch", "doubtEpoch", "consent", "fleeEpoch",
                   "teamReady", "abandon", "join", "leave", "write", "discover", "wait", "done",
                   "post"} => action' = action
<1>1. /\ DOMAIN NewStatus = {"accept", "reject", "retreatDone", "expire", "reserve", "posted"}
      /\ DOMAIN NewDelivery = {"confirm", "deny", "retreated", "doubt"}
      /\ DOMAIN NewKind = {"intend", "flee"} /\ DOMAIN NewEnd = {"teamReady", "abandon"}
      /\ DOMAIN NewPhase = {"write", "discover", "wait"}
  BY DEF NewStatus, NewDelivery, NewKind, NewEnd, NewPhase
<1>2. CASE CommitStatus
  BY <1>1, <1>2 DEF CommitStatus, Commit, readVars, worldVars, refereeVars
<1>3. CASE CommitWithdrawn
  BY <1>1, <1>3 DEF CommitWithdrawn, Commit, readVars, worldVars, refereeVars
<1>4. CASE CommitDelivery
  BY <1>1, <1>4 DEF CommitDelivery, Commit, readVars, worldVars, refereeVars
<1>5. CASE CommitIntent
  BY <1>1, <1>5 DEF CommitIntent, Commit, readVars, worldVars, refereeVars
<1>6. CASE CommitEpoch
  BY <1>1, <1>6 DEF CommitEpoch, Commit, readVars, worldVars, refereeVars
<1>7. CASE CommitEnd
  BY <1>1, <1>7 DEF CommitEnd, Commit, readVars, worldVars, refereeVars
<1>8. CASE CommitTeam
  BY <1>1, <1>8 DEF CommitTeam, Commit, readVars, worldVars, refereeVars
<1>9. CASE CommitPhase
  BY <1>1, <1>9 DEF CommitPhase, Commit, readVars, worldVars, refereeVars
<1>10. CASE CommitDone
  BY <1>1, <1>10 DEF CommitDone, Commit, dbVars, worldVars, refereeVars
<1>11. CASE CommitPost
  BY <1>1, <1>11 DEF CommitPost, dbVars, readVars, refereeVars
<1> QED BY <1>2, <1>3, <1>4, <1>5, <1>6, <1>7, <1>8, <1>9, <1>10, <1>11 DEF Transaction

LEMMA TransactionFacts == ASSUME Base, Transaction PROVE Facts'
  BY StatusCommits, WithdrawnCommits, DeliveryCommits, IntentCommits, EpochCommits, EndCommits,
     TeamCommits, PhaseCommits, DoneCommits, PostCommits DEF Transaction

LEMMA StatusChange ==
  ASSUME TypeOK, CommitStatus
  PROVE  /\ RowsStand /\ Oldest' = Oldest /\ (\A k : Ids(k)' = Ids(k))
         /\ focus \in DOMAIN action => action'[focus].status = NewStatus[Head(todo)]
         /\ \A a \in DOMAIN action : a # focus => action'[a].status = action[a].status
<1>1. PICK c \in DOMAIN NewStatus :
         /\ Commit(c)
         /\ action' = IF focus = NoAction THEN action
                      ELSE [action EXCEPT ![focus].status = NewStatus[c]]
  BY DEF CommitStatus
<1>2. NewStatus[c] \in Statuses \ {"none"} /\ Head(todo) = c
  BY <1>1 DEF NewStatus, Statuses, Commit
<1>3. CASE focus = NoAction
  <2>1. action' = action /\ focus \notin DOMAIN action
    BY <1>1, <1>3, Basics DEF NoAction
  <2>2. RowsStand /\ Oldest' = Oldest
    BY <2>1, RowsSame
  <2>3. \A k : Ids(k)' = Ids(k)
    BY <2>1 DEF Ids
  <2> QED BY <2>1, <2>2, <2>3
<1>4. CASE focus # NoAction
  <2> DEFINE s == NewStatus[c]
  <2>1. action' = [action EXCEPT ![focus].status = s] /\ s \in Statuses \ {"none"}
        /\ s = NewStatus[Head(todo)]
    BY <1>1, <1>2, <1>4
  <2> HIDE DEF s
  <2>2. /\ RowsStand /\ (\A k : Ids(k)' = Ids(k)) /\ Oldest' = Oldest
        /\ \A a \in DOMAIN action : a # focus => action'[a].status = action[a].status
    BY <2>1, StatusEffect, Zenon
  <2>3. \A a \in DOMAIN action : action'[a].status = IF a = focus THEN s ELSE action[a].status
    BY <2>1, StatusSet
  <2> QED BY <2>1, <2>2, <2>3
<1> QED BY <1>3, <1>4

LEMMA DeliveryChange ==
  ASSUME TypeOK, CommitDelivery
  PROVE  /\ RowsStand /\ (\A k : Ids(k)' = Ids(k))
         /\ \A a \in DOMAIN action : action'[a].status = action[a].status
<1>1. PICK c \in DOMAIN NewDelivery :
         Commit(c) /\ action' = [action EXCEPT ![focus].delivery = NewDelivery[c]]
  BY DEF CommitDelivery
<1> DEFINE d == NewDelivery[c]
<1>2. action' = [action EXCEPT ![focus].delivery = d] /\ d \in Deliveries
  BY <1>1 DEF NewDelivery, Deliveries
<1> HIDE DEF d
<1> QED BY <1>2, DeliveryEffect, Zenon

LEMMA TransactionRows == ASSUME Base, Transaction PROVE RowsStand
<1>1. TypeOK
  BY DEF Base, Facts
<1>2. CASE CommitStatus
  BY <1>1, <1>2, StatusChange
<1>3. CASE CommitDelivery
  BY <1>1, <1>3, DeliveryChange
<1>4. CASE CommitWithdrawn
  <2> DEFINE f == Pending("roster")
  <2>1. action' = [action EXCEPT ![f].status = "withdrawn"]
    BY <1>4 DEF CommitWithdrawn
  <2>2. "withdrawn" \in Statuses \ {"none"}
    BY DEF Statuses
  <2> HIDE DEF f
  <2> QED BY <1>1, <2>1, <2>2, StatusEffect
<1>5. CASE CommitIntent
  <2>1. PICK c \in DOMAIN NewKind :
          /\ Commit(c)
          /\ action' = Append(action, [kind |-> NewKind[c], game |-> team,
                                       delivery |-> "POSTED_UNCONFIRMED", status |-> "none"])
    BY <1>5 DEF CommitIntent
  <2>2. CommitFacts(c)
    BY <2>1, CommitIs DEF Commit
  <2>3. team \in Game /\ Len(action) < MaxActions
    BY <2>1, <2>2 DEF CommitFacts, SignAt, FleeAt, NewKind
  <2>4. [kind |-> NewKind[c], game |-> team,
         delivery |-> "POSTED_UNCONFIRMED", status |-> "none"] \in Row
    BY <2>3 DEF Row, Kinds, Deliveries, Statuses, NewKind
  <2> QED BY <1>1, <2>1, <2>3, <2>4, RowEffect
<1>6. CASE CommitEpoch \/ CommitEnd \/ CommitTeam \/ CommitPhase \/ CommitDone \/ CommitPost
  <2>1. action' = action
    BY <1>6 DEF CommitEpoch, CommitEnd, CommitTeam, CommitPhase, CommitDone, CommitPost, dbVars
  <2> QED BY <1>1, <2>1, RowsSame
<1> QED BY <1>2, <1>3, <1>4, <1>5, <1>6 DEF Transaction

LEMMA RowsIds ==
  ASSUME TypeOK, RowsStand
  PROVE  /\ \A k : \A a \in Ids(k) : a \in Ids(k)' /\ GameOf(a)' = GameOf(a)
         /\ \A w : w \in Ids("withdraw") /\ action[w].status # "none" =>
               w \in Ids("withdraw")' /\ action'[w].status # "none"
  BY DEF RowsStand, Ids, GameOf

LEMMA ReceiptsGo ==
  ASSUME Base, Transaction, place = "receipts"
  PROVE  RunInv'
<1> DEFINE c == Head(todo)
<1>1. Head(todo) = c
  OBVIOUS
<1> HIDE DEF c
<1>2. todo # <<>>
  BY <1>1, TransactionIs
<1>3. TypeOK /\ RowsStand
  BY TransactionRows DEF Base, Facts
<1>4. SentRoster
  BY <1>1, <1>2, InReceipts
<1>5. PICK q \in 1 .. known, k \in 0 .. 5 :
            /\ HandleAt(q, k) /\ AtHand(q) /\ room[q].kind \in ReceiptKinds
            /\ Tail(todo) = Rest(Program(room[q].kind), k + 1)
            /\ k + 1 < Len(Program(room[q].kind)) \/ c = "done"
            /\ \/ /\ room[q].kind = "ready"
                  /\ \/ (k = 0 /\ c = "accept") \/ (k = 1 /\ c = "join") \/ (k = 2 /\ c = "confirm")
                     \/ (k = 3 /\ c = "teamReady") \/ (k = 4 /\ c = "write") \/ (k = 5 /\ c = "done")
               \/ /\ room[q].kind = "consented"
                  /\ \/ (k = 0 /\ c = "accept") \/ (k = 1 /\ c = "confirm") \/ (k = 2 /\ c = "note")
                     \/ (k = 3 /\ c = "done")
               \/ /\ room[q].kind = "refused"
                  /\ \/ (k = 0 /\ c = "reject") \/ (k = 1 /\ c = "deny") \/ (k = 2 /\ c = "denyEpoch")
                     \/ (k = 3 /\ c = "leave") \/ (k = 4 /\ c = "discover") \/ (k = 5 /\ c = "done")
  BY <1>1, <1>2, InReceipts
<1>6. c \notin {"post", "intend", "flee"}
  BY <1>5
<1>7. todo' = Rest(Program(room[q].kind), k + 1) /\ place' = place /\ room' = room
      /\ known' = known /\ focus' = focus
  BY <1>1, <1>5, <1>6, TransactionFrame
<1>8. CASE c = "done"
  <2>1. k + 1 = Len(Program(room[q].kind))
    <3>1. Len(Program("ready")) = 6 /\ Len(Program("consented")) = 4 /\ Len(Program("refused")) = 6
      BY Programs
    <3>2. \/ room[q].kind = "ready" /\ k = 5
          \/ room[q].kind = "consented" /\ k = 3
          \/ room[q].kind = "refused" /\ k = 5
      BY <1>5, <1>8
    <3>3. CASE room[q].kind = "ready" /\ k = 5
      BY <3>1, <3>3
    <3>4. CASE room[q].kind = "consented" /\ k = 3
      BY <3>1, <3>4
    <3>5. CASE room[q].kind = "refused" /\ k = 5
      BY <3>1, <3>5
    <3> QED BY <3>2, <3>3, <3>4, <3>5
  <2>2. Program(room[q].kind) \in Seq(Commits)
    BY <1>5, Programs
  <2>3. Len(Program(room[q].kind)) \in Nat /\ k + 1 \in Nat
    BY <2>1
  <2>4. Rest(Program(room[q].kind), k + 1) = <<>>
    BY <2>1, <2>2, <2>3, Rests
  <2> QED BY <1>7, <2>4 DEF RunInv
<1>9. CASE c # "done"
  <2>1. k + 1 < Len(Program(room[q].kind)) /\ k + 1 \in 0 .. 5
    BY <1>5, <1>9
  <2>2. done' = done
    BY <1>1, <1>9, TransactionFrame
  <2>3. AtHand(q)'
    BY <1>5, <1>7, <2>2 DEF AtHand, Unprocessed, Id
  <2>4. GameOf(focus)' = GameOf(focus)
    <3>1. focus \in DOMAIN action
      BY <1>4 DEF SentRoster, Ids
    <3> QED BY <1>3, <1>7, <3>1 DEF RowsStand, GameOf
  <2>5. ASSUME room[q].kind = "ready", k + 1 >= 2 PROVE team' = GameOf(focus)'
    <3>1. CASE c = "join"
      <4>1. CommitTeam
        BY <1>1, <3>1, TransactionIs
      <4> QED BY <1>1, <2>4, <3>1, <4>1 DEF CommitTeam, Commit
    <3>2. CASE c # "join"
      <4>1. k >= 2 /\ c \notin {"join", "leave"}
        BY <1>5, <2>5, <3>2
      <4>2. team = GameOf(focus)
        BY <1>5, <2>5, <4>1 DEF HandleAt
      <4> QED BY <1>1, <2>4, <4>1, <4>2, TransactionFrame
    <3> QED BY <3>1, <3>2
  <2>6. ASSUME room[q].kind = "ready", k + 1 = 5 PROVE phase' = "WRITING"
    <3>1. c = "write"
      BY <1>5, <2>6
    <3>2. CommitPhase
      BY <1>1, <3>1, TransactionIs DEF NewPhase
    <3> QED BY <1>1, <3>1, <3>2 DEF CommitPhase, Commit, NewPhase
  <2>7. HandleAt(q, k + 1)'
    BY <1>7, <2>1, <2>3, <2>5, <2>6 DEF HandleAt
  <2>8. HandleInv'
    BY <1>7, <2>1, <2>7 DEF HandleInv
  <2> QED BY <1>7, <2>8 DEF RunInv
<1> QED BY <1>8, <1>9

LEMMA ChoosingGo ==
  ASSUME Base, Transaction, place = "choosing"
  PROVE  RunInv'
<1> DEFINE c == Head(todo)
<1>1. Head(todo) = c
  OBVIOUS
<1> HIDE DEF c
<1>2. todo # <<>>
  BY <1>1, TransactionIs
<1>3. TypeOK /\ RunInv /\ RowsStand /\ RoomInv
  BY TransactionRows DEF Base, Facts
<1>4. PICK k \in 0 .. 3 :
            /\ RetreatAt(k) /\ Tail(todo) = Rest(Retreating, k + 1)
            /\ \/ (k = 0 /\ c = "retreated") \/ (k = 1 /\ c = "retreatDone")
               \/ (k = 2 /\ c = "abandon") \/ (k = 3 /\ c = "leave")
  BY <1>1, <1>2, InChoosing
<1>5. todo' = Rest(Retreating, k + 1) /\ place' = "choosing" /\ phase' = "DISCOVERY"
      /\ Unprocessed' = {}
  <2>1. /\ todo' = Tail(todo) /\ place' = place /\ room' = room /\ known' = known /\ done' = done
        /\ phase' = phase
    BY <1>1, <1>4, TransactionFrame
  <2> QED BY <1>3, <1>4, <2>1 DEF RunInv, Unprocessed
<1>6. focus' = focus
  BY <1>1, <1>4, TransactionFrame
<1>7. OldestUnsent' /\ (k = 0 => SentWithdrawal')
  <2>1. CASE k = 0
    <3>1. SeenOldest /\ CommitDelivery
      BY <1>1, <1>4, <2>1, TransactionIs DEF RetreatAt, NewDelivery
    <3>2. action[focus].status # "none"
      <4>1. PICK i \in Records("withdraw", known) : room[i].id = focus
        BY <3>1 DEF SeenOldest, ReadBack, Ids
      <4>2. i \in 1 .. Len(room) /\ room[i].kind \in Kinds /\ Id(i) = focus
        BY <1>3, <4>1, Basics DEF Records, Kinds, Id
      <4> QED BY <1>3, <4>2 DEF RoomInv
    <3>3. SentWithdrawal'
      BY <1>3, <1>6, <3>1, <3>2, RowsIds DEF SeenOldest, SentWithdrawal
    <3> QED BY <1>1, <1>4, <2>1, <3>1, <3>3, DeliveryCommits
  <2>2. CASE k = 1
    <3>1. CommitStatus /\ SentWithdrawal /\ OldestUnsent
      BY <1>1, <1>4, <2>2, TransactionIs DEF RetreatAt, NewStatus
    <3>2. Oldest # NoAction => Oldest \in DOMAIN action /\ Oldest # focus
      BY <1>3, <3>1, OldestIsOldest DEF OldestUnsent, SentWithdrawal
    <3> QED BY <1>3, <2>2, <3>1, <3>2, StatusChange DEF OldestUnsent
  <2>3. CASE k \in {2, 3}
    <3>1. action' = action /\ OldestUnsent
      BY <1>1, <1>4, <2>3, TransactionFrame DEF RetreatAt
    <3> QED BY <1>3, <2>3, <3>1, RowsSame DEF OldestUnsent
  <2> QED BY <2>1, <2>2, <2>3
<1>8. RetreatAt(k + 1)'
  BY <1>5, <1>7 DEF RetreatAt
<1>9. ChoosingInv'
  BY <1>8 DEF ChoosingInv
<1> QED BY <1>5, <1>9 DEF RunInv

LEMMA WaitingGo ==
  ASSUME Base, Transaction, place = "waiting"
  PROVE  RunInv'
<1> DEFINE c == Head(todo)
<1>1. Head(todo) = c
  OBVIOUS
<1> HIDE DEF c
<1>2. todo # <<>>
  BY <1>1, TransactionIs
<1>3. TypeOK /\ RunInv /\ RowsStand
  BY TransactionRows DEF Base, Facts
<1>4. PICK k \in 0 .. 1 :
            /\ ConfirmAt(k) /\ Tail(todo) = Rest(Confirming, k + 1)
            /\ (k = 0 /\ c = "confirm") \/ (k = 1 /\ c = "confirmEpoch")
  BY <1>1, <1>2, InWaiting
<1>5. todo' = Rest(Confirming, k + 1) /\ place' = "waiting" /\ phase' = "WAIT_ROSTER_READY"
      /\ Unprocessed' = {}
  <2>1. /\ todo' = Tail(todo) /\ place' = place /\ room' = room /\ known' = known /\ done' = done
        /\ phase' = phase
    BY <1>1, <1>4, TransactionFrame
  <2> QED BY <1>3, <1>4, <2>1 DEF RunInv, Unprocessed
<1>6. focus' = focus
  BY <1>1, <1>4, TransactionFrame
<1>7. todo' = <<>> \/ ConfirmInv'
  <2>1. CASE k = 0
    <3>1. ConfirmAt(1)'
      BY <1>3, <1>4, <1>5, <1>6, <2>1, RowsIds DEF ConfirmAt
    <3> QED BY <3>1 DEF ConfirmInv
  <2>2. CASE k = 1
    BY <1>5, <2>2, ProgramEnds
  <2> QED BY <2>1, <2>2
<1> QED BY <1>5, <1>7 DEF RunInv

\* What all programs of a handler that is returning have in common.
LEMMA ReturningGoes ==
  ASSUME Base, Transaction, place = "returning", NEW c, Head(todo) = c,
         c \notin {"post", "write"},
         Tail(todo) = <<>> \/ (todo' = Tail(todo) =>
             SignInv' \/ GiveUpInv' \/ LeaveInv' \/ FleeInv' \/ DoubtInv')
  PROVE  RunInv'
<1>1. TypeOK /\ RunInv
  BY DEF Base, Facts
<1>2. /\ todo' = Tail(todo) /\ place' = place /\ room' = room /\ known' = known
      /\ c \notin {"discover", "wait"} => phase' = phase
  BY TransactionFrame
<1>3. c # "done"
  BY TransactionIs, CommitIs DEF CommitFacts
<1>4. Unprocessed' = {}
  BY <1>1, <1>2, <1>3, TransactionFrame DEF RunInv, Unprocessed
<1>5. phase' # "WRITING"
  <2>1. CASE c \in {"discover", "wait"}
    <3>1. CommitPhase
      BY <2>1, TransactionIs DEF NewPhase
    <3> QED BY <2>1, <3>1 DEF CommitPhase, Commit, NewPhase
  <2>2. CASE c \notin {"discover", "wait"}
    BY <1>1, <1>2, <2>2 DEF RunInv
  <2> QED BY <2>1, <2>2
<1> QED BY <1>2, <1>4, <1>5 DEF RunInv

LEMMA SigningGoes ==
  ASSUME Base, Transaction, NEW c, Head(todo) = c, place = "returning", SignInv
  PROVE  RunInv'
<1>1. TypeOK /\ RunInv /\ RowsStand /\ RoomInv /\ todo # <<>> /\ TypeOK'
  BY TransactionRows, TransactionFacts, TransactionIs DEF Base, Facts
<1>2. PICK k \in 0 .. 4 :
            /\ SignAt(k) /\ Tail(todo) = Rest(Signing, k + 1)
            /\ \/ (k = 0 /\ c = "intend") \/ (k = 1 /\ c = "consent") \/ (k = 2 /\ c = "reserve")
               \/ (k = 3 /\ c = "post") \/ (k = 4 /\ c = "wait")
  BY <1>1, InSigning
<1>3. phase = "DISCOVERY" /\ team \in Game
  BY <1>2 DEF SignAt
<1>4. team' = team /\ known' = known
  BY <1>2, TransactionFrame
<1>5. CASE k = 0
  <2>1. CommitIntent /\ c = "intend"
    BY <1>2, <1>5, TransactionIs DEF NewKind
  <2>2. todo' = Tail(todo) /\ room' = room /\ phase' = phase /\ epoch' = epoch
    BY <2>1, TransactionFrame
  <2>3. /\ OldestUnsent' /\ PendingRosters' = PendingRosters
        /\ focus' \in Ids("roster")' /\ focus' \notin DOMAIN action
        /\ GameOf(focus)' = team /\ focus' = Len(action')
    <3>1. /\ OldestUnsent' /\ PendingRosters' = PendingRosters
          /\ \E a : a = NewKind[Head(todo)] /\ focus' \in Ids(a)'
          /\ focus' \notin DOMAIN action
          /\ GameOf(focus)' = team
      BY <2>1, IntentCommits
    <3>2. NewKind["intend"] = "roster"
      BY DEF NewKind
    <3>3. focus' = Len(action')
      BY <2>1 DEF CommitIntent
    <3> QED BY <2>1, <3>1, <3>2, <3>3
  <2>4. ~Sent(focus)'
    <3> SUFFICES ASSUME NEW i \in 1 .. Len(room), room[i].kind # "peers", Id(i) = focus'
                 PROVE  FALSE
      BY <2>2 DEF Sent, Id
    <3>1. room[i].kind \in Kinds \/ room[i].kind \in ReceiptKinds
      BY <1>1, Basics DEF Record, Kinds, ReceiptKinds
    <3>2. Id(i) \in DOMAIN action
      BY <1>1, <3>1, ReceiptFocus DEF RoomInv
    <3> QED BY <2>3, <3>2
  <2>5. EpochFits'
    <3>1. EpochFits
      BY <1>2, <1>5 DEF SignAt
    <3>2. PeersComplete(team)' = PeersComplete(team)
      BY <1>4, <2>2 DEF PeersComplete, Records
    <3> QED BY <1>4, <2>2, <3>1, <3>2 DEF EpochFits
  <2>6. PendingRosters = {}
    BY <1>2, <1>5 DEF SignAt
  <2>7. Drafted'
    BY <1>4, <2>3, <2>4 DEF Drafted
  <2>8. SignAt(1)'
    BY <1>2, <1>3, <1>4, <1>5, <2>2, <2>3, <2>5, <2>6, <2>7 DEF SignAt
  <2>9. SignInv'
    BY <2>8 DEF SignInv
  <2> QED BY <2>1, <2>9, ReturningGoes
<1>6. CASE k = 1
  <2>1. CommitEpoch /\ c = "consent"
    BY <1>2, <1>6, TransactionIs
  <2>2. todo' = Tail(todo) /\ room' = room /\ phase' = phase /\ action' = action /\ focus' = focus
    BY <2>1, TransactionFrame
  <2>3. OldestUnsent /\ EpochFits /\ PendingRosters = {} /\ Drafted
    BY <1>2, <1>6 DEF SignAt
  <2>4. OldestUnsent' /\ PendingRosters' = {}
    BY <1>1, <2>2, <2>3, RowsSame DEF OldestUnsent
  <2>5. Drafted'
    BY <1>4, <2>2, <2>3 DEF Drafted, Sent, GameOf, Ids, Id
  <2>6. CASE epoch = NoEpoch
    <3>1. epoch' = NoEpoch
      BY <2>1, <2>6 DEF CommitEpoch
    <3>2. PeersComplete(team)' = PeersComplete(team)
      BY <1>4, <2>2 DEF PeersComplete, Records
    <3>3. EpochFits'
      BY <1>4, <2>3, <2>6, <3>1, <3>2 DEF EpochFits
    <3>4. SignAt(2)'
      BY <1>2, <1>3, <1>4, <1>6, <2>2, <2>4, <2>5, <3>1, <3>3 DEF SignAt
    <3>5. SignInv'
      BY <3>4 DEF SignInv
    <3> QED BY <2>1, <3>5, ReturningGoes
  <2>7. CASE epoch # NoEpoch
    <3>1. epoch' = [epoch EXCEPT !.consent = "POSTED_UNCONFIRMED", !.roster = focus]
      BY <2>1, <2>7 DEF CommitEpoch, Commit, EpochAfter
    <3>2. epoch \in Epoch /\ epoch.game = team
      BY <1>1, <2>3, <2>7 DEF TypeOK, EpochFits
    <3>3. epoch'.game = team /\ epoch'.roster = focus /\ epoch'.consent = "POSTED_UNCONFIRMED"
      BY <3>1, <3>2 DEF Epoch
    <3>4. EpochFits'
      BY <1>4, <3>3 DEF EpochFits
    <3>5. Protects(focus)'
      BY <1>4, <2>2, <2>5, <3>3 DEF Protects, PossiblyConsented, Possibly, Unresolved, Drafted
    <3>6. SignAt(2)'
      BY <1>2, <1>3, <1>4, <1>6, <2>2, <2>4, <2>5, <3>4, <3>5 DEF SignAt
    <3>7. SignInv'
      BY <3>6 DEF SignInv
    <3> QED BY <2>1, <3>7, ReturningGoes
  <2> QED BY <2>6, <2>7
<1>7. CASE k = 2
  <2>1. CommitStatus /\ c = "reserve"
    BY <1>2, <1>7, TransactionIs DEF NewStatus
  <2>2. /\ todo' = Tail(todo) /\ room' = room /\ phase' = phase /\ epoch' = epoch /\ focus' = focus
    BY <2>1, TransactionFrame
  <2>3. /\ OldestUnsent /\ EpochFits /\ Drafted /\ (epoch = NoEpoch \/ Protects(focus))
    BY <1>2, <1>7 DEF SignAt
  <2>4. focus \in DOMAIN action /\ focus \in Ids("roster") /\ focus \notin Ids("withdraw")
    BY <2>3 DEF Drafted, Ids
  <2>5. /\ Oldest' = Oldest /\ (\A a : Ids(a)' = Ids(a))
        /\ action'[focus].status = "pending"
        /\ \A a \in DOMAIN action : a # focus => action'[a].status = action[a].status
    <3>1. NewStatus["reserve"] = "pending"
      BY DEF NewStatus
    <3> QED BY <1>1, <2>1, <2>4, <3>1, StatusChange
  <2>6. OldestUnsent'
    <3>1. Oldest # NoAction => Oldest \in DOMAIN action /\ Oldest # focus
      BY <1>1, <2>4, OldestIsOldest DEF Doubted
    <3> QED BY <2>3, <2>5, <3>1 DEF OldestUnsent
  <2>7. GameOf(focus)' = GameOf(focus)
    BY <1>1, <2>2, <2>4 DEF RowsStand, GameOf
  <2>8. Len(action') = Len(action)
    <3>1. PICK a \in DOMAIN NewStatus :
             action' = IF focus = NoAction THEN action
                       ELSE [action EXCEPT ![focus].status = NewStatus[a]]
      BY <2>1 DEF CommitStatus
    <3> DEFINE s == NewStatus[a]
    <3>2. s \in Statuses
      BY DEF NewStatus, Statuses
    <3>3. action' = action \/ action' = [action EXCEPT ![focus].status = s]
      BY <3>1
    <3> HIDE DEF s
    <3> QED BY <1>1, <3>2, <3>3, StatusSet
  <2>9. Drafted' /\ focus' \in PendingRosters'
    BY <1>4, <2>2, <2>3, <2>4, <2>5, <2>7, <2>8 DEF Drafted, Sent, Id, PendingRosters
  <2>10. EpochFits' /\ (epoch' = NoEpoch \/ Protects(focus)')
    BY <1>4, <2>2, <2>3, <2>7 DEF EpochFits, Protects, PossiblyConsented, PeersComplete, Records
  <2>11. SignAt(3)'
    BY <1>2, <1>3, <1>4, <1>7, <2>2, <2>6, <2>9, <2>10 DEF SignAt
  <2>12. SignInv'
    BY <2>11 DEF SignInv
  <2> QED BY <2>1, <2>12, ReturningGoes
<1>8. CASE k = 3
  <2>1. CommitPost /\ c = "post"
    BY <1>2, <1>8, TransactionIs
  <2>2. CASE place' = "idle" /\ todo' = <<>>
    BY <2>2 DEF RunInv
  <2>3. CASE todo' = Tail(todo) /\ place' = place
    <3>1. phase' = phase /\ known' = known /\ done' = done
      BY <2>1, TransactionFrame
    <3>2. SignAt(4)'
      BY <1>2, <1>3, <1>4, <1>8, <2>3, <3>1 DEF SignAt
    <3>3. SignInv'
      BY <3>2 DEF SignInv
    <3>4. Unprocessed' = {}
      <4>1. \A i \in 1 .. known : room'[i] = room[i]
        <5>1. room' = room \/ \E x : room' = Append(room, x)
          BY <2>1 DEF CommitPost
        <5>2. \A x : \A i \in 1 .. Len(room) : Append(room, x)[i] = room[i]
          <6> HIDE DEF Record
          <6> QED BY <1>1 DEF TypeOK
        <5>3. \A i \in 1 .. known : i \in 1 .. Len(room)
          BY <1>1, Basics
        <5> QED BY <5>1, <5>2, <5>3
      <4> QED BY <1>1, <2>3, <3>1, <4>1 DEF RunInv, Unprocessed
    <3> QED BY <1>3, <2>3, <3>1, <3>3, <3>4 DEF RunInv
  <2> QED BY <2>1, <2>2, <2>3 DEF CommitPost, EndCycle, Run
<1>9. CASE k = 4
  <2>1. Tail(todo) = <<>> /\ c = "wait"
    BY <1>2, <1>9, ProgramEnds
  <2> QED BY <2>1, ReturningGoes
<1> QED BY <1>2, <1>5, <1>6, <1>7, <1>8, <1>9

LEMMA GivingUpGoes ==
  ASSUME Base, Transaction, NEW c, Head(todo) = c, place = "returning", GiveUpInv
  PROVE  RunInv'
<1>1. TypeOK /\ RowsStand /\ todo # <<>>
  BY TransactionRows, TransactionIs DEF Base, Facts
<1>2. PICK k \in 0 .. 1 :
            /\ GiveUpAt(k) /\ Tail(todo) = Rest(GivingUp, k + 1)
            /\ (k = 0 /\ c = "abandon") \/ (k = 1 /\ c = "expire")
  BY <1>1, InGivingUp
<1>3. focus' = focus
  BY <1>2, TransactionFrame
<1>4. CASE k = 0
  <2>1. todo' = Tail(todo) => GiveUpAt(1)'
    BY <1>1, <1>2, <1>3, <1>4, RowsIds DEF GiveUpAt
  <2>2. todo' = Tail(todo) => GiveUpInv'
    BY <2>1 DEF GiveUpInv
  <2> QED BY <1>2, <2>2, ReturningGoes
<1>5. CASE k = 1
  <2>1. Tail(todo) = <<>>
    BY <1>2, <1>5, ProgramEnds
  <2> QED BY <1>2, <2>1, ReturningGoes
<1> QED BY <1>4, <1>5

LEMMA DoubtingGoes ==
  ASSUME Base, Transaction, NEW c, Head(todo) = c, place = "returning", DoubtInv
  PROVE  RunInv'
<1>1. TypeOK /\ RowsStand /\ todo # <<>>
  BY TransactionRows, TransactionIs DEF Base, Facts
<1>2. PICK k \in 0 .. 1 :
            /\ DoubtAt(k) /\ Tail(todo) = Rest(Doubting, k + 1)
            /\ (k = 0 /\ c = "doubt") \/ (k = 1 /\ c = "doubtEpoch")
  BY <1>1, InDoubting
<1>3. focus' = focus
  BY <1>2, TransactionFrame
<1>4. CASE k = 0
  <2>1. todo' = Tail(todo) => DoubtAt(1)'
    BY <1>1, <1>2, <1>3, <1>4, RowsIds DEF DoubtAt
  <2>2. todo' = Tail(todo) => DoubtInv'
    BY <2>1 DEF DoubtInv
  <2> QED BY <1>2, <2>2, ReturningGoes
<1>5. CASE k = 1
  <2>1. Tail(todo) = <<>>
    BY <1>2, <1>5, ProgramEnds
  <2> QED BY <1>2, <2>1, ReturningGoes
<1> QED BY <1>4, <1>5

\* What is read back was sent.
LEMMA SeenIsSent ==
  ASSUME TypeOK, RoomInv, SeenOldest
  PROVE  SentWithdrawal
<1>1. PICK i \in Records("withdraw", known) : room[i].id = focus
  BY DEF SeenOldest, ReadBack, Ids
<1>2. i \in 1 .. Len(room) /\ room[i].kind \in Kinds /\ Id(i) = focus
  BY <1>1, Basics DEF Records, Kinds, Id
<1> QED BY <1>2 DEF RoomInv, SeenOldest, SentWithdrawal

LEMMA LeavingGoes ==
  ASSUME Base, Transaction, NEW c, Head(todo) = c, place = "returning", LeaveInv
  PROVE  RunInv'
<1>1. TypeOK /\ RoomInv /\ RowsStand /\ todo # <<>>
  BY TransactionRows, TransactionIs DEF Base, Facts
<1>2. PICK k \in 0 .. 5 :
            /\ LeaveAt(k) /\ Tail(todo) = Rest(Leaving, k + 1)
            /\ \/ (k = 0 /\ c = "retreated") \/ (k = 1 /\ c = "retreatDone") \/ (k = 2 /\ c = "withdrawn")
               \/ (k = 3 /\ c = "abandon") \/ (k = 4 /\ c = "leave") \/ (k = 5 /\ c = "discover")
  BY <1>1, InLeaving
<1>3. focus' = focus
  BY <1>2, TransactionFrame
<1>4. CASE k < 5
  <2>1. k = 0 => SentWithdrawal'
    <3>1. k = 0 => SentWithdrawal
      BY <1>1, <1>2, SeenIsSent DEF LeaveAt
    <3> QED BY <1>1, <1>3, <3>1, RowsIds DEF SentWithdrawal
  <2>2. todo' = Tail(todo) => LeaveAt(k + 1)'
    BY <1>2, <2>1 DEF LeaveAt
  <2>3. todo' = Tail(todo) => LeaveInv'
    BY <1>4, <2>2 DEF LeaveInv
  <2> QED BY <1>2, <2>3, ReturningGoes
<1>5. CASE k = 5
  <2>1. Tail(todo) = <<>>
    BY <1>2, <1>5, ProgramEnds
  <2> QED BY <1>2, <2>1, ReturningGoes
<1> QED BY <1>4, <1>5

LEMMA FleeingGoes ==
  ASSUME Base, Transaction, NEW c, Head(todo) = c, place = "returning", FleeInv
  PROVE  RunInv'
<1>1. TypeOK /\ RunInv /\ RowsStand /\ RoomInv /\ todo # <<>> /\ TypeOK'
  BY TransactionRows, TransactionFacts, TransactionIs DEF Base, Facts
<1>2. PICK k \in 0 .. 4 :
            /\ FleeAt(k) /\ Tail(todo) = Rest(Fleeing, k + 1)
            /\ \/ (k = 0 /\ c = "flee") \/ (k = 1 /\ c = "fleeEpoch") \/ (k = 2 /\ c = "reserve")
               \/ (k = 3 /\ c = "post") \/ (k = 4 /\ c = "posted")
  BY <1>1, InFleeing
<1>3. team' = team /\ known' = known
  BY <1>2, TransactionFrame
<1>4. CASE k = 0
  <2>1. CommitIntent /\ c = "flee"
    BY <1>2, <1>4, TransactionIs DEF NewKind
  <2>2. todo' = Tail(todo) /\ epoch' = epoch
    BY <2>1, TransactionFrame
  <2>3. /\ OldestUnsent' /\ PendingRosters' = PendingRosters
        /\ focus' \in Doubted' /\ GameOf(focus)' = team
    BY <2>1, IntentCommits
  <2>4. focus' = Len(action')
    BY <2>1 DEF CommitIntent
  <2>5. /\ team \in Game /\ epoch # NoEpoch
        /\ \A r \in PendingRosters : GameOf(r) = team
    BY <1>2, <1>4 DEF FleeAt
  <2>6. \A r \in PendingRosters' : GameOf(r)' = team
    <3>1. \A r \in PendingRosters : r \in Ids("roster")
      BY DEF PendingRosters
    <3> QED BY <1>1, <2>3, <2>5, <3>1, RowsIds
  <2>7. FleeAt(1)'
    BY <1>2, <1>3, <1>4, <2>2, <2>3, <2>4, <2>5, <2>6 DEF FleeAt
  <2>8. FleeInv'
    BY <2>7 DEF FleeInv
  <2> QED BY <2>1, <2>8, ReturningGoes
<1>5. CASE k = 1
  <2>1. CommitEpoch /\ c = "fleeEpoch"
    BY <1>2, <1>5, TransactionIs
  <2>2. todo' = Tail(todo) /\ action' = action /\ focus' = focus
    BY <2>1, TransactionFrame
  <2>3. /\ team \in Game /\ epoch # NoEpoch /\ OldestUnsent
        /\ \A r \in PendingRosters : GameOf(r) = team
        /\ focus = Len(action) /\ focus \in Doubted /\ GameOf(focus) = team
    BY <1>2, <1>5 DEF FleeAt
  <2>4. epoch' = [epoch EXCEPT !.retreating = TRUE]
    BY <2>1, <2>3 DEF CommitEpoch, Commit, EpochAfter
  <2>5. epoch' # NoEpoch /\ epoch'.retreating
    <3>1. epoch \in Epoch
      BY <1>1, <2>3 DEF TypeOK
    <3>2. epoch'.retreating
      BY <2>4, <3>1 DEF Epoch
    <3> QED BY <3>2 DEF NoEpoch
  <2>6. OldestUnsent' /\ PendingRosters' = PendingRosters /\ Doubted' = Doubted
    BY <1>1, <2>2, <2>3, RowsSame DEF OldestUnsent
  <2>7. FleeAt(2)'
    BY <1>2, <1>3, <1>5, <2>2, <2>3, <2>5, <2>6 DEF FleeAt, GameOf
  <2>8. FleeInv'
    BY <2>7 DEF FleeInv
  <2> QED BY <2>1, <2>8, ReturningGoes
<1>6. CASE k = 2
  <2>1. CommitStatus /\ c = "reserve"
    BY <1>2, <1>6, TransactionIs DEF NewStatus
  <2>2. todo' = Tail(todo) /\ focus' = focus
    BY <2>1, TransactionFrame
  <2>3. focus \in Ids("withdraw") /\ focus \in DOMAIN action
    BY <1>2, <1>6 DEF FleeAt, Doubted, Ids
  <2>4. action'[focus].status = "pending" /\ Ids("withdraw")' = Ids("withdraw")
    <3>1. NewStatus["reserve"] = "pending"
      BY DEF NewStatus
    <3> QED BY <1>1, <2>1, <2>3, <3>1, StatusChange
  <2>5. SentWithdrawal'
    BY <2>2, <2>3, <2>4 DEF SentWithdrawal
  <2>6. FleeAt(3)'
    BY <1>2, <1>6, <2>2, <2>5 DEF FleeAt
  <2>7. FleeInv'
    BY <2>6 DEF FleeInv
  <2> QED BY <2>1, <2>7, ReturningGoes
<1>7. CASE k = 3
  <2>1. CommitPost /\ c = "post"
    BY <1>2, <1>7, TransactionIs
  <2>2. CASE place' = "idle" /\ todo' = <<>>
    BY <2>2 DEF RunInv
  <2>3. CASE todo' = Tail(todo) /\ place' = place /\ focus' = focus
    <3>1. phase' = phase /\ known' = known /\ done' = done /\ action' = action
      BY <2>1, TransactionFrame
    <3>2. SentWithdrawal'
      BY <1>2, <1>7, <2>3, <3>1 DEF FleeAt, SentWithdrawal, Ids
    <3>3. FleeAt(4)'
      BY <1>2, <1>7, <2>3, <3>2 DEF FleeAt
    <3>4. FleeInv'
      BY <3>3 DEF FleeInv
    <3>5. Unprocessed' = {}
      <4>1. \A i \in 1 .. known : room'[i] = room[i]
        <5>1. room' = room \/ \E x : room' = Append(room, x)
          BY <2>1 DEF CommitPost
        <5>2. \A x : \A i \in 1 .. Len(room) : Append(room, x)[i] = room[i]
          <6> HIDE DEF Record
          <6> QED BY <1>1 DEF TypeOK
        <5>3. \A i \in 1 .. known : i \in 1 .. Len(room)
          BY <1>1, Basics
        <5> QED BY <5>1, <5>2, <5>3
      <4> QED BY <1>1, <2>3, <3>1, <4>1 DEF RunInv, Unprocessed
    <3>6. phase # "WRITING"
      BY <1>1 DEF RunInv
    <3> QED BY <2>3, <3>1, <3>4, <3>5, <3>6 DEF RunInv
  <2> QED BY <2>1, <2>2, <2>3 DEF CommitPost, EndCycle, Run
<1>8. CASE k = 4
  <2>1. Tail(todo) = <<>>
    BY <1>2, <1>8, ProgramEnds
  <2> QED BY <1>2, <1>8, <2>1, ReturningGoes
<1> QED BY <1>2, <1>4, <1>5, <1>6, <1>7, <1>8

LEMMA TransactionSteps == ASSUME Base, Transaction PROVE Base'
<1> DEFINE c == Head(todo)
<1>1. Head(todo) = c
  OBVIOUS
<1> HIDE DEF c
<1>2. todo # <<>>
  BY <1>1, TransactionIs
<1>3. RunInv'
  BY <1>1, <1>2, Somewhere, ReceiptsGo, ChoosingGo, WaitingGo, SigningGoes, GivingUpGoes,
     LeavingGoes, FleeingGoes, DoubtingGoes
<1> QED BY <1>3, TransactionFacts DEF Base

-----------------------------------------------------------------------------
\* The steps that decide what to do, and the crash.

LEMMA RunChanges ==
  ASSUME Base, UNCHANGED <<dbVars, readVars, worldVars>>, crashes' \in 0 .. MaxCrashes,
         place' \in Places, todo' \in Seq(Commits), focus' \in 0 .. MaxActions
  PROVE  /\ Facts' /\ Unprocessed' = Unprocessed
         /\ UNCHANGED <<phase, team, action, epoch, known, room, done, PendingRosters, Oldest, Doubted>>
         /\ \A k : Ids(k)' = Ids(k)
         /\ \A q \in 1 .. known : Id(q)' = Id(q)
<1>1. TypeOK /\ RoomInv /\ RefereeInv /\ ReadInv /\ WithdrawalInv /\ ActionInv /\ WritingIsReady
  BY DEF Base, Facts
<1>2. UNCHANGED <<phase, team, action, epoch, ended, known, done, room, judged, standing, frozen,
                  over, refereeVars>>
  BY DEF dbVars, readVars, worldVars, refereeVars
<1>3. RowsStand /\ UNCHANGED <<Oldest, Doubted, PendingRosters, Ids("application")>>
  BY <1>1, <1>2, RowsSame
<1>4. TypeOK'
  <2> HIDE DEF Row, Record, Epoch, Ended, Commits, Deliveries, Places
  <2> QED BY <1>1, <1>2 DEF TypeOK
<1>5. RoomInv'
  BY <1>1, <1>2, <1>3, RoomKept
<1>6. RefereeInv'
  BY <1>1, <1>2, <1>3, RefereeKept
<1>7. ReadInv'
  BY <1>1, <1>2, <1>3, ReadKept
<1>8. WithdrawalInv'
  BY <1>1, <1>2, <1>3, WithdrawalKept
<1>9. ActionInv'
  BY <1>1, <1>2, <1>3, ActionKept
<1>10. WritingIsReady'
  BY <1>1, <1>2, <1>3, WritingKept
<1>11. Unprocessed' = Unprocessed
  BY <1>2 DEF Unprocessed
<1>12. (\A k : Ids(k)' = Ids(k)) /\ (\A q \in 1 .. known : Id(q)' = Id(q))
  BY <1>2 DEF Ids, Id
<1> QED BY <1>2, <1>3, <1>4, <1>5, <1>6, <1>7, <1>8, <1>9, <1>10, <1>11, <1>12 DEF Facts

LEMMA EndOfCycle ==
  ASSUME Base, UNCHANGED <<dbVars, readVars, worldVars>>, crashes' \in 0 .. MaxCrashes, EndCycle
  PROVE  Base'
<1>1. place' = "idle" /\ todo' = <<>> /\ focus' = 0
  BY DEF EndCycle, Run, NoAction
<1>2. place' \in Places /\ todo' \in Seq(Commits) /\ focus' \in 0 .. MaxActions
  BY <1>1, BoundsAssumption DEF Places
<1>3. RunInv'
  BY <1>1 DEF RunInv
<1> QED BY <1>2, <1>3, RunChanges DEF Base

LEMMA ReadSteps ==
  ASSUME Base, NEW upTo, Read(upTo)
  PROVE  Base'
<1>1. TypeOK /\ RoomInv /\ RefereeInv /\ ReadInv /\ WithdrawalInv /\ ActionInv /\ WritingIsReady
  BY DEF Base, Facts
<1>2. /\ upTo \in known .. Len(room) /\ known' = upTo
      /\ place' = "receipts" /\ todo' = <<>> /\ focus' = 0
      /\ UNCHANGED <<phase, team, action, epoch, ended, done, room, judged, standing, frozen,
                     over, refereeVars, crashes>>
  BY DEF Read, Run, NoAction, dbVars, worldVars, refereeVars
<1>3. RowsStand /\ UNCHANGED <<Oldest, Doubted, PendingRosters, Ids("application")>>
  BY <1>1, <1>2, RowsSame
<1>4. known' \in 0 .. Len(room) /\ \A i \in 1 .. known : i \in 1 .. known'
  BY <1>1, <1>2, Basics
<1>5. TypeOK'
  <2>1. todo' \in Seq(Commits) /\ place' \in Places /\ focus' \in 0 .. MaxActions
    BY <1>2, BoundsAssumption DEF Places
  <2> HIDE DEF Row, Record, Epoch, Ended, Commits, Deliveries, Places
  <2> QED BY <1>1, <1>2, <1>4, <2>1 DEF TypeOK
<1>6. RoomInv'
  BY <1>1, <1>2, <1>3, RoomKept
<1>7. RefereeInv'
  BY <1>1, <1>2, <1>3, RefereeKept
<1>8. \A q \in Records("ready", known) : q \in Records("ready", known)' /\ GameOf(Id(q))' = GameOf(Id(q))
  BY <1>2, <1>4 DEF Records, GameOf, Id
<1>9. ReadInv'
  <2>1. \A g \in over' : g \in frozen' /\ \E q \in Records("ready", known)' : GameOf(Id(q))' = g
    BY <1>1, <1>2, <1>8 DEF ReadInv
  <2> QED BY <1>1, <1>2, <2>1 DEF ReadInv
<1>10. WithdrawalInv'
  BY <1>1, <1>2, <1>3, WithdrawalKept
<1>11. ActionInv'
  BY <1>1, <1>2, <1>3, ActionKept
<1>12. WritingIsReady'
  <2> SUFFICES ASSUME phase = "WRITING", team # NoGame
               PROVE  \E i \in Records("ready", known)' : GameOf(room[i].id)' = team
    BY <1>2 DEF WritingIsReady
  <2>1. PICK i \in Records("ready", known) : GameOf(room[i].id) = team
    BY <1>1 DEF WritingIsReady
  <2> QED BY <1>8, <2>1 DEF Id
<1>13. RunInv'
  BY <1>2 DEF RunInv
<1> QED BY <1>5, <1>6, <1>7, <1>9, <1>10, <1>11, <1>12, <1>13 DEF Base, Facts

LEMMA HandleSteps ==
  ASSUME Base, NEW i \in 1 .. known, Handle(i)
  PROVE  Base'
<1>1. TypeOK /\ RoomInv
  BY DEF Base, Facts
<1>2. /\ i \in Unprocessed /\ \A j \in Unprocessed : i <= j
      /\ place' = "receipts" /\ todo' = Program(room[i].kind) /\ focus' = Id(i)
      /\ UNCHANGED <<dbVars, readVars, worldVars, crashes>>
  BY DEF Handle, Run, Id
<1>3. room[i].kind \in ReceiptKinds /\ i \in 1 .. Len(room)
  BY <1>1, <1>2, Basics DEF Unprocessed
<1>4. place' \in Places /\ todo' \in Seq(Commits) /\ focus' \in 0 .. MaxActions
      /\ crashes' \in 0 .. MaxCrashes
  <2>1. Id(i) \in DOMAIN action
    BY <1>1, <1>3, ReceiptFocus
  <2>2. Id(i) \in Action
    BY <1>1, <2>1, Basics
  <2>3. todo' \in Seq(Commits)
    BY <1>2, <1>3, Programs
  <2>4. Id(i) \in 0 .. MaxActions
    BY <2>2, BoundsAssumption DEF Action
  <2> QED BY <1>1, <1>2, <2>3, <2>4 DEF Places, TypeOK
<1>5. /\ Facts' /\ Unprocessed' = Unprocessed
      /\ UNCHANGED <<known, room>>
      /\ \A q \in 1 .. known : Id(q)' = Id(q)
  BY <1>2, <1>4, RunChanges
<1>6. HandleAt(i, 0)'
  <2>1. AtHand(i)'
    BY <1>2, <1>5 DEF AtHand
  <2>2. Program(room[i].kind) \in Seq(Commits) /\ 0 < Len(Program(room[i].kind))
    <3>1. \A kind \in ReceiptKinds : Program(kind) \in Seq(Commits)
      BY Programs
    <3>2. /\ Len(Program("ready")) = 6 /\ Len(Program("consented")) = 4
          /\ Len(Program("refused")) = 6
      BY Programs
    <3>3. Program(room[i].kind) \in Seq(Commits)
      BY <1>3, <3>1
    <3>4. Len(Program(room[i].kind)) = 4 \/ Len(Program(room[i].kind)) = 6
      <4>1. room[i].kind = "ready" \/ room[i].kind = "consented" \/ room[i].kind = "refused"
        BY <1>3 DEF ReceiptKinds
      <4> QED BY <3>2, <4>1, Zenon
    <3>5. 0 < Len(Program(room[i].kind))
      <4> DEFINE n == Len(Program(room[i].kind))
      <4>1. n = 4 \/ n = 6
        BY <3>4
      <4> HIDE DEF n
      <4>2. 0 < n
        BY <4>1
      <4> QED BY <4>2 DEF n
    <3> QED BY <3>3, <3>5
  <2>3. todo' = Rest(Program(room'[i].kind), 0)
    BY <1>2, <1>5, <2>2, WholeProgram
  <2> QED BY <1>5, <2>1, <2>2, <2>3 DEF HandleAt
<1>7. HandleInv'
  BY <1>5, <1>6 DEF HandleInv
<1>8. RunInv'
  BY <1>2, <1>7 DEF RunInv
<1> QED BY <1>5, <1>8 DEF Base

LEMMA ReceiptsDoneSteps ==
  ASSUME Base, ReceiptsDone
  PROVE  Base'
<1>1. TypeOK
  BY DEF Base, Facts
<1>2. /\ Unprocessed = {} /\ todo' = <<>> /\ focus' = 0
      /\ UNCHANGED <<dbVars, readVars, worldVars, crashes>>
      /\ \/ place' = "deciding" /\ phase = "DISCOVERY"
         \/ place' = "waiting" /\ phase = "WAIT_ROSTER_READY"
         \/ place' = "idle"
  BY DEF ReceiptsDone, Run, NoAction
<1>3. place' \in Places /\ todo' \in Seq(Commits) /\ focus' \in 0 .. MaxActions
      /\ crashes' \in 0 .. MaxCrashes
  BY <1>1, <1>2, BoundsAssumption DEF Places, TypeOK
<1>4. Facts' /\ Unprocessed' = {} /\ phase' = phase
  BY <1>2, <1>3, RunChanges
<1>5. RunInv'
  BY <1>2, <1>4 DEF RunInv
<1> QED BY <1>4, <1>5 DEF Base

LEMMA LatestIsOpen ==
  ASSUME TypeOK
  PROVE  /\ LatestOpen # NoAction => LatestOpen \in OpenRequests
         /\ OpenRequests # {} => LatestOpen # NoAction
         /\ OpenRequests \subseteq DOMAIN action
<1>1. OpenRequests \subseteq DOMAIN action
  BY DEF OpenRequests
<1>2. Len(action) \in Nat /\ DOMAIN action = 1 .. Len(action)
  BY Basics
<1>3. OpenRequests \in SUBSET (0 .. Len(action))
  BY <1>1, <1>2
<1>4. OpenRequests # {} => LatestOpen \in OpenRequests
  BY <1>2, <1>3, MaxIsIn DEF LatestOpen
<1>5. 0 \notin DOMAIN action
  BY <1>2
<1> QED BY <1>1, <1>4, <1>5 DEF LatestOpen, NoAction

LEMMA UnresolvedIs ==
  ASSUME TypeOK, NEW k
  PROVE  UnresolvedIntent(k) # NoAction => UnresolvedIntent(k) \in Ids(k)
<1> DEFINE S == {a \in Ids(k) : action[a].delivery \in Unresolved}
<1>1. S \subseteq Nat /\ 0 \notin S
  BY Basics DEF Ids
<1>2. UnresolvedIntent(k) = OldestOf(S)
  BY DEF UnresolvedIntent
<1> QED BY <1>1, <1>2, OldestIn

\* Without an epoch, and without one to be rebuilt, no roster and no withdrawal is in doubt
\* and no request is open.
LEMMA NothingToRebuild ==
  ASSUME TypeOK, epoch = NoEpoch, ~BootstrapDue
  PROVE  Oldest = NoAction /\ PendingRosters = {}
<1>1. Evidence = NoAction
  BY DEF BootstrapDue
<1>2. Oldest = NoAction /\ LatestOpen = NoAction
  BY <1>1 DEF Evidence, Oldest
<1>3. OpenRequests = {}
  BY <1>2, LatestIsOpen
<1> QED BY <1>2, <1>3 DEF PendingRosters, OpenRequests, Ids

LEMMA BootstrapSteps ==
  ASSUME Base, Bootstrap
  PROVE  Base'
<1>1. TypeOK /\ RoomInv /\ RefereeInv /\ ReadInv /\ WithdrawalInv /\ ActionInv /\ WritingIsReady
      /\ RunInv
  BY DEF Base, Facts
<1>2. /\ place \in {"deciding", "waiting"} /\ todo = <<>> /\ epoch = NoEpoch /\ Evidence # NoAction
      /\ epoch' = Rebuilt /\ ended' \subseteq ended
      /\ UNCHANGED <<phase, team, action, known, done, place, todo, focus, room, judged, standing,
                     frozen, over, refereeVars, crashes>>
  BY DEF Bootstrap, BootstrapDue, Revived, readVars, runVars, worldVars, refereeVars
<1>3. RowsStand /\ UNCHANGED <<Oldest, Doubted, PendingRosters, Ids("application")>>
  BY <1>1, <1>2, RowsSame
<1> DEFINE row == LatestOpen
           roster == IF UnresolvedIntent("roster") = NoAction /\ row # NoAction /\ action[row].kind = "roster"
                       THEN row ELSE UnresolvedIntent("roster")
           retreat == IF UnresolvedIntent("withdraw") = NoAction /\ row # NoAction /\ action[row].kind = "withdraw"
                       THEN row ELSE UnresolvedIntent("withdraw")
           application == IF row # NoAction /\ action[row].kind = "application" THEN row ELSE NoAction
           consent == IF roster # NoAction THEN action[roster].delivery
                      ELSE IF retreat # NoAction THEN "DELIVERY_UNKNOWN" ELSE "NOT_SENT"
<1>4. epoch' = [game |-> GameOf(Evidence), application |-> application, consent |-> consent,
                roster |-> roster, retreating |-> retreat # NoAction]
  BY <1>2 DEF Rebuilt
<1>5. row # NoAction => row \in DOMAIN action
  BY <1>1, LatestIsOpen
<1>6. \A k : UnresolvedIntent(k) # NoAction => UnresolvedIntent(k) \in DOMAIN action
  BY <1>1, UnresolvedIs DEF Ids
<1>7. GameOf(Evidence) \in Game
  <2>1. Evidence \in DOMAIN action
    BY <1>2, <1>5, <1>6 DEF Evidence
  <2> QED BY <1>1, <2>1, Basics DEF GameOf, Row
<1>8. application \in Ids("application") \cup {NoAction}
  BY <1>5 DEF Ids
<1>9. roster # NoAction => roster \in DOMAIN action
  BY <1>5, <1>6
<1>10. consent \in Deliveries
  BY <1>1, <1>9, Basics DEF Row, Deliveries
<1>11. Oldest # NoAction => retreat # NoAction
  BY DEF Oldest
<1>12. epoch' \in Epoch
  <2>1. application \in Action \cup {NoAction} /\ roster \in Action \cup {NoAction}
    BY <1>1, <1>8, <1>9, Basics DEF Ids
  <2>2. (retreat # NoAction) \in BOOLEAN
    OBVIOUS
  <2> HIDE DEF application, consent, roster, retreat
  <2> QED BY <1>4, <1>7, <1>10, <2>1, <2>2 DEF Epoch
<1>13. epoch'.application = application /\ epoch'.retreating = (retreat # NoAction)
  BY <1>4
<1> HIDE DEF application, consent, roster, retreat
<1>14. TypeOK'
  <2> HIDE DEF Row, Record, Epoch, Ended, Commits, Deliveries, Places
  <2> QED BY <1>1, <1>2, <1>12 DEF TypeOK
<1>15. RoomInv'
  BY <1>1, <1>2, <1>3, RoomKept
<1>16. RefereeInv'
  BY <1>1, <1>2, <1>3, RefereeKept
<1>17. ReadInv'
  BY <1>1, <1>2, <1>3, ReadKept
<1>18. WritingIsReady'
  BY <1>1, <1>2, <1>3, WritingKept
<1>19. ActionInv'
  BY <1>1, <1>3, <1>8, <1>13 DEF ActionInv
<1>20. WithdrawalInv'
  <2> SUFFICES ASSUME Oldest # NoAction, action[Oldest].status # "none"
      PROVE /\ epoch' = NoEpoch \/ epoch'.retreating
            /\ \A w \in Doubted : action[w].status # "none" => w = Oldest
            /\ \A r \in PendingRosters : GameOf(r)' = GameOf(Oldest)'
            /\ \A j \in Records("withdraw", Len(room)), i \in Rosters :
                  Id(j) = Oldest /\ GameOf(Id(i))' = GameOf(Oldest)' => ~Out(i)'
    BY <1>2, <1>3 DEF WithdrawalInv, Rosters, Records, Id
  <2>1. epoch'.retreating
    BY <1>11, <1>13
  <2>2. \A r \in PendingRosters : GameOf(r)' = GameOf(Oldest)'
    BY <1>1, <1>2, <1>3 DEF WithdrawalInv, GameOf
  <2>3. \A j \in Records("withdraw", Len(room)), i \in Rosters :
                  Id(j) = Oldest /\ GameOf(Id(i))' = GameOf(Oldest)' => ~Out(i)'
    <3> TAKE j \in Records("withdraw", Len(room)), i \in Rosters
    <3>1. GameOf(Id(i))' = GameOf(Id(i)) /\ GameOf(Oldest)' = GameOf(Oldest)
      BY <1>2, <1>3 DEF GameOf, Id
    <3> QED BY <1>1, <1>2, <1>3, <3>1, OutKept DEF WithdrawalInv
  <2> QED BY <1>1, <2>1, <2>2, <2>3 DEF WithdrawalInv
<1>21. RunInv'
  <2>1. Unprocessed' = Unprocessed
    BY <1>2 DEF Unprocessed
  <2> QED BY <1>1, <1>2, <2>1 DEF RunInv
<1> QED BY <1>14, <1>15, <1>16, <1>17, <1>18, <1>19, <1>20, <1>21 DEF Base, Facts

-----------------------------------------------------------------------------
\* The initial state, and the steps that choose what to do.

LEMMA InitBase == Init => Base
<1> SUFFICES ASSUME Init PROVE Base
  OBVIOUS
<1>1. /\ phase = "DISCOVERY" /\ team = NoGame /\ action = <<>> /\ epoch = NoEpoch /\ ended = {}
      /\ known = 0 /\ done = {} /\ place = "idle" /\ todo = <<>> /\ focus = 0
      /\ room = <<>> /\ judged = 0 /\ standing = {} /\ frozen = {} /\ over = {} /\ crashes = 0
  BY DEF Init, NoAction
<1>2. TypeOK
  <2>1. action \in Seq(Row) /\ room \in Seq(Record) /\ todo \in Seq(Commits)
        /\ Len(action) = 0 /\ Len(room) = 0
    <3> HIDE DEF Row, Record, Commits
    <3> QED BY <1>1
  <2> HIDE DEF Row, Record, Commits
  <2> QED BY <1>1, <2>1, BoundsAssumption DEF TypeOK, Places
<1>3. (\A n : Records(n, Len(room)) = {}) /\ Records("ready", known) = {} /\ Rosters = {}
      /\ Len(room) = 0
  BY <1>1 DEF Records, Rosters
<1>4. (\A k : Ids(k) = {}) /\ Doubted = {} /\ PendingRosters = {}
  BY <1>1 DEF Ids, Doubted, PendingRosters
<1>5. RoomInv
  BY <1>3 DEF RoomInv
<1>6. RefereeInv
  BY <1>1, <1>3 DEF RefereeInv
<1>7. ReadInv
  BY <1>1 DEF ReadInv
<1>8. OldestUnsent
  BY <1>2, <1>4, OldestIsOldest DEF OldestUnsent
<1>9. WithdrawalInv
  BY <1>8 DEF WithdrawalInv, OldestUnsent
<1>10. ActionInv
  BY <1>1, <1>4 DEF ActionInv, NoEpoch
<1>11. RunInv
  BY <1>1 DEF RunInv
<1>12. WritingIsReady
  BY <1>1 DEF WritingIsReady
<1> QED BY <1>2, <1>5, <1>6, <1>7, <1>9, <1>10, <1>11, <1>12 DEF Base, Facts

\* A handler that is free to choose has no withdrawal in doubt that was reserved.
LEMMA FreeUnsent ==
  ASSUME Base, Free
  PROVE  OldestUnsent /\ phase = "DISCOVERY" /\ Unprocessed = {} /\ team = NoGame
<1>1. TypeOK /\ WithdrawalInv /\ RunInv
  BY DEF Base, Facts
<1>2. /\ ~PossiblyConsented /\ ~epoch.retreating /\ team = NoGame
      /\ \/ place = "choosing" /\ todo = <<>>
         \/ place = "deciding" /\ ~BootstrapDue
  BY DEF Free, Choosing, Settled
<1>3. phase = "DISCOVERY" /\ Unprocessed = {}
  BY <1>1, <1>2 DEF RunInv
<1>4. CASE place = "choosing" /\ todo = <<>>
  <2>1. PICK k \in 0 .. 4 : RetreatAt(k)
    BY <1>1, <1>4 DEF RunInv, ChoosingInv
  <2>2. Retreating \in Seq(Commits) /\ Len(Retreating) = 4
    BY Programs
  <2>3. k \in Nat /\ k <= Len(Retreating) /\ Rest(Retreating, k) = <<>>
    BY <1>4, <2>1, <2>2 DEF RetreatAt
  <2>4. k = 4
    BY <2>2, <2>3, Rests
  <2> QED BY <1>2, <1>3, <2>1, <2>4 DEF RetreatAt
<1>5. CASE place = "deciding" /\ ~BootstrapDue
  <2>1. OldestUnsent
    <3> SUFFICES ASSUME Oldest # NoAction, action[Oldest].status # "none" PROVE FALSE
      BY DEF OldestUnsent
    <3>1. epoch = NoEpoch
      BY <1>1, <1>2 DEF WithdrawalInv
    <3> QED BY <1>1, <1>5, <3>1, NothingToRebuild
  <2> QED BY <1>2, <1>3, <2>1
<1> QED BY <1>2, <1>4, <1>5

LEMMA ReconcileSteps ==
  ASSUME Base, ReconcileRetreat
  PROVE  Base'
<1>1. TypeOK /\ RunInv
  BY DEF Base, Facts
<1>2. /\ place = "deciding" /\ Oldest # NoAction /\ GameOf(Oldest) = epoch.game /\ ReadBack(Oldest)
      /\ place' = "choosing" /\ todo' = Retreating /\ focus' = Oldest
      /\ UNCHANGED <<dbVars, readVars, worldVars, crashes>>
  BY DEF ReconcileRetreat, RetreatSeen, Run, Oldest, Retreating
<1>3. phase = "DISCOVERY" /\ Unprocessed = {}
  BY <1>1, <1>2 DEF RunInv
<1>4. Oldest \in Ids("withdraw") /\ Oldest \in Action
  BY <1>1, <1>2, OldestIsOldest, Basics DEF Doubted, Ids
<1>5. Retreating \in Seq(Commits)
  BY Programs
<1>6. place' \in Places /\ todo' \in Seq(Commits) /\ focus' \in 0 .. MaxActions
      /\ crashes' \in 0 .. MaxCrashes
  <2>1. Oldest \in 0 .. MaxActions
    BY <1>4, BoundsAssumption DEF Action
  <2>2. crashes' \in 0 .. MaxCrashes
    BY <1>1, <1>2 DEF TypeOK
  <2> QED BY <1>2, <1>5, <2>1, <2>2 DEF Places
<1>7. /\ Facts' /\ Unprocessed' = Unprocessed
      /\ UNCHANGED <<phase, action, epoch, known, room, Oldest>>
      /\ \A k : Ids(k)' = Ids(k)
  BY <1>2, <1>6, RunChanges
<1>8. RetreatAt(0)'
  <2>1. todo' = Rest(Retreating, 0)
    BY <1>2, <1>5, WholeProgram
  <2>2. SeenOldest'
    <3>1. ReadBack(focus)'
      BY <1>2, <1>7 DEF ReadBack, Records
    <3> QED BY <1>2, <1>4, <1>7, <3>1 DEF SeenOldest
  <2>3. GameOf(focus)' = epoch'.game
    BY <1>2, <1>7 DEF GameOf
  <2> QED BY <2>1, <2>2, <2>3 DEF RetreatAt
<1>9. ChoosingInv'
  BY <1>8 DEF ChoosingInv
<1>10. RunInv'
  BY <1>2, <1>3, <1>7, <1>9 DEF RunInv
<1> QED BY <1>7, <1>10 DEF Base

\* A handler that ends its cycle with a program to make.
LEMMA Returning ==
  ASSUME Base, Facts', UNCHANGED <<known, done, room>>, place' = "returning", phase # "WRITING",
         phase' = phase, Unprocessed = {},
         SignInv' \/ GiveUpInv' \/ LeaveInv' \/ FleeInv' \/ DoubtInv'
  PROVE  Base'
<1>1. Unprocessed' = {}
  BY DEF Unprocessed
<1>2. RunInv'
  BY <1>1 DEF RunInv
<1> QED BY <1>2 DEF Base

LEMMA GiveUpSteps ==
  ASSUME Base, GiveUp
  PROVE  Base'
<1>1. TypeOK /\ ActionInv
  BY DEF Base, Facts
<1>2. /\ place' = "returning" /\ todo' = GivingUp /\ focus' = epoch.application
      /\ UNCHANGED <<dbVars, readVars, worldVars, crashes>>
      /\ ~PossiblyConsented /\ Free /\ epoch # NoEpoch
  BY DEF GiveUp, Free, Run, GivingUp
<1>3. phase = "DISCOVERY" /\ Unprocessed = {}
  BY <1>2, FreeUnsent
<1>4. epoch.application = NoAction \/ epoch.application \in Ids("application")
  BY <1>1 DEF ActionInv
<1>5. GivingUp \in Seq(Commits)
  BY Programs
<1>6. place' \in Places /\ todo' \in Seq(Commits) /\ focus' \in 0 .. MaxActions
      /\ crashes' \in 0 .. MaxCrashes
  <2>1. epoch.application \in 0 .. MaxActions
    <3>1. epoch.application \in Action \cup {NoAction}
      BY <1>1, <1>2 DEF TypeOK, Epoch
    <3> QED BY <3>1, BoundsAssumption DEF Action, NoAction
  <2>2. crashes' \in 0 .. MaxCrashes
    BY <1>1, <1>2 DEF TypeOK
  <2> QED BY <1>2, <1>5, <2>1, <2>2 DEF Places
<1>7. /\ Facts' /\ UNCHANGED <<phase, epoch, known, room, done>> /\ \A k : Ids(k)' = Ids(k)
  BY <1>2, <1>6, RunChanges
<1>8. GiveUpAt(0)'
  <2>1. todo' = Rest(GivingUp, 0)
    BY <1>2, <1>5, WholeProgram
  <2>2. ~PossiblyConsented'
    BY <1>2, <1>7 DEF PossiblyConsented
  <2> QED BY <1>2, <1>4, <1>7, <2>1, <2>2 DEF GiveUpAt
<1>9. GiveUpInv'
  BY <1>8 DEF GiveUpInv
<1> QED BY <1>2, <1>3, <1>7, <1>9, Returning

LEMMA ApplySteps ==
  ASSUME Base, NEW g \in Game, Apply(g)
  PROVE  Base'
<1>1. TypeOK /\ RoomInv /\ RefereeInv /\ ReadInv /\ WithdrawalInv /\ ActionInv /\ WritingIsReady
  BY DEF Base, Facts
<1> DEFINE x == [kind |-> "application", game |-> g, delivery |-> "CONFIRMED", status |-> "pending"]
<1>2. /\ Free /\ Len(action) < MaxActions /\ action' = Append(action, x)
      /\ epoch' = [NoEpoch EXCEPT !.game = g, !.application = Len(action')]
      /\ place' = "idle" /\ todo' = <<>> /\ focus' = 0
      /\ UNCHANGED <<phase, team, ended, known, done, room, judged, standing, frozen, over,
                     refereeVars, crashes>>
  BY DEF Apply, EndCycle, Run, NoAction, readVars, worldVars, refereeVars
<1>3. x \in Row /\ x.kind = "application"
  BY DEF Row, Kinds, Deliveries, Statuses
<1> HIDE DEF x
<1>4. /\ RowsStand /\ action' \in Seq(Row) /\ Len(action') <= MaxActions /\ Len(action') \in Action
      /\ Len(action') \in Ids("application")' /\ PendingRosters' = PendingRosters
      /\ Oldest' = Oldest /\ \A a \in DOMAIN action : action'[a] = action[a]
  <2>1. \E n : n = Len(action') /\ n \in Ids("application")'
    <3>1. \A k : Ids(k)' = IF k = x.kind THEN Ids(k) \cup {Len(action')} ELSE Ids(k)
      BY <1>1, <1>2, <1>3, RowEffect
    <3> QED BY <1>3, <3>1
  <2> QED BY <1>1, <1>2, <1>3, <2>1, RowEffect
<1>5. epoch' \in Epoch /\ epoch'.application = Len(action')
  BY <1>2, <1>4 DEF NoEpoch, Epoch, Deliveries
<1>6. TypeOK'
  <2>1. todo' \in Seq(Commits) /\ place' \in Places /\ focus' \in 0 .. MaxActions
    BY <1>2, BoundsAssumption DEF Places
  <2> HIDE DEF Row, Record, Epoch, Ended, Commits, Deliveries, Places
  <2> QED BY <1>1, <1>2, <1>4, <1>5, <2>1 DEF TypeOK
<1>7. RoomInv'
  BY <1>1, <1>2, <1>4, RoomKept
<1>8. RefereeInv'
  BY <1>1, <1>2, <1>4, RefereeKept
<1>9. ReadInv'
  BY <1>1, <1>2, <1>4, ReadKept
<1>10. OldestUnsent'
  BY <1>1, <1>2, <1>4, FreeUnsent, OldestIsOldest DEF OldestUnsent
<1>11. WithdrawalInv'
  BY <1>10, WithdrawalUnsent
<1>12. ActionInv'
  BY <1>1, <1>4, <1>5 DEF ActionInv
<1>13. WritingIsReady'
  BY <1>1, <1>2, <1>4, WritingKept
<1>14. RunInv'
  BY <1>2 DEF RunInv
<1> QED BY <1>6, <1>7, <1>8, <1>9, <1>11, <1>12, <1>13, <1>14 DEF Base, Facts

LEMMA CountersignSteps ==
  ASSUME Base, NEW g \in Game, Countersign(g)
  PROVE  Base'
<1>1. TypeOK /\ RoomInv /\ RefereeInv /\ ReadInv /\ WithdrawalInv /\ ActionInv
  BY DEF Base, Facts
<1>2. /\ Free /\ MayCountersign(g) /\ Len(action) < MaxActions /\ team' = g
      /\ place' = "returning" /\ todo' = Signing /\ focus' = 0
      /\ UNCHANGED <<phase, action, epoch, ended, known, done, room, judged, standing, frozen, over,
                     refereeVars, crashes>>
  BY DEF Countersign, Run, NoAction, Signing, readVars, worldVars, refereeVars
<1>3. phase = "DISCOVERY" /\ Unprocessed = {} /\ OldestUnsent
  BY <1>2, FreeUnsent
<1>4. RowsStand /\ UNCHANGED <<Oldest, Doubted, PendingRosters, Ids("application")>>
  BY <1>1, <1>2, RowsSame
<1>5. Signing \in Seq(Commits)
  BY Programs
<1>6. TypeOK'
  <2>1. todo' \in Seq(Commits) /\ place' \in Places /\ focus' \in 0 .. MaxActions
    BY <1>2, <1>5, BoundsAssumption DEF Places
  <2> HIDE DEF Row, Record, Epoch, Ended, Commits, Deliveries, Places
  <2> QED BY <1>1, <1>2, <2>1 DEF TypeOK
<1>7. RoomInv'
  BY <1>1, <1>2, <1>4, RoomKept
<1>8. RefereeInv'
  BY <1>1, <1>2, <1>4, RefereeKept
<1>9. ReadInv'
  BY <1>1, <1>2, <1>4, ReadKept
<1>10. OldestUnsent'
  BY <1>2, <1>3, <1>4 DEF OldestUnsent
<1>11. WithdrawalInv'
  BY <1>10, WithdrawalUnsent
<1>12. ActionInv'
  BY <1>1, <1>2, <1>4, ActionKept
<1>13. WritingIsReady'
  BY <1>2, <1>3 DEF WritingIsReady
<1>14. SignAt(0)'
  <2>1. todo' = Rest(Signing, 0)
    BY <1>2, <1>5, WholeProgram
  <2>2. EpochFits'
    <3>1. epoch.game = g \/ (epoch = NoEpoch /\ PeersComplete(g))
      BY <1>2 DEF MayCountersign
    <3>2. PeersComplete(g)' = PeersComplete(g)
      BY <1>2 DEF PeersComplete, Records
    <3> QED BY <1>2, <3>1, <3>2 DEF EpochFits, PeersComplete, Records
  <2>3. PendingRosters' = {}
    <3>1. Pending("roster") = NoAction
      BY <1>2 DEF MayCountersign
    <3> QED BY <1>1, <1>4, <3>1, PendingIsPending DEF PendingRosters
  <2> QED BY <1>2, <1>3, <1>10, <2>1, <2>2, <2>3 DEF SignAt
<1>15. SignInv'
  BY <1>14 DEF SignInv
<1>16. Facts'
  BY <1>6, <1>7, <1>8, <1>9, <1>11, <1>12, <1>13 DEF Facts
<1> QED BY <1>2, <1>3, <1>15, <1>16, Returning

-----------------------------------------------------------------------------
\* The steps of a daemon that waits.

\* Only what runs changes: the handler has a program to make, about an action.
LEMMA StartsReturning ==
  ASSUME Base, UNCHANGED <<dbVars, readVars, worldVars, crashes>>, place = "waiting", todo = <<>>,
         place' = "returning", todo' \in Seq(Commits), focus' \in DOMAIN action \cup {NoAction},
         SignInv' \/ GiveUpInv' \/ LeaveInv' \/ FleeInv' \/ DoubtInv'
  PROVE  Base'
<1>1. TypeOK /\ RunInv
  BY DEF Base, Facts
<1>2. phase # "WRITING" /\ Unprocessed = {}
  BY <1>1 DEF RunInv
<1>3. focus' \in 0 .. MaxActions
  <2>1. focus' \in Action \cup {NoAction}
    BY <1>1, Basics
  <2> QED BY <2>1, BoundsAssumption DEF Action, NoAction
<1>4. place' \in Places /\ crashes' \in 0 .. MaxCrashes
  BY <1>1 DEF TypeOK, Places
<1>5. Facts' /\ UNCHANGED <<phase, known, room, done>>
  BY <1>3, <1>4, RunChanges
<1> QED BY <1>2, <1>5, Returning

\* What runs leaves what is known of the rows and the room alone.
LEMMA RunLeaves ==
  ASSUME UNCHANGED <<dbVars, readVars, worldVars>>
  PROVE  /\ UNCHANGED <<phase, team, action, epoch, known, room, done>>
         /\ UNCHANGED <<Oldest, Doubted, PendingRosters, OldestUnsent>>
         /\ \A k : Ids(k)' = Ids(k)
         /\ \A a : GameOf(a)' = GameOf(a)
<1>1. UNCHANGED <<phase, team, action, epoch, known, room, done>>
  BY DEF dbVars, readVars, worldVars
<1>2. (\A k : Ids(k)' = Ids(k)) /\ Doubted' = Doubted /\ PendingRosters' = PendingRosters
  BY <1>1 DEF Ids, Doubted, PendingRosters
<1>3. Oldest' = Oldest
  <2>1. UnresolvedIntent("withdraw")' = UnresolvedIntent("withdraw")
    BY <1>1 DEF UnresolvedIntent, Ids
  <2> QED BY <2>1 DEF Oldest
<1>4. OldestUnsent' = OldestUnsent
  BY <1>1, <1>3 DEF OldestUnsent
<1>5. \A a : GameOf(a)' = GameOf(a)
  BY <1>1 DEF GameOf
<1> QED BY <1>1, <1>2, <1>3, <1>4, <1>5

LEMMA RetreatConfirmedSteps ==
  ASSUME Base, NEW r, RetreatConfirmed(r)
  PROVE  Base'
<1>1. TypeOK
  BY DEF Base, Facts
<1>2. /\ place = "waiting" /\ todo = <<>> /\ RetreatOf(r) # NoAction /\ ReadBack(RetreatOf(r))
      /\ place' = "returning" /\ todo' = Leaving /\ focus' = RetreatOf(r)
      /\ UNCHANGED <<dbVars, readVars, worldVars, crashes>>
  BY DEF RetreatConfirmed, Waiting, Settled, Run, Leaving
<1>3. RetreatOf(r) = Oldest /\ Oldest \in Ids("withdraw") /\ Oldest \in DOMAIN action
  BY <1>1, <1>2, UnresolvedIs DEF RetreatOf, Oldest, Ids
<1>4. Leaving \in Seq(Commits)
  BY Programs
<1>5. UNCHANGED <<action, known, room, Oldest>> /\ \A k : Ids(k)' = Ids(k)
  BY <1>2, RunLeaves
<1>6. LeaveAt(0)'
  <2>1. todo' = Rest(Leaving, 0)
    BY <1>2, <1>4, WholeProgram
  <2>2. ReadBack(focus)'
    BY <1>2, <1>5 DEF ReadBack, Records
  <2>3. SeenOldest'
    BY <1>2, <1>3, <1>5, <2>2 DEF SeenOldest
  <2> QED BY <2>1, <2>3 DEF LeaveAt
<1>7. LeaveInv'
  BY <1>6 DEF LeaveInv
<1> QED BY <1>2, <1>3, <1>4, <1>7, StartsReturning

LEMMA ConsentDoubtedSteps ==
  ASSUME Base, NEW r \in Ids("roster"), ConsentDoubted(r)
  PROVE  Base'
<1>1. /\ place = "waiting" /\ todo = <<>>
      /\ place' = "returning" /\ todo' = Doubting /\ focus' = r
      /\ UNCHANGED <<dbVars, readVars, worldVars, crashes>>
  BY DEF ConsentDoubted, Waiting, Settled, Run, Doubting
<1>2. Doubting \in Seq(Commits)
  BY Programs
<1>3. r \in DOMAIN action
  BY DEF Ids
<1>4. \A k : Ids(k)' = Ids(k)
  BY <1>1, RunLeaves
<1>5. DoubtAt(0)'
  <2>1. todo' = Rest(Doubting, 0)
    BY <1>1, <1>2, WholeProgram
  <2> QED BY <1>1, <1>4, <2>1 DEF DoubtAt
<1>6. DoubtInv'
  BY <1>5 DEF DoubtInv
<1> QED BY <1>1, <1>2, <1>3, <1>6, StartsReturning

LEMMA ConsentConfirmedSteps ==
  ASSUME Base, NEW r \in Ids("roster"), ConsentConfirmed(r)
  PROVE  Base'
<1>1. TypeOK /\ RunInv
  BY DEF Base, Facts
<1>2. /\ place = "waiting" /\ todo = <<>>
      /\ place' = "waiting" /\ todo' = Confirming /\ focus' = r
      /\ UNCHANGED <<dbVars, readVars, worldVars, crashes>>
  BY DEF ConsentConfirmed, Waiting, Settled, Run, Confirming
<1>3. phase = "WAIT_ROSTER_READY" /\ Unprocessed = {}
  BY <1>1, <1>2 DEF RunInv
<1>4. Confirming \in Seq(Commits)
  BY Programs
<1>5. place' \in Places /\ focus' \in 0 .. MaxActions /\ crashes' \in 0 .. MaxCrashes
  <2>1. r \in Action
    BY <1>1, Basics DEF Ids
  <2>2. r \in 0 .. MaxActions
    BY <2>1, BoundsAssumption DEF Action
  <2> QED BY <1>1, <1>2, <2>2 DEF TypeOK, Places
<1>6. /\ Facts' /\ Unprocessed' = {} /\ phase' = phase /\ \A k : Ids(k)' = Ids(k)
  BY <1>2, <1>3, <1>4, <1>5, RunChanges
<1>7. ConfirmAt(0)'
  <2>1. todo' = Rest(Confirming, 0)
    BY <1>2, <1>4, WholeProgram
  <2> QED BY <1>2, <1>6, <2>1 DEF ConfirmAt
<1>8. ConfirmInv'
  BY <1>7 DEF ConfirmInv
<1>9. RunInv'
  BY <1>2, <1>3, <1>6, <1>8 DEF RunInv
<1> QED BY <1>6, <1>9 DEF Base

\* A withdrawal that is pending is posted again, as if it had just been reserved.
LEMMA PostingAgain ==
  ASSUME NEW t, t = <<"post", "posted">>
  PROVE  t = Rest(Fleeing, 3) /\ t \in Seq(Commits)
<1>1. t \in Seq(Commits) /\ Len(t) = 2 /\ t[1] = "post" /\ t[2] = "posted"
  BY DEF Commits
<1>2. Fleeing \in Seq(Commits) /\ Len(Fleeing) = 5
  BY Programs
<1>3. /\ Rest(Fleeing, 3) \in Seq(Commits) /\ Len(Rest(Fleeing, 3)) = 2
      /\ \A j \in 1 .. 2 : Rest(Fleeing, 3)[j] = Fleeing[3 + j]
  <2>1. 3 \in Nat /\ 3 <= Len(Fleeing)
    BY <1>2
  <2>2. /\ Rest(Fleeing, 3) \in Seq(Commits) /\ Len(Rest(Fleeing, 3)) = Len(Fleeing) - 3
        /\ \A j \in 1 .. Len(Fleeing) - 3 : Rest(Fleeing, 3)[j] = Fleeing[3 + j]
    BY <1>2, <2>1, Rests
  <2> QED BY <1>2, <2>2
<1>4. Fleeing[4] = "post" /\ Fleeing[5] = "posted"
  BY ProgramSteps
<1>5. \A j \in 1 .. 2 : t[j] = Rest(Fleeing, 3)[j]
  <2>1. Rest(Fleeing, 3)[1] = Fleeing[4] /\ Rest(Fleeing, 3)[2] = Fleeing[5]
    BY <1>3
  <2> QED BY <1>1, <1>4, <2>1
<1>6. t = Rest(Fleeing, 3)
  BY <1>1, <1>3, <1>5, SeqEqual
<1> QED BY <1>1, <1>6

LEMMA SafeWithdrawSteps ==
  ASSUME Base, NEW r \in Ids("roster"), SafeWithdraw(r)
  PROVE  Base'
<1>1. TypeOK /\ WithdrawalInv /\ ActionInv
  BY DEF Base, Facts
<1>2. /\ place = "waiting" /\ todo = <<>> /\ place' = "returning"
      /\ ~BootstrapDue /\ r = Pending("roster") /\ team = GameOf(r) /\ RetreatOf(r) = NoAction
      /\ UNCHANGED <<dbVars, readVars, worldVars, crashes>>
      /\ \/ /\ Len(action) < MaxActions /\ todo' = Fleeing /\ focus' = NoAction
         \/ /\ Pending("withdraw") # NoAction
            /\ todo' = <<"post", "posted">> /\ focus' = Pending("withdraw")
  BY DEF SafeWithdraw, Waiting, Settled, Run, Fleeing
<1>3. /\ UNCHANGED <<team, epoch, action, PendingRosters, OldestUnsent>>
      /\ (\A k : Ids(k)' = Ids(k)) /\ \A a : GameOf(a)' = GameOf(a)
  BY <1>2, RunLeaves
<1>4. CASE Len(action) < MaxActions /\ todo' = Fleeing /\ focus' = NoAction
  <2>1. Fleeing \in Seq(Commits)
    BY Programs
  <2>2. r \in PendingRosters /\ r \in DOMAIN action /\ 0 \notin Ids("roster")
    <3>1. r # NoAction
      BY <1>1, Basics DEF Ids, NoAction
    <3>2. action[r].status = "pending"
      BY <1>1, <1>2, <3>1, PendingIsPending
    <3> QED BY <1>1, <3>2, Basics DEF PendingRosters, Ids
  <2>3. epoch # NoEpoch
    BY <1>1, <1>2, <2>2, NothingToRebuild
  <2>4. team \in Game
    BY <1>1, <1>2, <2>2, Basics DEF GameOf, Row
  <2>5. OldestUnsent
    <3> SUFFICES ASSUME Oldest # NoAction, action[Oldest].status # "none" PROVE FALSE
      BY DEF OldestUnsent
    <3>1. GameOf(r) = GameOf(Oldest)
      BY <1>1, <2>2 DEF WithdrawalInv
    <3>2. RetreatOf(r) = Oldest
      BY <3>1 DEF RetreatOf, Oldest
    <3> QED BY <1>2, <3>2
  <2>6. \A s \in PendingRosters : GameOf(s) = team
    BY <1>1, <1>2, <2>2 DEF ActionInv
  <2>7. FleeAt(0)'
    <3>1. todo' = Rest(Fleeing, 0)
      BY <1>4, <2>1, WholeProgram
    <3>2. team' \in Game /\ epoch' # NoEpoch /\ OldestUnsent'
      BY <1>3, <2>3, <2>4, <2>5
    <3>3. \A s \in PendingRosters' : GameOf(s)' = team'
      BY <1>3, <2>6
    <3>4. Len(action') < MaxActions
      BY <1>3, <1>4
    <3> QED BY <3>1, <3>2, <3>3, <3>4 DEF FleeAt
  <2>8. FleeInv'
    BY <2>7 DEF FleeInv
  <2> QED BY <1>2, <1>4, <2>1, <2>8, StartsReturning
<1>5. CASE /\ Pending("withdraw") # NoAction
           /\ todo' = <<"post", "posted">> /\ focus' = Pending("withdraw")
  <2>1. todo' = Rest(Fleeing, 3) /\ todo' \in Seq(Commits)
    <3> DEFINE t == todo'
    <3>1. t = <<"post", "posted">>
      BY <1>5
    <3> QED BY <3>1, PostingAgain
  <2>2. focus' \in Ids("withdraw") /\ action[focus'].status = "pending"
    BY <1>1, <1>5, PendingIsPending
  <2>3. FleeAt(3)'
    <3>1. SentWithdrawal'
      BY <1>3, <2>2 DEF SentWithdrawal
    <3> QED BY <2>1, <3>1 DEF FleeAt
  <2>4. FleeInv'
    BY <2>3 DEF FleeInv
  <2>5. focus' \in DOMAIN action
    BY <2>2 DEF Ids
  <2> QED BY <1>2, <2>1, <2>4, <2>5, StartsReturning
<1> QED BY <1>2, <1>4, <1>5

-----------------------------------------------------------------------------
\* Every step.

LEMMA CycleEndsSteps == ASSUME Base, CycleEnds PROVE Base'
<1>1. EndCycle /\ UNCHANGED <<dbVars, readVars, worldVars, crashes>>
  BY DEF CycleEnds
<1>2. crashes' \in 0 .. MaxCrashes
  BY <1>1 DEF Base, Facts, TypeOK
<1> QED BY <1>1, <1>2, EndOfCycle

LEMMA CrashSteps == ASSUME Base, Crash PROVE Base'
<1>1. EndCycle /\ UNCHANGED <<dbVars, readVars, worldVars>>
      /\ crashes < MaxCrashes /\ crashes' = crashes + 1
  BY DEF Crash
<1>2. crashes' \in 0 .. MaxCrashes
  BY <1>1, BoundsAssumption DEF Base, Facts, TypeOK
<1> QED BY <1>1, <1>2, EndOfCycle

LEMMA Stutters == ASSUME Base, UNCHANGED vars PROVE Base'
<1>1. UNCHANGED <<dbVars, readVars, runVars, worldVars, crashes>>
  BY DEF vars
<1>2. place' = place /\ todo' = todo /\ focus' = focus
  BY <1>1 DEF runVars
<1>3. Facts'
  <2>1. place' \in Places /\ todo' \in Seq(Commits) /\ focus' \in 0 .. MaxActions
        /\ crashes' \in 0 .. MaxCrashes
    BY <1>1, <1>2 DEF Base, Facts, TypeOK
  <2> QED BY <1>1, <2>1, RunChanges
<1>4. RunInv'
  <2>1. room' = room
    BY <1>1 DEF worldVars
  <2>2. ~Sent(focus) => ~Sent(focus)'
    BY <1>2, <2>1 DEF Sent, Id
  <2> QED BY <1>1, <2>1, <2>2, RunGrown
<1> QED BY <1>3, <1>4 DEF Base

LEMMA BaseSteps == ASSUME Base, [Next]_vars PROVE Base'
<1>1. CASE UNCHANGED vars
  BY <1>1, Stutters
<1>2. CASE Crash
  BY <1>2, CrashSteps
<1>3. CASE World
  BY <1>3, RefereeSteps, OverSteps, PeersSteps DEF World
<1>4. CASE Daemon
  <2>1. ASSUME NEW upTo \in 0 .. Len(room), Read(upTo) PROVE Base'
    BY <2>1, ReadSteps
  <2>2. ASSUME NEW i \in 1 .. known, Handle(i) PROVE Base'
    BY <2>2, HandleSteps
  <2>3. ASSUME NEW g \in Game, Apply(g) PROVE Base'
    BY <2>3, ApplySteps
  <2>4. ASSUME NEW g \in Game, Countersign(g) PROVE Base'
    BY <2>4, CountersignSteps
  <2>5. ASSUME NEW r \in Ids("roster"), RetreatConfirmed(r) PROVE Base'
    BY <2>5, RetreatConfirmedSteps
  <2>6. ASSUME NEW r \in Ids("roster"), ConsentConfirmed(r) PROVE Base'
    BY <2>6, ConsentConfirmedSteps
  <2>7. ASSUME NEW r \in Ids("roster"), ConsentDoubted(r) PROVE Base'
    BY <2>7, ConsentDoubtedSteps
  <2>8. ASSUME NEW r \in Ids("roster"), SafeWithdraw(r) PROVE Base'
    BY <2>8, SafeWithdrawSteps
  <2> QED
    BY <1>4, <2>1, <2>2, <2>3, <2>4, <2>5, <2>6, <2>7, <2>8, ReceiptsDoneSteps, BootstrapSteps,
       ReconcileSteps, GiveUpSteps, CycleEndsSteps, TransactionSteps DEF Daemon
<1> QED BY <1>1, <1>2, <1>3, <1>4 DEF Next

LEMMA AlwaysBase == Spec => []Base
<1>1. Init => Base
  BY InitBase
<1>2. Base /\ [Next]_vars => Base'
  BY BaseSteps
<1> QED BY <1>1, <1>2, PTL DEF Spec

\* No step, crash or lost answer leaves a value that the daemon could not read back:
\* every variable keeps to its set.
THEOREM TypeCorrect == Spec => []TypeOK
<1>1. Base => TypeOK
  BY DEF Base, Facts
<1> QED BY <1>1, AlwaysBase, PTL

\* The daemon reserves the request of a roster or a withdrawal before it posts it, in
\* every interleaving of its transactions with the room's and after every crash: a
\* receipt always finds the request it is for.
THEOREM SentOnRecord == Spec => []SentIsOnRecord
<1>1. ASSUME Base PROVE SentIsOnRecord
  <2>1. RoomInv
    BY <1>1 DEF Base, Facts
  <2> QED BY <2>1 DEF RoomInv, SentIsOnRecord, Records, Kinds, Id
<1> QED BY <1>1, AlwaysBase, PTL

\* The phase is WRITING with a team only when a receipt already read says that a consent
\* of Saruku's has made that team ready.
THEOREM WritesWhenReady == Spec => []WritingIsReady
<1>1. Base => WritingIsReady
  BY DEF Base, Facts
<1> QED BY <1>1, AlwaysBase, PTL

-----------------------------------------------------------------------------
\* The consents that are out.  The rest of the invariant holds until a withdrawal is outrun.

ReadyKnown(r) == \E q \in Records("ready", known) : Id(q) = r
WritesFor(r) == phase = "WRITING" /\ team = GameOf(r)
Unhandled(r) == \E q \in Unprocessed : Id(q) = r

\* What keeps Saruku from another consent while that of roster r is out: it is pending, a
\* receipt for it is to be handled, its epoch says it may have been sent, or it has won.
Held(r) ==
    /\ \A s \in PendingRosters : s = r
    /\ \/ r \in PendingRosters
       \/ Unhandled(r)
       \/ Protects(r)
       \/ WritesFor(r) /\ ReadyKnown(r)
    /\ \A q \in Records("ready", Len(room)) : q \notin done => Id(q) = r
    /\ \A q \in Records("ready", known) : Id(q) = r => q \in Unprocessed \/ WritesFor(r)

\* The epoch protects it until it is known to be ready, unless the peers were there before
\* it: then the referee says ready at once, and never that it was merely noted.
Backed(i) ==
    \/ \E p \in Records("peers", i) : Id(p) = GameOf(Id(i))
    \/ Protects(Id(i))
    \/ ReadyKnown(Id(i))

NoneOut == \A i \in Rosters : ~Out(i)
OnlyLastOut == \A i, j \in Rosters : i < j => ~Out(i)
OutIsHeld == \A i \in Rosters : Out(i) => Held(Id(i)) /\ Backed(i)

\* The programs that begin with nothing out, as long as they have more to do than to say
\* where to go on; one that sees a withdrawal leaves no epoch that protects a consent.
Ends(c) == todo # <<>> /\ todo[Len(todo)] = c
SigningFree == place = "returning" /\ Ends("wait") /\ Len(todo) > 1 => NoneOut
LeavingFree == place = "returning" /\ Ends("discover") /\ Len(todo) > 2 => NoneOut
RetreatingFree ==
    place = "choosing" /\ Len(todo) > 1 => \A i \in Rosters : Out(i) => ~Protects(Id(i))

HeldInv == OnlyLastOut /\ OutIsHeld /\ SigningFree /\ LeavingFree /\ RetreatingFree

LEMMA AppendedRecord ==
  ASSUME TypeOK, TypeOK', NEW x, room' = Append(room, x)
  PROVE  x \in Record /\ Len(room) < MaxRoom
<1> HIDE DEF Record
<1>1. room \in Seq(Record) /\ room' \in Seq(Record) /\ Len(room') <= MaxRoom
  BY DEF TypeOK
<1>2. Len(room') = Len(room) + 1 /\ room'[Len(room) + 1] = x /\ Len(room) \in Nat
  BY <1>1
<1>3. Len(room) + 1 \in 1 .. Len(room')
  BY <1>2
<1>4. room'[Len(room) + 1] \in Record
  BY <1>1, <1>3
<1>5. Len(room) < MaxRoom
  BY <1>1, <1>2, BoundsAssumption
<1> QED BY <1>2, <1>4, <1>5

-----------------------------------------------------------------------------
\* What stays out, and what is outrun, while the room grows.

LEMMA OutrunStays ==
  ASSUME TypeOK, RoomInv, RowsStand, room' = room, Outrun
  PROVE  Outrun'
<1>1. PICK i \in Records("roster", Len(room)), w \in Records("withdraw", Len(room)),
           q \in Records("ready", Len(room)) :
         i < w /\ GameOf(room[i].id) = GameOf(room[w].id) /\ room[q].id = room[i].id
  BY DEF Outrun
<1>2. /\ i \in 1 .. Len(room) /\ room[i].kind # "peers"
      /\ w \in 1 .. Len(room) /\ room[w].kind # "peers"
  BY <1>1 DEF Records
<1>3. GameOf(room[i].id)' = GameOf(room[i].id) /\ GameOf(room[w].id)' = GameOf(room[w].id)
  BY <1>2, GamesStand DEF GameOf, Id
<1>4. \A k : Records(k, Len(room))' = Records(k, Len(room))
  BY DEF Records
<1>5. GameOf(room[i].id)' = GameOf(room[w].id)'
  BY <1>1, <1>3
<1> QED BY <1>1, <1>4, <1>5 DEF Outrun

LEMMA OutrunGrown ==
  ASSUME TypeOK, NEW x \in Record, Len(room) < MaxRoom, room' = Append(room, x),
         action' = action, Outrun
  PROVE  Outrun'
<1>1. PICK i \in Records("roster", Len(room)), w \in Records("withdraw", Len(room)),
           q \in Records("ready", Len(room)) :
         i < w /\ GameOf(room[i].id) = GameOf(room[w].id) /\ room[q].id = room[i].id
  BY DEF Outrun
<1>2. /\ i \in Records("roster", Len(room))' /\ w \in Records("withdraw", Len(room))'
      /\ q \in Records("ready", Len(room))'
  BY Grown
<1>3. room'[i] = room[i] /\ room'[w] = room[w] /\ room'[q] = room[q]
  BY Grown DEF Records
<1>4. GameOf(room[i].id)' = GameOf(room[w].id)'
  BY <1>1, <1>3 DEF GameOf
<1> QED BY <1>1, <1>2, <1>3, <1>4 DEF Outrun

\* A step leaves the room as it is, or adds one record and changes no row.
LEMMA StepShape ==
  ASSUME Base, [Next]_vars
  PROVE  /\ RowsStand
         /\ room' = room \/ (action' = action /\ \E x : room' = Append(room, x))
<1>1. TypeOK
  BY DEF Base, Facts
<1>2. action' = action => RowsStand
  BY <1>1, RowsSame
<1>3. CASE UNCHANGED vars
  BY <1>2, <1>3 DEF vars, dbVars, worldVars
<1>4. CASE Crash
  BY <1>2, <1>4 DEF Crash, dbVars, worldVars
<1>5. CASE World
  <2>1. CASE RefereeJudges
    <3>1. action' = action
      BY <2>1 DEF RefereeJudges, dbVars
    <3>2. room' = room \/ \E x : room' = Append(room, x)
      BY <2>1 DEF RefereeJudges, JudgeRoster, JudgeWithdrawal, JudgePeers, Answer
    <3> QED BY <1>2, <3>1, <3>2
  <2>2. CASE GameOver
    BY <1>2, <2>2 DEF GameOver
  <2>3. CASE \E g \in Game : PeersSign(g)
    BY <1>2, <2>3 DEF PeersSign, dbVars
  <2> QED BY <1>5, <2>1, <2>2, <2>3 DEF World
<1>6. CASE Transaction
  <2> DEFINE c == Head(todo)
  <2>1. RowsStand
    BY <1>6, TransactionRows
  <2>2. CASE c # "post"
    BY <1>6, <2>1, <2>2, TransactionFrame
  <2>3. CASE c = "post"
    <3>1. CommitPost
      BY <1>6, <2>3, TransactionIs
    <3> QED BY <2>1, <3>1 DEF CommitPost, dbVars
  <2> QED BY <2>2, <2>3
<1>7. ASSUME NEW g \in Game, Apply(g)
      PROVE  RowsStand /\ room' = room
  <2> DEFINE x == [kind |-> "application", game |-> g, delivery |-> "CONFIRMED", status |-> "pending"]
  <2>1. Len(action) < MaxActions /\ action' = Append(action, x) /\ room' = room
    BY <1>7 DEF Apply, worldVars
  <2>2. x \in Row
    BY DEF Row, Kinds, Deliveries, Statuses
  <2> HIDE DEF x
  <2> QED BY <1>1, <2>1, <2>2, RowEffect
<1>8. CASE Daemon /\ ~Transaction /\ ~\E g \in Game : Apply(g)
  <2>1. action' = action /\ room' = room
    BY <1>8 DEF Daemon, Read, Handle, ReceiptsDone, Bootstrap, ReconcileRetreat, GiveUp, CycleEnds,
                Countersign, RetreatConfirmed, ConsentConfirmed, ConsentDoubted, SafeWithdraw,
                dbVars, worldVars
  <2> QED BY <1>2, <2>1
<1> QED BY <1>3, <1>4, <1>5, <1>6, <1>7, <1>8 DEF Next, Daemon

LEMMA OutrunSteps ==
  ASSUME Base, Base', [Next]_vars, Outrun
  PROVE  Outrun'
<1>1. TypeOK /\ RoomInv /\ TypeOK'
  BY DEF Base, Facts
<1>2. CASE room' = room
  BY <1>1, <1>2, StepShape, OutrunStays
<1>3. CASE action' = action /\ \E x : room' = Append(room, x)
  <2>1. PICK x : room' = Append(room, x)
    BY <1>3
  <2>2. x \in Record /\ Len(room) < MaxRoom
    BY <1>1, <2>1, AppendedRecord
  <2> QED BY <1>1, <1>3, <2>1, <2>2, OutrunGrown
<1> QED BY <1>2, <1>3, StepShape

-----------------------------------------------------------------------------
\* What a step does to the consents that are out.

LEMMA NothingOut == ASSUME NoneOut PROVE HeldInv
  BY DEF NoneOut, HeldInv, OnlyLastOut, OutIsHeld, SigningFree, LeavingFree, RetreatingFree

LEMMA NoneOutKept ==
  ASSUME TypeOK, RoomInv, RowsStand, room' = room, over \subseteq over', NoneOut
  PROVE  NoneOut'
<1>1. Rosters' = Rosters
  BY DEF Rosters, Records
<1> QED BY <1>1, OutKept DEF NoneOut

LEMMA OnlyLastKept ==
  ASSUME TypeOK, RoomInv, RowsStand, room' = room, over \subseteq over', OnlyLastOut
  PROVE  OnlyLastOut'
<1>1. Rosters' = Rosters
  BY DEF Rosters, Records
<1>2. \A i \in Rosters : Out(i)' => Out(i)
  BY OutKept
<1> QED BY <1>1, <1>2 DEF OnlyLastOut

\* What keeps a consent that is out, while no receipt is marked done.
LEMMA HeldStays ==
  ASSUME TypeOK, RoomInv, RowsStand, UNCHANGED <<room, known, done>>,
         PendingRosters' \subseteq PendingRosters,
         NEW i \in Rosters, Held(Id(i)), Backed(i),
         Id(i) \in PendingRosters => Id(i) \in PendingRosters' \/ Unhandled(Id(i)),
         Protects(Id(i)) => Protects(Id(i))' \/ (Unhandled(Id(i)) /\ ReadyKnown(Id(i))),
         WritesFor(Id(i)) /\ ReadyKnown(Id(i)) =>
             \/ WritesFor(Id(i))'
             \/ \A q \in Records("ready", known) : Id(q) = Id(i) => q \in Unprocessed
  PROVE  Held(Id(i))' /\ Backed(i)'
<1>1. \A q : Id(q)' = Id(q)
  BY DEF Id
<1>2. (\A k, n : Records(k, n)' = Records(k, n)) /\ Unprocessed' = Unprocessed
  BY DEF Records, Unprocessed
<1>3. GameOf(Id(i))' = GameOf(Id(i))
  BY GamesStand DEF GameOf, Id
<1> DEFINE r == Id(i)
<1>4. r' = r
  BY <1>1
<1>5. Unhandled(r)' = Unhandled(r) /\ ReadyKnown(r)' = ReadyKnown(r)
  BY <1>1, <1>2 DEF Unhandled, ReadyKnown
<1>6. ReadyKnown(r) => \E q \in Records("ready", known) : Id(q) = r
  BY DEF ReadyKnown
<1>7. \A s \in PendingRosters' : s = r
  BY DEF Held
<1>8. \A q \in Records("ready", Len(room)) : q \notin done => Id(q) = r
  BY DEF Held
<1>9. \A q \in Records("ready", known) : Id(q) = r => q \in Unprocessed \/ WritesFor(r)'
  <2> SUFFICES ASSUME NEW q \in Records("ready", known), Id(q) = r, q \notin Unprocessed
               PROVE  WritesFor(r)'
    OBVIOUS
  <2>1. WritesFor(r) /\ ReadyKnown(r)
    BY DEF Held, ReadyKnown
  <2> QED BY <2>1
<1>10. \/ r \in PendingRosters'
       \/ Unhandled(r)
       \/ Protects(r)'
       \/ WritesFor(r)' /\ ReadyKnown(r)
  <2>1. CASE r \in PendingRosters
    BY <2>1
  <2>2. CASE Protects(r)
    BY <2>2
  <2>3. CASE WritesFor(r) /\ ReadyKnown(r)
    <3>1. PICK q \in Records("ready", known) : Id(q) = r
      BY <2>3 DEF ReadyKnown
    <3>2. q \in Unprocessed \/ WritesFor(r)'
      BY <1>9, <3>1
    <3> QED BY <2>3, <3>1, <3>2 DEF Unhandled
  <2> QED BY <2>1, <2>2, <2>3 DEF Held
<1>11. Held(Id(i))'
  BY <1>2, <1>1, <1>4, <1>5, <1>7, <1>8, <1>9, <1>10 DEF Held
<1>12. Backed(i)'
  <2>1. CASE \E p \in Records("peers", i) : Id(p) = GameOf(Id(i))
    BY <1>1, <1>2, <1>3, <2>1 DEF Backed
  <2>2. CASE Protects(r)
    BY <1>5, <2>2 DEF Backed
  <2>3. CASE ReadyKnown(r)
    BY <1>5, <2>3 DEF Backed
  <2> QED BY <2>1, <2>2, <2>3 DEF Backed
<1> QED BY <1>11, <1>12

\* What a program has left to do ends as it did.
LEMMA EndsStay ==
  ASSUME TypeOK, NEW c, todo # <<>>, todo' = Tail(todo), todo' # <<>>, Ends(c)'
  PROVE  Ends(c) /\ Len(todo') < Len(todo)
<1> HIDE DEF Commits
<1>1. todo \in Seq(Commits) /\ Len(todo) \in Nat /\ Len(todo) > 0
  BY DEF TypeOK
<1>2. Len(Tail(todo)) = Len(todo) - 1
      /\ \A j \in 1 .. Len(todo) - 1 : Tail(todo)[j] = todo[j + 1]
  BY <1>1
<1>3. Len(todo) - 1 > 0
  <2>1. Tail(todo) \in Seq(Commits)
    BY <1>1
  <2>2. Len(todo) - 1 # 0
    BY <1>2, <2>1
  <2> QED BY <1>1, <2>2
<1>4. todo'[Len(todo')] = todo[Len(todo)]
  BY <1>1, <1>2, <1>3
<1> QED BY <1>1, <1>2, <1>4 DEF Ends

LEMMA RunsElsewhere ==
  ASSUME place' \notin {"returning", "choosing"}
  PROVE  SigningFree' /\ LeavingFree' /\ RetreatingFree'
  BY DEF SigningFree, LeavingFree, RetreatingFree

LEMMA RunsOn ==
  ASSUME TypeOK, place' = place, todo # <<>>, todo' = Tail(todo),
         SigningFree, LeavingFree, RetreatingFree, NoneOut => NoneOut',
         Rosters' = Rosters,
         \A i \in Rosters : Out(i)' => Out(i),
         place = "choosing" => \A i \in Rosters : ~Protects(Id(i)) => ~Protects(Id(i))'
  PROVE  SigningFree' /\ LeavingFree' /\ RetreatingFree'
<1>0. Len(todo) \in Nat /\ Len(todo') \in Nat
  <2> HIDE DEF Commits
  <2> QED BY DEF TypeOK
<1>1. SigningFree'
  <2> SUFFICES ASSUME place = "returning", Ends("wait")', Len(todo') > 1 PROVE NoneOut'
    BY DEF SigningFree
  <2>1. todo' # <<>>
    BY DEF Ends
  <2> QED BY <1>0, <2>1, EndsStay DEF SigningFree
<1>2. LeavingFree'
  <2> SUFFICES ASSUME place = "returning", Ends("discover")', Len(todo') > 2 PROVE NoneOut'
    BY DEF LeavingFree
  <2>1. todo' # <<>>
    BY DEF Ends
  <2> QED BY <1>0, <2>1, EndsStay DEF LeavingFree
<1>3. RetreatingFree'
  <2> SUFFICES ASSUME place = "choosing", Len(todo') > 1, NEW i \in Rosters, Out(i)'
               PROVE  ~Protects(Id(i))'
    BY DEF RetreatingFree
  <2>1. Len(todo) > 1
    <3> HIDE DEF Commits
    <3> QED BY <1>0 DEF TypeOK
  <2> QED BY <2>1 DEF RetreatingFree
<1> QED BY <1>1, <1>2, <1>3

LEMMA TransactionElse ==
  ASSUME Transaction, NEW c, Head(todo) = c,
         c \notin {"accept", "reject", "retreatDone", "expire", "reserve", "posted", "confirm",
                   "deny", "retreated", "doubt", "intend", "flee", "withdrawn"}
  PROVE  action' = action
<1>1. ~CommitStatus
  BY DEF CommitStatus, Commit, NewStatus
<1>2. ~CommitDelivery
  BY DEF CommitDelivery, Commit, NewDelivery
<1>3. ~CommitIntent
  BY DEF CommitIntent, Commit, NewKind
<1>4. ~CommitWithdrawn
  BY DEF CommitWithdrawn, Commit
<1> QED BY <1>1, <1>2, <1>3, <1>4 DEF Transaction, CommitEpoch, CommitEnd, CommitTeam, CommitPhase,
                                      CommitDone, CommitPost, dbVars

LEMMA NothingOutNext == ASSUME NoneOut' PROVE HeldInv'
  BY DEF NoneOut, HeldInv, OnlyLastOut, OutIsHeld, SigningFree, LeavingFree, RetreatingFree

LEMMA HeldAssembled ==
  ASSUME TypeOK, RoomInv, HeldInv, RowsStand, room' = room, over \subseteq over',
         SigningFree', LeavingFree', RetreatingFree',
         \A i \in Rosters : Out(i) /\ Out(i)' => Held(Id(i))' /\ Backed(i)'
  PROVE  HeldInv'
<1>1. Rosters' = Rosters
  BY DEF Rosters, Records
<1>2. OnlyLastOut'
  BY OnlyLastKept DEF HeldInv
<1>3. \A i \in Rosters : Out(i)' => Out(i)
  BY OutKept
<1>4. OutIsHeld'
  BY <1>1, <1>3 DEF OutIsHeld
<1> QED BY <1>2, <1>4 DEF HeldInv

\* What the phase, the team and the epoch keep.
LEMMA KeptAlone ==
  ASSUME TypeOK, RoomInv, RowsStand, room' = room, NEW i \in Rosters
  PROVE  /\ Id(i)' = Id(i) /\ GameOf(Id(i))' = GameOf(Id(i)) /\ GameOf(Id(i)) \in Game
         /\ epoch' = epoch => Protects(Id(i))' = Protects(Id(i))
         /\ UNCHANGED <<phase, team>> => WritesFor(Id(i))' = WritesFor(Id(i))
<1>1. Id(i)' = Id(i)
  BY DEF Id
<1>2. Id(i) \in DOMAIN action /\ GameOf(Id(i))' = GameOf(Id(i))
  BY GamesStand DEF GameOf, Id
<1>3. GameOf(Id(i)) \in Game
  BY <1>2, Basics DEF GameOf, Row
<1> QED BY <1>1, <1>2, <1>3 DEF Protects, PossiblyConsented, WritesFor

LEMMA HeldThrough ==
  ASSUME Base, HeldInv, RowsStand, UNCHANGED <<room, known, done, PendingRosters>>,
         over \subseteq over', SigningFree', LeavingFree', RetreatingFree',
         epoch' = epoch
            \/ \A i \in Rosters : Out(i) /\ Out(i)' /\ Protects(Id(i)) => Protects(Id(i))',
         UNCHANGED <<phase, team>>
            \/ \A i \in Rosters : Out(i)' /\ WritesFor(Id(i)) => WritesFor(Id(i))'
  PROVE  HeldInv'
<1>1. TypeOK /\ RoomInv
  BY DEF Base, Facts
<1>2. ASSUME NEW i \in Rosters, Out(i), Out(i)'
      PROVE  Held(Id(i))' /\ Backed(i)'
  <2>1. Held(Id(i)) /\ Backed(i)
    BY <1>2 DEF HeldInv, OutIsHeld
  <2>2. Protects(Id(i)) => Protects(Id(i))'
    BY <1>1, <1>2, KeptAlone
  <2>3. WritesFor(Id(i)) => WritesFor(Id(i))'
    BY <1>1, <1>2, KeptAlone
  <2>4. PendingRosters' = PendingRosters
    OBVIOUS
  <2> QED BY <1>1, <2>1, <2>2, <2>3, <2>4, HeldStays
<1> QED BY <1>1, <1>2, HeldAssembled

\* A transaction but a post leaves the programs as they were.
LEMMA TransactionRuns ==
  ASSUME Base, HeldInv, Transaction, NEW c, Head(todo) = c, c # "post"
  PROVE  SigningFree' /\ LeavingFree' /\ RetreatingFree'
<1>1. TypeOK /\ RoomInv /\ RowsStand
  BY TransactionRows DEF Base, Facts
<1>2. /\ todo # <<>> /\ todo' = Tail(todo) /\ place' = place /\ room' = room /\ over' = over
      /\ Rosters' = Rosters
  BY TransactionIs, TransactionFrame DEF Rosters, Records
<1>3. NoneOut => NoneOut'
  BY <1>1, <1>2, NoneOutKept
<1>4. \A i \in Rosters : Out(i)' => Out(i)
  BY <1>1, <1>2, OutKept
<1>5. ASSUME place = "choosing", NEW i \in Rosters, ~Protects(Id(i))
      PROVE  ~Protects(Id(i))'
  <2>1. c = "retreated" \/ c = "retreatDone" \/ c = "abandon" \/ c = "leave"
    BY <1>2, <1>5, InChoosing
  <2>2. CASE c = "abandon"
    <3>1. epoch' = NoEpoch
      BY <2>2, TransactionIs DEF NewEnd, CommitEnd
    <3> QED BY <3>1 DEF Protects, PossiblyConsented, NoEpoch, Possibly, Unresolved
  <2>3. CASE c # "abandon"
    <3>1. epoch' = epoch
      BY <2>1, <2>3, TransactionFrame
    <3> QED BY <1>1, <1>2, <1>5, <3>1, KeptAlone
  <2> QED BY <2>2, <2>3
<1> QED BY <1>1, <1>2, <1>3, <1>4, <1>5, RunsOn DEF HeldInv

\* Rosters stay pending but for the one a status is set of.
LEMMA PendingsStay ==
  ASSUME TypeOK, Transaction, NEW c, Head(todo) = c, c \notin {"intend", "flee", "withdrawn"}
  PROVE  /\ \A a \in PendingRosters : a # focus => a \in PendingRosters'
         /\ focus \notin Ids("roster") => PendingRosters' = PendingRosters
         /\ c \in {"accept", "reject"} => PendingRosters' \subseteq PendingRosters
         /\ c \notin DOMAIN NewStatus => PendingRosters' = PendingRosters
<1>1. CASE c \in DOMAIN NewStatus
  <2>1. CommitStatus
    BY <1>1, TransactionIs
  <2>2. /\ RowsStand /\ (\A k : Ids(k)' = Ids(k))
        /\ focus \in DOMAIN action => action'[focus].status = NewStatus[c]
        /\ \A a \in DOMAIN action : a # focus => action'[a].status = action[a].status
    BY <2>1, StatusChange
  <2>3. Ids("roster")' = Ids("roster") /\ Ids("roster") \subseteq DOMAIN action
    BY <2>2 DEF Ids
  <2>4. c \in {"accept", "reject"} => NewStatus[c] # "pending"
    BY DEF NewStatus
  <2> QED BY <1>1, <2>2, <2>3, <2>4 DEF PendingRosters
<1>2. CASE c \in DOMAIN NewDelivery
  <2>1. CommitDelivery
    BY <1>2, TransactionIs
  <2>2. (\A k : Ids(k)' = Ids(k)) /\ \A a \in DOMAIN action : action'[a].status = action[a].status
    BY <2>1, DeliveryChange
  <2>3. PendingRosters' = PendingRosters
    BY <2>2 DEF PendingRosters, Ids
  <2>4. c \notin {"accept", "reject"}
    BY <1>2 DEF NewDelivery
  <2> QED BY <2>3
<1>3. CASE c \notin DOMAIN NewStatus /\ c \notin DOMAIN NewDelivery
  <2>1. action' = action
    <3>1. /\ DOMAIN NewStatus = {"accept", "reject", "retreatDone", "expire", "reserve", "posted"}
          /\ DOMAIN NewDelivery = {"confirm", "deny", "retreated", "doubt"}
      BY DEF NewStatus, NewDelivery
    <3> QED BY <1>3, <3>1, TransactionElse
  <2>2. PendingRosters' = PendingRosters
    BY <2>1 DEF PendingRosters, Ids
  <2> QED BY <2>2
<1> QED BY <1>1, <1>2, <1>3

-----------------------------------------------------------------------------
\* The receipts' programs, with consents out.

\* Until it is handled, a receipt that says ready is for the only consent that is out.
LEMMA ReadyIsOut ==
  ASSUME Base, HeldInv, NEW q \in 1 .. known, AtHand(q), room[q].kind = "ready",
         NEW i \in Rosters, Out(i)
  PROVE  Id(i) = focus /\ Unhandled(Id(i)) /\ ReadyKnown(Id(i))
<1>1. q \in Records("ready", Len(room)) /\ q \in Records("ready", known) /\ q \notin done
      /\ q \in Unprocessed /\ Id(q) = focus
  BY Basics DEF Base, Facts, AtHand, Unprocessed, Records
<1>2. Id(q) = Id(i)
  BY <1>1 DEF HeldInv, OutIsHeld, Held
<1> QED BY <1>1, <1>2 DEF Unhandled, ReadyKnown

\* A refusal is of another consent than the one that is out, and of a later one than any
\* that was said to be ready in a receipt already handled.
LEMMA RefusedIsNotOut ==
  ASSUME Base, HeldInv, NEW q \in 1 .. known, AtHand(q), room[q].kind = "refused",
         NEW i \in Rosters, Out(i)
  PROVE  /\ Id(i) # focus
         /\ \A p \in Records("ready", known) : Id(p) = Id(i) => p \in Unprocessed
<1>1. TypeOK /\ RoomInv /\ RefereeInv /\ ReadInv
  BY DEF Base, Facts
<1>2. q \in Records("refused", Len(room)) /\ q \notin done /\ Id(q) = focus /\ q \in 1 .. Len(room)
      /\ room[q].kind \in ReceiptKinds
  BY <1>1, Basics DEF AtHand, Unprocessed, Records
<1>3. Id(i) # focus
  BY <1>2 DEF Out, Id
<1>4. ASSUME NEW p \in Records("ready", known), Id(p) = Id(i), p \notin Unprocessed
      PROVE  FALSE
  <2>1. p \in 1 .. known /\ p \in Records("ready", Len(room)) /\ p \in done /\ known \in Nat
    BY <1>1, <1>4, Basics DEF Records, Unprocessed, ReceiptKinds
  <2>2. ~(q \in 1 .. p)
    BY <1>1, <1>2, <2>1 DEF ReadInv
  <2>3. p < q
    BY <2>1, <2>2
  <2>4. PICK j \in 1 .. judged : room[j].kind = "roster" /\ Id(j) = Id(q)
    BY <1>1, <1>2, ReceiptFocus
  <2>5. j \in Rosters
    BY <1>1, <2>4, Basics DEF Rosters, Records
  <2>6. i < j
    <3>1. \A a \in Records("ready", Len(room)), b \in Records("refused", Len(room)) :
            a < b => \A m, n \in Rosters : Id(m) = Id(a) /\ Id(n) = Id(b) => m < n
      BY <1>1 DEF RefereeInv
    <3>2. \A m, n \in Rosters : Id(m) = Id(p) /\ Id(n) = Id(q) => m < n
      BY <1>2, <2>1, <2>3, <3>1
    <3> QED BY <1>4, <2>4, <2>5, <3>2
  <2> QED BY <2>5, <2>6 DEF HeldInv, OnlyLastOut
<1> QED BY <1>3, <1>4

LEMMA HeldAcceptsOrRejects ==
  ASSUME Base, HeldInv, Transaction, NEW c \in {"accept", "reject"}, Head(todo) = c,
         NEW q \in 1 .. known, AtHand(q)
  PROVE  HeldInv'
<1>1. TypeOK /\ RoomInv /\ RowsStand /\ SigningFree' /\ LeavingFree' /\ RetreatingFree'
  BY TransactionRows, TransactionRuns DEF Base, Facts
<1>2. UNCHANGED <<room, known, done, over, phase, team, epoch>>
  BY TransactionFrame
<1>3. PendingRosters' \subseteq PendingRosters /\ \A a \in PendingRosters : a # focus => a \in PendingRosters'
  BY <1>1, PendingsStay
<1>4. ASSUME NEW i \in Rosters, Out(i), Out(i)'
      PROVE  Held(Id(i))' /\ Backed(i)'
  <2>1. Held(Id(i)) /\ Backed(i)
    BY <1>4 DEF HeldInv, OutIsHeld
  <2>2. Protects(Id(i)) => Protects(Id(i))'
    BY <1>1, <1>2, KeptAlone
  <2>3. WritesFor(Id(i)) => WritesFor(Id(i))'
    BY <1>1, <1>2, KeptAlone
  <2>4. Id(i) = focus => Unhandled(Id(i))
    BY DEF AtHand, Unhandled
  <2>5. Id(i) \in PendingRosters => Id(i) \in PendingRosters' \/ Unhandled(Id(i))
    BY <1>3, <2>4
  <2> QED BY <1>1, <1>2, <1>3, <2>1, <2>2, <2>3, <2>5, HeldStays
<1> QED BY <1>1, <1>2, <1>4, HeldAssembled

LEMMA HeldJoins ==
  ASSUME Base, HeldInv, Transaction, NEW c, Head(todo) = c, c \in {"join", "write"},
         NEW q \in 1 .. known, AtHand(q), room[q].kind = "ready",
         c = "write" => team = GameOf(focus)
  PROVE  HeldInv'
<1>1. TypeOK /\ RoomInv /\ RowsStand /\ SigningFree' /\ LeavingFree' /\ RetreatingFree'
  BY TransactionRows, TransactionRuns DEF Base, Facts
<1>2. UNCHANGED <<room, known, done, over, epoch>>
  BY TransactionFrame
<1>3. PendingRosters' = PendingRosters
  BY <1>1, PendingsStay DEF NewStatus
<1>4. \A i \in Rosters : Out(i) => Id(i) = focus
  BY ReadyIsOut
<1>5. UNCHANGED <<phase, team>>
      \/ \A i \in Rosters : Out(i)' /\ WritesFor(Id(i)) => WritesFor(Id(i))'
  <2>1. CASE c = "join"
    <3> SUFFICES ASSUME NEW i \in Rosters, Out(i)', WritesFor(Id(i)) PROVE WritesFor(Id(i))'
      OBVIOUS
    <3>1. Id(i) = focus
      BY <1>1, <1>2, <1>4, <2>1, OutKept
    <3>2. CommitTeam
      BY <2>1, TransactionIs
    <3>3. team' = GameOf(focus) /\ phase' = phase
      BY <2>1, <3>2 DEF CommitTeam, Commit
    <3>4. GameOf(Id(i))' = GameOf(Id(i))
      BY <1>1, <1>2, KeptAlone
    <3> QED BY <3>1, <3>3, <3>4 DEF WritesFor
  <2>2. CASE c = "write"
    <3> SUFFICES ASSUME NEW i \in Rosters, Out(i)', WritesFor(Id(i)) PROVE WritesFor(Id(i))'
      OBVIOUS
    <3>1. CommitPhase
      BY <2>2, TransactionIs DEF NewPhase
    <3>2. phase' = "WRITING" /\ team' = team
      BY <2>2, <3>1 DEF CommitPhase, Commit, NewPhase
    <3>3. GameOf(Id(i))' = GameOf(Id(i))
      BY <1>1, <1>2, KeptAlone
    <3> QED BY <3>2, <3>3 DEF WritesFor
  <2> QED BY <2>1, <2>2
<1> QED BY <1>1, <1>2, <1>3, <1>5, HeldThrough

LEMMA HeldEndsReady ==
  ASSUME Base, HeldInv, Transaction, Head(todo) = "teamReady",
         NEW q \in 1 .. known, AtHand(q), room[q].kind = "ready"
  PROVE  HeldInv'
<1> DEFINE c == "teamReady"
<1>1. TypeOK /\ RoomInv /\ RowsStand /\ SigningFree' /\ LeavingFree' /\ RetreatingFree'
  BY TransactionRows, TransactionRuns DEF Base, Facts
<1>2. UNCHANGED <<room, known, done, over, phase, team>>
  <2>1. Head(todo) = c
    OBVIOUS
  <2> QED BY <2>1, TransactionFrame
<1>3. PendingRosters' = PendingRosters
  <2>1. Head(todo) = c
    OBVIOUS
  <2> QED BY <1>1, <2>1, PendingsStay DEF NewStatus
<1>4. ASSUME NEW i \in Rosters, Out(i), Out(i)'
      PROVE  Held(Id(i))' /\ Backed(i)'
  <2>1. Held(Id(i)) /\ Backed(i)
    BY <1>4 DEF HeldInv, OutIsHeld
  <2>2. Unhandled(Id(i)) /\ ReadyKnown(Id(i))
    BY <1>4, ReadyIsOut
  <2>3. WritesFor(Id(i)) => WritesFor(Id(i))'
    BY <1>1, <1>2, KeptAlone
  <2> QED BY <1>1, <1>2, <1>3, <2>1, <2>2, <2>3, HeldStays
<1> QED BY <1>1, <1>2, <1>4, HeldAssembled

LEMMA HeldLeavesRefused ==
  ASSUME Base, HeldInv, Transaction, NEW c \in {"leave", "discover"}, Head(todo) = c,
         NEW q \in 1 .. known, AtHand(q), room[q].kind = "refused"
  PROVE  HeldInv'
<1>1. TypeOK /\ RoomInv /\ RowsStand /\ SigningFree' /\ LeavingFree' /\ RetreatingFree'
  BY TransactionRows, TransactionRuns DEF Base, Facts
<1>2. UNCHANGED <<room, known, done, over, epoch>>
  BY TransactionFrame
<1>3. PendingRosters' = PendingRosters
  BY <1>1, PendingsStay DEF NewStatus
<1>4. ASSUME NEW i \in Rosters, Out(i), Out(i)'
      PROVE  Held(Id(i))' /\ Backed(i)'
  <2>1. Held(Id(i)) /\ Backed(i)
    BY <1>4 DEF HeldInv, OutIsHeld
  <2>2. \A p \in Records("ready", known) : Id(p) = Id(i) => p \in Unprocessed
    BY <1>4, RefusedIsNotOut
  <2>3. Protects(Id(i)) => Protects(Id(i))'
    BY <1>1, <1>2, KeptAlone
  <2> QED BY <1>1, <1>2, <1>3, <2>1, <2>2, <2>3, HeldStays
<1> QED BY <1>1, <1>2, <1>4, HeldAssembled

\* What a receipt, or the room, says of the epoch's own consent.
LEMMA HeldNotes ==
  ASSUME Base, HeldInv, Transaction,
         NEW c \in {"note", "denyEpoch", "confirmEpoch", "doubtEpoch", "fleeEpoch"}, Head(todo) = c,
         c = "denyEpoch" => \A i \in Rosters : Out(i) => Id(i) # focus
  PROVE  HeldInv'
<1>1. TypeOK /\ RoomInv /\ RowsStand /\ SigningFree' /\ LeavingFree' /\ RetreatingFree'
  BY TransactionRows, TransactionRuns DEF Base, Facts
<1>2. UNCHANGED <<room, known, done, over, phase, team>>
  BY TransactionFrame
<1>3. PendingRosters' = PendingRosters
  BY <1>1, PendingsStay DEF NewStatus
<1>4. CommitEpoch
  BY TransactionIs
<1>5. epoch' = IF epoch = NoEpoch THEN NoEpoch ELSE EpochAfter(c)
  BY <1>4 DEF CommitEpoch, Commit
<1>6. ASSUME NEW i \in Rosters, Out(i), Protects(Id(i))
      PROVE  Protects(Id(i))'
  <2> DEFINE r == Id(i)
  <2>1. Id(i)' = r /\ GameOf(r)' = GameOf(r)
    BY <1>1, <1>2, KeptAlone
  <2>2. epoch # NoEpoch /\ epoch.roster = r /\ epoch.game = GameOf(r) /\ epoch.consent \in Possibly
    BY <1>6 DEF Protects, PossiblyConsented, NoEpoch, Possibly, Unresolved
  <2>3. c = "denyEpoch" => r # focus
    BY <1>6
  <2>4. epoch \in Epoch
    BY <1>1, <2>2 DEF TypeOK
  <2>5. epoch'.roster = r /\ epoch'.game = epoch.game
    BY <1>5, <2>2, <2>4 DEF EpochAfter, Epoch
  <2>6. epoch'.consent \in Possibly
    <3> USE DEF EpochAfter, Epoch, Possibly, Unresolved
    <3>1. CASE c = "note"
      BY <1>5, <2>2, <2>4, <3>1
    <3>2. CASE c = "denyEpoch"
      BY <1>5, <2>2, <2>3, <2>4, <3>2
    <3>3. CASE c = "confirmEpoch"
      BY <1>5, <2>2, <2>4, <3>3
    <3>4. CASE c = "doubtEpoch"
      BY <1>5, <2>2, <2>4, <3>4
    <3>5. CASE c = "fleeEpoch"
      BY <1>5, <2>2, <2>4, <3>5
    <3> QED BY <3>1, <3>2, <3>3, <3>4, <3>5
  <2> QED BY <2>1, <2>2, <2>5, <2>6 DEF Protects, PossiblyConsented
<1> QED BY <1>1, <1>2, <1>3, <1>6, HeldThrough

LEMMA HeldDelivers ==
  ASSUME Base, HeldInv, Transaction, NEW c \in {"confirm", "deny", "retreated", "doubt"}, Head(todo) = c
  PROVE  HeldInv'
<1>1. TypeOK /\ RowsStand /\ SigningFree' /\ LeavingFree' /\ RetreatingFree'
  BY TransactionRows, TransactionRuns DEF Base, Facts
<1>2. UNCHANGED <<room, known, done, over, phase, team, epoch>>
  BY TransactionFrame
<1>3. PendingRosters' = PendingRosters
  BY <1>1, PendingsStay DEF NewStatus
<1> QED BY <1>1, <1>2, <1>3, HeldThrough

\* A receipt that was handled no longer keeps its consent: what it said does.
LEMMA HeldDone ==
  ASSUME Base, Base', HeldInv, Transaction, Head(todo) = "done",
         NEW q \in 1 .. known, AtHand(q), done' = done \cup {q},
         room[q].kind = "ready" => phase = "WRITING" /\ team = GameOf(focus)
  PROVE  HeldInv'
<1> DEFINE c == "done"
<1>0. Head(todo) = c
  OBVIOUS
<1>1. TypeOK /\ RoomInv /\ RefereeInv /\ RowsStand /\ SigningFree' /\ LeavingFree' /\ RetreatingFree'
  BY <1>0, TransactionRows, TransactionRuns DEF Base, Facts
<1>2. UNCHANGED <<room, known, over, phase, team, epoch, action>>
  BY <1>0, TransactionFrame
<1>3. PendingRosters' = PendingRosters
  BY <1>2 DEF PendingRosters, Ids
<1>4. Unprocessed' = Unprocessed \ {q} /\ (\A k, n : Records(k, n)' = Records(k, n))
      /\ \A a : Id(a)' = Id(a) /\ GameOf(a)' = GameOf(a)
  BY <1>2 DEF Unprocessed, Records, Id, GameOf
<1>5. q \in Unprocessed /\ Id(q) = focus /\ room[q].kind \in ReceiptKinds /\ q \in 1 .. Len(room)
      /\ q \notin done
  BY <1>1, Basics DEF AtHand, Unprocessed
<1>6. ASSUME NEW i \in Rosters, Out(i), Out(i)'
      PROVE  Held(Id(i))' /\ Backed(i)'
  <2> DEFINE r == Id(i)
  <2>1. Held(r) /\ Backed(i) /\ r' = r
    BY <1>4, <1>6 DEF HeldInv, OutIsHeld
  <2>2. Protects(r)' = Protects(r) /\ WritesFor(r)' = WritesFor(r) /\ ReadyKnown(r)' = ReadyKnown(r)
    BY <1>2, <1>4 DEF Protects, PossiblyConsented, WritesFor, ReadyKnown
  <2>3. room[q].kind = "ready" => r = focus /\ WritesFor(r) /\ ReadyKnown(r)
    BY <1>6, ReadyIsOut DEF WritesFor
  <2>4. room[q].kind = "refused" => r # focus
    BY <1>6, RefusedIsNotOut
  <2>5. Backed(i)'
    <3>1. (\E p \in Records("peers", i) : Id(p) = GameOf(Id(i))) =>
          (\E p \in Records("peers", i) : Id(p) = GameOf(Id(i)))'
      BY <1>4
    <3> QED BY <2>1, <2>2, <3>1 DEF Backed
  <2>6. \A p \in Records("ready", known) : Id(p) = r => p \in Unprocessed \/ WritesFor(r)
    BY <2>1 DEF Held
  <2>7. \A p \in Records("ready", known) : Id(p) = r => p \in Unprocessed' \/ WritesFor(r)'
    <3> SUFFICES ASSUME NEW p \in Records("ready", known), Id(p) = r
                 PROVE  p \in Unprocessed' \/ WritesFor(r)
      BY <2>2
    <3>1. p = q => room[q].kind = "ready"
      BY DEF Records
    <3> QED BY <1>4, <2>3, <2>6, <3>1
  <2>8. \/ r \in PendingRosters
        \/ Unhandled(r)'
        \/ Protects(r)
        \/ WritesFor(r) /\ ReadyKnown(r)
    <3>1. CASE r \in PendingRosters \/ Protects(r) \/ (WritesFor(r) /\ ReadyKnown(r))
      BY <3>1
    <3>2. CASE Unhandled(r)
      <4>1. PICK p \in Unprocessed : Id(p) = r
        BY <3>2 DEF Unhandled
      <4>2. CASE p # q
        BY <1>4, <4>1, <4>2 DEF Unhandled
      <4>3. CASE p = q /\ room[q].kind = "ready"
        BY <2>3, <4>3
      <4>4. CASE p = q /\ room[q].kind = "refused"
        BY <1>5, <2>4, <4>1, <4>4
      <4>5. CASE p = q /\ room[q].kind = "consented"
        <5>1. q \in Records("consented", Len(room)) /\ Id(i) = Id(q)
          BY <1>5, <4>1, <4>5 DEF Records
        <5>2. ~\E a \in Records("peers", i) : Id(a) = GameOf(Id(i))
          BY <1>1, <5>1 DEF RefereeInv
        <5>3. Protects(r) \/ ReadyKnown(r)
          BY <2>1, <5>2 DEF Backed
        <5>4. CASE ReadyKnown(r)
          <6>1. PICK a \in Records("ready", known) : Id(a) = r
            BY <5>4 DEF ReadyKnown
          <6>2. a # q
            BY <4>5, <6>1 DEF Records
          <6>3. a \in Unprocessed' \/ WritesFor(r)
            BY <1>4, <2>6, <6>1, <6>2
          <6> QED BY <1>4, <5>4, <6>1, <6>3 DEF Unhandled
        <5> QED BY <5>3, <5>4
      <4> QED BY <1>5, <4>2, <4>3, <4>4, <4>5 DEF ReceiptKinds
    <3> QED BY <2>1, <3>1, <3>2 DEF Held
  <2>9. \A s \in PendingRosters : s = r
    BY <2>1 DEF Held
  <2>10. \A p \in Records("ready", Len(room)) : p \notin done' => Id(p) = r
    BY <2>1 DEF Held
  <2>11. Held(Id(i))'
    BY <1>2, <1>3, <1>4, <2>1, <2>2, <2>7, <2>8, <2>9, <2>10 DEF Held
  <2> QED BY <2>5, <2>11
<1> QED BY <1>1, <1>2, <1>6, HeldAssembled

LEMMA HeldInReceipts ==
  ASSUME Base, Base', HeldInv, Transaction, place = "receipts"
  PROVE  HeldInv'
<1> DEFINE c == Head(todo)
<1>0. todo # <<>> /\ Head(todo) = c
  BY TransactionIs
<1>1. PICK q \in 1 .. known, k \in 0 .. 5 :
            /\ HandleAt(q, k) /\ AtHand(q) /\ room[q].kind \in ReceiptKinds
            /\ \/ /\ room[q].kind = "ready"
                  /\ \/ (k = 0 /\ c = "accept") \/ (k = 1 /\ c = "join") \/ (k = 2 /\ c = "confirm")
                     \/ (k = 3 /\ c = "teamReady") \/ (k = 4 /\ c = "write") \/ (k = 5 /\ c = "done")
               \/ /\ room[q].kind = "consented"
                  /\ \/ (k = 0 /\ c = "accept") \/ (k = 1 /\ c = "confirm") \/ (k = 2 /\ c = "note")
                     \/ (k = 3 /\ c = "done")
               \/ /\ room[q].kind = "refused"
                  /\ \/ (k = 0 /\ c = "reject") \/ (k = 1 /\ c = "deny") \/ (k = 2 /\ c = "denyEpoch")
                     \/ (k = 3 /\ c = "leave") \/ (k = 4 /\ c = "discover") \/ (k = 5 /\ c = "done")
  BY <1>0, InReceipts
<1> HIDE DEF c
<1>2. CASE c \in {"accept", "reject"}
  BY <1>0, <1>1, <1>2, HeldAcceptsOrRejects
<1>3. CASE c \in {"join", "write"}
  <2>1. room[q].kind = "ready"
    BY <1>1, <1>3
  <2>2. c = "write" => team = GameOf(focus)
    BY <1>1 DEF HandleAt
  <2> QED BY <1>0, <1>1, <1>3, <2>1, <2>2, HeldJoins
<1>4. CASE c = "teamReady"
  BY <1>0, <1>1, <1>4, HeldEndsReady
<1>5. CASE c \in {"leave", "discover"}
  <2>1. room[q].kind = "refused"
    BY <1>1, <1>5
  <2> QED BY <1>0, <1>1, <1>5, <2>1, HeldLeavesRefused
<1>6. CASE c \in {"note", "denyEpoch"}
  <2>1. c = "denyEpoch" => room[q].kind = "refused"
    BY <1>1
  <2>2. c = "denyEpoch" => \A i \in Rosters : Out(i) => Id(i) # focus
    BY <1>1, <2>1, RefusedIsNotOut
  <2> QED BY <1>0, <1>6, <2>2, HeldNotes
<1>7. CASE c \in {"confirm", "deny"}
  BY <1>0, <1>7, HeldDelivers
<1>8. CASE c = "done"
  <2>1. CommitDone
    BY <1>0, <1>8, TransactionIs
  <2>2. PICK p \in 1 .. known : done' = done \cup {p} /\ AtHand(p)
    BY <2>1, DoneCommits
  <2>3. p = q
    BY <1>1, <2>2 DEF AtHand
  <2>4. room[q].kind = "ready" => phase = "WRITING" /\ team = GameOf(focus)
    BY <1>1, <1>8 DEF HandleAt
  <2> QED BY <1>0, <1>1, <1>8, <2>2, <2>3, <2>4, HeldDone
<1> QED BY <1>1, <1>2, <1>3, <1>4, <1>5, <1>6, <1>7, <1>8

-----------------------------------------------------------------------------
\* The other programs' transactions, with consents out.

LEMMA HeldStatus ==
  ASSUME Base, HeldInv, Transaction, NEW c \in {"retreatDone", "expire", "reserve", "posted"},
         Head(todo) = c, focus \notin Ids("roster")
  PROVE  HeldInv'
<1>1. TypeOK /\ RowsStand /\ SigningFree' /\ LeavingFree' /\ RetreatingFree'
  BY TransactionRows, TransactionRuns DEF Base, Facts
<1>2. UNCHANGED <<room, known, done, over, phase, team, epoch>>
  BY TransactionFrame
<1>3. PendingRosters' = PendingRosters
  BY <1>1, PendingsStay
<1> QED BY <1>1, <1>2, <1>3, HeldThrough

\* The epoch ends when it protects nothing that is out.
LEMMA HeldAbandons ==
  ASSUME Base, HeldInv, Transaction, Head(todo) = "abandon",
         \A i \in Rosters : Out(i) => ~Protects(Id(i))
  PROVE  HeldInv'
<1> DEFINE c == "abandon"
<1>0. Head(todo) = c
  OBVIOUS
<1>1. TypeOK /\ RowsStand /\ SigningFree' /\ LeavingFree' /\ RetreatingFree'
  BY <1>0, TransactionRows, TransactionRuns DEF Base, Facts
<1>2. UNCHANGED <<room, known, done, over, phase, team>>
  BY <1>0, TransactionFrame
<1>3. PendingRosters' = PendingRosters
  BY <1>0, <1>1, PendingsStay DEF NewStatus
<1> QED BY <1>1, <1>2, <1>3, HeldThrough

\* Where nothing is written, no team and no phase keeps a consent.
LEMMA HeldMoves ==
  ASSUME Base, HeldInv, Transaction, NEW c \in {"leave", "discover", "wait"}, Head(todo) = c,
         phase # "WRITING"
  PROVE  HeldInv'
<1>1. TypeOK /\ RowsStand /\ SigningFree' /\ LeavingFree' /\ RetreatingFree'
  BY TransactionRows, TransactionRuns DEF Base, Facts
<1>2. UNCHANGED <<room, known, done, over, epoch>>
  BY TransactionFrame
<1>3. PendingRosters' = PendingRosters
  BY <1>1, PendingsStay DEF NewStatus
<1>4. \A i \in Rosters : ~WritesFor(Id(i))
  BY DEF WritesFor
<1> QED BY <1>1, <1>2, <1>3, <1>4, HeldThrough

LEMMA NothingToHold ==
  ASSUME Base, Transaction, NEW c, Head(todo) = c, c # "post", NoneOut
  PROVE  HeldInv'
<1>1. TypeOK /\ RoomInv /\ RowsStand
  BY TransactionRows DEF Base, Facts
<1>2. room' = room /\ over' = over
  BY TransactionFrame
<1> QED BY <1>1, <1>2, NoneOutKept, NothingOutNext

LEMMA ProgramFree ==
  ASSUME HeldInv, place = "returning", NEW k \in 0 .. 3
  PROVE  /\ todo = Rest(Signing, k) => NoneOut
         /\ todo = Rest(Leaving, k) => NoneOut
<1>1. ASSUME todo = Rest(Signing, k) PROVE NoneOut
  <2>1. Signing \in Seq(Commits) /\ Len(Signing) = 5 /\ k \in Nat /\ k <= Len(Signing)
    BY Programs
  <2>2. Len(todo) = 5 - k /\ \A j \in 1 .. 5 - k : todo[j] = Signing[k + j]
    <3>1. /\ Len(Rest(Signing, k)) = Len(Signing) - k
          /\ \A j \in 1 .. Len(Signing) - k : Rest(Signing, k)[j] = Signing[k + j]
      BY <2>1, Rests
    <3> QED BY <1>1, <2>1, <3>1
  <2>3. todo[Len(todo)] = "wait" /\ Len(todo) > 1
    <3>1. 5 - k \in 1 .. 5 - k /\ k + (5 - k) = 5 /\ 5 - k > 1
      OBVIOUS
    <3>2. todo[5 - k] = Signing[5]
      BY <2>2, <3>1
    <3> QED BY <2>2, <3>1, <3>2, ProgramSteps
  <2>4. todo # <<>>
    BY <2>3
  <2> QED BY <2>3, <2>4 DEF HeldInv, SigningFree, Ends
<1>2. ASSUME todo = Rest(Leaving, k) PROVE NoneOut
  <2>1. Leaving \in Seq(Commits) /\ Len(Leaving) = 6 /\ k \in Nat /\ k <= Len(Leaving)
    BY Programs
  <2>2. Len(todo) = 6 - k /\ \A j \in 1 .. 6 - k : todo[j] = Leaving[k + j]
    <3>1. /\ Len(Rest(Leaving, k)) = Len(Leaving) - k
          /\ \A j \in 1 .. Len(Leaving) - k : Rest(Leaving, k)[j] = Leaving[k + j]
      BY <2>1, Rests
    <3> QED BY <1>2, <2>1, <3>1
  <2>3. todo[Len(todo)] = "discover" /\ Len(todo) > 2
    <3>1. 6 - k \in 1 .. 6 - k /\ k + (6 - k) = 6 /\ 6 - k > 2
      OBVIOUS
    <3>2. todo[6 - k] = Leaving[6]
      BY <2>2, <3>1
    <3> QED BY <2>2, <3>1, <3>2, ProgramSteps
  <2>4. todo # <<>>
    BY <2>3
  <2> QED BY <2>3, <2>4 DEF HeldInv, LeavingFree, Ends
<1> QED BY <1>1, <1>2

LEMMA HeldInChoosing ==
  ASSUME Base, HeldInv, Transaction, place = "choosing"
  PROVE  HeldInv'
<1> DEFINE c == Head(todo)
<1>0. todo # <<>> /\ Head(todo) = c
  BY TransactionIs
<1>1. PICK k \in 0 .. 3 :
            /\ RetreatAt(k) /\ Tail(todo) = Rest(Retreating, k + 1)
            /\ \/ (k = 0 /\ c = "retreated") \/ (k = 1 /\ c = "retreatDone")
               \/ (k = 2 /\ c = "abandon") \/ (k = 3 /\ c = "leave")
  BY <1>0, InChoosing
<1> HIDE DEF c
<1>2. CASE c = "retreated"
  BY <1>0, <1>2, HeldDelivers
<1>3. CASE k = 1 /\ c = "retreatDone"
  <2>1. focus \notin Ids("roster")
    BY <1>1, <1>3 DEF RetreatAt, SentWithdrawal, Ids
  <2> QED BY <1>0, <1>3, <2>1, HeldStatus
<1>4. CASE k = 2 /\ c = "abandon"
  <2>1. Retreating \in Seq(Commits) /\ Len(Retreating) = 4
    BY Programs
  <2>2. Len(todo) = 2
    <3>1. 2 \in Nat /\ 2 <= Len(Retreating)
      BY <2>1
    <3>2. Len(Rest(Retreating, 2)) = Len(Retreating) - 2
      BY <2>1, <3>1, Rests
    <3> QED BY <1>1, <1>4, <2>1, <3>2 DEF RetreatAt
  <2>3. \A i \in Rosters : Out(i) => ~Protects(Id(i))
    BY <2>2 DEF HeldInv, RetreatingFree
  <2> QED BY <1>0, <1>4, <2>3, HeldAbandons
<1>5. CASE c = "leave"
  <2>1. phase # "WRITING"
    BY DEF Base, RunInv
  <2> QED BY <1>0, <1>5, <2>1, HeldMoves
<1> QED BY <1>1, <1>2, <1>3, <1>4, <1>5

LEMMA HeldInWaiting ==
  ASSUME Base, HeldInv, Transaction, place = "waiting"
  PROVE  HeldInv'
<1> DEFINE c == Head(todo)
<1>0. todo # <<>> /\ Head(todo) = c
  BY TransactionIs
<1>1. c = "confirm" \/ c = "confirmEpoch"
  BY <1>0, InWaiting
<1> HIDE DEF c
<1> QED BY <1>0, <1>1, HeldDelivers, HeldNotes

LEMMA HeldInGivingUp ==
  ASSUME Base, HeldInv, Transaction, place = "returning", GiveUpInv
  PROVE  HeldInv'
<1> DEFINE c == Head(todo)
<1>0. todo # <<>> /\ Head(todo) = c
  BY TransactionIs
<1>1. PICK k \in 0 .. 1 : GiveUpAt(k) /\ ((k = 0 /\ c = "abandon") \/ (k = 1 /\ c = "expire"))
  BY <1>0, InGivingUp
<1> HIDE DEF c
<1>2. CASE k = 0 /\ c = "abandon"
  <2>1. \A i \in Rosters : Out(i) => ~Protects(Id(i))
    BY <1>1, <1>2 DEF GiveUpAt, Protects
  <2> QED BY <1>0, <1>2, <2>1, HeldAbandons
<1>3. CASE c = "expire"
  <2>1. focus \notin Ids("roster")
    BY <1>1, Basics DEF GiveUpAt, Ids, NoAction, Base, Facts
  <2> QED BY <1>0, <1>3, <2>1, HeldStatus
<1> QED BY <1>1, <1>2, <1>3

LEMMA HeldInLeaving ==
  ASSUME Base, HeldInv, Transaction, place = "returning", LeaveInv
  PROVE  HeldInv'
<1> DEFINE c == Head(todo)
<1>0. todo # <<>> /\ Head(todo) = c
  BY TransactionIs
<1>1. PICK k \in 0 .. 5 :
            /\ LeaveAt(k)
            /\ \/ (k = 0 /\ c = "retreated") \/ (k = 1 /\ c = "retreatDone") \/ (k = 2 /\ c = "withdrawn")
               \/ (k = 3 /\ c = "abandon") \/ (k = 4 /\ c = "leave") \/ (k = 5 /\ c = "discover")
  BY <1>0, InLeaving
<1> HIDE DEF c
<1>2. CASE k \in 0 .. 3
  <2>1. NoneOut
    BY <1>1, <1>2, ProgramFree DEF LeaveAt
  <2>2. c # "post"
    BY <1>1
  <2> QED BY <1>0, <2>1, <2>2, NothingToHold
<1>3. CASE c \in {"leave", "discover"}
  <2>1. phase # "WRITING"
    BY DEF Base, RunInv
  <2> QED BY <1>0, <1>3, <2>1, HeldMoves
<1> QED BY <1>1, <1>2, <1>3

LEMMA HeldInDoubting ==
  ASSUME Base, HeldInv, Transaction, DoubtInv
  PROVE  HeldInv'
<1> DEFINE c == Head(todo)
<1>0. todo # <<>> /\ Head(todo) = c
  BY TransactionIs
<1>1. c = "doubt" \/ c = "doubtEpoch"
  BY <1>0, InDoubting
<1> HIDE DEF c
<1> QED BY <1>0, <1>1, HeldDelivers, HeldNotes

-----------------------------------------------------------------------------
\* The room grows, with consents out.

\* A new receipt that says ready is for a consent that is out, unless one is outrun.
LEMMA NewReadyIsOut ==
  ASSUME Base, Base', ~Outrun', NEW x \in Record, Len(room) < MaxRoom, room' = Append(room, x),
         action' = action, UNCHANGED readVars, x.kind = "ready"
  PROVE  \E j \in Rosters : room'[j].id = x.id /\ Out(j)'
<1>0. PICK n \in Nat : n = Len(room) + 1
  BY Basics DEF Base, Facts
<1>1. /\ TypeOK /\ RoomInv' /\ RefereeInv' /\ ReadInv'
      /\ known \in 0 .. Len(room) /\ judged' \in 0 .. Len(room')
  <2>1. TypeOK /\ TypeOK' /\ RoomInv' /\ RefereeInv' /\ ReadInv'
    BY DEF Base, Facts
  <2> QED BY <2>1 DEF TypeOK
<1>2. /\ Len(room) \in Nat /\ Len(room') = n /\ room'[n] = x /\ known' = known
      /\ \A i \in 1 .. Len(room) : room'[i] = room[i]
      /\ n \in Records("ready", Len(room))'
  BY <1>0, <1>1, Grown DEF readVars
<1>3. PICK j \in 1 .. judged' : j < n /\ room'[j].kind = "roster" /\ room'[j].id = x.id
  <2>1. n \in 1 .. Len(room') /\ room'[n].kind \in ReceiptKinds
    BY <1>0, <1>2 DEF ReceiptKinds
  <2>2. \E j \in 1 .. judged' : j < n /\ room'[j].kind = "roster" /\ room'[j].id = room'[n].id
    BY <1>1, <2>1 DEF RoomInv, Id
  <2> QED BY <1>2, <2>2
<1>4. j \in 1 .. Len(room) /\ j \in Rosters /\ j \in Rosters'
  <2>1. j \in 1 .. Len(room)
    BY <1>0, <1>1, <1>2, <1>3
  <2>2. room[j].kind = "roster"
    BY <1>2, <1>3, <2>1
  <2>3. j \in 1 .. Len(room')
    BY <1>0, <1>2, <2>1
  <2> QED BY <1>3, <2>1, <2>2, <2>3 DEF Rosters, Records
<1>5. GameOf(room[j].id)' \notin over'
  <2> SUFFICES ASSUME GameOf(room[j].id)' \in over' PROVE FALSE
    OBVIOUS
  <2>1. PICK q \in Records("ready", known)' : GameOf(Id(q))' = GameOf(room[j].id)'
    BY <1>1 DEF ReadInv
  <2>2. q \in 1 .. known /\ q \in Records("ready", Len(room))'
    BY <1>1, <1>2, <2>1 DEF Records
  <2>3. GameOf(Id(q))' = GameOf(Id(n))'
    BY <1>2, <1>3, <2>1 DEF Id, GameOf
  <2>4. q = n
    BY <1>1, <1>2, <2>2, <2>3 DEF RefereeInv
  <2> QED BY <1>0, <1>1, <1>2, <2>2, <2>4
<1>6. \A p \in Records("refused", Len(room))' : room'[p].id # room'[j].id
  <2>1. \A p \in Records("refused", Len(room))' : Id(p)' # Id(n)'
    BY <1>1, <1>2 DEF RefereeInv
  <2> QED BY <1>2, <1>3, <2>1 DEF Id
<1>7. ASSUME NEW w \in Records("withdraw", Len(room))', GameOf(room[w].id)' = GameOf(room[j].id)'
      PROVE  w < j
  <2> SUFFICES ASSUME ~(w < j) PROVE FALSE
    OBVIOUS
  <2>1. w \in Nat /\ j \in Nat /\ w # j
    BY <1>2, <1>3, <1>4, <1>7 DEF Records
  <2>2. j < w
    BY <2>1
  <2>3. room'[n].id = room'[j].id
    BY <1>2, <1>3
  <2> QED BY <1>2, <1>4, <1>7, <2>2, <2>3 DEF Outrun, Rosters
<1>8. Out(j)'
  BY <1>5, <1>6, <1>7 DEF Out
<1> QED BY <1>3, <1>4, <1>8

LEMMA HeldGrows ==
  ASSUME Base, Base', HeldInv, ~Outrun', NEW x, room' = Append(room, x), x.kind # "roster",
         UNCHANGED <<dbVars, readVars, over>>
  PROVE  /\ OnlyLastOut' /\ OutIsHeld' /\ Rosters' = Rosters
         /\ NoneOut => NoneOut'
         /\ \A i \in Rosters : /\ Out(i)' => Out(i)
                               /\ Protects(Id(i))' = Protects(Id(i))
<1>1. TypeOK /\ TypeOK' /\ known \in 0 .. Len(room)
  BY DEF Base, Facts, TypeOK
<1>2. x \in Record /\ Len(room) < MaxRoom
  BY <1>1, AppendedRecord
<1>3. UNCHANGED <<phase, team, action, epoch, known, done, over, PendingRosters>>
  BY DEF dbVars, readVars, PendingRosters, Ids
<1>4. /\ Len(room) \in Nat /\ Len(room') = Len(room) + 1 /\ room'[Len(room) + 1] = x
      /\ \A i \in 1 .. Len(room) : room'[i] = room[i] /\ Id(i)' = Id(i)
      /\ \A k : Records(k, Len(room))' = Records(k, Len(room))
                                              \cup (IF x.kind = k THEN {Len(room) + 1} ELSE {})
      /\ \A k : \A m \in 0 .. Len(room) : {i \in 1 .. m : room'[i].kind = k} = Records(k, m)
      /\ \A a : GameOf(a)' = GameOf(a)
  BY <1>1, <1>2, <1>3, Grown
<1>5. Rosters' = Rosters /\ \A i \in Rosters : i \in 1 .. Len(room)
  BY <1>4 DEF Rosters, Records
<1>6. \A i \in Rosters : Out(i)' => Out(i)
  BY <1>1, <1>2, <1>3, OutGrown
<1>7. \A i \in Rosters : Id(i)' = Id(i) /\ Protects(Id(i))' = Protects(Id(i))
                         /\ WritesFor(Id(i))' = WritesFor(Id(i))
  BY <1>3, <1>4, <1>5 DEF Protects, PossiblyConsented, WritesFor
<1>8. OnlyLastOut'
  BY <1>5, <1>6 DEF HeldInv, OnlyLastOut
<1>9. Records("ready", known)' = Records("ready", known) /\ Unprocessed' = Unprocessed
      /\ (\A q \in 1 .. known : Id(q)' = Id(q))
      /\ (\A q \in Unprocessed : Id(q)' = Id(q))
      /\ \A q \in Records("ready", known) : Id(q)' = Id(q)
  <2>1. \A q \in 1 .. known : q \in 1 .. Len(room)
    BY <1>1, <1>4
  <2>2. Unprocessed' = Unprocessed
    BY <1>3, <1>4, <2>1 DEF Unprocessed
  <2>3. Records("ready", known)' = Records("ready", known)
    BY <1>1, <1>3, <1>4 DEF Records
  <2> QED BY <1>4, <2>1, <2>2, <2>3 DEF Unprocessed, Records
<1>10. ASSUME NEW i \in Rosters, Out(i)'
       PROVE  Held(Id(i))' /\ Backed(i)'
  <2> DEFINE r == Id(i)
  <2>1. Held(r) /\ Backed(i) /\ r' = r
    BY <1>6, <1>7, <1>10 DEF HeldInv, OutIsHeld
  <2>2. ReadyKnown(r)' = ReadyKnown(r) /\ Unhandled(r)' = Unhandled(r)
    BY <1>9, <2>1 DEF ReadyKnown, Unhandled
  <2>3. Protects(r)' = Protects(r) /\ WritesFor(r)' = WritesFor(r)
    BY <1>7
  <2>4. \A q \in Records("ready", Len(room))' : q \notin done => Id(q)' = r
    <3> SUFFICES ASSUME NEW q \in Records("ready", Len(room))', q \notin done PROVE Id(q)' = r
      OBVIOUS
    <3>1. CASE q \in Records("ready", Len(room))
      <4>1. Id(q) = r
        BY <2>1, <3>1 DEF Held
      <4>2. q \in 1 .. Len(room)
        BY <3>1 DEF Records
      <4> QED BY <1>4, <4>1, <4>2
    <3>2. CASE x.kind = "ready" /\ q = Len(room) + 1
      <4>1. PICK j \in Rosters : room'[j].id = x.id /\ Out(j)'
        BY <1>2, <1>3, <3>2, NewReadyIsOut
      <4>2. i = j
        <5>1. i \in Nat /\ j \in Nat /\ i \in Rosters' /\ j \in Rosters'
          BY <1>5
        <5>2. ~(i < j) /\ ~(j < i)
          BY <1>8, <1>10, <4>1, <5>1 DEF OnlyLastOut
        <5> QED BY <5>1, <5>2
      <4>3. Id(q)' = x.id /\ Id(j)' = x.id
        BY <1>4, <3>2, <4>1 DEF Id
      <4> QED BY <2>1, <4>2, <4>3
    <3> QED BY <1>4, <3>1, <3>2
  <2>5. Held(Id(i))'
    BY <1>3, <1>9, <2>1, <2>2, <2>3, <2>4 DEF Held
  <2>6. Backed(i)'
    <3>1. Records("peers", i)' = Records("peers", i)
      <4>1. i \in 0 .. Len(room)
        BY <1>4, <1>5
      <4> QED BY <1>4, <4>1 DEF Records
    <3>2. \A p \in Records("peers", i) : p \in 1 .. Len(room)
      BY <1>4, <1>5 DEF Records
    <3>3. \A p \in Records("peers", i) : Id(p)' = Id(p)
      BY <1>4, <3>2
    <3> QED BY <1>4, <2>1, <2>2, <2>3, <3>1, <3>3 DEF Backed
  <2> QED BY <2>5, <2>6
<1>11. OutIsHeld'
  BY <1>5, <1>10 DEF OutIsHeld
<1>12. NoneOut => NoneOut'
  BY <1>5, <1>6 DEF NoneOut
<1> QED BY <1>5, <1>6, <1>7, <1>8, <1>11, <1>12

LEMMA RunsStay ==
  ASSUME UNCHANGED <<place, todo>>, SigningFree, LeavingFree, RetreatingFree, NoneOut => NoneOut',
         Rosters' = Rosters,
         \A i \in Rosters : /\ Out(i)' => Out(i)
                            /\ Protects(Id(i))' = Protects(Id(i))
  PROVE  SigningFree' /\ LeavingFree' /\ RetreatingFree'
<1>1. SigningFree' /\ LeavingFree'
  BY DEF SigningFree, LeavingFree, Ends
<1>2. RetreatingFree'
  BY DEF RetreatingFree
<1> QED BY <1>1, <1>2

\* The participants and the referee.
LEMMA HeldByOthers ==
  ASSUME Base, Base', HeldInv, ~Outrun', UNCHANGED <<dbVars, readVars, runVars, over>>,
         room' = room \/ \E x : room' = Append(room, x) /\ x.kind # "roster"
  PROVE  HeldInv'
<1>1. UNCHANGED <<phase, team, action, epoch, known, done, place, todo>>
  BY DEF dbVars, readVars, runVars
<1>2. CASE room' = room
  <2>1. TypeOK /\ RoomInv /\ RowsStand
    BY <1>1, RowsSame DEF Base, Facts
  <2>2. PendingRosters' = PendingRosters /\ Rosters' = Rosters
    BY <1>1, <1>2 DEF PendingRosters, Ids, Rosters, Records
  <2>3. \A i \in Rosters : (Out(i)' => Out(i)) /\ Protects(Id(i))' = Protects(Id(i))
    BY <1>1, <1>2, <2>1, OutKept, KeptAlone
  <2>4. NoneOut => NoneOut'
    BY <1>2, <2>1, NoneOutKept
  <2>5. SigningFree' /\ LeavingFree' /\ RetreatingFree'
    BY <1>1, <2>2, <2>3, <2>4, RunsStay DEF HeldInv
  <2> QED BY <1>1, <1>2, <2>1, <2>2, <2>5, HeldThrough
<1>3. CASE \E x : room' = Append(room, x) /\ x.kind # "roster"
  <2>1. PICK x : room' = Append(room, x) /\ x.kind # "roster"
    BY <1>3
  <2>2. /\ OnlyLastOut' /\ OutIsHeld' /\ Rosters' = Rosters
        /\ NoneOut => NoneOut'
        /\ \A i \in Rosters : /\ Out(i)' => Out(i)
                              /\ Protects(Id(i))' = Protects(Id(i))
    BY <2>1, HeldGrows
  <2>3. SigningFree' /\ LeavingFree' /\ RetreatingFree'
    BY <1>1, <2>2, RunsStay DEF HeldInv
  <2> QED BY <2>2, <2>3 DEF HeldInv
<1> QED BY <1>2, <1>3

LEMMA PeersHeld ==
  ASSUME Base, Base', HeldInv, ~Outrun', NEW g \in Game, PeersSign(g)
  PROVE  HeldInv'
<1> DEFINE x == [kind |-> "peers", id |-> g]
<1>1. room' = Append(room, x) /\ x.kind # "roster"
      /\ UNCHANGED <<dbVars, readVars, runVars, over>>
  BY DEF PeersSign
<1> HIDE DEF x
<1> QED BY <1>1, HeldByOthers

LEMMA RefereeHeld ==
  ASSUME Base, Base', HeldInv, ~Outrun', RefereeJudges
  PROVE  HeldInv'
<1>1. UNCHANGED <<dbVars, readVars, runVars, over>>
  BY DEF RefereeJudges
<1>2. ASSUME NEW kind \in ReceiptKinds, NEW r, Answer(kind, r)
      PROVE  \E x : room' = Append(room, x) /\ x.kind # "roster"
  <2> DEFINE x == [kind |-> kind, id |-> r]
  <2>1. room' = Append(room, x) /\ x.kind # "roster"
    BY <1>2 DEF Answer, ReceiptKinds
  <2> HIDE DEF x
  <2> QED BY <2>1
<1>3. room' = room \/ \E kind \in ReceiptKinds : \E r : Answer(kind, r)
  BY DEF RefereeJudges, JudgeRoster, JudgeWithdrawal, JudgePeers, ReceiptKinds
<1>4. room' = room \/ \E x : room' = Append(room, x) /\ x.kind # "roster"
  BY <1>2, <1>3
<1> QED BY <1>1, <1>4, HeldByOthers

\* When nothing is out and no withdrawal outrun, every receipt that says ready is done.
LEMMA AllReadyDone ==
  ASSUME Base, NoneOut, ~Outrun, Unprocessed = {}, NEW q \in Records("ready", Len(room))
  PROVE  q \in done
<1>1. TypeOK /\ RoomInv /\ RefereeInv /\ ReadInv
  BY DEF Base, Facts
<1>2. q \in 1 .. Len(room) /\ room[q].kind = "ready"
  BY DEF Records
<1>3. PICK j \in 1 .. judged : room[j].kind = "roster" /\ Id(j) = Id(q)
  BY <1>1, <1>2, ReceiptFocus DEF ReceiptKinds
<1>4. j \in Rosters /\ j \in 1 .. Len(room)
  BY <1>1, <1>3, Basics DEF Rosters, Records
<1>5. ~Out(j)
  BY <1>4 DEF NoneOut
<1>6. CASE GameOf(room[j].id) \in over
  <2>1. PICK p \in Records("ready", known) : GameOf(Id(p)) = GameOf(room[j].id)
    BY <1>1, <1>6 DEF ReadInv
  <2>2. p \in Records("ready", Len(room)) /\ p \in 1 .. known
    BY <1>1, <2>1, Basics DEF Records
  <2>3. p = q
    BY <1>1, <1>3, <2>1, <2>2 DEF RefereeInv, Id
  <2> QED BY <1>2, <2>2, <2>3 DEF Unprocessed, ReceiptKinds
<1>7. \A p \in Records("refused", Len(room)) : room[p].id # room[j].id
  BY <1>1, <1>3 DEF RefereeInv, Id
<1>8. ASSUME NEW w \in Records("withdraw", Len(room)), GameOf(room[w].id) = GameOf(room[j].id), ~(w < j)
      PROVE  FALSE
  <2>1. j < w
    BY <1>1, <1>3, <1>4, <1>8, Basics DEF Records
  <2> QED BY <1>3, <1>4, <1>8, <2>1 DEF Outrun, Rosters, Id
<1> QED BY <1>5, <1>6, <1>7, <1>8 DEF Out

LEMMA SignedHeld ==
  ASSUME Base, Base', HeldInv, ~Outrun, CommitPost, place = "returning", SignAt(3)
  PROVE  HeldInv'
<1>1. TypeOK /\ TypeOK' /\ RoomInv /\ ActionInv /\ Unprocessed = {}
  BY DEF Base, Facts, RunInv
<1>2. todo = Rest(Signing, 3) /\ NoneOut
  BY ProgramFree DEF SignAt
<1>3. PICK r : r = focus
  OBVIOUS
<1>4. /\ r \in PendingRosters /\ r \in Ids("roster") /\ GameOf(r) = team /\ ~Sent(r) /\ team \in Game
      /\ epoch = NoEpoch \/ Protects(r)
      /\ epoch.game = team \/ (epoch = NoEpoch /\ PeersComplete(team))
  BY <1>3 DEF SignAt, Drafted, EpochFits
<1>5. /\ UNCHANGED <<phase, team, action, epoch, known, done, over>>
      /\ \/ room' = room
         \/ room' = Append(room, [kind |-> action[r].kind, id |-> r])
      /\ \/ todo' = Tail(todo) /\ place' = "returning"
         \/ place' = "idle"
  BY <1>3 DEF CommitPost, EndCycle, Run, dbVars, readVars
<1>6. RowsStand /\ PendingRosters' = PendingRosters
  BY <1>1, <1>5, RowsSame
<1>7. CASE room' = room
  BY <1>1, <1>2, <1>5, <1>6, <1>7, NoneOutKept, NothingOutNext
<1>8. CASE room' = Append(room, [kind |-> action[r].kind, id |-> r])
  <2> DEFINE x == [kind |-> action[r].kind, id |-> r]
  <2>0. PICK n \in Nat : n = Len(room) + 1
    BY <1>1, Basics
  <2>1. room' = Append(room, x) /\ x.kind = "roster" /\ x.id = r
    BY <1>4, <1>8 DEF Ids
  <2> HIDE DEF x
  <2>2. x \in Record /\ Len(room) < MaxRoom
    BY <1>1, <2>1, AppendedRecord
  <2>3. /\ Len(room) \in Nat /\ Len(room') = n /\ room'[n] = x
        /\ \A i \in 1 .. Len(room) : room'[i] = room[i] /\ Id(i)' = Id(i)
        /\ \A k : Records(k, Len(room))' = Records(k, Len(room))
                                              \cup (IF x.kind = k THEN {n} ELSE {})
        /\ \A k : \A m \in 0 .. Len(room) : {i \in 1 .. m : room'[i].kind = k} = Records(k, m)
        /\ \A a : GameOf(a)' = GameOf(a)
    BY <1>1, <1>5, <2>0, <2>1, <2>2, Grown
  <2>4. Rosters' = Rosters \cup {n} /\ \A i \in Rosters : i \in 1 .. Len(room)
    BY <2>1, <2>3 DEF Rosters, Records
  <2>5. \A i \in Rosters : ~Out(i)'
    BY <1>1, <1>2, <1>5, <2>1, <2>2, OutGrown DEF NoneOut
  <2>6. OnlyLastOut'
    <3> SUFFICES ASSUME NEW i \in Rosters', NEW j \in Rosters', i < j PROVE ~Out(i)'
      BY DEF OnlyLastOut
    <3>1. i # n
      BY <2>0, <2>3, <2>4
    <3> QED BY <2>4, <2>5, <3>1
  <2>7. Id(n)' = r
    BY <2>1, <2>3 DEF Id
  <2>8. /\ Records("ready", Len(room))' = Records("ready", Len(room))
        /\ \A q \in Records("ready", Len(room)) : q \in done
    <3>1. Records("ready", Len(room))' = Records("ready", Len(room))
      BY <2>1, <2>3
    <3>2. \A q \in Records("ready", Len(room)) : q \in done
      BY <1>1, <1>2, AllReadyDone
    <3> QED BY <3>1, <3>2
  <2>9. Records("ready", known)' = Records("ready", known)
        /\ \A q \in Records("ready", known) : q \in 1 .. Len(room) /\ Id(q) # r
    <3>1. known \in 0 .. Len(room) /\ known' = known
      BY <1>1, <1>5 DEF TypeOK
    <3>2. Records("ready", known)' = Records("ready", known)
      BY <2>3, <3>1 DEF Records
    <3>3. \A q \in Records("ready", known) : q \in 1 .. Len(room) /\ room[q].kind # "peers"
      BY <2>3, <3>1 DEF Records
    <3> QED BY <1>4, <3>2, <3>3 DEF Sent
  <2>10. Held(r)'
    <3>1. \A s \in PendingRosters' : s = r
      BY <1>1, <1>4, <1>6 DEF ActionInv
    <3>2. r \in PendingRosters'
      BY <1>4, <1>6
    <3>3. \A q \in Records("ready", Len(room))' : q \notin done' => Id(q)' = r
      BY <1>5, <2>8
    <3>4. \A q \in Records("ready", known)' : Id(q)' # r
      BY <2>3, <2>9
    <3> QED BY <3>1, <3>2, <3>3, <3>4 DEF Held
  <2>11. Backed(n)'
    <3>1. CASE Protects(r)
      <4>1. Protects(r)'
        BY <1>5, <2>3, <3>1 DEF Protects, PossiblyConsented
      <4> QED BY <2>7, <4>1 DEF Backed
    <3>2. CASE epoch = NoEpoch
      <4>1. PeersComplete(team)
        BY <1>4, <3>2 DEF NoEpoch, NoGame, Game
      <4>2. PICK p \in Records("peers", known) : room[p].id = team
        BY <4>1 DEF PeersComplete
      <4>3. p \in 1 .. Len(room) /\ room[p].kind = "peers"
        BY <1>1, <4>2, Basics DEF Records
      <4>4. p \in Records("peers", n)' /\ Id(p)' = team
        BY <2>0, <2>3, <4>2, <4>3 DEF Records, Id
      <4>5. GameOf(Id(n))' = team
        BY <1>4, <2>3, <2>7 DEF GameOf
      <4> QED BY <4>4, <4>5 DEF Backed
    <3> QED BY <1>4, <3>1, <3>2
  <2>12. OutIsHeld'
    <3> SUFFICES ASSUME NEW i \in Rosters', Out(i)' PROVE Held(Id(i))' /\ Backed(i)'
      BY DEF OutIsHeld
    <3>1. i = n
      BY <2>4, <2>5
    <3>2. Held(Id(n))'
      BY <2>7, <2>10
    <3> QED BY <2>11, <3>1, <3>2
  <2>13. SigningFree' /\ LeavingFree' /\ RetreatingFree'
    <3>1. CASE place' = "idle"
      BY <3>1, RunsElsewhere
    <3>2. CASE todo' = Tail(todo) /\ place' = "returning"
      <4>1. Len(todo') = 1
        <5>1. Signing \in Seq(Commits) /\ Len(Signing) = 5
          BY Programs
        <5>2. 3 \in Nat /\ 3 <= Len(Signing)
          BY <5>1
        <5>3. Rest(Signing, 3) \in Seq(Commits) /\ Len(Rest(Signing, 3)) = Len(Signing) - 3
          BY <5>1, <5>2, Rests
        <5>4. todo \in Seq(Commits) /\ Len(todo) = 2
          BY <1>2, <5>1, <5>3
        <5> HIDE DEF Commits
        <5> QED BY <3>2, <5>4
      <4>2. ~(Len(todo') > 1) /\ ~(Len(todo') > 2)
        BY <4>1
      <4>3. (Len(todo) > 1)' = (Len(todo') > 1) /\ (Len(todo) > 2)' = (Len(todo') > 2)
        OBVIOUS
      <4>4. SigningFree'
        BY <4>2 DEF SigningFree
      <4>5. LeavingFree'
        BY <4>2 DEF LeavingFree
      <4>6. RetreatingFree'
        BY <3>2 DEF RetreatingFree
      <4> QED BY <4>4, <4>5, <4>6
    <3> QED BY <1>5, <3>1, <3>2
  <2> QED BY <2>6, <2>12, <2>13 DEF HeldInv
<1> QED BY <1>5, <1>7, <1>8

LEMMA HeldInSigning ==
  ASSUME Base, Base', HeldInv, ~Outrun, Transaction, place = "returning", SignInv
  PROVE  HeldInv'
<1> DEFINE c == Head(todo)
<1>0. todo # <<>> /\ Head(todo) = c
  BY TransactionIs
<1>1. PICK k \in 0 .. 4 :
            /\ SignAt(k)
            /\ \/ (k = 0 /\ c = "intend") \/ (k = 1 /\ c = "consent") \/ (k = 2 /\ c = "reserve")
               \/ (k = 3 /\ c = "post") \/ (k = 4 /\ c = "wait")
  BY <1>0, InSigning
<1> HIDE DEF c
<1>2. CASE k \in 0 .. 2
  <2>1. NoneOut
    BY <1>1, <1>2, ProgramFree DEF SignAt
  <2>2. c # "post"
    BY <1>1, <1>2
  <2> QED BY <1>0, <2>1, <2>2, NothingToHold
<1>3. CASE k = 3 /\ c = "post"
  <2>1. CommitPost
    BY <1>0, <1>3, TransactionIs
  <2> QED BY <1>1, <1>3, <2>1, SignedHeld
<1>4. CASE c = "wait"
  <2>1. phase # "WRITING"
    BY DEF Base, RunInv
  <2> QED BY <1>0, <1>4, <2>1, HeldMoves
<1> QED BY <1>1, <1>2, <1>3, <1>4

\* A withdrawal goes out, or the attempt ends the cycle.
LEMMA WithdrawnHeld ==
  ASSUME Base, Base', HeldInv, ~Outrun', CommitPost, place = "returning", FleeAt(3)
  PROVE  HeldInv'
<1>1. TypeOK /\ RoomInv
  BY DEF Base, Facts
<1>2. PICK a : a = focus
  OBVIOUS
<1>3. /\ todo # <<>> /\ action[a].kind = "withdraw"
      /\ UNCHANGED <<dbVars, readVars, phase, team, action, epoch, known, done, over>>
      /\ \/ room' = room /\ place' = "idle"
         \/ /\ room' = Append(room, [kind |-> action[a].kind, id |-> a])
            /\ \/ todo' = Tail(todo) /\ place' = place
               \/ place' = "idle"
  <2>1. action[a].kind = "withdraw"
    BY <1>2 DEF FleeAt, SentWithdrawal, Ids
  <2> QED BY <1>2, <2>1 DEF CommitPost, EndCycle, Run, dbVars, readVars
<1>4. RowsStand /\ PendingRosters' = PendingRosters
  BY <1>1, <1>3, RowsSame
<1>5. CASE room' = room /\ place' = "idle"
  <2>1. SigningFree' /\ LeavingFree' /\ RetreatingFree'
    BY <1>5, RunsElsewhere
  <2> QED BY <1>3, <1>4, <1>5, <2>1, HeldThrough
<1>6. CASE room' = Append(room, [kind |-> action[a].kind, id |-> a])
           /\ ((todo' = Tail(todo) /\ place' = place) \/ place' = "idle")
  <2> DEFINE x == [kind |-> action[a].kind, id |-> a]
  <2>1. room' = Append(room, x) /\ x.kind # "roster"
    BY <1>3, <1>6
  <2> HIDE DEF x
  <2>2. /\ OnlyLastOut' /\ OutIsHeld' /\ Rosters' = Rosters
        /\ NoneOut => NoneOut'
        /\ \A i \in Rosters : Out(i)' => Out(i)
    BY <1>3, <2>1, HeldGrows
  <2>3. SigningFree' /\ LeavingFree' /\ RetreatingFree'
    <3>1. CASE place' = "idle"
      BY <3>1, RunsElsewhere
    <3>2. CASE todo' = Tail(todo) /\ place' = place
      BY <1>1, <1>3, <2>2, <3>2, RunsOn DEF HeldInv
    <3> QED BY <1>6, <3>1, <3>2
  <2> QED BY <2>2, <2>3 DEF HeldInv
<1> QED BY <1>3, <1>5, <1>6

LEMMA HeldInFleeing ==
  ASSUME Base, Base', HeldInv, ~Outrun', Transaction, place = "returning", FleeInv
  PROVE  HeldInv'
<1> DEFINE c == Head(todo)
<1>0. todo # <<>> /\ Head(todo) = c
  BY TransactionIs
<1>1. PICK k \in 0 .. 4 :
            /\ FleeAt(k)
            /\ \/ (k = 0 /\ c = "flee") \/ (k = 1 /\ c = "fleeEpoch") \/ (k = 2 /\ c = "reserve")
               \/ (k = 3 /\ c = "post") \/ (k = 4 /\ c = "posted")
  BY <1>0, InFleeing
<1> HIDE DEF c
<1>2. CASE c = "flee"
  <2>1. RowsStand /\ SigningFree' /\ LeavingFree' /\ RetreatingFree'
    BY <1>0, <1>2, TransactionRows, TransactionRuns
  <2>2. UNCHANGED <<room, known, done, over, epoch, phase, team>>
    BY <1>0, <1>2, TransactionFrame
  <2>3. CommitIntent
    BY <1>0, <1>2, TransactionIs DEF NewKind
  <2>4. PendingRosters' = PendingRosters
    BY <2>3, IntentCommits
  <2> QED BY <2>1, <2>2, <2>4, HeldThrough
<1>3. CASE c = "fleeEpoch"
  BY <1>0, <1>3, HeldNotes
<1>4. CASE k \in {2, 4} /\ c \in {"reserve", "posted"}
  <2>1. focus \notin Ids("roster")
    BY <1>1, <1>4 DEF FleeAt, SentWithdrawal, Doubted, Ids
  <2> QED BY <1>0, <1>4, <2>1, HeldStatus
<1>5. CASE k = 3 /\ c = "post"
  <2>1. CommitPost
    BY <1>0, <1>5, TransactionIs
  <2> QED BY <1>1, <1>5, <2>1, WithdrawnHeld
<1> QED BY <1>1, <1>2, <1>3, <1>4, <1>5

LEMMA TransactionHeld ==
  ASSUME Base, Base', HeldInv, ~Outrun, ~Outrun', Transaction
  PROVE  HeldInv'
<1>1. todo # <<>>
  <2>1. PICK c : Head(todo) = c
    OBVIOUS
  <2> QED BY <2>1, TransactionIs
<1> QED BY <1>1, Somewhere, HeldInReceipts, HeldInChoosing, HeldInWaiting, HeldInSigning,
           HeldInGivingUp, HeldInLeaving, HeldInFleeing, HeldInDoubting

-----------------------------------------------------------------------------
\* The steps that only change what runs.

LEMMA HeldRuns ==
  ASSUME Base, HeldInv, UNCHANGED <<dbVars, readVars, worldVars>>,
         SigningFree', LeavingFree', RetreatingFree'
  PROVE  HeldInv'
<1>1. TypeOK
  BY DEF Base, Facts
<1>2. UNCHANGED <<phase, team, action, epoch, known, room, done, PendingRosters, over>>
  BY RunLeaves DEF worldVars
<1>3. RowsStand
  BY <1>1, <1>2, RowsSame
<1> QED BY <1>2, <1>3, HeldThrough

LEMMA HeldElsewhere ==
  ASSUME Base, HeldInv, UNCHANGED <<dbVars, readVars, worldVars>>,
         place' \notin {"returning", "choosing"}
  PROVE  HeldInv'
BY HeldRuns, RunsElsewhere

\* A program that begins, and is not one of those that need that nothing is out.
LEMMA HeldReturns ==
  ASSUME Base, HeldInv, UNCHANGED <<dbVars, readVars, worldVars>>, place' = "returning",
         ~Ends("wait")', ~Ends("discover")'
  PROVE  HeldInv'
<1>1. SigningFree' /\ LeavingFree' /\ RetreatingFree'
  BY DEF SigningFree, LeavingFree, RetreatingFree
<1> QED BY <1>1, HeldRuns

LEMMA LeavesRuns ==
  ASSUME UNCHANGED <<dbVars, readVars, worldVars>>
  PROVE  /\ NoneOut' = NoneOut /\ Rosters' = Rosters
         /\ \A i \in Rosters : Out(i)' = Out(i) /\ Protects(Id(i))' = Protects(Id(i))
<1>1. UNCHANGED <<action, room, over, epoch>>
  BY DEF dbVars, worldVars
<1>2. Rosters' = Rosters /\ \A i : Out(i)' = Out(i) /\ Protects(Id(i))' = Protects(Id(i))
  BY <1>1 DEF Rosters, Records, Out, Protects, PossiblyConsented, GameOf, Id
<1> QED BY <1>2 DEF NoneOut

LEMMA StutterHeld ==
  ASSUME Base, HeldInv, UNCHANGED vars
  PROVE  HeldInv'
<1>1. UNCHANGED <<dbVars, readVars, worldVars>> /\ UNCHANGED <<place, todo>>
  BY DEF vars, runVars
<1>2. SigningFree' /\ LeavingFree' /\ RetreatingFree'
  BY <1>1, LeavesRuns, RunsStay DEF HeldInv
<1> QED BY <1>1, <1>2, HeldRuns

\* The room shows a withdrawal from the team: what it is from is not out.
LEMMA SeenIsNotOut ==
  ASSUME Base, Oldest # NoAction, ReadBack(Oldest), NEW i \in Rosters, GameOf(Id(i)) = GameOf(Oldest)
  PROVE  ~Out(i)
<1>1. TypeOK /\ RoomInv /\ WithdrawalInv
  BY DEF Base, Facts
<1>2. Oldest \in Ids("withdraw")
  BY <1>1, UnresolvedIs DEF Oldest
<1>3. PICK j \in Records("withdraw", known) : room[j].id = Oldest
  BY <1>2 DEF ReadBack, Ids
<1>4. j \in Records("withdraw", Len(room)) /\ j \in 1 .. Len(room) /\ room[j].kind \in Kinds
      /\ Id(j) = Oldest
  BY <1>1, <1>3, Basics DEF Records, Kinds, Id
<1>5. action[Oldest].status # "none"
  BY <1>1, <1>4 DEF RoomInv
<1> QED BY <1>1, <1>4, <1>5 DEF WithdrawalInv

LEMMA ReconcileHeld ==
  ASSUME Base, HeldInv, ReconcileRetreat
  PROVE  HeldInv'
<1>1. /\ Oldest # NoAction /\ GameOf(Oldest) = epoch.game /\ ReadBack(Oldest)
      /\ place' = "choosing" /\ UNCHANGED <<dbVars, readVars, worldVars>>
  BY DEF ReconcileRetreat, RetreatSeen, Run, Oldest
<1>2. \A i \in Rosters : Out(i) => ~Protects(Id(i))
  BY <1>1, SeenIsNotOut DEF Protects
<1>3. RetreatingFree'
  BY <1>1, <1>2, LeavesRuns DEF RetreatingFree
<1>4. SigningFree' /\ LeavingFree'
  BY <1>1 DEF SigningFree, LeavingFree
<1> QED BY <1>1, <1>3, <1>4, HeldRuns

LEMMA GiveUpHeld ==
  ASSUME Base, HeldInv, GiveUp
  PROVE  HeldInv'
<1>1. /\ place' = "returning" /\ todo' = <<"abandon", "expire">>
      /\ UNCHANGED <<dbVars, readVars, worldVars>>
  BY DEF GiveUp, Run
<1>2. todo'[Len(todo')] = "expire"
  BY <1>1
<1>3. ~Ends("wait")' /\ ~Ends("discover")'
  BY <1>2 DEF Ends
<1> QED BY <1>1, <1>3, HeldReturns

LEMMA DoubtedHeld ==
  ASSUME Base, HeldInv, NEW r, ConsentDoubted(r)
  PROVE  HeldInv'
<1>1. /\ place' = "returning" /\ todo' = <<"doubt", "doubtEpoch">>
      /\ UNCHANGED <<dbVars, readVars, worldVars>>
  BY DEF ConsentDoubted, Run
<1>2. todo'[Len(todo')] = "doubtEpoch"
  BY <1>1
<1>3. ~Ends("wait")' /\ ~Ends("discover")'
  BY <1>2 DEF Ends
<1> QED BY <1>1, <1>3, HeldReturns

LEMMA SafeWithdrawHeld ==
  ASSUME Base, HeldInv, NEW r, SafeWithdraw(r)
  PROVE  HeldInv'
<1>1. /\ place' = "returning" /\ UNCHANGED <<dbVars, readVars, worldVars>>
      /\ \/ todo' = <<"flee", "fleeEpoch", "reserve", "post", "posted">>
         \/ todo' = <<"post", "posted">>
  BY DEF SafeWithdraw, Run
<1>2. todo'[Len(todo')] = "posted"
  <2> DEFINE t == todo'
  <2>1. CASE t = <<"flee", "fleeEpoch", "reserve", "post", "posted">>
    BY <2>1
  <2>2. CASE t = <<"post", "posted">>
    BY <2>2
  <2> QED BY <1>1, <2>1, <2>2
<1>3. ~Ends("wait")' /\ ~Ends("discover")'
  BY <1>2 DEF Ends
<1> QED BY <1>1, <1>3, HeldReturns

LEMMA RetreatConfirmedHeld ==
  ASSUME Base, HeldInv, NEW r, RetreatConfirmed(r)
  PROVE  HeldInv'
<1>1. TypeOK /\ RoomInv
  BY DEF Base, Facts
<1>2. /\ r = Pending("roster") /\ r # NoAction /\ RetreatOf(r) # NoAction /\ ReadBack(RetreatOf(r))
      /\ UNCHANGED <<dbVars, readVars, worldVars>>
  BY DEF RetreatConfirmed, Waiting, Run
<1>3. RetreatOf(r) = Oldest /\ GameOf(Oldest) = GameOf(r)
  BY <1>2 DEF RetreatOf, Oldest
<1>4. r \in PendingRosters
  BY <1>1, <1>2, PendingIsPending DEF PendingRosters
<1>5. NoneOut
  <2> SUFFICES ASSUME NEW i \in Rosters, Out(i) PROVE FALSE
    BY DEF NoneOut
  <2>1. Id(i) = r
    BY <1>4 DEF HeldInv, OutIsHeld, Held
  <2> QED BY <1>2, <1>3, <2>1, SeenIsNotOut
<1> QED BY <1>2, <1>5, LeavesRuns, NothingOutNext

\* What keeps a consent does not hang on the step's own place in the cycle.
LEMMA BeginsHeld ==
  ASSUME Base, HeldInv,
         \/ \E i \in 1 .. known : Handle(i)
         \/ ReceiptsDone \/ CycleEnds \/ Crash
         \/ \E r \in Ids("roster") : ConsentConfirmed(r)
  PROVE  HeldInv'
<1>1. UNCHANGED <<dbVars, readVars, worldVars>> /\ place' \notin {"returning", "choosing"}
  BY DEF Handle, ReceiptsDone, CycleEnds, Crash, ConsentConfirmed, Waiting, Run, EndCycle
<1> QED BY <1>1, HeldElsewhere

-----------------------------------------------------------------------------
\* The steps that read the room, take up an epoch, apply, sign or end a game.

LEMMA ReadHeld ==
  ASSUME Base, HeldInv, NEW upTo, Read(upTo)
  PROVE  HeldInv'
<1>1. TypeOK /\ RoomInv
  BY DEF Base, Facts
<1>2. /\ upTo \in known .. Len(room) /\ known' = upTo /\ place' = "receipts"
      /\ UNCHANGED <<phase, team, action, epoch, done, room, over>>
  BY DEF Read, Run, dbVars, worldVars
<1>3. known \in Nat /\ known' \in Nat /\ known <= known' /\ known' <= Len(room) /\ Len(room) \in Nat
  BY <1>1, <1>2, Basics
<1>4. RowsStand /\ PendingRosters' = PendingRosters
  BY <1>1, <1>2, RowsSame
<1>5. Rosters' = Rosters /\ (\A n \in Nat : \A k : Records(k, n)' = Records(k, n)) /\ (\A i : Id(i)' = Id(i))
      /\ Records("ready", Len(room))' = Records("ready", Len(room))
  BY <1>2 DEF Rosters, Records, Id
<1>6. Records("ready", known) \subseteq Records("ready", known)'
      /\ Records("ready", known)' \subseteq Records("ready", Len(room))
  BY <1>2, <1>3 DEF Records
<1>7. Unprocessed \subseteq Unprocessed'
  BY <1>2, <1>3 DEF Unprocessed
<1>8. \A q \in Records("ready", known)' : q \in Records("ready", known) \/ q \in Unprocessed'
  <2> SUFFICES ASSUME NEW q \in Records("ready", known)', q \notin Records("ready", known)
               PROVE  q \in Unprocessed'
    OBVIOUS
  <2>1. q \in 1 .. known' /\ room[q].kind = "ready"
    BY <1>2 DEF Records
  <2>2. q \notin 1 .. known
    BY <2>1 DEF Records
  <2>3. q \notin done
    BY <1>1, <2>2 DEF TypeOK
  <2> QED BY <1>2, <2>1, <2>3 DEF Unprocessed, ReceiptKinds
<1>9. SigningFree' /\ LeavingFree' /\ RetreatingFree'
  BY <1>2, RunsElsewhere
<1>10. ASSUME NEW i \in Rosters, Out(i), Out(i)'
       PROVE  Held(Id(i))' /\ Backed(i)'
  <2> DEFINE r == Id(i)
  <2>1. Held(r) /\ Backed(i) /\ r' = r
    BY <1>5, <1>10 DEF HeldInv, OutIsHeld
  <2>2. Protects(r)' = Protects(r) /\ WritesFor(r)' = WritesFor(r)
    BY <1>1, <1>2, <1>4, KeptAlone
  <2>3. ReadyKnown(r) => ReadyKnown(r)'
    BY <1>5, <1>6 DEF ReadyKnown
  <2>4. Unhandled(r) => Unhandled(r)'
    BY <1>5, <1>7 DEF Unhandled
  <2>5. Backed(i)'
    <3>1. GameOf(Id(i))' = GameOf(Id(i)) /\ i \in Nat
      BY <1>1, <1>2, <1>4, KeptAlone, Basics DEF Rosters, Records
    <3>2. (\E p \in Records("peers", i) : Id(p) = GameOf(Id(i))) =>
          (\E p \in Records("peers", i) : Id(p) = GameOf(Id(i)))'
      BY <1>5, <3>1
    <3> QED BY <2>1, <2>2, <2>3, <3>2 DEF Backed
  <2>6. \A s \in PendingRosters' : s = r
    BY <1>4, <2>1 DEF Held
  <2>7. \/ r \in PendingRosters'
        \/ Unhandled(r)'
        \/ Protects(r)'
        \/ WritesFor(r)' /\ ReadyKnown(r)'
    BY <1>4, <2>1, <2>2, <2>3, <2>4 DEF Held
  <2>8. \A q \in Records("ready", Len(room))' : q \notin done' => Id(q)' = r
    BY <1>2, <1>5, <2>1 DEF Held
  <2>9. \A q \in Records("ready", known)' : Id(q)' = r => q \in Unprocessed' \/ WritesFor(r)'
    BY <1>5, <1>7, <1>8, <2>1, <2>2 DEF Held
  <2>10. Held(r)'
    BY <2>1, <2>6, <2>7, <2>8, <2>9 DEF Held
  <2> QED BY <2>5, <2>10
<1> QED BY <1>1, <1>2, <1>4, <1>9, <1>10, HeldAssembled

LEMMA BootstrapHeld ==
  ASSUME Base, HeldInv, Bootstrap
  PROVE  HeldInv'
<1>1. TypeOK
  BY DEF Base, Facts
<1>2. /\ place' \in {"deciding", "waiting"} /\ epoch = NoEpoch
      /\ UNCHANGED <<phase, team, action, known, done, room, over>>
  BY DEF Bootstrap, BootstrapDue, readVars, runVars, worldVars
<1>3. RowsStand /\ PendingRosters' = PendingRosters
  BY <1>1, <1>2, RowsSame
<1>4. \A i \in Rosters : ~Protects(Id(i))
  BY <1>2 DEF Protects, PossiblyConsented, Possibly, Unresolved, NoEpoch
<1>5. SigningFree' /\ LeavingFree' /\ RetreatingFree'
  BY <1>2, RunsElsewhere
<1> QED BY <1>2, <1>3, <1>4, <1>5, HeldThrough

LEMMA ApplyHeld ==
  ASSUME Base, HeldInv, NEW g \in Game, Apply(g)
  PROVE  HeldInv'
<1> DEFINE x == [kind |-> "application", game |-> g, delivery |-> "CONFIRMED", status |-> "pending"]
<1>1. TypeOK
  BY DEF Base, Facts
<1>2. /\ place' = "idle" /\ epoch = NoEpoch /\ Len(action) < MaxActions /\ action' = Append(action, x)
      /\ UNCHANGED <<phase, team, known, done, room, over>>
  BY DEF Apply, Free, EndCycle, Run, readVars, worldVars
<1>3. x \in Row /\ x.kind # "roster"
  BY DEF Row, Kinds, Deliveries, Statuses
<1> HIDE DEF x
<1>4. RowsStand /\ PendingRosters' = PendingRosters
  BY <1>1, <1>2, <1>3, RowEffect
<1>5. \A i \in Rosters : ~Protects(Id(i))
  BY <1>2 DEF Protects, PossiblyConsented, Possibly, Unresolved, NoEpoch
<1>6. SigningFree' /\ LeavingFree' /\ RetreatingFree'
  BY <1>2, RunsElsewhere
<1> QED BY <1>2, <1>4, <1>5, <1>6, HeldThrough

\* Saruku countersigns when no consent of its own is out.
LEMMA CountersignHeld ==
  ASSUME Base, HeldInv, NEW g \in Game, Countersign(g)
  PROVE  HeldInv'
<1>1. TypeOK /\ RoomInv
  BY DEF Base, Facts
<1>2. /\ Free /\ Pending("roster") = NoAction /\ UNCHANGED <<action, room, over>>
  BY DEF Countersign, MayCountersign, worldVars
<1>3. phase = "DISCOVERY" /\ Unprocessed = {} /\ ~PossiblyConsented
  BY <1>2, FreeUnsent DEF Free
<1>4. PendingRosters = {}
  BY <1>1, <1>2, PendingIsPending DEF PendingRosters
<1>5. NoneOut
  <2> SUFFICES ASSUME NEW i \in Rosters, Out(i) PROVE FALSE
    BY DEF NoneOut
  <2>1. Held(Id(i))
    BY DEF HeldInv, OutIsHeld
  <2> QED BY <1>3, <1>4, <2>1 DEF Held, Unhandled, Protects, WritesFor
<1>6. RowsStand
  BY <1>1, <1>2, RowsSame
<1> QED BY <1>1, <1>2, <1>5, <1>6, NoneOutKept, NothingOutNext

LEMMA OverHeld ==
  ASSUME Base, HeldInv, GameOver
  PROVE  HeldInv'
<1>1. TypeOK /\ RoomInv
  BY DEF Base, Facts
<1>2. /\ place' = "idle" /\ over' = over \cup {team}
      /\ UNCHANGED <<action, epoch, known, done, room>>
  BY DEF GameOver, readVars, runVars
<1>3. RowsStand /\ PendingRosters' = PendingRosters
  BY <1>1, <1>2, RowsSame
<1>4. ASSUME NEW i \in Rosters, Out(i)', WritesFor(Id(i)) PROVE FALSE
  <2>1. GameOf(room[i].id)' = GameOf(room[i].id)
    BY <1>2 DEF GameOf
  <2> QED BY <1>2, <1>4, <2>1 DEF Out, WritesFor, Id
<1>5. SigningFree' /\ LeavingFree' /\ RetreatingFree'
  BY <1>2, RunsElsewhere
<1> QED BY <1>2, <1>3, <1>4, <1>5, HeldThrough

-----------------------------------------------------------------------------
\* Every step once more, and the theorem.

LEMMA HeldSteps ==
  ASSUME Base, Base', [Next]_vars, HeldInv, ~Outrun, ~Outrun'
  PROVE  HeldInv'
<1>1. CASE UNCHANGED vars
  BY <1>1, StutterHeld
<1>2. CASE Crash
  BY <1>2, BeginsHeld
<1>3. CASE World
  BY <1>3, RefereeHeld, OverHeld, PeersHeld DEF World
<1>4. CASE Daemon
  <2>1. ASSUME NEW upTo \in 0 .. Len(room), Read(upTo) PROVE HeldInv'
    BY <2>1, ReadHeld
  <2>2. ASSUME NEW g \in Game, Apply(g) PROVE HeldInv'
    BY <2>2, ApplyHeld
  <2>3. ASSUME NEW g \in Game, Countersign(g) PROVE HeldInv'
    BY <2>3, CountersignHeld
  <2>4. ASSUME NEW r \in Ids("roster"), RetreatConfirmed(r) PROVE HeldInv'
    BY <2>4, RetreatConfirmedHeld
  <2>5. ASSUME NEW r \in Ids("roster"), ConsentDoubted(r) PROVE HeldInv'
    BY <2>5, DoubtedHeld
  <2>6. ASSUME NEW r \in Ids("roster"), SafeWithdraw(r) PROVE HeldInv'
    BY <2>6, SafeWithdrawHeld
  <2>7. CASE \/ \E i \in 1 .. known : Handle(i)
             \/ ReceiptsDone \/ CycleEnds
             \/ \E r \in Ids("roster") : ConsentConfirmed(r)
    BY <2>7, BeginsHeld
  <2> QED
    BY <1>4, <2>1, <2>2, <2>3, <2>4, <2>5, <2>6, <2>7, BootstrapHeld, ReconcileHeld, GiveUpHeld,
       TransactionHeld DEF Daemon
<1> QED BY <1>1, <1>2, <1>3, <1>4 DEF Next

LEMMA InitHeld == Init => HeldInv
<1> SUFFICES ASSUME Init PROVE HeldInv
  OBVIOUS
<1>1. Rosters = {}
  BY DEF Init, Rosters, Records
<1> QED BY <1>1, NothingOut DEF NoneOut

\* The inductive invariant of OneConsentOut; a withdrawal once outrun stays outrun.
IInv == Base /\ (Outrun \/ HeldInv)

\* Whatever is lost, read late, rebuilt after a crash or given up, Saruku never has two
\* consents out that may count, neither to two teams nor twice to one, unless a withdrawal
\* of Saruku's was outrun by the signature that made its team ready.
THEOREM OneConsent == Spec => []OneConsentOut
<1>1. Init => IInv
  BY InitBase, InitHeld DEF IInv
<1>2. IInv /\ [Next]_vars => IInv'
  <2> SUFFICES ASSUME IInv, [Next]_vars PROVE IInv'
    OBVIOUS
  <2>1. Base /\ Base' /\ (Outrun \/ HeldInv)
    BY BaseSteps DEF IInv
  <2>2. Outrun => Outrun'
    BY <2>1, OutrunSteps
  <2>3. ~Outrun' => HeldInv'
    BY <2>1, <2>2, HeldSteps
  <2> QED BY <2>1, <2>3 DEF IInv
<1>3. IInv => OneConsentOut
  <2> SUFFICES ASSUME IInv, ~Outrun, NEW i \in Records("roster", Len(room)),
                      NEW j \in Records("roster", Len(room)), Out(i), Out(j)
               PROVE  i = j
    BY DEF OneConsentOut
  <2>1. OnlyLastOut /\ TypeOK
    BY DEF IInv, HeldInv, Base, Facts
  <2>2. i \in Nat /\ j \in Nat
    BY <2>1, Basics DEF Records
  <2>3. ~(i < j) /\ ~(j < i)
    BY <2>1 DEF OnlyLastOut, Rosters
  <2> QED BY <2>2, <2>3
<1> QED BY <1>1, <1>2, <1>3, PTL DEF Spec
=============================================================================
