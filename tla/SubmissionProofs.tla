--------------------------- MODULE SubmissionProofs ---------------------------
(***************************************************************************)
(* Proofs about Submission for any number of games, packets, receipts and   *)
(* crashes.                                                                 *)
(*                                                                         *)
(* The argument: a game has at most one packet because a second could only  *)
(* be made in SUBMIT, where the first, if there is one, is still unsettled  *)
(* and is found; and it finds the one slot for a pending request free       *)
(* because a game is not left before its own request has been answered.     *)
(* So whatever is posted is on record in both tables, receipts are matched  *)
(* to the right game, and the referee's constancy does the rest.            *)
(***************************************************************************)
EXTENDS Submission, TLAPS

USE BoundsAssumption

LEMMA Packets ==
  /\ \A r \in Packet : GameOf(r) \in Game
  /\ NoPacket \notin Packet /\ NoGame \notin Game
  BY DEF Packet, GameOf, Game, NoPacket, NoGame

-----------------------------------------------------------------------------
\* The inductive invariant.

Settled == {"RECEIPT_ACCEPTED", "RECEIPT_REJECTED"}

\* The phases that concern a game, and what is known of it in them: SUBMIT is left before
\* the packet can be settled, and not before it has been marked as perhaps sent.
PhaseInv ==
    /\ phase \in {"SUBMIT", "WAIT_SUBMISSION_RECEIPT"} => game \in Game
    /\ phase = "SUBMIT" =>
          /\ closure[game] = "saruku"
          /\ \A r \in Packet : GameOf(r) = game => intent[r] \notin Settled
    /\ phase = "WAIT_SUBMISSION_RECEIPT" =>
          \A r \in Packet : GameOf(r) = game => intent[r] # "SEND_INTENT_PERSISTED"

\* The two tables: the intent comes first, and belongs to a game that Saruku ended; the
\* request is there before the packet is marked.
TablesAgree ==
    \A r \in Packet :
        /\ intent[r] # "none" => closure[GameOf(r)] = "saruku"
        /\ request[r] # "none" => intent[r] # "none"
        /\ intent[r] \notin {"none", "SEND_INTENT_PERSISTED"} => request[r] # "none"

\* The one pending request is the active game's.
PendingIsActive ==
    \A r \in Packet : request[r] = "pending" =>
        GameOf(r) = game /\ phase \in {"SUBMIT", "WAIT_SUBMISSION_RECEIPT"}

\* The receipts of the room say what the referee has decided, and so do settled intents.
ReceiptsAreTrue ==
    /\ \A i \in 1 .. Len(room) : room[i].packet # NoPacket =>
          /\ room[i].sender = "saruku" /\ room[i].entry = GameOf(room[i].packet)
          /\ decided[room[i].packet] = IF room[i].ok THEN "accepted" ELSE "rejected"
    /\ \A r \in Packet :
          /\ intent[r] = "RECEIPT_ACCEPTED" => decided[r] = "accepted"
          /\ intent[r] = "RECEIPT_REJECTED" => decided[r] = "rejected"

\* What the daemon knows at each place of a cycle.
StepInv ==
    /\ step \in {"judged", "prepared", "reserved", "marked", "posted"} => phase = "SUBMIT"
    /\ step \in {"prepared", "reserved", "marked", "posted", "retrying"} =>
          packet \in Packet /\ GameOf(packet) = game
    /\ step \in {"prepared", "reserved"} => intent[packet] \in Unsettled
    /\ step \in {"reserved", "marked", "posted", "retrying"} => request[packet] # "none"
    /\ step \in {"marked", "posted", "retrying"} => intent[packet] = "DELIVERY_UNKNOWN"
    /\ step \in {"reading", "retrying", "released", "answered", "noted", "refused", "peer",
                 "peerDone"} => phase \in {"WAIT_SUBMISSION_RECEIPT", "DONE"}
    /\ step \in {"released", "answered", "refused"} => packet \in Packet /\ request[packet] # "none"
    /\ step = "answered" => request[packet] = "accepted"
    /\ step = "refused" => decided[packet] = "rejected"
    /\ step = "peer" => \A i \in 1 .. Len(room) : IsNext(i) => PeerReleases(room[i])
    /\ step = "peerDone" => game \in Game /\ closure[game] = "peer"
    /\ step = "leaving" => phase = "DONE" /\ game = NoGame

IInv ==
    /\ TypeOK /\ PhaseInv /\ TablesAgree /\ PendingIsActive /\ ReceiptsAreTrue /\ StepInv
    /\ OnePacketPerGame /\ SentIsAnswerable /\ ReleaseJustified

-----------------------------------------------------------------------------
\* Receipts.

LEMMA Receipts ==
  ASSUME TypeOK, NEW i \in 1 .. Len(room)
  PROVE  /\ room[i] \in Receipt
         /\ room[i].packet \in Packet \cup {NoPacket} /\ room[i].entry \in Game
         /\ room[i].ok \in BOOLEAN
<1>1. room[i] \in Receipt
  BY DEF TypeOK
<1> QED BY <1>1 DEF Receipt

\* The receipt the daemon is at is one of the room's.
LEMMA NextReceipt ==
  ASSUME TypeOK, NEW i, IsNext(i)
  PROVE  i \in 1 .. known /\ i \in 1 .. Len(room) /\ i \notin done
  BY DEF TypeOK, IsNext, Unprocessed

-----------------------------------------------------------------------------
\* Type correctness.

LEMMA InitTypeOK == Init => TypeOK
<1> SUFFICES ASSUME Init PROVE TypeOK
  OBVIOUS
<1>1. room \in Seq(Receipt) /\ Len(room) = 0
  BY DEF Init
<1>2. 0 \in 0 .. MaxAttempts /\ 0 \in 0 .. MaxReceipts /\ 0 \in 0 .. MaxCrashes
  OBVIOUS
<1>3. known \in 0 .. Len(room) /\ done \subseteq 1 .. known
  BY <1>1 DEF Init
<1>4. /\ closure \in [Game -> {"none", "saruku", "peer"}]
      /\ commitment \in [Game -> {"none", "ACTIVE", "RELEASED"}]
      /\ intent \in [Packet -> Intents]
      /\ request \in [Packet -> {"none", "pending", "accepted", "rejected"}]
      /\ tries \in [Packet -> 0 .. MaxAttempts]
      /\ decided \in [Packet -> Outcomes]
  BY <1>2 DEF Init, Intents, Outcomes
<1>5. /\ phase = "DISCOVERY" /\ game = NoGame /\ lookups \in 0 .. 2 /\ strong = FALSE
      /\ intact = TRUE /\ due = FALSE /\ clock = "early" /\ step = "idle" /\ packet = NoPacket
      /\ sent = {} /\ crashes \in 0 .. MaxCrashes /\ Len(room) <= MaxReceipts
  BY <1>1, <1>2 DEF Init
<1> QED BY ONLY <1>1, <1>3, <1>4, <1>5 DEF TypeOK

LEMMA MarkTypeOK ==
  ASSUME TypeOK, NEW r \in Packet, MarkAttempt(r)
  PROVE  /\ intent' \in [Packet -> Intents] /\ tries' \in [Packet -> 0 .. MaxAttempts]
         /\ due' = FALSE
         /\ UNCHANGED <<closure, commitment, request, phase, game, lookups, strong, known, done,
                        intact, clock, room, sent, decided, crashes>>
<1>1. (IF tries[r] = MaxAttempts THEN tries[r] ELSE tries[r] + 1) \in 0 .. MaxAttempts
  BY DEF TypeOK
<1> QED BY <1>1 DEF TypeOK, MarkAttempt, Intents, metaVars, readVars

LEMMA PostTypeOK ==
  ASSUME TypeOK, packet \in Packet, NEW from, NEW to, Post(from, to)
  PROVE  /\ sent' \subseteq Packet
         /\ UNCHANGED <<closure, commitment, intent, request, tries, phase, game, lookups, strong,
                        known, done, intact, clock, due, room, decided, packet, crashes>>
  BY DEF TypeOK, Post, rowVars, metaVars, readVars

\* What the daemon writes, in SUBMIT and while it waits.
LEMMA SubmitTypeOK ==
  ASSUME TypeOK, StepInv, Submit \/ NextGame
  PROVE  TypeOK'
<1> USE Packets DEF TypeOK, Went, rowVars, metaVars, readVars, worldVars
<1>1. CASE NextGame
  <2>1. PICK g \in Game : /\ game' = g
                          /\ commitment' = [commitment EXCEPT ![g] = "ACTIVE"]
                          /\ \/ closure' = [closure EXCEPT ![g] = "saruku"] /\ phase' = "SUBMIT"
                                 /\ strong' \in BOOLEAN
                             \/ closure' = [closure EXCEPT ![g] = "peer"]
                                 /\ phase' = "WAIT_SUBMISSION_RECEIPT" /\ UNCHANGED strong
    BY <1>1 DEF NextGame
  <2>2. /\ commitment' \in [Game -> {"none", "ACTIVE", "RELEASED"}]
        /\ closure' \in [Game -> {"none", "saruku", "peer"}]
    BY <2>1
  <2>3. game' \in Game /\ strong' \in BOOLEAN
        /\ phase' \in {"SUBMIT", "WAIT_SUBMISSION_RECEIPT"}
    BY <2>1
  <2> QED BY <1>1, <2>2, <2>3 DEF NextGame
<1>2. ASSUME NEW verdict, Judge(verdict) PROVE TypeOK'
  BY <1>2 DEF Judge
<1>3. CASE Prepare
  BY <1>3 DEF Prepare, Pending, Intents
<1>4. CASE Reserve
  BY <1>4 DEF Reserve
<1>5. CASE Mark
  BY <1>5, MarkTypeOK DEF Mark, StepInv
<1>6. CASE Post("marked", "posted")
  BY <1>6, PostTypeOK DEF Post, StepInv
<1>7. CASE EnterWait
  BY <1>7 DEF EnterWait
<1> QED BY <1>1, <1>2, <1>3, <1>4, <1>5, <1>6, <1>7 DEF Submit

LEMMA WaitTypeOK ==
  ASSUME TypeOK, StepInv, Wait
  PROVE  TypeOK'
<1> USE Packets DEF TypeOK, Went, rowVars, metaVars, readVars, worldVars
<1>1. ASSUME NEW i \in 1 .. Len(room), Accept(i) PROVE TypeOK'
  <2>1. room[i].packet \in Packet /\ GameOf(room[i].packet) \in Game
    BY <1>1, Receipts DEF Accept, Actionable
  <2> QED BY <1>1, <2>1 DEF Accept, Intents
<1>2. ASSUME NEW i \in 1 .. Len(room), MarkDone(i) \/ PeerMarkDone(i) PROVE TypeOK'
  <2>1. i \in 1 .. known /\ done' = done \cup {i}
    BY <1>2, NextReceipt DEF MarkDone, PeerMarkDone
  <2> QED BY <1>2, <2>1 DEF MarkDone, PeerMarkDone
<1>3. ASSUME NEW i \in 1 .. Len(room), RejectRequest(i) PROVE TypeOK'
  <2>1. room[i].packet \in Packet
    BY <1>3, Receipts DEF RejectRequest, Actionable
  <2> QED BY <1>3, <2>1 DEF RejectRequest
<1>4. ASSUME NEW i \in 1 .. Len(room), ForeignReceipt(i) PROVE TypeOK'
  <2>1. i \in 1 .. known /\ room[i].entry \in Game
    BY <1>4, Receipts, NextReceipt DEF ForeignReceipt
  <2> QED BY <1>4, <2>1 DEF ForeignReceipt
<1>5. CASE AcceptRequest \/ AcceptPhase \/ Reject \/ PeerPhase \/ CycleEnds
  <2>1. CASE AcceptRequest  BY <2>1 DEF AcceptRequest
  <2>2. CASE AcceptPhase    BY <2>2 DEF AcceptPhase
  <2>3. CASE Reject         BY <2>3 DEF Reject, Intents
  <2>4. CASE PeerPhase      BY <2>4 DEF PeerPhase
  <2>5. CASE CycleEnds      BY <2>5 DEF CycleEnds
  <2> QED BY <1>5, <2>1, <2>2, <2>3, <2>4, <2>5
<1>6. ASSUME NEW r \in Packet, Retry(r) PROVE TypeOK'
  BY <1>6, MarkTypeOK DEF Retry
<1>7. CASE Post("retrying", "idle")
  BY <1>7, PostTypeOK DEF Post, StepInv
<1> QED BY <1>1, <1>2, <1>3, <1>4, <1>5, <1>6, <1>7 DEF Wait

\* What others do, and the daemon's other steps.
LEMMA OtherTypeOK ==
  ASSUME TypeOK, Leave \/ Rediscover \/ (\E upTo \in 0 .. Len(room) : Read(upTo)) \/ Crash \/ World
  PROVE  TypeOK'
<1> USE Packets DEF TypeOK, Went, rowVars, metaVars, readVars, worldVars
<1>1. CASE Leave \/ Rediscover
  BY <1>1 DEF Leave, Rediscover
<1>2. ASSUME NEW upTo \in 0 .. Len(room), Read(upTo) PROVE TypeOK'
  BY <1>2 DEF Read
<1>3. CASE Crash
  BY <1>3 DEF Crash
<1>4. ASSUME NEW r \in Packet, RefereeAnswers(r) PROVE TypeOK'
  <2>1. PICK ok \in BOOLEAN :
          /\ decided' = [decided EXCEPT ![r] = IF ok THEN "accepted" ELSE "rejected"]
          /\ room' = Append(room, [packet |-> r, sender |-> "saruku", entry |-> GameOf(r),
                                   ok |-> ok])
    BY <1>4 DEF RefereeAnswers
  <2>2. [packet |-> r, sender |-> "saruku", entry |-> GameOf(r), ok |-> ok] \in Receipt
    BY DEF Receipt, Senders
  <2>3. room' \in Seq(Receipt) /\ Len(room') = Len(room) + 1 /\ Len(room') <= MaxReceipts
    BY <1>4, <2>1, <2>2 DEF RefereeAnswers
  <2> QED BY <1>4, <2>1, <2>3 DEF RefereeAnswers, Outcomes
<1>5. CASE OthersAnswered
  <2>1. PICK g \in Game, who \in {"peer", "stranger"}, ok \in BOOLEAN :
          room' = Append(room, [packet |-> NoPacket, sender |-> who, entry |-> g, ok |-> ok])
    BY <1>5 DEF OthersAnswered
  <2>2. [packet |-> NoPacket, sender |-> who, entry |-> g, ok |-> ok] \in Receipt
    BY DEF Receipt, Senders
  <2>3. room' \in Seq(Receipt) /\ Len(room') = Len(room) + 1 /\ Len(room') <= MaxReceipts
    BY <1>5, <2>1, <2>2 DEF OthersAnswered
  <2> QED BY <1>5, <2>3 DEF OthersAnswered
<1>6. CASE WorldMoves
  <2>1. /\ intact' \in BOOLEAN /\ due' \in BOOLEAN /\ clock' \in {"early", "closing", "late"}
    BY <1>6 DEF WorldMoves
  <2> QED BY <1>6, <2>1 DEF WorldMoves
<1> QED BY <1>1, <1>2, <1>3, <1>4, <1>5, <1>6 DEF World

LEMMA TypeOKStep == TypeOK /\ StepInv /\ [Next]_vars => TypeOK'
<1> SUFFICES ASSUME TypeOK, StepInv, [Next]_vars PROVE TypeOK'
  OBVIOUS
<1>1. CASE UNCHANGED vars
  BY <1>1 DEF TypeOK, vars, rowVars, metaVars, readVars, worldVars
<1> QED BY <1>1, SubmitTypeOK, WaitTypeOK, OtherTypeOK DEF Next, Daemon

-----------------------------------------------------------------------------
\* What the steps find.

\* In SUBMIT a game without an unsettled packet has none at all, and the packet that is
\* prepared is the game's only one.
LEMMA PreparesTheOne ==
  ASSUME IInv, Prepare
  PROVE  /\ phase = "SUBMIT" /\ packet' \in Packet /\ GameOf(packet') = game
         /\ intent'[packet'] \in Unsettled
         /\ \/ UNCHANGED intent
            \/ /\ intent[packet'] = "none"
               /\ intent' = [intent EXCEPT ![packet'] = "SEND_INTENT_PERSISTED"]
         /\ \A r \in Packet : GameOf(r) = game /\ intent[r] # "none" => r = packet'
<1> USE DEF IInv
<1>1. phase = "SUBMIT"
  BY DEF Prepare, Went, StepInv
<1>2. CASE Pending # {}
  <2>1. packet' \in Pending /\ UNCHANGED intent
    BY <1>2 DEF Prepare
  <2>2. packet' \in Packet /\ GameOf(packet') = game /\ intent[packet'] \in Unsettled
    BY <2>1 DEF Pending
  <2> QED BY <1>1, <2>1, <2>2 DEF OnePacketPerGame, Unsettled
<1>3. CASE Pending = {}
  <2>1. PICK r \in Packet : NewPacket(r) /\ packet' = r
                            /\ intent' = [intent EXCEPT ![r] = "SEND_INTENT_PERSISTED"]
    BY <1>3 DEF Prepare
  <2>2. \A s \in Packet : GameOf(s) = game => intent[s] = "none"
    BY <1>1, <1>3 DEF Pending, PhaseInv, TypeOK, Intents, Unsettled, Settled
  <2>3. intent'[r] = "SEND_INTENT_PERSISTED"
    BY <2>1 DEF TypeOK
  <2> QED BY <1>1, <2>1, <2>2, <2>3 DEF NewPacket, Unsettled
<1> QED BY <1>2, <1>3

\* A packet that is marked has its request on record and belongs to the active game.
LEMMA MarksReserved ==
  ASSUME IInv, NEW r \in Packet, Retry(r) \/ (Mark /\ r = packet)
  PROVE  /\ MarkAttempt(r) /\ request[r] # "none" /\ GameOf(r) = game
         /\ intent' = [intent EXCEPT ![r] = "DELIVERY_UNKNOWN"]
         /\ intent'[r] = "DELIVERY_UNKNOWN" /\ intent[r] \in Unsettled
         /\ UNCHANGED <<closure, request, phase, game, room, decided, sent, known, commitment>>
<1>1. CASE Retry(r)
  <2>1. r \in Pending /\ phase = "WAIT_SUBMISSION_RECEIPT" /\ MarkAttempt(r)
    BY <1>1 DEF Retry, Retryable
  <2>2. GameOf(r) = game /\ intent[r] = "DELIVERY_UNKNOWN"
    BY <2>1 DEF Pending, Unsettled, IInv, PhaseInv
  <2> QED BY <2>1, <2>2 DEF IInv, TablesAgree, TypeOK, MarkAttempt, metaVars, readVars
<1>2. CASE Mark /\ r = packet
  BY <1>2 DEF Mark, Went, IInv, StepInv, TypeOK, MarkAttempt, metaVars, readVars
<1> QED BY <1>1, <1>2

\* A receipt that is taken for Saruku's own says what was decided about a packet that
\* Saruku has on record, for a game that Saruku ended.
LEMMA OwnReceipt ==
  ASSUME IInv, NEW i, IsNext(i), Actionable(room[i])
  PROVE  /\ i \in 1 .. known /\ i \in 1 .. Len(room)
         /\ room[i].packet \in Packet /\ GameOf(room[i].packet) \in Game
         /\ request[room[i].packet] # "none" /\ intent[room[i].packet] # "none"
         /\ closure[GameOf(room[i].packet)] = "saruku"
         /\ room[i].sender = "saruku" /\ room[i].entry = GameOf(room[i].packet)
         /\ decided[room[i].packet] = IF room[i].ok THEN "accepted" ELSE "rejected"
<1>1. i \in 1 .. known /\ i \in 1 .. Len(room)
  BY NextReceipt DEF IInv
<1>2. room[i].packet \in Packet /\ GameOf(room[i].packet) \in Game
  BY <1>1, Receipts, Packets DEF IInv, Actionable
<1> QED BY <1>1, <1>2 DEF IInv, Actionable, TablesAgree, ReceiptsAreTrue

\* Every other step leaves the rows of the packets and of the closures alone.
LEMMA OtherSteps ==
  ASSUME [Next]_vars
  PROVE  \/ NextGame \/ Prepare \/ Reserve \/ (\E r \in Packet : Retry(r)) \/ Mark
         \/ (\E i \in 1 .. Len(room) : Accept(i) \/ RejectRequest(i))
         \/ AcceptRequest \/ Reject
         \/ UNCHANGED <<closure, intent, request>>
<1> USE DEF rowVars, metaVars, readVars, worldVars, vars
<1>1. CASE UNCHANGED vars \/ Leave \/ Rediscover \/ (\E upTo \in 0 .. Len(room) : Read(upTo)) \/ Crash
  BY <1>1 DEF Leave, Rediscover, Read, Crash
<1>2. CASE World
  BY <1>2 DEF World, RefereeAnswers, OthersAnswered, WorldMoves
<1>3. CASE Submit
  BY <1>3 DEF Submit, Judge, Post, EnterWait
<1>4. CASE Wait
  BY <1>4 DEF Wait, MarkDone, ForeignReceipt, PeerMarkDone, AcceptPhase, PeerPhase, Post, CycleEnds
<1> QED BY <1>1, <1>2, <1>3, <1>4 DEF Next, Daemon

-----------------------------------------------------------------------------
\* The rows of the packets.

LEMMA OnePacketStep ==
  ASSUME IInv, [Next]_vars
  PROVE  OnePacketPerGame'
<1> USE Packets DEF IInv, OnePacketPerGame
<1>1. CASE Prepare
  <2>1. \A r \in Packet : intent'[r] # "none" => intent[r] # "none" \/ r = packet'
    BY <1>1, PreparesTheOne DEF TypeOK
  <2> QED BY <1>1, <2>1, PreparesTheOne
<1>2. ASSUME NEW r \in Packet, Retry(r) \/ (Mark /\ r = packet) PROVE OnePacketPerGame'
  <2>1. intent' = [intent EXCEPT ![r] = "DELIVERY_UNKNOWN"] /\ intent[r] # "none"
    BY <1>2, MarksReserved DEF Unsettled
  <2> QED BY <2>1 DEF TypeOK
<1>3. CASE Mark
  BY <1>2, <1>3 DEF Mark, Went, StepInv
<1>4. ASSUME NEW i \in 1 .. Len(room), Accept(i) PROVE OnePacketPerGame'
  <2>1. intent' = [intent EXCEPT ![room[i].packet] = "RECEIPT_ACCEPTED"]
        /\ room[i].packet \in Packet /\ intent[room[i].packet] # "none"
    BY <1>4, OwnReceipt DEF Accept
  <2> QED BY <2>1 DEF TypeOK
<1>5. CASE Reject
  <2>1. intent' = [intent EXCEPT ![packet] = "RECEIPT_REJECTED"]
        /\ packet \in Packet /\ intent[packet] # "none"
    BY <1>5 DEF Reject, Went, StepInv, TablesAgree
  <2> QED BY <2>1 DEF TypeOK
<1>6. CASE UNCHANGED intent
  BY <1>6
<1> QED BY <1>1, <1>2, <1>3, <1>4, <1>5, <1>6, OtherSteps
        DEF NextGame, Reserve, RejectRequest, AcceptRequest

LEMMA TablesAgreeStep ==
  ASSUME IInv, [Next]_vars
  PROVE  TablesAgree'
<1> USE Packets DEF IInv, TablesAgree
<1>1. CASE NextGame
  <2>1. PICK g \in Game, who \in {"saruku", "peer"} :
          closure[g] = "none" /\ closure' = [closure EXCEPT ![g] = who]
    BY <1>1 DEF NextGame
  <2>2. UNCHANGED <<intent, request>>
    BY <1>1 DEF NextGame
  <2> QED BY <2>1, <2>2 DEF TypeOK
<1>2. CASE Prepare
  <2>1. UNCHANGED <<closure, request>> /\ closure[game] = "saruku"
    BY <1>2, PreparesTheOne DEF Prepare, PhaseInv
  <2> QED BY <1>2, <2>1, PreparesTheOne DEF TypeOK, Unsettled
<1>3. CASE Reserve
  <2>1. packet \in Packet /\ intent[packet] # "none" /\ UNCHANGED <<closure, intent>>
    BY <1>3 DEF Reserve, Went, StepInv, Unsettled
  <2>2. \A r \in Packet : request'[r] = request[r] \/ (r = packet /\ request'[r] # "none")
    BY <1>3, <2>1 DEF Reserve, TypeOK
  <2> QED BY <2>1, <2>2
<1>4. ASSUME NEW r \in Packet, Retry(r) \/ (Mark /\ r = packet) PROVE TablesAgree'
  <2>1. /\ intent' = [intent EXCEPT ![r] = "DELIVERY_UNKNOWN"] /\ intent[r] # "none"
        /\ request[r] # "none" /\ UNCHANGED <<closure, request>>
    BY <1>4, MarksReserved DEF Unsettled
  <2> QED BY <2>1 DEF TypeOK
<1>5. CASE Mark
  BY <1>4, <1>5 DEF Mark, Went, StepInv
<1>6. ASSUME NEW i \in 1 .. Len(room), Accept(i) PROVE TablesAgree'
  <2>1. /\ intent' = [intent EXCEPT ![room[i].packet] = "RECEIPT_ACCEPTED"]
        /\ room[i].packet \in Packet /\ intent[room[i].packet] # "none"
        /\ request[room[i].packet] # "none" /\ UNCHANGED <<closure, request>>
    BY <1>6, OwnReceipt DEF Accept
  <2> QED BY <2>1 DEF TypeOK
<1>7. ASSUME NEW i \in 1 .. Len(room), RejectRequest(i) PROVE TablesAgree'
  <2>1. /\ request' = [request EXCEPT ![room[i].packet] = "rejected"]
        /\ room[i].packet \in Packet /\ request[room[i].packet] # "none"
        /\ UNCHANGED <<closure, intent>>
    BY <1>7, OwnReceipt DEF RejectRequest
  <2> QED BY <2>1 DEF TypeOK
<1>8. CASE AcceptRequest
  <2>1. /\ request' = [request EXCEPT ![packet] = "accepted"]
        /\ packet \in Packet /\ request[packet] # "none" /\ UNCHANGED <<closure, intent>>
    BY <1>8 DEF AcceptRequest, Went, StepInv
  <2> QED BY <2>1 DEF TypeOK
<1>9. CASE Reject
  <2>1. /\ intent' = [intent EXCEPT ![packet] = "RECEIPT_REJECTED"]
        /\ packet \in Packet /\ request[packet] # "none" /\ UNCHANGED <<closure, request>>
    BY <1>9 DEF Reject, Went, StepInv
  <2> QED BY <2>1 DEF TypeOK
<1>10. CASE UNCHANGED <<closure, intent, request>>
  BY <1>10
<1> QED BY <1>1, <1>2, <1>3, <1>4, <1>5, <1>6, <1>7, <1>8, <1>9, <1>10, OtherSteps

\* A game is only left for good when its request, if any, has been answered: by Saruku's
\* accepted receipt, or because a peer ended the game and there was never any request.
LEMMA PendingIsActiveStep ==
  ASSUME IInv, [Next]_vars
  PROVE  PendingIsActive'
<1> USE Packets DEF IInv, PendingIsActive
<1>1. CASE NextGame
  BY <1>1 DEF NextGame
<1>2. CASE Reserve
  <2>1. packet \in Packet /\ GameOf(packet) = game /\ phase = "SUBMIT" /\ UNCHANGED <<phase, game>>
    BY <1>2 DEF Reserve, Went, StepInv, metaVars
  <2>2. \A r \in Packet : request'[r] = "pending" => request[r] = "pending" \/ r = packet
    BY <1>2, <2>1 DEF Reserve, TypeOK
  <2> QED BY <2>1, <2>2
<1>3. CASE AcceptPhase
  <2>1. packet \in Packet /\ request[packet] = "accepted" /\ UNCHANGED <<request, game>>
    BY <1>3 DEF AcceptPhase, Went, StepInv, rowVars
  <2>2. \A r \in Packet : request[r] = "pending" => r # packet /\ GameOf(r) # GameOf(packet)
    BY <2>1 DEF TablesAgree, OnePacketPerGame
  <2> QED BY <1>3, <2>1, <2>2 DEF AcceptPhase
<1>4. CASE PeerPhase
  <2>1. closure[game] = "peer" /\ UNCHANGED request
    BY <1>4 DEF PeerPhase, Went, StepInv, rowVars
  <2>2. \A r \in Packet : request[r] # "pending"
    BY <2>1 DEF TablesAgree
  <2> QED BY <2>1, <2>2
<1>5. CASE Leave
  BY <1>5 DEF Leave, rowVars
<1>6. CASE Rediscover
  BY <1>6 DEF Rediscover, Went, StepInv, rowVars
<1>7. CASE EnterWait
  BY <1>7 DEF EnterWait, rowVars
<1>8. CASE AcceptRequest
  <2>1. request' = [request EXCEPT ![packet] = "accepted"] /\ UNCHANGED <<phase, game>>
    BY <1>8 DEF AcceptRequest, metaVars
  <2> QED BY <2>1 DEF TypeOK
<1>9. ASSUME NEW i \in 1 .. Len(room), RejectRequest(i) PROVE PendingIsActive'
  <2>1. request' = [request EXCEPT ![room[i].packet] = "rejected"] /\ UNCHANGED <<phase, game>>
    BY <1>9 DEF RejectRequest, metaVars
  <2> QED BY <2>1 DEF TypeOK
<1>10. CASE UNCHANGED <<request, phase, game>>
  BY <1>10
<1> USE DEF rowVars, metaVars
<1>11. CASE World \/ Crash \/ UNCHANGED vars \/ \E upTo \in 0 .. Len(room) : Read(upTo)
  BY <1>10, <1>11 DEF World, RefereeAnswers, OthersAnswered, WorldMoves, Crash, vars, Read
<1>12. ASSUME Submit, ~Reserve, ~EnterWait PROVE PendingIsActive'
  BY <1>10, <1>12 DEF Submit, Judge, Prepare, Mark, MarkAttempt, Post
<1>13. ASSUME Wait, ~AcceptPhase, ~PeerPhase, ~AcceptRequest PROVE PendingIsActive'
  BY <1>9, <1>10, <1>13
     DEF Wait, Accept, MarkDone, ForeignReceipt, PeerMarkDone, Reject, Retry, MarkAttempt, Post,
         CycleEnds
<1> QED BY <1>1, <1>2, <1>3, <1>4, <1>5, <1>6, <1>7, <1>8, <1>11, <1>12, <1>13 DEF Next, Daemon

LEMMA PhaseInvStep ==
  ASSUME IInv, [Next]_vars
  PROVE  PhaseInv'
<1> USE Packets DEF IInv, PhaseInv
<1>1. CASE NextGame
  <2>1. PICK g \in Game : /\ closure[g] = "none" /\ game' = g
                          /\ \/ closure' = [closure EXCEPT ![g] = "saruku"] /\ phase' = "SUBMIT"
                             \/ phase' = "WAIT_SUBMISSION_RECEIPT"
    BY <1>1 DEF NextGame
  <2>2. \A r \in Packet : GameOf(r) = g => intent'[r] = "none"
    BY <1>1, <2>1 DEF NextGame, TablesAgree
  <2> QED BY <2>1, <2>2 DEF TypeOK, Settled
<1>2. CASE Prepare
  <2>1. UNCHANGED <<phase, game, closure>>
    BY <1>2 DEF Prepare, metaVars
  <2>2. \A r \in Packet : intent'[r] = intent[r] \/ (r = packet' /\ intent'[r] \in Unsettled)
    BY <1>2, PreparesTheOne DEF TypeOK
  <2> QED BY <1>2, <2>1, <2>2, PreparesTheOne DEF Unsettled, Settled
<1>3. ASSUME NEW r \in Packet, Retry(r) \/ (Mark /\ r = packet) PROVE PhaseInv'
  <2>1. /\ intent' = [intent EXCEPT ![r] = "DELIVERY_UNKNOWN"]
        /\ UNCHANGED <<phase, game, closure>>
    BY <1>3, MarksReserved
  <2> QED BY <2>1 DEF TypeOK, Settled
<1>4. CASE Mark
  BY <1>3, <1>4 DEF Mark, Went, StepInv
<1>5. CASE EnterWait
  <2>1. packet \in Packet /\ GameOf(packet) = game /\ intent[packet] = "DELIVERY_UNKNOWN"
    BY <1>5 DEF EnterWait, Went, StepInv
  <2>2. \A r \in Packet : GameOf(r) = game /\ intent[r] # "none" => r = packet
    BY <2>1 DEF OnePacketPerGame
  <2>3. game \in Game
    BY <2>1
  <2> QED BY <1>5, <2>1, <2>2, <2>3 DEF EnterWait, rowVars
<1>6. ASSUME NEW i \in 1 .. Len(room), Accept(i) PROVE PhaseInv'
  <2>1. /\ intent' = [intent EXCEPT ![room[i].packet] = "RECEIPT_ACCEPTED"]
        /\ phase # "SUBMIT" /\ UNCHANGED <<phase, game, closure>>
    BY <1>6 DEF Accept, metaVars, Went, StepInv
  <2> QED BY <2>1 DEF TypeOK
<1>7. CASE Reject
  <2>1. /\ intent' = [intent EXCEPT ![packet] = "RECEIPT_REJECTED"]
        /\ phase # "SUBMIT" /\ UNCHANGED <<phase, game, closure>>
    BY <1>7 DEF Reject, metaVars, Went, StepInv
  <2> QED BY <2>1 DEF TypeOK
<1>8. CASE AcceptPhase \/ PeerPhase
  BY <1>8 DEF AcceptPhase, PeerPhase, rowVars
<1>9. CASE Leave \/ Rediscover
  BY <1>9 DEF Leave, Rediscover, rowVars
<1>10. CASE UNCHANGED <<intent, phase, game, closure>>
  BY <1>10
<1> USE DEF rowVars, metaVars
<1>11. CASE World \/ Crash \/ UNCHANGED vars \/ \E upTo \in 0 .. Len(room) : Read(upTo)
  BY <1>10, <1>11 DEF World, RefereeAnswers, OthersAnswered, WorldMoves, Crash, vars, Read
<1>12. ASSUME Submit, ~Prepare, ~Mark, ~EnterWait PROVE PhaseInv'
  BY <1>10, <1>12 DEF Submit, Judge, Reserve, Post
<1>13. ASSUME Wait, ~AcceptPhase, ~PeerPhase, ~Reject PROVE PhaseInv'
  BY <1>3, <1>6, <1>10, <1>13
     DEF Wait, MarkDone, RejectRequest, ForeignReceipt, PeerMarkDone, AcceptRequest, Post, CycleEnds
<1> QED BY <1>1, <1>2, <1>4, <1>5, <1>7, <1>8, <1>9, <1>11, <1>12, <1>13 DEF Next, Daemon

\* What the referee once decided stands.
LEMMA DecidedStands ==
  ASSUME IInv, [Next]_vars
  PROVE  \A r \in Packet : decided[r] # "none" => decided'[r] = decided[r]
<1> USE DEF rowVars, metaVars, readVars, worldVars, vars
<1>1. ASSUME NEW r \in Packet, RefereeAnswers(r)
      PROVE  \A q \in Packet : decided[q] # "none" => decided'[q] = decided[q]
  BY <1>1 DEF RefereeAnswers, IInv, TypeOK, Outcomes
<1>2. CASE UNCHANGED vars \/ NextGame \/ Submit \/ Leave \/ Rediscover \/ Crash
           \/ \E upTo \in 0 .. Len(room) : Read(upTo)
  BY <1>2 DEF NextGame, Submit, Judge, Prepare, Reserve, Mark, MarkAttempt, Post, EnterWait, Leave,
              Rediscover, Crash, Read
<1>3. CASE Wait
  BY <1>3 DEF Wait, Accept, MarkDone, RejectRequest, ForeignReceipt, PeerMarkDone, AcceptRequest,
              AcceptPhase, Reject, PeerPhase, Retry, MarkAttempt, Post, CycleEnds
<1>4. CASE OthersAnswered \/ WorldMoves
  BY <1>4 DEF OthersAnswered, WorldMoves
<1> QED BY <1>1, <1>2, <1>3, <1>4 DEF Next, Daemon, World

\* The room only grows, by receipts of packets on their way and by those of others.
LEMMA RoomGrows ==
  ASSUME IInv, [Next]_vars
  PROVE  \/ UNCHANGED <<room, decided>>
         \/ /\ UNCHANGED <<closure, commitment, intent, request, phase, game, known, done, step, packet>>
            /\ \E m \in Receipt :
                  /\ room' = Append(room, m)
                  /\ \/ m.packet = NoPacket /\ UNCHANGED <<decided, sent>>
                     \/ /\ m.packet \in sent /\ sent' = sent \ {m.packet}
                        /\ m.sender = "saruku" /\ m.entry = GameOf(m.packet)
                        /\ decided' = [decided EXCEPT ![m.packet] = IF m.ok THEN "accepted"
                                                                            ELSE "rejected"]
<1> USE DEF rowVars, metaVars, readVars, worldVars, vars
<1>1. ASSUME NEW r \in Packet, RefereeAnswers(r)
      PROVE  \E m \in Receipt :
                  /\ room' = Append(room, m)
                  /\ m.packet \in sent /\ sent' = sent \ {m.packet}
                  /\ m.sender = "saruku" /\ m.entry = GameOf(m.packet)
                  /\ decided' = [decided EXCEPT ![m.packet] = IF m.ok THEN "accepted"
                                                                      ELSE "rejected"]
  <2>1. PICK ok \in BOOLEAN :
          /\ decided' = [decided EXCEPT ![r] = IF ok THEN "accepted" ELSE "rejected"]
          /\ room' = Append(room, [packet |-> r, sender |-> "saruku", entry |-> GameOf(r),
                                   ok |-> ok])
    BY <1>1 DEF RefereeAnswers
  <2> DEFINE m == [packet |-> r, sender |-> "saruku", entry |-> GameOf(r), ok |-> ok]
  <2>2. m \in Receipt
    BY Packets DEF Receipt, Senders
  <2> QED BY <1>1, <2>1, <2>2 DEF RefereeAnswers
<1>2. ASSUME OthersAnswered
      PROVE  \E m \in Receipt : room' = Append(room, m) /\ m.packet = NoPacket
  <2>1. PICK g \in Game, who \in {"peer", "stranger"}, ok \in BOOLEAN :
          room' = Append(room, [packet |-> NoPacket, sender |-> who, entry |-> g, ok |-> ok])
    BY <1>2 DEF OthersAnswered
  <2>2. [packet |-> NoPacket, sender |-> who, entry |-> g, ok |-> ok] \in Receipt
    BY DEF Receipt, Senders
  <2> QED BY <2>1, <2>2
<1>3. CASE World
  BY <1>1, <1>2, <1>3 DEF World, WorldMoves, RefereeAnswers, OthersAnswered
<1>4. CASE UNCHANGED vars \/ NextGame \/ Submit \/ Leave \/ Rediscover \/ Crash
           \/ \E upTo \in 0 .. Len(room) : Read(upTo)
  BY <1>4 DEF NextGame, Submit, Judge, Prepare, Reserve, Mark, MarkAttempt, Post, EnterWait, Leave,
              Rediscover, Crash, Read
<1>5. CASE Wait
  BY <1>5 DEF Wait, Accept, MarkDone, RejectRequest, ForeignReceipt, PeerMarkDone, AcceptRequest,
              AcceptPhase, Reject, PeerPhase, Retry, MarkAttempt, Post, CycleEnds
<1> QED BY <1>3, <1>4, <1>5 DEF Next, Daemon

LEMMA Appended ==
  ASSUME TypeOK, NEW m \in Receipt, room' = Append(room, m)
  PROVE  /\ Len(room') = Len(room) + 1
         /\ \A i \in 1 .. Len(room) : room'[i] = room[i]
         /\ room'[Len(room) + 1] = m
         /\ \A i \in 1 .. Len(room') : i \in 1 .. Len(room) \/ i = Len(room) + 1
  BY DEF TypeOK

LEMMA ReceiptsAreTrueStep ==
  ASSUME IInv, [Next]_vars
  PROVE  ReceiptsAreTrue'
<1>a. \A r \in Packet : decided[r] # "none" => decided'[r] = decided[r]
  BY DecidedStands
<1>1. \A i \in 1 .. Len(room') : room'[i].packet # NoPacket =>
          /\ room'[i].sender = "saruku" /\ room'[i].entry = GameOf(room'[i].packet)
          /\ decided'[room'[i].packet] = IF room'[i].ok THEN "accepted" ELSE "rejected"
  <2>1. \A i \in 1 .. Len(room) : room[i].packet # NoPacket =>
          /\ room[i].sender = "saruku" /\ room[i].entry = GameOf(room[i].packet)
          /\ decided'[room[i].packet] = IF room[i].ok THEN "accepted" ELSE "rejected"
    BY <1>a, Receipts DEF IInv, ReceiptsAreTrue
  <2>2. CASE UNCHANGED room
    BY <2>1, <2>2
  <2>3. ASSUME NEW m \in Receipt, room' = Append(room, m),
               \/ m.packet = NoPacket
               \/ /\ m.packet \in sent /\ m.sender = "saruku" /\ m.entry = GameOf(m.packet)
                  /\ decided' = [decided EXCEPT ![m.packet] = IF m.ok THEN "accepted"
                                                                      ELSE "rejected"]
        PROVE  \A i \in 1 .. Len(room') : room'[i].packet # NoPacket =>
          /\ room'[i].sender = "saruku" /\ room'[i].entry = GameOf(room'[i].packet)
          /\ decided'[room'[i].packet] = IF room'[i].ok THEN "accepted" ELSE "rejected"
    <3>1. m.packet # NoPacket =>
            /\ m.sender = "saruku" /\ m.entry = GameOf(m.packet)
            /\ decided'[m.packet] = IF m.ok THEN "accepted" ELSE "rejected"
      BY <2>3 DEF IInv, TypeOK
    <3>2. TypeOK
      BY DEF IInv
    <3> QED BY <2>1, <2>3, <3>1, <3>2, Appended
  <2> QED BY <2>2, <2>3, RoomGrows
<1>2. ASSUME NEW r \in Packet
      PROVE  /\ intent'[r] = "RECEIPT_ACCEPTED" => decided'[r] = "accepted"
             /\ intent'[r] = "RECEIPT_REJECTED" => decided'[r] = "rejected"
  <2> USE DEF IInv
  <2>1. CASE intent'[r] = intent[r]
    BY <1>a, <2>1 DEF ReceiptsAreTrue
  <2>2. CASE Prepare
    BY <2>1, <2>2, PreparesTheOne DEF TypeOK
  <2>3. ASSUME NEW q \in Packet, Retry(q) \/ (Mark /\ q = packet)
        PROVE  intent'[r] = intent[r] \/ intent'[r] = "DELIVERY_UNKNOWN"
    BY <2>3, MarksReserved DEF TypeOK
  <2>4. CASE Mark
    BY <2>1, <2>3, <2>4 DEF Mark, Went, StepInv
  <2>5. CASE \E q \in Packet : Retry(q)
    BY <2>1, <2>3, <2>5
  <2>6. ASSUME NEW i \in 1 .. Len(room), Accept(i)
        PROVE  intent'[r] = intent[r] \/ (intent'[r] = "RECEIPT_ACCEPTED" /\ decided[r] = "accepted")
    <3>1. /\ room[i].packet \in Packet /\ decided[room[i].packet] = "accepted"
          /\ intent' = [intent EXCEPT ![room[i].packet] = "RECEIPT_ACCEPTED"]
      BY <2>6, OwnReceipt DEF Accept
    <3> QED BY <3>1 DEF TypeOK
  <2>7. CASE Reject
    <3>1. /\ packet \in Packet /\ decided[packet] = "rejected"
          /\ intent' = [intent EXCEPT ![packet] = "RECEIPT_REJECTED"]
      BY <2>7 DEF Reject, Went, StepInv
    <3>2. intent'[r] = intent[r] \/ (intent'[r] = "RECEIPT_REJECTED" /\ decided[r] = "rejected")
      BY <3>1 DEF TypeOK
    <3> QED BY <1>a, <2>1, <3>2
  <2>8. CASE UNCHANGED intent
    BY <2>1, <2>8
  <2> QED BY <1>a, <2>1, <2>2, <2>4, <2>5, <2>6, <2>7, <2>8, OtherSteps
          DEF NextGame, Reserve, RejectRequest, AcceptRequest
<1> QED BY <1>1, <1>2 DEF ReceiptsAreTrue

-----------------------------------------------------------------------------
\* What is on record of the packets that were sent, and of the releases.

LEMMA SentAnswerableStep ==
  ASSUME IInv, [Next]_vars
  PROVE  SentIsAnswerable'
<1> USE DEF IInv, SentIsAnswerable
<1> DEFINE Answerable(r) == request[r] # "none" /\ intent[r] \notin {"none", "SEND_INTENT_PERSISTED"}
<1>1. \A r \in Packet : r \in sent' \/ decided'[r] # "none" => Answerable(r)
  <2>1. ASSUME NEW from, NEW to, Post(from, to), from \in {"marked", "retrying"}
        PROVE  /\ packet \in Packet /\ sent' \subseteq sent \cup {packet} /\ UNCHANGED decided
               /\ request[packet] # "none" /\ intent[packet] = "DELIVERY_UNKNOWN"
    BY <2>1 DEF Post, Went, StepInv
  <2>2. CASE Post("marked", "posted") \/ Post("retrying", "idle")
    BY <2>1, <2>2
  <2>3. CASE UNCHANGED <<sent, decided>>
    BY <2>3
  <2> USE DEF rowVars, metaVars, readVars, worldVars, vars
  <2>4. ASSUME NEW r \in Packet, RefereeAnswers(r)
        PROVE  \A q \in Packet : q \in sent' \/ decided'[q] # "none" => Answerable(q)
    BY <2>4 DEF RefereeAnswers, TypeOK
  <2>5. CASE UNCHANGED vars \/ NextGame \/ Leave \/ Rediscover \/ Crash \/ OthersAnswered
             \/ WorldMoves \/ \E upTo \in 0 .. Len(room) : Read(upTo)
    BY <2>3, <2>5 DEF NextGame, Leave, Rediscover, Crash, Read, OthersAnswered, WorldMoves
  <2>6. CASE Submit
    BY <2>2, <2>3, <2>6 DEF Submit, Judge, Prepare, Reserve, Mark, MarkAttempt, EnterWait
  <2>7. CASE Wait
    BY <2>2, <2>3, <2>7
       DEF Wait, Accept, MarkDone, RejectRequest, ForeignReceipt, PeerMarkDone, AcceptRequest,
           AcceptPhase, Reject, PeerPhase, Retry, MarkAttempt, CycleEnds
  <2> QED BY <2>4, <2>5, <2>6, <2>7 DEF Next, Daemon, World
<1>2. ASSUME NEW r \in Packet, request[r] # "none", intent[r] \notin {"none", "SEND_INTENT_PERSISTED"}
      PROVE  request'[r] # "none" /\ intent'[r] \notin {"none", "SEND_INTENT_PERSISTED"}
  <2>1. CASE Prepare
    <3>1. UNCHANGED request
      BY <2>1 DEF Prepare
    <3> QED BY <1>2, <2>1, <3>1, PreparesTheOne DEF TypeOK
  <2>2. ASSUME NEW q \in Packet, Retry(q) \/ (Mark /\ q = packet)
        PROVE  UNCHANGED request /\ (intent'[r] = intent[r] \/ intent'[r] = "DELIVERY_UNKNOWN")
    BY <2>2, MarksReserved DEF TypeOK
  <2>3. CASE Mark
    BY <1>2, <2>2, <2>3 DEF Mark, Went, StepInv
  <2>4. CASE \E q \in Packet : Retry(q)
    BY <1>2, <2>2, <2>4
  <2>5. CASE Reserve
    BY <1>2, <2>5 DEF Reserve, TypeOK
  <2>6. CASE \E i \in 1 .. Len(room) : Accept(i) \/ RejectRequest(i)
    BY <1>2, <2>6 DEF Accept, RejectRequest, TypeOK
  <2>7. CASE AcceptRequest \/ Reject
    BY <1>2, <2>7 DEF AcceptRequest, Reject, TypeOK
  <2>8. CASE NextGame \/ UNCHANGED <<closure, intent, request>>
    BY <1>2, <2>8 DEF NextGame
  <2> QED BY <2>1, <2>3, <2>4, <2>5, <2>6, <2>7, <2>8, OtherSteps
<1> QED BY <1>1, <1>2

\* A closure row, once written, is never changed.
LEMMA ReleaseJustifiedStep ==
  ASSUME IInv, [Next]_vars
  PROVE  ReleaseJustified'
<1> DEFINE Justified(g) == \E i \in 1 .. known : room[i].ok /\ room[i].entry = g
                                                 /\ room[i].sender = closure[g]
           Shown(g) == Justified(g) /\ closure'[g] = closure[g]
<1> USE DEF IInv
<1>0. \A i \in 1 .. known : i \in 1 .. Len(room)
  BY DEF TypeOK
<1>1. ASSUME NEW g \in Game, commitment'[g] = "RELEASED"
      PROVE  Shown(g)
  <2>1. CASE commitment[g] = "RELEASED" /\ UNCHANGED closure
    BY <2>1 DEF ReleaseJustified
  <2>2. CASE NextGame
    <3>1. PICK h \in Game, who \in {"saruku", "peer"} :
            /\ commitment' = [commitment EXCEPT ![h] = "ACTIVE"]
            /\ closure' = [closure EXCEPT ![h] = who]
      BY <2>2 DEF NextGame
    <3>2. g # h /\ commitment[g] = "RELEASED" /\ closure'[g] = closure[g]
      BY <1>1, <3>1 DEF TypeOK
    <3> QED BY <3>2 DEF ReleaseJustified
  <2>3. ASSUME NEW i \in 1 .. Len(room), Accept(i) PROVE Shown(g)
    <3>1. /\ commitment' = [commitment EXCEPT ![GameOf(room[i].packet)] = "RELEASED"]
          /\ UNCHANGED closure /\ room[i].ok
      BY <2>3 DEF Accept
    <3>2. /\ i \in 1 .. known /\ room[i].sender = "saruku" /\ GameOf(room[i].packet) \in Game
          /\ room[i].entry = GameOf(room[i].packet) /\ closure[room[i].entry] = "saruku"
      BY <2>3, OwnReceipt DEF Accept
    <3>3. CASE g = GameOf(room[i].packet)
      BY <3>1, <3>2, <3>3
    <3>4. CASE g # GameOf(room[i].packet)
      BY <1>1, <2>1, <3>1, <3>4 DEF TypeOK
    <3> QED BY <3>3, <3>4
  <2>4. ASSUME NEW i \in 1 .. Len(room), ForeignReceipt(i) PROVE Shown(g)
    <3>1. UNCHANGED closure /\ i \in 1 .. known
      BY <2>4, NextReceipt DEF ForeignReceipt
    <3>2. CASE commitment'[g] = commitment[g]
      BY <1>1, <2>1, <3>1, <3>2
    <3>3. CASE commitment'[g] # commitment[g]
      <4>1. PeerReleases(room[i]) /\ commitment' = [commitment EXCEPT ![room[i].entry] = "RELEASED"]
        BY <2>4, <3>3 DEF ForeignReceipt
      <4>2. g = room[i].entry
        BY <3>3, <4>1, Receipts DEF TypeOK
      <4> QED BY <3>1, <4>1, <4>2 DEF PeerReleases
    <3> QED BY <3>2, <3>3
  <2> USE DEF rowVars, metaVars, readVars, worldVars, vars
  <2>5. CASE UNCHANGED vars \/ Leave \/ Rediscover \/ Crash \/ World
             \/ \E upTo \in 0 .. Len(room) : Read(upTo)
    BY <1>1, <2>1, <2>5 DEF Leave, Rediscover, Crash, World, RefereeAnswers, OthersAnswered,
                            WorldMoves, Read
  <2>6. CASE Submit
    BY <1>1, <2>1, <2>6 DEF Submit, Judge, Prepare, Reserve, Mark, MarkAttempt, Post, EnterWait
  <2>7. CASE Wait
    BY <1>1, <2>1, <2>3, <2>4, <2>7
       DEF Wait, MarkDone, RejectRequest, PeerMarkDone, AcceptRequest,
           AcceptPhase, Reject, PeerPhase, Retry, MarkAttempt, Post, CycleEnds
  <2> QED BY <2>2, <2>5, <2>6, <2>7 DEF Next, Daemon
<1>2. known' \in Nat /\ known' >= known
  <2> USE DEF rowVars, metaVars, readVars, worldVars, vars, TypeOK
  <2>1. CASE \E upTo \in 0 .. Len(room) : Read(upTo)
    BY <2>1 DEF Read
  <2>2. CASE UNCHANGED vars \/ NextGame \/ Leave \/ Rediscover \/ Crash \/ World
    BY <2>2 DEF NextGame, Leave, Rediscover, Crash, World, RefereeAnswers, OthersAnswered, WorldMoves
  <2>3. CASE Submit
    BY <2>3 DEF Submit, Judge, Prepare, Reserve, Mark, MarkAttempt, Post, EnterWait
  <2>4. CASE Wait
    BY <2>4 DEF Wait, Accept, MarkDone, RejectRequest, ForeignReceipt, PeerMarkDone, AcceptRequest,
                AcceptPhase, Reject, PeerPhase, Retry, MarkAttempt, Post, CycleEnds
  <2> QED BY <2>1, <2>2, <2>3, <2>4 DEF Next, Daemon
<1>3. \A i \in 1 .. known : i \in 1 .. known' /\ room'[i] = room[i]
  <2>1. \A i \in 1 .. Len(room) : room'[i] = room[i]
    BY RoomGrows, Appended
  <2> QED BY <1>0, <1>2, <2>1 DEF TypeOK
<1> QED BY <1>1, <1>3 DEF ReleaseJustified

-----------------------------------------------------------------------------
\* The places of the cycle.

LEMMA StepInvSubmit ==
  ASSUME IInv, Submit \/ NextGame
  PROVE  StepInv'
<1> USE DEF IInv, Went, rowVars, metaVars, readVars, worldVars, StepInv
<1>1. CASE NextGame
  BY <1>1 DEF NextGame
<1>2. ASSUME NEW verdict, Judge(verdict) PROVE StepInv'
  BY <1>2 DEF Judge
<1>3. CASE Prepare
  <2>1. step' = "prepared" /\ UNCHANGED <<phase, game>>
    BY <1>3 DEF Prepare
  <2> QED BY <1>3, <2>1, PreparesTheOne
<1>4. CASE Reserve
  <2>1. packet \in Packet /\ \A r \in Packet : request[r] = "pending" => r = packet
    BY <1>4 DEF Reserve, PendingIsActive, TablesAgree, OnePacketPerGame, Unsettled
  <2>2. request'[packet] # "none"
    BY <1>4, <2>1 DEF Reserve, TypeOK
  <2> QED BY <1>4, <2>1, <2>2 DEF Reserve
<1>5. CASE Mark
  <2>1. step' = "marked" /\ packet' = packet /\ packet \in Packet
    BY <1>5 DEF Mark
  <2> QED BY <1>5, <2>1, MarksReserved DEF Mark
<1>6. CASE Post("marked", "posted")
  BY <1>6 DEF Post
<1>7. CASE EnterWait
  BY <1>7 DEF EnterWait
<1> QED BY <1>1, <1>2, <1>3, <1>4, <1>5, <1>6, <1>7 DEF Submit

LEMMA StepInvWait ==
  ASSUME IInv, Wait
  PROVE  StepInv'
<1> USE DEF IInv, Went, rowVars, metaVars, readVars, worldVars, StepInv
<1>1. ASSUME NEW i \in 1 .. Len(room), Accept(i) PROVE StepInv'
  <2>1. step' = "released" /\ packet' = room[i].packet /\ UNCHANGED <<phase, request>>
    BY <1>1 DEF Accept
  <2> QED BY <1>1, <2>1, OwnReceipt DEF Accept
<1>2. ASSUME NEW i \in 1 .. Len(room), MarkDone(i) PROVE StepInv'
  BY <1>2 DEF MarkDone
<1>3. ASSUME NEW i \in 1 .. Len(room), RejectRequest(i) PROVE StepInv'
  <2>1. step' = "refused" /\ packet' = room[i].packet /\ UNCHANGED <<phase, decided>>
        /\ request' = [request EXCEPT ![room[i].packet] = "rejected"] /\ ~room[i].ok
    BY <1>3 DEF RejectRequest
  <2>2. room[i].packet \in Packet /\ decided[room[i].packet] = "rejected"
    BY <1>3, OwnReceipt DEF RejectRequest
  <2>3. request'[packet'] = "rejected"
    BY <2>1, <2>2 DEF TypeOK
  <2> QED BY <1>3, <2>1, <2>2, <2>3 DEF RejectRequest
<1>4. ASSUME NEW i \in 1 .. Len(room), ForeignReceipt(i) PROVE StepInv'
  <2>1. phase' \in {"WAIT_SUBMISSION_RECEIPT", "DONE"} /\ IsNext(i)
        /\ UNCHANGED <<room, closure, known>>
    BY <1>4 DEF ForeignReceipt
  <2>2. CASE step' = "reading"
    BY <2>1, <2>2
  <2>3. CASE step' = "peer" /\ PeerReleases(room[i]) /\ UNCHANGED done
    <3>1. \A j \in 1 .. Len(room) : IsNext(j) => j = i
      BY <2>1, NextReceipt DEF IsNext, Unprocessed, TypeOK
    <3> QED BY <2>1, <2>3, <3>1 DEF IsNext, Unprocessed, PeerReleases
  <2> QED BY <1>4, <2>2, <2>3 DEF ForeignReceipt
<1>5. ASSUME NEW i \in 1 .. Len(room), PeerMarkDone(i) PROVE StepInv'
  <2>1. phase' \in {"WAIT_SUBMISSION_RECEIPT", "DONE"} /\ UNCHANGED <<game, closure>>
    BY <1>5 DEF PeerMarkDone
  <2>2. CASE step' = "reading"
    BY <2>1, <2>2
  <2>3. CASE step' = "peerDone" /\ game = room[i].entry
    <3>1. PeerReleases(room[i]) /\ room[i] \in Receipt
      BY <1>5, Receipts DEF PeerMarkDone
    <3>2. game \in Game /\ closure[game] = "peer"
      BY <2>3, <3>1 DEF PeerReleases, Receipt, Senders, TypeOK
    <3> QED BY <2>1, <2>3, <3>2
  <2> QED BY <1>5, <2>2, <2>3 DEF PeerMarkDone
<1>6. CASE AcceptRequest
  <2>1. request'[packet] = "accepted"
    BY <1>6 DEF AcceptRequest, TypeOK
  <2> QED BY <1>6, <2>1 DEF AcceptRequest
<1>7. CASE AcceptPhase \/ Reject \/ PeerPhase \/ CycleEnds
  BY <1>7 DEF AcceptPhase, Reject, PeerPhase, CycleEnds
<1>8. ASSUME NEW r \in Packet, Retry(r) PROVE StepInv'
  <2>1. step' = "retrying" /\ packet' = r /\ phase = "WAIT_SUBMISSION_RECEIPT"
    BY <1>8 DEF Retry
  <2> QED BY <1>8, <2>1, MarksReserved
<1>9. CASE Post("retrying", "idle")
  BY <1>9 DEF Post
<1> QED BY <1>1, <1>2, <1>3, <1>4, <1>5, <1>6, <1>7, <1>8, <1>9 DEF Wait

LEMMA StepInvOthers ==
  ASSUME IInv, [Next]_vars, Leave \/ Rediscover \/ (\E upTo \in 0 .. Len(room) : Read(upTo))
                            \/ Crash \/ World \/ UNCHANGED vars
  PROVE  StepInv'
<1> USE DEF IInv, Went, rowVars, metaVars, readVars, worldVars, StepInv
<1>1. CASE Leave \/ Rediscover
  BY <1>1 DEF Leave, Rediscover
<1>2. CASE \E upTo \in 0 .. Len(room) : Read(upTo)
  BY <1>2 DEF Read
<1>3. CASE Crash
  BY <1>3 DEF Crash
<1>4. ASSUME World PROVE StepInv'
  <2>1. UNCHANGED <<closure, commitment, intent, request, phase, game, known, done, step, packet>>
    BY <1>4 DEF World, RefereeAnswers, OthersAnswered, WorldMoves
  <2>2. step = "refused" => decided'[packet] = "rejected"
    BY DecidedStands
  <2>3. step = "peer" => \A i \in 1 .. Len(room') : IsNext(i)' => PeerReleases(room[i])' 
    <3>1. \A i : IsNext(i)' <=> IsNext(i)
      BY <2>1 DEF IsNext, Unprocessed
    <3>2. \A i : IsNext(i) => i \in 1 .. Len(room)
      BY NextReceipt
    <3>3. \A i \in 1 .. Len(room) : room'[i] = room[i]
      BY RoomGrows, Appended
    <3> QED BY <2>1, <3>1, <3>2, <3>3 DEF PeerReleases
  <2> QED BY <2>1, <2>2, <2>3
<1>5. CASE UNCHANGED vars
  BY <1>5 DEF vars, IsNext, Unprocessed, PeerReleases
<1> QED BY <1>1, <1>2, <1>3, <1>4, <1>5

-----------------------------------------------------------------------------
\* The theorems.

LEMMA InitIInv == Init => IInv
<1> SUFFICES ASSUME Init PROVE IInv
  OBVIOUS
<1>1. Len(room) = 0 /\ known = 0
  BY DEF Init
<1>2. /\ \A g \in Game : closure[g] = "none" /\ commitment[g] = "none"
      /\ \A r \in Packet : intent[r] = "none" /\ request[r] = "none" /\ decided[r] = "none"
  BY Packets DEF Init
<1>3. PhaseInv /\ StepInv /\ SentIsAnswerable
  BY <1>1, <1>2 DEF Init, PhaseInv, StepInv, SentIsAnswerable
<1> QED BY <1>1, <1>2, <1>3, InitTypeOK, Packets
        DEF IInv, TablesAgree, PendingIsActive, ReceiptsAreTrue, OnePacketPerGame, ReleaseJustified

LEMMA IInvStep == IInv /\ [Next]_vars => IInv'
<1> SUFFICES ASSUME IInv, [Next]_vars PROVE IInv'
  OBVIOUS
<1>1. TypeOK'
  BY TypeOKStep DEF IInv
<1>2. StepInv'
  BY StepInvSubmit, StepInvWait, StepInvOthers DEF Next, Daemon
<1> QED BY <1>1, <1>2, PhaseInvStep, TablesAgreeStep, PendingIsActiveStep, ReceiptsAreTrueStep,
           OnePacketStep, SentAnswerableStep, ReleaseJustifiedStep DEF IInv

LEMMA Invariance == Spec => []IInv
  BY InitIInv, IInvStep, PTL DEF Spec

\* The state of the daemon, its tables and the room keep their types.
THEOREM TypeCorrect == Spec => []TypeOK
<1>1. IInv => TypeOK
  BY DEF IInv
<1> QED BY <1>1, Invariance, PTL

\* However often submission is interrupted and resumed, by however many crashes, every game
\* uses up at most one request id.
THEOREM OnePacket == Spec => []OnePacketPerGame
<1>1. IInv => OnePacketPerGame
  BY DEF IInv
<1> QED BY <1>1, Invariance, PTL

\* Every packet the referee may ever have received is on record in both tables, so that its
\* receipt is recognised whenever it comes.
THEOREM SentAnswerable == Spec => []SentIsAnswerable
<1>1. IInv => SentIsAnswerable
  BY DEF IInv
<1> QED BY <1>1, Invariance, PTL

\* A commitment is released only by an accepted receipt for its own game from the game's
\* final contributor.
THEOREM ReleasesJustified == Spec => []ReleaseJustified
<1>1. IInv => ReleaseJustified
  BY DEF IInv
<1> QED BY <1>1, Invariance, PTL

\* An accepted or rejected intent keeps its outcome under retries, resumption and duplicate
\* receipts.
THEOREM SettledStays == Spec => SettledForGood
<1>1. ASSUME IInv, [Next]_vars
      PROVE  [\A r \in Packet : intent[r] \in {"RECEIPT_ACCEPTED", "RECEIPT_REJECTED"} =>
                 intent'[r] = intent[r]]_vars
  <2>1. IInv'
    BY <1>1, IInvStep
  <2>2. \A r \in Packet : intent[r] \in Settled => intent'[r] \in Settled
    <3> SUFFICES ASSUME NEW r \in Packet, intent[r] \in Settled
                 PROVE  intent'[r] \in Settled
      OBVIOUS
    <3>0. intent \in [Packet -> Intents]
      BY <1>1 DEF IInv, TypeOK
    <3>1. CASE Prepare
      <4>1. UNCHANGED intent \/ (packet' # r
                                  /\ intent' = [intent EXCEPT ![packet'] = "SEND_INTENT_PERSISTED"])
        BY <1>1, <3>1, PreparesTheOne DEF Settled
      <4> QED BY <3>0, <4>1
    <3>2. ASSUME NEW q \in Packet, Retry(q) \/ (Mark /\ q = packet) PROVE intent'[r] \in Settled
      <4>1. q # r /\ intent' = [intent EXCEPT ![q] = "DELIVERY_UNKNOWN"]
        BY <1>1, <3>2, MarksReserved DEF Settled, Unsettled
      <4> QED BY <3>0, <4>1
    <3>3. CASE Mark
      <4>1. packet \in Packet
        BY <1>1, <3>3 DEF Mark, Went, IInv, StepInv
      <4> QED BY <3>2, <3>3, <4>1
    <3>4. CASE \E q \in Packet : Retry(q)
      BY <3>2, <3>4
    <3>5. ASSUME NEW i \in 1 .. Len(room), Accept(i) PROVE intent'[r] \in Settled
      <4>1. intent' = [intent EXCEPT ![room[i].packet] = "RECEIPT_ACCEPTED"]
        BY <3>5 DEF Accept
      <4> QED BY <3>0, <4>1 DEF Settled
    <3>6. CASE Reject
      <4>1. intent' = [intent EXCEPT ![packet] = "RECEIPT_REJECTED"]
        BY <3>6 DEF Reject
      <4> QED BY <3>0, <4>1 DEF Settled
    <3>7. CASE UNCHANGED intent
      BY <3>7
    <3> QED BY <1>1, <3>1, <3>3, <3>4, <3>5, <3>6, <3>7, OtherSteps
            DEF NextGame, Reserve, RejectRequest, AcceptRequest
  <2>3. \A r \in Packet : decided[r] # "none" => decided'[r] = decided[r]
    BY <1>1, DecidedStands
  <2> QED BY <1>1, <2>1, <2>2, <2>3 DEF IInv, ReceiptsAreTrue, Settled
<1> QED BY <1>1, Invariance, PTL DEF Spec, SettledForGood
=============================================================================
