----------------------------- MODULE Submission -----------------------------
(***************************************************************************)
(* Entry closure after publication: the integrity lookup, the submission   *)
(* packet and its retries (Daemon._submit, _reconcile_submission_delivery, *)
(* EntryClosureStore), the receipts of the submissions room                *)
(* (Daemon._receipts), and the release that lets the participant form the  *)
(* next team.  Games follow one another; each ends with Saruku or with a   *)
(* peer as final contributor.                                              *)
(*                                                                         *)
(* `step' is the daemon's place inside one cycle and is lost in a crash;   *)
(* between two values of step exactly one SQLite transaction or one        *)
(* network call happens.                                                   *)
(***************************************************************************)
EXTENDS Integers, Sequences

CONSTANTS GameCount,        \* how many games are played in a row
          PacketsPerGame,   \* how many request ids a game could use up
          MaxAttempts,      \* MAX_SUBMISSION_ATTEMPTS
          MaxReceipts,      \* bound: receipts the referee writes
          MaxCrashes        \* bound: crashes of the daemon

ASSUME BoundsAssumption ==
    /\ {GameCount, PacketsPerGame, MaxAttempts} \subseteq Nat \ {0}
    /\ {MaxReceipts, MaxCrashes} \subseteq Nat

Game == 1 .. GameCount
NoGame == 0
Packet == Game \X (1 .. PacketsPerGame)     \* a request id, with the game it was made for
GameOf(r) == r[1]
NoPacket == <<NoGame, 0>>

VARIABLES
    phase, game,    \* durable: phase and active_team
    closure,        \* who the closure row of a game names as final contributor
    commitment,     \* participant_commitments.state
    intent,         \* submission_intents.state of a request id
    request,        \* requests.status of the same id
    tries,          \* submission_intents.attempt_count
    lookups,        \* publication_integrity_attempts of the active game, up to 2
    strong,         \* strong_confirmation of the active game's parts
    known,          \* cursor of the submissions room
    done,           \* receipts marked 'done' in receipt_processing
    step, packet,   \* volatile: place in the cycle, the packet it is about
    \* the world
    intact,         \* the published thread is still as it was posted
    clock,          \* "early", the last two minutes, after the deadline
    due,            \* next_retry_at has passed
    room,           \* receipts in the submissions room, by sequence number
    sent,           \* packets on their way to the referee
    decided,        \* the referee's outcome for a request id
    crashes

rowVars == <<closure, commitment, intent, request, tries>>
metaVars == <<phase, game, lookups, strong>>
readVars == <<known, done>>
worldVars == <<intact, clock, due, room, sent, decided>>
vars == <<rowVars, metaVars, readVars, worldVars, step, packet, crashes>>

Intents == {"none", "SEND_INTENT_PERSISTED", "DELIVERY_UNKNOWN",
            "RECEIPT_ACCEPTED", "RECEIPT_REJECTED"}
Outcomes == {"none", "accepted", "rejected"}
Senders == {"saruku", "peer", "stranger"}
Receipt == [packet : Packet \cup {NoPacket}, sender : Senders, entry : Game, ok : BOOLEAN]

TypeOK ==
    /\ phase \in {"SUBMIT", "WAIT_SUBMISSION_RECEIPT", "DONE", "DISCOVERY"}
    /\ game \in Game \cup {NoGame}
    /\ closure \in [Game -> {"none", "saruku", "peer"}]
    /\ commitment \in [Game -> {"none", "ACTIVE", "RELEASED"}]
    /\ intent \in [Packet -> Intents]
    /\ request \in [Packet -> {"none", "pending", "accepted", "rejected"}]
    /\ tries \in [Packet -> 0 .. MaxAttempts]
    /\ lookups \in 0 .. 2
    /\ strong \in BOOLEAN /\ intact \in BOOLEAN /\ due \in BOOLEAN
    /\ clock \in {"early", "closing", "late"}
    /\ room \in Seq(Receipt) /\ Len(room) <= MaxReceipts
    /\ known \in 0 .. Len(room)
    /\ done \subseteq 1 .. known
    /\ sent \subseteq Packet
    /\ decided \in [Packet -> Outcomes]
    /\ step \in {"idle", "judged", "prepared", "reserved", "marked", "posted", "reading",
                 "released", "answered", "noted", "refused", "peer", "peerDone", "retrying",
                 "leaving"}
    /\ packet \in Packet \cup {NoPacket}
    /\ crashes \in 0 .. MaxCrashes

Init ==
    /\ phase = "DISCOVERY" /\ game = NoGame
    /\ closure = [g \in Game |-> "none"]
    /\ commitment = [g \in Game |-> "none"]
    /\ intent = [r \in Packet |-> "none"]
    /\ request = [r \in Packet |-> "none"]
    /\ tries = [r \in Packet |-> 0]
    /\ lookups = 0 /\ strong = FALSE
    /\ known = 0 /\ done = {}
    /\ step = "idle" /\ packet = NoPacket
    /\ intact = TRUE /\ clock = "early" /\ due = FALSE
    /\ room = <<>> /\ sent = {} /\ decided = [r \in Packet |-> "none"]
    /\ crashes = 0

\* Fault: a rejected packet is taken for an unsettled one.
UnsettledOrRejected == {"SEND_INTENT_PERSISTED", "DELIVERY_UNKNOWN", "RECEIPT_REJECTED"}

Unsettled == {"SEND_INTENT_PERSISTED", "DELIVERY_UNKNOWN"}

\* pending_submission: the unsettled intent of the active game.
Pending == {r \in Packet : GameOf(r) = game /\ intent[r] \in Unsettled}

Went(from, to) == step = from /\ step' = to

-----------------------------------------------------------------------------
\* From the last word of a poem to the phases of this module: formation,
\* writing, _poem_complete and, for Saruku, the whole of Publication.
NextGame ==
    /\ step = "idle" /\ phase = "DISCOVERY" /\ clock # "late"
    /\ \E g \in Game : /\ closure[g] = "none" /\ \A h \in Game : h < g => closure[h] # "none"
                       /\ game' = g
                       /\ commitment' = [commitment EXCEPT ![g] = "ACTIVE"]
                       /\ \/ /\ closure' = [closure EXCEPT ![g] = "saruku"]
                             /\ phase' = "SUBMIT"
                             /\ strong' \in BOOLEAN
                          \/ /\ closure' = [closure EXCEPT ![g] = "peer"]
                             /\ phase' = "WAIT_SUBMISSION_RECEIPT"
                             /\ UNCHANGED strong
    /\ lookups' = 0 /\ intact' = TRUE
    /\ UNCHANGED <<intent, request, tries, readVars, clock, due, room, sent,
                   decided, step, packet, crashes>>

\* _submit: the published posts are fetched from X.  An unreachable X leaves the verdict
\* open.  Posts that are not as published, or a token of another account, are a conflict:
\* it ends the call, changing nothing, and is not remembered by the next.
Verdicts == {"UNRESOLVED"} \cup {v \in {"MATCH"} : intact}

\* prepare_submission: an unsettled packet is used whatever the verdict and
\* the time; a new one needs both.
MayPrepare(verdict) ==
    \/ Pending # {}
    \/ clock # "late" /\ (verdict = "MATCH" \/ strong)

Judge(verdict) ==
    /\ step = "idle" /\ phase = "SUBMIT"
    /\ verdict \in Verdicts
    /\ LET tried == IF lookups = 2 THEN 2 ELSE lookups + 1
       IN  /\ lookups' = tried
           /\ step' = IF \/ verdict = "UNRESOLVED" /\ tried < 2 /\ clock = "early"
                        \/ ~MayPrepare(verdict)
                       THEN step ELSE "judged"
    /\ UNCHANGED <<rowVars, readVars, worldVars, phase, game, strong, packet, crashes>>

NewPacket(r) ==
    /\ GameOf(r) = game /\ intent[r] = "none"
    /\ \A s \in Packet : GameOf(s) = game /\ s[2] < r[2] => intent[s] # "none"

\* Faults: every call makes a new packet; a packet found on record is taken to
\* have its request row.
PrepareAnew ==
    /\ Went("judged", "prepared")
    /\ \E r \in Packet : /\ NewPacket(r)
                         /\ packet' = r
                         /\ intent' = [intent EXCEPT ![r] = "SEND_INTENT_PERSISTED"]
    /\ UNCHANGED <<closure, commitment, request, tries, metaVars, readVars, worldVars, crashes>>

PrepareSkippingReserve ==
    /\ step = "judged"
    /\ IF Pending # {}
         THEN packet' \in Pending /\ step' = "reserved" /\ UNCHANGED intent
         ELSE \E r \in Packet : /\ NewPacket(r)
                                /\ packet' = r /\ step' = "prepared"
                                /\ intent' = [intent EXCEPT ![r] = "SEND_INTENT_PERSISTED"]
    /\ UNCHANGED <<closure, commitment, request, tries, metaVars, readVars, worldVars, crashes>>

Prepare ==
    /\ Went("judged", "prepared")
    /\ IF Pending # {}
         THEN packet' \in Pending /\ UNCHANGED intent
         ELSE \E r \in Packet : /\ NewPacket(r)
                                /\ packet' = r
                                /\ intent' = [intent EXCEPT ![r] = "SEND_INTENT_PERSISTED"]
    /\ UNCHANGED <<closure, commitment, request, tries, metaVars, readVars, worldVars, crashes>>

\* Only one request of kind 'submit' is ever pending, of whichever game.
Reserve ==
    /\ Went("prepared", "reserved")
    /\ request' = IF request[packet] # "none" \/ \E r \in Packet : request[r] = "pending"
                    THEN request
                    ELSE [request EXCEPT ![packet] = "pending"]
    /\ UNCHANGED <<closure, commitment, intent, tries, metaVars, readVars, worldVars, packet,
                   crashes>>

\* mark_submission_attempt, called on unsettled packets only.
MarkAttempt(r) ==
    /\ intent[r] \in Unsettled
    /\ intent' = [intent EXCEPT ![r] = "DELIVERY_UNKNOWN"]
    /\ tries' = [tries EXCEPT ![r] = IF @ = MaxAttempts THEN @ ELSE @ + 1]
    /\ due' = FALSE
    /\ UNCHANGED <<closure, commitment, request, metaVars, readVars, intact, clock, room, sent,
                   decided, crashes>>

Mark == Went("reserved", "marked") /\ MarkAttempt(packet) /\ UNCHANGED packet

\* The POST arrives or it does not; either way its exception is swallowed.
Post(from, to) ==
    /\ Went(from, to)
    /\ \/ sent' = sent \cup {packet}
       \/ UNCHANGED sent
    /\ UNCHANGED <<rowVars, metaVars, readVars, intact, clock, due, room, decided, packet,
                   crashes>>

EnterWait ==
    /\ Went("posted", "idle")
    /\ phase' = "WAIT_SUBMISSION_RECEIPT"
    /\ UNCHANGED <<rowVars, game, lookups, strong, readVars, worldVars, packet,
                   crashes>>

-----------------------------------------------------------------------------
\* WAIT_SUBMISSION_RECEIPT: the room is read, its unprocessed receipts are
\* handled in sequence order, and only then may the packet be sent again.

\* Fault: only what this read delivers is handled.
ReadFresh(upTo) ==
    /\ phase = "WAIT_SUBMISSION_RECEIPT"
    /\ Went("idle", "reading")
    /\ upTo \in known .. Len(room) /\ known' = upTo
    /\ done' = 1 .. known
    /\ UNCHANGED <<rowVars, metaVars, worldVars, packet, crashes>>

\* A read may deliver a part of what is there; a failed read ends the cycle.
Read(upTo) ==
    /\ phase = "WAIT_SUBMISSION_RECEIPT"
    /\ Went("idle", "reading")
    /\ upTo \in known .. Len(room) /\ known' = upTo
    /\ UNCHANGED <<done, rowVars, metaVars, worldVars, packet, crashes>>

Unprocessed == (1 .. known) \ done
\* The receipt the loop is at.
IsNext(i) == i \in Unprocessed /\ \A j \in Unprocessed : i <= j

\* A receipt is Saruku's own if it answers a request on record.
Actionable(r) == r.packet # NoPacket /\ r.sender = "saruku" /\ request[r.packet] # "none"

\* accept_submission: the intent and the commitment change in one transaction,
\* whatever they were before.
Accept(i) ==
    /\ Went("reading", "released")
    /\ IsNext(i) /\ room[i].ok /\ Actionable(room[i])
    /\ intent' = [intent EXCEPT ![room[i].packet] = "RECEIPT_ACCEPTED"]
    /\ commitment' = [commitment EXCEPT ![GameOf(room[i].packet)] = "RELEASED"]
    /\ packet' = room[i].packet
    /\ UNCHANGED <<closure, request, tries, metaVars, readVars, worldVars, crashes>>

AcceptRequest ==
    /\ Went("released", "answered")
    /\ request' = [request EXCEPT ![packet] = "accepted"]
    /\ UNCHANGED <<closure, commitment, intent, tries, metaVars, readVars, worldVars, packet,
                   crashes>>

\* Fault: the end of the game is noted only by the branch for a peer's submission.
AcceptPhaseNever ==
    /\ Went("answered", "noted")
    /\ UNCHANGED <<rowVars, metaVars, readVars, worldVars, packet, crashes>>

\* Only the active game is over.
AcceptPhase ==
    /\ Went("answered", "noted")
    /\ phase' = IF game = GameOf(packet) THEN "DONE" ELSE phase
    /\ UNCHANGED <<rowVars, game, lookups, strong, readVars, worldVars, packet,
                   crashes>>

\* Fault: off by one.
MarkDoneNext(i) ==
    /\ Went("noted", "reading")
    /\ IsNext(i) /\ done' = done \cup {i + 1}
    /\ UNCHANGED <<known, rowVars, metaVars, worldVars, packet, crashes>>

MarkDone(i) ==
    /\ Went("noted", "reading")
    /\ IsNext(i) /\ done' = done \cup {i}
    /\ UNCHANGED <<known, rowVars, metaVars, worldVars, packet, crashes>>

RejectRequest(i) ==
    /\ Went("reading", "refused")
    /\ IsNext(i) /\ ~room[i].ok /\ Actionable(room[i])
    /\ request' = [request EXCEPT ![room[i].packet] = "rejected"]
    /\ packet' = room[i].packet
    /\ UNCHANGED <<closure, commitment, intent, tries, metaVars, readVars, worldVars, crashes>>

\* reject_submission.  The phase stays where it is.
Reject ==
    /\ Went("refused", "noted")
    /\ intent' = [intent EXCEPT ![packet] = "RECEIPT_REJECTED"]
    /\ UNCHANGED <<closure, commitment, request, tries, metaVars, readVars, worldVars, packet,
                   crashes>>

\* Fault: the sender is not compared with the final contributor.
PeerReleasesAnySender(r) == r.ok /\ closure[r.entry] = "peer"

\* release_from_generic_peer_receipt: the entry names the game, the sender its
\* final contributor.
PeerReleases(r) == r.ok /\ r.sender = closure[r.entry] /\ closure[r.entry] # "saruku"

\* A receipt of someone else: a release if it is one, and it is done ...
ForeignReceipt(i) ==
    /\ step = "reading"
    /\ IsNext(i) /\ ~Actionable(room[i])
    /\ IF PeerReleases(room[i])
         THEN /\ step' = "peer"
              /\ commitment' = [commitment EXCEPT ![room[i].entry] = "RELEASED"]
              /\ UNCHANGED done
         ELSE /\ done' = done \cup {i}
              /\ UNCHANGED <<step, commitment>>
    /\ UNCHANGED <<known, closure, intent, request, tries, metaVars, worldVars, packet, crashes>>

PeerMarkDone(i) ==
    /\ step = "peer" /\ IsNext(i)
    /\ step' = IF game = room[i].entry THEN "peerDone" ELSE "reading"
    /\ done' = done \cup {i}
    /\ UNCHANGED <<known, rowVars, metaVars, worldVars, packet, crashes>>

\* ... before the phase follows.
PeerPhase ==
    /\ Went("peerDone", "reading")
    /\ phase' = "DONE"
    /\ UNCHANGED <<rowVars, game, lookups, strong, readVars, worldVars, packet,
                   crashes>>

\* submission_retry_due and the second sending of the very same packet.
Retryable(r) == r \in Pending /\ tries[r] < MaxAttempts /\ due

Retry(r) ==
    /\ Went("reading", "retrying")
    /\ Unprocessed = {} /\ phase = "WAIT_SUBMISSION_RECEIPT"
    /\ closure[game] = "saruku" /\ Retryable(r)
    /\ MarkAttempt(r)
    /\ packet' = r

CycleEnds ==
    /\ Went("reading", "idle")
    /\ Unprocessed = {}
    /\ phase = "WAIT_SUBMISSION_RECEIPT" => \A r \in Packet : ~Retryable(r)
    /\ UNCHANGED <<rowVars, metaVars, readVars, worldVars, packet, crashes>>

\* DONE: before the deadline a released participant looks for the next team.
\* active_team is cleared in one transaction, the phase moves in another.
Leave ==
    /\ Went("idle", "leaving")
    /\ phase = "DONE" /\ game # NoGame /\ commitment[game] = "RELEASED" /\ clock # "late"
    /\ game' = NoGame
    /\ UNCHANGED <<rowVars, phase, lookups, strong, readVars, worldVars, packet,
                   crashes>>

Rediscover ==
    /\ Went("leaving", "idle")
    /\ phase' = "DISCOVERY"
    /\ UNCHANGED <<rowVars, game, lookups, strong, readVars, worldVars, packet,
                   crashes>>

-----------------------------------------------------------------------------
Crash ==
    /\ step # "idle" /\ crashes < MaxCrashes
    /\ step' = "idle" /\ crashes' = crashes + 1
    /\ UNCHANGED <<rowVars, metaVars, readVars, worldVars, packet>>

\* The referee answers every packet, the same one always in the same way.
RefereeAnswers(r) ==
    /\ r \in sent /\ Len(room) < MaxReceipts
    /\ sent' = sent \ {r}
    /\ \E ok \in BOOLEAN :
          /\ decided[r] # "none" => (ok <=> decided[r] = "accepted")
          /\ decided' = [decided EXCEPT ![r] = IF ok THEN "accepted" ELSE "rejected"]
          /\ room' = Append(room, [packet |-> r, sender |-> "saruku", entry |-> GameOf(r),
                                   ok |-> ok])
    /\ UNCHANGED <<rowVars, metaVars, readVars, intact, clock, due, step, packet, crashes>>

\* Receipts of other participants, among them the peer who closes a game, and
\* strangers whose entry bears the same name.
OthersAnswered ==
    /\ Len(room) < MaxReceipts
    /\ \E g \in Game, who \in {"peer", "stranger"}, ok \in BOOLEAN :
          /\ closure[g] # "none"
          /\ room' = Append(room, [packet |-> NoPacket, sender |-> who, entry |-> g, ok |-> ok])
    /\ UNCHANGED <<rowVars, metaVars, readVars, intact, clock, due, sent, decided, step, packet,
                   crashes>>

WorldMoves ==
    /\ \/ /\ game # NoGame /\ intact /\ intact' = FALSE    \* a post is deleted or edited
          /\ UNCHANGED <<clock, due>>
       \/ /\ clock = "early" /\ clock' = "closing"
          /\ UNCHANGED <<intact, due>>
       \/ /\ clock = "closing" /\ clock' = "late"
          /\ UNCHANGED <<intact, due>>
       \/ /\ ~due /\ due' = TRUE
          /\ UNCHANGED <<intact, clock>>
    /\ UNCHANGED <<rowVars, metaVars, readVars, room, sent, decided, step, packet, crashes>>

Submit ==
    \/ \E verdict \in {"MATCH", "UNRESOLVED"} : Judge(verdict)
    \/ Prepare \/ Reserve \/ Mark \/ Post("marked", "posted") \/ EnterWait

Wait ==
    \/ \E i \in 1 .. Len(room) : \/ Accept(i) \/ MarkDone(i) \/ RejectRequest(i)
                                 \/ ForeignReceipt(i) \/ PeerMarkDone(i)
    \/ AcceptRequest \/ AcceptPhase \/ Reject \/ PeerPhase
    \/ \E r \in Packet : Retry(r)
    \/ Post("retrying", "idle") \/ CycleEnds

Daemon == Submit \/ Wait \/ Leave \/ Rediscover \/ \E upTo \in 0 .. Len(room) : Read(upTo)

World == (\E r \in Packet : RefereeAnswers(r)) \/ OthersAnswered \/ WorldMoves

Next == NextGame \/ Daemon \/ Crash \/ World

Spec == Init /\ [][Next]_vars

\* The daemon is a loop whose every cycle ends, and reading the room eventually
\* delivers all of it.  Crashes are finitely many, by MaxCrashes.
Fairness == WF_vars(Daemon) /\ SF_vars(Read(Len(room)))

FairSpec == Spec /\ Fairness

-----------------------------------------------------------------------------
\* Properties.

\* However often submission is interrupted and resumed, a game uses up one
\* request id at most (prepare_submission reuses the unsettled packet).
OnePacketPerGame ==
    \A r, s \in Packet : GameOf(r) = GameOf(s) /\ intent[r] # "none" /\ intent[s] # "none" => r = s

\* Every packet the referee may ever have received is on record in both tables,
\* so that its receipt can be recognised after any crash.
SentIsAnswerable ==
    \A r \in Packet : r \in sent \/ decided[r] # "none" =>
        request[r] # "none" /\ intent[r] \notin {"none", "SEND_INTENT_PERSISTED"}

\* A commitment is released only by an accepted receipt for that very game from
\* its final contributor: not by strangers, and not by receipts of older games.
ReleaseJustified ==
    \A g \in Game : commitment[g] = "RELEASED" =>
        \E i \in 1 .. known : room[i].ok /\ room[i].entry = g /\ room[i].sender = closure[g]

\* A settled intent stays as it is, whatever retry or duplicate receipt comes.
SettledForGood ==
    [][\A r \in Packet : intent[r] \in {"RECEIPT_ACCEPTED", "RECEIPT_REJECTED"} =>
          intent'[r] = intent[r]]_vars

\* Once the daemon waits for receipts, an acceptance in the room is learned of in
\* spite of crashes between reading, handling and marking it.
AcceptanceIsLearned ==
    \A g \in Game :
        (/\ phase = "WAIT_SUBMISSION_RECEIPT"
         /\ \E r \in Packet : GameOf(r) = g /\ decided[r] = "accepted")
            ~> \E r \in Packet : GameOf(r) = g /\ intent[r] = "RECEIPT_ACCEPTED"

\* A release, by Saruku's own receipt or by a peer's, returns the participant to team
\* formation, unless the contest ends first or a crash falls between two of the commits
\* it takes.
ReleaseReturnsEligibility ==
    \A g \in Game : (game = g /\ commitment[g] = "RELEASED")
                       ~> (phase = "DISCOVERY" \/ clock = "late" \/ crashes > 0)
=============================================================================
