------------------------------- MODULE Consent -------------------------------
(***************************************************************************)
(* Joining a team: countersigning a roster, waiting for it to become       *)
(* ready, withdrawing from it, and the referee's answers (the end of       *)
(* Daemon._discovery, _wait_roster_ready, _bootstrap_formation_state,      *)
(* _reconcile_formation_transport, the roster branches of _receipts).      *)
(*                                                                         *)
(* Every SQLite transaction is a step of its own.  `todo' holds the        *)
(* transactions the running handler still has to make; it and `place', the *)
(* position in the cycle, are lost in a crash.  Watchdogs may fire whenever *)
(* their other conditions hold, since time is not modelled.                *)
(***************************************************************************)
EXTENDS Integers, Sequences, FiniteSetsExt

CONSTANTS GameCount,    \* how many teams there are to join
          MaxActions,   \* bound: protocol actions the daemon starts
          MaxRoom,      \* bound: records in the discovery room
          MaxCrashes    \* bound: crashes of the daemon

ASSUME BoundsAssumption == /\ GameCount \in Nat \ {0}
                           /\ {MaxActions, MaxRoom, MaxCrashes} \subseteq Nat

Game == 1 .. GameCount
NoGame == 0
NoAction == 0

VARIABLES
    phase, team,    \* durable: phase and active_team
    action,         \* protocol_outbox and requests; an action's id is its index
    epoch,          \* the active row of formation_epochs
    ended,          \* its inactive rows
    known,          \* cursor of the discovery room
    done,           \* its receipts marked 'done' in receipt_processing
    place, todo,    \* volatile: where the cycle stands, what its handler has left
    focus,          \* volatile: the action a handler is about
    \* the world
    room,           \* the discovery room, by sequence number
    judged,         \* how far the referee has read it
    standing,       \* rosters of Saruku the referee has accepted
    frozen,         \* teams the referee has declared ready
    over,           \* teams whose game is over and Saruku's commitment released
    crashes

dbVars == <<phase, team, action, epoch, ended>>
readVars == <<known, done>>
runVars == <<place, todo, focus>>
refereeVars == <<judged, standing, frozen>>
worldVars == <<room, refereeVars, over>>
vars == <<dbVars, readVars, runVars, worldVars, crashes>>

Kinds == {"application", "roster", "withdraw"}
ReceiptKinds == {"consented", "ready", "refused"}
Deliveries == {"NOT_SENT", "POSTED_UNCONFIRMED", "DELIVERY_UNKNOWN", "CONFIRMED",
               "EXPLICITLY_NOT_PERSISTED"}
Unresolved == {"POSTED_UNCONFIRMED", "DELIVERY_UNKNOWN"}
Possibly == Unresolved \cup {"CONFIRMED"}
Statuses == {"none", "pending", "posted", "accepted", "rejected", "withdrawn", "expired"}
Action == 1 .. MaxActions
Row == [kind : Kinds, game : Game, delivery : Deliveries, status : Statuses]

NoEpoch == [game |-> NoGame, application |-> NoAction, consent |-> "NOT_SENT",
            roster |-> NoAction, retreating |-> FALSE]
Epoch == [game : Game, application : Action \cup {NoAction}, consent : Deliveries,
          roster : Action \cup {NoAction}, retreating : BOOLEAN]
\* An epoch's id is made of its game and its application's request id.
Ended == [game : Game, application : Action \cup {NoAction}, status : {"team_ready", "given_up"}]

\* Records: Saruku's rosters and withdrawals, the referee's receipts for them,
\* and the signature that completes all others' consent to a team.
Record == [kind : {"roster", "withdraw"} \cup ReceiptKinds, id : Action]
             \cup [kind : {"peers"}, id : Game]

Places == {"idle", "receipts", "deciding", "choosing", "waiting", "returning"}
Commits == {"accept", "join", "confirm", "teamReady", "write", "done", "note", "reject", "deny",
            "denyEpoch", "leave", "discover", "retreated", "retreatDone", "abandon", "expire",
            "withdrawn", "intend", "consent", "reserve", "post", "wait", "confirmEpoch", "doubt",
            "doubtEpoch", "flee", "fleeEpoch", "posted"}

TypeOK ==
    /\ phase \in {"DISCOVERY", "WAIT_ROSTER_READY", "WRITING"}
    /\ team \in Game \cup {NoGame}
    /\ action \in Seq(Row) /\ Len(action) <= MaxActions
    /\ epoch \in Epoch \cup {NoEpoch}
    /\ ended \subseteq Ended
    /\ room \in Seq(Record) /\ Len(room) <= MaxRoom
    /\ known \in 0 .. Len(room) /\ done \subseteq 1 .. known
    /\ place \in Places /\ todo \in Seq(Commits) /\ focus \in 0 .. MaxActions
    /\ judged \in 0 .. Len(room)
    /\ standing \subseteq Action /\ frozen \subseteq Game /\ over \subseteq Game
    /\ crashes \in 0 .. MaxCrashes

Init ==
    /\ phase = "DISCOVERY" /\ team = NoGame
    /\ action = <<>> /\ epoch = NoEpoch /\ ended = {}
    /\ known = 0 /\ done = {}
    /\ place = "idle" /\ todo = <<>> /\ focus = NoAction
    /\ room = <<>> /\ judged = 0 /\ standing = {} /\ frozen = {} /\ over = {}
    /\ crashes = 0

-----------------------------------------------------------------------------
\* Queries.

Ids(kind) == {a \in DOMAIN action : action[a].kind = kind}
GameOf(a) == action[a].game

\* unresolved_protocol_intent and pending_request: the oldest, if any.
OldestOf(S) == IF S = {} THEN NoAction ELSE Min(S)
UnresolvedIntent(kind) == OldestOf({a \in Ids(kind) : action[a].delivery \in Unresolved})
Pending(kind) == OldestOf({a \in Ids(kind) : action[a].status = "pending"})

Records(kind, upTo) == {i \in 1 .. upTo : room[i].kind = kind}
\* The exact record of an action, among those read.
ReadBack(a) == \E i \in Records(action[a].kind, known) : room[i].id = a
PeersComplete(g) == \E i \in Records("peers", known) : room[i].id = g

\* Where Saruku signed a roster of one of the games; whether the last of these is of
\* game g and stands (roster_consensus over the records of the games).
Signatures(games) == {i \in Records("roster", known) : GameOf(room[i].id) \in games}
Signed(g, games) ==
    /\ \E i \in Signatures(games) : \A j \in Signatures(games) : i >= j /\ GameOf(room[i].id) = g
    /\ \A w \in Records("withdraw", known) :
          GameOf(room[w].id) = g => w < Max(Signatures(games))

PossiblyConsented == epoch.consent \in Possibly

EndedGames(status) == {e.game : e \in {f \in ended : f.status = status}}

-----------------------------------------------------------------------------
\* A cycle begins with the discovery room and its receipts.

Run(where, program, a) ==
    /\ place' = where /\ todo' = program /\ focus' = a

EndCycle == Run("idle", <<>>, NoAction)

\* Fault: the cursor is moved past the record it will read next.
ReadPastNext(upTo) ==
    /\ place = "idle" /\ phase \in {"DISCOVERY", "WAIT_ROSTER_READY"}
    /\ upTo \in known .. Len(room) /\ known' = upTo + 1
    /\ Run("receipts", <<>>, NoAction)
    /\ UNCHANGED <<dbVars, done, worldVars, crashes>>

Read(upTo) ==
    /\ place = "idle" /\ phase \in {"DISCOVERY", "WAIT_ROSTER_READY"}
    /\ upTo \in known .. Len(room) /\ known' = upTo
    /\ Run("receipts", <<>>, NoAction)
    /\ UNCHANGED <<dbVars, done, worldVars, crashes>>

Unprocessed == {i \in 1 .. known : room[i].kind \in ReceiptKinds} \ done

\* Fault: consent accepted is taken for a team ready.
ProgramWritesOnConsent(kind) ==
    CASE kind = "refused" -> <<"reject", "deny", "denyEpoch", "leave", "discover", "done">>
      [] OTHER -> <<"accept", "join", "confirm", "teamReady", "write", "done">>

\* Fault: a receipt is marked done before it is acted on.
ProgramDoneFirst(kind) ==
    CASE kind = "ready"     -> <<"done", "accept", "join", "confirm", "teamReady", "write">>
      [] kind = "consented" -> <<"done", "accept", "confirm", "note">>
      [] kind = "refused"   -> <<"done", "reject", "deny", "denyEpoch", "leave", "discover">>

\* What each receipt makes the daemon commit, one after the other.
Program(kind) ==
    CASE kind = "ready"     -> <<"accept", "join", "confirm", "teamReady", "write", "done">>
      [] kind = "consented" -> <<"accept", "confirm", "note", "done">>
      [] kind = "refused"   -> <<"reject", "deny", "denyEpoch", "leave", "discover", "done">>

\* Receipts are joined with their request by its id, whatever has become of it.
Handle(i) ==
    /\ place = "receipts" /\ todo = <<>>
    /\ i \in Unprocessed /\ \A j \in Unprocessed : i <= j
    /\ Run(place, Program(room[i].kind), room[i].id)
    /\ UNCHANGED <<dbVars, readVars, worldVars, crashes>>

\* The handler of the phase goes on.  (A cycle that found the phase changed ends
\* instead; the next then reads nothing new, which comes to the same.)
ReceiptsDone ==
    /\ place = "receipts" /\ todo = <<>> /\ Unprocessed = {}
    /\ Run(CASE phase = "DISCOVERY" -> "deciding"
             [] phase = "WAIT_ROSTER_READY" -> "waiting"
             [] OTHER -> "idle", <<>>, NoAction)
    /\ UNCHANGED <<dbVars, readVars, worldVars, crashes>>

-----------------------------------------------------------------------------
\* _bootstrap_formation_state: without an active epoch, one is rebuilt from the
\* latest open request, or from an unresolved intent.

OpenRequests == {a \in DOMAIN action : action[a].status \in {"pending", "posted"}}
LatestOpen == IF OpenRequests = {} THEN NoAction ELSE Max(OpenRequests)
Evidence == IF LatestOpen # NoAction THEN LatestOpen
            ELSE IF UnresolvedIntent("roster") # NoAction THEN UnresolvedIntent("roster")
            ELSE UnresolvedIntent("withdraw")
BootstrapDue == epoch = NoEpoch /\ Evidence # NoAction

\* An epoch's row becomes active again if it has the same id.
Revived(e) == {f \in ended : ~(f.game = e.game /\ f.application = e.application)}

Rebuilt ==
    LET row == LatestOpen
        isRow(kind) == row # NoAction /\ action[row].kind = kind
        roster == IF UnresolvedIntent("roster") = NoAction /\ isRow("roster")
                    THEN row ELSE UnresolvedIntent("roster")
        retreat == IF UnresolvedIntent("withdraw") = NoAction /\ isRow("withdraw")
                    THEN row ELSE UnresolvedIntent("withdraw")
    IN  [game |-> GameOf(Evidence),
         application |-> IF isRow("application") THEN row ELSE NoAction,
         consent |-> IF roster # NoAction THEN action[roster].delivery
                     ELSE IF retreat # NoAction THEN "DELIVERY_UNKNOWN" ELSE "NOT_SENT",
         roster |-> roster,
         retreating |-> retreat # NoAction]

Bootstrap ==
    /\ place \in {"deciding", "waiting"} /\ todo = <<>> /\ BootstrapDue
    /\ epoch' = Rebuilt /\ ended' = Revived(epoch')
    /\ UNCHANGED <<phase, team, action, readVars, runVars, worldVars, crashes>>

-----------------------------------------------------------------------------
\* The transactions of the handlers.

Commit(c) ==
    /\ todo # <<>> /\ Head(todo) = c
    /\ todo' = Tail(todo)

\* set_request_status; reserve_request writes only a new row.
NewStatus == [accept |-> "accepted", reject |-> "rejected", retreatDone |-> "accepted",
              expire |-> "expired", reserve |-> "pending", posted |-> "posted"]

CommitStatus ==
    /\ \E c \in DOMAIN NewStatus :
          /\ Commit(c)
          /\ action' = IF focus = NoAction THEN action
                       ELSE [action EXCEPT ![focus].status = NewStatus[c]]
    /\ UNCHANGED <<phase, team, epoch, ended, readVars, place, focus, worldVars, crashes>>

\* The roster waited for is given up along with the confirmed withdrawal.
CommitWithdrawn ==
    /\ Commit("withdrawn")
    /\ action' = [action EXCEPT ![Pending("roster")].status = "withdrawn"]
    /\ UNCHANGED <<phase, team, epoch, ended, readVars, place, focus, worldVars, crashes>>

\* set_protocol_delivery
NewDelivery == [confirm |-> "CONFIRMED", deny |-> "EXPLICITLY_NOT_PERSISTED",
                retreated |-> "CONFIRMED", doubt |-> "DELIVERY_UNKNOWN"]

CommitDelivery ==
    /\ \E c \in DOMAIN NewDelivery :
          /\ Commit(c)
          /\ action' = [action EXCEPT ![focus].delivery = NewDelivery[c]]
    /\ UNCHANGED <<phase, team, epoch, ended, readVars, place, focus, worldVars, crashes>>

\* persist_protocol_intent, for the active team.
NewKind == [intend |-> "roster", flee |-> "withdraw"]

CommitIntent ==
    /\ \E c \in DOMAIN NewKind :
          /\ Commit(c)
          /\ action' = Append(action, [kind |-> NewKind[c], game |-> team,
                                       delivery |-> "POSTED_UNCONFIRMED", status |-> "none"])
    /\ focus' = Len(action')
    /\ UNCHANGED <<phase, team, epoch, ended, readVars, place, worldVars, crashes>>

\* save_epoch of the active epoch, if there is one.  A receipt changes only the
\* epoch of its own request; what is read back changes the active one.
EpochAfter(c) ==
    CASE c = "note" -> [epoch EXCEPT !.consent = IF epoch.roster = focus THEN "CONFIRMED" ELSE @]
      [] c = "denyEpoch" ->
            [epoch EXCEPT !.consent = IF epoch.roster = focus THEN "EXPLICITLY_NOT_PERSISTED" ELSE @]
      [] c = "confirmEpoch" -> [epoch EXCEPT !.consent = "CONFIRMED"]
      [] c = "doubtEpoch" -> [epoch EXCEPT !.consent = "DELIVERY_UNKNOWN"]
      [] c = "consent" -> [epoch EXCEPT !.consent = "POSTED_UNCONFIRMED", !.roster = focus]
      [] c = "fleeEpoch" -> [epoch EXCEPT !.retreating = TRUE]

CommitEpoch ==
    /\ \E c \in {"note", "denyEpoch", "confirmEpoch", "doubtEpoch", "consent", "fleeEpoch"} :
          /\ Commit(c)
          /\ epoch' = IF epoch = NoEpoch THEN NoEpoch ELSE EpochAfter(c)
    /\ UNCHANGED <<phase, team, action, ended, readVars, place, focus, worldVars, crashes>>

\* The epoch ends, whichever game it is of.
NewEnd == [teamReady |-> "team_ready", abandon |-> "given_up"]

CommitEnd ==
    /\ \E c \in DOMAIN NewEnd :
          /\ Commit(c)
          /\ ended' = IF epoch = NoEpoch THEN ended
                      ELSE ended \cup {[game |-> epoch.game, application |-> epoch.application,
                                        status |-> NewEnd[c]]}
    /\ epoch' = NoEpoch
    /\ UNCHANGED <<phase, team, action, readVars, place, focus, worldVars, crashes>>

CommitTeam ==
    /\ \/ Commit("join") /\ team' = GameOf(focus)
       \/ Commit("leave") /\ team' = NoGame
    /\ UNCHANGED <<phase, action, epoch, ended, readVars, place, focus, worldVars, crashes>>

NewPhase == [write |-> "WRITING", discover |-> "DISCOVERY", wait |-> "WAIT_ROSTER_READY"]

CommitPhase ==
    /\ \E c \in DOMAIN NewPhase : Commit(c) /\ phase' = NewPhase[c]
    /\ UNCHANGED <<team, action, epoch, ended, readVars, place, focus, worldVars, crashes>>

CommitDone ==
    /\ Commit("done")
    /\ done' = done \cup {Min(Unprocessed)}
    /\ UNCHANGED <<dbVars, known, place, focus, worldVars, crashes>>

\* The POST arrives and returns, or it raises an exception that ends the cycle,
\* having arrived or not.
CommitPost ==
    /\ todo # <<>> /\ Head(todo) = "post"
    /\ \/ /\ Len(room) < MaxRoom
          /\ room' = Append(room, [kind |-> action[focus].kind, id |-> focus])
          /\ \/ todo' = Tail(todo) /\ UNCHANGED <<place, focus>>
             \/ EndCycle
       \/ UNCHANGED room /\ EndCycle
    /\ UNCHANGED <<dbVars, readVars, refereeVars, over, crashes>>

Transaction == CommitStatus \/ CommitWithdrawn \/ CommitDelivery \/ CommitIntent \/ CommitEpoch
            \/ CommitEnd \/ CommitTeam \/ CommitPhase \/ CommitDone \/ CommitPost

-----------------------------------------------------------------------------
\* DISCOVERY, after the receipts.

Settled == todo = <<>> /\ ~BootstrapDue

\* _reconcile_formation_transport: the withdrawal is seen in the room.
RetreatSeen(w) == w # NoAction /\ epoch.retreating /\ GameOf(w) = epoch.game /\ ReadBack(w)

ReconcileRetreat ==
    /\ place = "deciding" /\ Settled /\ RetreatSeen(UnresolvedIntent("withdraw"))
    /\ Run("choosing", <<"retreated", "retreatDone", "abandon", "leave">>,
           UnresolvedIntent("withdraw"))
    /\ UNCHANGED <<dbVars, readVars, worldVars, crashes>>

Choosing == \/ place = "choosing" /\ todo = <<>>
            \/ place = "deciding" /\ Settled /\ ~RetreatSeen(UnresolvedIntent("withdraw"))

\* Nothing is chosen while Saruku may be committed.  (A roster still pending would send
\* the daemon to WAIT_ROSTER_READY; its epoch then stands, and nothing comes of it.)
Free == Choosing /\ ~PossiblyConsented /\ ~epoch.retreating /\ team = NoGame

\* The epoch stalls, or a better one is at hand, which is applied to next.
GiveUp ==
    /\ Free /\ epoch # NoEpoch
    /\ Run("returning", <<"abandon", "expire">>, epoch.application)
    /\ UNCHANGED <<dbVars, readVars, worldVars, crashes>>

\* An application, sent and seen in the room.
Apply(g) ==
    /\ Free /\ epoch = NoEpoch /\ Len(action) < MaxActions
    /\ g \notin over /\ Signatures({g}) = {}
    /\ \A a \in Ids("application") : GameOf(a) = g => action[a].status # "pending"
    /\ action' = Append(action, [kind |-> "application", game |-> g, delivery |-> "CONFIRMED",
                                 status |-> "pending"])
    /\ epoch' = [NoEpoch EXCEPT !.game = g, !.application = Len(action')]
    /\ EndCycle
    /\ UNCHANGED <<phase, team, ended, readVars, worldVars, crashes>>

\* A roster with the inviter's and another signature, of the team applied to (what is
\* older than the invitation does not count, and the invitation of a rebuilt epoch
\* may be newer than Saruku's signature); or, without application, one that all
\* others have signed, among the teams looked at, if it was not given up before.
MayCountersign(g) ==
    /\ g \notin over /\ Pending("roster") = NoAction
    /\ \/ /\ epoch.game = g
          /\ ~Signed(g, {g}) \/ epoch.application = NoAction
       \/ /\ epoch = NoEpoch
          /\ PeersComplete(g) /\ g \notin EndedGames("given_up")
          /\ \E games \in SUBSET Game : g \in games /\ ~Signed(g, games)

\* Fault: the roster is posted before its request is reserved.
CountersignPostsFirst(g) ==
    /\ Free /\ MayCountersign(g) /\ Len(action) < MaxActions
    /\ team' = g
    /\ Run("returning", <<"intend", "consent", "post", "reserve", "wait">>, NoAction)
    /\ UNCHANGED <<phase, action, epoch, ended, readVars, worldVars, crashes>>

\* Countersigning starts with select_team.
Countersign(g) ==
    /\ Free /\ MayCountersign(g) /\ Len(action) < MaxActions
    /\ team' = g
    /\ Run("returning", <<"intend", "consent", "reserve", "post", "wait">>, NoAction)
    /\ UNCHANGED <<phase, action, epoch, ended, readVars, worldVars, crashes>>

-----------------------------------------------------------------------------
\* WAIT_ROSTER_READY, after the receipts.

Waiting(r) ==
    /\ place = "waiting" /\ Settled
    /\ r = Pending("roster") /\ r # NoAction /\ team = GameOf(r)

RetreatOf(r) ==
    LET w == UnresolvedIntent("withdraw")
    IN  IF w # NoAction /\ GameOf(w) = GameOf(r) THEN w ELSE NoAction

RetreatConfirmed(r) ==
    /\ Waiting(r) /\ RetreatOf(r) # NoAction /\ ReadBack(RetreatOf(r))
    /\ Run("returning", <<"retreated", "retreatDone", "withdrawn", "abandon", "leave", "discover">>,
           RetreatOf(r))
    /\ UNCHANGED <<dbVars, readVars, worldVars, crashes>>

ConsentConfirmed(r) ==
    /\ Waiting(r) /\ RetreatOf(r) = NoAction
    /\ action[r].delivery \in Unresolved /\ ReadBack(r)
    /\ Run(place, <<"confirm", "confirmEpoch">>, r)
    /\ UNCHANGED <<dbVars, readVars, worldVars, crashes>>

\* Fault: a consent that is not in the room yet is taken for one that never went out.
ConsentDenied(r) ==
    /\ Waiting(r) /\ RetreatOf(r) = NoAction
    /\ action[r].delivery = "POSTED_UNCONFIRMED" /\ ~ReadBack(r)
    /\ Run("returning", <<"reject", "deny", "denyEpoch", "leave", "discover">>, r)
    /\ UNCHANGED <<dbVars, readVars, worldVars, crashes>>

ConsentDoubted(r) ==
    /\ Waiting(r) /\ RetreatOf(r) = NoAction
    /\ action[r].delivery = "POSTED_UNCONFIRMED" /\ ~ReadBack(r)
    /\ Run("returning", <<"doubt", "doubtEpoch">>, r)
    /\ UNCHANGED <<dbVars, readVars, worldVars, crashes>>

\* An hour without progress, the roster incomplete, the room open.  A withdrawal
\* still pending, of whichever game, is posted again in place of a new one.
SafeWithdraw(r) ==
    /\ Waiting(r) /\ RetreatOf(r) = NoAction
    /\ action[r].delivery \notin Unresolved /\ epoch.consent \notin Unresolved
    /\ ~PeersComplete(team)
    /\ \/ /\ Pending("withdraw") = NoAction /\ Len(action) < MaxActions
          /\ Run("returning", <<"flee", "fleeEpoch", "reserve", "post", "posted">>, NoAction)
       \/ /\ Pending("withdraw") # NoAction
          /\ Run("returning", <<"post", "posted">>, Pending("withdraw"))
    /\ UNCHANGED <<dbVars, readVars, worldVars, crashes>>

\* Every handler may also find nothing to do.
CycleEnds ==
    /\ \/ Choosing
       \/ place = "waiting" /\ Settled
       \/ place = "returning" /\ todo = <<>>
    /\ EndCycle
    /\ UNCHANGED <<dbVars, readVars, worldVars, crashes>>

-----------------------------------------------------------------------------
\* The rest of a game: writing, publication, submission, release.
GameOver ==
    /\ place = "idle" /\ phase = "WRITING" /\ team \in frozen \ over
    /\ over' = over \cup {team}
    /\ team' = NoGame /\ phase' = "DISCOVERY"
    /\ UNCHANGED <<action, epoch, ended, readVars, runVars, room, refereeVars, crashes>>

Crash ==
    /\ place # "idle" /\ crashes < MaxCrashes
    /\ crashes' = crashes + 1
    /\ EndCycle
    /\ UNCHANGED <<dbVars, readVars, worldVars>>

PeersSign(g) ==
    /\ Len(room) < MaxRoom /\ \A i \in Records("peers", Len(room)) : room[i].id # g
    /\ room' = Append(room, [kind |-> "peers", id |-> g])
    /\ UNCHANGED <<dbVars, readVars, runVars, refereeVars, over, crashes>>

\* The referee reads the room in order, behind the participants, and answers in it.
Answer(kind, r) == Len(room) < MaxRoom /\ room' = Append(room, [kind |-> kind, id |-> r])

PeersJudged(g) == \E i \in Records("peers", judged) : room[i].id = g

JudgeRoster(r) ==
    \/ /\ GameOf(r) \notin frozen
       /\ standing' = standing \cup {r}
       /\ IF PeersJudged(GameOf(r))
            THEN Answer("ready", r) /\ frozen' = frozen \cup {GameOf(r)}
            ELSE Answer("consented", r) /\ UNCHANGED frozen
    \/ Answer("refused", r) /\ UNCHANGED <<standing, frozen>>

\* A withdrawal from a ready team is void.
JudgeWithdrawal(w) ==
    /\ standing' = {r \in standing : GameOf(r) # GameOf(w) \/ GameOf(w) \in frozen}
    /\ UNCHANGED <<room, frozen>>

JudgePeers(g) ==
    /\ UNCHANGED standing
    /\ IF \E r \in standing : GameOf(r) = g
         THEN /\ frozen' = frozen \cup {g}
              /\ Answer("ready", CHOOSE r \in standing : GameOf(r) = g)
         ELSE UNCHANGED <<room, frozen>>

RefereeJudges ==
    /\ judged < Len(room) /\ judged' = judged + 1
    /\ LET record == room[judged']
       IN  CASE record.kind = "roster"   -> JudgeRoster(record.id)
             [] record.kind = "withdraw" -> JudgeWithdrawal(record.id)
             [] record.kind = "peers"    -> JudgePeers(record.id)
             [] OTHER                    -> UNCHANGED <<room, standing, frozen>>
    /\ UNCHANGED <<dbVars, readVars, runVars, over, crashes>>

Daemon ==
    \/ \E upTo \in 0 .. Len(room) : Read(upTo)
    \/ \E i \in 1 .. known : Handle(i)
    \/ ReceiptsDone \/ Bootstrap \/ ReconcileRetreat \/ GiveUp \/ CycleEnds \/ Transaction
    \/ \E g \in Game : Apply(g) \/ Countersign(g)
    \/ \E r \in Ids("roster") : \/ RetreatConfirmed(r) \/ ConsentConfirmed(r)
                                \/ ConsentDoubted(r) \/ SafeWithdraw(r)

World == RefereeJudges \/ GameOver \/ \E g \in Game : PeersSign(g)

Next == Daemon \/ World \/ Crash

Spec == Init /\ [][Next]_vars

\* The daemon is a loop whose every cycle ends; reading the room eventually
\* delivers all of it.
FairSpec == Spec /\ WF_vars(Daemon) /\ SF_vars(Read(Len(room)))

-----------------------------------------------------------------------------
\* Properties.

\* A consent in the room that may count: of a game not over, not refused, and not
\* followed by Saruku's withdrawal.
Out(i) ==
    /\ GameOf(room[i].id) \notin over
    /\ \A j \in Records("refused", Len(room)) : room[j].id # room[i].id
    /\ \A j \in Records("withdraw", Len(room)) : GameOf(room[j].id) = GameOf(room[i].id) => j < i

\* A withdrawal of Saruku's from a team that is ready with the consent it withdraws: the
\* last signature was there before the withdrawal, which the referee passes over.
Outrun ==
    \E i \in Records("roster", Len(room)), w \in Records("withdraw", Len(room)),
       q \in Records("ready", Len(room)) :
        i < w /\ GameOf(room[i].id) = GameOf(room[w].id) /\ room[q].id = room[i].id

\* Unless a withdrawal is outrun, Saruku never has two consents out, whatever was lost,
\* read late, rebuilt after a crash or given up: neither to two teams nor twice to one.
OneConsentOut ==
    Outrun \/ \A i, j \in Records("roster", Len(room)) : Out(i) /\ Out(j) => i = j

\* Whatever of Saruku's is in the room has its request row: a receipt for a request
\* without one is ignored as none of Saruku's business.
SentIsOnRecord ==
    \A i \in Records("roster", Len(room)) \cup Records("withdraw", Len(room)) :
        action[room[i].id].status # "none"

\* Saruku writes for no team but one of which the referee has said, in a receipt
\* already read, that a consent of Saruku's makes it ready.  (A refusal of another
\* consent, read along with that receipt, takes the team away again, and after a crash
\* WRITING has none; then nothing is written.)
WritingIsReady ==
    phase = "WRITING" /\ team # NoGame =>
        \E i \in Records("ready", known) : GameOf(room[i].id) = team

\* Once the room says that a consent of Saruku's has made a team ready, Saruku signs
\* for no other team before the game is over.
NoConflictingCommitment ==
    \A i \in Records("ready", Len(room)), j \in Records("roster", Len(room)) :
        i < j => GameOf(room[i].id) \in over \cup {GameOf(room[j].id)}

\* An epoch that has ended, with a team or without, is not taken up again.
TerminalStaysTerminal == [][\A e \in ended : e \in ended']_vars

\* That a consent of Saruku's has made its team ready is learned, unless Saruku is
\* writing for another: no phase, crash or lost answer keeps the receipt unread.
Readied(r) == \E i \in Records("ready", Len(room)) : room[i].id = r
ReadyIsLearned ==
    \A r \in Action :
        Readied(r) ~> (phase = "WRITING" \/ (r \in Ids("roster") /\ action[r].status = "accepted"))
=============================================================================
