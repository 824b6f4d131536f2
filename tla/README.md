# TLA+ verification of sonnet-chain

sonnet-chain is a participant ("Saruku") in a collaborative sonnet contest. A
daemon reads numbered message rooms of a server (Technocore), joins a team,
agrees to a signed roster, writes a poem word by word with its peers, publishes
the finished poem as a thread on X if it wrote the last word, submits the entry
to a referee, and is then free to join the next team. This directory holds
TLA+ models of that program, the TLC runs that check them, and TLAPS proofs.

Source paths below are relative to the repository; `daemon.py` means
`src/sonnet_chain/daemon.py`, and so on.

## 1. Inventory

One process (`Daemon.run`) executes one *cycle* after another; a cycle
dispatches on the durable *phase*. There are no threads. What makes the program
hard is

* **crashes**: every helper of `RuntimeState` and the stores over it commits a
  SQLite transaction of its own, and the process may die between any two of
  them, or between a commit and a network call. `run()` catches only
  `httpx.HTTPError`, `OSError`, `ValueError` and `RuntimeError`; anything else
  ends the process as well;
* **an unreliable outside**: a POST may arrive although it failed here, receipts
  may be repeated, a room may be replaced by a new *generation* or forget its
  oldest messages, X may create a post and answer with an error;
* **other processes**: the publisher adapter is a child process with a ledger
  of its own and outlives its parent; several programs share one X token;
* **deadlines and watchdogs** read from a clock that moves during a cycle.

| Component | State | Operations | Talks to | Correct when |
|---|---|---|---|---|
| Publisher adapter (`x_publisher_adapter.py`, `publisher.py`) | `publication_posts` in its own database | post the parts in order, resume, refuse a pending part | X; exit status to the daemon | no part twice, each replies to the one before, a rerun continues |
| Publication (`daemon._publish`, `entry_closure.py`) | `publication_parts`: state, post id, parent, strength | persist intent, spawn adapter, classify its exit, look up a part of unknown fate | adapter, X | thread exactly once and in order through every crash; lost answers recovered |
| Submission and release (`_submit`, `_reconcile_submission_delivery`, `entry_closure.py`) | `submission_intents`, `participant_commitments`, `peer_endgame_state` | integrity lookup, packet, retry, accept, reject, release | referee, X | one packet per game, every receipt recognised, release only on the right receipt |
| Receipts (`_receipts`, `receipts.py`) | `receipts`, `receipt_processing` | normalise, match with a request, apply, mark done | referee's rooms; every other component | each receipt applied in spite of crashes; replay does no harm |
| Roster consent (`_discovery`, `_wait_roster_ready`, `rosters.py`) | protocol intents, `active_team`, `team_setup`, consent state of the epoch | sign a roster, withdraw it, await the referee | peers, referee | never committed to two teams; a withdrawal never overtakes a ready roster |
| Team formation (`team_formation.py`, `invites.py`, `_discovery`) | opportunities, epochs, watchdog times | apply, confirm, time out, choose | peers | one active epoch; an application of unknown fate blocks nothing for ever |
| Room history (`_read_incremental`, `_reconcile_history`, `TeamFormationStore.observe`) | cursor, seen ranges, gaps, generation | read, observe, fetch the gaps, decide completeness | Technocore | no decision from an incomplete history; a new generation starts afresh |
| Team intelligence (`team_intelligence.py`) | facts, closed rooms | synchronise sources, close a frozen room | formation | a frozen room is closed |
| Writing (`_writing`, `writing.py`, `decision.py`) | poem version and hash, pending word | propose a word when it is our turn | peers, LLM | at most one word per turn, none against a stale version |
| X tokens (`x_oauth.py`) | token file, lock file | read, refresh, compare and replace | X | a single-use refresh token is spent once |
| Formation reflex (`formation_reflex.py`) | triggers, cooldown | answer a peer's message once | peers | at most one answer per trigger |
| Active acquisition (`active_acquisition.py`) | none of its own | derive opportunities, revalidate | formation | stale opportunities are dropped |
| Launch, configuration, signing, LLM client, journal, CLI, narrative, public export | configuration, reports | verify, format, print | - | out of scope, see section 7 |

The hazards found while reading are listed one by one, each at its line, in
`PROJECT.json`.

## 2. Plan

Order of work, the most consequential behaviour first. X posts and the release
of a participant cannot be undone, so publication and submission came first.

| | Module | What it models | Composition, abstract specification | Proof |
|---|---|---|---|---|
| done | `XPublisher` | adapter process, its ledger, X | used by the next two | - |
| done | `Publication` | daemon and adapter, one process per part | refines `PoemThread` | `PublicationProofs` |
| done | `ThreadRun` | an operator running the adapter on a whole thread | over `XPublisher` | `ThreadRunProofs` |
| done | `Submission` | integrity, packet, receipts, release, next game | - | `SubmissionProofs` |
| done | `Consent` | signed roster, withdrawal, referee's answer, crashes between the commits | - | `ConsentProofs` |
| done | `Writing` | word turns, receipts, analysis of messages, decision policy, planner, escalation | - | `WritingProofs` |
| done | `History` | cursor, held records, gaps, generations, export repair | used by `TeamRoom` | in `TeamRoomProofs` |
| done | `TeamRoom` | source synchronisation, closing, the verdict that a room is open | extends `History` | `TeamRoomProofs` |
| done | `XToken` | the token file and its lock, several processes, a new authorization | - | `XTokenProofs` |
| done | `Reflex` | frontier, cooldown and commits of the replies in two rooms | - | `ReflexProofs` |
| later | `RosterConsensus` | latest signed roster or withdrawal of each member, as folds | reference definition over bounded inputs | - |
| later | `Epoch` | applications, watchdogs, opportunities | - | - |

The replay of receipts over several games, once planned as a module of its own, is
in `Consent` (rosters), `Submission` (entries) and `Writing` (words, with what the
last game may have left behind).

Parameters are constants with named assumptions, there is one action per commit
or network call, and invariants are conjunctions of named parts, so that a
module can be proved about as it stands. No module of the project declares a
`RECURSIVE` operator.

## 3. Modules and the code

`PROJECT.json` maps every definition to the lines it models. Operators whose
comment begins with "Fault" are not part of any specification: each is a
plausible bug in the definition that follows it, and substituting it makes a
property of that module fail.

### XPublisher

The state of the adapter, per part: `ledger` and `ledgerId` (status and post id
of its row in `publication_posts`), `adapter` (the position in `publish()`, or
the exit status `main()` ended with), `replyTo`; the HTTP exchange `wire` and
`answerId`; X's `timeline`; and `late`, the contest deadline.
The actions follow `publish()` branch by branch: a pending row refuses (exit 2),
a posted row is reused, any other row is committed as `pending` and requested;
the first 401 refreshes and asks again; a second 401, a failed refresh (exit 3),
a 4xx (exit 4) and a 5xx (exit 2) all set the row to `rejected`; a transport
failure or an unreadable answer leaves it `pending` (exit 2). `AdapterEnds` is
the end of the process at any point. X creates a post or does not, and may
answer a created post with a server error. X's text may differ from what was
sent (`exact`).

### Publication

The daemon calls the adapter for one part at a time. `delivery`, `postId`,
`parentId` and `strong` are the columns of `publication_parts`. One call of
`_publish` is cut where it commits or calls out: `BeginLookup` (an unresolved
part comes first; a bare send intent becomes `DELIVERY_UNKNOWN`),
`LookupAnswered` (`recover_unknown` over what the timeline query shows),
`NotReady`/`TokenChecked`, `PersistIntent`, `SpawnAdapter`/`SpawnFails`, and
`CollectPosted`/`CollectNotSent`/`CollectUnknown` by exit status. The daemon
may crash at every cut and its child then goes on as an orphan; the child may be
killed, seen by the daemon as a status (`AdapterKilled`) or as the unhandled
`TimeoutExpired` (`AdapterTimesOut`).

`AdapterKilled` belongs to `CollectUnknown`'s outcome and is listed under
failures. `PoemThread` is the promise seen from outside: parts appear in order,
each once, each a reply to the one before, and the entry is declared complete
only when the thread stands. `Publication` implements it under the mapping in
`Thread`.

### ThreadRun

`sonnet-chain-x-publisher` used as a command: one run walks through all parts,
using one part's recorded id as the parent of the next; it may stop or die
anywhere and be run again.

### Submission

Several games in a row. `closure`, `commitment`, `intent`, `request` and `tries`
are the rows of `peer_endgame_state`/closure, `participant_commitments`,
`submission_intents` and `requests`; `known` is the room cursor and `done` the
receipts marked done. `step` is the daemon's place in a cycle. `_submit` is
`Judge`, `Prepare`, `Reserve`, `Mark`, `Post`, `EnterWait`; the receipt loop is
`Read`, then for each unprocessed receipt `Accept`/`AcceptRequest`/`AcceptPhase`,
`RejectRequest`/`Reject`, or `ForeignReceipt`/`PeerMarkDone`/`PeerPhase`, and
`MarkDone`; then `Retry` or `CycleEnds`. `Leave` and `Rediscover` are the two
commits of phase DONE. The world: the referee answers each copy of a packet, the
same one always alike; other participants and strangers get receipts for entries
of the same name; a published post is deleted or edited; time passes.
`NextGame` stands for everything between DISCOVERY and the end of the poem.

### Consent

One daemon, the discovery room, the referee. The rows of `protocol_outbox` and
`requests` share their id, so they are one record of `action` (`kind`, `game`,
`delivery`, `status`; the id is the index); `epoch` is the active row of
`formation_epochs` and `ended` the others; `team` is `active_team`. A handler
chooses in one step what it will commit, and `todo` holds these transactions,
taken one at a time by `CommitStatus`, `CommitDelivery`, `CommitIntent`,
`CommitEpoch`, `CommitEnd`, `CommitTeam`, `CommitPhase`, `CommitDone` and
`CommitPost`; a crash drops `todo`. `place` says where in the cycle the daemon is.

| Code | Actions |
|---|---|
| `_receipts` over the discovery room | `Read`, `Handle` (with `Program`, the commits of each receipt), `ReceiptsDone` |
| `_bootstrap_formation_state` | `Bootstrap` |
| `_reconcile_formation_transport`, withdrawals | `ReconcileRetreat` |
| `_discovery` | `GiveUp`, `Apply`, `Countersign` |
| `_wait_roster_ready` | `RetreatConfirmed`, `ConsentConfirmed`, `ConsentDoubted`, `SafeWithdraw` |
| the rest of a game | `GameOver` |

A POST arrives or not, and returns or raises; the record may be read back late,
since `Read` may stop anywhere. The peers are one record per team, meaning that
all others have signed; a roster that Saruku may sign as an applicant needs less
and may be there at any time. The referee accepts or refuses a roster, declares
a team ready when both have signed, and takes a withdrawal from a team that is
not ready. Watchdogs fire whenever their other conditions hold. An application is
one step, sent and seen; its own delivery, and an application refused, are left
to `Epoch`. `normalized` marks, `team_setup`, the wait statistics and the gaps of
the history are left out.

### Writing

One poem in the phase WRITING before the deadline, one module for `_writing` and
what it calls. `version`, `hash` and `previous` are what the daemon keeps of the poem,
`word` its requests for a word, `note` the keys of the coordination it sent, `failure`
the row of `writing_failure_state`, `parsed` and `tries` those of
`team_message_analysis`, `waits` those of `self_commitment_waits`; `poem` is what the
referee has accepted and `stage` how long that has not changed. A cycle is `Read` (the receipts of the room), `Handle` with
`Program`, whose commits `CommitStatus`, `CommitPoem`, `CommitProgress` and
`CommitDone` a crash may separate, `ReceiptsDone`, `Sync` (the messages that are
due for analysis, and the snapshot), and then one of `Repost`, `DecideToWait`,
`DecideToCoordinate` and `DecideToPropose` with `CommitWord` and `PostWord`.

| Code | Definitions |
|---|---|
| `rebuild_snapshot` (`team_intelligence.py`) | `VersionAt`, `SnapshotVersion`, `Said`, `Active`, `Contributors`, `Questioned`, `AtRisk` |
| `_analysis_due`, `_extract_planning` | `Due`, `Analyse` |
| `build_decision_state`, `_deterministic_policy`, `validate_decision`, `decide` | `RequestsToSaruku`, `Uncovered`, `Policy`, `Rule`, `Legally`, `Decisions` |
| `WritingPlanner.plan` | `Plan`, `Survives` |

A model's answer is any decision the validation lets pass, or none. The world (the
peers' words and messages, the referee, time) moves between cycles and while a word
is about to be posted; the checks the code repeats right before a post see nothing
new in a process with one thread. Left out: the time after the deadline, the
fallback snapshot after an exception, retractions, proposals of lines or of the
poem, the daemon's own notes as it reads them back, and the dry run. `line` is never
more than the first, since nothing in `src/` writes finished lines.

### History and TeamRoom

`History` is the state of one room and what the program knows of it: `cursor` and
`stored` (the row of `cursors`), `events` (the generation each held record really
came from, by the generation it is filed under), `history` (the row of
`formation_history_state`, with its gap ranges as one set of numbers). `Receive` is
the first response of `_read_incremental`, `ReadAgain` the second after a change of
generation, `CommitReset`, `CommitEvent` and `CommitObserve` the transactions that
follow; `Reconcile`, `CommitRepair` and `Repaired` are `_reconcile_history`. `batch`
is what a handler has yet to hold, least number first, and `due` the transaction that
comes after it. A
response may leave out records, and how the program uses `first_seq` and `last_seq`
does not settle whether they speak of the ring or of the response, so both are
allowed. That a read names the room's generation is taken for granted; an export need
not (`X-Room-Generation`): at `trusting` it is of another generation than the one asked
for, and its records are filed under that (`misfiled`, an observer's set).

`TeamRoom` adds `_team_room_open`: `Ask`, the read, `WrongGeneration`, `Sync`, which
looks for records not yet checked, `CommitSource` for `persist_team_source` and
`mark_team_source_processed` of each, `CloseRoom` for `close_team_room`, and `Verdict`, kept until `CycleEnds`. One room stands for the
discovery room, which is read and repaired, and for a team's, which is also asked
about. Records that are not the referee's are marked and nothing more; scope
`semantic` is left out.

### XToken

`file` is the token file, `lock` who holds `refresh.lock`, `pc` where each process
is in `XTokenManager`, `mine` the token it found and `pair` what it presents and gets.
`Ask` is `get_valid_access_token`, `Refused` the adapter's 401; `Lock`, `Compare`,
`Answered`, `RefreshFails`, `Save` and `Verify` are `refresh` and `_refresh_locked`;
`Authorize` and `SaveGrant` are `authorize`, which takes no lock. X may send a new
refresh token with each answer, and then takes the old one no more, or leave it; it
numbers what it issues. Taken for granted: a new authorization does not revoke the
tokens of an older one. The identity that is saved, the callback and the checks of
the files' permissions are left out.

### Reflex

`frontier` and `row` are `formation_reflex_frontiers` and
`formation_reflex_processing`, `intent` the delivery in `protocol_outbox`, `fresh` the
rows whose `processed_at` is less than a minute old. A cycle looks at the discovery
room and then perhaps at one team's: `Activate`, `Skip`, `Malformed`, `NothingFound`,
`TeamReady` (the return that leaves a trigger where it is), `CoolDown`, or a reply in the steps
`Begin`, `Decline` or `Intend`, `PersistIntent`, `Post`, `Settle` and `Close`, each
with its commit. `Init` has a new database or one of a version that replied without
frontiers, where `Baseline` begins at the last trigger processed. `Malformed` is a
message of the team's room that is JSON and no object: the `AttributeError` is none of
those that `Daemon.run` catches. Records come to be held in any order. The minute runs from the
intent, not from the post.

### Left out of the receipt loop

In `Submission`: the `normalized` mark (a second commit before the handler that
no branch reads back), the transport of the receipts themselves (History),
corrections under a new request id (the code makes none).

## 4. What is checked

| Run | Question | Result |
|---|---|---|
| `publication` | Is a two-part poem published once, in order and under the right parents through every crash, orphan, lost or ambiguous answer and deadline; are lost answers found and refused parts retried; is `PoemThread` implemented? | holds |
| `thread_run` | Does the adapter, run again and again by hand, keep the thread in order and remember what it posted or left pending? | holds |
| `submission` | Over two games and a crash anywhere: one request id per game, every packet sent recognisable, release only by an accepted receipt of the right game and sender, settled means settled, an acceptance learned of, and without a crash a return to DISCOVERY? | holds |
| `consent` | With two teams, four actions and a crash: has Saruku one consent out at most unless a withdrawal is outrun, is every record it sent recognisable, does it write only for a team declared ready, and is it learned that a team is ready, whatever was lost or withdrawn? | holds |
| `writing` | Is one word out at most, never after Saruku's own, and decided upon a state that is not torn by a crash among the commits of a receipt? | holds |
| `writing_live` | Is the answer to a word learned of, and does a turn that nobody takes end in a word or in progress, through failures of the model and a crash? | holds |
| `team_room` | Is an interval that is called complete really held, and is a room taken for open really free of accepted words, with gaps, a moving ring, a new generation, exports with or without their generation and a crash? | holds, with the one exception below |
| `xtoken` | Do two processes and an operator keep the token file usable and the lock moving? | holds |
| `reflex` | Is nobody answered twice and nothing passed over, and are nudges answered a minute apart, with failed posts, late records and a crash, after it as well? | holds |
| `consent_exclusive` | one irreversible commitment: no consent for a second team once the first is ready | violated |
| `consent_terminal` | "old terminal epochs are never revived." | violated |
| `writing_progress` | an accepted word counts as progress, and a poem completed by a peer is observed | violated |

The violations:

* **Epochs revived.** Unless the application is rejected, no receipt or readback settles
  its row in `requests`. When its epoch has ended, by a withdrawal or because the team became
  ready and its game is over, `_bootstrap_formation_state` takes the row for open,
  rebuilds the epoch with the same id, and `save_epoch` makes the ended row active.
* **Two teams at once.** Saruku withdraws from a roster that the last member has
  just completed. The referee passes over the withdrawal, since the team is ready; the
  daemon sees it in the room, takes that for its release, and signs for another team
  before it comes to the receipt that says ready. `OneConsentOut` excepts what follows
  from this by name (`Outrun`), so that it still speaks of every other way to two
  consents.
* **A peer's words.** In the poem room `_receipts` applies a receipt only if its
  request is one of Saruku's. The words of peers, which reach the snapshot of team
  intelligence, move neither `poem_version` nor the stall's clock, and the one that
  completes the poem does not end WRITING. (`DecidesOnOneState` and `StallIsBroken`
  speak of what is so kept.)

What the models show besides, listed as hazards:

* a crash between keeping the referee's accepted word and closing the room leaves
  the room open, since the record is marked as checked (`OpenIsUnfrozen` names it);
* a crash between clearing `active_team` and setting DISCOVERY leaves a released
  participant in DONE, and one between marking a peer's receipt and moving the
  phase leaves it waiting (`ReleaseReturnsEligibility` allows for both);
* `roster_ready` sets `active_team` and the phase before it is marked done; after a
  crash in between, it is handled again when the game is over;
* a conflict is written to `last_error` only, and the next lookup that fails counts
  as UNRESOLVED; the deadline is looked at once, when `_publish` is entered; a 5xx
  sets the adapter's row to `rejected`, so that the next run by hand posts again
  (under the daemon the same status leads to `DELIVERY_UNKNOWN`, which is never sent
  again, so `AtMostOnePost` holds there);
* an export without its generation's header goes through `_reconcile_history`: if the
  room was replaced, records of the new generation are held as the old one's
  (`CompleteIsHeld` names them; no room that is still asked about has any);
* a team-room message that is JSON and no object ends the process at each look at that
  room (`Malformed`);
* a consent whose POST fails leaves DISCOVERY holding itself committed, where nothing
  reads the consent back;
* a refusal of an older consent that is read along with the receipt of a newer one
  takes the team away after it was set, and a crash then leaves WRITING without a team
  (`WritingIsReady` allows for it).

### Bounds, and why they are enough

* Two parts: a first part without and a second with a parent; every rule relates
  a part to its predecessor. Three post ids: one more than the parts, so that a
  duplicate of either could appear (`ThreadRun` has four in its passing run, so
  that a part can be posted twice and the thread still be finished). The proofs
  hold for any number of parts and ids.
* Two games: a receipt can be about the active game, an older one, or one not yet
  played. Two packets per game: one more than allowed. Two receipts, two attempts
  (`MAX_SUBMISSION_ATTEMPTS` is larger; the bound is only reached by counting),
  one crash: every pair of commits is separated in some behaviour, and the
  recovery from it is complete before anything else depends on it.
* Two teams in `consent`: to sign one while committed to the other. Four actions:
  application, roster, withdrawal and the next roster. Four records: both rosters, the
  withdrawal and the peers' signature, or a roster, its answers and one more. One crash,
  after which the daemon rebuilds its epoch from any state. The invariants also hold with
  five and six records and five or six actions, with one team or two and up to two
  crashes; these instances take longer than the runs kept here. The revived epoch of
  `consent_terminal` needs no crash. `consent_exclusive` has none either, and needs two
  applications, two rosters with the withdrawal between them, and six records.
* A poem of two words, the first of which may be Saruku's, two requests (`MaxWords`:
  one that was refused and another, or one too many), four records, one peer, one free
  note and one message to analyse: a turn of either side, a poem that ends, and an
  answer for each stage. `MaxNotes` bounds only what the model may say of its own accord,
  never what the policy requires. `writing_live` has a poem of one word,
  the only one that Saruku can end: the version it knows moves with its own words
  alone (the finding of `writing_progress`). `writing_progress` has two peers, who
  complete the poem alone.
* Two generations of a room, three records in one and four in both: a gap at
  either end and in the middle, a ring whose floor passes the cursor, a second
  response of another generation. The world moves only where the program looks at it.
* Two processes and four tokens: each can refresh, an authorization can come between,
  and a lost answer can be followed by another attempt. One death or lost answer.
* Two rooms with two records each: one trigger behind another, and two rooms that
  share the minute.
* Deadlock is not checked in the runs in which the system rightly stops: after
  the deadline, at SUBMIT in Publication, when every receipt has been written, or
  in `Consent` in WRITING without the game ending, and in `XToken` when X issues no
  more tokens.

### Fairness

`Publication`: weak fairness of the daemon's steps (its supervisor restarts it)
and of the 120 s timeout of the adapter; strong fairness of the token check, of
the commit of an intent and of a lookup that sees the whole timeline. The last
three say that crashes and outages do not recur for ever in the same place; each
names a step the code repeats every cycle. `Submission`: weak fairness of the
daemon and strong fairness of a read that delivers the whole room; crashes are
bounded. `Consent`: the same; a read that never got to the end of the room would
be a server that never answers in full. `Writing`: weak fairness of the daemon, strong
fairness of a read of the whole room and of the end of a wait, since each wait has a
time at which it ends. `XToken`: weak fairness of the steps under the lock, whose
requests have a timeout of 30 s, and strong fairness of getting the lock, which the
kernel gives to those who wait. No fairness is assumed of the referee, of X or of time.

## 5. What is proved

`PublicationProofs` proves for every `PartCount`, `PostIds` and `NoPost`
satisfying `PartCountAssumption` and `NoPostAssumption`, with no other
assumption:

| Theorem | States |
|---|---|
| `TypeCorrect` | `Spec => []TypeOK` |
| `AtMostOnce` | `Spec => []AtMostOnePost` |
| `LineageHolds` | `Spec => []ThreadLineage` |
| `NotSentMeansAbsent` | `Spec => []NotSentIsAbsent` |
| `ConfirmedMeansPublished` | `Spec => []ConfirmedIsPublished` |
| `NeverBlindlyRetried` | `Spec => NoBlindRetry` |
| `RefinesPoemThread` | `Spec => ImplementsPoemThread` |

None of these is inductive. That a part is posted once, for instance, depends on
no request being open when the daemon sends, also none of an orphan of a process
that crashed long ago. The invariant `IInv` says so in parts:

* `OnlyTriedTouched`: a part is either *tried* (its row is beyond sendable, or a
  send is being prepared), or *untouched*: no adapter, no request, no post;
* `NoPostYet`: where an adapter can still send, the part has no post;
* `AnswersAreReal`: a "created" answer and a `posted` ledger row name a post on
  the timeline, under the parent the adapter was given;
* `ParentAgreed`: the adapter posts under the parent recorded in the row;
* `RowLineage`: a recorded parent is the post of the confirmed preceding part;
* `ConfirmedIsReal`: a confirmed row names such a post;
* `StepInv`, `SubmitInv`: what each position of `_publish`, and SUBMIT, imply.

`NextIInv` has one lemma or step per action. The refinement maps posts on the
timeline to the thread: only `XCreates` extends it (`CreatesRefines`), only
`PublishDone` finishes it, everything else stutters (`DaemonRefines`).

`XTokenProofs` proves for every `Proc`, `MaxTokens` and `MaxDeaths` that satisfy
`XTokenAssumption`:

| Theorem | States |
|---|---|
| `TypeCorrect` | `Spec => []TypeOK` |
| `RefreshSafe` | `Spec => []NotStranded` |

Its invariant: whatever anybody holds has been issued (`Bounded`); a grant that the
operator has not saved yet is alive and nobody else's (`GrantApart`), so that no
refresh that is under way can spend it; and unless an answer was lost, what a process
is about to present or to save is alive, and the file's token too but for the moment
before its successor is saved (`Alive`). `TypeOK` says that exactly the holder of the
lock is inside `refresh`, so that only one token at a time can be spent.

`ReflexProofs` proves for every `MaxSeq` and `MaxCrashes` that satisfy
`ReflexAssumption`:

| Theorem | States |
|---|---|
| `TypeCorrect` | `Spec => []TypeOK` |
| `AnsweredAtMostOnce` | `Spec => []AnsweredOnce` |
| `NobodyPassedOver` | `Spec => NothingPassedOver` |
| `SpacedReplies` | `Spec => NudgesAreSpaced` |

Its invariant: the call under way is about a trigger whose row it has made
(`CallInv`); a row without a reply has no delivery, and without a delivery nothing was
sent (`RowInv`); and while a nudge is being answered no fresh row is `REPLIED`
(`CoolInv`), whatever crashed before, since the rows and their times are kept. `FirstIsLeast` is why the frontier
passes nobody: a first trigger exists since the naturals are well-founded
(`LeastExists`, from the library's `WFMin`), and what waits behind it stays beyond the
frontier.

`ThreadRunProofs` proves for every `PartCount`, `PostIds` and `NoPost` that satisfy
`PartCountAssumption` and `NoPostAssumption`:

| Theorem | States |
|---|---|
| `TypeCorrect` | `Spec => []TypeOK` |
| `FinishedThread` | `Spec => []FinishedIsOneThread` |
| `LedgerStands` | `Spec => LedgerRemembers` |

Unlike under the daemon, a part may be posted twice here, so the invariant is about
rows rather than posts: a part is touched after those before it are `posted`
(`InOrder`), a `posted` row never changes, so the parent that a request is made under
is the id the ledger keeps for the part before (`ParentAgreed`), and a created answer
and the row made of it name a post at that place (`AnswersAreReal`), however late X
creates it.

`SubmissionProofs` proves for every value of the constants that satisfies
`BoundsAssumption`:

| Theorem | States |
|---|---|
| `TypeCorrect` | `Spec => []TypeOK` |
| `OnePacket` | `Spec => []OnePacketPerGame` |
| `SentAnswerable` | `Spec => []SentIsAnswerable` |
| `ReleasesJustified` | `Spec => []ReleaseJustified` |
| `SettledStays` | `Spec => SettledForGood` |

A second packet of a game could only be made in SUBMIT. There the first is unsettled
(`PhaseInv`), and `reserve_request` finds it, or finds the one slot for a pending
request free because no game is left before its own request is answered
(`PendingIsActive`). The intent is written before the request and the request before
the mark that it may have been sent (`TablesAgree`), so a receipt is matched with the
right game, and it says what the referee decided (`ReceiptsAreTrue`). `StepInv` is what
the daemon knows at each place of a cycle.

`WritingProofs` proves for every value of the constants that satisfies
`MembersAssumption` and `BoundsAssumption`:

| Theorem | States |
|---|---|
| `TypeCorrect` | `Spec => []TypeOK` |
| `OneAtATime` | `Spec => []OneWordOut` |
| `NoTwoInARow` | `Spec => []NeverTwiceInARow` |
| `DecisionsOnOneState` | `Spec => []DecidesOnOneState` |
| `WritesOnce` | all of Saruku's words are for the state the poem started in, and one is accepted at most |

The version that Saruku knows moves with its own accepted words, and then says that
Saruku wrote last (`PoemInv`), so it has no turn again: what the run
`writing_progress` finds on an instance is `WritesOnce` for every value of the
constants. Only the last request is anything but rejected (`WordInv`); a decision is
taken when every receipt that was read has been applied to its last commit
(`RunInv`, `ReceiptInv`, `AllApplied`).

`TeamRoomProofs` proves for every value of the constants that satisfies
`HistoryAssumption`:

| Theorem | States |
|---|---|
| `TypeCorrect` | `Spec => []TypeOK` |
| `CompleteHeld` | `Spec => []CompleteIsHeld` |
| `OpenUnfrozen` | `Spec => []OpenIsUnfrozen` |

What is held is never dropped, and is held under the generation it came from, unless
it is misfiled (`HeldInv`); only a generation that is over has misfiled records, so that
a room that is asked about has none (`MisfiledInv`), and `OpenIsUnfrozen` needs no
exception for them; so a summary, once right about what it does not list as a gap, can only
become too cautious (`SummaryInv`). A record is checked after it is held, and a word
that is checked is kept and closes its room before the verdict, unless the process
dies in between (`SourceInv`). `CallInv` is what a call has left to commit, by where it
is.

`ConsentProofs` proves for every value of the constants that satisfies
`BoundsAssumption`:

| Theorem | States |
|---|---|
| `TypeCorrect` | `Spec => []TypeOK` |
| `SentOnRecord` | `Spec => []SentIsOnRecord` |
| `WritesWhenReady` | `Spec => []WritingIsReady` |
| `OneConsent` | `Spec => []OneConsentOut` |

The invariant has two layers. `Base` says of the durable tables and the room what
outlasts a crash, and of each handler what the rest of its program implies: the k-th
transaction of countersigning, say, finds the roster drafted, not sent, and protected
by the epoch (`SignAt`). `RoomInv` and `RefereeInv` are about the room: whatever is
Saruku's has a reserved row, a receipt follows the roster it is for, and a refusal
after a ready answer is of a later roster. `ReadInv` says that receipts are handled in
order, `WithdrawalInv` that the one withdrawal that would be looked for ends no
consent that is out.

`HeldInv`, true until a withdrawal is outrun (`Outrun`, which is never undone), says
why Saruku is kept from a second consent while one is out: it is pending, or a receipt
for it is yet to be handled, or the epoch says that it may have been sent, or Saruku
writes for its team (`Held`). One of these hands over to the next with each
transaction, in the order the code makes them: the epoch ends only when the receipt
that says ready is at hand (`ReadyIsOut`), that receipt is marked done only when the
phase is WRITING (`HeldDone`), and the game is over only for a consent that then no
longer counts. A consent that was merely noted had no peers before it, and the epoch
still protects it (`Backed`). So at countersigning, where none of the four holds,
nothing is out (`CountersignHeld`). Without the exception for `Outrun` the theorem
would be false: that is the finding of `consent_exclusive`. TLC checked that the whole
invariant holds on instances before it was proved.

## 6. What is only model-checked

All liveness (`LostAnswerRecovered`,
`NotSentIsRetried`, `AcceptanceIsLearned`, `ReleaseReturnsEligibility`,
`ReadyIsLearned`, `AnswerIsLearned`, `StallIsBroken`, `RefreshEnds`): liveness under
fairness and `ENABLED` are outside what the provers do. So would be what a recursive
function computes on every input, since that needs induction over data. The three
violated properties are shown on their instances.

## 7. What is not modelled

* Not yet (section 2): the delivery of applications, the ranking of opportunities
  (with Active acquisition), the watchdogs' times, and the reduction of signed rosters.
* Not at all: launch verification and configuration (one pass over data, no
  state), signatures (taken as unforgeable: a record is from whom it names), the
  LLM client, rhyme and scansion (data), narrative and public export (they read
  and never write state the daemon uses), journal and CLI (output).
* Within the modelled parts: texts, formats and hashes (equality is all that is
  used), `x_write_count`, `last_error`, the time
  window of `recover_unknown` (posts outside it count as not shown), and lock
  contention in SQLite (one writer per database at a time).
