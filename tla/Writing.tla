------------------------------- MODULE Writing -------------------------------
(***************************************************************************)
(* Writing a poem word by word (Daemon._writing and _ensure_team_intro, the *)
(* word receipts of _receipts, decision.py, WritingPlanner of writing.py,   *)
(* and the part of TeamIntelligence that decisions depend on).              *)
(*                                                                         *)
(* One game, from the moment its roster is ready and before the deadline.   *)
(* A poem is the sequence of its words' contributors, and a version its     *)
(* length, which also stands for the state hash of that length.  The texts  *)
(* of words, rhyme and scansion, and what a language model answers, are     *)
(* open choices; of what messages propose, only what is about the next word *)
(* is kept, and nothing is retracted.                                       *)
(***************************************************************************)
EXTENDS Integers, Sequences, FiniteSetsExt

CONSTANTS Peer,          \* the other members of the roster
          Self,          \* Saruku
          PoemLength,    \* words of a complete poem
          MaxAnalysis,   \* MAX_ANALYSIS_ATTEMPTS of one message
          MaxWords,      \* bound: word requests Saruku makes
          MaxNotes,      \* bound: notes after which the model writes no more
          MaxRoom,       \* bound: records in the poem room
          MaxChat,       \* bound: planning messages among them
          MaxCrashes     \* bound: crashes of the daemon

Nobody == "nobody"
Member == Peer \cup {Self}

ASSUME MembersAssumption == Self \notin Peer /\ Nobody \notin Member /\ Peer # {}
ASSUME BoundsAssumption ==
    {PoemLength, MaxAnalysis, MaxWords, MaxNotes, MaxRoom, MaxChat, MaxCrashes} \subseteq Nat

VARIABLES
    \* durable
    phase, version, hash, previous,   \* the poem as Saruku knows it
    word,          \* requests of kind word:<version>; an id is its index
    note,          \* keys of its requests of kind coordination:<key>
    intro,         \* the capability announcement has been made
    failure,       \* writing_failure_state
    known, done,   \* cursor of the poem room; its own receipts marked done
    parsed, tries, \* team_message_analysis: messages understood, attempts
    waits,         \* self_commitment_waits, by message: the version, and if it is over
    \* volatile
    place, todo, focus,
    \* the world
    room,          \* the poem room
    poem,          \* the referee's accepted words, by contributor
    stage,         \* escalation stage, by the time since the last progress
    crashes

poemVars == <<phase, version, hash, previous>>
requestVars == <<word, note, intro>>
readVars == <<known, done>>
mindVars == <<failure, parsed, tries, waits>>
runVars == <<place, todo, focus>>
worldVars == <<room, poem>>
vars == <<poemVars, requestVars, readVars, mindVars, runVars, worldVars, stage, crashes>>

Version == 0 .. PoemLength
Stage == 0 .. 2
Intents == {"answer_direct_question", "warn_terminal_publisher_risk",
            "ask_uncovered_member_to_contribute"}
Key == [version : Version, target : Peer \cup {Nobody}, intent : Intents, stage : Stage]

NoFailure == [version |-> 0, exhausted |-> FALSE, repaired |-> FALSE,
              emergency |-> FALSE, infeasible |-> FALSE]

NoWait == [version |-> -1, over |-> FALSE]

\* What the planning messages say, once understood.
ChatKinds == {"request", "commitment", "question", "risk"}
Record == [kind : {"word", "accepted", "rejected"} \cup ChatKinds, by : Member,
           id : 0 .. MaxWords, version : Version]

Commits == {"status", "version", "hash", "previous", "progress", "complete", "refuse", "done",
            "word", "wordPost"}

TypeOK ==
    /\ phase \in {"WRITING", "POEM_COMPLETE"}
    /\ version \in Version /\ hash \in Version /\ previous \in Member \cup {Nobody}
    /\ word \in Seq([version : Version, status : {"pending", "accepted", "rejected"}])
    /\ Len(word) <= MaxWords
    /\ note \subseteq Key /\ intro \in BOOLEAN
    /\ failure \in [version : Version, exhausted : BOOLEAN, repaired : BOOLEAN,
                    emergency : BOOLEAN, infeasible : BOOLEAN]
    /\ room \in Seq(Record) /\ Len(room) <= MaxRoom
    /\ known \in 0 .. Len(room) /\ done \subseteq 1 .. known
    /\ parsed \subseteq 1 .. known /\ tries \in [1 .. MaxRoom -> 0 .. MaxAnalysis]
    /\ waits \in [1 .. MaxRoom -> [version : Version, over : BOOLEAN] \cup {NoWait}]
    /\ place \in {"idle", "receipts", "deciding", "acting"}
    /\ todo \in Seq(Commits) /\ focus \in Nat
    /\ poem \in Seq(Member) /\ Len(poem) <= PoemLength
    /\ stage \in Stage /\ crashes \in 0 .. MaxCrashes

\* roster_ready sets version and hash.  previous_contributor is whoever Saruku last knew
\* to have written: in its first game nobody, later itself, from an earlier game.
Init ==
    /\ phase = "WRITING" /\ version = 0 /\ hash = 0 /\ previous \in {Nobody, Self}
    /\ word = <<>> /\ note = {} /\ intro = FALSE /\ failure = NoFailure
    /\ known = 0 /\ done = {} /\ parsed = {} /\ tries = [i \in 1 .. MaxRoom |-> 0]
    /\ waits = [i \in 1 .. MaxRoom |-> NoWait]
    /\ place = "idle" /\ todo = <<>> /\ focus = 0
    /\ room = <<>> /\ poem = <<>> /\ stage = 0 /\ crashes = 0

-----------------------------------------------------------------------------
\* What is known of the room.

Records(kind, upTo) == {i \in 1 .. upTo : room[i].kind = kind}
NoWord == 0

\* Receipts that answer a request of Saruku's.  All others are marked done and change
\* nothing.
Unprocessed ==
    {i \in Records("accepted", known) \cup Records("rejected", known) : room[i].by = Self} \ done

\* TeamIntelligence.sync: the poem version when a message was sent, from all verified
\* receipts before it; the snapshot's version, from all.
VersionAt(i) == Max({0} \cup {room[j].version : j \in Records("accepted", i)})
SnapshotVersion == VersionAt(known)

WordOf(v) == LET ids == {w \in DOMAIN word : word[w].version = v /\ word[w].status = "pending"}
             IN  IF ids = {} THEN NoWord ELSE Min(ids)

\* Fault: the request is looked for under the version the room is at.
PendingBySnapshot == WordOf(SnapshotVersion)

\* pending_request(word:<version>)
Pending == WordOf(version)

\* A message about the next word is stale once a word has been accepted after it.
Said(kind) == {i \in parsed : room[i].kind = kind}
Active(kind) == {i \in Said(kind) : VersionAt(i) = SnapshotVersion}

RequestsToSaruku == {i \in Active("request") : VersionAt(i) = version}
Contributors == {room[i].by : i \in Records("accepted", known)}
Uncovered == Peer \ Contributors

\* coordination_key
KeyOf(intent, target) ==
    [version |-> version, target |-> target, intent |-> intent, stage |-> stage]

Sendable(intent, target) == KeyOf(intent, target) \notin note

\* The flags of writing_failure_state count for the state they were set in only.
Failure == IF failure.version = version THEN failure ELSE [NoFailure EXCEPT !.version = version]

\* Fault: the previous contributor may propose.
LegalForAnyone == Pending = NoWord /\ ~Failure.infeasible

\* SARUKU_PROPOSE_WORD is a legal action.
Legal == previous # Self /\ Pending = NoWord /\ ~Failure.infeasible

-----------------------------------------------------------------------------
\* A cycle begins with the room and its receipts.

Run(where, program, a) == place' = where /\ todo' = program /\ focus' = a
EndCycle == Run("idle", <<>>, 0)

Read(upTo) ==
    /\ place = "idle" /\ phase = "WRITING"
    /\ upTo \in known .. Len(room) /\ known' = upTo
    /\ Run("receipts", <<>>, 0)
    /\ UNCHANGED <<poemVars, requestVars, done, mindVars, worldVars, stage, crashes>>

\* Fault: a receipt is marked done before it is acted on.
ProgramDoneFirst(i) ==
    IF room[i].kind = "accepted"
      THEN <<"done", "status", "version", "hash", "previous", "progress", "complete">>
      ELSE <<"done", "refuse">>

\* What an own receipt makes the daemon commit, one after the other.  Only a version
\* that was not known yet is progress.
Program(i) ==
    IF room[i].kind = "rejected" THEN <<"refuse", "done">>
    ELSE IF room[i].version > version
      THEN <<"status", "version", "hash", "previous", "progress", "complete", "done">>
      ELSE <<"status", "version", "hash", "previous", "complete", "done">>

Handle ==
    /\ place = "receipts" /\ todo = <<>> /\ Unprocessed # {}
    /\ Run(place, Program(Min(Unprocessed)), Min(Unprocessed))
    /\ UNCHANGED <<poemVars, requestVars, readVars, mindVars, worldVars, stage, crashes>>

Commit(c) == todo # <<>> /\ Head(todo) = c /\ todo' = Tail(todo)

CommitStatus ==
    /\ \/ Commit("status") /\ word' = [word EXCEPT ![room[focus].id].status = "accepted"]
       \/ Commit("refuse") /\ word' = [word EXCEPT ![room[focus].id].status = "rejected"]
    /\ UNCHANGED <<poemVars, note, intro, readVars, mindVars, place, focus, worldVars, stage,
                   crashes>>

\* The receipt's values replace whatever is known, one setting at a time.
CommitPoem ==
    /\ \/ /\ Commit("version") /\ version' = room[focus].version
          /\ UNCHANGED <<phase, hash, previous>>
       \/ /\ Commit("hash") /\ hash' = room[focus].version
          /\ UNCHANGED <<phase, version, previous>>
       \/ /\ Commit("previous") /\ previous' = room[focus].by
          /\ UNCHANGED <<phase, version, hash>>
       \/ /\ Commit("complete")
          /\ phase' = IF room[focus].version = PoemLength THEN "POEM_COMPLETE" ELSE phase
          /\ UNCHANGED <<version, hash, previous>>
    /\ UNCHANGED <<requestVars, readVars, mindVars, place, focus, worldVars, stage, crashes>>

\* poem_last_progress_at
CommitProgress ==
    /\ Commit("progress") /\ stage' = 0
    /\ UNCHANGED <<poemVars, requestVars, readVars, mindVars, place, focus, worldVars, crashes>>

CommitDone ==
    /\ Commit("done") /\ done' = done \cup {focus}
    /\ UNCHANGED <<poemVars, requestVars, known, mindVars, place, focus, worldVars, stage, crashes>>

ReceiptsDone == place = "receipts" /\ todo = <<>> /\ Unprocessed = {}

Complete ==
    /\ ReceiptsDone /\ phase # "WRITING" /\ EndCycle
    /\ UNCHANGED <<poemVars, requestVars, readVars, mindVars, worldVars, stage, crashes>>

\* The announcement, once a game; it takes the cycle.  Nothing depends on its POST, nor
\* on that of a note: only the requests that are reserved before them count.
Announce ==
    /\ ReceiptsDone /\ phase = "WRITING" /\ ~intro /\ intro' = TRUE
    /\ EndCycle
    /\ UNCHANGED <<poemVars, word, note, readVars, mindVars, worldVars, stage, crashes>>

\* Fault: a message is analysed again without limit.
DueWithoutLimit == {i \in (1 .. known) \ parsed : room[i].kind \in ChatKinds}

\* TeamIntelligence.sync: one message a cycle goes to the model, unless all that are
\* left were tried lately.  The model may fail, for now or for good.
Due == {i \in (1 .. known) \ parsed : room[i].kind \in ChatKinds /\ tries[i] < MaxAnalysis}

Analyse ==
    \/ (\A i \in Due : tries[i] > 0) /\ UNCHANGED <<parsed, tries>>
    \/ \E i \in Due : \/ /\ tries' = [tries EXCEPT ![i] = @ + 1]
                         /\ parsed' \in {parsed, parsed \cup {i}}
                      \/ tries' = [tries EXCEPT ![i] = MaxAnalysis] /\ UNCHANGED parsed

\* build_decision_state starts a wait for each commitment that has none at this version.
Sync ==
    /\ ReceiptsDone /\ phase = "WRITING" /\ intro
    /\ Analyse
    /\ Run("deciding", <<>>, 0)
    /\ UNCHANGED <<poemVars, requestVars, readVars, failure, worldVars, stage, crashes>>
    /\ waits' = [i \in 1 .. MaxRoom |->
                   IF i \in Active("commitment")' /\ waits[i].version # version
                     THEN [version |-> version, over |-> FALSE] ELSE waits[i]]

-----------------------------------------------------------------------------
\* The decision.

Wait == [act |-> "WAIT", intent |-> "none", target |-> Nobody]
ProposeWord == [Wait EXCEPT !.act = "PROPOSE"]
Coordinate(i, t) == [act |-> "COORDINATE", intent |-> i, target |-> t]

\* Messages that are answered or warned about once a version and stage.
Questioned == IF Said("question") = {} THEN {} ELSE {Nobody}
AtRisk == IF Said("risk") = {} THEN {} ELSE {room[Min(Said("risk"))].by}
NextUncovered == IF Uncovered = {} THEN {} ELSE {CHOOSE p \in Uncovered : TRUE}
Notes(intent, targets) ==
    {Coordinate(intent, t) : t \in {u \in targets : Sendable(intent, u)}}

Answers == Notes("answer_direct_question", Questioned)
Warnings == Notes("warn_terminal_publisher_risk", AtRisk)
Calls == Notes("ask_uncovered_member_to_contribute", NextUncovered)

Waiting == {i \in Active("commitment") : ~waits[i].over}
Expired == Active("commitment") \ Waiting
AwaitsUncovered == \E i \in Waiting : room[i].by \in Uncovered

DirectRequest ==
    /\ RequestsToSaruku # {} /\ Legal
    /\ Failure.exhausted => stage = 2 /\ ~Failure.emergency

\* validate_decision, over what the model may choose.
Legally == {Wait} \cup (IF Legal THEN {ProposeWord} ELSE {})
    \cup (IF Cardinality(note) >= MaxNotes THEN {}
            ELSE Notes("answer_direct_question", {Nobody})
                   \cup Notes("warn_terminal_publisher_risk", Peer \cup {Nobody})
                   \cup Notes("ask_uncovered_member_to_contribute", Peer))

Rule(when, choices) == [when |-> when, choices |-> choices]

\* _deterministic_policy and decide: the first rule that applies.
Policy == <<
    Rule(Pending # NoWord,                        {Wait}),
    Rule(DirectRequest,                           {ProposeWord}),
    Rule(Answers # {},                            Answers),
    Rule(Warnings # {},                           Warnings),
    Rule(AwaitsUncovered,                         {Wait}),
    Rule(Calls # {} /\ ~(Expired # {} /\ stage = 2), Calls),
    Rule(Waiting # {} /\ stage # 2,               {Wait}),
    Rule(stage = 2 /\ Legal,                      {ProposeWord}),
    Rule(stage = 0,                               {Wait}),
    Rule(TRUE,                                    Legally) >>
Decisions == Policy[Min({r \in DOMAIN Policy : Policy[r].when})].choices

Deciding == place = "deciding" /\ todo = <<>>

\* A pending word is posted again, the same packet.
Repost ==
    /\ Deciding /\ Pending # NoWord
    /\ Run("acting", <<"wordPost">>, Pending)
    /\ UNCHANGED <<poemVars, requestVars, readVars, mindVars, worldVars, stage, crashes>>

DecideToWait ==
    /\ Deciding /\ Pending = NoWord /\ Wait \in Decisions
    /\ EndCycle
    /\ UNCHANGED <<poemVars, requestVars, readVars, mindVars, worldVars, stage, crashes>>

DecideToCoordinate ==
    /\ Deciding /\ Pending = NoWord
    /\ \E d \in Decisions : /\ d.act = "COORDINATE"
                            /\ note' = note \cup {KeyOf(d.intent, d.target)}
    /\ EndCycle
    /\ UNCHANGED <<poemVars, word, intro, readVars, mindVars, worldVars, stage, crashes>>

-----------------------------------------------------------------------------
\* Whether a candidate passes validate_writing_candidate depends on the texts.
Survives == BOOLEAN

\* WritingPlanner.plan: `found' whether some candidate survives validation, and
\* `repair' whether the one repair was used up on the way.

\* Fault: the emergency is over with the first exhausted generation.
PlanWithoutEmergency(found, repair) ==
    LET f == Failure
    IN  /\ repair => ~f.repaired
        /\ found /\ f.exhausted => repair
        /\ failure' = [f EXCEPT !.exhausted = @ \/ ~found, !.repaired = @ \/ repair]

Plan(found, repair) ==
    LET f == Failure
        emergency == stage = 2 /\ f.exhausted /\ ~f.emergency
    IN  /\ repair => ~emergency /\ ~f.repaired
        /\ found /\ f.exhausted => emergency \/ repair
        /\ failure' = [f EXCEPT !.exhausted = @ \/ ~found,
                                !.repaired = @ \/ repair,
                                !.emergency = @ \/ emergency,
                                !.infeasible = @ \/ (emergency /\ ~found)]

DecideToPropose ==
    /\ Deciding /\ Pending = NoWord /\ ProposeWord \in Decisions
    /\ \E found \in Survives, repair \in BOOLEAN :
          /\ Plan(found, repair)
          /\ IF found /\ Len(word) < MaxWords
               THEN Run("acting", <<"word", "wordPost">>, Len(word) + 1)
               ELSE EndCycle
    /\ UNCHANGED <<poemVars, requestVars, readVars, parsed, tries, waits, worldVars, stage,
                   crashes>>

CommitWord ==
    /\ Commit("word")
    /\ word' = Append(word, [version |-> version, status |-> "pending"])
    /\ UNCHANGED <<poemVars, note, intro, readVars, mindVars, place, focus, worldVars, stage,
                   crashes>>

\* A POST arrives or not, and the cycle ends with it either way.
Put(record) == \/ Len(room) < MaxRoom /\ room' = Append(room, record)
               \/ UNCHANGED room

PostWord ==
    /\ todo # <<>> /\ Head(todo) = "wordPost"
    /\ Put([kind |-> "word", by |-> Self, id |-> focus, version |-> version])
    /\ EndCycle
    /\ UNCHANGED <<poemVars, requestVars, readVars, mindVars, poem, stage, crashes>>

\* A crash while nothing is left to commit leaves what the end of the cycle leaves.
Crash ==
    /\ todo # <<>> /\ crashes < MaxCrashes /\ crashes' = crashes + 1
    /\ EndCycle
    /\ UNCHANGED <<poemVars, requestVars, readVars, mindVars, worldVars, stage>>

-----------------------------------------------------------------------------
\* The room, the referee and the clock.  A cycle reads the room and the clock once, so
\* they move only between cycles, and while a word is about to be posted.

Outside == place \in {"idle", "acting"}

Completed == Len(poem) = PoemLength
Last == IF poem = <<>> THEN Nobody ELSE poem[Len(poem)]
Say(kind, by, id, v) ==
    /\ Outside /\ Len(room) < MaxRoom
    /\ room' = Append(room, [kind |-> kind, by |-> by, id |-> id, version |-> v])

\* A peer's word and its receipt, which says whose word it was and the new version.
PeerContributes(p) ==
    /\ ~Completed /\ Last # p
    /\ poem' = Append(poem, p) /\ Say("accepted", p, NoWord, Len(poem'))
    /\ UNCHANGED <<poemVars, requestVars, readVars, mindVars, runVars, stage, crashes>>

PeerSpeaks(p, kind) ==
    /\ Cardinality({i \in DOMAIN room : room[i].kind \in ChatKinds}) < MaxChat
    /\ Say(kind, p, NoWord, 0)
    /\ UNCHANGED <<poemVars, requestVars, readVars, mindVars, runVars, poem, stage,
                   crashes>>

\* The referee reads the room in order and answers a request id once.  It takes a word
\* for the current version from another than the last contributor, unless it finds
\* fault with it.
Answer(id) == {i \in DOMAIN room : /\ room[i].kind \in {"accepted", "rejected"}
                                  /\ room[i].by = Self /\ room[i].id = id}
Unanswered == {i \in Records("word", Len(room)) : Answer(room[i].id) = {}}

Judge ==
    /\ Unanswered # {}
    /\ LET w == room[Min(Unanswered)]
       IN  \/ /\ w.version = Len(poem) /\ Last # Self /\ ~Completed
              /\ poem' = Append(poem, Self) /\ Say("accepted", Self, w.id, Len(poem'))
           \/ Say("rejected", Self, w.id, 0) /\ UNCHANGED poem
    /\ UNCHANGED <<poemVars, requestVars, readVars, mindVars, runVars, stage, crashes>>

TimePasses ==
    /\ place = "idle" /\ stage < 2 /\ stage' = stage + 1
    /\ UNCHANGED <<poemVars, requestVars, readVars, mindVars, runVars, worldVars, crashes>>

\* A minute after the wait began.
WaitEnds ==
    /\ place = "idle"
    /\ \E i \in DOMAIN waits :
          /\ waits[i] # NoWait /\ ~waits[i].over
          /\ waits' = [waits EXCEPT ![i].over = TRUE]
    /\ UNCHANGED <<poemVars, requestVars, readVars, failure, parsed, tries, runVars, worldVars,
                   stage, crashes>>

Daemon == \/ \E upTo \in 0 .. MaxRoom : Read(upTo)
          \/ Handle \/ CommitStatus \/ CommitPoem \/ CommitProgress \/ CommitDone \/ Complete
          \/ Announce \/ Sync \/ Repost \/ DecideToWait \/ DecideToCoordinate \/ DecideToPropose
          \/ CommitWord \/ PostWord

World == \/ \E p \in Peer : PeerContributes(p) \/ \E kind \in ChatKinds : PeerSpeaks(p, kind)
         \/ Judge \/ TimePasses \/ WaitEnds

Next == Daemon \/ World \/ Crash

Spec == Init /\ [][Next]_vars

\* The daemon's loop goes on, reading the room eventually delivers all of it, and a
\* minute passes.
FairSpec == Spec /\ WF_vars(Daemon) /\ SF_vars(Read(Len(room))) /\ SF_vars(WaitEnds)

-----------------------------------------------------------------------------
\* Properties.

WordsOut == Records("word", Len(room))
\* Two different words of Saruku's for one version are never in the running together:
\* the second is made only after the first was rejected, whatever POST or commit was
\* lost between the request and its receipt.
OneWordOut ==
    \A i, j \in WordsOut :
        i < j /\ room[i].version = room[j].version /\ room[i].id # room[j].id
            => \E r \in Answer(room[i].id) : room[r].kind = "rejected" /\ r < j

\* A word made after Saruku's own was accepted is never the next: at no point of its
\* half-applied receipt may Saruku propose twice in a row.
NeverTwiceInARow ==
    \A i, j \in WordsOut :
        i < j /\ room[i].id # room[j].id =>
            \A r \in Answer(room[i].id) :
                (room[r].kind = "accepted" /\ r < j) =>
                    \E q \in Records("accepted", j) : r < q /\ room[q].by # Self

\* What is decided on is one state of the poem, that of the latest of Saruku's own
\* accepted words which the room has shown it: never an older version, nor a receipt's
\* version with an older hash or contributor, whatever a crash cut short.
OwnAccepted == {i \in Records("accepted", known) : room[i].by = Self}
DecidesOnOneState ==
    place = "deciding" =>
        /\ hash = version
        /\ IF OwnAccepted = {} THEN version = 0
             ELSE version = room[Max(OwnAccepted)].version /\ previous = Self

\* A word that has been answered is settled, so that its request is no longer sent.
AnswerIsLearned ==
    \A w \in 1 .. MaxWords :
        Answer(w) # {} ~> (w \in DOMAIN word /\ word[w].status # "pending")

\* When the team stalls, Saruku comes to a word for the state it knows, or to the
\* conclusion that it has none, unless it was the last to write: exhausted generation,
\* commitments of peers and open questions only delay it.  Only a crash between saving
\* the one emergency enumeration of a state and reserving its word loses the word.
WordTried == \E w \in DOMAIN word : word[w].version = version
StallIsBroken ==
    (stage = 2 /\ phase = "WRITING")
        ~> \/ previous = Self \/ WordTried \/ Failure.infeasible
           \/ Failure.emergency /\ crashes > 0
           \/ Len(word) = MaxWords

\* A poem that the referee has declared complete is eventually known to be.
CompletionIsLearned ==
    (\E i \in Records("accepted", Len(room)) : room[i].version = PoemLength)
        ~> phase = "POEM_COMPLETE"
=============================================================================
