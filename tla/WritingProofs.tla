----------------------------- MODULE WritingProofs -----------------------------
(***************************************************************************)
(* Proofs about Writing for any team, any length of the poem and any number *)
(* of words, notes, messages and crashes.                                   *)
(*                                                                         *)
(* The argument: the state that Saruku knows moves with its own words only, *)
(* and then says that Saruku wrote last.  So every word it makes is for the *)
(* state the poem started in, and is made when all before it have been      *)
(* rejected; the first that is accepted is its last.  A decision is taken   *)
(* only when every receipt that was read has been applied, to the end.      *)
(***************************************************************************)
EXTENDS Writing, WellFoundedInduction, TLAPS

USE MembersAssumption, BoundsAssumption

-----------------------------------------------------------------------------
\* The inductive invariant.

Own(i) == room[i].by = Self
Receipt(i) == room[i].kind \in {"accepted", "rejected"}

\* Saruku's records are words it made, for the state the poem started in, and one receipt
\* at most for each.
RoomInv ==
    /\ \A i \in 1 .. Len(room) :
          /\ room[i].kind = "word" => Own(i) /\ room[i].version = 0
          /\ room[i].kind \in ChatKinds => ~Own(i)
          /\ room[i].kind = "accepted" => room[i].version # 0
          /\ Own(i) => room[i].id \in DOMAIN word
    /\ \A i, j \in 1 .. Len(room) :
          Own(i) /\ Own(j) /\ Receipt(i) /\ Receipt(j) /\ room[i].id = room[j].id => i = j

\* Only the last request may be anything but rejected, and what is settled was read.
WordInv ==
    /\ \A w \in DOMAIN word : word[w].version = 0
    /\ \A a, b \in DOMAIN word : a < b => word[a].status = "rejected"
    /\ \A w \in DOMAIN word : word[w].status # "pending" =>
          \E r \in 1 .. known : Own(r) /\ room[r].id = w /\ room[r].kind = word[w].status

\* What is known of the poem is what the receipts that are done say.
PoemInv ==
    /\ OwnAccepted = {} => version = 0 /\ hash = 0
    /\ \A i \in done :
          /\ i \in 1 .. known /\ Own(i) /\ Receipt(i) /\ word[room[i].id].status = room[i].kind
          /\ room[i].kind = "accepted" =>
                version = room[i].version /\ hash = room[i].version /\ previous = Self

\* What is left to commit, by the place of the cycle.
Left(c) == \E k \in 1 .. Len(todo) : todo[k] = c
Applying == {"status", "version", "hash", "previous", "progress", "complete"}

ReceiptInv ==
    /\ focus \in 1 .. known /\ Own(focus) /\ Receipt(focus)
    /\ \A k \in 1 .. Len(todo) :
          /\ todo[k] \in Applying => room[focus].kind = "accepted"
          /\ todo[k] = "refuse" => room[focus].kind = "rejected"
          /\ todo[k] = "done" <=> k = Len(todo)
          /\ todo[k] \notin {"word", "wordPost"}
    /\ Left("status") \/ Left("refuse") \/ word[room[focus].id].status = room[focus].kind
    /\ room[focus].kind = "accepted" =>
          /\ Left("version") \/ version = room[focus].version
          /\ Left("hash") \/ hash = room[focus].version
          /\ Left("previous") \/ previous = Self

AllApplied == \A i \in 1 .. known : Own(i) /\ Receipt(i) => i \in done

AllRejected == \A w \in DOMAIN word : word[w].status = "rejected"
WordToMake == todo = <<"word", "wordPost">> /\ focus = Len(word) + 1 /\ focus <= MaxWords /\ AllRejected
WordToPost == todo = <<"wordPost">> /\ focus \in DOMAIN word /\ word[focus].status = "pending"

RunInv ==
    /\ place \in {"idle", "deciding"} => todo = <<>>
    /\ place = "receipts" /\ todo # <<>> => ReceiptInv
    /\ place \in {"deciding", "acting"} => AllApplied
    /\ place = "acting" => version = 0 /\ (WordToMake \/ WordToPost)

\* The two properties of the room, said record by record.
Settles(r, i, kind) ==
    room[r].kind = kind /\ Own(r) /\ room[r].id = room[i].id
Later(i, j) ==
    room[i].kind = "word" /\ room[j].kind = "word" /\ i < j /\ room[i].id # room[j].id

OneOut ==
    \A i, j \in 1 .. Len(room) :
        Later(i, j) /\ room[i].version = room[j].version
            => \E r \in 1 .. Len(room) : Settles(r, i, "rejected") /\ r < j
NotTwice ==
    \A i, j, r \in 1 .. Len(room) :
        Later(i, j) /\ Settles(r, i, "accepted") /\ r < j
            => \E q \in 1 .. j : room[q].kind = "accepted" /\ r < q /\ ~Own(q)

IInv == TypeOK /\ RoomInv /\ WordInv /\ PoemInv /\ RunInv /\ OneOut /\ NotTwice

-----------------------------------------------------------------------------
\* What is decided.

LEMMA LeastExists ==
  ASSUME NEW S \in SUBSET Nat, S # {}
  PROVE  \E x \in S : \A y \in S : x <= y
<1> DEFINE Less == {ss \in Nat \X Nat : ss[1] < ss[2]}
<1>1. IsWellFoundedOn(Less, Nat)
  BY NatLessThanWellFounded, Zenon DEF OpToRel
<1>2. \A x, y \in Nat : <<y, x>> \notin Less => x <= y
  OBVIOUS
<1> HIDE DEF Less
<1>3. PICK x \in S : \A y \in S : <<y, x>> \notin Less
  BY <1>1, WFMin, Zenon
<1> QED BY <1>2, <1>3, Zenon

LEMMA MinIsLeast ==
  ASSUME NEW S \in SUBSET Nat, S # {}
  PROVE  Min(S) \in S
  BY LeastExists DEF Min

\* Each rule of the policy waits, proposes where that is legal, or coordinates.
LEMMA PolicyRules ==
  ASSUME NEW k \in DOMAIN Policy, Policy[k].when
  PROVE  \/ Policy[k].choices = {Wait}
         \/ Policy[k].choices = {ProposeWord} /\ Legal
         \/ Policy[k].choices \in {Answers, Warnings, Calls, Legally}
<1>1. DOMAIN Policy = 1 .. 10
  BY DEF Policy
<1>2. CASE k = 1
  BY <1>2 DEF Policy, Rule
<1>3. CASE k = 2
  <2>1. Policy[2] = Rule(DirectRequest, {ProposeWord})
    BY DEF Policy
  <2>2. Policy[2].when = DirectRequest
    BY <2>1 DEF Rule
  <2>3. DirectRequest
    BY <2>2, <1>3, Zenon
  <2> QED BY <1>3, <2>1, <2>3 DEF Rule, DirectRequest
<1>4. CASE k = 8
  <2>1. Policy[8] = Rule(stage = 2 /\ Legal, {ProposeWord})
    BY DEF Policy
  <2>2. Policy[8].when = (stage = 2 /\ Legal)
    BY <2>1 DEF Rule
  <2>3. Legal
    BY <2>2, <1>4
  <2> QED BY <1>4, <2>1, <2>3 DEF Rule
<1>5. CASE k \in {3, 4, 6, 10}
  <2>1. /\ Policy[3] = Rule(Answers # {}, Answers)
        /\ Policy[4] = Rule(Warnings # {}, Warnings)
        /\ Policy[6] = Rule(Calls # {} /\ ~(Expired # {} /\ stage = 2), Calls)
        /\ Policy[10] = Rule(TRUE, Legally)
    BY DEF Policy
  <2> QED BY <1>5, <2>1 DEF Rule
<1>6. CASE k \in {5, 7, 9}
  <2>1. /\ Policy[5] = Rule(AwaitsUncovered, {Wait})
        /\ Policy[7] = Rule(Waiting # {} /\ stage # 2, {Wait})
        /\ Policy[9] = Rule(stage = 0, {Wait})
    BY DEF Policy
  <2> QED BY <1>6, <2>1 DEF Rule
<1>7. k \in {1, 2, 8} \cup {3, 4, 6, 10} \cup {5, 7, 9}
  BY <1>1
<1> QED BY <1>2, <1>3, <1>4, <1>5, <1>6, <1>7

\* A word is proposed only where SARUKU_PROPOSE_WORD is legal.
LEMMA ProposalIsLegal ==
  ASSUME ProposeWord \in Decisions
  PROVE  Legal
<1> DEFINE applies == {r \in DOMAIN Policy : Policy[r].when}
<1>1. DOMAIN Policy = 1 .. 10
  BY DEF Policy
<1>2. 10 \in applies
  <2>1. Policy[10] = Rule(TRUE, Legally)
    BY DEF Policy
  <2> QED BY <1>1, <2>1 DEF Rule
<1>3. Min(applies) \in applies
  BY <1>1, <1>2, MinIsLeast
<1>4. PICK k \in DOMAIN Policy : Policy[k].when /\ ProposeWord \in Policy[k].choices
  BY <1>3 DEF Decisions
<1>5. /\ ProposeWord # Wait
      /\ ProposeWord \notin Answers \cup Warnings \cup Calls
      /\ ProposeWord \in Legally => Legal
  BY DEF ProposeWord, Wait, Answers, Warnings, Calls, Legally, Notes, Coordinate
<1> QED BY <1>4, <1>5, PolicyRules

LEMMA Bounds ==
  /\ PoemLength \in Nat /\ MaxAnalysis \in Nat /\ MaxWords \in Nat /\ MaxNotes \in Nat
  /\ MaxRoom \in Nat /\ MaxChat \in Nat /\ MaxCrashes \in Nat
  OBVIOUS

LEMMA Basics ==
  ASSUME TypeOK
  PROVE  /\ Len(room) \in Nat /\ DOMAIN room = 1 .. Len(room) /\ known \in Nat /\ known <= Len(room)
         /\ \A i \in 1 .. Len(room) : room[i] \in Record
         /\ Len(word) \in Nat /\ DOMAIN word = 1 .. Len(word)
         /\ \A i \in parsed \cup done : i \in 1 .. known
         /\ \A i \in 1 .. known : i \in 1 .. Len(room) /\ i \in 1 .. MaxRoom
  BY DEF TypeOK

\* What is coordinated has a key.
LEMMA NotesHaveKeys ==
  ASSUME TypeOK, RoomInv, NEW d \in Decisions, d.act = "COORDINATE"
  PROVE  KeyOf(d.intent, d.target) \in Key
<1> DEFINE applies == {r \in DOMAIN Policy : Policy[r].when}
<1>1. DOMAIN Policy = 1 .. 10
  BY DEF Policy
<1>2. 10 \in applies
  <2>1. Policy[10] = Rule(TRUE, Legally)
    BY DEF Policy
  <2> QED BY <1>1, <2>1 DEF Rule
<1>3. Min(applies) \in applies
  BY <1>1, <1>2, MinIsLeast
<1>4. PICK k \in DOMAIN Policy : Policy[k].when /\ d \in Policy[k].choices
  BY <1>3 DEF Decisions
<1>5. d \in Answers \cup Warnings \cup Calls \cup Legally
  <2>1. d # Wait /\ d # ProposeWord
    BY DEF Wait, ProposeWord
  <2> QED BY <1>4, <2>1, PolicyRules
<1>6. AtRisk \subseteq Peer
  <2>1. Said("risk") # {} => Min(Said("risk")) \in Said("risk")
    <3>1. Said("risk") \subseteq Nat
      BY Basics DEF Said
    <3> QED BY <3>1, MinIsLeast
  <2>2. \A i \in Said("risk") : room[i].by \in Peer
    <3> SUFFICES ASSUME NEW i \in Said("risk") PROVE room[i].by \in Peer
      OBVIOUS
    <3>1. i \in 1 .. Len(room) /\ room[i].kind = "risk"
      BY Basics DEF Said
    <3>2. room[i].by # Self
      BY <3>1 DEF RoomInv, Own, ChatKinds
    <3>3. room[i].by \in Member
      BY <3>1, Basics DEF Record
    <3> QED BY <3>2, <3>3 DEF Member
  <2> QED BY <2>1, <2>2 DEF AtRisk
<1>7. NextUncovered \subseteq Peer
  BY DEF NextUncovered, Uncovered
<1>8. Questioned \subseteq {Nobody}
  BY DEF Questioned
<1>9. PICK i \in Intents, t \in Peer \cup {Nobody} : d = Coordinate(i, t)
  BY <1>5, <1>6, <1>7, <1>8
     DEF Answers, Warnings, Calls, Legally, Notes, Intents, Wait, ProposeWord
<1> QED BY <1>9 DEF Coordinate, KeyOf, Key, TypeOK, Stage

\* The request that is looked for is one of those for the known state that are pending.
LEMMA PendingIsPending ==
  ASSUME TypeOK
  PROVE  /\ Pending # NoWord => /\ Pending \in DOMAIN word
                                /\ word[Pending].version = version
                                /\ word[Pending].status = "pending"
         /\ Pending = NoWord => \A w \in DOMAIN word :
                                  word[w].version = version => word[w].status # "pending"
<1> DEFINE ids == {w \in DOMAIN word : word[w].version = version /\ word[w].status = "pending"}
<1>1. ids \subseteq Nat /\ 0 \notin ids
  BY DEF TypeOK
<1>2. ids # {} => Min(ids) \in ids
  BY <1>1, MinIsLeast
<1> QED BY <1>1, <1>2 DEF Pending, WordOf, NoWord

-----------------------------------------------------------------------------
\* What a commit does to the rest of the program.

LEMMA Committing ==
  ASSUME TypeOK, NEW c, Commit(c)
  PROVE  /\ todo # <<>> /\ todo[1] = c /\ Left(c)
         /\ todo' \in Seq(Commits) /\ Len(todo) \in Nat /\ Len(todo') = Len(todo) - 1
         /\ \A k \in 1 .. Len(todo') : todo'[k] = todo[k + 1] /\ k + 1 \in 1 .. Len(todo)
         /\ \A d : Left(d) /\ d # c => Left(d)'
<1>1. /\ todo # <<>> /\ todo[1] = c /\ todo' \in Seq(Commits) /\ Len(todo) \in Nat
      /\ Len(todo) >= 1 /\ Len(todo') = Len(todo) - 1
      /\ \A k \in 1 .. Len(todo') : todo'[k] = todo[k + 1]
  BY DEF TypeOK, Commit
<1>2. \A d : Left(d) /\ d # c => Left(d)'
  <2> SUFFICES ASSUME NEW d, Left(d), d # c PROVE Left(d)'
    OBVIOUS
  <2>1. PICK k \in 1 .. Len(todo) : todo[k] = d
    BY DEF Left
  <2>2. k # 1 /\ k - 1 \in 1 .. Len(todo')
    BY <1>1, <2>1
  <2>3. todo'[k - 1] = d
    BY <1>1, <2>1, <2>2
  <2> QED BY <2>2, <2>3 DEF Left
<1> QED BY <1>1, <1>2 DEF Left

\* What a receipt makes the daemon commit is taken up among the receipts, and a word where
\* the daemon acts.
LEMMA CommitPlace ==
  ASSUME TypeOK, RunInv, NEW c, Commit(c)
  PROVE  /\ c \in Applying \cup {"refuse", "done"} => place = "receipts" /\ ReceiptInv
         /\ c \in Applying => room[focus].kind = "accepted"
         /\ c = "refuse" => room[focus].kind = "rejected"
         /\ c = "done" => todo' = <<>> /\ \A d : Left(d) => d = "done"
         /\ c = "word" => place = "acting" /\ WordToMake
<1>1. todo # <<>> /\ todo[1] = c /\ Len(todo) \in Nat /\ Len(todo) >= 1 /\ todo' = Tail(todo)
  BY Committing DEF Commit, TypeOK
<1>2. place \in {"receipts", "acting"}
  BY <1>1 DEF TypeOK, RunInv
<1>3. CASE place = "receipts"
  <2>1. ReceiptInv
    BY <1>1, <1>3 DEF RunInv
  <2>2. c = "done" => Len(todo) = 1
    <3>1. 1 \in 1 .. Len(todo)
      BY <1>1
    <3>2. todo[1] = "done" <=> 1 = Len(todo)
      BY <2>1, <3>1, Zenon DEF ReceiptInv
    <3> QED BY <1>1, <3>2
  <2>3. c = "done" => todo' = <<>> /\ \A d : Left(d) => d = "done"
    <3>1. ASSUME c = "done" PROVE todo' = <<>>
      <4>1. Len(todo) = 1 /\ todo \in Seq(Commits)
        BY <2>2, <3>1 DEF TypeOK
      <4> HIDE DEF Commits
      <4> QED BY <1>1, <4>1
    <3>2. ASSUME c = "done", NEW d, Left(d) PROVE d = "done"
      <4>1. PICK k \in 1 .. Len(todo) : todo[k] = d
        BY <3>2 DEF Left
      <4>2. k = 1
        <5>1. Len(todo) = 1
          BY <2>2, <3>2
        <5> QED BY <4>1, <5>1
      <4> QED BY <1>1, <3>2, <4>1, <4>2
    <3> QED BY <3>1, <3>2
  <2>4. /\ c \in Applying => room[focus].kind = "accepted"
        /\ c = "refuse" => room[focus].kind = "rejected"
        /\ c # "word"
    <3>1. \A k \in 1 .. Len(todo) :
            /\ todo[k] \in Applying => room[focus].kind = "accepted"
            /\ todo[k] = "refuse" => room[focus].kind = "rejected"
            /\ todo[k] \notin {"word", "wordPost"}
      BY <2>1, Zenon DEF ReceiptInv
    <3>2. 1 \in 1 .. Len(todo)
      BY <1>1
    <3> QED BY <1>1, <3>1, <3>2, Zenon
  <2> QED BY <1>3, <2>1, <2>3, <2>4
<1>4. CASE place = "acting"
  BY <1>1, <1>4 DEF RunInv, WordToMake, WordToPost, Applying
<1> QED BY <1>2, <1>3, <1>4

\* The records a receipt that is being applied names.
LEMMA FocusFacts ==
  ASSUME TypeOK, RoomInv, ReceiptInv
  PROVE  /\ focus \in 1 .. Len(room) /\ focus \in 1 .. known /\ room[focus] \in Record
         /\ room[focus].id \in DOMAIN word /\ room[focus].by = Self
         /\ room[focus].kind \in {"accepted", "rejected"}
         /\ room[focus].kind = "accepted" => room[focus].version # 0
  BY Basics DEF RoomInv, ReceiptInv, Own, Receipt

-----------------------------------------------------------------------------
\* Type correctness.

LEMMA ReceiptTypes ==
  ASSUME TypeOK, RoomInv, RunInv, CommitStatus \/ CommitPoem \/ CommitProgress \/ CommitDone
  PROVE  TypeOK'
<1> USE DEF poemVars, requestVars, readVars, mindVars, worldVars
<1>1. CASE CommitStatus
  <2>1. PICK c \in {"status", "refuse"} : Commit(c)
    BY <1>1 DEF CommitStatus
  <2>2. ReceiptInv
    BY <2>1, CommitPlace DEF Applying
  <2>3. word' \in Seq([version : Version, status : {"pending", "accepted", "rejected"}])
        /\ Len(word') = Len(word)
    <3> DEFINE R == [version : Version, status : {"pending", "accepted", "rejected"}]
    <3>1. word \in Seq(R) /\ room[focus].id \in DOMAIN word
      BY <2>2, FocusFacts DEF TypeOK
    <3>2. PICK s \in {"accepted", "rejected"} : word' = [word EXCEPT ![room[focus].id].status = s]
      BY <1>1 DEF CommitStatus
    <3>3. \A w \in DOMAIN word : word'[w] \in R
      <4> SUFFICES ASSUME NEW w \in DOMAIN word PROVE word'[w] \in R
        OBVIOUS
      <4>1. word[w] \in R
        <5>1. w \in 1 .. Len(word) /\ word \in Seq(R)
          BY <3>1, Basics
        <5> HIDE DEF R
        <5> QED BY <5>1
      <4>2. word'[w] = IF w = room[focus].id THEN [word[w] EXCEPT !.status = s] ELSE word[w]
        BY <3>2
      <4> QED BY <4>1, <4>2
    <3>4. DOMAIN word' = 1 .. Len(word) /\ Len(word) \in Nat
      BY <3>1, <3>2
    <3>5. word' = [w \in 1 .. Len(word) |-> word'[w]]
      BY <3>1, <3>2, <3>4
    <3> HIDE DEF R
    <3>6. word' \in [1 .. Len(word) -> R]
      BY <3>1, <3>3, <3>5
    <3>7. word' \in Seq(R)
      BY <3>4, <3>6
    <3> QED BY <3>4, <3>7 DEF R
  <2>4. todo' \in Seq(Commits)
    BY <2>1, Committing
  <2> QED BY <1>1, <2>3, <2>4 DEF CommitStatus, TypeOK
<1>2. CASE CommitPoem
  <2>1. PICK c \in {"version", "hash", "previous", "complete"} : Commit(c)
    BY <1>2 DEF CommitPoem
  <2>2. ReceiptInv
    BY <2>1, CommitPlace DEF Applying
  <2>3. room[focus].version \in Version /\ room[focus].by \in Member
    BY <2>2, FocusFacts DEF Record
  <2>4. todo' \in Seq(Commits)
    BY <2>1, Committing
  <2>5. phase' \in {"WRITING", "POEM_COMPLETE"} /\ version' \in Version /\ hash' \in Version
        /\ previous' \in Member \cup {Nobody}
    BY <1>2, <2>3 DEF CommitPoem, TypeOK
  <2> QED BY <1>2, <2>4, <2>5 DEF CommitPoem, TypeOK
<1>3. CASE CommitProgress
  <2>1. todo' \in Seq(Commits)
    BY <1>3, Committing DEF CommitProgress
  <2> QED BY <1>3, <2>1 DEF CommitProgress, TypeOK, Stage
<1>4. CASE CommitDone
  <2>1. ReceiptInv /\ todo' \in Seq(Commits)
    BY <1>4, CommitPlace, Committing DEF CommitDone
  <2>2. done' \subseteq 1 .. known
    BY <1>4, <2>1 DEF CommitDone, ReceiptInv, TypeOK
  <2> QED BY <1>4, <2>1, <2>2 DEF CommitDone, TypeOK
<1> QED BY <1>1, <1>2, <1>3, <1>4
\* A record that arrives.
LEMMA Arrival ==
  ASSUME TypeOK, NEW x \in Record, Len(room) < MaxRoom, room' = Append(room, x)
  PROVE  /\ room' \in Seq(Record) /\ Len(room') = Len(room) + 1 /\ Len(room') <= MaxRoom
         /\ known \in 0 .. Len(room')
         /\ \A i \in 1 .. Len(room) : room'[i] = room[i]
         /\ room'[Len(room) + 1] = x
  BY DEF TypeOK

\* The other steps of a cycle.
LEMMA CycleTypes ==
  ASSUME TypeOK, RoomInv, RunInv,
         \/ \E upTo \in 0 .. MaxRoom : Read(upTo)
         \/ Handle \/ Complete \/ Announce \/ Sync \/ Repost \/ DecideToWait \/ DecideToCoordinate
         \/ DecideToPropose \/ CommitWord \/ PostWord \/ Crash
  PROVE  TypeOK'
<1> USE DEF poemVars, requestVars, readVars, mindVars, worldVars, runVars
<1>0. <<>> \in Seq(Commits)
  OBVIOUS
<1>1. ASSUME NEW upTo \in 0 .. MaxRoom, Read(upTo) PROVE TypeOK'
  <2>1. known' \in 0 .. Len(room) /\ known <= known'
    BY <1>1, Basics DEF Read
  <2>2. done \subseteq 1 .. known' /\ parsed \subseteq 1 .. known'
    BY <2>1, Basics
  <2> QED BY <1>0, <1>1, <2>1, <2>2 DEF Read, Run, TypeOK
<1>2. CASE Handle
  <2>1. Min(Unprocessed) \in Unprocessed
    <3>1. Unprocessed \subseteq Nat
      BY Basics DEF Unprocessed, Records
    <3> QED BY <1>2, <3>1, MinIsLeast DEF Handle
  <2>2. Program(Min(Unprocessed)) \in Seq(Commits)
    <3>1. /\ <<"refuse", "done">> \in Seq(Commits)
          /\ <<"status", "version", "hash", "previous", "complete", "done">> \in Seq(Commits)
          /\ <<"status", "version", "hash", "previous", "progress", "complete", "done">> \in Seq(Commits)
      BY DEF Commits
    <3> QED BY <3>1, Zenon DEF Program
  <2>3. Min(Unprocessed) \in Nat
    BY <2>1, Basics DEF Unprocessed, Records
  <2> QED BY <1>2, <2>2, <2>3 DEF Handle, Run, TypeOK
<1>3. CASE Complete \/ Announce \/ DecideToWait \/ Crash
  <2>1. crashes' \in 0 .. MaxCrashes /\ intro' \in BOOLEAN
    <3>1. CASE Crash
      BY <3>1, Bounds DEF Crash, TypeOK
    <3>2. CASE Complete \/ Announce \/ DecideToWait
      BY <3>2, Bounds DEF Complete, Announce, DecideToWait, TypeOK
    <3> QED BY <1>3, <3>1, <3>2
  <2>2. EndCycle
    BY <1>3 DEF Complete, Announce, DecideToWait, Crash
  <2>3. place' = "idle" /\ todo' \in Seq(Commits) /\ focus' \in Nat
    BY <1>0, <2>2 DEF EndCycle, Run
  <2> QED BY <1>3, <2>1, <2>3 DEF Complete, Announce, DecideToWait, Crash, TypeOK
<1>4. CASE Sync
  <2>1. parsed' \subseteq 1 .. known /\ tries' \in [1 .. MaxRoom -> 0 .. MaxAnalysis]
    <3>1. CASE UNCHANGED <<parsed, tries>>
      BY <3>1 DEF TypeOK
    <3>2. ASSUME NEW i \in Due,
                 \/ tries' = [tries EXCEPT ![i] = @ + 1] /\ parsed' \in {parsed, parsed \cup {i}}
                 \/ tries' = [tries EXCEPT ![i] = MaxAnalysis] /\ UNCHANGED parsed
          PROVE  parsed' \subseteq 1 .. known /\ tries' \in [1 .. MaxRoom -> 0 .. MaxAnalysis]
      <4>1. i \in 1 .. known /\ i \in 1 .. MaxRoom /\ tries[i] < MaxAnalysis
        BY Basics DEF Due
      <4>2. parsed' \subseteq 1 .. known
        BY <3>2, <4>1 DEF TypeOK
      <4>3. tries' \in [1 .. MaxRoom -> 0 .. MaxAnalysis]
        <5>1. tries \in [1 .. MaxRoom -> 0 .. MaxAnalysis]
          BY DEF TypeOK
        <5>2. CASE tries' = [tries EXCEPT ![i] = @ + 1]
          BY <4>1, <5>1, <5>2
        <5>3. CASE tries' = [tries EXCEPT ![i] = MaxAnalysis]
          BY <4>1, <5>1, <5>3
        <5>4. CASE tries' = tries
          BY <5>1, <5>4
        <5> QED BY <3>2, <5>2, <5>3, <5>4
      <4> QED BY <4>2, <4>3
    <3> QED BY <1>4, <3>1, <3>2 DEF Sync, Analyse
  <2>2. waits' \in [1 .. MaxRoom -> [version : Version, over : BOOLEAN] \cup {NoWait}]
    BY <1>4 DEF Sync, TypeOK
  <2> QED BY <1>0, <1>4, <2>1, <2>2 DEF Sync, Run, TypeOK
<1>5. CASE Repost
  <2>1. Pending \in Nat
    BY <1>5, PendingIsPending, Basics DEF Repost
  <2> QED BY <1>5, <2>1 DEF Repost, Run, TypeOK, Commits
<1>6. CASE DecideToCoordinate
  <2>1. PICK d \in Decisions : d.act = "COORDINATE" /\ note' = note \cup {KeyOf(d.intent, d.target)}
    BY <1>6 DEF DecideToCoordinate
  <2>2. note' \subseteq Key
    BY <2>1, NotesHaveKeys DEF TypeOK
  <2> QED BY <1>0, <1>6, <2>2 DEF DecideToCoordinate, EndCycle, Run, TypeOK
<1>7. CASE DecideToPropose
  <2>1. PICK found \in BOOLEAN, repair \in BOOLEAN :
            /\ Plan(found, repair)
            /\ IF found /\ Len(word) < MaxWords
                 THEN Run("acting", <<"word", "wordPost">>, Len(word) + 1)
                 ELSE EndCycle
    BY <1>7 DEF DecideToPropose, Survives
  <2>2. failure' \in [version : Version, exhausted : BOOLEAN, repaired : BOOLEAN,
                     emergency : BOOLEAN, infeasible : BOOLEAN]
    <3>1. Failure \in [version : Version, exhausted : BOOLEAN, repaired : BOOLEAN,
                      emergency : BOOLEAN, infeasible : BOOLEAN]
      BY DEF Failure, NoFailure, TypeOK
    <3> QED BY <2>1, <3>1 DEF Plan
  <2>3. place' \in {"idle", "acting"} /\ todo' \in Seq(Commits) /\ focus' \in Nat
    <3>1. <<"word", "wordPost">> \in Seq(Commits)
      BY DEF Commits
    <3>2. CASE EndCycle
      BY <1>0, <3>2 DEF EndCycle, Run
    <3>3. CASE Run("acting", <<"word", "wordPost">>, Len(word) + 1)
      BY <3>1, <3>3, Basics DEF Run
    <3> QED BY <2>1, <3>2, <3>3, Zenon
  <2> QED BY <1>7, <2>2, <2>3 DEF DecideToPropose, TypeOK
<1>8. CASE CommitWord
  <2>1. Commit("word")
    BY <1>8 DEF CommitWord
  <2>2. todo' \in Seq(Commits) /\ Len(word) < MaxWords
    BY <2>1, Committing, CommitPlace, Basics DEF WordToMake
  <2>3. word' \in Seq([version : Version, status : {"pending", "accepted", "rejected"}])
    BY <1>8 DEF CommitWord, TypeOK
  <2>4. Len(word') <= MaxWords
    BY <1>8, <2>2 DEF CommitWord, TypeOK
  <2> QED BY <1>8, <2>2, <2>3, <2>4 DEF CommitWord, TypeOK
<1>9. CASE PostWord
  <2>1. todo # <<>> /\ Head(todo) = "wordPost"
    BY <1>9 DEF PostWord
  <2>2. place = "acting"
    BY <2>1 DEF RunInv, TypeOK, ReceiptInv
  <2>3. room' = room \/ /\ Len(room) < MaxRoom
                        /\ room' = Append(room, [kind |-> "word", by |-> Self, id |-> focus, version |-> version])
    BY <1>9 DEF PostWord, Put
  <2>4. todo = <<"wordPost">> /\ focus \in DOMAIN word
    BY <2>1, <2>2 DEF RunInv, WordToMake, WordToPost
  <2>5. focus \in 0 .. MaxWords
    BY <2>4 DEF TypeOK
  <2>6. [kind |-> "word", by |-> Self, id |-> focus, version |-> version] \in Record
    BY <2>5 DEF Record, Member, TypeOK
  <2>7. room' \in Seq(Record) /\ Len(room') <= MaxRoom /\ Len(room') >= Len(room)
    <3>1. CASE room' = room
      BY <3>1, Basics DEF TypeOK
    <3>2. CASE room' # room
      BY <2>3, <2>6, <3>2, Arrival, Basics
    <3> QED BY <3>1, <3>2
  <2>8. known \in 0 .. Len(room')
    BY <2>7, Basics
  <2> QED BY <1>0, <1>9, <2>7, <2>8 DEF PostWord, EndCycle, Run, TypeOK
<1> QED BY <1>1, <1>2, <1>3, <1>4, <1>5, <1>6, <1>7, <1>8, <1>9


LEMMA WorldTypes ==
  ASSUME TypeOK, World
  PROVE  TypeOK'
<1> USE DEF poemVars, requestVars, readVars, mindVars, worldVars, runVars
<1>1. ASSUME NEW p \in Peer, PeerContributes(p) PROVE TypeOK'
  <2> DEFINE x == [kind |-> "accepted", by |-> p, id |-> NoWord, version |-> Len(poem')]
  <2>1. poem' \in Seq(Member) /\ Len(poem') <= PoemLength /\ Len(poem') \in Version
    BY <1>1, Bounds DEF PeerContributes, Completed, TypeOK, Member, Version
  <2>2. x \in Record
    BY <2>1, Bounds DEF Record, Member, NoWord
  <2>3. Len(room) < MaxRoom /\ room' = Append(room, x)
    BY <1>1 DEF PeerContributes, Say
  <2> HIDE DEF x
  <2>4. room' \in Seq(Record) /\ Len(room') <= MaxRoom /\ known \in 0 .. Len(room')
    BY <2>2, <2>3, Arrival
  <2> QED BY <1>1, <2>1, <2>4 DEF PeerContributes, TypeOK
<1>2. ASSUME NEW p \in Peer, NEW kind \in ChatKinds, PeerSpeaks(p, kind) PROVE TypeOK'
  <2> DEFINE x == [kind |-> kind, by |-> p, id |-> NoWord, version |-> 0]
  <2>1. x \in Record
    BY Bounds DEF Record, Member, NoWord, Version
  <2>2. Len(room) < MaxRoom /\ room' = Append(room, x)
    BY <1>2 DEF PeerSpeaks, Say
  <2> HIDE DEF x
  <2>3. room' \in Seq(Record) /\ Len(room') <= MaxRoom /\ known \in 0 .. Len(room')
    BY <2>1, <2>2, Arrival
  <2> QED BY <1>2, <2>3 DEF PeerSpeaks, TypeOK
<1>3. CASE Judge
  <2>1. PICK x \in Record : /\ Len(room) < MaxRoom /\ room' = Append(room, x)
    <3>1. Min(Unanswered) \in Unanswered /\ Min(Unanswered) \in 1 .. Len(room)
      <4>1. Unanswered \subseteq Nat /\ Unanswered \subseteq 1 .. Len(room)
        BY Basics DEF Unanswered, Records
      <4> QED BY <1>3, <4>1, MinIsLeast DEF Judge
    <3> DEFINE w == room[Min(Unanswered)]
    <3>2. w \in Record
      BY <3>1, Basics
    <3>3. w.id \in 0 .. MaxWords
      BY <3>2 DEF Record
    <3> HIDE DEF w
    <3>4. CASE Say("rejected", Self, w.id, 0)
      <4>1. [kind |-> "rejected", by |-> Self, id |-> w.id, version |-> 0] \in Record
        BY <3>3, Bounds DEF Record, Member, Version
      <4> QED BY <3>4, <4>1 DEF Say
    <3>5. CASE ~Completed /\ poem' = Append(poem, Self) /\ Say("accepted", Self, w.id, Len(poem'))
      <4>1. Len(poem') \in Version
        BY <3>5, Bounds DEF Completed, TypeOK, Member, Version
      <4>2. [kind |-> "accepted", by |-> Self, id |-> w.id, version |-> Len(poem')] \in Record
        BY <3>3, <4>1 DEF Record, Member
      <4> QED BY <3>5, <4>2 DEF Say
    <3> QED BY <1>3, <3>4, <3>5 DEF Judge, w
  <2>2. room' \in Seq(Record) /\ Len(room') <= MaxRoom /\ known \in 0 .. Len(room')
    BY <2>1, Arrival
  <2>3. poem' \in Seq(Member) /\ Len(poem') <= PoemLength
    <3>1. poem' = poem \/ (poem' = Append(poem, Self) /\ ~Completed)
      BY <1>3, Zenon DEF Judge
    <3>2. CASE poem' = poem
      BY <3>2 DEF TypeOK
    <3>3. CASE poem' = Append(poem, Self) /\ ~Completed
      <4>1. poem \in Seq(Member) /\ Self \in Member /\ Len(poem) <= PoemLength /\ Len(poem) # PoemLength
        BY <3>3 DEF Completed, TypeOK, Member
      <4>2. poem' \in Seq(Member) /\ Len(poem') = Len(poem) + 1 /\ Len(poem) \in Nat
        BY <3>3, <4>1
      <4> QED BY <4>1, <4>2, Bounds
    <3> QED BY <3>1, <3>2, <3>3
  <2> QED BY <1>3, <2>2, <2>3 DEF Judge, TypeOK
<1>4. CASE TimePasses
  BY <1>4 DEF TimePasses, TypeOK, Stage
<1>5. CASE WaitEnds
  <2>1. waits' \in [1 .. MaxRoom -> [version : Version, over : BOOLEAN] \cup {NoWait}]
    <3>1. PICK i \in DOMAIN waits : waits[i] # NoWait /\ waits' = [waits EXCEPT ![i].over = TRUE]
      BY <1>5 DEF WaitEnds
    <3>2. i \in 1 .. MaxRoom /\ waits[i] \in [version : Version, over : BOOLEAN]
      BY <3>1 DEF TypeOK
    <3>3. [waits[i] EXCEPT !.over = TRUE] \in [version : Version, over : BOOLEAN]
      BY <3>2
    <3> QED BY <3>1, <3>2, <3>3 DEF TypeOK
  <2> QED BY <1>5, <2>1 DEF WaitEnds, TypeOK
<1> QED BY <1>1, <1>2, <1>3, <1>4, <1>5 DEF World

-----------------------------------------------------------------------------
\* What a new record leaves as it is.

LEMMA RoomGrows ==
  ASSUME IInv, NEW x \in Record, Len(room) < MaxRoom, room' = Append(room, x),
         UNCHANGED <<poemVars, word, known, done>>
  PROVE  /\ WordInv' /\ PoemInv'
         /\ UNCHANGED runVars => RunInv'
         /\ x.kind # "word" => OneOut' /\ NotTwice'
<1> USE DEF IInv, poemVars, runVars
<1>1. /\ Len(room') = Len(room) + 1 /\ DOMAIN room' = 1 .. (Len(room) + 1)
      /\ \A i \in 1 .. Len(room) : room'[i] = room[i]
      /\ room'[Len(room) + 1] = x /\ Len(room) \in Nat
  BY Arrival, Basics
<1>2. \A i \in 1 .. known : i \in 1 .. Len(room) /\ room'[i] = room[i]
  BY <1>1, Basics
<1>3. OwnAccepted' = OwnAccepted
  BY <1>2 DEF OwnAccepted, Records
<1>4. WordInv'
  BY <1>2 DEF WordInv, Own
<1>5. PoemInv'
  BY <1>2, <1>3 DEF PoemInv, Own, Receipt
<1>6. ASSUME UNCHANGED runVars PROVE RunInv'
  <2>1. AllApplied => AllApplied'
    BY <1>2 DEF AllApplied, Own, Receipt
  <2>2. ReceiptInv => ReceiptInv'
    <3>1. ASSUME ReceiptInv PROVE room'[focus] = room[focus] /\ focus \in 1 .. known
      BY <1>2, <3>1 DEF ReceiptInv
    <3> QED BY <1>6, <3>1 DEF ReceiptInv, Own, Receipt, Left
  <2>3. WordToMake' = WordToMake /\ WordToPost' = WordToPost
    BY <1>6 DEF WordToMake, WordToPost, AllRejected
  <2> QED BY <1>6, <2>1, <2>2, <2>3 DEF RunInv
<1>7. ASSUME x.kind # "word" PROVE OneOut' /\ NotTwice'
  <2>1. \A i \in 1 .. Len(room') : room'[i].kind = "word" => i \in 1 .. Len(room)
    BY <1>1, <1>7
  <2>2. OneOut'
    <3> SUFFICES ASSUME NEW i \in 1 .. Len(room'), NEW j \in 1 .. Len(room'),
                        Later(i, j)', room'[i].version = room'[j].version
                 PROVE  \E r \in 1 .. Len(room') : Settles(r, i, "rejected")' /\ r < j
      BY DEF OneOut
    <3>1. i \in 1 .. Len(room) /\ j \in 1 .. Len(room)
      BY <2>1 DEF Later
    <3>2. PICK r \in 1 .. Len(room) : Settles(r, i, "rejected") /\ r < j
      BY <1>1, <3>1 DEF OneOut, Later
    <3>3. r \in 1 .. Len(room') /\ Settles(r, i, "rejected")'
      BY <1>1, <3>1, <3>2 DEF Settles, Own
    <3> QED BY <3>2, <3>3
  <2>3. NotTwice'
    <3> SUFFICES ASSUME NEW i \in 1 .. Len(room'), NEW j \in 1 .. Len(room'), NEW r \in 1 .. Len(room'),
                        Later(i, j)', Settles(r, i, "accepted")', r < j
                 PROVE  \E q \in 1 .. j : room'[q].kind = "accepted" /\ r < q /\ room'[q].by # Self
      BY DEF NotTwice, Own
    <3>1. i \in 1 .. Len(room) /\ j \in 1 .. Len(room) /\ r \in 1 .. Len(room)
      BY <1>1, <2>1 DEF Later
    <3>2. Later(i, j) /\ Settles(r, i, "accepted")
      BY <1>1, <3>1 DEF Later, Settles, Own
    <3>3. PICK q \in 1 .. j : room[q].kind = "accepted" /\ r < q /\ ~Own(q)
      BY <3>1, <3>2 DEF NotTwice
    <3> QED BY <1>1, <3>1, <3>3 DEF Own
  <2> QED BY <2>2, <2>3
<1> QED BY <1>4, <1>5, <1>6, <1>7

-----------------------------------------------------------------------------
\* The steps of the daemon preserve the invariant.

LEMMA Quiet ==
  ASSUME IInv, TypeOK', RunInv', UNCHANGED <<version, hash, previous, word, known, done, room>>
  PROVE  IInv'
  BY DEF IInv, RoomInv, WordInv, PoemInv, OwnAccepted, Records, OneOut, NotTwice, Later, Settles, Own,
         Receipt

LEMMA ReadIInv == ASSUME IInv, NEW upTo \in 0 .. MaxRoom, Read(upTo) PROVE IInv'
<1>1. TypeOK'
  BY CycleTypes DEF IInv
<1>2. /\ known' \in known .. Len(room) /\ known' <= Len(room) /\ known \in Nat
      /\ \A i \in 1 .. known : i \in 1 .. known'
      /\ place' = "receipts" /\ todo' = <<>> /\ UNCHANGED <<version, hash, previous, word, done, room>>
  BY Basics DEF Read, Run, IInv, poemVars, requestVars, worldVars
<1>3. RoomInv' /\ OneOut' /\ NotTwice'
  <2>1. room' = room /\ word' = word
    BY <1>2
  <2>2. RoomInv'
    BY <2>1 DEF IInv, RoomInv, Own, Receipt
  <2>3. OneOut'
    BY <2>1 DEF IInv, OneOut, Later, Settles, Own
  <2>4. NotTwice'
    BY <2>1 DEF IInv, NotTwice, Later, Settles, Own
  <2> QED BY <2>2, <2>3, <2>4
<1>4. WordInv'
  BY <1>2 DEF IInv, WordInv, Own
<1>5. PoemInv'
  <2>1. OwnAccepted \subseteq OwnAccepted'
    BY <1>2 DEF OwnAccepted, Records
  <2> QED BY <1>2, <2>1 DEF IInv, PoemInv, Own, Receipt
<1>6. RunInv'
  BY <1>2 DEF RunInv
<1> QED BY <1>1, <1>3, <1>4, <1>5, <1>6 DEF IInv

LEMMA HandleIInv == ASSUME IInv, Handle PROVE IInv'
<1> USE DEF IInv
<1> DEFINE i == Min(Unprocessed)
<1>1. i \in 1 .. known /\ Own(i) /\ Receipt(i)
  <2>1. Unprocessed \subseteq Nat /\ Unprocessed # {}
    BY Basics DEF Handle, Unprocessed, Records
  <2>2. i \in Unprocessed
    BY <2>1, MinIsLeast
  <2> QED BY <2>2 DEF Unprocessed, Records, Own, Receipt
<1>2. /\ place' = "receipts" /\ todo' = Program(i) /\ focus' = i
      /\ UNCHANGED <<version, hash, previous, word, known, done, room>>
  BY DEF Handle, Run, poemVars, requestVars, readVars, worldVars
<1>3. TypeOK'
  BY CycleTypes
<1> HIDE DEF i
<1>4. ReceiptInv'
  <2>1. focus' \in 1 .. known' /\ Own(focus)' /\ Receipt(focus)'
    BY <1>1, <1>2 DEF Own, Receipt
  <2>2. CASE room[i].kind = "rejected"
    <3>1. todo' = <<"refuse", "done">>
      BY <1>2, <2>2 DEF Program
    <3>2. Left("refuse")'
      BY <3>1 DEF Left
    <3> QED BY <1>2, <2>1, <2>2, <3>1, <3>2 DEF ReceiptInv, Applying
  <2>3. CASE room[i].kind = "accepted"
    <3>1. \/ todo' = <<"status", "version", "hash", "previous", "progress", "complete", "done">>
          \/ todo' = <<"status", "version", "hash", "previous", "complete", "done">>
      BY <1>2, <2>3 DEF Program
    <3>2. Left("status")' /\ Left("version")' /\ Left("hash")' /\ Left("previous")'
      <4>1. /\ Len(todo') \in Nat /\ Len(todo') >= 4 /\ todo'[1] = "status" /\ todo'[2] = "version"
            /\ todo'[3] = "hash" /\ todo'[4] = "previous"
        <5>1. CASE todo' = <<"status", "version", "hash", "previous", "complete", "done">>
          BY <5>1
        <5>2. CASE todo' = <<"status", "version", "hash", "previous", "progress", "complete", "done">>
          BY <5>2
        <5> QED BY <3>1, <5>1, <5>2
      <4>2. {1, 2, 3, 4} \subseteq 1 .. Len(todo')
        BY <4>1
      <4> HIDE DEF RunInv, PoemInv, RoomInv, WordInv, OneOut, NotTwice, TypeOK
      <4> QED BY <4>1, <4>2, Zenon DEF Left
    <3>3. \A k \in 1 .. Len(todo') : /\ todo'[k] # "refuse" /\ todo'[k] \notin {"word", "wordPost"}
                                     /\ todo'[k] = "done" <=> k = Len(todo')
      <4>1. CASE todo' = <<"status", "version", "hash", "previous", "complete", "done">>
        BY <4>1
      <4>2. CASE todo' = <<"status", "version", "hash", "previous", "progress", "complete", "done">>
        BY <4>2
      <4> QED BY <3>1, <4>1, <4>2
    <3> QED BY <1>2, <2>1, <2>3, <3>2, <3>3 DEF ReceiptInv
  <2> QED BY <1>1, <2>2, <2>3 DEF Receipt
<1>5. RunInv'
  BY <1>2, <1>4 DEF RunInv
<1> QED BY <1>2, <1>3, <1>5, Quiet

\* A commit that leaves what the others of its receipt made so.
LEMMA ReceiptGoesOn ==
  ASSUME IInv, NEW c, Commit(c), c \in Applying \cup {"refuse"}, UNCHANGED <<place, focus, known, done, room>>,
         \/ word'[room[focus].id].status = room[focus].kind
         \/ c \notin {"status", "refuse"} /\ word' = word,
         IF c = "version" THEN version' = room[focus].version ELSE UNCHANGED version,
         IF c = "hash" THEN hash' = room[focus].version ELSE UNCHANGED hash,
         IF c = "previous" THEN previous' = Self ELSE UNCHANGED previous
  PROVE  RunInv'
<1> USE DEF IInv
<1>1. place = "receipts" /\ ReceiptInv
  BY CommitPlace
<1>2. /\ Len(todo) \in Nat /\ Len(todo') = Len(todo) - 1
      /\ \A k \in 1 .. Len(todo') : todo'[k] = todo[k + 1] /\ k + 1 \in 1 .. Len(todo)
      /\ \A d : Left(d) /\ d # c => Left(d)'
  BY Committing
<1>3. \A k \in 1 .. Len(todo') :
        /\ todo'[k] \in Applying => room[focus].kind = "accepted"
        /\ todo'[k] = "refuse" => room[focus].kind = "rejected"
        /\ todo'[k] = "done" <=> k = Len(todo')
        /\ todo'[k] \notin {"word", "wordPost"}
  <2> SUFFICES ASSUME NEW k \in 1 .. Len(todo')
               PROVE  /\ todo'[k] \in Applying => room[focus].kind = "accepted"
                      /\ todo'[k] = "refuse" => room[focus].kind = "rejected"
                      /\ todo'[k] = "done" <=> k = Len(todo')
                      /\ todo'[k] \notin {"word", "wordPost"}
    OBVIOUS
  <2>1. todo'[k] = todo[k + 1] /\ k + 1 \in 1 .. Len(todo)
    BY <1>2
  <2>2. k + 1 = Len(todo) <=> k = Len(todo')
    BY <1>2
  <2> QED BY <1>1, <2>1, <2>2 DEF ReceiptInv
<1>4. Left("status")' \/ Left("refuse")' \/ word'[room[focus].id].status = room[focus].kind
  BY <1>1, <1>2 DEF ReceiptInv
<1>5. room[focus].kind = "accepted" =>
          /\ Left("version")' \/ version' = room[focus].version
          /\ Left("hash")' \/ hash' = room[focus].version
          /\ Left("previous")' \/ previous' = Self
  BY <1>1, <1>2 DEF ReceiptInv
<1>6. ReceiptInv'
  BY <1>1, <1>3, <1>4, <1>5 DEF ReceiptInv, Own, Receipt
<1> QED BY <1>1, <1>6 DEF RunInv

\* Only the last word can have been accepted, and it was accepted once.
LEMMA AcceptedIsLast ==
  ASSUME IInv, NEW i \in OwnAccepted
  PROVE  /\ i \in 1 .. Len(room) /\ Own(i) /\ Receipt(i) /\ room[i].id \in 1 .. Len(word)
         /\ \A w \in DOMAIN word : w <= room[i].id
<1> USE DEF IInv
<1>1. /\ i \in 1 .. Len(room) /\ Own(i) /\ Receipt(i) /\ room[i].kind = "accepted"
      /\ room[i].id \in 1 .. Len(word) /\ DOMAIN word = 1 .. Len(word) /\ Len(word) \in Nat
  BY Basics DEF RoomInv, OwnAccepted, Records, Own, Receipt
<1>2. ASSUME NEW w \in DOMAIN word, room[i].id < w PROVE FALSE
  <2>1. word[room[i].id].status = "rejected"
    BY <1>1, <1>2 DEF WordInv
  <2>a. room[i].id \in DOMAIN word /\ word[room[i].id].status # "pending"
    BY <1>1, <2>1
  <2>2. PICK r \in 1 .. known : Own(r) /\ room[r].id = room[i].id /\ room[r].kind = "rejected"
    <3>1. \A v \in DOMAIN word : word[v].status # "pending" =>
              \E r \in 1 .. known : Own(r) /\ room[r].id = v /\ room[r].kind = word[v].status
      BY DEF WordInv
    <3> HIDE DEF IInv
    <3> QED BY <2>a, <2>1, <3>1
  <2>3. r \in 1 .. Len(room) /\ Receipt(r)
    BY <2>2, Basics DEF Receipt
  <2> QED BY <1>1, <2>2, <2>3 DEF RoomInv
<1> QED BY <1>1, <1>2

LEMMA OneAccepted ==
  ASSUME IInv, NEW i \in OwnAccepted, NEW j \in OwnAccepted
  PROVE  i = j
<1>1. room[i].id = room[j].id
  BY AcceptedIsLast, Basics DEF IInv
<1> QED BY <1>1, AcceptedIsLast DEF IInv, RoomInv

LEMMA StatusIInv == ASSUME IInv, CommitStatus PROVE IInv'
<1> USE DEF IInv
<1>1. PICK c \in {"status", "refuse"} :
          Commit(c) /\ word' = [word EXCEPT ![room[focus].id].status = room[focus].kind]
  <2>1. CASE Commit("status") /\ word' = [word EXCEPT ![room[focus].id].status = "accepted"]
    BY <2>1, CommitPlace DEF Applying
  <2>2. CASE Commit("refuse") /\ word' = [word EXCEPT ![room[focus].id].status = "rejected"]
    BY <2>2, CommitPlace DEF Applying
  <2> QED BY <2>1, <2>2 DEF CommitStatus
<1>2. ReceiptInv
  BY <1>1, CommitPlace DEF Applying
<1>3. UNCHANGED <<version, hash, previous, place, focus, known, done, room>>
  BY DEF CommitStatus, poemVars, readVars, worldVars
<1> DEFINE f == room[focus].id
<1>4. f \in DOMAIN word /\ focus \in 1 .. known /\ Own(focus) /\ Receipt(focus)
      /\ focus \in 1 .. Len(room)
  BY <1>2, FocusFacts DEF ReceiptInv
<1>5. /\ DOMAIN word' = DOMAIN word
      /\ \A w \in DOMAIN word : word'[w].version = word[w].version
      /\ \A w \in DOMAIN word : w # f => word'[w].status = word[w].status
      /\ word'[f].status = room[focus].kind
  <2>1. \A w \in DOMAIN word : word[w] \in [version : Version, status : {"pending", "accepted", "rejected"}]
    <3> DEFINE R == [version : Version, status : {"pending", "accepted", "rejected"}]
    <3>1. word \in Seq(R) /\ DOMAIN word = 1 .. Len(word)
      BY Basics DEF TypeOK
    <3> HIDE DEF R
    <3>2. \A w \in DOMAIN word : word[w] \in R
      BY <3>1
    <3> QED BY <3>2 DEF R
  <2>2. DOMAIN word' = DOMAIN word
    BY <1>1
  <2>3. \A w \in DOMAIN word :
            word'[w] = IF w = f THEN [word[w] EXCEPT !.status = room[focus].kind] ELSE word[w]
    BY <1>1
  <2> HIDE DEF f
  <2>4. \A w \in DOMAIN word : word'[w].version = word[w].version
    BY <2>1, <2>3
  <2>5. word'[f].status = room[focus].kind
    BY <1>4, <2>1, <2>3
  <2> QED BY <2>2, <2>3, <2>4, <2>5
<1> HIDE DEF f
<1>6. TypeOK'
  BY ReceiptTypes
<1>7. RoomInv' /\ OneOut' /\ NotTwice'
  BY <1>3, <1>5 DEF RoomInv, OneOut, NotTwice, Later, Settles, Own, Receipt
<1>8. WordInv'
  <2>1. \A a, b \in DOMAIN word : a < b => word'[a].status = "rejected"
    <3> SUFFICES ASSUME NEW a \in DOMAIN word, NEW b \in DOMAIN word, a < b
                 PROVE  word'[a].status = "rejected"
      OBVIOUS
    <3>1. word[a].status = "rejected"
      BY DEF WordInv
    <3>2. CASE a = f
      <4>1. PICK r \in 1 .. known : Own(r) /\ room[r].id = f /\ room[r].kind = "rejected"
        BY <1>4, <3>1, <3>2 DEF WordInv
      <4>2. r = focus
        BY <1>4, <4>1, Basics DEF RoomInv, Receipt, f
      <4> QED BY <1>5, <3>2, <4>1, <4>2
    <3> QED BY <1>5, <3>1, <3>2
  <2>2. \A w \in DOMAIN word : word'[w].status # "pending" =>
            \E r \in 1 .. known : Own(r) /\ room[r].id = w /\ room[r].kind = word'[w].status
    BY <1>4, <1>5 DEF WordInv, f
  <2>3. \A w \in DOMAIN word : word'[w].version = 0
    BY <1>5 DEF WordInv
  <2> QED BY <1>3, <1>5, <2>1, <2>2, <2>3 DEF WordInv, Own
<1>9. PoemInv'
  <2>1. \A i \in done : word'[room[i].id].status = room[i].kind
    <3> SUFFICES ASSUME NEW i \in done PROVE word'[room[i].id].status = room[i].kind
      OBVIOUS
    <3>1. /\ i \in 1 .. Len(room) /\ Own(i) /\ Receipt(i) /\ word[room[i].id].status = room[i].kind
          /\ room[i].id \in DOMAIN word
      BY Basics DEF PoemInv, RoomInv
    <3>2. CASE room[i].id = f
      <4>1. i = focus
        BY <1>4, <3>1, <3>2 DEF RoomInv, f
      <4> QED BY <1>5, <3>2, <4>1
    <3> QED BY <1>5, <3>1, <3>2
  <2>2. OwnAccepted' = OwnAccepted
    BY <1>3 DEF OwnAccepted, Records
  <2> QED BY <1>3, <2>1, <2>2 DEF PoemInv, Own, Receipt
<1>10. RunInv'
  <2>1. word'[room[focus].id].status = room[focus].kind
    BY <1>5 DEF f
  <2>2. /\ c \in Applying \cup {"refuse"} /\ Commit(c)
        /\ IF c = "version" THEN version' = room[focus].version ELSE UNCHANGED version
        /\ IF c = "hash" THEN hash' = room[focus].version ELSE UNCHANGED hash
        /\ IF c = "previous" THEN previous' = Self ELSE UNCHANGED previous
    BY <1>1, <1>3 DEF Applying
  <2> QED BY <1>3, <2>1, <2>2, ReceiptGoesOn
<1> QED BY <1>6, <1>7, <1>8, <1>9, <1>10

LEMMA PoemIInv == ASSUME IInv, CommitPoem PROVE IInv'
<1> USE DEF IInv
<1>1. PICK c \in {"version", "hash", "previous", "complete"} :
        /\ Commit(c)
        /\ IF c = "version" THEN version' = room[focus].version ELSE UNCHANGED version
        /\ IF c = "hash" THEN hash' = room[focus].version ELSE UNCHANGED hash
        /\ IF c = "previous" THEN previous' = room[focus].by ELSE UNCHANGED previous
  BY DEF CommitPoem
<1>2. ReceiptInv /\ room[focus].kind = "accepted"
  BY <1>1, CommitPlace DEF Applying
<1>3. UNCHANGED <<word, place, focus, known, done, room>>
  BY DEF CommitPoem, requestVars, readVars, worldVars
<1>4. focus \in 1 .. known /\ Own(focus) /\ room[focus].by = Self
  BY <1>2 DEF ReceiptInv, Own
<1>5. TypeOK'
  BY ReceiptTypes
<1>6. RoomInv' /\ OneOut' /\ NotTwice' /\ WordInv'
  BY <1>3 DEF RoomInv, OneOut, NotTwice, WordInv, Later, Settles, Own, Receipt
<1>7. PoemInv'
  <2>1. focus \in OwnAccepted
    BY <1>2, <1>4 DEF OwnAccepted, Records, Own
  <2>2. OwnAccepted' = OwnAccepted
    BY <1>3 DEF OwnAccepted, Records
  <2>3. \A i \in done : room[i].kind = "accepted" => i = focus
    <3> SUFFICES ASSUME NEW i \in done, room[i].kind = "accepted" PROVE i = focus
      OBVIOUS
    <3>1. i \in OwnAccepted
      BY DEF PoemInv, OwnAccepted, Records, Own
    <3> QED BY <2>1, <3>1, OneAccepted
  <2>4. \A i \in done : room[i].kind = "accepted" =>
            version' = room[i].version /\ hash' = room[i].version /\ previous' = Self
    BY <1>1, <1>4, <2>3 DEF PoemInv
  <2> QED BY <1>3, <2>1, <2>2, <2>4 DEF PoemInv, Own, Receipt
<1>8. RunInv'
  BY <1>1, <1>3, <1>4, ReceiptGoesOn DEF Applying
<1> QED BY <1>5, <1>6, <1>7, <1>8

LEMMA ProgressIInv == ASSUME IInv, CommitProgress PROVE IInv'
<1> USE DEF IInv
<1>1. Commit("progress") /\ UNCHANGED <<version, hash, previous, word, place, focus, known, done, room>>
  BY DEF CommitProgress, poemVars, requestVars, readVars, worldVars
<1>2. RunInv'
  BY <1>1, ReceiptGoesOn DEF Applying
<1>3. TypeOK'
  BY ReceiptTypes
<1> QED BY <1>1, <1>2, <1>3, Quiet

LEMMA DoneIInv == ASSUME IInv, CommitDone PROVE IInv'
<1> USE DEF IInv
<1>1. Commit("done") /\ done' = done \cup {focus}
      /\ UNCHANGED <<version, hash, previous, word, place, focus, known, room>>
  BY DEF CommitDone, poemVars, requestVars, worldVars
<1>2. place = "receipts" /\ ReceiptInv /\ todo' = <<>> /\ \A d : Left(d) => d = "done"
  BY <1>1, CommitPlace
<1>3. TypeOK'
  BY ReceiptTypes
<1>4. RoomInv' /\ OneOut' /\ NotTwice' /\ WordInv'
  BY <1>1 DEF RoomInv, OneOut, NotTwice, WordInv, Later, Settles, Own, Receipt
<1>5. PoemInv'
  <2>1. /\ focus \in 1 .. known /\ Own(focus) /\ Receipt(focus)
        /\ word[room[focus].id].status = room[focus].kind
        /\ room[focus].kind = "accepted" =>
              version = room[focus].version /\ hash = room[focus].version /\ previous = Self
    BY <1>2 DEF ReceiptInv
  <2>2. OwnAccepted' = OwnAccepted
    BY <1>1 DEF OwnAccepted, Records
  <2> QED BY <1>1, <2>1, <2>2 DEF PoemInv, Own, Receipt
<1>6. RunInv'
  BY <1>1, <1>2 DEF RunInv
<1> QED BY <1>3, <1>4, <1>5, <1>6

\* A decision follows when all that was read is applied, and leads to a word only while
\* none has been accepted.
LEMMA SyncIInv == ASSUME IInv, Sync PROVE IInv'
<1> USE DEF IInv
<1>1. /\ Unprocessed = {} /\ todo' = <<>> /\ place' = "deciding"
      /\ UNCHANGED <<version, hash, previous, word, known, done, room>>
  BY DEF Sync, ReceiptsDone, Run, poemVars, requestVars, readVars, worldVars
<1>2. AllApplied
  BY <1>1 DEF AllApplied, Unprocessed, Records, Own, Receipt
<1>3. RunInv'
  BY <1>1, <1>2 DEF RunInv, AllApplied, Own, Receipt
<1>4. TypeOK'
  BY CycleTypes
<1> QED BY <1>1, <1>3, <1>4, Quiet

LEMMA NoneAccepted ==
  ASSUME IInv, AllApplied, previous # Self
  PROVE  OwnAccepted = {} /\ version = 0
<1> USE DEF IInv
<1>1. ASSUME NEW i \in OwnAccepted PROVE FALSE
  <2>1. i \in 1 .. known /\ Own(i) /\ Receipt(i) /\ room[i].kind = "accepted"
    BY DEF OwnAccepted, Records, Own, Receipt
  <2>2. i \in done
    BY <2>1 DEF AllApplied
  <2> QED BY <2>1, <2>2 DEF PoemInv
<1> QED BY <1>1 DEF PoemInv

LEMMA RepostIInv == ASSUME IInv, Repost PROVE IInv'
<1> USE DEF IInv
<1>1. /\ place = "deciding" /\ todo' = <<"wordPost">> /\ place' = "acting" /\ focus' = Pending
      /\ UNCHANGED <<version, hash, previous, word, known, done, room>>
  BY DEF Repost, Deciding, Run, poemVars, requestVars, readVars, worldVars
<1>2. AllApplied
  BY <1>1 DEF RunInv
<1>3. Pending \in DOMAIN word /\ word[Pending].status = "pending" /\ word[Pending].version = version
  BY PendingIsPending DEF Repost
<1>4. version = 0
  BY <1>3 DEF WordInv
<1>5. RunInv'
  BY <1>1, <1>2, <1>3, <1>4 DEF RunInv, WordToPost, AllApplied, Own, Receipt
<1>6. TypeOK'
  BY CycleTypes
<1> QED BY <1>1, <1>5, <1>6, Quiet

LEMMA ProposeIInv == ASSUME IInv, DecideToPropose PROVE IInv'
<1> USE DEF IInv
<1>1. /\ place = "deciding" /\ Pending = NoWord /\ Legal
      /\ UNCHANGED <<version, hash, previous, word, known, done, room>>
  BY ProposalIsLegal DEF DecideToPropose, Deciding, poemVars, requestVars, readVars, worldVars
<1>2. AllApplied
  BY <1>1 DEF RunInv
<1>3. OwnAccepted = {} /\ version = 0
  BY <1>1, <1>2, NoneAccepted DEF Legal
<1>4. AllRejected
  <2> SUFFICES ASSUME NEW w \in DOMAIN word PROVE word[w].status = "rejected"
    BY DEF AllRejected
  <2>1. word[w].status \in {"pending", "accepted", "rejected"}
    <3> DEFINE R == [version : Version, status : {"pending", "accepted", "rejected"}]
    <3>1. word \in Seq(R) /\ DOMAIN word = 1 .. Len(word)
      BY Basics DEF TypeOK
    <3> HIDE DEF R
    <3>2. word[w] \in R
      BY <3>1
    <3> QED BY <3>2 DEF R
  <2>2. word[w].status # "pending"
    BY <1>1, <1>3, PendingIsPending DEF WordInv
  <2>3. word[w].status # "accepted"
    <3> SUFFICES ASSUME word[w].status = "accepted" PROVE FALSE
      OBVIOUS
    <3>1. PICK r \in 1 .. known : Own(r) /\ room[r].kind = "accepted"
      BY <2>2 DEF WordInv
    <3>2. r \in OwnAccepted
      BY <3>1 DEF OwnAccepted, Records, Own
    <3> QED BY <1>3, <3>2
  <2> QED BY <2>1, <2>2, <2>3
<1>5. TypeOK'
  BY CycleTypes
<1>6. RunInv'
  <2>1. \/ EndCycle
        \/ Len(word) < MaxWords /\ Run("acting", <<"word", "wordPost">>, Len(word) + 1)
    BY DEF DecideToPropose
  <2>2. CASE EndCycle
    BY <2>2 DEF EndCycle, Run, RunInv
  <2>3. CASE Len(word) < MaxWords /\ Run("acting", <<"word", "wordPost">>, Len(word) + 1)
    <3>1. /\ place' = "acting" /\ todo' = <<"word", "wordPost">> /\ focus' = Len(word) + 1
          /\ Len(word) + 1 <= MaxWords
      BY <2>3, Basics, Bounds DEF Run
    <3>2. WordToMake'
      BY <1>1, <1>4, <3>1 DEF WordToMake, AllRejected
    <3>3. AllApplied'
      BY <1>1, <1>2 DEF AllApplied, Own, Receipt
    <3> QED BY <1>1, <1>3, <3>1, <3>2, <3>3 DEF RunInv
  <2> QED BY <2>1, <2>2, <2>3
<1> QED BY <1>1, <1>5, <1>6, Quiet

LEMMA WordIInv == ASSUME IInv, CommitWord PROVE IInv'
<1> USE DEF IInv
<1>1. Commit("word") /\ word' = Append(word, [version |-> version, status |-> "pending"])
      /\ UNCHANGED <<version, hash, previous, place, focus, known, done, room>>
  BY DEF CommitWord, poemVars, readVars, worldVars
<1>2. place = "acting" /\ WordToMake /\ version = 0 /\ AllApplied
  BY <1>1, CommitPlace DEF RunInv
<1>3. todo' = <<"wordPost">>
  BY <1>1, <1>2 DEF Commit, WordToMake
<1>4. /\ DOMAIN word' = 1 .. (Len(word) + 1) /\ DOMAIN word = 1 .. Len(word) /\ Len(word) \in Nat
      /\ \A w \in DOMAIN word : word'[w] = word[w]
      /\ word'[Len(word) + 1] = [version |-> version, status |-> "pending"]
  BY <1>1, Basics DEF TypeOK
<1>5. TypeOK'
  BY CycleTypes
<1>6. RoomInv' /\ OneOut' /\ NotTwice'
  <2>1. \A i \in 1 .. Len(room) : Own(i) => room[i].id \in DOMAIN word'
    BY <1>4 DEF RoomInv
  <2>2. RoomInv'
    BY <1>1, <2>1 DEF RoomInv, Own, Receipt
  <2>3. OneOut'
    BY <1>1 DEF OneOut, Later, Settles, Own
  <2>4. NotTwice'
    BY <1>1 DEF NotTwice, Later, Settles, Own
  <2> QED BY <2>2, <2>3, <2>4
<1>7. WordInv'
  <2>1. \A w \in DOMAIN word : word[w].status = "rejected" /\ word[w].version = 0
    BY <1>2 DEF WordToMake, AllRejected, WordInv
  <2>2. \A w \in DOMAIN word' : word'[w].version = 0
    BY <1>2, <1>4, <2>1
  <2>3. \A a, b \in DOMAIN word' : a < b => word'[a].status = "rejected"
    BY <1>4, <2>1
  <2>4. \A w \in DOMAIN word' : word'[w].status # "pending" =>
          \E r \in 1 .. known : Own(r) /\ room[r].id = w /\ room[r].kind = word'[w].status
    <3> SUFFICES ASSUME NEW w \in DOMAIN word', word'[w].status # "pending"
                 PROVE  \E r \in 1 .. known : Own(r) /\ room[r].id = w /\ room[r].kind = word'[w].status
      OBVIOUS
    <3>1. w \in DOMAIN word /\ word'[w] = word[w]
      BY <1>4
    <3> QED BY <3>1 DEF WordInv
  <2> QED BY <1>1, <2>2, <2>3, <2>4 DEF WordInv, Own
<1>8. PoemInv'
  <2>1. \A i \in done : i \in 1 .. Len(room) /\ word'[room[i].id] = word[room[i].id]
    BY <1>4, Basics DEF PoemInv, RoomInv
  <2>2. OwnAccepted' = OwnAccepted
    BY <1>1 DEF OwnAccepted, Records
  <2> QED BY <1>1, <2>1, <2>2 DEF PoemInv, Own, Receipt
<1>9. RunInv'
  <2>1. focus = Len(word) + 1
    BY <1>2 DEF WordToMake
  <2>2. WordToPost'
    BY <1>1, <1>3, <1>4, <2>1 DEF WordToPost
  <2>3. AllApplied'
    BY <1>1, <1>2 DEF AllApplied, Own, Receipt
  <2> QED BY <1>1, <1>2, <2>2, <2>3 DEF RunInv
<1> QED BY <1>5, <1>6, <1>7, <1>8, <1>9

\* A word is posted when all others have been rejected.
LEMMA PostIInv == ASSUME IInv, PostWord PROVE IInv'
<1> USE DEF IInv
<1>1. /\ todo # <<>> /\ Head(todo) = "wordPost" /\ place' = "idle" /\ todo' = <<>>
      /\ UNCHANGED <<poemVars, word, known, done>> /\ UNCHANGED <<version, hash, previous>>
  BY DEF PostWord, EndCycle, Run, poemVars, requestVars, readVars
<1>2. place = "acting"
  BY <1>1 DEF RunInv, TypeOK, ReceiptInv
<1>3. WordToPost /\ version = 0
  BY <1>1, <1>2 DEF RunInv, WordToMake
<1>4. TypeOK'
  BY CycleTypes
<1>5. RunInv'
  BY <1>1 DEF RunInv
<1>6. CASE room' = room
  BY <1>1, <1>4, <1>5, <1>6, Quiet
<1>7. CASE room' # room
  <2> DEFINE x == [kind |-> "word", by |-> Self, id |-> focus, version |-> version]
  <2>1. Len(room) < MaxRoom /\ room' = Append(room, x)
    BY <1>7 DEF PostWord, Put
  <2>2. focus \in DOMAIN word /\ focus \in 0 .. MaxWords /\ word[focus].status = "pending"
    BY <1>3, Basics, Bounds DEF WordToPost, TypeOK
  <2>3. x \in Record
    BY <2>2 DEF Record, Member, TypeOK
  <2>4. x.kind = "word" /\ x.by = Self /\ x.id = focus /\ x.version = 0
    BY <1>3
  <2> HIDE DEF x
  <2>5. WordInv' /\ PoemInv'
    BY <1>1, <2>1, <2>3, RoomGrows
  <2>6. /\ Len(room') = Len(room) + 1 /\ Len(room) \in Nat
        /\ \A i \in 1 .. Len(room) : room'[i] = room[i]
        /\ room'[Len(room) + 1] = x
    BY <2>1, <2>3, Arrival, Basics
  <2>7. RoomInv'
    <3>1. \A i \in 1 .. Len(room') :
            /\ room'[i].kind = "word" => room'[i].by = Self /\ room'[i].version = 0
            /\ room'[i].kind \in ChatKinds => room'[i].by # Self
            /\ room'[i].kind = "accepted" => room'[i].version # 0
            /\ room'[i].by = Self => room'[i].id \in DOMAIN word
      <4> SUFFICES ASSUME NEW i \in 1 .. Len(room')
                   PROVE  /\ room'[i].kind = "word" => room'[i].by = Self /\ room'[i].version = 0
                          /\ room'[i].kind \in ChatKinds => room'[i].by # Self
                          /\ room'[i].kind = "accepted" => room'[i].version # 0
                          /\ room'[i].by = Self => room'[i].id \in DOMAIN word
        OBVIOUS
      <4>1. CASE i = Len(room) + 1
        BY <2>2, <2>4, <2>6, <4>1 DEF ChatKinds
      <4>2. CASE i # Len(room) + 1
        <5>1. i \in 1 .. Len(room) /\ room'[i] = room[i]
          BY <2>6, <4>2
        <5> QED BY <5>1 DEF RoomInv, Own
      <4> QED BY <4>1, <4>2
    <3>2. \A i \in 1 .. Len(room') : room'[i].kind \in {"accepted", "rejected"} =>
            i \in 1 .. Len(room) /\ room'[i] = room[i]
      BY <2>4, <2>6
    <3>3. \A i, j \in 1 .. Len(room') :
            room'[i].by = Self /\ room'[j].by = Self /\ room'[i].kind \in {"accepted", "rejected"}
            /\ room'[j].kind \in {"accepted", "rejected"} /\ room'[i].id = room'[j].id => i = j
      <4> SUFFICES ASSUME NEW i \in 1 .. Len(room'), NEW j \in 1 .. Len(room'),
                          room'[i].by = Self, room'[j].by = Self,
                          room'[i].kind \in {"accepted", "rejected"},
                          room'[j].kind \in {"accepted", "rejected"}, room'[i].id = room'[j].id
                   PROVE  i = j
        OBVIOUS
      <4>1. /\ i \in 1 .. Len(room) /\ room'[i] = room[i]
            /\ j \in 1 .. Len(room) /\ room'[j] = room[j]
        BY <3>2
      <4> QED BY <4>1 DEF RoomInv, Own, Receipt
    <3> QED BY <1>1, <3>1, <3>3 DEF RoomInv, Own, Receipt
  \* What was posted before for another request has been rejected.
  <2>8. ASSUME NEW i \in 1 .. Len(room), room[i].kind = "word", room[i].id # focus
        PROVE  \E r \in 1 .. Len(room) : Settles(r, i, "rejected")
    <3>1. room[i].id \in DOMAIN word /\ DOMAIN word = 1 .. Len(word) /\ Len(word) \in Nat
      BY <2>8, Basics DEF RoomInv
    <3>2. ~(focus < room[i].id)
      BY <2>2, <3>1 DEF WordInv
    <3>3. room[i].id < focus
      BY <2>2, <2>8, <3>1, <3>2
    <3>4. word[room[i].id].status = "rejected"
      BY <2>2, <3>1, <3>3 DEF WordInv
    <3>5. PICK r \in 1 .. known : Own(r) /\ room[r].id = room[i].id /\ room[r].kind = "rejected"
      <4>1. \A w \in DOMAIN word : word[w].status # "pending" =>
              \E r \in 1 .. known : Own(r) /\ room[r].id = w /\ room[r].kind = word[w].status
        BY DEF WordInv
      <4> HIDE DEF IInv
      <4> QED BY <3>1, <3>4, <4>1
    <3> QED BY <3>5, Basics DEF Settles
  <2>9. OneOut'
    <3> SUFFICES ASSUME NEW i \in 1 .. Len(room'), NEW j \in 1 .. Len(room'),
                        Later(i, j)', room'[i].version = room'[j].version
                 PROVE  \E r \in 1 .. Len(room') : Settles(r, i, "rejected")' /\ r < j
      BY DEF OneOut
    <3>1. i \in 1 .. Len(room) /\ room'[i] = room[i] /\ room[i].kind = "word" /\ i < j
      BY <2>6 DEF Later
    <3>2. PICK r \in 1 .. Len(room) : Settles(r, i, "rejected") /\ r < j
      <4>1. CASE j = Len(room) + 1
        BY <2>4, <2>6, <2>8, <3>1, <4>1 DEF Later
      <4>2. CASE j # Len(room) + 1
        <5>1. j \in 1 .. Len(room) /\ room'[j] = room[j]
          BY <2>6, <4>2
        <5> QED BY <3>1, <5>1 DEF OneOut, Later
      <4> QED BY <4>1, <4>2
    <3>3. r \in 1 .. Len(room') /\ Settles(r, i, "rejected")'
      BY <2>6, <3>1, <3>2 DEF Settles, Own
    <3> QED BY <3>2, <3>3
  <2>10. NotTwice'
    <3> SUFFICES ASSUME NEW i \in 1 .. Len(room'), NEW j \in 1 .. Len(room'), NEW r \in 1 .. Len(room'),
                        Later(i, j)', Settles(r, i, "accepted")', r < j
                 PROVE  \E q \in 1 .. j : room'[q].kind = "accepted" /\ r < q /\ room'[q].by # Self
      BY DEF NotTwice, Own
    <3>1. /\ i \in 1 .. Len(room) /\ room'[i] = room[i] /\ room[i].kind = "word" /\ i < j
          /\ r \in 1 .. Len(room) /\ room'[r] = room[r]
      BY <2>6 DEF Later
    <3>2. Settles(r, i, "accepted")
      BY <3>1 DEF Settles, Own
    <3>3. CASE j = Len(room) + 1
      <4>1. room[i].id # focus
        BY <2>4, <2>6, <3>1, <3>3 DEF Later
      <4>2. PICK s \in 1 .. Len(room) : Settles(s, i, "rejected")
        BY <2>8, <3>1, <4>1
      <4>3. r # s /\ Own(r) /\ Own(s) /\ Receipt(r) /\ Receipt(s) /\ room[r].id = room[s].id
        BY <3>2, <4>2 DEF Settles, Receipt
      <4> QED BY <3>1, <4>2, <4>3 DEF RoomInv
    <3>4. CASE j # Len(room) + 1
      <4>1. j \in 1 .. Len(room) /\ room'[j] = room[j]
        <5>1. j \in 1 .. (Len(room) + 1) /\ Len(room) \in Nat
          BY <2>6
        <5>2. j \in 1 .. Len(room)
          BY <3>4, <5>1
        <5> QED BY <2>6, <5>2
      <4>2. PICK q \in 1 .. j : room[q].kind = "accepted" /\ r < q /\ ~Own(q)
        BY <3>1, <3>2, <4>1 DEF NotTwice, Later
      <4>3. q \in 1 .. Len(room) /\ room'[q] = room[q]
        BY <2>6, <4>1
      <4>4. room'[q].kind = "accepted" /\ r < q /\ room'[q].by # Self
        BY <4>2, <4>3, Zenon DEF Own
      <4> QED BY <4>4
    <3> QED BY <3>3, <3>4
  <2> QED BY <1>4, <1>5, <2>5, <2>7, <2>9, <2>10
<1> QED BY <1>6, <1>7

LEMMA EndsIInv ==
  ASSUME IInv, Complete \/ Announce \/ DecideToWait \/ DecideToCoordinate \/ Crash
  PROVE  IInv'
<1>1. /\ place' = "idle" /\ todo' = <<>>
      /\ UNCHANGED <<version, hash, previous, word, known, done, room>>
  BY DEF Complete, Announce, DecideToWait, DecideToCoordinate, Crash, EndCycle, Run, poemVars,
         requestVars, readVars, worldVars
<1>2. RunInv'
  BY <1>1 DEF RunInv
<1>3. TypeOK'
  BY CycleTypes DEF IInv
<1> QED BY <1>1, <1>2, <1>3, Quiet

\* A record that is no word, and a receipt of Saruku's only for a word that had none.
LEMMA WorldIInv == ASSUME IInv, World PROVE IInv'
<1> USE DEF IInv
<1>1. TypeOK'
  BY WorldTypes
<1>2. CASE TimePasses \/ WaitEnds
  <2>1. UNCHANGED <<version, hash, previous, word, known, done, room, place, todo, focus>>
    BY <1>2 DEF TimePasses, WaitEnds, poemVars, requestVars, readVars, worldVars, runVars
  <2>2. RunInv'
    BY <2>1 DEF RunInv, ReceiptInv, AllApplied, WordToMake, WordToPost, AllRejected, Own, Receipt, Left
  <2> QED BY <1>1, <2>1, <2>2, Quiet
<1>3. ASSUME NEW x \in Record, Len(room) < MaxRoom, room' = Append(room, x),
             UNCHANGED <<poemVars, requestVars, readVars, runVars>>, x.kind # "word",
             x.kind \in ChatKinds => x.by # Self, x.kind = "accepted" => x.version # 0,
             x.by = Self => x.id \in DOMAIN word /\ Answer(x.id) = {}
      PROVE  IInv'
  <2>1. UNCHANGED <<poemVars, word, known, done>> /\ UNCHANGED runVars
    BY <1>3 DEF requestVars, readVars
  <2>2. WordInv' /\ PoemInv' /\ RunInv' /\ OneOut' /\ NotTwice'
    BY <1>3, <2>1, RoomGrows
  <2>3. /\ Len(room') = Len(room) + 1 /\ Len(room) \in Nat /\ DOMAIN room = 1 .. Len(room)
        /\ \A i \in 1 .. Len(room) : room'[i] = room[i]
        /\ room'[Len(room) + 1] = x
    BY <1>3, Arrival, Basics
  <2>4. \A i \in 1 .. Len(room') :
          /\ room'[i].kind = "word" => room'[i].by = Self /\ room'[i].version = 0
          /\ room'[i].kind \in ChatKinds => room'[i].by # Self
          /\ room'[i].kind = "accepted" => room'[i].version # 0
          /\ room'[i].by = Self => room'[i].id \in DOMAIN word
    <3> SUFFICES ASSUME NEW i \in 1 .. Len(room')
                 PROVE  /\ room'[i].kind = "word" => room'[i].by = Self /\ room'[i].version = 0
                        /\ room'[i].kind \in ChatKinds => room'[i].by # Self
                        /\ room'[i].kind = "accepted" => room'[i].version # 0
                        /\ room'[i].by = Self => room'[i].id \in DOMAIN word
      OBVIOUS
    <3>1. CASE i = Len(room) + 1
      BY <1>3, <2>3, <3>1
    <3>2. CASE i # Len(room) + 1
      <4>1. i \in 1 .. Len(room) /\ room'[i] = room[i]
        BY <2>3, <3>2
      <4> QED BY <4>1 DEF RoomInv, Own
    <3> QED BY <3>1, <3>2
  <2>5. \A i, j \in 1 .. Len(room') :
          room'[i].by = Self /\ room'[j].by = Self /\ room'[i].kind \in {"accepted", "rejected"}
          /\ room'[j].kind \in {"accepted", "rejected"} /\ room'[i].id = room'[j].id => i = j
    <3> SUFFICES ASSUME NEW i \in 1 .. Len(room'), NEW j \in 1 .. Len(room'),
                        room'[i].by = Self, room'[j].by = Self,
                        room'[i].kind \in {"accepted", "rejected"},
                        room'[j].kind \in {"accepted", "rejected"}, room'[i].id = room'[j].id, i # j
                 PROVE  FALSE
      OBVIOUS
    <3>1. CASE i \in 1 .. Len(room) /\ j \in 1 .. Len(room)
      BY <2>3, <3>1 DEF RoomInv, Own, Receipt
    <3>2. CASE i = Len(room) + 1 /\ j \in 1 .. Len(room)
      <4>1. j \in Answer(x.id)
        BY <2>3, <3>2 DEF Answer
      <4> QED BY <1>3, <2>3, <3>2, <4>1
    <3>3. CASE j = Len(room) + 1 /\ i \in 1 .. Len(room)
      <4>1. i \in Answer(x.id)
        BY <2>3, <3>3 DEF Answer
      <4> QED BY <1>3, <2>3, <3>3, <4>1
    <3> QED BY <2>3, <3>1, <3>2, <3>3
  <2>6. RoomInv'
    BY <2>1, <2>4, <2>5 DEF RoomInv, Own, Receipt
  <2> QED BY <1>1, <2>2, <2>6
<1> HIDE DEF IInv
<1>4. ASSUME NEW p \in Peer, PeerContributes(p) PROVE IInv'
  <2> DEFINE x == [kind |-> "accepted", by |-> p, id |-> NoWord, version |-> Len(poem')]
  <2>1. Len(poem') \in Version /\ Len(poem') # 0
    BY <1>4, Bounds DEF PeerContributes, Completed, IInv, TypeOK, Member, Version
  <2>2. x \in Record
    BY <2>1, Bounds DEF Record, Member, NoWord
  <2>3. x.kind = "accepted" /\ x.by # Self /\ x.version # 0
    BY <2>1
  <2>4. /\ Len(room) < MaxRoom /\ room' = Append(room, x)
        /\ UNCHANGED <<poemVars, requestVars, readVars, runVars>>
    BY <1>4 DEF PeerContributes, Say
  <2> HIDE DEF x
  <2> QED BY <1>3, <2>2, <2>3, <2>4 DEF ChatKinds
<1>5. ASSUME NEW p \in Peer, NEW kind \in ChatKinds, PeerSpeaks(p, kind) PROVE IInv'
  <2> DEFINE x == [kind |-> kind, by |-> p, id |-> NoWord, version |-> 0]
  <2>1. x \in Record
    BY Bounds DEF Record, Member, NoWord, Version
  <2>2. x.kind \notin {"word", "accepted"} /\ x.by # Self
    BY DEF ChatKinds
  <2>3. /\ Len(room) < MaxRoom /\ room' = Append(room, x)
        /\ UNCHANGED <<poemVars, requestVars, readVars, runVars>>
    BY <1>5 DEF PeerSpeaks, Say
  <2> HIDE DEF x
  <2> QED BY <1>3, <2>1, <2>2, <2>3
<1>6. CASE Judge
  <2> DEFINE w == room[Min(Unanswered)]
  <2>1. /\ Min(Unanswered) \in 1 .. Len(room) /\ w.kind = "word" /\ Answer(w.id) = {}
    <3>1. Unanswered \subseteq Nat
      BY Basics DEF Unanswered, Records, IInv
    <3>2. Min(Unanswered) \in Unanswered
      BY <1>6, <3>1, MinIsLeast DEF Judge
    <3> QED BY <3>2 DEF Unanswered, Records
  <2>2. w \in Record /\ w.by = Self /\ w.id \in DOMAIN word /\ w.id \in 0 .. MaxWords
    BY <2>1, Basics DEF IInv, RoomInv, Own, Record
  <2> HIDE DEF w
  <2>3. UNCHANGED <<poemVars, requestVars, readVars, runVars>>
    BY <1>6 DEF Judge
  <2>4. CASE Say("rejected", Self, w.id, 0)
    <3> DEFINE x == [kind |-> "rejected", by |-> Self, id |-> w.id, version |-> 0]
    <3>1. x \in Record
      BY <2>2, Bounds DEF Record, Member, Version
    <3>2. x.kind = "rejected" /\ x.id = w.id
      BY <2>2
    <3>3. Len(room) < MaxRoom /\ room' = Append(room, x)
      BY <2>4 DEF Say
    <3> HIDE DEF x
    <3> QED BY <1>3, <2>1, <2>2, <2>3, <3>1, <3>2, <3>3 DEF ChatKinds
  <2>5. CASE ~Completed /\ poem' = Append(poem, Self) /\ Say("accepted", Self, w.id, Len(poem'))
    <3> DEFINE x == [kind |-> "accepted", by |-> Self, id |-> w.id, version |-> Len(poem')]
    <3>1. Len(poem') \in Version /\ Len(poem') # 0
      BY <2>5, Bounds DEF Completed, IInv, TypeOK, Member, Version
    <3>2. x \in Record
      BY <2>2, <3>1 DEF Record, Member
    <3>3. x.kind = "accepted" /\ x.id = w.id /\ x.version # 0
      BY <3>1
    <3>4. Len(room) < MaxRoom /\ room' = Append(room, x)
      BY <2>5 DEF Say
    <3> HIDE DEF x
    <3> QED BY <1>3, <2>1, <2>2, <2>3, <3>2, <3>3, <3>4 DEF ChatKinds
  <2> QED BY <1>6, <2>4, <2>5 DEF Judge, w
<1> QED BY <1>2, <1>4, <1>5, <1>6 DEF World

-----------------------------------------------------------------------------
\* The results.

LEMMA InitIInv == Init => IInv
<1> SUFFICES ASSUME Init PROVE IInv
  OBVIOUS
<1>1. /\ room = <<>> /\ word = <<>> /\ todo = <<>> /\ poem = <<>> /\ known = 0 /\ done = {}
      /\ version = 0 /\ hash = 0 /\ place = "idle" /\ Len(room) = 0 /\ Len(word) = 0 /\ Len(poem) = 0
  BY DEF Init
<1>2. TypeOK
  <2>1. /\ 0 \in Version /\ 0 \in Stage /\ 0 \in 0 .. MaxCrashes /\ 0 \in 0 .. MaxAnalysis
        /\ Len(word) <= MaxWords /\ Len(room) <= MaxRoom /\ Len(poem) <= PoemLength
    BY <1>1, Bounds DEF Version, Stage
  <2>2. /\ word \in Seq([version : Version, status : {"pending", "accepted", "rejected"}])
        /\ room \in Seq(Record) /\ todo \in Seq(Commits) /\ poem \in Seq(Member)
    BY <1>1
  <2>3. /\ phase \in {"WRITING", "POEM_COMPLETE"} /\ previous \in Member \cup {Nobody}
        /\ note \subseteq Key /\ intro \in BOOLEAN /\ focus \in Nat
        /\ place \in {"idle", "receipts", "deciding", "acting"}
    BY DEF Init, Member
  <2>4. failure \in [version : Version, exhausted : BOOLEAN, repaired : BOOLEAN,
                    emergency : BOOLEAN, infeasible : BOOLEAN]
    BY <2>1 DEF Init, NoFailure
  <2>5. /\ tries \in [1 .. MaxRoom -> 0 .. MaxAnalysis]
        /\ waits \in [1 .. MaxRoom -> [version : Version, over : BOOLEAN] \cup {NoWait}]
    BY <2>1 DEF Init
  <2>6. known \in 0 .. Len(room) /\ done \subseteq 1 .. known /\ parsed \subseteq 1 .. known
    BY <1>1 DEF Init
  <2> QED BY <1>1, <2>1, <2>2, <2>3, <2>4, <2>5, <2>6 DEF Init, TypeOK
<1>3. RoomInv /\ WordInv /\ PoemInv /\ RunInv /\ OneOut /\ NotTwice
  BY <1>1 DEF RoomInv, WordInv, PoemInv, RunInv, OneOut, NotTwice
<1> QED BY <1>2, <1>3 DEF IInv

LEMMA NextIInv == IInv /\ [Next]_vars => IInv'
<1> SUFFICES ASSUME IInv, [Next]_vars PROVE IInv'
  OBVIOUS
<1>1. CASE Daemon
  <2>1. ASSUME NEW upTo \in 0 .. MaxRoom, Read(upTo) PROVE IInv'
    BY <2>1, ReadIInv
  <2>2. CASE Handle
    BY <2>2, HandleIInv
  <2>3. CASE CommitStatus
    BY <2>3, StatusIInv
  <2>4. CASE CommitPoem
    BY <2>4, PoemIInv
  <2>5. CASE CommitProgress
    BY <2>5, ProgressIInv
  <2>6. CASE CommitDone
    BY <2>6, DoneIInv
  <2>7. CASE Complete \/ Announce \/ DecideToWait \/ DecideToCoordinate
    BY <2>7, EndsIInv
  <2>8. CASE Sync
    BY <2>8, SyncIInv
  <2>9. CASE Repost
    BY <2>9, RepostIInv
  <2>10. CASE DecideToPropose
    BY <2>10, ProposeIInv
  <2>11. CASE CommitWord
    BY <2>11, WordIInv
  <2>12. CASE PostWord
    BY <2>12, PostIInv
  <2> QED BY <1>1, <2>1, <2>2, <2>3, <2>4, <2>5, <2>6, <2>7, <2>8, <2>9, <2>10, <2>11, <2>12
          DEF Daemon
<1>2. CASE World
  BY <1>2, WorldIInv
<1>3. CASE Crash
  BY <1>3, EndsIInv
<1>4. CASE UNCHANGED vars
  <2>1. /\ UNCHANGED <<poemVars, requestVars, readVars, mindVars, runVars, worldVars>>
        /\ UNCHANGED <<stage, crashes>>
    BY <1>4 DEF vars
  <2>2. UNCHANGED <<phase, version, hash, previous, word, note, intro, failure, known, done, parsed,
                    tries, waits, place, todo, focus, room, poem, stage, crashes>>
    BY <2>1 DEF poemVars, requestVars, readVars, mindVars, runVars, worldVars
  <2>3. TypeOK'
    BY <2>2 DEF IInv, TypeOK
  <2>4. RunInv'
    BY <2>2 DEF IInv, RunInv, ReceiptInv, AllApplied, WordToMake, WordToPost, AllRejected, Own, Receipt,
                Left
  <2> QED BY <2>2, <2>3, <2>4, Quiet
<1> QED BY <1>1, <1>2, <1>3, <1>4 DEF Next

LEMMA Invariance == Spec => []IInv
  BY InitIInv, NextIInv, PTL DEF Spec

\* Every variable keeps its type, whatever the team, the length of the poem and the number
\* of words, messages and crashes.
THEOREM TypeCorrect == Spec => []TypeOK
<1>1. IInv => TypeOK
  BY DEF IInv
<1> QED BY <1>1, Invariance, PTL

\* _writing and its receipts: two different words for one version are never in the running
\* together, whatever POST or commit was lost.
THEOREM OneAtATime == Spec => []OneWordOut
<1>1. IInv => OneWordOut
  <2> SUFFICES ASSUME IInv, NEW i \in WordsOut, NEW j \in WordsOut,
                      i < j, room[i].version = room[j].version, room[i].id # room[j].id
               PROVE  \E r \in Answer(room[i].id) : room[r].kind = "rejected" /\ r < j
    BY DEF OneWordOut
  <2>1. PICK r \in 1 .. Len(room) : Settles(r, i, "rejected") /\ r < j
    BY DEF IInv, OneOut, Later, WordsOut, Records
  <2>2. r \in Answer(room[i].id)
    BY <2>1, Basics DEF IInv, Answer, Settles, Own
  <2> QED BY <2>1, <2>2 DEF Settles
<1> QED BY <1>1, Invariance, PTL

\* _writing: after Saruku's own word was accepted it makes no other before a peer has
\* written, not even while the receipt is half applied.
THEOREM NoTwoInARow == Spec => []NeverTwiceInARow
<1>1. IInv => NeverTwiceInARow
  <2> SUFFICES ASSUME IInv, NEW i \in WordsOut, NEW j \in WordsOut, i < j, room[i].id # room[j].id,
                      NEW r \in Answer(room[i].id), room[r].kind = "accepted", r < j
               PROVE  \E q \in Records("accepted", j) : r < q /\ room[q].by # Self
    BY DEF NeverTwiceInARow
  <2>1. r \in 1 .. Len(room) /\ Settles(r, i, "accepted")
    BY Basics DEF IInv, Answer, Settles, Own
  <2>2. PICK q \in 1 .. j : room[q].kind = "accepted" /\ r < q /\ ~Own(q)
    BY <2>1 DEF IInv, NotTwice, Later, WordsOut, Records
  <2> QED BY <2>2 DEF Records, Own
<1> QED BY <1>1, Invariance, PTL

\* _receipts: a decision is taken on one state of the poem, that of the latest of Saruku's
\* accepted words which the room has shown it, never on a receipt that a crash cut short.
THEOREM DecisionsOnOneState == Spec => []DecidesOnOneState
<1>1. IInv => DecidesOnOneState
  <2> SUFFICES ASSUME IInv, place = "deciding"
               PROVE  /\ hash = version
                      /\ IF OwnAccepted = {} THEN version = 0
                           ELSE version = room[Max(OwnAccepted)].version /\ previous = Self
    BY DEF DecidesOnOneState
  <2>1. CASE OwnAccepted = {}
    BY <2>1 DEF IInv, PoemInv
  <2>2. CASE OwnAccepted # {}
    <3>1. PICK r \in OwnAccepted : TRUE
      BY <2>2
    <3>2. r \in Nat /\ r \in 1 .. known /\ Own(r) /\ Receipt(r) /\ room[r].kind = "accepted"
      BY Basics DEF IInv, OwnAccepted, Records, Own, Receipt
    <3>3. r \in done
      BY <3>2 DEF IInv, RunInv, AllApplied
    <3>4. Max(OwnAccepted) = r
      <4>1. \A y \in OwnAccepted : y = r /\ r >= y
        BY <3>2, OneAccepted
      <4> QED BY <4>1 DEF Max
    <3>5. version = room[r].version /\ hash = room[r].version /\ previous = Self
      BY <3>2, <3>3 DEF IInv, PoemInv
    <3> QED BY <2>2, <3>4, <3>5
  <2> QED BY <2>1, <2>2
<1> QED BY <1>1, Invariance, PTL

\* _receipts: the version that Saruku knows moves with its own words only, and its own
\* word makes it the previous contributor for good.  So every word it makes is for the
\* state that the poem started in, and one of them at most is accepted.
OneWordAPoem ==
    /\ \A w \in DOMAIN word : word[w].version = 0
    /\ \A i, j \in OwnAccepted : i = j

THEOREM WritesOnce == Spec => []OneWordAPoem
<1>1. IInv => OneWordAPoem
  BY OneAccepted DEF OneWordAPoem, IInv, WordInv
<1> QED BY <1>1, Invariance, PTL
=============================================================================
