---------------------------- MODULE TeamRoomProofs ----------------------------
(***************************************************************************)
(* Proofs about TeamRoom, and with it about History, for any number of      *)
(* generations, records and crashes.                                        *)
(*                                                                         *)
(* The argument: what is held is never dropped, so a summary that counted   *)
(* gaps when it was made can only be too cautious later; and every record   *)
(* is held under the generation it came from, but for those of an export    *)
(* that names none; these are filed under a generation that is over, and    *)
(* nobody comes to be asked about that any more.  A record is checked only  *)
(* after it is held, and a word that is checked is kept and closes its room *)
(* before the verdict, unless the process dies in between.                  *)
(***************************************************************************)
EXTENDS TeamRoom, WellFoundedInduction, TLAPS

USE HistoryAssumption

-----------------------------------------------------------------------------
\* The inductive invariant.

\* What a call has left to commit, by where it is.
CallInv ==
    /\ place = "idle" => Committed
    /\ batch # {} => place \in {"reading", "repairing", "trusting"}
    /\ due = "reset" => batch = {} /\ place \in {"again", "reading"}
    /\ due = "observe" => place = "reading"
    /\ due \in {"replace", "doubt"} => Repairing
    /\ due = "close" => batch = {} /\ place = "syncing"
    /\ place = "again" => due = "reset" \/ stored # None
    /\ place = "reading" => stored # None \/ batch # {} \/ due = "reset"
    /\ Repairing => stored # None
    /\ place = "repairing" /\ (batch # {} \/ due = "replace") => page.gen = stored
    /\ place = "trusting" => stored < page.gen
    /\ place = "syncing" => asked \in Gen
    /\ verdict = "open" => place = "idle" /\ asked \in Gen

\* Nothing is held, nor about to be, that was not posted, nor under another generation
\* unless it was misfiled.
Posted(g, s) == g < gen \/ (g = gen /\ s <= last)
HeldInv ==
    /\ page.gen <= gen
    /\ \A s \in batch : Posted(page.gen, s)
    /\ \A g \in Gen, s \in Seqs : events[<<g, s>>] # None =>
          Posted(g, s) /\ (events[<<g, s>>] = g \/ <<g, s>> \in misfiled)

\* Only a generation that is over has misfiled records, and a call that asks about the room
\* is about one that has none.
Clean(g) == \A s \in Seqs : <<g, s>> \notin misfiled
MisfiledInv ==
    /\ \A g \in Gen, s \in Seqs : <<g, s>> \in misfiled => g < gen
    /\ stored # None => stored <= gen
    /\ place \in {"again", "reading"} =>
          Clean(page.gen) /\ (stored # None /\ due # "reset" => Clean(stored))
    /\ place = "syncing" => Clean(asked)

\* A summary is right about what it does not list as a gap.
SummaryInv ==
    \A g \in Gen : history[g].from # None =>
        \A s \in history[g].from .. history[g].highest : s \in history[g].gaps \/ events[<<g, s>>] # None

\* What is checked was held, and a word among it is kept; a room with a word that is kept
\* is closed, or is about to be, or there was a crash.
SourceInv ==
    \A g \in Gen, s \in Seqs :
        /\ <<g, s>> \in checked => events[<<g, s>>] # None
        /\ <<g, s>> \in checked /\ <<g, s>> \in words => <<g, s>> \in sources
        /\ <<g, s>> \in sources => g \in closed \/ crashes > 0 \/ (due = "close" /\ asked = g)

IInv == TypeOK /\ CallInv /\ HeldInv /\ MisfiledInv /\ SummaryInv /\ SourceInv /\ OpenIsUnfrozen

-----------------------------------------------------------------------------
\* Sets of sequence numbers.

LEMMA Bounds ==
  /\ MaxGen \in Nat /\ MaxSeq \in Nat /\ MaxCrashes \in Nat /\ MaxGen >= 1 /\ MaxSeq >= 1
  /\ 1 \in Gen /\ 1 \in Seqs /\ None \notin Gen /\ None \notin Seqs /\ None \in Mark /\ 0 \in Mark
  /\ Gen \subseteq Nat /\ Seqs \subseteq Mark /\ Mark \subseteq Nat
  BY DEF Gen, Seqs, Mark, None

LEMMA LeastExists ==
  ASSUME NEW S \in SUBSET Nat, S # {}
  PROVE  \E x \in S : \A y \in S : x <= y
<1> DEFINE Less == {ss \in Nat \X Nat : ss[1] < ss[2]}
<1>1. IsWellFoundedOn(Less, Nat)
  BY NatLessThanWellFounded, Zenon DEF OpToRel
<1>2. \A x, y \in Nat : <<y, x>> \notin Less => x <= y
  OBVIOUS
<1> HIDE DEF Less
<1>3. PICK x \in S : \A y \in S : <<y, x>> \notin Less
  BY <1>1, WFMin, Zenon
<1> QED BY <1>2, <1>3, Zenon

LEMMA MinIsLeast ==
  ASSUME NEW S \in SUBSET Mark, S # {}
  PROVE  Min(S) \in S /\ \A y \in S : Min(S) <= y
<1>1. S \in SUBSET Nat
  BY Bounds
<1>2. \E x \in S : \A y \in S : x <= y
  BY <1>1, LeastExists
<1> QED BY <1>2 DEF Min

LEMMA MaxIsGreatest ==
  ASSUME NEW S \in SUBSET Mark, S # {}
  PROVE  Max(S) \in S /\ \A y \in S : Max(S) >= y
<1> DEFINE below == {MaxSeq - y : y \in S}
<1>0. \A y \in S : y \in Nat /\ MaxSeq - y \in Nat
  BY Bounds DEF Mark
<1>1. below \in SUBSET Nat /\ below # {}
  BY <1>0
<1>2. PICK n \in below : \A m \in below : n <= m
  BY <1>1, LeastExists
<1>3. PICK x \in S : n = MaxSeq - x
  BY <1>2
<1>4. \A y \in S : x >= y
  <2> SUFFICES ASSUME NEW y \in S PROVE x >= y
    OBVIOUS
  <2>1. MaxSeq - y \in below
    OBVIOUS
  <2>2. MaxSeq - x <= MaxSeq - y
    BY <1>2, <1>3, <2>1
  <2>3. x \in Int /\ y \in Int /\ MaxSeq \in Int
    BY <1>0, Bounds
  <2> QED BY <2>2, <2>3
<1> QED BY <1>4 DEF Max

-----------------------------------------------------------------------------
\* What the server answers, and what observe makes of it.

LEMMA Answers ==
  ASSUME TypeOK, NEW n, NEW p, p \in Pages(n) \/ p \in Export
  PROVE  /\ p.gen = gen /\ p.records \subseteq Seqs /\ p.first \in Mark /\ p.last \in Mark
         /\ \A s \in p.records : s <= last
<1>1. /\ gen \in Gen /\ floor \in Seqs /\ last \in Mark
      /\ \A m : Retained(m) \subseteq Seqs /\ \A s \in Retained(m) : s <= last
  BY Bounds DEF TypeOK, HistoryTypeOK, Retained, Seqs, Mark
<1>2. \A m : \A r \in SUBSET Retained(m) : r # {} => Min(r) \in Mark /\ Max(r) \in Mark
  <2> SUFFICES ASSUME NEW m, NEW r \in SUBSET Retained(m), r # {}
               PROVE  Min(r) \in Mark /\ Max(r) \in Mark
    OBVIOUS
  <2>1. r \in SUBSET Mark
    BY <1>1, Bounds
  <2> QED BY <2>1, MinIsLeast, MaxIsGreatest
<1>3. CASE p = NoAnswer
  BY <1>1, <1>3, Bounds DEF NoAnswer
<1>4. ASSUME NEW m, NEW r \in SUBSET Retained(m), r # {},
             p = [gen |-> gen, records |-> r, first |-> Min(r), last |-> Max(r)]
      PROVE  /\ p.gen = gen /\ p.records \subseteq Seqs /\ p.first \in Mark /\ p.last \in Mark
             /\ \A s \in p.records : s <= last
  BY <1>1, <1>2, <1>4
<1>5. ASSUME NEW r \in SUBSET Retained(n),
             p = [gen |-> gen, records |-> r, first |-> floor, last |-> last]
      PROVE  /\ p.gen = gen /\ p.records \subseteq Seqs /\ p.first \in Mark /\ p.last \in Mark
             /\ \A s \in p.records : s <= last
  BY <1>1, <1>5, Bounds
<1> HIDE DEF Mark, Seqs, Gen, Retained, NoAnswer
<1>6. CASE p \in Export
  <2>1. p = NoAnswer \/ \E r \in (SUBSET Retained(0)) \ {{}} :
            p = [gen |-> gen, records |-> r, first |-> Min(r), last |-> Max(r)]
    BY <1>6, Zenon DEF Export
  <2>2. CASE p # NoAnswer
    <3>1. PICK r \in (SUBSET Retained(0)) \ {{}} :
            p = [gen |-> gen, records |-> r, first |-> Min(r), last |-> Max(r)]
      BY <2>1, <2>2
    <3>2. r \in SUBSET Retained(0) /\ r # {}
      OBVIOUS
    <3> QED BY <1>4, <3>1, <3>2
  <2> QED BY <1>3, <2>2
<1>7. CASE p \in Pages(n)
  <2>1. \/ \E r \in {x \in SUBSET Retained(n) : x = {} => Retained(n) = {}} :
              p = [gen |-> gen, records |-> r, first |-> floor, last |-> last]
        \/ \E r \in (SUBSET Retained(n)) \ {{}} :
              p = [gen |-> gen, records |-> r, first |-> Min(r), last |-> Max(r)]
        \/ p \in IF Retained(n) = {} THEN {NoAnswer} ELSE {}
    BY <1>7, Zenon DEF Pages
  <2>2. ASSUME NEW r \in (SUBSET Retained(n)) \ {{}},
               p = [gen |-> gen, records |-> r, first |-> Min(r), last |-> Max(r)]
        PROVE  /\ p.gen = gen /\ p.records \subseteq Seqs /\ p.first \in Mark /\ p.last \in Mark
               /\ \A s \in p.records : s <= last
    <3>1. r \in SUBSET Retained(n) /\ r # {}
      OBVIOUS
    <3> QED BY <1>4, <2>2, <3>1
  <2>3. ASSUME NEW r \in {x \in SUBSET Retained(n) : x = {} => Retained(n) = {}},
               p = [gen |-> gen, records |-> r, first |-> floor, last |-> last]
        PROVE  /\ p.gen = gen /\ p.records \subseteq Seqs /\ p.first \in Mark /\ p.last \in Mark
               /\ \A s \in p.records : s <= last
    <3>1. r \in SUBSET Retained(n)
      OBVIOUS
    <3> QED BY <1>5, <2>3, <3>1
  <2> QED BY <1>3, <2>1, <2>2, <2>3, Zenon
<1> QED BY <1>6, <1>7

\* A summary made anew lists as a gap whatever is not held of its interval; otherwise the
\* interval and its gaps stay what they were.
Honest(o, h, held) ==
    /\ o \in Summary
    /\ \/ o.from = h.from /\ o.highest = h.highest /\ o.gaps = h.gaps
       \/ o.gaps = (o.from .. o.highest) \ held

LEMMA ObservedFacts ==
  ASSUME NEW h \in Summary, NEW held \in SUBSET Seqs, NEW first \in Mark, NEW through \in Mark
  PROVE  Honest(Observed(h, held, first, through), h, held)
<1> SUFFICES ASSUME NEW o, o = Observed(h, held, first, through) PROVE Honest(o, h, held)
  OBVIOUS
<1> USE DEF Honest
<1> DEFINE seen == [h EXCEPT !.availFrom = IF first = None THEN @ ELSE first,
                             !.availThrough = IF through = None THEN @ ELSE through]
           from == IF seen.availFrom = None THEN Min(held) ELSE seen.availFrom
           highest == IF seen.availThrough = None THEN Max(held) ELSE seen.availThrough
           gaps == (from .. highest) \ held
<1>1. seen \in Summary /\ seen.from = h.from /\ seen.highest = h.highest /\ seen.gaps = h.gaps
  BY DEF Summary
<1>2. CASE held = {} \/ (seen.availFrom # None /\ seen.availThrough = None)
  <2>1. o = seen
    BY <1>2 DEF Observed
  <2> QED BY <1>1, <2>1
<1>3. CASE ~(held = {} \/ (seen.availFrom # None /\ seen.availThrough = None))
  <2>1. o = [seen EXCEPT !.from = from, !.highest = highest, !.gaps = gaps,
                         !.required = gaps # {}]
    BY <1>3 DEF Observed
  <2>2. held \in SUBSET Mark /\ held # {}
    BY <1>3, Bounds
  <2>3. Min(held) \in Seqs /\ Max(held) \in Seqs
    BY <2>2, MinIsLeast, MaxIsGreatest
  <2>4. seen.availFrom \in Mark /\ seen.availThrough \in Mark
    BY <1>1 DEF Summary
  <2>5. from \in Seqs /\ highest \in Mark
    BY <2>3, <2>4, Bounds DEF Mark, Seqs, None
  <2>6. gaps \subseteq Seqs
    BY <2>5, Bounds DEF Mark, Seqs
  <2>7. from \in Mark
    BY <2>5, Bounds
  <2> HIDE DEF seen, from, highest, gaps
  <2>8. o \in Summary
    BY <1>1, <2>1, <2>5, <2>6, <2>7 DEF Summary
  <2>9. o.from = from /\ o.highest = highest /\ o.gaps = gaps
    BY <1>1, <2>1 DEF Summary
  <2> QED BY <2>8, <2>9 DEF gaps
<1> QED BY <1>2, <1>3

-----------------------------------------------------------------------------
\* Steps that change nothing but where the daemon is in a call.

\* The first response, or the one that follows a change of generation.
LEMMA Received ==
  ASSUME IInv, NEW p,
         \/ p \in Pages(cursor) /\ Receive(p)
         \/ p \in Pages(0) /\ Call("reading", p.records, "observe", Seen(p, since), 0)
            /\ stored # None /\ Clean(stored)
  PROVE  /\ batch' \subseteq Seqs /\ page' \in Page /\ since' \in Mark /\ page'.gen = gen
         /\ \A s \in batch' : s <= last
         /\ \/ place' = "again" /\ due' = "reset" /\ batch' = {}
            \/ place' = "reading" /\ due' = "observe" /\ (stored # None \/ batch' # {})
            \/ place' = "reading" /\ due' = "reset" /\ batch' = {}
         /\ place' = "reading" /\ stored # None => Clean(stored) \/ stored = gen
<1> USE DEF IInv
<1>1. /\ p.gen = gen /\ p.records \subseteq Seqs /\ p.first \in Mark /\ p.last \in Mark
      /\ \A s \in p.records : s <= last
  BY Answers
<1>2. gen \in Gen /\ cursor \in Mark /\ since \in Mark
  BY DEF TypeOK, HistoryTypeOK
<1> HIDE DEF Gen, Seqs, Mark
<1>3. \A n : Seen(p, n) \in Page /\ Seen(p, n).gen = gen
  BY <1>1, <1>2, Bounds DEF Seen, RetainedFloor, Page
<1>4. [NoPage EXCEPT !.gen = p.gen] \in Page /\ [NoPage EXCEPT !.gen = p.gen].gen = gen
  BY <1>1, <1>2, Bounds DEF NoPage, Page
<1>5. CASE Receive(p)
  BY <1>1, <1>2, <1>3, <1>4, <1>5, Bounds DEF Receive, Call
<1>6. CASE Call("reading", p.records, "observe", Seen(p, since), 0) /\ stored # None /\ Clean(stored)
  BY <1>1, <1>2, <1>3, <1>6, Bounds DEF Call
<1> QED BY <1>5, <1>6

LEMMA CallOnly ==
  ASSUME IInv, UNCHANGED <<durableVars, roomVars, crashes, sourceVars, words>>, due # "close",
         batch' \subseteq Seqs, page' \in Page, since' \in Mark, due' \in RoomCommits,
         place' \in {"idle", "again", "reading", "repairing", "trusting", "syncing"},
         asked' \in Gen \cup {None}, verdict' \in {"none", "open", "shut"},
         page'.gen <= gen, \A s \in batch' : Posted(page'.gen, s),
         CallInv', MisfiledInv', OpenIsUnfrozen'
  PROVE  IInv'
<1> USE DEF IInv, durableVars, eventVars, roomVars, sourceVars
<1>1. TypeOK'      BY DEF TypeOK, HistoryTypeOK
<1>2. HeldInv'     BY DEF HeldInv, Posted
<1>3. SummaryInv'  BY DEF SummaryInv
<1>4. SourceInv'   BY DEF SourceInv
<1> QED BY <1>1, <1>2, <1>3, <1>4

\* The end of a call.
LEMMA ReturnIInv ==
  ASSUME IInv, UNCHANGED <<durableVars, roomVars, crashes, sourceVars, words>>, due # "close", Return,
         asked' \in Gen \cup {None}, verdict' \in {"none", "open", "shut"},
         verdict' = "open" => asked' \in Gen, OpenIsUnfrozen'
  PROVE  IInv'
<1>1. /\ place' = "idle" /\ batch' = {} /\ due' = "none" /\ page' = NoPage /\ since' = 0
  BY DEF Return, Call
<1>2. NoPage \in Page /\ NoPage.gen = 1 /\ 1 <= gen /\ 0 \in Mark
  BY Bounds DEF NoPage, Page, IInv, TypeOK, HistoryTypeOK, None, Gen
<1>3. CallInv'
  BY <1>1 DEF CallInv, Committed, Repairing
<1>4. MisfiledInv'
  BY <1>1 DEF IInv, MisfiledInv, durableVars, eventVars, roomVars
<1> QED BY <1>1, <1>2, <1>3, <1>4, CallOnly DEF RoomCommits, HistoryCommits

\* A response that is read, for whoever asked.
LEMMA ReceivedIInv ==
  ASSUME IInv, UNCHANGED <<durableVars, roomVars, crashes, sourceVars, words>>, due # "close",
         asked' \in Gen \cup {None}, verdict' \in {"none", "shut"}, NEW p,
         \/ p \in Pages(cursor) /\ Receive(p)
         \/ p \in Pages(0) /\ Call("reading", p.records, "observe", Seen(p, since), 0)
            /\ stored # None /\ Clean(stored)
  PROVE  IInv'
<1>1. /\ batch' \subseteq Seqs /\ page' \in Page /\ since' \in Mark /\ page'.gen = gen
      /\ \A s \in batch' : s <= last
      /\ \/ place' = "again" /\ due' = "reset" /\ batch' = {}
         \/ place' = "reading" /\ due' = "observe" /\ (stored # None \/ batch' # {})
         \/ place' = "reading" /\ due' = "reset" /\ batch' = {}
      /\ place' = "reading" /\ stored # None => Clean(stored) \/ stored = gen
  BY Received
<1>2. page'.gen <= gen /\ \A s \in batch' : Posted(page'.gen, s)
  BY <1>1, Bounds DEF Posted, IInv, TypeOK, HistoryTypeOK, Gen
<1>3. CallInv' /\ OpenIsUnfrozen'
  BY <1>1 DEF CallInv, OpenIsUnfrozen, Committed, Repairing, durableVars
<1>4. MisfiledInv'
  <2>1. gen \in Gen /\ UNCHANGED <<stored, misfiled, gen>>
    BY DEF IInv, TypeOK, HistoryTypeOK, durableVars, eventVars, roomVars
  <2>2. Clean(gen)
    BY <2>1 DEF IInv, MisfiledInv, Clean, Gen
  <2> QED BY <1>1, <2>1, <2>2 DEF IInv, MisfiledInv, Clean
<1> QED BY <1>1, <1>2, <1>3, <1>4, CallOnly DEF RoomCommits, HistoryCommits

LEMMA ReadingIInv ==
  ASSUME IInv, (\E g \in Gen : Ask(g)) \/ Read \/ ReadDone \/ WrongGeneration \/ Sync \/ CycleEnds
               \/ (ReadAgain /\ Elsewhere)
  PROVE  IInv'
<1> USE DEF IInv, Elsewhere, historyVars, sourceVars
<1>0. /\ asked \in Gen \cup {None} /\ verdict \in {"none", "open", "shut"} /\ due \in RoomCommits
      /\ batch \subseteq Seqs /\ page \in Page /\ since \in Mark /\ page.gen <= gen
      /\ \A s \in batch : Posted(page.gen, s)
      /\ place \in {"idle", "again", "reading", "repairing", "trusting", "syncing"}
  BY DEF TypeOK, HistoryTypeOK, HeldInv
<1>1. ASSUME NEW g \in Gen, Ask(g) PROVE IInv'
  <2>1. due # "close" /\ asked' = g
    BY <1>1 DEF Ask, CallInv, Committed
  <2>2. CASE verdict' = "shut" /\ UNCHANGED <<callVars, commitVars>>
    <3>1. CallInv' /\ OpenIsUnfrozen'
      BY <1>1, <2>1, <2>2 DEF Ask, CallInv, Committed, OpenIsUnfrozen, Repairing, callVars, commitVars,
                             durableVars
    <3>3. MisfiledInv'
      BY <1>1, <2>2 DEF Ask, MisfiledInv, Clean, callVars, commitVars, durableVars, eventVars, roomVars
    <3>2. batch' = batch /\ page' = page /\ since' = since /\ due' = due /\ place' = place
      BY <2>2 DEF callVars, commitVars
    <3> QED BY <1>0, <1>1, <2>1, <2>2, <3>1, <3>2, <3>3, CallOnly DEF Ask
  <2>3. ASSUME verdict' = "none", NEW p \in Pages(cursor), Receive(p) PROVE IInv'
    BY <1>1, <2>1, <2>3, ReceivedIInv DEF Ask
  <2> QED BY <1>1, <2>2, <2>3 DEF Ask
<1>2. CASE Read
  <2>1. due # "close" /\ verdict # "open" /\ UNCHANGED <<asked, verdict>>
    BY <1>2, Bounds DEF Read, CallInv, Committed
  <2>2. ASSUME NEW p \in Pages(cursor), Receive(p) PROVE IInv'
    BY <1>0, <1>2, <2>1, <2>2, ReceivedIInv DEF Read
  <2> QED BY <1>2, <2>2 DEF Read
<1>3. CASE ReadDone
  <2>1. due # "close" /\ verdict # "open" /\ UNCHANGED <<asked, verdict>>
    BY <1>3, Bounds DEF ReadDone, CallInv, Committed
  <2> QED BY <1>0, <1>3, <2>1, ReturnIInv DEF ReadDone, OpenIsUnfrozen
<1>4. CASE WrongGeneration
  <2>1. due # "close" /\ verdict' = "shut" /\ UNCHANGED asked /\ Return
    BY <1>4 DEF WrongGeneration, CallInv, Committed, Answer
  <2> QED BY <1>0, <1>4, <2>1, ReturnIInv DEF WrongGeneration, OpenIsUnfrozen
<1>5. CASE Sync
  <2>1. /\ due # "close" /\ verdict # "open" /\ UNCHANGED <<asked, verdict>>
        /\ asked # None
    BY <1>5 DEF Sync, CallInv, Committed
  <2>2. /\ place' = "syncing" /\ batch' = {} /\ due' = "none" /\ page' = NoPage /\ since' = 0
    BY <1>5 DEF Sync, Call
  <2>3. CallInv' /\ OpenIsUnfrozen'
    BY <1>0, <2>1, <2>2 DEF CallInv, OpenIsUnfrozen, Committed, Repairing
  <2>5. MisfiledInv'
    BY <1>5, <2>1, <2>2 DEF Sync, MisfiledInv, Clean, Committed, durableVars, eventVars, roomVars
  <2>4. NoPage \in Page /\ NoPage.gen = 1 /\ 1 <= gen /\ 0 \in Mark
    BY Bounds DEF NoPage, Page, TypeOK, HistoryTypeOK, None, Gen
  <2> QED BY <1>0, <1>5, <2>1, <2>2, <2>3, <2>4, <2>5, CallOnly DEF Sync, RoomCommits, HistoryCommits
<1>6. CASE CycleEnds
  <2>1. due # "close" /\ asked' = None /\ verdict' = "none"
    BY <1>6 DEF CycleEnds, CallInv, Committed
  <2>2. /\ UNCHANGED <<durableVars, roomVars, crashes, sourceVars, words>>
        /\ batch' = batch /\ page' = page /\ since' = since /\ due' = due /\ place' = place
    BY <1>6 DEF CycleEnds, callVars, commitVars
  <2>3. CallInv' /\ OpenIsUnfrozen'
    BY <1>6, <2>1, <2>2 DEF CycleEnds, CallInv, Committed, OpenIsUnfrozen, Repairing
  <2>4. MisfiledInv'
    BY <1>6, <2>2 DEF CycleEnds, MisfiledInv, Clean, durableVars, eventVars, roomVars
  <2> QED BY <1>0, <2>1, <2>2, <2>3, <2>4, CallOnly
<1>7. CASE ReadAgain /\ Elsewhere
  <2>1. due # "close" /\ verdict # "open" /\ UNCHANGED <<asked, verdict>>
    BY <1>7 DEF ReadAgain, CallInv, Committed
  <2>2. PICK p \in Pages(0) : Call("reading", p.records, "observe", Seen(p, since), 0)
    BY <1>7 DEF ReadAgain
  <2>3. stored # None /\ Clean(stored)
    BY <1>7 DEF ReadAgain, CallInv, MisfiledInv, Committed
  <2> QED BY <1>0, <1>7, <2>1, <2>2, <2>3, ReceivedIInv DEF ReadAgain
<1> QED BY <1>1, <1>2, <1>3, <1>4, <1>5, <1>6, <1>7

-----------------------------------------------------------------------------
\* Commits to the history.

\* In a call nothing is taken for open yet.
LEMMA NotOpen ==
  ASSUME IInv, place # "idle" \/ asked = None
  PROVE  verdict # "open"
  BY Bounds DEF IInv, CallInv

LEMMA CommitResetIInv == IInv /\ CommitReset /\ Elsewhere => IInv'
<1> SUFFICES ASSUME IInv, CommitReset, Elsewhere PROVE IInv'
  OBVIOUS
<1> USE DEF IInv, Elsewhere, sourceVars, callVars, roomVars
<1>1. /\ cursor' = 0 /\ stored' = page.gen /\ batch = {} /\ batch' = {}
      /\ due = "reset" /\ due' = IF place = "again" THEN "none" ELSE "observe"
      /\ UNCHANGED <<events, misfiled, history, place, page, since, gen, floor, last, posted, crashes,
                     checked, sources, closed, asked, verdict, words>>
  BY DEF CommitReset, Commit, eventVars
<1>2. place \in {"again", "reading"} /\ verdict # "open" /\ page.gen \in Gen
  BY <1>1, NotOpen DEF CallInv, TypeOK, HistoryTypeOK, Page
<1>3. TypeOK'
  BY <1>1, <1>2, Bounds DEF TypeOK, HistoryTypeOK, RoomCommits, HistoryCommits
<1>4. CallInv'
  BY <1>1, <1>2, Bounds DEF CallInv, Committed, Repairing
<1>5. HeldInv'         BY <1>1 DEF HeldInv, Posted
<1>6. SummaryInv'      BY <1>1 DEF SummaryInv
<1>7. SourceInv'       BY <1>1 DEF SourceInv
<1>8. OpenIsUnfrozen'  BY <1>1, <1>2 DEF OpenIsUnfrozen
<1>9. MisfiledInv'     BY <1>1, <1>2 DEF MisfiledInv, HeldInv, Clean
<1> QED BY <1>3, <1>4, <1>5, <1>6, <1>7, <1>8, <1>9

LEMMA CommitEventIInv == IInv /\ CommitEvent /\ Elsewhere => IInv'
<1> SUFFICES ASSUME IInv, CommitEvent, Elsewhere PROVE IInv'
  OBVIOUS
<1> USE DEF IInv, Elsewhere, sourceVars, callVars, roomVars
<1> DEFINE n == Min(batch)
<1>1. /\ batch # {} /\ batch' = batch \ {n}
      /\ events' = [events EXCEPT ![<<Into, n>>] = IF @ = None THEN page.gen ELSE @]
      /\ misfiled' = IF place = "trusting" /\ events[<<Into, n>>] = None
                        THEN misfiled \cup {<<Into, n>>} ELSE misfiled
      /\ cursor' = Max({cursor, n}) /\ stored' = Into
      /\ UNCHANGED <<history, due, place, page, since, gen, floor, last, posted, crashes, checked,
                     sources, closed, asked, verdict, words>>
  BY DEF CommitEvent
<1>2. place \in {"reading", "repairing", "trusting"} /\ verdict # "open" /\ page.gen \in Gen
  BY <1>1, NotOpen DEF CallInv, TypeOK, HistoryTypeOK, Page
<1>3. /\ Into \in Gen
      /\ place # "trusting" => Into = page.gen
      /\ place = "trusting" => Into = stored /\ Into < page.gen
      /\ Into <= page.gen /\ page.gen <= gen /\ gen \in Gen
  BY <1>1, <1>2, Bounds DEF Into, Repairing, CallInv, HeldInv, TypeOK, HistoryTypeOK, Gen
<1>4. n \in batch /\ n \in Seqs /\ Posted(page.gen, n)
  <2>1. batch \in SUBSET Mark
    BY Bounds DEF TypeOK, HistoryTypeOK
  <2>2. n \in batch
    BY <1>1, <2>1, MinIsLeast
  <2> QED BY <2>2 DEF HeldInv, TypeOK, HistoryTypeOK
<1>5. cursor' \in Mark
  <2>1. {cursor, n} \in SUBSET Mark
    BY <1>4, Bounds DEF TypeOK, HistoryTypeOK
  <2> QED BY <1>1, <2>1, MaxIsGreatest
<1> HIDE DEF n
<1>6. /\ events' \in [Gen \X Seqs -> Gen \cup {None}]
      /\ \A g \in Gen, s \in Seqs :
            \/ events'[<<g, s>>] = events[<<g, s>>]
            \/ g = Into /\ s = n /\ events[<<g, s>>] = None /\ events'[<<g, s>>] = page.gen
  <2>1. events \in [Gen \X Seqs -> Gen \cup {None}] /\ <<Into, n>> \in Gen \X Seqs
    BY <1>3, <1>4 DEF TypeOK, HistoryTypeOK
  <2>2. events' = [events EXCEPT ![<<Into, n>>] = IF @ = None THEN page.gen ELSE @]
    BY <1>1
  <2> HIDE DEF Gen, Seqs, Into
  <2> QED BY <1>2, <2>1, <2>2
<1>7. \A g \in Gen, s \in Seqs : events[<<g, s>>] # None => events'[<<g, s>>] # None
  BY <1>6
<1>8. TypeOK'
  <2>1. batch' \subseteq Seqs /\ stored' \in Gen
    BY <1>1, <1>3 DEF TypeOK, HistoryTypeOK
  <2>2. misfiled' \subseteq Gen \X Seqs
    <3> HIDE DEF Gen, Seqs
    <3> QED BY <1>1, <1>3, <1>4 DEF TypeOK, HistoryTypeOK
  <2> QED BY <1>1, <1>5, <1>6, <2>1, <2>2 DEF TypeOK, HistoryTypeOK
<1>9. CallInv'
  BY <1>1, <1>2, <1>3, Bounds DEF CallInv, Committed, Repairing
<1>10. HeldInv'
  <2>1. page'.gen <= gen' /\ \A s \in batch' : Posted(page.gen, s)'
    BY <1>1 DEF HeldInv, Posted
  <2>2. Posted(Into, n)
    <3>1. Into \in Int /\ page.gen \in Int /\ gen \in Int
      BY <1>2, <1>3 DEF Gen
    <3>2. CASE place = "trusting"
      <4>1. Into < gen
        BY <1>3, <3>1, <3>2
      <4> QED BY <4>1 DEF Posted
    <3>3. CASE place # "trusting"
      BY <1>3, <1>4, <3>3
    <3> QED BY <3>2, <3>3
  <2>3. \A g \in Gen, s \in Seqs : events'[<<g, s>>] # None =>
           Posted(g, s) /\ (events'[<<g, s>>] = g \/ <<g, s>> \in misfiled')
    <3> SUFFICES ASSUME NEW g \in Gen, NEW s \in Seqs, events'[<<g, s>>] # None
                 PROVE  Posted(g, s) /\ (events'[<<g, s>>] = g \/ <<g, s>> \in misfiled')
      OBVIOUS
    <3>1. CASE events'[<<g, s>>] = events[<<g, s>>]
      BY <1>1, <3>1 DEF HeldInv
    <3>2. CASE g = Into /\ s = n /\ events[<<g, s>>] = None /\ events'[<<g, s>>] = page.gen
      BY <1>1, <1>3, <2>2, <3>2
    <3> QED BY <1>6, <3>1, <3>2
  <2> QED BY <1>1, <2>1, <2>3 DEF HeldInv, Posted
<1>14. MisfiledInv'
  <2>1. CASE place = "trusting"
    <3>1. \A g \in Gen, s \in Seqs : <<g, s>> \in misfiled' => g < gen
      <4>1. \A g \in Gen, s \in Seqs : <<g, s>> \in misfiled' => <<g, s>> \in misfiled \/ g = Into
        BY <1>1
      <4>2. Into < gen
        <5>1. Into \in Int /\ page.gen \in Int /\ gen \in Int
          BY <1>2, <1>3 DEF Gen
        <5> QED BY <1>3, <2>1, <5>1
      <4> QED BY <4>1, <4>2 DEF MisfiledInv
    <3> QED BY <1>1, <1>3, <2>1, <3>1 DEF MisfiledInv, Gen
  <2>2. CASE place # "trusting"
    BY <1>1, <1>2, <1>3, <2>2 DEF MisfiledInv, Clean, CallInv
  <2> QED BY <2>1, <2>2
<1>11. SummaryInv'
  <2> SUFFICES ASSUME NEW g \in Gen, history[g].from # None,
                      NEW s \in history[g].from .. history[g].highest
               PROVE  s \in history[g].gaps \/ events'[<<g, s>>] # None
    BY <1>1 DEF SummaryInv
  <2>1. s \in Seqs
    BY DEF TypeOK, HistoryTypeOK, Summary, Mark, Seqs, None
  <2> QED BY <1>7, <2>1 DEF SummaryInv
<1>12. SourceInv'       BY <1>1, <1>7 DEF SourceInv
<1>13. OpenIsUnfrozen'  BY <1>1, <1>2 DEF OpenIsUnfrozen
<1> QED BY <1>8, <1>9, <1>10, <1>11, <1>12, <1>13, <1>14

\* A summary is rewritten from what is held.
LEMMA SummaryIInv ==
  ASSUME IInv, Elsewhere, NEW g \in Gen, NEW h \in Summary, history' = [history EXCEPT ![g] = h],
         \/ h.from = history[g].from /\ h.highest = history[g].highest /\ h.gaps = history[g].gaps
         \/ h.from = None
         \/ h.gaps = (h.from .. h.highest) \ Held(g),
         due' = "none", batch = {}, UNCHANGED <<cursor, stored, eventVars, callVars, batch, roomVars, crashes>>,
         place \in {"reading", "repairing", "trusting"}, due # "reset", place = "reading" => stored # None
  PROVE  IInv'
<1> USE DEF IInv, Elsewhere, eventVars, sourceVars, callVars, roomVars
<1>1. verdict # "open" /\ due # "close"
  BY NotOpen DEF CallInv
<1>2. TypeOK'
  BY DEF TypeOK, HistoryTypeOK, RoomCommits, HistoryCommits
<1>3. CallInv'  BY <1>1 DEF CallInv, Committed, Repairing
<1>4. HeldInv'  BY DEF HeldInv, Posted
<1>5. SummaryInv'
  <2>1. history \in [Gen -> Summary]
    BY DEF TypeOK, HistoryTypeOK
  <2>2. \A q \in Gen : q # g => history'[q] = history[q]
    BY <2>1
  <2>3. history'[g] = h
    BY <2>1
  <2>4. h.from # None => \A s \in h.from .. h.highest : s \in h.gaps \/ events[<<g, s>>] # None
    BY DEF SummaryInv, Held
  <2> QED BY <2>2, <2>3, <2>4 DEF SummaryInv
<1>6. SourceInv'       BY <1>1 DEF SourceInv
<1>7. OpenIsUnfrozen'  BY <1>1 DEF OpenIsUnfrozen
<1>8. MisfiledInv'     BY DEF MisfiledInv, Clean
<1> QED BY <1>2, <1>3, <1>4, <1>5, <1>6, <1>7, <1>8

LEMMA CommitHistoryIInv == IInv /\ (CommitObserve \/ CommitRepair) /\ Elsewhere => IInv'
<1> SUFFICES ASSUME IInv, CommitObserve \/ CommitRepair, Elsewhere PROVE IInv'
  OBVIOUS
<1>1. /\ page.gen \in Gen /\ page.first \in Mark /\ page.last \in Mark
      /\ history \in [Gen -> Summary] /\ stored \in Gen \cup {None}
      /\ \A g : Held(g) \in SUBSET Seqs
      /\ NoHistory \in Summary /\ NoHistory.from = None
  BY Bounds DEF IInv, TypeOK, HistoryTypeOK, Page, Held, NoHistory, Summary
<1>2. CASE CommitObserve
  <2> DEFINE h == Observed(history[page.gen], Held(page.gen), page.first, page.last)
  <2>1. /\ history' = [history EXCEPT ![page.gen] = h] /\ due = "observe" /\ due' = "none" /\ batch = {}
        /\ UNCHANGED <<cursor, stored, eventVars, callVars, batch, roomVars, crashes>>
    BY <1>2 DEF CommitObserve, Commit
  <2>2. place = "reading" /\ stored # None
    BY <2>1 DEF IInv, CallInv
  <2>3. Honest(h, history[page.gen], Held(page.gen))
    BY <1>1, ObservedFacts
  <2> HIDE DEF h
  <2> QED BY <1>1, <2>1, <2>2, <2>3, SummaryIInv DEF Honest
<1>3. CASE CommitRepair
  <2>1. /\ due \in {"replace", "doubt"} /\ due' = "none" /\ batch = {}
        /\ UNCHANGED <<cursor, stored, eventVars, callVars, batch, roomVars, crashes>>
    BY <1>3 DEF CommitRepair, Commit
  <2>2. place \in {"repairing", "trusting"} /\ stored \in Gen
    BY <1>1, <2>1 DEF IInv, CallInv, Repairing
  <2>3. CASE history' = [history EXCEPT ![stored] =
                            Observed(NoHistory, Held(stored), page.first, page.last)]
    <3> DEFINE h == Observed(NoHistory, Held(stored), page.first, page.last)
    <3>1. Honest(h, NoHistory, Held(stored))
      BY <1>1, ObservedFacts
    <3>2. history' = [history EXCEPT ![stored] = h]
      BY <2>3
    <3> HIDE DEF h
    <3> QED BY <1>1, <2>1, <2>2, <3>1, <3>2, SummaryIInv DEF Honest
  <2>4. CASE history' = [history EXCEPT ![stored].required = TRUE]
    <3> DEFINE h == [history[stored] EXCEPT !.required = TRUE]
    <3>1. h \in Summary /\ h.from = history[stored].from /\ h.highest = history[stored].highest
          /\ h.gaps = history[stored].gaps
      BY <1>1, <2>2 DEF Summary
    <3>2. history' = [history EXCEPT ![stored] = h]
      BY <2>4
    <3> HIDE DEF h
    <3> QED BY <2>1, <2>2, <3>1, <3>2, SummaryIInv
  <2> QED BY <1>3, <2>3, <2>4 DEF CommitRepair
<1> QED BY <1>2, <1>3

LEMMA RepairIInv == IInv /\ (Reconcile \/ Repaired) /\ (asked = None \/ place # "idle") /\ Elsewhere => IInv'
<1> SUFFICES ASSUME IInv, Reconcile \/ Repaired, asked = None \/ place # "idle", Elsewhere PROVE IInv'
  OBVIOUS
<1> USE DEF IInv, Elsewhere, historyVars, sourceVars
<1>1. /\ verdict # "open" /\ asked \in Gen \cup {None} /\ verdict \in {"none", "open", "shut"}
      /\ UNCHANGED <<asked, verdict, durableVars, roomVars, crashes, sourceVars, words>>
  BY NotOpen DEF TypeOK, Reconcile, Repaired
<1>2. CASE Repaired
  <2>1. due # "close" /\ Return
    BY <1>2 DEF Repaired, Committed
  <2> QED BY <1>1, <2>1, ReturnIInv DEF OpenIsUnfrozen
<1>3. CASE Reconcile
  <2>1. place = "idle" /\ stored # None /\ due # "close"
        /\ gen \in Gen
    BY <1>3 DEF Reconcile, CallInv, Committed, TypeOK, HistoryTypeOK
  <2>2. NoPage \in Page /\ NoPage.gen = 1 /\ 1 <= gen /\ 0 \in Mark
    BY <2>1, Bounds DEF NoPage, Page, None, Gen
  <2>3. CASE Call("repairing", {}, "doubt", NoPage, 0)
    <3>1. /\ place' = "repairing" /\ batch' = {} /\ due' = "doubt" /\ page' = NoPage /\ since' = 0
      BY <2>3 DEF Call
    <3>2. CallInv' /\ OpenIsUnfrozen'
      BY <1>1, <2>1, <3>1 DEF CallInv, Committed, OpenIsUnfrozen, Repairing, durableVars
    <3>3. MisfiledInv'
      BY <1>1, <3>1 DEF MisfiledInv, durableVars, eventVars, roomVars
    <3> QED BY <1>1, <2>1, <2>2, <3>1, <3>2, <3>3, CallOnly DEF RoomCommits, HistoryCommits
  <2>4. ASSUME NEW p \in Export, NEW where \in {"repairing", "trusting"},
               where = "repairing" <=> p.gen = stored,
               Call(where, p.records, "replace", Exported(p), 0)
        PROVE  IInv'
    <3>1. /\ p.gen = gen /\ p.records \subseteq Seqs /\ p.first \in Mark /\ p.last \in Mark
          /\ \A s \in p.records : s <= last
      BY <2>4, Answers
    <3>2. /\ place' = where /\ batch' = p.records /\ due' = "replace"
          /\ page' = Exported(p) /\ since' = 0
      BY <2>4 DEF Call
    <3>3. Exported(p) \in Page /\ Exported(p).gen = gen /\ gen <= gen
      BY <2>1, <3>1, Bounds DEF Exported, Page, Gen
    <3>4. \A s \in batch' : Posted(page'.gen, s)
      BY <3>1, <3>2, <3>3 DEF Posted
    <3>5. where = "trusting" => stored < gen
      <4>1. stored \in Gen /\ stored <= gen
        BY <2>1 DEF MisfiledInv, TypeOK, HistoryTypeOK
      <4> QED BY <2>1, <2>4, <3>1, <4>1 DEF Gen
    <3>6. CallInv' /\ OpenIsUnfrozen'
      BY <1>1, <2>1, <2>4, <3>1, <3>2, <3>3, <3>5
         DEF CallInv, Committed, OpenIsUnfrozen, Repairing, durableVars
    <3>7. MisfiledInv'
      BY <1>1, <2>4, <3>2 DEF MisfiledInv, durableVars, eventVars, roomVars
    <3> QED BY <1>1, <2>1, <2>2, <3>1, <3>2, <3>3, <3>4, <3>6, <3>7, CallOnly
            DEF RoomCommits, HistoryCommits
  <2> QED BY <1>3, <2>3, <2>4 DEF Reconcile, ReceiveExport
<1> QED BY <1>2, <1>3

-----------------------------------------------------------------------------
\* Commits to the sources, and the verdict.

LEMMA CommitSourceIInv == IInv /\ CommitSource => IInv'
<1> SUFFICES ASSUME IInv, CommitSource PROVE IInv'
  OBVIOUS
<1> USE DEF IInv, durableVars, callVars, roomVars
<1> DEFINE n == Min(Unchecked(asked))
           record == <<asked, n>>
<1>1. /\ place = "syncing" /\ batch = {} /\ due = "none" /\ Unchecked(asked) # {}
      /\ checked' = checked \cup {record}
      /\ \/ <<events[record], n>> \in words /\ sources' = sources \cup {record} /\ due' = "close"
         \/ <<events[record], n>> \notin words /\ sources' = sources /\ due' = "none"
      /\ UNCHANGED <<cursor, stored, events, misfiled, history, place, page, since, batch, gen, floor,
                     last, posted, crashes, closed, asked, verdict, words>>
  BY DEF CommitSource, Committed, Marks, eventVars
<1>2. asked \in Gen /\ verdict # "open"
  BY <1>1, NotOpen DEF CallInv
<1>3. n \in Seqs /\ events[<<asked, n>>] # None
  <2>1. Unchecked(asked) \in SUBSET Mark
    BY Bounds DEF Unchecked, Held
  <2>2. n \in Unchecked(asked)
    BY <1>1, <2>1, MinIsLeast
  <2> QED BY <2>2 DEF Unchecked, Held
<1> HIDE DEF n
<1>10. events[record] = asked
  BY <1>1, <1>2, <1>3 DEF HeldInv, MisfiledInv, Clean
<1>4. TypeOK'
  <2>1. record \in Gen \X Seqs
    BY <1>2, <1>3
  <2> HIDE DEF record
  <2> QED BY <1>1, <2>1 DEF TypeOK, HistoryTypeOK, RoomCommits, HistoryCommits
<1>5. CallInv'         BY <1>1, <1>2 DEF CallInv, Committed, Repairing
<1>6. HeldInv'         BY <1>1 DEF HeldInv, Posted
<1>11. MisfiledInv'    BY <1>1 DEF MisfiledInv, Clean
<1>7. SummaryInv'      BY <1>1 DEF SummaryInv
<1>8. SourceInv'
  <2> SUFFICES ASSUME NEW g \in Gen, NEW s \in Seqs
               PROVE  /\ <<g, s>> \in checked' => events[<<g, s>>] # None
                      /\ <<g, s>> \in checked' /\ <<g, s>> \in words => <<g, s>> \in sources'
                      /\ <<g, s>> \in sources' =>
                            g \in closed \/ crashes > 0 \/ (due' = "close" /\ asked = g)
    BY <1>1 DEF SourceInv
  <2>1. CASE <<g, s>> = record
    BY <1>1, <1>3, <1>10, <2>1 DEF SourceInv
  <2>2. CASE <<g, s>> # record
    BY <1>1, <2>2 DEF SourceInv
  <2> QED BY <2>1, <2>2
<1>9. OpenIsUnfrozen'  BY <1>1, <1>2 DEF OpenIsUnfrozen
<1> QED BY <1>4, <1>5, <1>6, <1>7, <1>8, <1>9, <1>11

LEMMA CloseRoomIInv == IInv /\ CloseRoom => IInv'
<1> SUFFICES ASSUME IInv, CloseRoom PROVE IInv'
  OBVIOUS
<1> USE DEF IInv, durableVars, callVars, roomVars
<1>1. /\ due = "close" /\ due' = "none" /\ closed' = closed \cup {asked}
      /\ UNCHANGED <<cursor, stored, events, misfiled, history, place, page, since, batch, gen, floor,
                     last, posted, crashes, checked, sources, asked, verdict, words>>
  BY DEF CloseRoom, Commit, eventVars
<1>2. place = "syncing" /\ asked \in Gen /\ verdict # "open"
  BY <1>1, NotOpen DEF CallInv
<1>3. TypeOK'          BY <1>1, <1>2 DEF TypeOK, HistoryTypeOK, RoomCommits, HistoryCommits
<1>4. CallInv'         BY <1>1, <1>2 DEF CallInv, Committed, Repairing
<1>5. HeldInv'         BY <1>1 DEF HeldInv, Posted
<1>6. SummaryInv'      BY <1>1 DEF SummaryInv
<1>7. SourceInv'       BY <1>1 DEF SourceInv
<1>8. OpenIsUnfrozen'  BY <1>1, <1>2 DEF OpenIsUnfrozen
<1>9. MisfiledInv'     BY <1>1 DEF MisfiledInv, Clean
<1> QED BY <1>3, <1>4, <1>5, <1>6, <1>7, <1>8, <1>9

\* A complete history holds every record up to the newest; none of them is unchecked, so
\* a word among them is kept; and as the room is not closed, there was a crash.
LEMMA SyncedIInv == IInv /\ Synced => IInv'
<1> SUFFICES ASSUME IInv, Synced PROVE IInv'
  OBVIOUS
<1> USE DEF IInv
<1>1. /\ place = "syncing" /\ due = "none" /\ Unchecked(asked) = {} /\ Return
      /\ verdict' = Verdict(asked)
      /\ UNCHANGED <<durableVars, roomVars, crashes, sourceVars, asked, words>>
  BY DEF Synced, Committed, Answer
<1>2. asked \in Gen
  BY <1>1 DEF CallInv
<1>3. OpenIsUnfrozen'
  <2> SUFFICES ASSUME verdict' = "open", NEW s \in 1 .. history[asked].highest, <<asked, s>> \in words
               PROVE  <<asked, s>> \in sources /\ crashes > 0
    BY <1>1 DEF OpenIsUnfrozen, durableVars, sourceVars
  <2>1. asked \notin closed /\ IsComplete(history[asked], 1, history[asked].highest)
    BY <1>1 DEF Verdict
  <2>2. history[asked] \in Summary
    BY <1>2 DEF TypeOK, HistoryTypeOK
  <2>3. history[asked].highest \in Nat /\ s \in Seqs
    BY <2>2 DEF Summary, Mark, Seqs
  <2>4. history[asked].from # None /\ 1 >= history[asked].from /\ history[asked].from \in Nat
        /\ history[asked].gaps \cap (1 .. history[asked].highest) = {}
    BY <2>1, <2>2, <2>3 DEF IsComplete, Summary, Mark
  <2>5. events[<<asked, s>>] # None
    BY <1>2, <2>3, <2>4 DEF SummaryInv, None
  <2>6. <<asked, s>> \in checked
    BY <1>1, <2>3, <2>5 DEF Unchecked, Held
  <2> QED BY <1>1, <1>2, <2>1, <2>3, <2>6 DEF SourceInv
<1>4. verdict' \in {"none", "open", "shut"}
  BY <1>1 DEF Verdict
<1> QED BY <1>1, <1>2, <1>3, <1>4, ReturnIInv

-----------------------------------------------------------------------------
\* The world, and the end of the process.

LEMMA WorldIInv == IInv /\ World => IInv'
<1> SUFFICES ASSUME IInv, World PROVE IInv'
  OBVIOUS
<1> USE DEF IInv, durableVars, eventVars, callVars, commitVars, roomVars, sourceVars, Elsewhere
<1>0. UNCHANGED <<cursor, stored, events, misfiled, history, place, page, since, batch, due, crashes, checked,
                  sources, closed, asked, verdict>>
  BY DEF World, RecordArrives, Arrive, Trim, Recreate
<1>1. verdict # "open" /\ gen \in Gen /\ floor \in Seqs /\ last \in Mark
  BY NotOpen DEF World, TypeOK, HistoryTypeOK
<1>2. /\ gen' \in Gen /\ floor' \in Seqs /\ last' \in Mark /\ gen' >= gen /\ posted' \in Nat
      /\ \A g \in Gen, s \in Seqs : Posted(g, s) => Posted(g, s)'
      /\ words' \subseteq Gen \X Seqs
      /\ \A g \in Gen, s \in Seqs : <<g, s>> \in words' => <<g, s>> \in words \/ ~Posted(g, s)
  <2>1. CASE RecordArrives
    <3>1. last' = last + 1 /\ last < MaxSeq /\ UNCHANGED <<gen, floor>> /\ posted' \in Nat
      BY <1>1, <2>1, Bounds DEF RecordArrives, Arrive, Mark, TypeOK, HistoryTypeOK
    <3>2. words' \subseteq words \cup {<<gen, last'>>}
      BY <2>1 DEF RecordArrives
    <3>3. last' \in Seqs /\ last' \in Mark /\ ~Posted(gen, last')
      BY <1>1, <3>1, Bounds DEF Mark, Seqs, Posted, Gen
    <3>4. words \subseteq Gen \X Seqs
      BY DEF TypeOK
    <3>5. words' \subseteq Gen \X Seqs
      BY <1>1, <3>2, <3>3, <3>4
    <3>6. \A g \in Gen, s \in Seqs : Posted(g, s) => Posted(g, s)'
      BY <1>1, <3>1, Bounds DEF Posted, Mark, Seqs
    <3> QED BY <1>1, <3>1, <3>2, <3>3, <3>5, <3>6 DEF Gen
  <2>2. CASE Trim /\ Elsewhere
    <3>1. UNCHANGED <<gen, last, posted, words>> /\ floor' \in Seqs
      BY <1>1, <2>2, Bounds DEF Trim, Seqs, Mark
    <3> QED BY <1>1, <3>1 DEF Posted, TypeOK, HistoryTypeOK, Gen
  <2>3. CASE Recreate /\ Elsewhere
    <3>1. gen' = gen + 1 /\ gen' \in Gen /\ floor' = 1 /\ last' = 0 /\ UNCHANGED <<words, posted>>
      BY <1>1, <2>3, Bounds DEF Recreate, Gen
    <3>2. \A g \in Gen, s \in Seqs : Posted(g, s) => Posted(g, s)'
      BY <1>1, <3>1, Bounds DEF Posted, Gen
    <3> QED BY <1>1, <3>1, <3>2, Bounds DEF TypeOK, HistoryTypeOK, Gen
  <2> QED BY <2>1, <2>2, <2>3 DEF World
<1>3. TypeOK'          BY <1>0, <1>2 DEF TypeOK, HistoryTypeOK
<1>4. CallInv'         BY <1>0 DEF CallInv, Committed, Repairing
<1>9. MisfiledInv'
  <2>1. stored # None => stored \in Gen
    BY DEF TypeOK, HistoryTypeOK
  <2> QED BY <1>0, <1>1, <1>2, <2>1 DEF MisfiledInv, Clean, Gen
<1>5. HeldInv'
  <2>1. page.gen \in Gen /\ batch \subseteq Seqs
    BY DEF TypeOK, HistoryTypeOK, Page
  <2>2. page.gen <= gen'
    BY <1>1, <1>2, <2>1 DEF HeldInv, Gen
  <2>3. \A s \in batch : Posted(page.gen, s)'
    <3> SUFFICES ASSUME NEW s \in batch PROVE Posted(page.gen, s)'
      OBVIOUS
    <3>1. Posted(page.gen, s)' <=> page.gen < gen' \/ (page.gen = gen' /\ s <= last')
      BY <1>0 DEF Posted
    <3>2. \A g \in Gen, q \in Seqs : Posted(g, q) => g < gen' \/ (g = gen' /\ q <= last')
      BY <1>2 DEF Posted
    <3> QED BY <2>1, <3>1, <3>2 DEF HeldInv
  <2> QED BY <1>0, <1>2, <2>1, <2>2, <2>3 DEF HeldInv
<1>6. SummaryInv'      BY <1>0 DEF SummaryInv
<1>7. SourceInv'       BY <1>0, <1>2 DEF SourceInv, HeldInv
<1>8. OpenIsUnfrozen'  BY <1>0, <1>1 DEF OpenIsUnfrozen
<1> QED BY <1>3, <1>4, <1>5, <1>6, <1>7, <1>8, <1>9

LEMMA DiedIInv == IInv /\ Died => IInv'
<1> SUFFICES ASSUME IInv, Died PROVE IInv'
  OBVIOUS
<1> USE DEF IInv, durableVars, eventVars, roomVars, sourceVars
<1>1. /\ crashes < MaxCrashes /\ crashes' = crashes + 1 /\ asked' = None /\ verdict' = "none"
      /\ place' = "idle" /\ batch' = {} /\ due' = "none" /\ page' = NoPage /\ since' = 0
      /\ UNCHANGED <<cursor, stored, events, misfiled, history, gen, floor, last, posted, checked,
                     sources, closed, words>>
  BY DEF Died, Crash, Return, Call
<1>2. NoPage \in Page /\ NoPage.gen = 1 /\ 1 <= gen /\ 0 \in Mark
  BY Bounds DEF NoPage, Page, TypeOK, HistoryTypeOK, None, Gen
<1>3. crashes' \in 0 .. MaxCrashes /\ crashes' > 0
  BY <1>1, Bounds DEF TypeOK, HistoryTypeOK
<1>4. TypeOK'          BY <1>1, <1>2, <1>3 DEF TypeOK, HistoryTypeOK, RoomCommits, HistoryCommits
<1>5. CallInv'         BY <1>1 DEF CallInv, Committed, Repairing
<1>6. HeldInv'         BY <1>1, <1>2 DEF HeldInv, Posted
<1>7. SummaryInv'      BY <1>1 DEF SummaryInv
<1>8. SourceInv'       BY <1>1, <1>3 DEF SourceInv
<1>9. OpenIsUnfrozen'  BY <1>1 DEF OpenIsUnfrozen
<1>10. MisfiledInv'    BY <1>1 DEF MisfiledInv
<1> QED BY <1>4, <1>5, <1>6, <1>7, <1>8, <1>9, <1>10

-----------------------------------------------------------------------------
\* The theorems.

LEMMA InitIInv == Init => IInv
<1> SUFFICES ASSUME Init PROVE IInv
  OBVIOUS
<1> USE DEF Init, HistoryInit
<1>1. NoHistory \in Summary /\ NoHistory.from = None /\ NoPage \in Page /\ NoPage.gen = 1
  BY Bounds DEF NoHistory, NoPage, Summary, Page
<1>2. \A g \in Gen, s \in Seqs : events[<<g, s>>] = None
  OBVIOUS
<1>3. \A g \in Gen : history[g] = NoHistory
  OBVIOUS
<1>4. TypeOK
  <2>1. events \in [Gen \X Seqs -> Gen \cup {None}] /\ history \in [Gen -> Summary]
    BY <1>1
  <2>2. crashes \in 0 .. MaxCrashes /\ gen \in Gen /\ floor \in Seqs /\ last \in Mark /\ cursor \in Mark
        /\ since \in Mark /\ posted \in Nat /\ misfiled = {}
    BY Bounds
  <2> HIDE DEF Gen, Seqs, Mark, Summary, Page
  <2> QED BY <1>1, <2>1, <2>2 DEF TypeOK, HistoryTypeOK, RoomCommits, HistoryCommits
<1>5. CallInv /\ OpenIsUnfrozen /\ SourceInv
  BY DEF CallInv, Committed, Repairing, OpenIsUnfrozen, SourceInv
<1>6. HeldInv /\ MisfiledInv /\ SummaryInv
  BY <1>1, <1>2, <1>3 DEF HeldInv, MisfiledInv, SummaryInv
<1> QED BY <1>4, <1>5, <1>6 DEF IInv

LEMMA IInvStep == IInv /\ [Next]_vars => IInv'
<1> SUFFICES ASSUME IInv, [Next]_vars PROVE IInv'
  OBVIOUS
<1>1. CASE UNCHANGED vars
  BY <1>1 DEF vars, historyVars, durableVars, eventVars, callVars, commitVars, roomVars, sourceVars,
              IInv, TypeOK, HistoryTypeOK, CallInv, Committed, Repairing, HeldInv, MisfiledInv, Clean,
              Posted, SummaryInv, SourceInv, OpenIsUnfrozen
<1>2. CASE Daemon
  BY <1>2, ReadingIInv, CommitSourceIInv, CloseRoomIInv, SyncedIInv, CommitResetIInv, CommitEventIInv,
     CommitHistoryIInv, RepairIInv DEF Daemon, HistoryStep
<1> QED BY <1>1, <1>2, WorldIInv, DiedIInv DEF Next

LEMMA Invariance == Spec => []IInv
  BY InitIInv, IInvStep, PTL DEF Spec

\* The cursor, the events, the summaries and the sources keep their types.
THEOREM TypeCorrect == Spec => []TypeOK
<1>1. IInv => TypeOK
  BY DEF IInv
<1> QED BY <1>1, Invariance, PTL

\* An interval called complete is held without a gap, each record under the generation it
\* came from unless its export named none, whatever the server leaves out and whenever the
\* process dies.
THEOREM CompleteHeld == Spec => []CompleteIsHeld
<1>1. IInv => CompleteIsHeld
  <2> SUFFICES ASSUME IInv, NEW g \in Gen, NEW start \in Seqs, NEW end \in Seqs, start <= end,
                      IsComplete(history[g], start, end), NEW s \in start .. end
               PROVE  events[<<g, s>>] = g \/ <<g, s>> \in misfiled
    BY DEF CompleteIsHeld
  <2>1. s \in Seqs /\ start \in Nat /\ end \in Nat
    BY Bounds DEF Seqs
  <2>2. history[g] \in Summary
    BY DEF IInv, TypeOK, HistoryTypeOK
  <2>3. history[g].from # None /\ s \in history[g].from .. history[g].highest
        /\ s \notin history[g].gaps
    BY <2>1, <2>2 DEF IsComplete, Summary, Mark
  <2> QED BY <2>1, <2>3 DEF IInv, SummaryInv, HeldInv
<1> QED BY <1>1, Invariance, PTL

\* A room is taken for open only if none of its records up to the newest known is an accepted
\* word, unless a crash fell between keeping the word and closing the room.
THEOREM OpenUnfrozen == Spec => []OpenIsUnfrozen
<1>1. IInv => OpenIsUnfrozen
  BY DEF IInv
<1> QED BY <1>1, Invariance, PTL
=============================================================================
