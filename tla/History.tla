------------------------------- MODULE History -------------------------------
(***************************************************************************)
(* What the daemon knows of a room's past: Daemon._read_incremental and     *)
(* _reconcile_history, the cursors and events of state.py, and             *)
(* FormationHistoryState.                                                   *)
(*                                                                         *)
(* A room numbers its records, keeps a ring of the latest, and may be       *)
(* replaced by a new generation that numbers from one again.  The program   *)
(* holds what it reads, one transaction a record, and derives from it which *)
(* intervals it holds without a gap; nothing may be concluded from the      *)
(* absence of a record outside such an interval.  Gap ranges are kept here  *)
(* as the set of the sequence numbers in them.  A response names the room's *)
(* generation; an export may not.                                           *)
(***************************************************************************)
EXTENDS Integers, FiniteSetsExt

CONSTANTS MaxGen,      \* bound: generations of the room
          MaxSeq,      \* bound: records of a generation
          MaxRecords,  \* bound: records of all generations together
          MaxCrashes   \* bound: crashes of the daemon

ASSUME HistoryAssumption ==
    {MaxGen, MaxSeq} \subseteq Nat \ {0} /\ {MaxRecords, MaxCrashes} \subseteq Nat

Gen == 1 .. MaxGen
Seqs == 1 .. MaxSeq
None == 0        \* no generation, no sequence number

VARIABLES
    \* durable
    cursor, stored,  \* cursors: the last sequence number and its generation
    events,          \* events: the origin of the record held for [generation, number]
    misfiled,        \* of these, the ones of an export of another generation that named none
    history,         \* formation_history_state, by generation
    \* volatile
    place,           \* where in a call the daemon is
    batch, due,      \* the records it has yet to hold, and the transaction that follows them
    page, since,     \* the response at hand, and the cursor the call began with
    \* the world
    gen, floor, last,  \* the room's generation, and the ring it retains
    posted,            \* how many records there have been
    crashes

eventVars == <<events, misfiled>>
durableVars == <<cursor, stored, eventVars, history>>
callVars == <<place, page, since>>
roomVars == <<gen, floor, last, posted>>
commitVars == <<batch, due>>
historyVars == <<durableVars, callVars, commitVars, roomVars, crashes>>

Mark == 0 .. MaxSeq
Page == [gen : Gen, first : Mark, last : Mark]
Summary == [from : Mark, highest : Mark, gaps : SUBSET Seqs, required : BOOLEAN,
            availFrom : Mark, availThrough : Mark]
NoHistory == [from |-> None, highest |-> 0, gaps |-> {}, required |-> FALSE,
              availFrom |-> None, availThrough |-> None]
NoPage == [gen |-> 1, first |-> None, last |-> None]
NoAnswer == [gen |-> gen, records |-> {}, first |-> None, last |-> None]

HistoryCommits == {"none", "reset", "observe", "replace", "doubt"}

HistoryTypeOK ==
    /\ cursor \in Mark /\ stored \in Gen \cup {None}
    /\ events \in [Gen \X Seqs -> Gen \cup {None}] /\ misfiled \subseteq Gen \X Seqs
    /\ history \in [Gen -> Summary]
    /\ batch \subseteq Seqs /\ page \in Page /\ since \in Mark
    /\ gen \in Gen /\ floor \in Seqs /\ last \in Mark /\ posted \in Nat
    /\ crashes \in 0 .. MaxCrashes

HistoryInit ==
    /\ cursor = 0 /\ stored = None
    /\ events = [e \in Gen \X Seqs |-> None] /\ misfiled = {}
    /\ history = [g \in Gen |-> NoHistory]
    /\ place = "idle" /\ batch = {} /\ due = "none" /\ page = NoPage /\ since = 0
    /\ gen = 1 /\ floor = 1 /\ last = 0 /\ posted = 0 /\ crashes = 0

-----------------------------------------------------------------------------
\* FormationHistoryState

Held(g) == {s \in Seqs : events[<<g, s>>] # None}

\* Fault: what is missing after the last record held is no gap.
ObservedToLastHeld(h, held, first, through) ==
    LET seen == [h EXCEPT !.availFrom = IF first = None THEN @ ELSE first,
                          !.availThrough = IF through = None THEN @ ELSE through]
        from == IF seen.availFrom = None THEN Min(held) ELSE seen.availFrom
        highest == IF seen.availThrough = None THEN Max(held) ELSE seen.availThrough
        gaps == ((from .. highest) \ held) \cap (1 .. Max(held))
    IN  IF held = {} \/ (seen.availFrom # None /\ seen.availThrough = None)
          THEN seen
          ELSE [seen EXCEPT !.from = from, !.highest = highest,
                            !.gaps = gaps, !.required = gaps # {}]

\* observe: the ring the server has shown, or else what is held, bounds the interval that
\* is looked at; what is not held of it is a gap.
Observed(h, held, first, through) ==
    LET seen == [h EXCEPT !.availFrom = IF first = None THEN @ ELSE first,
                          !.availThrough = IF through = None THEN @ ELSE through]
        from == IF seen.availFrom = None THEN Min(held) ELSE seen.availFrom
        highest == IF seen.availThrough = None THEN Max(held) ELSE seen.availThrough
        gaps == (from .. highest) \ held
    IN  IF held = {} \/ (seen.availFrom # None /\ seen.availThrough = None)
          THEN seen
          ELSE [seen EXCEPT !.from = from, !.highest = highest,
                            !.gaps = gaps, !.required = gaps # {}]

IsComplete(h, start, end) ==
    \/ end < start
    \/ /\ h.availFrom # None => start >= h.availFrom
       /\ h.from # None /\ start >= h.from
       /\ end <= h.highest
       /\ h.gaps \cap (start .. end) = {}

-----------------------------------------------------------------------------
\* What the server may answer: some of the records after the cursor, at least one if
\* there are any.  Whether first_seq and last_seq speak of the ring or of the response is
\* not settled by how the program uses them, so they may be either.

Retained(n) == {s \in floor .. last : s > n}

Pages(n) ==
    {[gen |-> gen, records |-> r, first |-> floor, last |-> last] :
        r \in {x \in SUBSET Retained(n) : x = {} => Retained(n) = {}}} \cup
    {[gen |-> gen, records |-> r, first |-> Min(r), last |-> Max(r)] :
        r \in (SUBSET Retained(n)) \ {{}}} \cup
    (IF Retained(n) = {} THEN {NoAnswer} ELSE {})

Export == {[gen |-> gen, records |-> r, first |-> Min(r), last |-> Max(r)] :
              r \in (SUBSET Retained(0)) \ {{}}}
          \cup {NoAnswer}

Call(where, records, then, p, n) ==
    place' = where /\ batch' = records /\ due' = then /\ page' = p /\ since' = n
Return == Call("idle", {}, "none", NoPage, 0)

\* Everything a response called for is committed.
Committed == batch = {} /\ due = "none"

\* first_seq tells the ring's floor only in a read from the start, or when it has passed
\* the cursor the call began with.
RetainedFloor(n, first) == IF n = 0 \/ first > n + 1 THEN first ELSE None

\* What is kept of a response for observe.
Seen(p, n) == [gen |-> p.gen, first |-> RetainedFloor(n, p.first), last |-> p.last]
Exported(p) == [gen |-> p.gen, first |-> p.first, last |-> p.last]

-----------------------------------------------------------------------------
\* _read_incremental.  The caller goes on at `back', with the room's history observed.

\* The first response.  Another generation than the stored one is read from its start.
Receive(p) ==
    IF stored # None /\ p.gen # stored
      THEN Call("again", {}, "reset", [NoPage EXCEPT !.gen = p.gen], cursor)
      ELSE Call("reading", p.records,
                IF stored = None /\ p.records = {} THEN "reset" ELSE "observe",
                Seen(p, cursor), 0)

ReadAgain ==
    /\ place = "again" /\ Committed
    /\ \E p \in Pages(0) : Call("reading", p.records, "observe", Seen(p, since), 0)
    /\ UNCHANGED <<durableVars, roomVars, crashes>>

Commit(c, next) == batch = {} /\ due = c /\ due' = next /\ UNCHANGED batch

\* reset_cursor
CommitReset ==
    /\ Commit("reset", IF place = "again" THEN "none" ELSE "observe")
    /\ cursor' = 0 /\ stored' = page.gen
    /\ UNCHANGED <<eventVars, history, callVars, roomVars, crashes>>

Repairing == place \in {"repairing", "trusting"}

\* The generation a record is filed under: the response's; of an export, the one asked for.
Into == IF Repairing THEN stored ELSE page.gen

\* record_event for each record of a response in turn: the record, if there is none yet, and
\* the cursor, in one transaction.
CommitEvent ==
    /\ batch # {}
    /\ LET n == Min(batch)
       IN  /\ batch' = batch \ {n}
           /\ events' = [events EXCEPT ![<<Into, n>>] = IF @ = None THEN page.gen ELSE @]
           /\ misfiled' = IF place = "trusting" /\ events[<<Into, n>>] = None
                            THEN misfiled \cup {<<Into, n>>} ELSE misfiled
           /\ cursor' = Max({cursor, n}) /\ stored' = Into
    /\ UNCHANGED <<history, due, callVars, roomVars, crashes>>

CommitObserve ==
    /\ Commit("observe", "none")
    /\ history' = [history EXCEPT ![page.gen] =
                      Observed(@, Held(page.gen), page.first, page.last)]
    /\ UNCHANGED <<cursor, stored, eventVars, callVars, roomVars, crashes>>

-----------------------------------------------------------------------------
\* _reconcile_history, for an interval that must be complete and is not.

\* An interval that begins before the retained ring cannot be repaired.
Repairable(start) ==
    LET h == history[stored] IN h.availFrom # None => start >= h.availFrom

\* The export's generation is compared, if it names one; its records are held and the
\* history is derived anew from the ring it shows.  At `trusting' the export is of another
\* generation, and goes through because it does not say so.
ReceiveExport(p) ==
    \/ p.gen = stored /\ Call("repairing", p.records, "replace", Exported(p), 0)
    \/ p.gen # stored /\ Call("repairing", {}, "doubt", NoPage, 0)
    \/ p.gen # stored /\ Call("trusting", p.records, "replace", Exported(p), 0)

Reconcile ==
    /\ place = "idle" /\ stored # None
    /\ \E start, end \in Seqs : /\ end <= history[stored].highest
                                /\ ~IsComplete(history[stored], start, end)
                                /\ Repairable(start)
    /\ \/ \E p \in Export : ReceiveExport(p)
       \/ Call("repairing", {}, "doubt", NoPage, 0)   \* no answer
    /\ UNCHANGED <<durableVars, roomVars, crashes>>

CommitRepair ==
    /\ \/ /\ Commit("replace", "none")
          /\ history' = [history EXCEPT ![stored] =
                            Observed(NoHistory, Held(stored), page.first, page.last)]
       \/ /\ Commit("doubt", "none")
          /\ history' = [history EXCEPT ![stored].required = TRUE]
    /\ UNCHANGED <<cursor, stored, eventVars, callVars, roomVars, crashes>>

Repaired ==
    /\ Repairing /\ Committed
    /\ Return
    /\ UNCHANGED <<durableVars, roomVars, crashes>>

-----------------------------------------------------------------------------
\* The room, and the end of the process.

Trim ==
    /\ floor < last /\ floor' = floor + 1
    /\ UNCHANGED <<durableVars, callVars, commitVars, gen, last, posted, crashes>>

Recreate ==
    /\ gen < MaxGen /\ gen' = gen + 1 /\ floor' = 1 /\ last' = 0
    /\ UNCHANGED <<durableVars, callVars, commitVars, posted, crashes>>

Arrive ==
    /\ last < MaxSeq /\ last' = last + 1
    /\ posted < MaxRecords /\ posted' = posted + 1
    /\ UNCHANGED <<durableVars, callVars, commitVars, gen, floor, crashes>>

Crash ==
    /\ place # "idle" /\ crashes < MaxCrashes /\ crashes' = crashes + 1
    /\ Return
    /\ UNCHANGED <<durableVars, roomVars>>

HistoryStep == ReadAgain \/ CommitReset \/ CommitEvent \/ CommitObserve
                 \/ Reconcile \/ CommitRepair \/ Repaired

-----------------------------------------------------------------------------
\* An interval that is called complete is held without a gap, as records of its own
\* generation: through crashes between the records and the summary, a ring that moves on,
\* a room that is replaced between two responses, and an export.  Only the records that came
\* with an export that named no generation may be another generation's.
CompleteIsHeld ==
    \A g \in Gen : \A start, end \in Seqs :
        start <= end /\ IsComplete(history[g], start, end)
            => \A s \in start .. end : events[<<g, s>>] = g \/ <<g, s>> \in misfiled
=============================================================================
