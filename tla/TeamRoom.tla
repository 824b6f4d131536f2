------------------------------ MODULE TeamRoom -------------------------------
(***************************************************************************)
(* Whether a team's poem room is still open (Daemon._team_room_open,        *)
(* TeamIntelligence.sync_sources with the referee as the only sender,       *)
(* close_team_room): Saruku consents to a roster only while no accepted     *)
(* word has frozen its room.                                                *)
(*                                                                         *)
(* One room, read as History models it.  That the referee owns the room is  *)
(* an answer of the server's.  The verdict is kept until the end of the     *)
(* cycle and reconsidered in the next.                                      *)
(***************************************************************************)
EXTENDS History

VARIABLES
    checked, sources,   \* team_source_processing, team_source_events
    closed,             \* generations closed in team_room_status
    asked, verdict,     \* the generation asked about, and the answer
    words               \* the world: the records that are accepted words

sourceVars == <<checked, sources, closed>>
vars == <<historyVars, sourceVars, asked, verdict, words>>

RoomCommits == HistoryCommits \cup {"close"}

TypeOK ==
    /\ HistoryTypeOK
    /\ due \in RoomCommits
    /\ place \in {"idle", "again", "reading", "repairing", "trusting", "syncing"}
    /\ checked \subseteq Gen \X Seqs /\ sources \subseteq checked /\ closed \subseteq Gen
    /\ asked \in Gen \cup {None} /\ verdict \in {"none", "open", "shut"}
    /\ words \subseteq Gen \X Seqs

Init ==
    /\ HistoryInit
    /\ checked = {} /\ sources = {} /\ closed = {}
    /\ asked = None /\ verdict = "none" /\ words = {}

-----------------------------------------------------------------------------
\* A room is asked about, or read for its own sake.

Ask(g) ==
    /\ place = "idle" /\ asked = None
    /\ asked' = g
    /\ \/ verdict' = "shut" /\ UNCHANGED <<callVars, commitVars>>     \* not the referee's
       \/ verdict' = "none" /\ \E p \in Pages(cursor) : Receive(p)
    /\ UNCHANGED <<durableVars, roomVars, crashes, sourceVars, words>>

Read ==
    /\ place = "idle" /\ asked = None
    /\ \E p \in Pages(cursor) : Receive(p)
    /\ UNCHANGED <<durableVars, roomVars, crashes, sourceVars, asked, verdict, words>>

ReadDone ==
    /\ place = "reading" /\ Committed /\ asked = None
    /\ Return
    /\ UNCHANGED <<durableVars, roomVars, crashes, sourceVars, asked, verdict, words>>

Answer(v) == verdict' = v /\ Return

WrongGeneration ==
    /\ place = "reading" /\ Committed /\ asked # None /\ stored # asked
    /\ Answer("shut")
    /\ UNCHANGED <<durableVars, roomVars, crashes, sourceVars, asked, words>>

\* unprocessed_team_sources
Unchecked(g) == {s \in Held(g) : <<g, s>> \notin checked}

Sync ==
    /\ place = "reading" /\ Committed /\ stored = asked
    /\ Call("syncing", {}, "none", NoPage, 0)
    /\ UNCHANGED <<durableVars, roomVars, crashes, sourceVars, asked, verdict, words>>

\* Fault: keeping a word does not mark it.
MarksOthers(isWord) == ~isWord

Marks(isWord) == TRUE

\* sync_sources, a transaction for each record in turn: another's is marked; the referee's
\* accepted word is kept and marked in one, and freezes the room in the next.
CommitSource ==
    /\ place = "syncing" /\ Committed /\ Unchecked(asked) # {}
    /\ LET record == <<asked, Min(Unchecked(asked))>>
           isWord == <<events[record], record[2]>> \in words
       IN  /\ checked' = IF Marks(isWord) THEN checked \cup {record} ELSE checked
           /\ sources' = IF isWord THEN sources \cup {record} ELSE sources
           /\ due' = IF isWord THEN "close" ELSE "none"
    /\ UNCHANGED <<durableVars, callVars, batch, roomVars, crashes, closed, asked, verdict, words>>

\* close_team_room
CloseRoom ==
    /\ Commit("close", "none")
    /\ closed' = closed \cup {asked}
    /\ UNCHANGED <<durableVars, callVars, roomVars, crashes, checked, sources, asked, verdict, words>>

\* Fault: a room that is not closed is open.
VerdictOnClosing(g) == IF g \in closed THEN "shut" ELSE "open"

Verdict(g) == IF g \notin closed /\ IsComplete(history[g], 1, history[g].highest)
                THEN "open" ELSE "shut"

Synced ==
    /\ place = "syncing" /\ Committed /\ Unchecked(asked) = {}
    /\ Answer(Verdict(asked))
    /\ UNCHANGED <<durableVars, roomVars, crashes, sourceVars, asked, words>>

\* The cycle ends, and with it the cache of verdicts.
CycleEnds ==
    /\ place = "idle" /\ asked # None
    /\ asked' = None /\ verdict' = "none"
    /\ UNCHANGED <<historyVars, sourceVars, words>>

-----------------------------------------------------------------------------
Elsewhere == UNCHANGED <<sourceVars, asked, verdict, words>>

Died == Crash /\ asked' = None /\ verdict' = "none" /\ UNCHANGED <<sourceVars, words>>

RecordArrives ==
    /\ Arrive
    /\ words' \in {words, words \cup {<<gen, last'>>}}
    /\ UNCHANGED <<sourceVars, asked, verdict>>

Daemon == \/ \E g \in Gen : Ask(g)
          \/ Read \/ ReadDone \/ WrongGeneration \/ Sync \/ CommitSource \/ CloseRoom
          \/ Synced \/ CycleEnds
          \/ (asked = None \/ place # "idle") /\ HistoryStep /\ Elsewhere

\* The world is looked at in a response only, so that it need not move between the
\* commits that follow one.
World == /\ place = "again" \/ (place = "idle" /\ asked = None)
         /\ RecordArrives \/ ((Trim \/ Recreate) /\ Elsewhere)

Next == Daemon \/ World \/ Died

Spec == Init /\ [][Next]_vars

-----------------------------------------------------------------------------
\* A room is taken for open only if no record up to the newest one known of is an accepted
\* word: not one in a gap, not one that left the ring before it was read, nor one of the
\* part that was read before.  Only a crash between keeping the word and closing the room
\* lets one pass.
OpenIsUnfrozen ==
    verdict = "open" =>
        \A s \in 1 .. history[asked].highest :
            <<asked, s>> \in words => <<asked, s>> \in sources /\ crashes > 0

=============================================================================
