------------------------------- MODULE Reflex --------------------------------
(***************************************************************************)
(* Short replies to those who speak to Saruku while teams form              *)
(* (FormationReflexResponder and its two calls in Daemon._discovery): to an *)
(* invitation or a roster in the discovery room, then to a message in the   *)
(* room of the team it may join.                                            *)
(*                                                                         *)
(* Each room is read from a frontier, one trigger a cycle and room; every   *)
(* change of a row is a commit of its own.  One generation of each room; a  *)
(* record may come to be held late, through an export.  A game in which     *)
(* Saruku is ready is an answer of the formation's, one or the other at     *)
(* each question.                                                           *)
(***************************************************************************)
EXTENDS Naturals, FiniteSetsExt

CONSTANTS MaxSeq,      \* bound: records of a room
          MaxCrashes   \* bound: crashes of the daemon

ASSUME ReflexAssumption == MaxSeq \in Nat \ {0} /\ MaxCrashes \in Nat

Room == {"discovery", "team"}
Trigger == [room : Room, seq : 1 .. MaxSeq]
\* Only the discovery room has invitations; a roster there and a message in the team's room
\* are nudges; what does not concern Saruku is other.  A message of the team's room may be
\* JSON and no object; what is kept of the discovery room always is one.
Kinds(room) == {"nudge", "other"} \cup (IF room = "discovery" THEN {"invite"} ELSE {"malformed"})
Inactive == MaxSeq + 1    \* no row in formation_reflex_frontiers
NoTrigger == [room |-> "discovery", seq |-> 0]

VARIABLES
    source,     \* formation_events, team_source_events: the kind of each record held
    frontier,   \* formation_reflex_frontiers
    row,        \* formation_reflex_processing: its status
    intent,     \* protocol_outbox: the reply's delivery
    fresh,      \* the rows whose processed_at is less than a minute ago
    \* volatile
    place, at,  \* where in run_once the daemon is, and the trigger it is about
    delivered,  \* whether the post succeeded, as it was told
    \* the world
    replies,    \* replies to each trigger that reached the room
    crashes

durableVars == <<source, frontier, row, intent>>
callVars == <<place, at, delivered>>
vars == <<durableVars, fresh, callVars, replies, crashes>>

TypeOK ==
    /\ source \in [Trigger -> {"none", "nudge", "other", "invite", "malformed"}]
    /\ \A t \in Trigger : source[t] \in Kinds(t.room) \cup {"none"}
    /\ frontier \in [Room -> 0 .. Inactive]
    /\ row \in [Trigger -> {"none", "LLM_STARTED", "NO_REPLY", "POST_INTENT",
                            "DELIVERY_UNKNOWN", "REPLIED"}]
    /\ intent \in [Trigger -> {"none", "POSTED_UNCONFIRMED", "DELIVERY_UNKNOWN", "CONFIRMED"}]
    /\ \A t \in fresh : row[t] \in {"POST_INTENT", "DELIVERY_UNKNOWN", "REPLIED"}
    /\ place \in Room \cup {"idle", "llm", "persist", "post", "settle", "close"}
    /\ at \in Trigger \cup {NoTrigger} /\ delivered \in BOOLEAN
    /\ replies \in [Trigger -> Nat]
    /\ \A t \in Trigger : row[t] = "REPLIED" => intent[t] = "CONFIRMED"
    /\ crashes \in 0 .. MaxCrashes

\* A database that is new, or one of a version that answered without frontiers.
Init ==
    /\ source \in [Trigger -> {"none", "invite", "nudge"}]
    /\ \A t \in Trigger : source[t] \in Kinds(t.room) \cup {"none"}
    /\ \E replied \in SUBSET {t \in Trigger : source[t] # "none"} :
          /\ row = [t \in Trigger |-> IF t \in replied THEN "REPLIED" ELSE "none"]
          /\ intent = [t \in Trigger |-> IF t \in replied THEN "CONFIRMED" ELSE "none"]
          /\ replies = [t \in Trigger |-> IF t \in replied THEN 1 ELSE 0]
          /\ fresh \in SUBSET replied
    /\ frontier = [r \in Room |-> Inactive]
    /\ place = "idle" /\ at = NoTrigger /\ delivered = FALSE /\ crashes = 0

Held(room) == {t \in Trigger : t.room = room /\ source[t] # "none"}
Go(where, trigger) == place' = where /\ at' = trigger

\* The room that is looked at after this one; a team's room only if Saruku has one.
After(room) == IF room = "discovery" THEN {"team", "idle"} ELSE {"idle"}
Pass(room) == \E next \in After(room) : Go(next, NoTrigger)

-----------------------------------------------------------------------------
\* _frontier, _next_trigger, _next_team_trigger

Processed(room) == {t \in Held(room) : row[t] # "none"}

\* What was last processed, or in a room that is looked at for the first time what is held.
Baseline(room) ==
    LET known == IF Processed(room) # {} THEN Processed(room) ELSE Held(room)
    IN  Max({t.seq : t \in known} \cup {0})

\* A room without a frontier is answered from its baseline on.
Activate(room) ==
    /\ place = room /\ frontier[room] = Inactive
    /\ frontier' = [frontier EXCEPT ![room] = Baseline(room)]
    /\ Pass(room)
    /\ UNCHANGED <<source, row, intent, fresh, delivered, replies, crashes>>

\* Fault: a reply that was begun and not confirmed is begun again.
WaitingOrUnsure(room) ==
    {t \in Held(room) : row[t] = "POST_INTENT" \/ (t.seq > frontier[room] /\ row[t] = "none")}

Waiting(room) == {t \in Held(room) : t.seq > frontier[room] /\ row[t] = "none"}

\* Fault: invitations go first.
FirstInvited(waiting) ==
    LET invited == {t \in waiting : source[t] = "invite"}
    IN  CHOOSE t \in waiting :
            /\ invited # {} => t \in invited
            /\ \A u \in waiting : (invited # {} => u \in invited) => t.seq <= u.seq

First(waiting) == CHOOSE t \in waiting : \A u \in waiting : t.seq <= u.seq

\* The room has records that wait, at the place the daemon is.
Found(room) ==
    /\ place = room /\ frontier[room] # Inactive /\ Waiting(room) # {}

Advanced(t) == [frontier EXCEPT ![t.room] = Max({@, t.seq})]

Skip(room) ==
    /\ Found(room)
    /\ LET t == First(Waiting(room)) IN source[t] = "other" /\ frontier' = Advanced(t)
    /\ UNCHANGED <<source, row, intent, fresh, callVars, replies, crashes>>

\* What is no object has no fields to ask for: the AttributeError ends the process, and the
\* next one finds the message where it was.
Malformed(room) ==
    /\ Found(room) /\ source[First(Waiting(room))] = "malformed"
    /\ Go("idle", NoTrigger)
    /\ UNCHANGED <<durableVars, fresh, delivered, replies, crashes>>

NothingFound(room) ==
    /\ place = room /\ frontier[room] # Inactive /\ Waiting(room) = {}
    /\ Pass(room)
    /\ UNCHANGED <<durableVars, fresh, delivered, replies, crashes>>

-----------------------------------------------------------------------------
\* run_once

\* The kinds that concern Saruku.
ToSaruku == {"invite", "nudge"}

TeamReady(room) ==
    /\ Found(room) /\ source[First(Waiting(room))] \in ToSaruku
    /\ Pass(room)
    /\ UNCHANGED <<durableVars, fresh, delivered, replies, crashes>>

\* Fault: a room has a minute of its own.
CoolingHere(t) ==
    source[t] = "nudge" /\ \E u \in fresh : row[u] = "REPLIED" /\ u.room = t.room

\* Within a minute of a confirmed reply only an invitation is answered.
Cooling(t) == source[t] = "nudge" /\ \E u \in fresh : row[u] = "REPLIED"

CoolDown(room) ==
    /\ Found(room)
    /\ LET t == First(Waiting(room))
       IN  Cooling(t) /\ row' = [row EXCEPT ![t] = "NO_REPLY"]
    /\ Pass(room)
    /\ UNCHANGED <<source, frontier, intent, fresh, delivered, replies, crashes>>

Begin(room) ==
    /\ Found(room)
    /\ LET t == First(Waiting(room))
       IN  /\ source[t] \in ToSaruku /\ ~Cooling(t)
           /\ row' = [row EXCEPT ![t] = "LLM_STARTED"] /\ frontier' = Advanced(t)
           /\ Go("llm", t)
    /\ UNCHANGED <<source, intent, fresh, delivered, replies, crashes>>

Decline ==
    /\ place = "llm"
    /\ row' = [row EXCEPT ![at] = "NO_REPLY"]
    /\ Pass(at.room)
    /\ UNCHANGED <<source, frontier, intent, fresh, delivered, replies, crashes>>

\* The model's text, or if it fails the template's.
Intend ==
    /\ place = "llm"
    /\ row' = [row EXCEPT ![at] = "POST_INTENT"] /\ fresh' = fresh \cup {at}
    /\ Go("persist", at)
    /\ UNCHANGED <<source, frontier, intent, delivered, replies, crashes>>

PersistIntent ==
    /\ place = "persist"
    /\ intent' = [intent EXCEPT ![at] = "POSTED_UNCONFIRMED"]
    /\ Go("post", at)
    /\ UNCHANGED <<source, frontier, row, fresh, delivered, replies, crashes>>

\* A post that failed may have reached the room.
Post ==
    /\ place = "post"
    /\ \E reached, confirmed \in BOOLEAN :
          /\ confirmed => reached
          /\ replies' = [replies EXCEPT ![at] = IF reached THEN @ + 1 ELSE @]
          /\ delivered' = confirmed
    /\ Go("settle", at)
    /\ UNCHANGED <<durableVars, fresh, crashes>>

\* Fault: a reply that got through leaves its delivery as it was.
OutcomeIfFailed == IF delivered THEN intent[at] ELSE "DELIVERY_UNKNOWN"

Outcome == IF delivered THEN "CONFIRMED" ELSE "DELIVERY_UNKNOWN"

Settle ==
    /\ place = "settle"
    /\ intent' = [intent EXCEPT ![at] = Outcome]
    /\ Go("close", at)
    /\ UNCHANGED <<source, frontier, row, fresh, delivered, replies, crashes>>

\* With a reply, sent or not, the cycle is over.
Close ==
    /\ place = "close"
    /\ row' = [row EXCEPT ![at] = IF delivered THEN "REPLIED" ELSE "DELIVERY_UNKNOWN"]
    /\ Go("idle", NoTrigger) /\ delivered' = FALSE
    /\ UNCHANGED <<source, frontier, intent, fresh, replies, crashes>>

-----------------------------------------------------------------------------
\* Between calls: the next cycle, the sources, the clock; and the end of the process.

CycleBegins ==
    /\ place = "idle" /\ Go("discovery", NoTrigger)
    /\ UNCHANGED <<durableVars, fresh, delivered, replies, crashes>>

Synced ==
    /\ place = "idle"
    /\ \E t \in Trigger : /\ source[t] = "none"
                         /\ \E k \in Kinds(t.room) : source' = [source EXCEPT ![t] = k]
    /\ UNCHANGED <<frontier, row, intent, fresh, callVars, replies, crashes>>

MinutePasses ==
    /\ fresh # {} /\ \E f \in SUBSET fresh : f # fresh /\ fresh' = f
    /\ UNCHANGED <<durableVars, callVars, replies, crashes>>

Crash ==
    /\ place # "idle" /\ crashes < MaxCrashes /\ crashes' = crashes + 1
    /\ Go("idle", NoTrigger) /\ delivered' = FALSE
    /\ UNCHANGED <<durableVars, fresh, replies>>

Next ==
    \/ \E room \in Room : Activate(room) \/ Skip(room) \/ Malformed(room) \/ NothingFound(room)
                          \/ TeamReady(room) \/ CoolDown(room) \/ Begin(room)
    \/ Decline \/ Intend \/ PersistIntent \/ Post \/ Settle \/ Close
    \/ CycleBegins \/ Synced \/ MinutePasses \/ Crash

Spec == Init /\ [][Next]_vars

-----------------------------------------------------------------------------
\* Nobody is answered twice, and no reply is in a room that is not on record as one that
\* may have been sent: not after a post that failed, nor a crash before its outcome is kept.
AnsweredOnce ==
    \A t \in Trigger : replies[t] <= 1 /\ (replies[t] = 1 => intent[t] # "none")

\* The frontier never passes a held record that concerns Saruku and has no row: neither an
\* invitation that is answered while the cooldown holds others back, nor a crash, makes
\* what came before it forgotten.
NothingPassedOver ==
    [][\A room \in Room : frontier[room] # Inactive =>
          \A t \in Held(room) :
             t.seq > frontier[room] /\ t.seq <= frontier'[room] /\ source[t] \in ToSaruku
                => row'[t] # "none"]_vars

\* A nudge is not answered within a minute of another reply, in whichever room, through any
\* crash, unless that reply's own outcome was not learned, or a crash kept its row from
\* being closed.
NudgesAreSpaced ==
    [][\A t \in Trigger : replies'[t] # replies[t] /\ source[t] = "nudge" =>
          \A u \in fresh \ {t} :
             replies[u] = 0 \/ row[u] \in {"DELIVERY_UNKNOWN", "POST_INTENT"}]_vars
=============================================================================
