----------------------------- MODULE ReflexProofs -----------------------------
(***************************************************************************)
(* Proofs about Reflex for rooms of any length and any number of crashes.   *)
(*                                                                         *)
(* The argument: a trigger's row leaves "none" only once, when the trigger  *)
(* is the first that waits, and the call is then about it alone.  Whoever   *)
(* crashes leaves the row behind, and a row that is not "none" is never     *)
(* taken up again; so a reply is sent at most in the call that made the     *)
(* row, and what the frontier passes is either no trigger or has a row.     *)
(***************************************************************************)
EXTENDS Reflex, WellFoundedInduction, TLAPS

USE ReflexAssumption

-----------------------------------------------------------------------------
\* First and Max.

\* Every set of naturals that is not empty has a least element.
LEMMA LeastExists ==
  ASSUME NEW S \in SUBSET Nat, S # {}
  PROVE  \E x \in S : \A y \in S : x <= y
<1> DEFINE Less == {ss \in Nat \X Nat : ss[1] < ss[2]}
<1>1. IsWellFoundedOn(Less, Nat)
  BY NatLessThanWellFounded, Zenon DEF OpToRel
<1>2. \A x, y \in Nat : <<y, x>> \notin Less => x <= y
  OBVIOUS
<1> HIDE DEF Less
<1>3. PICK x \in S : \A y \in S : <<y, x>> \notin Less
  BY <1>1, WFMin, Zenon
<1>4. \A y \in S : x <= y
  BY <1>2, <1>3, Zenon
<1> QED BY <1>4, Zenon

\* First is one of the triggers that wait, and none of them comes before it.
LEMMA FirstIsLeast ==
  ASSUME NEW waiting \in SUBSET Trigger, waiting # {}
  PROVE  First(waiting) \in waiting /\ \A u \in waiting : First(waiting).seq <= u.seq
<1> DEFINE seqs == {u.seq : u \in waiting}
<1>1. seqs \in SUBSET Nat /\ seqs # {}
  BY DEF Trigger
<1>2. PICK n \in seqs : \A m \in seqs : n <= m
  BY <1>1, LeastExists
<1>3. \E t \in waiting : \A u \in waiting : t.seq <= u.seq
  BY <1>2
<1> QED BY <1>3 DEF First

\* A set of sequence numbers that is not empty has a greatest element.
LEMMA MaxIsGreatest ==
  ASSUME NEW S \in SUBSET (0 .. MaxSeq), S # {}
  PROVE  Max(S) \in S /\ \A y \in S : Max(S) >= y
<1> DEFINE below == {MaxSeq - y : y \in S}
<1>a. \A y \in S : y \in Int /\ MaxSeq - y \in Nat
  OBVIOUS
<1>1. below \in SUBSET Nat /\ below # {}
  BY <1>a
<1>2. PICK n \in below : \A m \in below : n <= m
  BY <1>1, LeastExists
<1>3. PICK x \in S : n = MaxSeq - x
  BY <1>2
<1>4. \A y \in S : MaxSeq - y \in below
  OBVIOUS
<1>5. \A y \in S : x >= y
  <2> SUFFICES ASSUME NEW y \in S PROVE x >= y
    OBVIOUS
  <2>1. MaxSeq - x <= MaxSeq - y
    BY <1>2, <1>3, <1>4
  <2> QED BY <1>a, <2>1
<1> QED BY <1>5 DEF Max

\* The frontier goes to the trigger, or stays where it is if that is further.
LEMMA AdvancedIs ==
  ASSUME TypeOK, NEW t \in Trigger, frontier[t.room] < t.seq
  PROVE  Advanced(t) = [frontier EXCEPT ![t.room] = t.seq]
<1>1. frontier[t.room] \in Nat /\ t.seq \in Nat
  BY DEF TypeOK, Trigger
<1>2. \A x \in {frontier[t.room], t.seq} : t.seq >= x
  BY <1>1
<1>3. Max({frontier[t.room], t.seq}) = t.seq
  BY <1>1, <1>2 DEF Max
<1> QED BY <1>3 DEF Advanced

-----------------------------------------------------------------------------
\* The inductive invariant.

Calling == place \in {"llm", "persist", "post", "settle", "close"}

\* The call is about a trigger whose row it has made and not closed.
CallInv ==
    /\ Calling => at \in Trigger /\ source[at] # "none"
    /\ place = "llm" => row[at] = "LLM_STARTED"
    /\ place \in {"persist", "post", "settle", "close"} => row[at] = "POST_INTENT"
    /\ place = "persist" => intent[at] = "none"
    /\ place = "post" => intent[at] # "none" /\ replies[at] = 0
    /\ place = "settle" => intent[at] # "none"
    /\ place = "close" => intent[at] = Outcome

\* A row that no reply was written for has no delivery, and without one nothing was sent.
RowInv ==
    \A t \in Trigger :
        /\ row[t] \in {"none", "LLM_STARTED", "NO_REPLY"} => intent[t] = "none"
        /\ intent[t] = "none" => replies[t] = 0
        /\ replies[t] <= 1

\* A nudge is being answered only while no confirmed reply is fresh.
CoolInv ==
    place \in {"llm", "persist", "post"} /\ source[at] = "nudge" =>
        \A u \in fresh : row[u] # "REPLIED"

FreshInv == fresh \subseteq Trigger

IInv == TypeOK /\ FreshInv /\ CallInv /\ RowInv /\ CoolInv

LEMMA InitIInv == Init => IInv
<1> SUFFICES ASSUME Init PROVE IInv
  OBVIOUS
<1>1. frontier \in [Room -> 0 .. Inactive] /\ crashes \in 0 .. MaxCrashes
  BY DEF Init, Inactive
<1>2. PICK replied \in SUBSET {t \in Trigger : source[t] # "none"} :
        /\ row = [t \in Trigger |-> IF t \in replied THEN "REPLIED" ELSE "none"]
        /\ intent = [t \in Trigger |-> IF t \in replied THEN "CONFIRMED" ELSE "none"]
        /\ replies = [t \in Trigger |-> IF t \in replied THEN 1 ELSE 0]
        /\ fresh \in SUBSET replied
  BY DEF Init
<1>3. FreshInv /\ RowInv
  BY <1>2 DEF FreshInv, RowInv
<1>4. TypeOK
  <2>1. place = "idle" /\ at = NoTrigger /\ delivered = FALSE
    BY DEF Init
  <2>2. /\ source \in [Trigger -> {"none", "nudge", "other", "invite", "malformed"}]
        /\ \A t \in Trigger : source[t] \in Kinds(t.room) \cup {"none"}
    BY DEF Init
  <2>3. /\ row \in [Trigger -> {"none", "LLM_STARTED", "NO_REPLY", "POST_INTENT",
                                "DELIVERY_UNKNOWN", "REPLIED"}]
        /\ intent \in [Trigger -> {"none", "POSTED_UNCONFIRMED", "DELIVERY_UNKNOWN",
                                   "CONFIRMED"}]
        /\ replies \in [Trigger -> Nat]
    BY <1>2
  <2>4. /\ \A t \in fresh : row[t] \in {"POST_INTENT", "DELIVERY_UNKNOWN", "REPLIED"}
        /\ \A t \in Trigger : row[t] = "REPLIED" => intent[t] = "CONFIRMED"
    BY <1>2
  <2> QED BY <1>1, <2>1, <2>2, <2>3, <2>4 DEF TypeOK
<1> QED BY <1>3, <1>4 DEF Init, IInv, CallInv, CoolInv, Calling

\* The trigger that is taken up has no row yet and lies beyond the frontier.
LEMMA FoundFirst ==
  ASSUME TypeOK, NEW room \in Room, Found(room)
  PROVE  /\ First(Waiting(room)) \in Trigger /\ First(Waiting(room)).room = room
         /\ source[First(Waiting(room))] # "none" /\ row[First(Waiting(room))] = "none"
         /\ First(Waiting(room)).seq > frontier[room]
         /\ \A u \in Waiting(room) : First(Waiting(room)).seq <= u.seq
<1>1. Waiting(room) \in SUBSET Trigger /\ Waiting(room) # {}
  BY DEF Found, Waiting, Held
<1>2. First(Waiting(room)) \in Waiting(room)
  BY <1>1, FirstIsLeast
<1> QED BY <1>1, <1>2, FirstIsLeast DEF Waiting, Held

LEMMA PassPlace ==
  ASSUME NEW room \in Room, Pass(room)
  PROVE  place' \in Room \cup {"idle"} /\ at' = NoTrigger
  BY DEF Pass, After, Go, Room

\* Nothing but the place changes, and it leaves the call if there was one.
LEMMA LeavesCall ==
  ASSUME IInv, place' \in Room \cup {"idle"}, at' = NoTrigger, delivered' \in BOOLEAN,
         UNCHANGED <<durableVars, fresh, replies>>, crashes' \in 0 .. MaxCrashes
  PROVE  IInv'
<1> USE DEF IInv, durableVars, Room
<1>1. TypeOK'   BY DEF TypeOK
<1>2. ~Calling'  BY DEF Calling
<1>3. CallInv' /\ RowInv' /\ FreshInv'
  BY <1>2 DEF CallInv, RowInv, FreshInv, Calling
<1>4. CoolInv'
  BY <1>2 DEF CoolInv, Calling
<1> QED BY <1>1, <1>3, <1>4

-----------------------------------------------------------------------------
\* Every action keeps the invariant.

LEMMA LookStep ==
  ASSUME IInv, NEW room \in Room,
         Activate(room) \/ Skip(room) \/ Malformed(room) \/ NothingFound(room)
            \/ TeamReady(room)
  PROVE  IInv'
<1> USE DEF IInv, durableVars, callVars
<1>0. ~Calling /\ room = place
  BY DEF Calling, Room, Activate, Skip, Malformed, NothingFound, TeamReady,
     Found
<1>1. CASE Malformed(room) \/ NothingFound(room) \/ TeamReady(room)
  <2>1. place' \in Room \cup {"idle"} /\ at' = NoTrigger
    BY <1>1, PassPlace DEF Malformed, NothingFound, TeamReady, Go
  <2> QED BY <1>1, <2>1, LeavesCall DEF Malformed, NothingFound, TeamReady, TypeOK
<1>2. CASE Activate(room)
  <2> DEFINE known == IF Processed(room) # {} THEN Processed(room) ELSE Held(room)
             seqs == {t.seq : t \in known} \cup {0}
  <2>1. seqs \in SUBSET (0 .. MaxSeq) /\ seqs # {}
    BY DEF Processed, Held, Trigger
  <2>2. Max(seqs) \in 0 .. MaxSeq
    BY <2>1, MaxIsGreatest
  <2> HIDE DEF seqs
  <2>3. frontier' = [frontier EXCEPT ![room] = Max(seqs)]
    BY <1>2 DEF Activate, Baseline, seqs
  <2>4. frontier' \in [Room -> 0 .. Inactive]
    BY <2>2, <2>3 DEF TypeOK, Inactive
  <2>5. place' \in Room \cup {"idle"} /\ at' = NoTrigger
    BY <1>2, PassPlace DEF Activate
  <2>6. TypeOK'
    BY <1>2, <2>4, <2>5 DEF Activate, TypeOK
  <2>7. ~Calling'
    BY <2>5 DEF Calling, Room
  <2> QED BY <1>0, <1>2, <2>6, <2>7 DEF Activate, FreshInv, CallInv, RowInv, CoolInv, Calling
<1>3. CASE Skip(room)
  <2>1. First(Waiting(room)) \in Trigger /\ First(Waiting(room)).room = room
        /\ First(Waiting(room)).seq > frontier[room]
    BY <1>3, FoundFirst DEF Skip
  <2>2. frontier' = [frontier EXCEPT ![room] = First(Waiting(room)).seq]
    BY <1>3, <2>1, AdvancedIs DEF Skip
  <2>3. frontier' \in [Room -> 0 .. Inactive]
    BY <2>1, <2>2 DEF TypeOK, Inactive, Trigger
  <2>4. TypeOK'
    BY <1>3, <2>3 DEF Skip, TypeOK
  <2>5. UNCHANGED <<source, row, intent, fresh, place, at, delivered, replies, crashes>>
    BY <1>3 DEF Skip
  <2> QED BY <2>4, <2>5 DEF FreshInv, CallInv, RowInv, CoolInv, Calling, Outcome
<1> QED BY <1>1, <1>2, <1>3

LEMMA CoolDownStep ==
  ASSUME IInv, NEW room \in Room, CoolDown(room)
  PROVE  IInv'
<1> USE DEF IInv
<1> DEFINE t == First(Waiting(room))
<1>1. t \in Trigger /\ row[t] = "none"
  BY FoundFirst DEF CoolDown
<1> HIDE DEF t
<1>2. place' \in Room \cup {"idle"} /\ at' = NoTrigger
  BY PassPlace DEF CoolDown
<1>3. row' = [row EXCEPT ![t] = "NO_REPLY"] /\ place = room
  BY DEF CoolDown, Found, t
<1>4. UNCHANGED <<source, frontier, intent, fresh, delivered, replies, crashes>>
  BY DEF CoolDown
<1>5. TypeOK'
  BY <1>1, <1>2, <1>3, <1>4 DEF TypeOK
<1>6. ~Calling /\ ~Calling'
  BY <1>2, <1>3 DEF Calling, Room
<1>7. CallInv'
  BY <1>6 DEF CallInv, Calling
<1> QED BY <1>1, <1>3, <1>4, <1>5, <1>6, <1>7 DEF FreshInv, RowInv, CoolInv, TypeOK, Calling

LEMMA BeginStep ==
  ASSUME IInv, NEW room \in Room, Begin(room)
  PROVE  IInv'
<1> USE DEF IInv
<1> DEFINE t == First(Waiting(room))
<1>1. /\ t \in Trigger /\ t.room = room /\ row[t] = "none" /\ source[t] # "none"
      /\ t.seq > frontier[room]
  BY FoundFirst DEF Begin
<1>2. /\ row' = [row EXCEPT ![t] = "LLM_STARTED"] /\ place = room /\ place' = "llm" /\ at' = t
      /\ ~Cooling(t) /\ frontier' = Advanced(t)
      /\ UNCHANGED <<source, intent, fresh, delivered, replies, crashes>>
  BY DEF Begin, Found, Go
<1> HIDE DEF t
<1>3. frontier' = [frontier EXCEPT ![room] = t.seq]
  BY <1>1, <1>2, AdvancedIs
<1>4. frontier' \in [Room -> 0 .. Inactive]
  BY <1>1, <1>3 DEF TypeOK, Inactive, Trigger
<1>5. TypeOK'
  BY <1>1, <1>2, <1>4 DEF TypeOK
<1>6. ~Calling /\ Calling'
  BY <1>2 DEF Calling, Room
<1>7. CallInv' /\ RowInv' /\ FreshInv'
  BY <1>1, <1>2, <1>6 DEF CallInv, RowInv, FreshInv, TypeOK
<1>8. CoolInv'
  BY <1>1, <1>2, <1>6 DEF CoolInv, Cooling, TypeOK
<1> QED BY <1>5, <1>7, <1>8

LEMMA WriteStep ==
  ASSUME IInv, Decline \/ Intend \/ PersistIntent
  PROVE  IInv'
<1> USE DEF IInv
<1>0. Calling /\ at \in Trigger /\ source[at] # "none" /\ at.room \in Room
  BY DEF Calling, CallInv, Decline, Intend, PersistIntent, Trigger
<1>1. CASE Decline
  <2>1. place = "llm" /\ row[at] = "LLM_STARTED" /\ row' = [row EXCEPT ![at] = "NO_REPLY"]
        /\ UNCHANGED <<source, frontier, intent, fresh, delivered, replies, crashes>>
    BY <1>1 DEF Decline, CallInv
  <2>2. place' \in Room \cup {"idle"} /\ at' = NoTrigger
    BY <1>0, <1>1, PassPlace DEF Decline
  <2>3. ~Calling'
    BY <2>2 DEF Calling, Room
  <2>4. TypeOK'
    BY <1>0, <2>1, <2>2 DEF TypeOK
  <2>5. CoolInv'
    BY <1>0, <2>1, <2>2, <2>3 DEF CoolInv, TypeOK, Calling
  <2> QED BY <1>0, <2>1, <2>3, <2>4, <2>5 DEF FreshInv, CallInv, RowInv, TypeOK, Calling
<1>2. CASE Intend
  <2>1. /\ place = "llm" /\ row[at] = "LLM_STARTED" /\ row' = [row EXCEPT ![at] = "POST_INTENT"]
        /\ fresh' = fresh \cup {at} /\ place' = "persist" /\ at' = at
        /\ UNCHANGED <<source, frontier, intent, delivered, replies, crashes>>
    BY <1>2 DEF Intend, CallInv, Go
  <2>2. Calling'
    BY <2>1 DEF Calling
  <2>3. TypeOK'
    BY <1>0, <2>1 DEF TypeOK
  <2>4. CallInv' /\ RowInv' /\ FreshInv'
    BY <1>0, <2>1, <2>2 DEF CallInv, RowInv, FreshInv, TypeOK
  <2>5. CoolInv'
    BY <1>0, <2>1, <2>2 DEF CoolInv, TypeOK
  <2> QED BY <2>3, <2>4, <2>5
<1>3. CASE PersistIntent
  <2>1. /\ place = "persist" /\ row[at] = "POST_INTENT"
        /\ intent[at] = "none" /\ intent' = [intent EXCEPT ![at] = "POSTED_UNCONFIRMED"]
        /\ place' = "post" /\ at' = at
        /\ UNCHANGED <<source, frontier, row, fresh, delivered, replies, crashes>>
    BY <1>3 DEF PersistIntent, CallInv, Go
  <2>2. Calling'
    BY <2>1 DEF Calling
  <2>3. TypeOK'
    BY <1>0, <2>1 DEF TypeOK
  <2>4. CallInv' /\ RowInv' /\ FreshInv'
    BY <1>0, <2>1, <2>2 DEF CallInv, RowInv, FreshInv, TypeOK
  <2>5. CoolInv'
    BY <1>0, <2>1, <2>2 DEF CoolInv
  <2> QED BY <2>3, <2>4, <2>5
<1> QED BY <1>1, <1>2, <1>3

LEMMA PostStep ==
  ASSUME IInv, Post \/ Settle \/ Close
  PROVE  IInv'
<1> USE DEF IInv, durableVars
<1>0. Calling /\ at \in Trigger /\ source[at] # "none" /\ row[at] = "POST_INTENT"
  BY DEF Calling, CallInv, Post, Settle, Close
<1>1. CASE Post
  <2>1. /\ place = "post" /\ replies[at] = 0 /\ intent[at] # "none"
        /\ delivered' \in BOOLEAN /\ place' = "settle" /\ at' = at
        /\ replies' = replies \/ replies' = [replies EXCEPT ![at] = @ + 1]
        /\ UNCHANGED <<source, frontier, row, intent, fresh, crashes>>
    <3>1. PICK reached, confirmed \in BOOLEAN :
            /\ replies' = [replies EXCEPT ![at] = IF reached THEN @ + 1 ELSE @]
            /\ delivered' = confirmed
      BY <1>1 DEF Post
    <3>2. replies' = replies \/ replies' = [replies EXCEPT ![at] = @ + 1]
      BY <3>1, <1>0 DEF TypeOK
    <3> QED BY <1>1, <3>1, <3>2 DEF Post, CallInv, Go
  <2>2. Calling'
    BY <2>1 DEF Calling
  <2>3. replies' \in [Trigger -> Nat] /\ replies'[at] <= 1
        /\ \A t \in Trigger : t # at => replies'[t] = replies[t]
    BY <1>0, <2>1 DEF TypeOK
  <2>4. TypeOK'
    BY <1>0, <2>1, <2>3 DEF TypeOK
  <2>5. RowInv'
    BY <1>0, <2>1, <2>3 DEF RowInv
  <2> QED BY <1>0, <2>1, <2>2, <2>4, <2>5 DEF CallInv, FreshInv, CoolInv
<1>2. CASE Settle
  <2>1. /\ place = "settle" /\ place' = "close" /\ at' = at
        /\ intent[at] # "none" /\ intent' = [intent EXCEPT ![at] = Outcome]
        /\ UNCHANGED <<source, frontier, row, fresh, delivered, replies, crashes>>
    BY <1>2 DEF Settle, CallInv, Go
  <2>2. Calling'
    BY <2>1 DEF Calling
  <2>3. TypeOK'
    BY <1>0, <2>1 DEF TypeOK, Outcome
  <2> QED BY <1>0, <2>1, <2>2, <2>3 DEF CallInv, RowInv, FreshInv, CoolInv, Outcome, TypeOK
<1>3. CASE Close
  <2>1. /\ place = "close" /\ place' = "idle" /\ at' = NoTrigger /\ delivered' = FALSE
        /\ intent[at] = Outcome
        /\ row' = [row EXCEPT ![at] = IF delivered THEN "REPLIED" ELSE "DELIVERY_UNKNOWN"]
        /\ UNCHANGED <<source, frontier, intent, fresh, replies, crashes>>
    BY <1>3 DEF Close, CallInv, Go
  <2>2. ~Calling'
    BY <2>1 DEF Calling
  <2>3. TypeOK'
    <3>1. \A t \in Trigger : row'[t] = "REPLIED" => intent'[t] = "CONFIRMED"
      BY <1>0, <2>1 DEF TypeOK, Outcome
    <3>2. \A t \in fresh' : row'[t] \in {"POST_INTENT", "DELIVERY_UNKNOWN", "REPLIED"}
      BY <1>0, <2>1 DEF TypeOK, FreshInv
    <3> QED BY <1>0, <2>1, <3>1, <3>2 DEF TypeOK
  <2>4. CoolInv'
    BY <1>0, <2>1, <2>2 DEF CoolInv, TypeOK
  <2> QED BY <1>0, <2>1, <2>2, <2>3, <2>4 DEF CallInv, RowInv, FreshInv, Calling, TypeOK
<1> QED BY <1>1, <1>2, <1>3

LEMMA WorldStep ==
  ASSUME IInv, CycleBegins \/ Synced \/ MinutePasses \/ Crash
  PROVE  IInv'
<1> USE DEF IInv, durableVars, callVars
<1>1. CASE CycleBegins
  BY <1>1, LeavesCall DEF CycleBegins, Go, Room, TypeOK
<1>2. CASE Crash
  <2>1. crashes' \in 0 .. MaxCrashes
    BY <1>2 DEF Crash, TypeOK
  <2> QED BY <1>2, <2>1, LeavesCall DEF Crash, Go
<1>3. CASE Synced
  <2>1. PICK t \in Trigger : /\ source[t] = "none"
                             /\ \E k \in Kinds(t.room) : source' = [source EXCEPT ![t] = k]
    BY <1>3 DEF Synced
  <2>2. ~Calling /\ ~Calling'
    BY <1>3 DEF Synced, Calling
  <2>3. /\ source' \in [Trigger -> {"none", "nudge", "other", "invite", "malformed"}]
        /\ \A u \in Trigger : source'[u] \in Kinds(u.room) \cup {"none"}
    BY <2>1 DEF TypeOK, Kinds
  <2>4. TypeOK'
    BY <1>3, <2>3 DEF Synced, TypeOK
  <2> QED BY <1>3, <2>2, <2>4 DEF Synced, CallInv, RowInv, FreshInv, CoolInv, Calling
<1>4. CASE MinutePasses
  BY <1>4 DEF MinutePasses, TypeOK, CallInv, RowInv, FreshInv, CoolInv, Calling, Outcome
<1> QED BY <1>1, <1>2, <1>3, <1>4

LEMMA StutterStep == IInv /\ UNCHANGED vars => IInv'
  BY DEF IInv, vars, durableVars, callVars, TypeOK, CallInv, RowInv, FreshInv, CoolInv,
         Calling, Outcome

LEMMA IInvStep == IInv /\ [Next]_vars => IInv'
<1> SUFFICES ASSUME IInv, [Next]_vars PROVE IInv'
  OBVIOUS
<1>1. ASSUME NEW room \in Room,
             Activate(room) \/ Skip(room) \/ Malformed(room) \/ NothingFound(room)
                \/ TeamReady(room) \/ CoolDown(room) \/ Begin(room)
      PROVE  IInv'
  BY <1>1, LookStep, CoolDownStep, BeginStep
<1>2. CASE Decline \/ Intend \/ PersistIntent
  BY <1>2, WriteStep
<1>3. CASE Post \/ Settle \/ Close
  BY <1>3, PostStep
<1>4. CASE CycleBegins \/ Synced \/ MinutePasses \/ Crash
  BY <1>4, WorldStep
<1>5. CASE UNCHANGED vars
  BY <1>5, StutterStep
<1> QED BY <1>1, <1>2, <1>3, <1>4, <1>5 DEF Next

\* In every state the call under way, the rows and the deliveries agree.
THEOREM Invariant == Spec => []IInv
<1> QED BY InitIInv, IInvStep, PTL DEF Spec

-----------------------------------------------------------------------------
\* In every state each variable has its type.
THEOREM TypeCorrect == Spec => []TypeOK
<1>1. IInv => TypeOK
  BY DEF IInv
<1> QED BY Invariant, <1>1, PTL

\* Nobody is answered twice, and whatever is in a room is on record as possibly sent.
THEOREM AnsweredAtMostOnce == Spec => []AnsweredOnce
<1>1. IInv => AnsweredOnce
  BY DEF IInv, RowInv, AnsweredOnce
<1> QED BY Invariant, <1>1, PTL

LEMMA PassedOverStep ==
  ASSUME IInv, Next, NEW room \in Room, frontier[room] # Inactive, NEW t \in Held(room),
         t.seq > frontier[room], t.seq <= frontier'[room], source[t] \in ToSaruku
  PROVE  row'[t] # "none"
<1> USE DEF IInv
<1>0. /\ t \in Trigger /\ t.room = room /\ t.seq \in Nat /\ frontier[room] \in Nat
      /\ source[t] # "none"
  BY DEF Held, Trigger, TypeOK, Inactive
<1>1. ASSUME NEW r \in Room, Skip(r) \/ Begin(r) PROVE row'[t] # "none"
  <2> DEFINE f == First(Waiting(r))
  <2>1. /\ f \in Trigger /\ f.room = r /\ f.seq > frontier[r]
        /\ \A u \in Waiting(r) : f.seq <= u.seq
    BY <1>1, FoundFirst DEF Skip, Begin
  <2>2. /\ frontier' = Advanced(f)
        /\ \/ source[f] = "other" /\ row' = row
           \/ row' = [row EXCEPT ![f] = "LLM_STARTED"]
    BY <1>1 DEF Skip, Begin
  <2> HIDE DEF f
  <2>3. frontier' = [frontier EXCEPT ![r] = f.seq]
    BY <2>1, <2>2, AdvancedIs
  <2>4. r = room /\ t.seq <= f.seq
    BY <1>0, <2>1, <2>3 DEF TypeOK
  \* If t has no row it waits, and the first of those who wait is t itself.
  <2>5. row[t] = "none" => t = f
    <3>1. row[t] = "none" => t \in Waiting(r)
      BY <1>0, <2>4 DEF Waiting
    <3>2. row[t] = "none" => t.seq = f.seq
      BY <1>0, <2>1, <2>4, <3>1 DEF Trigger
    <3> QED BY <1>0, <2>1, <2>4, <3>2 DEF Trigger
  <2> QED BY <1>0, <2>1, <2>2, <2>5 DEF TypeOK, ToSaruku
<1>2. ASSUME NEW r \in Room, Activate(r) PROVE FALSE
  BY <1>0, <1>2 DEF Activate, TypeOK
<1>3. ASSUME UNCHANGED frontier PROVE FALSE
  BY <1>0, <1>3
<1> QED BY <1>1, <1>2, <1>3 DEF Next, Malformed, NothingFound, TeamReady, CoolDown, Decline,
        Intend, PersistIntent, Post, Settle, Close, CycleBegins, Synced, MinutePasses, Crash,
        durableVars

\* No step moves a frontier past a held record that concerns Saruku and has no row.
THEOREM NobodyPassedOver == Spec => NothingPassedOver
<1>1. ASSUME IInv, Next
      PROVE  \A room \in Room : frontier[room] # Inactive =>
               \A t \in Held(room) :
                  t.seq > frontier[room] /\ t.seq <= frontier'[room] /\ source[t] \in ToSaruku
                     => row'[t] # "none"
  BY <1>1, PassedOverStep
<1> QED BY Invariant, <1>1, PTL DEF NothingPassedOver, Spec

\* The reply to a nudge that goes out finds no confirmed reply within the minute: begun and
\* not closed, or of unknown outcome, is all that another fresh row can be.
LEMMA SpacedStep ==
  ASSUME IInv, Next, NEW t \in Trigger, replies'[t] # replies[t], source[t] = "nudge",
         NEW u \in fresh \ {t}
  PROVE  row[u] \in {"DELIVERY_UNKNOWN", "POST_INTENT"}
<1> USE DEF IInv
<1>1. UNCHANGED replies \/ Post
  BY DEF Next, Activate, Skip, Malformed, NothingFound, TeamReady, CoolDown, Begin, Decline,
         Intend, PersistIntent, Settle, Close, CycleBegins, Synced, MinutePasses, Crash
<1>2. Post /\ place = "post" /\ t = at
  BY <1>1 DEF Post, TypeOK
<1>3. row[u] \in {"POST_INTENT", "DELIVERY_UNKNOWN", "REPLIED"}
  BY DEF TypeOK
<1>4. row[u] # "REPLIED"
  BY <1>2 DEF CoolInv
<1> QED BY <1>3, <1>4

\* Nudges are answered a minute apart, in whichever room and through any crashes.
THEOREM SpacedReplies == Spec => NudgesAreSpaced
<1>1. ASSUME IInv, Next
      PROVE  \A t \in Trigger : replies'[t] # replies[t] /\ source[t] = "nudge" =>
               \A u \in fresh \ {t} :
                  replies[u] = 0 \/ row[u] \in {"DELIVERY_UNKNOWN", "POST_INTENT"}
  BY <1>1, SpacedStep
<1> QED BY Invariant, <1>1, PTL DEF NudgesAreSpaced, Spec
=============================================================================
