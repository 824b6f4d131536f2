-------------------------- MODULE PublicationProofs --------------------------
(***************************************************************************)
(* Proofs about Publication for any number of parts and any set of ids.    *)
(*                                                                         *)
(* The argument: a part has been `Tried' from the commit of its send       *)
(* intent until the daemon proves that nothing was sent.  Only a tried     *)
(* part can have an adapter, a request on the wire or a post; while a      *)
(* request can still be served there is no post yet; and every tried part  *)
(* but the first hangs under the confirmed post of the part before it.     *)
(***************************************************************************)
EXTENDS Publication, TLAPS

USE PartCountAssumption, NoPostAssumption

-----------------------------------------------------------------------------
\* Type correctness.

LEMMA InitTypeOK == Init => TypeOK
<1> SUFFICES ASSUME Init PROVE TypeOK
  OBVIOUS
<1>1. XPublisherTypeOK
  BY DEF Init, XPublisherInit, XPublisherTypeOK, OptionalId, LedgerStatus, AdapterStep,
         WireState
<1>2. 1 \in Part
  BY DEF Part
<1> QED BY <1>1, <1>2 DEF Init, TypeOK, OptionalId, Publishing, Delivery

LEMMA DaemonTypeOK == TypeOK /\ Daemon => TypeOK'
<1> SUFFICES ASSUME TypeOK, Daemon PROVE TypeOK'
  OBVIOUS
<1> USE DEF TypeOK, XPublisherTypeOK, Part, OptionalId, AdapterStep, Exits, Delivery,
            Publishing, rowVars, xPublisherVars, adapterVars, xVars, Result,
            ResultConfirmed, Called
<1>1. CASE PublishDone      BY <1>1 DEF PublishDone
<1>2. CASE NotReady         BY <1>2 DEF NotReady
<1>3. CASE PersistIntent
  <2>1. focus > 1 => ParentPost(focus) \in PostIds \cup {NoPost}
    BY DEF ParentPost
  <2>2. parentId' \in [1 .. PartCount -> PostIds \cup {NoPost}]
    BY <1>3, <2>1 DEF PersistIntent
  <2>3. /\ delivery' = delivery \/ delivery' = [delivery EXCEPT ![focus] = "SEND_INTENT_PERSISTED"]
        /\ step' \in {"idle", "intent"}
        /\ UNCHANGED <<phase, focus, postId, strong, xPublisherVars>>
    BY <1>3 DEF PersistIntent
  <2> QED BY <2>2, <2>3
<1>4. CASE SpawnAdapter     BY <1>4 DEF SpawnAdapter, AdapterStart
<1>5. CASE SpawnFails       BY <1>5 DEF SpawnFails
<1>6. CASE CollectPosted    BY <1>6 DEF CollectPosted, Collect, AdapterEnds, PostsOf
<1>7. CASE CollectNotSent   BY <1>7 DEF CollectNotSent, Collect, AdapterEnds
<1>8. CASE CollectUnknown   BY <1>8 DEF CollectUnknown, Collect, AdapterEnds
<1>9. ASSUME NEW p \in Part, BeginLookup(p) PROVE TypeOK'
  BY <1>9 DEF BeginLookup
<1>10. ASSUME NEW p \in Part, TokenChecked(p) PROVE TypeOK'
  BY <1>10 DEF TokenChecked
<1>11. ASSUME NEW seen \in SUBSET timeline, LookupAnswered(seen) PROVE TypeOK'
  <2>1. \A post \in seen : post.id \in PostIds
    BY DEF Post
  <2> QED BY <1>11, <2>1 DEF LookupAnswered
<1> QED BY <1>1, <1>2, <1>3, <1>4, <1>5, <1>6, <1>7, <1>8, <1>9, <1>10, <1>11 DEF Daemon

LEMMA AdapterTypeOK ==
  ASSUME TypeOK, UNCHANGED daemonVars, NEW p \in Part, AdapterNext(p)
  PROVE  TypeOK'
<1> USE DEF TypeOK, XPublisherTypeOK, Part, OptionalId, AdapterStep, Exits, WireState,
            LedgerStatus, daemonVars, rowVars, xVars, AdapterExit, RejectRow
<1>1. CASE AdapterNoToken(p)
  BY <1>1 DEF AdapterNoToken
<1>2. CASE AdapterRefusesPending(p)
  BY <1>2 DEF AdapterRefusesPending
<1>3. CASE AdapterReusesPosted(p)
  BY <1>3 DEF AdapterReusesPosted
<1>4. CASE AdapterSends(p)
  BY <1>4 DEF AdapterSends
<1>5. CASE AdapterReauthorizes(p)
  BY <1>5 DEF AdapterReauthorizes
<1>6. CASE AdapterResends(p)
  BY <1>6 DEF AdapterResends
<1>7. CASE AdapterReauthFails(p)
  BY <1>7 DEF AdapterReauthFails
<1>8. CASE AdapterUnauthorizedAgain(p)
  BY <1>8 DEF AdapterUnauthorizedAgain
<1>9. CASE AdapterRefused(p)
  BY <1>9 DEF AdapterRefused
<1>10. CASE AdapterServerError(p)
  BY <1>10 DEF AdapterServerError
<1>11. CASE AdapterPosted(p)
  BY <1>11 DEF AdapterPosted
<1>12. CASE AdapterGivesUp(p)
  BY <1>12 DEF AdapterGivesUp
<1> QED BY <1>1, <1>2, <1>3, <1>4, <1>5, <1>6, <1>7, <1>8, <1>9, <1>10, <1>11, <1>12 DEF AdapterNext

LEMMA XTypeOK ==
  ASSUME TypeOK, UNCHANGED daemonVars, NEW p \in Part, XCreates(p) \/ XDeclines(p)
  PROVE  TypeOK'
  BY DEF TypeOK, XPublisherTypeOK, Part, OptionalId, WireState, Post, daemonVars, rowVars,
         adapterVars, XCreates, XDeclines

LEMMA FailureTypeOK == TypeOK /\ Failure => TypeOK'
<1> SUFFICES ASSUME TypeOK, Failure PROVE TypeOK'
  OBVIOUS
<1> USE DEF TypeOK, XPublisherTypeOK, Part, OptionalId, AdapterStep, daemonVars, rowVars,
            xPublisherVars, adapterVars, xVars
<1>1. CASE DaemonCrashes    BY <1>1 DEF DaemonCrashes
<1>2. CASE AdapterTimesOut  BY <1>2 DEF AdapterTimesOut, AdapterEnds, Result, Delivery
<1>3. CASE AdapterKilled    BY <1>3 DEF AdapterKilled, AdapterEnds, Result, Delivery
<1>4. ASSUME NEW p \in Part, OrphanEnds(p) PROVE TypeOK'
  BY <1>4 DEF OrphanEnds, AdapterEnds
<1> QED BY <1>1, <1>2, <1>3, <1>4 DEF Failure

\* In every state each variable has its type.
THEOREM TypeCorrect == Spec => []TypeOK
<1>1. Init => TypeOK
  BY InitTypeOK
<1>2. TypeOK /\ [Next]_vars => TypeOK'
  <2> SUFFICES ASSUME TypeOK, [Next]_vars PROVE TypeOK'
    OBVIOUS
  <2>1. CASE Daemon  BY <2>1, DaemonTypeOK
  <2>2. CASE Failure BY <2>2, FailureTypeOK
  <2>3. CASE Environment
    <3>1. CASE DeadlinePasses /\ UNCHANGED daemonVars
      BY <3>1 DEF DeadlinePasses, TypeOK, XPublisherTypeOK, daemonVars, rowVars,
                  adapterVars, xVars
    <3> QED BY <2>3, <3>1, AdapterTypeOK, XTypeOK DEF Environment
  <2>4. CASE UNCHANGED vars
    BY <2>4 DEF vars, TypeOK, XPublisherTypeOK, daemonVars, rowVars, xPublisherVars,
                adapterVars, xVars
  <2> QED BY <2>1, <2>2, <2>3, <2>4 DEF Next
<1> QED BY <1>1, <1>2, PTL DEF Spec

-----------------------------------------------------------------------------
\* The inductive invariant.

Tried(p) == delivery[p] \in {"SEND_INTENT_PERSISTED", "DELIVERY_UNKNOWN", "CONFIRMED"}

\* Nothing of the part is outside the daemon's row.
Untouched(p) == adapter[p] = "off" /\ wire[p] # "request" /\ PostsOf(p) = {}

OnlyTriedTouched == \A p \in Part : Tried(p) \/ Untouched(p)

\* As long as a request may still be served, or has been declined, no post exists.
NoPostYet ==
    \A p \in Part :
        /\ wire[p] \in {"request", "refused", "unauthorized"} => PostsOf(p) = {}
        /\ adapter[p] \in {"start", "reauth", "exit3", "exit4"} =>
              PostsOf(p) = {} /\ wire[p] # "request"

\* An answer with an id, and the ledger row made from it, name a real post.
AnswersAreReal ==
    \A p \in Part :
        /\ wire[p] = "created" => \E post \in PostsOf(p) : post.id = answerId[p]
        /\ ledger[p] = "posted" => \E post \in PostsOf(p) : post.id = ledgerId[p]
        /\ adapter[p] = "exit0" => ledger[p] = "posted"

\* Everything sent for a part uses the parent recorded in its row.
ParentAgreed ==
    /\ \A p \in Part : adapter[p] # "off" \/ wire[p] = "request" => replyTo[p] = parentId[p]
    /\ \A post \in timeline : post.parent = parentId[post.part]

\* The parent recorded in a row is the confirmed post of the part before.
RowLineage ==
    /\ parentId[1] = NoPost
    /\ \A p \in Part : p > 1 =>
          /\ Tried(p) => parentId[p] # NoPost
          /\ parentId[p] # NoPost => delivery[p-1] = "CONFIRMED" /\ parentId[p] = postId[p-1]

ConfirmedIsReal ==
    \A p \in Part : delivery[p] = "CONFIRMED" =>
        \E post \in PostsOf(p) : post.id = postId[p] /\ (strong[p] => post.exact)

\* What the daemon knows inside a call of _publish.
StepInv ==
    /\ step = "lookup" => delivery[focus] = "DELIVERY_UNKNOWN"
    /\ step = "intent" => delivery[focus] = "SEND_INTENT_PERSISTED" /\ Untouched(focus)
    /\ step = "waiting" => delivery[focus] = "SEND_INTENT_PERSISTED"

SubmitInv == phase = "SUBMIT" => \A p \in Part : delivery[p] = "CONFIRMED"

IInv ==
    /\ OnlyTriedTouched /\ NoPostYet /\ AtMostOnePost /\ AnswersAreReal /\ ParentAgreed
    /\ RowLineage /\ ConfirmedIsReal /\ StepInv /\ SubmitInv

LEMMA InitIInv == Init => IInv
<1> SUFFICES ASSUME Init PROVE IInv
  OBVIOUS
<1>1. 1 \in Part
  BY DEF Part
<1> QED BY <1>1 DEF Init, XPublisherInit, IInv, OnlyTriedTouched, Tried, Untouched, NoPostYet,
        AtMostOnePost, AnswersAreReal, ParentAgreed, RowLineage, ConfirmedIsReal, StepInv,
        SubmitInv, PostsOf

\* Writing the outcome of an attempt that did not confirm: the row becomes
\* unknown, or sendable again when nothing of it is outside the row.
LEMMA ResultIInv ==
  ASSUME TypeOK, IInv, NEW p \in Part, NEW state, Result(p, state),
         delivery[p] \in {"SEND_INTENT_PERSISTED", "DELIVERY_UNKNOWN"},
         \/ state = "DELIVERY_UNKNOWN"
         \/ state = "DEFINITELY_NOT_SENT" /\ Untouched(p)',
         AdapterEnds(p) \/ UNCHANGED xPublisherVars,
         phase' = phase \/ phase' # "SUBMIT",
         \/ step' = "idle"
         \/ step' = "lookup" /\ focus' = p /\ state = "DELIVERY_UNKNOWN"
  PROVE  IInv'
<1> USE DEF IInv, TypeOK, XPublisherTypeOK, Result, PostsOf, xPublisherVars, adapterVars,
            xVars, AdapterEnds
<1>0. /\ UNCHANGED <<timeline, wire, answerId, ledger, ledgerId, replyTo, parentId>>
      /\ \A q \in Part : adapter'[q] = adapter[q] \/ (q = p /\ adapter'[q] = "off")
      /\ \A q \in Part : q # p => delivery'[q] = delivery[q] /\ postId'[q] = postId[q]
                                  /\ strong'[q] = strong[q]
      /\ delivery'[p] = state
  OBVIOUS
<1>1. OnlyTriedTouched'  BY <1>0 DEF OnlyTriedTouched, Tried, Untouched
<1>2. NoPostYet'         BY <1>0 DEF NoPostYet
<1>3. AtMostOnePost'     BY <1>0 DEF AtMostOnePost
<1>4. AnswersAreReal'    BY <1>0 DEF AnswersAreReal
<1>5. ParentAgreed'      BY <1>0 DEF ParentAgreed
<1>6. RowLineage'
  <2> SUFFICES ASSUME NEW q \in Part, q > 1
               PROVE  /\ Tried(q)' => parentId'[q] # NoPost
                      /\ parentId'[q] # NoPost => /\ delivery'[q-1] = "CONFIRMED"
                                                 /\ parentId'[q] = postId'[q-1]
    BY <1>0 DEF RowLineage
  <2>1. q-1 \in Part
    BY DEF Part
  <2>2. Tried(q)' => Tried(q)
    BY <1>0 DEF Tried
  <2> QED BY <1>0, <2>1, <2>2 DEF RowLineage
<1>7. ConfirmedIsReal'   BY <1>0 DEF ConfirmedIsReal
<1>8. StepInv'           BY <1>0 DEF StepInv
<1>9. SubmitInv'         BY <1>0 DEF SubmitInv
<1> QED BY <1>1, <1>2, <1>3, <1>4, <1>5, <1>6, <1>7, <1>8, <1>9

\* Writing a confirmation: the id is that of a real post of the part.
LEMMA ConfirmIInv ==
  ASSUME TypeOK, IInv, NEW p \in Part, NEW id, NEW isStrong \in BOOLEAN,
         ResultConfirmed(p, id, isStrong),
         delivery[p] \in {"SEND_INTENT_PERSISTED", "DELIVERY_UNKNOWN"},
         \E post \in PostsOf(p) : post.id = id /\ (isStrong => post.exact),
         AdapterEnds(p) \/ UNCHANGED xPublisherVars,
         UNCHANGED phase, step' = "idle"
  PROVE  IInv'
<1> USE DEF IInv, TypeOK, XPublisherTypeOK, ResultConfirmed, xPublisherVars, adapterVars,
            xVars, AdapterEnds
<1>0. /\ UNCHANGED <<timeline, wire, answerId, ledger, ledgerId, replyTo, parentId>>
      /\ \A q \in Part : adapter'[q] = adapter[q] \/ (q = p /\ adapter'[q] = "off")
      /\ \A q \in Part : q # p => delivery'[q] = delivery[q] /\ postId'[q] = postId[q]
                                  /\ strong'[q] = strong[q]
      /\ delivery'[p] = "CONFIRMED" /\ postId'[p] = id /\ strong'[p] = isStrong
      /\ \A q \in Part : PostsOf(q)' = PostsOf(q)
  BY DEF PostsOf
<1>1. OnlyTriedTouched'  BY <1>0 DEF OnlyTriedTouched, Tried, Untouched
<1>2. NoPostYet'         BY <1>0 DEF NoPostYet
<1>3. AtMostOnePost'     BY <1>0 DEF AtMostOnePost
<1>4. AnswersAreReal'    BY <1>0 DEF AnswersAreReal
<1>5. ParentAgreed'      BY <1>0 DEF ParentAgreed
<1>6. RowLineage'
  <2> SUFFICES ASSUME NEW q \in Part, q > 1
               PROVE  /\ Tried(q)' => parentId'[q] # NoPost
                      /\ parentId'[q] # NoPost => /\ delivery'[q-1] = "CONFIRMED"
                                                 /\ parentId'[q] = postId'[q-1]
    BY <1>0 DEF RowLineage
  <2>1. q-1 \in Part
    BY DEF Part
  <2>2. Tried(q)' => Tried(q)
    BY <1>0 DEF Tried
  <2> QED BY <1>0, <2>1, <2>2 DEF RowLineage
<1>7. ConfirmedIsReal'   BY <1>0 DEF ConfirmedIsReal
<1>8. StepInv'           BY <1>0 DEF StepInv
<1>9. SubmitInv'         BY <1>0 DEF SubmitInv
<1> QED BY <1>1, <1>2, <1>3, <1>4, <1>5, <1>6, <1>7, <1>8, <1>9

\* Committing a send intent ties the part to the confirmed post before it.
LEMMA IntentIInv == TypeOK /\ IInv /\ PersistIntent => IInv'
<1> SUFFICES ASSUME TypeOK, IInv, PersistIntent PROVE IInv'
  OBVIOUS
<1> USE DEF IInv, TypeOK, XPublisherTypeOK, xPublisherVars, adapterVars, xVars, rowVars
<1>1. CASE ~MayIntend(focus)
  BY <1>1 DEF PersistIntent, OnlyTriedTouched, Tried, Untouched, NoPostYet, AtMostOnePost,
              AnswersAreReal, ParentAgreed, RowLineage, ConfirmedIsReal, StepInv, SubmitInv,
              PostsOf
<1>2. CASE MayIntend(focus)
  <2>0. /\ UNCHANGED <<timeline, wire, answerId, ledger, ledgerId, replyTo, adapter,
                       postId, strong, phase>>
        /\ \A q \in Part : q # focus => delivery'[q] = delivery[q] /\ parentId'[q] = parentId[q]
        /\ delivery'[focus] = "SEND_INTENT_PERSISTED"
        /\ delivery[focus] \in Sendable
        /\ step' = "intent" /\ focus' = focus
        /\ \A q \in Part : PostsOf(q)' = PostsOf(q)
    BY <1>2 DEF PersistIntent, MayIntend, PostsOf
  <2>1. Untouched(focus) /\ Untouched(focus)'
    BY <2>0 DEF OnlyTriedTouched, Tried, Untouched, Sendable
  <2>2. /\ focus = 1 => parentId'[focus] = NoPost
        /\ focus > 1 => /\ delivery[focus-1] = "CONFIRMED"
                        /\ parentId'[focus] = postId[focus-1]
                        /\ postId[focus-1] # NoPost
    <3>1. focus > 1 => focus-1 \in Part
      BY DEF Part
    <3>2. focus > 1 => delivery[focus-1] = "CONFIRMED"
      BY <1>2, <2>0 DEF MayIntend, RowLineage
    <3>3. focus > 1 => postId[focus-1] # NoPost
      BY <3>1, <3>2 DEF ConfirmedIsReal, PostsOf, Post
    <3>4. parentId'[focus] = IF focus > 1 /\ parentId[focus] = NoPost
                               THEN postId[focus-1] ELSE parentId[focus]
      BY <1>2 DEF PersistIntent, ParentPost
    <3> QED BY <3>2, <3>3, <3>4 DEF RowLineage, Part
  <2>3. OnlyTriedTouched'  BY <2>0 DEF OnlyTriedTouched, Tried, Untouched
  <2>4. NoPostYet'         BY <2>0 DEF NoPostYet
  <2>5. AtMostOnePost'     BY <2>0 DEF AtMostOnePost
  <2>6. AnswersAreReal'    BY <2>0 DEF AnswersAreReal
  <2>7. ParentAgreed'
    <3>1. \A post \in timeline : post.part # focus /\ post.part \in Part
      BY <2>1 DEF Untouched, PostsOf, Post
    <3> QED BY <2>0, <2>1, <3>1 DEF ParentAgreed, Untouched
  <2>8. RowLineage'
    <3> SUFFICES ASSUME NEW q \in Part
                 PROVE  /\ q = 1 => parentId'[q] = NoPost
                        /\ q > 1 => /\ Tried(q)' => parentId'[q] # NoPost
                                    /\ parentId'[q] # NoPost =>
                                          /\ delivery'[q-1] = "CONFIRMED"
                                          /\ parentId'[q] = postId'[q-1]
      BY DEF RowLineage, Part
    <3>1. q > 1 => q-1 \in Part
      BY DEF Part
    <3>2. CASE q = focus
      BY <2>0, <2>2, <3>1, <3>2 DEF Sendable, Part
    <3>3. CASE q # focus
      BY <2>0, <3>1, <3>3 DEF RowLineage, Tried, Sendable
    <3> QED BY <3>2, <3>3
  <2>9. ConfirmedIsReal'   BY <2>0 DEF ConfirmedIsReal
  <2>10. StepInv'          BY <2>0, <2>1 DEF StepInv
  <2>11. SubmitInv'        BY <2>0 DEF SubmitInv, Sendable
  <2> QED BY <2>3, <2>4, <2>5, <2>6, <2>7, <2>8, <2>9, <2>10, <2>11
<1> QED BY <1>1, <1>2

LEMMA DaemonIInv == TypeOK /\ IInv /\ Daemon => IInv'
<1> SUFFICES ASSUME TypeOK, IInv, Daemon PROVE IInv'
  OBVIOUS
<1>f. focus \in Part /\ StepInv
  BY DEF TypeOK, IInv
<1>1. CASE PublishDone
  BY <1>1 DEF PublishDone, Complete, IInv, OnlyTriedTouched, Tried, Untouched, NoPostYet,
              AtMostOnePost, AnswersAreReal, ParentAgreed, RowLineage, ConfirmedIsReal,
              StepInv, SubmitInv, PostsOf, rowVars, xPublisherVars, adapterVars, xVars, Called
<1>2. CASE NotReady
  BY <1>2 DEF NotReady, IInv, OnlyTriedTouched, Tried, Untouched, NoPostYet,
              AtMostOnePost, AnswersAreReal, ParentAgreed, RowLineage, ConfirmedIsReal,
              StepInv, SubmitInv, PostsOf, rowVars, xPublisherVars, adapterVars, xVars, Called
<1>3. CASE PersistIntent
  BY <1>3, IntentIInv
<1>4. CASE SpawnAdapter
  BY <1>4 DEF SpawnAdapter, AdapterStart, IInv, OnlyTriedTouched, Tried, Untouched, NoPostYet,
              AtMostOnePost, AnswersAreReal, ParentAgreed, RowLineage, ConfirmedIsReal,
              StepInv, SubmitInv, PostsOf, TypeOK, XPublisherTypeOK, rowVars, xVars
<1>5. CASE SpawnFails
  <2>1. Untouched(focus)'
    BY <1>5, <1>f DEF SpawnFails, StepInv, Untouched, PostsOf, xPublisherVars, adapterVars, xVars
  <2> QED BY <1>5, <1>f, <2>1, ResultIInv DEF SpawnFails, StepInv
<1>6. CASE CollectPosted
  <2> DEFINE isStrong == \E post \in PostsOf(focus) : post.id = ledgerId[focus] /\ post.exact
                                                  /\ replyTo[focus] = parentId[focus]
  <2>1. PICK post \in PostsOf(focus) : post.id = ledgerId[focus]
    BY <1>6, <1>f DEF CollectPosted, Collect, IInv, AnswersAreReal
  <2>2. \E q \in PostsOf(focus) : q.id = ledgerId[focus] /\ (isStrong => q.exact)
    BY <2>1
  <2>3. isStrong \in BOOLEAN
    OBVIOUS
  <2>4. /\ ResultConfirmed(focus, ledgerId[focus], isStrong) /\ AdapterEnds(focus)
        /\ UNCHANGED phase /\ step' = "idle" /\ delivery[focus] = "SEND_INTENT_PERSISTED"
    BY <1>6, <1>f DEF CollectPosted, Collect, StepInv
  <2> HIDE DEF isStrong
  <2> QED BY <1>f, <2>2, <2>3, <2>4, ConfirmIInv
<1>7. CASE CollectNotSent
  <2>1. PICK code \in {"exit3", "exit4"} : Collect(code) /\ Result(focus, "DEFINITELY_NOT_SENT")
    BY <1>7 DEF CollectNotSent
  <2>2. Untouched(focus)'
    BY <1>f, <2>1 DEF Collect, AdapterEnds, Untouched, PostsOf, IInv, NoPostYet, TypeOK,
                      XPublisherTypeOK, xVars
  <2>3. /\ phase' # "SUBMIT" /\ AdapterEnds(focus) /\ step' = "idle" /\ UNCHANGED focus
        /\ delivery[focus] = "SEND_INTENT_PERSISTED"
    BY <1>7, <1>f DEF CollectNotSent, Collect, StepInv
  <2> QED BY <1>f, <2>1, <2>2, <2>3, ResultIInv
<1>8. CASE CollectUnknown
  BY <1>8, <1>f, ResultIInv DEF CollectUnknown, Collect, StepInv
<1>9. ASSUME NEW p \in Part, BeginLookup(p) PROVE IInv'
  <2>1. CASE delivery[p] = "SEND_INTENT_PERSISTED"
    BY <1>9, <2>1, ResultIInv DEF BeginLookup
  <2>2. CASE delivery[p] # "SEND_INTENT_PERSISTED"
    BY <1>9, <2>2 DEF BeginLookup, First, Unresolved, IInv, OnlyTriedTouched, Tried, Untouched,
              NoPostYet, AtMostOnePost, AnswersAreReal, ParentAgreed, RowLineage,
              ConfirmedIsReal, StepInv, SubmitInv, PostsOf, rowVars, xPublisherVars,
              adapterVars, xVars
  <2> QED BY <2>1, <2>2
<1>10. ASSUME NEW p \in Part, TokenChecked(p) PROVE IInv'
  BY <1>10 DEF TokenChecked, IInv, OnlyTriedTouched, Tried, Untouched, NoPostYet,
              AtMostOnePost, AnswersAreReal, ParentAgreed, RowLineage, ConfirmedIsReal,
              StepInv, SubmitInv, PostsOf, rowVars, xPublisherVars, adapterVars, xVars
<1>11. ASSUME NEW seen \in SUBSET timeline, LookupAnswered(seen) PROVE IInv'
  <2>1. CASE UNCHANGED rowVars
    BY <1>11, <2>1 DEF LookupAnswered, IInv, OnlyTriedTouched, Tried, Untouched,
              NoPostYet, AtMostOnePost, AnswersAreReal, ParentAgreed, RowLineage,
              ConfirmedIsReal, StepInv, SubmitInv, PostsOf, rowVars, xPublisherVars,
              adapterVars, xVars
  <2>2. ASSUME NEW post \in seen, ExactMatches(focus, seen) = {post},
               ResultConfirmed(focus, post.id, TRUE)
        PROVE  IInv'
    <3>1. post \in PostsOf(focus) /\ post.exact
      BY <2>2 DEF ExactMatches, PostsOf
    <3> QED BY <1>11, <1>f, <2>2, <3>1, ConfirmIInv DEF LookupAnswered, StepInv
  <2> QED BY <1>11, <2>1, <2>2 DEF LookupAnswered
<1> QED BY <1>1, <1>2, <1>3, <1>4, <1>5, <1>6, <1>7, <1>8, <1>9, <1>10, <1>11 DEF Daemon

\* An ending adapter leaves everything but itself as it was.
LEMMA EndsIInv ==
  ASSUME TypeOK, IInv, NEW p \in Part, AdapterEnds(p), UNCHANGED <<phase, rowVars, focus>>,
         step' = step \/ step' = "idle"
  PROVE  IInv'
  BY DEF IInv, OnlyTriedTouched, Tried, Untouched, NoPostYet, AtMostOnePost, AnswersAreReal,
         ParentAgreed, RowLineage, ConfirmedIsReal, StepInv, SubmitInv, PostsOf, TypeOK,
         XPublisherTypeOK, AdapterEnds, rowVars, xVars

LEMMA FailureIInv == TypeOK /\ IInv /\ Failure => IInv'
<1> SUFFICES ASSUME TypeOK, IInv, Failure PROVE IInv'
  OBVIOUS
<1>1. focus \in Part /\ StepInv
  BY DEF TypeOK, IInv
<1>2. CASE DaemonCrashes
  BY <1>2 DEF DaemonCrashes, IInv, OnlyTriedTouched, Tried, Untouched, NoPostYet,
              AtMostOnePost, AnswersAreReal, ParentAgreed, RowLineage, ConfirmedIsReal,
              StepInv, SubmitInv, PostsOf, rowVars, xPublisherVars, adapterVars, xVars
<1>3. CASE AdapterTimesOut
  BY <1>1, <1>3, EndsIInv DEF AdapterTimesOut
<1>4. CASE AdapterKilled
  BY <1>1, <1>4, ResultIInv DEF AdapterKilled, StepInv
<1>5. ASSUME NEW p \in Part, OrphanEnds(p) PROVE IInv'
  BY <1>5, EndsIInv DEF OrphanEnds, daemonVars
<1> QED BY <1>2, <1>3, <1>4, <1>5 DEF Failure

\* One step of one adapter: only its own part is concerned, and that part
\* has been tried.
LEMMA AdapterIInv ==
  ASSUME TypeOK, IInv, UNCHANGED daemonVars, NEW p \in Part, AdapterNext(p)
  PROVE  IInv'
<1> USE DEF IInv, TypeOK, XPublisherTypeOK, daemonVars, rowVars, xVars, AdapterExit, RejectRow,
            Posting
<1>0. /\ adapter[p] # "off" /\ Tried(p)
      /\ UNCHANGED <<timeline, replyTo, answerId>>
      /\ \A q \in Part : PostsOf(q)' = PostsOf(q)
      /\ \A q \in Part : q # p =>
            /\ adapter'[q] = adapter[q] /\ wire'[q] = wire[q]
            /\ ledger'[q] = ledger[q] /\ ledgerId'[q] = ledgerId[q]
      /\ wire'[p] = "request" => adapter[p] \in {"start", "reauth"} \/ wire[p] = "request"
  <2>1. adapter[p] # "off"
    BY DEF AdapterNext, AdapterNoToken, AdapterRefusesPending, AdapterReusesPosted,
        AdapterSends, AdapterReauthorizes, AdapterResends, AdapterReauthFails,
        AdapterUnauthorizedAgain, AdapterRefused, AdapterServerError, AdapterPosted,
        AdapterGivesUp
  <2>2. Tried(p)
    BY <2>1 DEF OnlyTriedTouched, Untouched
  <2>3. UNCHANGED <<timeline, replyTo, answerId>>
    BY DEF AdapterNext, AdapterNoToken, AdapterRefusesPending, AdapterReusesPosted,
        AdapterSends, AdapterReauthorizes, AdapterResends, AdapterReauthFails,
        AdapterUnauthorizedAgain, AdapterRefused, AdapterServerError, AdapterPosted,
        AdapterGivesUp
  <2>4. \A q \in Part : q # p =>
            /\ adapter'[q] = adapter[q] /\ wire'[q] = wire[q]
            /\ ledger'[q] = ledger[q] /\ ledgerId'[q] = ledgerId[q]
    BY DEF AdapterNext, AdapterNoToken, AdapterRefusesPending, AdapterReusesPosted,
        AdapterSends, AdapterReauthorizes, AdapterResends, AdapterReauthFails,
        AdapterUnauthorizedAgain, AdapterRefused, AdapterServerError, AdapterPosted,
        AdapterGivesUp
  <2>5. wire'[p] = "request" => adapter[p] \in {"start", "reauth"} \/ wire[p] = "request"
    BY DEF AdapterNext, AdapterNoToken, AdapterRefusesPending, AdapterReusesPosted,
        AdapterSends, AdapterReauthorizes, AdapterResends, AdapterReauthFails,
        AdapterUnauthorizedAgain, AdapterRefused, AdapterServerError, AdapterPosted,
        AdapterGivesUp
  <2> QED BY <2>1, <2>2, <2>3, <2>4, <2>5 DEF PostsOf
<1>1. OnlyTriedTouched'  BY <1>0 DEF OnlyTriedTouched, Tried, Untouched
<1>2. NoPostYet'
  <2>1. /\ wire'[p] \in {"request", "refused", "unauthorized"} => PostsOf(p) = {}
        /\ adapter'[p] \in {"start", "reauth", "exit3", "exit4"} =>
              PostsOf(p) = {} /\ wire'[p] # "request"
    BY DEF NoPostYet, AdapterNext, AdapterNoToken, AdapterRefusesPending, AdapterReusesPosted,
        AdapterSends, AdapterReauthorizes, AdapterResends, AdapterReauthFails,
        AdapterUnauthorizedAgain, AdapterRefused, AdapterServerError, AdapterPosted,
        AdapterGivesUp
  <2> QED BY <1>0, <2>1 DEF NoPostYet
<1>3. AtMostOnePost'     BY <1>0 DEF AtMostOnePost
<1>4. AnswersAreReal'
  <2>1. /\ wire'[p] = "created" => wire[p] = "created"
        /\ ledger'[p] = "posted" =>
              \/ ledger[p] = "posted" /\ ledgerId'[p] = ledgerId[p]
              \/ wire[p] = "created" /\ ledgerId'[p] = answerId[p]
        /\ adapter'[p] = "exit0" => ledger'[p] = "posted"
    BY DEF AdapterNext, AdapterNoToken, AdapterRefusesPending, AdapterReusesPosted,
        AdapterSends, AdapterReauthorizes, AdapterResends, AdapterReauthFails,
        AdapterUnauthorizedAgain, AdapterRefused, AdapterServerError, AdapterPosted,
        AdapterGivesUp
  <2> QED BY <1>0, <2>1 DEF AnswersAreReal
<1>5. ParentAgreed'      BY <1>0 DEF ParentAgreed
<1>6. RowLineage'        BY DEF RowLineage, Tried
<1>7. ConfirmedIsReal'   BY <1>0 DEF ConfirmedIsReal
<1>8. StepInv'           BY <1>0 DEF StepInv, Untouched
<1>9. SubmitInv'         BY DEF SubmitInv
<1> QED BY <1>1, <1>2, <1>3, <1>4, <1>5, <1>6, <1>7, <1>8, <1>9

\* X creates a post only for a request, so only when the part has none.
LEMMA XIInv ==
  ASSUME TypeOK, IInv, UNCHANGED daemonVars, NEW p \in Part, XCreates(p) \/ XDeclines(p)
  PROVE  IInv'
<1> USE DEF IInv, TypeOK, XPublisherTypeOK, daemonVars, rowVars, adapterVars
<1>1. CASE XDeclines(p)
  BY <1>1 DEF XDeclines, OnlyTriedTouched, Tried, Untouched, NoPostYet, AtMostOnePost,
              AnswersAreReal, ParentAgreed, RowLineage, ConfirmedIsReal, StepInv, SubmitInv,
              PostsOf
<1>2. CASE XCreates(p)
  <2>1. PICK new \in Post : /\ new.part = p /\ new.parent = replyTo[p]
                            /\ timeline' = timeline \cup {new}
                            /\ answerId' = [answerId EXCEPT ![p] = new.id]
    <3>1. PICK id \in PostIds \ UsedIds, exact \in BOOLEAN :
              /\ timeline' = timeline \cup
                    {[id |-> id, part |-> p, parent |-> replyTo[p], exact |-> exact]}
              /\ answerId' = [answerId EXCEPT ![p] = id]
      BY <1>2 DEF XCreates
    <3>2. [id |-> id, part |-> p, parent |-> replyTo[p], exact |-> exact] \in Post
      BY DEF Post
    <3> QED BY <3>1, <3>2
  <2>2. /\ wire[p] = "request" /\ wire'[p] \in {"created", "error"}
        /\ \A q \in Part : q # p => wire'[q] = wire[q] /\ answerId'[q] = answerId[q]
        /\ UNCHANGED <<adapter, ledger, ledgerId, replyTo>>
    BY <1>2, <2>1 DEF XCreates
  <2>3. /\ PostsOf(p) = {} /\ PostsOf(p)' = {new}
        /\ \A q \in Part : q # p => PostsOf(q)' = PostsOf(q)
    BY <2>1, <2>2 DEF NoPostYet, PostsOf
  <2>4. Tried(p) /\ adapter[p] \notin {"start", "reauth", "exit3", "exit4"}
        /\ delivery[p] # "CONFIRMED" /\ ledger[p] # "posted" /\ replyTo[p] = parentId[p]
    BY <2>2, <2>3 DEF OnlyTriedTouched, Untouched, NoPostYet, ConfirmedIsReal,
                      AnswersAreReal, ParentAgreed
  <2>5. OnlyTriedTouched'  BY <2>2, <2>3, <2>4 DEF OnlyTriedTouched, Tried, Untouched
  <2>6. NoPostYet'         BY <2>2, <2>3, <2>4 DEF NoPostYet
  <2>7. AtMostOnePost'     BY <2>1, <2>3 DEF AtMostOnePost, PostsOf
  <2>8. AnswersAreReal'    BY <2>1, <2>2, <2>3, <2>4 DEF AnswersAreReal
  <2>9. ParentAgreed'      BY <2>1, <2>2, <2>4 DEF ParentAgreed
  <2>10. RowLineage'       BY DEF RowLineage, Tried
  <2>11. ConfirmedIsReal'  BY <2>3, <2>4 DEF ConfirmedIsReal
  <2>12. StepInv'          BY <2>2, <2>3 DEF StepInv, Untouched
  <2>13. SubmitInv'        BY DEF SubmitInv
  <2> QED BY <2>5, <2>6, <2>7, <2>8, <2>9, <2>10, <2>11, <2>12, <2>13
<1> QED BY <1>1, <1>2
LEMMA NextIInv == TypeOK /\ IInv /\ [Next]_vars => IInv'
<1> SUFFICES ASSUME TypeOK, IInv, [Next]_vars PROVE IInv'
  OBVIOUS
<1>1. CASE Daemon  BY <1>1, DaemonIInv
<1>2. CASE Failure BY <1>2, FailureIInv
<1>3. CASE Environment
  <2>1. CASE DeadlinePasses /\ UNCHANGED daemonVars
    BY <2>1 DEF DeadlinePasses, IInv, OnlyTriedTouched, Tried, Untouched, NoPostYet,
                AtMostOnePost, AnswersAreReal, ParentAgreed, RowLineage, ConfirmedIsReal,
                StepInv, SubmitInv, PostsOf, daemonVars, rowVars, adapterVars, xVars
  <2> QED BY <1>3, <2>1, AdapterIInv, XIInv DEF Environment
<1>4. CASE UNCHANGED vars
  BY <1>4 DEF vars, IInv, OnlyTriedTouched, Tried, Untouched, NoPostYet,
              AtMostOnePost, AnswersAreReal, ParentAgreed, RowLineage, ConfirmedIsReal,
              StepInv, SubmitInv, PostsOf, daemonVars, rowVars, xPublisherVars, adapterVars,
              xVars
<1> QED BY <1>1, <1>2, <1>3, <1>4 DEF Next

LEMMA Inductive == Spec => [](TypeOK /\ IInv)
<1>1. Init => TypeOK /\ IInv
  BY InitTypeOK, InitIInv
<1>2. TypeOK /\ IInv /\ [Next]_vars => IInv'
  BY NextIInv
<1> QED BY <1>1, <1>2, TypeCorrect, PTL DEF Spec

-----------------------------------------------------------------------------
\* What follows from it.

\* However the daemon crashes and however the adapter ends, no part of the poem is
\* ever on the account twice (_publish, recover_unknown, publish_part).
THEOREM AtMostOnce == Spec => []AtMostOnePost
<1>1. IInv => AtMostOnePost
  BY DEF IInv
<1> QED BY <1>1, Inductive, PTL

LEMMA IInvLineage == TypeOK /\ IInv => ThreadLineage
<1> SUFFICES ASSUME TypeOK, IInv, NEW post \in timeline
             PROVE  IF post.part = 1 THEN post.parent = NoPost
                    ELSE \E prev \in timeline : prev.part = post.part - 1 /\ prev.id = post.parent
  BY DEF ThreadLineage
<1>1. post.part \in Part /\ post.parent = parentId[post.part]
  BY DEF TypeOK, XPublisherTypeOK, Post, IInv, ParentAgreed
<1>2. Tried(post.part)
  BY <1>1 DEF IInv, OnlyTriedTouched, Untouched, PostsOf
<1>3. CASE post.part = 1
  BY <1>1, <1>3 DEF IInv, RowLineage
<1>4. CASE post.part # 1
  <2>1. post.part > 1 /\ post.part - 1 \in Part
    BY <1>1, <1>4 DEF Part
  <2>2. delivery[post.part - 1] = "CONFIRMED" /\ post.parent = postId[post.part - 1]
    BY <1>1, <1>2, <2>1 DEF IInv, RowLineage
  <2>3. PICK prev \in PostsOf(post.part - 1) : prev.id = postId[post.part - 1]
    BY <2>1, <2>2 DEF IInv, ConfirmedIsReal
  <2> QED BY <1>4, <2>2, <2>3 DEF PostsOf
<1> QED BY <1>3, <1>4

\* The thread hangs together in line order at every moment, also below a part that
\* was recovered by lookup or sent again (persist_publication_intent).
THEOREM LineageHolds == Spec => []ThreadLineage
  BY Inductive, IInvLineage, PTL

LEMMA IInvNotSent == IInv => NotSentIsAbsent
  BY DEF IInv, OnlyTriedTouched, Tried, Untouched, NotSentIsAbsent, Sendable

\* DEFINITELY_NOT_SENT is never written while a post exists or may still be made.
THEOREM NotSentMeansAbsent == Spec => []NotSentIsAbsent
  BY Inductive, IInvNotSent, PTL

LEMMA IInvConfirmed == TypeOK /\ IInv => ConfirmedIsPublished
<1> SUFFICES ASSUME TypeOK, IInv, NEW p \in Part, delivery[p] = "CONFIRMED"
             PROVE  \E post \in PostsOf(p) : /\ post.id = postId[p]
                                             /\ post.parent = parentId[p]
                                             /\ strong[p] => post.exact
  BY DEF ConfirmedIsPublished
<1>1. PICK post \in PostsOf(p) : post.id = postId[p] /\ (strong[p] => post.exact)
  BY DEF IInv, ConfirmedIsReal
<1>2. post.parent = parentId[p]
  BY DEF IInv, ParentAgreed, PostsOf
<1> QED BY <1>1, <1>2

\* CONFIRMED and strong_confirmation are facts about the account, not hopes.
THEOREM ConfirmedMeansPublished == Spec => []ConfirmedIsPublished
  BY Inductive, IInvConfirmed, PTL

LEMMA StepNoBlindRetry ==
  ASSUME TypeOK, IInv, [Next]_vars, NEW p \in Part
  PROVE  /\ delivery[p] = "DELIVERY_UNKNOWN" => delivery'[p] \in {"DELIVERY_UNKNOWN", "CONFIRMED"}
         /\ delivery[p] = "CONFIRMED" =>
               delivery'[p] = "CONFIRMED" /\ postId'[p] = postId[p] /\ strong'[p] = strong[p]
<1> USE DEF TypeOK, IInv, StepInv
<1> DEFINE Goal ==
      /\ delivery[p] = "DELIVERY_UNKNOWN" => delivery'[p] \in {"DELIVERY_UNKNOWN", "CONFIRMED"}
      /\ delivery[p] = "CONFIRMED" =>
            delivery'[p] = "CONFIRMED" /\ postId'[p] = postId[p] /\ strong'[p] = strong[p]
<1>1. CASE UNCHANGED rowVars
  BY <1>1 DEF rowVars
<1>2. ASSUME NEW q \in Part, BeginLookup(q) PROVE Goal
  BY <1>2 DEF BeginLookup, First, Unresolved, Result, rowVars
<1>3. ASSUME NEW seen, LookupAnswered(seen) PROVE Goal
  BY <1>3 DEF LookupAnswered, ResultConfirmed, rowVars
<1>4. CASE PersistIntent
  BY <1>4 DEF PersistIntent, MayIntend, Sendable, rowVars
<1>5. CASE SpawnFails
  BY <1>5 DEF SpawnFails, Result
<1>6. CASE CollectPosted
  BY <1>6 DEF CollectPosted, Collect, ResultConfirmed
<1>7. CASE CollectNotSent
  BY <1>7 DEF CollectNotSent, Collect, Result
<1>8. CASE CollectUnknown
  BY <1>8 DEF CollectUnknown, Collect, Result
<1>9. CASE AdapterKilled
  BY <1>9 DEF AdapterKilled, Result
<1>10. CASE PublishDone \/ NotReady \/ SpawnAdapter
  BY <1>1, <1>10 DEF PublishDone, NotReady, SpawnAdapter
<1>11. ASSUME NEW q \in Part, TokenChecked(q) PROVE Goal
  BY <1>1, <1>11 DEF TokenChecked
<1>12. CASE DaemonCrashes \/ AdapterTimesOut \/ \E q \in Part : OrphanEnds(q)
  BY <1>1, <1>12 DEF DaemonCrashes, AdapterTimesOut, OrphanEnds, daemonVars
<1>13. CASE Environment \/ UNCHANGED vars
  BY <1>1, <1>13 DEF Environment, vars, daemonVars
<1> QED BY <1>2, <1>3, <1>4, <1>5, <1>6, <1>7, <1>8, <1>9, <1>10, <1>11, <1>12, <1>13
        DEF Next, Daemon, Failure

\* A part of unknown fate is never sent again (publication_result and
\* recover_unknown together), and a confirmation is final.
THEOREM NeverBlindlyRetried == Spec => NoBlindRetry
<1>1. TypeOK /\ IInv /\ [Next]_vars =>
         [\A p \in Part :
            /\ delivery[p] = "DELIVERY_UNKNOWN" => delivery'[p] \in {"DELIVERY_UNKNOWN", "CONFIRMED"}
            /\ delivery[p] = "CONFIRMED" =>
                 delivery'[p] = "CONFIRMED" /\ postId'[p] = postId[p] /\ strong'[p] = strong[p]]_vars
  BY StepNoBlindRetry
<1> QED BY <1>1, Inductive, PTL DEF Spec, NoBlindRetry
-----------------------------------------------------------------------------
\* Refinement of PoemThread.

Shown(post) == [part |-> post.part, id |-> post.id, parent |-> post.parent]
ShownThread == {[part |-> post.part, id |-> post.id, parent |-> post.parent] : post \in timeline}

LEMMA InitRefines == Init => Thread!Init
  BY DEF Init, XPublisherInit, Thread!Init

\* The phase becomes SUBMIT only by PublishDone, and never goes back.
LEMMA DaemonRefines ==
  ASSUME TypeOK, IInv, Daemon \/ Failure
  PROVE  Thread!Finish \/ UNCHANGED <<ShownThread, phase = "SUBMIT">>
<1> USE DEF TypeOK, IInv
<1>1. timeline' = timeline
  BY DEF Daemon, Failure, PublishDone, NotReady, PersistIntent, SpawnAdapter, SpawnFails,
         CollectPosted, CollectNotSent, CollectUnknown, Collect, BeginLookup, TokenChecked,
         LookupAnswered, DaemonCrashes, AdapterTimesOut, AdapterKilled, OrphanEnds,
         AdapterStart, AdapterEnds, xPublisherVars, xVars
<1>2. CASE PublishDone
  <2>1. ASSUME NEW part \in 1 .. PartCount
        PROVE  \E seen \in ShownThread : seen.part = part
    <3>1. PICK post \in timeline : post.part = part
      BY <1>2 DEF PublishDone, Complete, ConfirmedIsReal, PostsOf, Part
    <3>2. Shown(post) \in ShownThread /\ Shown(post).part = part
      BY <3>1 DEF Shown, ShownThread
    <3> QED BY <3>2
  <2> QED BY <1>1, <1>2, <2>1 DEF PublishDone, Thread!Finish, ShownThread
<1>3. CASE ~PublishDone
  <2>1. (phase' = "SUBMIT") = (phase = "SUBMIT")
    BY <1>3 DEF Daemon, Failure, NotReady, PersistIntent, SpawnAdapter, SpawnFails,
         CollectPosted, CollectNotSent, CollectUnknown, Collect, BeginLookup, TokenChecked,
         LookupAnswered, DaemonCrashes, AdapterTimesOut, AdapterKilled, OrphanEnds,
         daemonVars, StepInv, SubmitInv, Called, Publishing
  <2> QED BY <1>1, <2>1 DEF ShownThread
<1> QED BY <1>2, <1>3

\* X creates a post only while no part is complete, and under the post before it.
LEMMA CreatesRefines ==
  ASSUME TypeOK, IInv, UNCHANGED daemonVars, NEW p \in Part, XCreates(p)
  PROVE  Thread!Next
<1> USE DEF TypeOK, XPublisherTypeOK
<1>1. PICK id \in PostIds \ UsedIds, exact \in BOOLEAN :
         timeline' = timeline \cup
            {[id |-> id, part |-> p, parent |-> replyTo[p], exact |-> exact]}
  BY DEF XCreates
<1> DEFINE new == [id |-> id, part |-> p, parent |-> replyTo[p], exact |-> exact]
<1>2. PostsOf(p) = {} /\ replyTo[p] = parentId[p] /\ Tried(p)
  BY DEF XCreates, IInv, NoPostYet, ParentAgreed, OnlyTriedTouched, Untouched
<1>3. phase # "SUBMIT"
  BY <1>2 DEF IInv, SubmitInv, ConfirmedIsReal
<1>4. \A shown \in ShownThread : shown.part # p /\ shown.id # id
  BY <1>1, <1>2 DEF ShownThread, PostsOf, UsedIds
<1>5. IF p = 1 THEN replyTo[p] = NoPost
      ELSE \E prev \in ShownThread : prev.part = p - 1 /\ prev.id = replyTo[p]
  <2>1. CASE p = 1
    BY <1>2, <2>1 DEF IInv, RowLineage
  <2>2. CASE p # 1
    <3>1. p > 1 /\ p - 1 \in Part
      BY <2>2 DEF Part
    <3>2. delivery[p-1] = "CONFIRMED" /\ replyTo[p] = postId[p-1]
      BY <1>2, <3>1 DEF IInv, RowLineage
    <3>3. PICK post \in timeline : post.part = p-1 /\ post.id = replyTo[p]
      BY <3>1, <3>2 DEF IInv, ConfirmedIsReal, PostsOf
    <3>4. Shown(post) \in ShownThread /\ Shown(post).part = p-1 /\ Shown(post).id = replyTo[p]
      BY <3>3 DEF Shown, ShownThread
    <3> QED BY <2>2, <3>4
  <2> QED BY <2>1, <2>2
<1>6. ShownThread' = ShownThread \cup {[part |-> p, id |-> id, parent |-> replyTo[p]]}
  <2>1. Shown(new) = [part |-> p, id |-> id, parent |-> replyTo[p]]
    BY DEF Shown
  <2>2. ShownThread' = ShownThread \cup {Shown(new)}
    BY <1>1 DEF ShownThread, Shown
  <2> QED BY <2>1, <2>2
<1>7. replyTo[p] \in PostIds \cup {NoPost} /\ p \in 1 .. PartCount /\ id \in PostIds
  BY DEF OptionalId, Part
<1>8. Thread!Extend(p, id, replyTo[p])
  BY <1>3, <1>4, <1>5, <1>6 DEF Thread!Extend, ShownThread, daemonVars
<1> QED BY <1>7, <1>8 DEF Thread!Next, Thread!Extend

\* Seen from the account, publication is PoemThread: parts appear in order, once each,
\* and the poem is handed on for submission only when the thread is complete.
THEOREM RefinesPoemThread == Spec => ImplementsPoemThread
<1>1. TypeOK /\ IInv /\ [Next]_vars => [Thread!Next]_<<ShownThread, phase = "SUBMIT">>
  <2> SUFFICES ASSUME TypeOK, IInv, [Next]_vars
               PROVE  Thread!Next \/ UNCHANGED <<ShownThread, phase = "SUBMIT">>
    OBVIOUS
  <2>1. CASE Daemon \/ Failure
    BY <2>1, DaemonRefines DEF Thread!Next
  <2>2. CASE Environment
    <3>1. CASE \E p \in Part : XCreates(p)
      BY <2>2, <3>1, CreatesRefines DEF Environment
    <3>2. CASE ~\E p \in Part : XCreates(p)
      <4>1. timeline' = timeline /\ phase' = phase
        BY <2>2, <3>2 DEF Environment, daemonVars, DeadlinePasses, xVars, XDeclines,
             AdapterNext, AdapterNoToken, AdapterRefusesPending, AdapterReusesPosted,
             AdapterSends, AdapterReauthorizes, AdapterResends, AdapterReauthFails,
             AdapterUnauthorizedAgain, AdapterRefused, AdapterServerError, AdapterPosted,
             AdapterGivesUp, RejectRow
      <4> QED BY <4>1 DEF ShownThread
    <3> QED BY <3>1, <3>2
  <2>3. CASE UNCHANGED vars
    BY <2>3 DEF vars, daemonVars, xPublisherVars, xVars, ShownThread
  <2> QED BY <2>1, <2>2, <2>3 DEF Next
<1> QED BY <1>1, InitRefines, Inductive, PTL
        DEF Spec, ImplementsPoemThread, Thread!Spec, ShownThread
=============================================================================
