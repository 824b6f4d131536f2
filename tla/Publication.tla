----------------------------- MODULE Publication -----------------------------
(***************************************************************************)
(* Publishing the frozen poem: Daemon._publish, the publication_parts      *)
(* table of EntryClosureStore, and one adapter process per part.           *)
(*                                                                         *)
(* The daemon is one thread, but it can die between any two commits and is *)
(* restarted by its supervisor; a child process it had started may go on   *)
(* without it.  `step` is the daemon's place inside one call of _publish   *)
(* and is volatile; phase and the rows of publication_parts are durable.   *)
(***************************************************************************)
EXTENDS XPublisher

VARIABLES
    phase,      \* durable daemon phase, from PUBLISH_IF_FINAL_CONTRIBUTOR on
    delivery,   \* publication_parts.state
    postId,     \* publication_parts.x_post_id
    parentId,   \* publication_parts.parent_post_id
    strong,     \* publication_parts.strong_confirmation
    step,       \* where the running call of _publish stands
    focus       \* the part it is about

rowVars == <<delivery, postId, parentId, strong>>
daemonVars == <<phase, rowVars, step, focus>>
vars == <<daemonVars, xPublisherVars>>

Delivery == {"PLANNED", "SEND_INTENT_PERSISTED", "CONFIRMED",
             "DEFINITELY_NOT_SENT", "DELIVERY_UNKNOWN"}
\* Fault: a send intent left by a crash is not looked up.
UnknownOnly == {"DELIVERY_UNKNOWN"}

Unresolved == {"SEND_INTENT_PERSISTED", "DELIVERY_UNKNOWN"}
Sendable == {"PLANNED", "DEFINITELY_NOT_SENT"}

\* Fault: WAIT_PUBLISHER is not dispatched.
PublishingOrAuth == {"PUBLISH_IF_FINAL_CONTRIBUTOR", "X_AUTH_REQUIRED"}

\* The phases in which cycle() calls _publish.
Publishing == {"PUBLISH_IF_FINAL_CONTRIBUTOR", "WAIT_PUBLISHER", "X_AUTH_REQUIRED"}

TypeOK ==
    /\ XPublisherTypeOK
    /\ phase \in Publishing \cup {"SUBMIT"}
    /\ delivery \in [Part -> Delivery]
    /\ postId \in [Part -> OptionalId]
    /\ parentId \in [Part -> OptionalId]
    /\ strong \in [Part -> BOOLEAN]
    /\ step \in {"idle", "lookup", "checked", "intent", "waiting"}
    /\ focus \in Part

Init ==
    /\ XPublisherInit
    /\ phase = "PUBLISH_IF_FINAL_CONTRIBUTOR"
    /\ delivery = [p \in Part |-> "PLANNED"]
    /\ postId = [p \in Part |-> NoPost]
    /\ parentId = [p \in Part |-> NoPost]
    /\ strong = [p \in Part |-> FALSE]
    /\ step = "idle"
    /\ focus = 1

First(p, S) == /\ delivery[p] \in S
               /\ \A q \in 1 .. p-1 : delivery[q] \notin S

\* A call of _publish gets past its opening guard.
Called == step = "idle" /\ phase \in Publishing /\ ~late

\* Fault: an unknown part counts as published.
CompleteOrUnknown == \A p \in Part : delivery[p] \in {"CONFIRMED", "DELIVERY_UNKNOWN"}

Complete == \A p \in Part : delivery[p] = "CONFIRMED" /\ postId[p] # NoPost

\* publication_result: one UPDATE of the row, whatever its state was.
Result(p, state) ==
    /\ delivery' = [delivery EXCEPT ![p] = state]
    /\ postId' = [postId EXCEPT ![p] = NoPost]
    /\ strong' = [strong EXCEPT ![p] = FALSE]
    /\ UNCHANGED parentId

ResultConfirmed(p, id, isStrong) ==
    /\ delivery' = [delivery EXCEPT ![p] = "CONFIRMED"]
    /\ postId' = [postId EXCEPT ![p] = id]
    /\ strong' = [strong EXCEPT ![p] = isStrong]
    /\ UNCHANGED parentId

-----------------------------------------------------------------------------
\* One call of _publish.

PublishDone ==
    /\ Called /\ Complete
    /\ phase' = "SUBMIT"
    /\ UNCHANGED <<rowVars, step, focus, xPublisherVars>>

\* An unresolved part comes before anything else: a bare send intent, left
\* by a crash, is first demoted to DELIVERY_UNKNOWN.
BeginLookup(p) ==
    /\ Called /\ First(p, Unresolved)
    /\ IF delivery[p] = "SEND_INTENT_PERSISTED" THEN Result(p, "DELIVERY_UNKNOWN")
                                                ELSE UNCHANGED rowVars
    /\ step' = "lookup" /\ focus' = p
    /\ UNCHANGED <<phase, xPublisherVars>>

\* Fault: the text is not compared.
MatchesIgnoringText(p, seen) ==
    {post \in seen : post.part = p /\ post.parent = parentId[p]}

\* What recover_unknown accepts among the posts it is shown.
ExactMatches(p, seen) ==
    {post \in seen : post.part = p /\ post.exact /\ post.parent = parentId[p]}

\* Fault: not finding the post is taken as proof that it was never made.
LookupAbsenceIsNotSent(seen) ==
    /\ step = "lookup"
    /\ \/ \E post \in seen : /\ ExactMatches(focus, seen) = {post}
                             /\ ResultConfirmed(focus, post.id, TRUE)
       \/ /\ ExactMatches(focus, seen) = {}
          /\ Result(focus, "DEFINITELY_NOT_SENT")
    /\ step' = "idle"
    /\ UNCHANGED <<phase, focus, xPublisherVars>>

\* The timeline query shows the newest posts only, and may lag.
LookupAnswered(seen) ==
    /\ step = "lookup"
    /\ \/ \E post \in seen : /\ ExactMatches(focus, seen) = {post}
                             /\ ResultConfirmed(focus, post.id, TRUE)
       \/ /\ \A post \in seen : ExactMatches(focus, seen) # {post}
          /\ UNCHANGED rowVars
    /\ step' = "idle"
    /\ UNCHANGED <<phase, focus, xPublisherVars>>

NothingUnresolved == \A p \in Part : delivery[p] \notin Unresolved

\* No adapter command, no valid token, or the wrong account.
NotReady ==
    /\ Called /\ NothingUnresolved /\ ~Complete
    /\ \E wait \in {"WAIT_PUBLISHER", "X_AUTH_REQUIRED"} : phase' = wait
    /\ UNCHANGED <<rowVars, step, focus, xPublisherVars>>

TokenChecked(p) ==
    /\ Called /\ NothingUnresolved /\ First(p, Sendable)
    /\ step' = "checked" /\ focus' = p
    /\ UNCHANGED <<phase, rowVars, xPublisherVars>>

\* persist_publication_intent: the row, its parent and the new state are
\* checked and written in one transaction.
MayIntend(p) ==
    /\ delivery[p] \in Sendable
    /\ p > 1 /\ parentId[p] = NoPost => delivery[p-1] = "CONFIRMED"

\* Faults: the part's index for its id; the parent is not recorded.
ParentIndex(p) == p - 1
ParentNone(p) == NoPost

\* The parent recorded with the intent: the id of the preceding part's post.
ParentPost(p) == postId[p-1]

PersistIntent ==
    /\ step = "checked"
    /\ IF MayIntend(focus)
         THEN /\ delivery' = [delivery EXCEPT ![focus] = "SEND_INTENT_PERSISTED"]
              /\ parentId' = IF focus > 1 /\ parentId[focus] = NoPost
                               THEN [parentId EXCEPT ![focus] = ParentPost(focus)]
                               ELSE parentId
              /\ step' = "intent"
              /\ UNCHANGED <<postId, strong>>
         ELSE /\ step' = "idle"
              /\ UNCHANGED rowVars
    /\ UNCHANGED <<phase, focus, xPublisherVars>>

SpawnAdapter ==
    /\ step = "intent"
    /\ step' = "waiting"
    /\ AdapterStart(focus, parentId[focus])
    /\ UNCHANGED <<phase, rowVars, focus>>

SpawnFails ==
    /\ step = "intent"
    /\ Result(focus, "DEFINITELY_NOT_SENT")
    /\ phase' = "WAIT_PUBLISHER"
    /\ step' = "idle"
    /\ UNCHANGED <<focus, xPublisherVars>>

\* The exit status is collected and classified.
Collect(code) ==
    /\ step = "waiting" /\ adapter[focus] = code
    /\ AdapterEnds(focus)
    /\ step' = "idle"
    /\ UNCHANGED focus

CollectPosted ==
    /\ Collect("exit0")
    /\ ResultConfirmed(focus, ledgerId[focus],
                       \E post \in PostsOf(focus) : post.id = ledgerId[focus] /\ post.exact
                                                    /\ replyTo[focus] = parentId[focus])
    /\ UNCHANGED phase

CollectNotSent ==
    \/ /\ Collect("exit3")
       /\ Result(focus, "DEFINITELY_NOT_SENT")
       /\ phase' = "X_AUTH_REQUIRED"
    \/ /\ Collect("exit4")
       /\ Result(focus, "DEFINITELY_NOT_SENT")
       /\ phase' = "WAIT_PUBLISHER"

\* Fault: an ambiguous failure is taken for a refusal.
CollectAmbiguousAsNotSent ==
    /\ Collect("exit2")
    /\ Result(focus, "DEFINITELY_NOT_SENT")
    /\ UNCHANGED phase

\* Any other status.
CollectUnknown ==
    /\ Collect("exit2")
    /\ Result(focus, "DELIVERY_UNKNOWN")
    /\ UNCHANGED phase

-----------------------------------------------------------------------------
\* Crashes.  A crash of the daemon leaves its child running; a crash of the
\* child, seen by a waiting daemon, is a nonzero status.

DaemonCrashes ==
    /\ step # "idle"
    /\ step' = "idle"
    /\ UNCHANGED <<phase, rowVars, focus, xPublisherVars>>

\* subprocess.run kills the child after 120 seconds and raises
\* TimeoutExpired, which neither _publish nor run() handles.
AdapterTimesOut ==
    /\ step = "waiting" /\ adapter[focus] \notin Exits
    /\ AdapterEnds(focus)
    /\ step' = "idle"
    /\ UNCHANGED <<phase, rowVars, focus>>

\* Fault: a killed adapter is taken for one that never started.
AdapterKilledAsNotSent ==
    /\ step = "waiting" /\ adapter[focus] \notin Exits
    /\ AdapterEnds(focus)
    /\ Result(focus, "DEFINITELY_NOT_SENT")
    /\ step' = "idle"
    /\ UNCHANGED <<phase, focus>>

AdapterKilled ==
    /\ step = "waiting" /\ adapter[focus] \notin Exits
    /\ AdapterEnds(focus)
    /\ Result(focus, "DELIVERY_UNKNOWN")
    /\ step' = "idle"
    /\ UNCHANGED <<phase, focus>>

OrphanEnds(p) ==
    /\ ~(step = "waiting" /\ focus = p)
    /\ AdapterEnds(p)
    /\ UNCHANGED daemonVars

-----------------------------------------------------------------------------
Daemon ==
    \/ PublishDone \/ NotReady \/ PersistIntent \/ SpawnAdapter \/ SpawnFails
    \/ CollectPosted \/ CollectNotSent \/ CollectUnknown
    \/ \E p \in Part : BeginLookup(p) \/ TokenChecked(p)
    \/ \E seen \in SUBSET timeline : LookupAnswered(seen)

Failure == DaemonCrashes \/ AdapterTimesOut \/ AdapterKilled \/ \E p \in Part : OrphanEnds(p)

Environment ==
    /\ \/ \E p \in Part : AdapterNext(p) \/ XCreates(p) \/ XDeclines(p)
       \/ DeadlinePasses
    /\ UNCHANGED daemonVars

Next == Daemon \/ Failure \/ Environment

Spec == Init /\ [][Next]_vars

\* The daemon is a loop restarted after every crash.  A token the operator
\* repairs is eventually found valid between two crashes, a commit is
\* eventually reached, and the account's recent posts are eventually shown.
\* subprocess.run's timeout bounds every wait for the adapter.
Fairness ==
    /\ WF_vars(Daemon)
    /\ WF_vars(AdapterTimesOut)
    /\ SF_vars(\E p \in Part : TokenChecked(p))
    /\ SF_vars(PersistIntent)
    /\ SF_vars(LookupAnswered(timeline))

FairSpec == Spec /\ Fairness
-----------------------------------------------------------------------------
\* Properties.

\* The account never carries two posts of one part, whatever crashes, orphaned
\* adapters, ambiguous answers and retries happen (_publish, recover_unknown).
AtMostOnePost == \A a, b \in timeline : a.part = b.part => a = b

\* Every post but the first replies to the post of the preceding part: the
\* thread is in line order even when a part was recovered or resent.
ThreadLineage ==
    \A post \in timeline :
        IF post.part = 1 THEN post.parent = NoPost
        ELSE \E prev \in timeline : prev.part = post.part - 1 /\ prev.id = post.parent

\* A part the daemon may send is neither posted nor able to become posted by
\* a request still under way: DEFINITELY_NOT_SENT means what it says.
NotSentIsAbsent ==
    \A p \in Part : delivery[p] \in Sendable => PostsOf(p) = {} /\ wire[p] # "request"

\* A confirmed row names a real post of that part under the recorded parent,
\* and a strong confirmation that its text is exact.
ConfirmedIsPublished ==
    \A p \in Part : delivery[p] = "CONFIRMED" =>
        \E post \in PostsOf(p) : /\ post.id = postId[p]
                                 /\ post.parent = parentId[p]
                                 /\ strong[p] => post.exact

\* A part of unknown fate is only ever confirmed, never made sendable again,
\* and a confirmed row never changes.
NoBlindRetry ==
    [][\A p \in Part :
          /\ delivery[p] = "DELIVERY_UNKNOWN" => delivery'[p] \in {"DELIVERY_UNKNOWN", "CONFIRMED"}
          /\ delivery[p] = "CONFIRMED" =>
                delivery'[p] = "CONFIRMED" /\ postId'[p] = postId[p] /\ strong'[p] = strong[p]]_vars

\* A post that did reach the account, unaltered, while its answer was lost is
\* eventually found and confirmed, unless the deadline comes first.
LostAnswerRecovered ==
    \A p \in Part :
        (delivery[p] \in {"SEND_INTENT_PERSISTED", "DELIVERY_UNKNOWN"} /\ \E post \in PostsOf(p) : post.exact)
            ~> (delivery[p] = "CONFIRMED" \/ late)

\* A part known not to have been sent is tried again: neither WAIT_PUBLISHER
\* nor X_AUTH_REQUIRED is a dead end before the deadline.
NotSentIsRetried ==
    \A p \in Part : delivery[p] = "DEFINITELY_NOT_SENT" ~>
                       (delivery[p] \notin {"PLANNED", "DEFINITELY_NOT_SENT"} \/ late)

\* The daemon, the adapter and X together keep the promise of PoemThread.
Thread == INSTANCE PoemThread WITH
    thread <- {[part |-> post.part, id |-> post.id, parent |-> post.parent] : post \in timeline},
    submittable <- phase = "SUBMIT"
ImplementsPoemThread == Thread!Spec

=============================================================================
