------------------------------ MODULE XPublisher ------------------------------
(***************************************************************************)
(* The bundled publisher adapter (x_publisher_adapter.py) posting the      *)
(* parts of one poem thread, and the X service it talks to.                *)
(*                                                                         *)
(* An invocation works on one part at a time.  Its ledger is a separate    *)
(* SQLite table whose rows outlive the process; everything else about an   *)
(* invocation is lost when it is killed.  A request, once sent, may reach  *)
(* X even after the invocation has given up or died, and X may create the  *)
(* post without the caller ever learning of it.                            *)
(*                                                                         *)
(* This module holds the state of the adapter and of X and their steps.    *)
(* Publication adds the daemon that invokes it one part per process;       *)
(* ThreadRun adds an operator who runs it on a whole thread, repeatedly.   *)
(***************************************************************************)
EXTENDS Integers

CONSTANTS PartCount,    \* number of parts the poem was split into
          PostIds,      \* the ids X can give to a post
          NoPost        \* the absent post id: parent of the first part

ASSUME PartCountAssumption == PartCount \in Nat \ {0}
ASSUME NoPostAssumption == NoPost \notin PostIds

VARIABLES
    ledger,     \* status of the part's row in publication_posts
    ledgerId,   \* post_id recorded in that row
    adapter,    \* where the invocation working on the part stands
    replyTo,    \* the parent id that invocation posts under
    wire,       \* the HTTP exchange about the part between adapter and X
    answerId,   \* the id in X's last "created" answer about the part
    timeline,   \* the posts on the account
    late        \* the contest deadline has passed

adapterVars == <<ledger, ledgerId, adapter, replyTo>>
xVars == <<wire, answerId, timeline>>
xPublisherVars == <<adapterVars, xVars, late>>

Part == 1 .. PartCount
OptionalId == PostIds \cup {NoPost}

\* exact: X kept the text as it was sent.
Post == [id : PostIds, part : Part, parent : OptionalId, exact : BOOLEAN]

LedgerStatus == {"none", "pending", "posted", "rejected"}
Exits == {"exit0", "exit2", "exit3", "exit4"}
AdapterStep == {"off", "start", "sending", "reauth", "resending"} \cup Exits
WireState == {"none", "request", "created", "refused", "unauthorized", "error"}

XPublisherTypeOK ==
    /\ ledger \in [Part -> LedgerStatus]
    /\ ledgerId \in [Part -> OptionalId]
    /\ adapter \in [Part -> AdapterStep]
    /\ replyTo \in [Part -> OptionalId]
    /\ wire \in [Part -> WireState]
    /\ answerId \in [Part -> OptionalId]
    /\ timeline \subseteq Post
    /\ late \in BOOLEAN

XPublisherInit ==
    /\ ledger = [p \in Part |-> "none"]
    /\ ledgerId = [p \in Part |-> NoPost]
    /\ adapter = [p \in Part |-> "off"]
    /\ replyTo = [p \in Part |-> NoPost]
    /\ wire = [p \in Part |-> "none"]
    /\ answerId = [p \in Part |-> NoPost]
    /\ timeline = {}
    /\ late = FALSE

PostsOf(p) == {post \in timeline : post.part = p}
UsedIds == {post.id : post \in timeline}
Posting(p) == adapter[p] \in {"sending", "resending"}

-----------------------------------------------------------------------------
\* The adapter.

\* Start on part p under the given parent.
AdapterStart(p, parent) ==
    /\ adapter' = [adapter EXCEPT ![p] = "start"]
    /\ replyTo' = [replyTo EXCEPT ![p] = parent]
    /\ UNCHANGED <<ledger, ledgerId, xVars, late>>

AdapterExit(p, code) == adapter' = [adapter EXCEPT ![p] = code]

\* No valid token or the wrong identity: nothing is recorded.
AdapterNoToken(p) ==
    /\ adapter[p] = "start"
    /\ AdapterExit(p, "exit3")
    /\ UNCHANGED <<ledger, ledgerId, replyTo, xVars, late>>

\* Fault: a pending row is skipped as if it had been posted.
AdapterSkipsPending(p) ==
    /\ adapter[p] = "start" /\ ledger[p] = "pending"
    /\ AdapterExit(p, "exit0")
    /\ UNCHANGED <<ledger, ledgerId, replyTo, xVars, late>>

\* A row already 'pending' is an earlier request whose fate is unknown.
AdapterRefusesPending(p) ==
    /\ adapter[p] = "start"
    /\ ledger[p] = "pending"
    /\ AdapterExit(p, "exit2")
    /\ UNCHANGED <<ledger, ledgerId, replyTo, xVars, late>>

\* A row already 'posted' is reused, id and all.
AdapterReusesPosted(p) ==
    /\ adapter[p] = "start"
    /\ ledger[p] = "posted"
    /\ AdapterExit(p, "exit0")
    /\ UNCHANGED <<ledger, ledgerId, replyTo, xVars, late>>

\* Fault: a pending row does not stop a new request.
ResendableOrPending == {"none", "pending", "rejected"}

Resendable == {"none", "rejected"}

\* Otherwise the row is committed as 'pending' and the request sent.  Being
\* killed between the two looks like a request X never serves.
AdapterSends(p) ==
    /\ adapter[p] = "start"
    /\ ledger[p] \in Resendable
    /\ ledger' = [ledger EXCEPT ![p] = "pending"]
    /\ wire' = [wire EXCEPT ![p] = "request"]
    /\ adapter' = [adapter EXCEPT ![p] = "sending"]
    /\ UNCHANGED <<ledgerId, replyTo, answerId, timeline, late>>

\* The first 401 leads to a refresh and one more request.
AdapterReauthorizes(p) ==
    /\ adapter[p] = "sending"
    /\ wire[p] = "unauthorized"
    /\ wire' = [wire EXCEPT ![p] = "none"]
    /\ adapter' = [adapter EXCEPT ![p] = "reauth"]
    /\ UNCHANGED <<ledger, ledgerId, replyTo, answerId, timeline, late>>

AdapterResends(p) ==
    /\ adapter[p] = "reauth"
    /\ wire' = [wire EXCEPT ![p] = "request"]
    /\ adapter' = [adapter EXCEPT ![p] = "resending"]
    /\ UNCHANGED <<ledger, ledgerId, replyTo, answerId, timeline, late>>

RejectRow(p, code) ==
    /\ ledger' = [ledger EXCEPT ![p] = "rejected"]
    /\ AdapterExit(p, code)
    /\ UNCHANGED <<ledgerId, replyTo, answerId, timeline, late>>

\* The refresh or the new identity fails.
AdapterReauthFails(p) ==
    /\ adapter[p] = "reauth"
    /\ RejectRow(p, "exit3")
    /\ UNCHANGED wire

\* A second 401.
AdapterUnauthorizedAgain(p) ==
    /\ adapter[p] = "resending"
    /\ wire[p] = "unauthorized"
    /\ wire' = [wire EXCEPT ![p] = "none"]
    /\ RejectRow(p, "exit3")

\* A 4xx answer: X did not create the post.
AdapterRefused(p) ==
    /\ Posting(p)
    /\ wire[p] = "refused"
    /\ wire' = [wire EXCEPT ![p] = "none"]
    /\ RejectRow(p, "exit4")

\* A 5xx answer: reported as ambiguous, recorded as 'rejected'.
AdapterServerError(p) ==
    /\ Posting(p)
    /\ wire[p] = "error"
    /\ wire' = [wire EXCEPT ![p] = "none"]
    /\ RejectRow(p, "exit2")

\* The post's id arrives and is recorded.
AdapterPosted(p) ==
    /\ Posting(p)
    /\ wire[p] = "created"
    /\ ledger' = [ledger EXCEPT ![p] = "posted"]
    /\ ledgerId' = [ledgerId EXCEPT ![p] = answerId[p]]
    /\ wire' = [wire EXCEPT ![p] = "none"]
    /\ AdapterExit(p, "exit0")
    /\ UNCHANGED <<replyTo, answerId, timeline, late>>

\* Transport failure while posting or while refreshing the token, or an
\* unreadable answer: the row stays 'pending', the exchange is abandoned.
AdapterGivesUp(p) ==
    /\ Posting(p) \/ adapter[p] = "reauth"
    /\ AdapterExit(p, "exit2")
    /\ UNCHANGED <<ledger, ledgerId, replyTo, xVars, late>>

\* The process disappears, at any point, or its exit status is consumed.
AdapterEnds(p) ==
    /\ adapter[p] # "off"
    /\ adapter' = [adapter EXCEPT ![p] = "off"]
    /\ UNCHANGED <<ledger, ledgerId, replyTo, xVars, late>>

AdapterNext(p) ==
    \/ AdapterNoToken(p)      \/ AdapterRefusesPending(p)
    \/ AdapterReusesPosted(p) \/ AdapterSends(p)
    \/ AdapterReauthorizes(p) \/ AdapterResends(p)
    \/ AdapterReauthFails(p)  \/ AdapterUnauthorizedAgain(p)
    \/ AdapterRefused(p)      \/ AdapterServerError(p)
    \/ AdapterPosted(p)       \/ AdapterGivesUp(p)

-----------------------------------------------------------------------------
\* X, and the clock.

\* X creates the post, perhaps altering its text, and answers with its id
\* or fails after the fact.
XCreates(p) ==
    /\ wire[p] = "request"
    /\ \E id \in PostIds \ UsedIds, exact \in BOOLEAN :
          /\ timeline' = timeline \cup
                {[id |-> id, part |-> p, parent |-> replyTo[p], exact |-> exact]}
          /\ answerId' = [answerId EXCEPT ![p] = id]
    /\ \E answer \in {"created", "error"} : wire' = [wire EXCEPT ![p] = answer]
    /\ UNCHANGED <<adapterVars, late>>

\* X answers without creating anything.
XDeclines(p) ==
    /\ wire[p] = "request"
    /\ \E answer \in {"refused", "unauthorized", "error"} :
          wire' = [wire EXCEPT ![p] = answer]
    /\ UNCHANGED <<adapterVars, answerId, timeline, late>>

DeadlinePasses ==
    /\ ~late
    /\ late' = TRUE
    /\ UNCHANGED <<adapterVars, xVars>>
=============================================================================
