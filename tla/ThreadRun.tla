------------------------------ MODULE ThreadRun ------------------------------
(***************************************************************************)
(* The adapter used as a command of its own (sonnet-chain-x-publisher): an *)
(* operator hands it the whole thread, it works through the parts in       *)
(* order, and it may be run again after any exit or crash.  The contest    *)
(* deadline means nothing to it.                                           *)
(***************************************************************************)
EXTENDS XPublisher

VARIABLE finished   \* some run has printed the ids of all parts

vars == <<finished, xPublisherVars>>

TypeOK == XPublisherTypeOK /\ finished \in BOOLEAN

Init == XPublisherInit /\ finished = FALSE

Idle == \A p \in Part : adapter[p] = "off"

Run ==
    /\ Idle
    /\ AdapterStart(1, NoPost)
    /\ UNCHANGED finished

\* Fault: the part's index for its id.
NextParentIndex(p) == p

\* The loop of publish: the id of one part is the parent of the next.
NextParent(p) == ledgerId[p]

Advance(p) ==
    /\ adapter[p] = "exit0"
    /\ IF p < PartCount
         THEN /\ adapter' = [adapter EXCEPT ![p] = "off", ![p+1] = "start"]
              /\ replyTo' = [replyTo EXCEPT ![p+1] = NextParent(p)]
              /\ UNCHANGED <<ledger, ledgerId, finished, xVars, late>>
         ELSE /\ AdapterEnds(p)
              /\ finished' = TRUE

\* The token is validated once, before the first part.
Work(p) ==
    /\ AdapterNext(p)
    /\ adapter'[p] = "exit3" => p = 1 \/ adapter[p] # "start"
    /\ UNCHANGED finished

\* An error status ends the run; so does being killed.
Stop(p) ==
    /\ adapter[p] # "exit0"
    /\ AdapterEnds(p)
    /\ UNCHANGED finished

XServes(p) == (XCreates(p) \/ XDeclines(p)) /\ UNCHANGED finished

Next == Run \/ \E p \in Part : Advance(p) \/ Work(p) \/ Stop(p) \/ XServes(p)

Spec == Init /\ [][Next]_vars

-----------------------------------------------------------------------------
\* Properties.

\* When a run has printed its ids, they are one unbroken chain of real posts.
FinishedIsOneThread ==
    finished => \A p \in Part : \E post \in PostsOf(p) :
        /\ post.id = ledgerId[p]
        /\ post.parent = IF p = 1 THEN NoPost ELSE ledgerId[p-1]

\* A part recorded as posted is reused for ever, and one recorded as pending
\* is not requested again by a later run.
LedgerRemembers ==
    [][\A p \in Part :
          /\ ledger[p] = "posted" => ledger'[p] = "posted" /\ ledgerId'[p] = ledgerId[p]
          /\ (ledger[p] = "pending" /\ adapter[p] \in {"off", "start"}
                /\ wire[p] # "request") => wire'[p] # "request"]_vars

=============================================================================
