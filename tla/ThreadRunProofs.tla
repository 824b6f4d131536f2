---------------------------- MODULE ThreadRunProofs ----------------------------
(***************************************************************************)
(* Proofs about ThreadRun for any number of parts and any set of ids.       *)
(*                                                                         *)
(* The argument: a row once `posted' is never written again, and a run only *)
(* reaches a part when the rows of all the parts before it are posted.  So  *)
(* the parent that a request is made under, in whichever run, is the id the *)
(* ledger has and will keep for the part before; and what X creates for it, *)
(* however late and however often, hangs where it should.                   *)
(***************************************************************************)
EXTENDS ThreadRun, TLAPS

USE PartCountAssumption, NoPostAssumption

-----------------------------------------------------------------------------
\* The inductive invariant.

ParentOf(p) == IF p = 1 THEN NoPost ELSE ledgerId[p-1]
PostedUnder(p, id) == \E post \in PostsOf(p) : post.id = id /\ post.parent = ParentOf(p)

OneAtATime == \A p, q \in Part : adapter[p] # "off" /\ adapter[q] # "off" => p = q

\* A part is touched, in this run or an earlier one, after those before it are posted.
Touched(p) == adapter[p] # "off" \/ wire[p] # "none" \/ ledger[p] # "none"
InOrder == \A p \in Part : Touched(p) => \A q \in Part : q < p => ledger[q] = "posted"

ParentAgreed == \A p \in Part : adapter[p] # "off" \/ wire[p] = "request" => replyTo[p] = ParentOf(p)

\* An answer with an id, and the row made from it, name a post at its place in the thread;
\* a row changes only while it is pending.
AnswersAreReal ==
    \A p \in Part :
        /\ wire[p] = "created" => PostedUnder(p, answerId[p])
        /\ ledger[p] = "posted" => PostedUnder(p, ledgerId[p])
        /\ adapter[p] = "exit0" => ledger[p] = "posted"
        /\ adapter[p] \in {"sending", "reauth", "resending"} => ledger[p] = "pending"

AllPosted == finished => \A p \in Part : ledger[p] = "posted"

IInv == TypeOK /\ OneAtATime /\ InOrder /\ ParentAgreed /\ AnswersAreReal /\ AllPosted

-----------------------------------------------------------------------------
\* What one step of an adapter or of X does.

\* The adapter touches its own part only, and a posted row is left as it is.
LEMMA WorkSteps ==
  ASSUME IInv, NEW p \in Part, Work(p)
  PROVE  /\ adapter[p] # "off" /\ adapter'[p] # "off" /\ UNCHANGED <<finished, replyTo, answerId, timeline, late>>
         /\ adapter' \in [Part -> AdapterStep] /\ wire' \in [Part -> WireState]
         /\ ledger' \in [Part -> LedgerStatus] /\ ledgerId' \in [Part -> OptionalId]
         /\ \A q \in Part : q # p =>
               /\ adapter'[q] = adapter[q] /\ wire'[q] = wire[q]
               /\ ledger'[q] = ledger[q] /\ ledgerId'[q] = ledgerId[q]
         /\ ledger[p] = "posted" => UNCHANGED <<ledger, ledgerId, wire>>
         /\ ledger[p] = "pending" /\ adapter[p] \in {"off", "start"} => UNCHANGED wire
         /\ wire'[p] = "created" => wire[p] = "created"
         /\ ledger'[p] = "posted" /\ ledger[p] # "posted" =>
               wire[p] = "created" /\ ledgerId'[p] = answerId[p]
         /\ adapter'[p] = "exit0" => ledger'[p] = "posted"
         /\ adapter'[p] \in {"sending", "reauth", "resending"} => ledger'[p] = "pending"
<1> USE DEF IInv, TypeOK, XPublisherTypeOK, AdapterStep, Exits, WireState, LedgerStatus, xVars,
            AdapterExit, RejectRow, Posting, Resendable
<1>1. AdapterNext(p) /\ UNCHANGED finished
  BY DEF Work
<1>2. adapter[p] \in {"sending", "reauth", "resending"} => ledger[p] = "pending"
  BY DEF AnswersAreReal
<1>3. CASE AdapterNoToken(p)           BY <1>1, <1>3 DEF AdapterNoToken
<1>4. CASE AdapterRefusesPending(p)    BY <1>1, <1>4 DEF AdapterRefusesPending
<1>5. CASE AdapterReusesPosted(p)      BY <1>1, <1>5 DEF AdapterReusesPosted
<1>6. CASE AdapterSends(p)             BY <1>1, <1>6 DEF AdapterSends
<1>7. CASE AdapterReauthorizes(p)      BY <1>1, <1>2, <1>7 DEF AdapterReauthorizes
<1>8. CASE AdapterResends(p)           BY <1>1, <1>2, <1>8 DEF AdapterResends
<1>9. CASE AdapterReauthFails(p)       BY <1>1, <1>2, <1>9 DEF AdapterReauthFails
<1>10. CASE AdapterUnauthorizedAgain(p) BY <1>1, <1>2, <1>10 DEF AdapterUnauthorizedAgain
<1>11. CASE AdapterRefused(p)          BY <1>1, <1>2, <1>11 DEF AdapterRefused
<1>12. CASE AdapterServerError(p)      BY <1>1, <1>2, <1>12 DEF AdapterServerError
<1>13. CASE AdapterPosted(p)           BY <1>1, <1>2, <1>13 DEF AdapterPosted, OptionalId
<1>14. CASE AdapterGivesUp(p)          BY <1>1, <1>2, <1>14 DEF AdapterGivesUp
<1> QED BY <1>1, <1>3, <1>4, <1>5, <1>6, <1>7, <1>8, <1>9, <1>10, <1>11, <1>12, <1>13, <1>14
        DEF AdapterNext

\* X serves a request: the post it may create hangs under the request's parent.
LEMMA ServesSteps ==
  ASSUME IInv, NEW p \in Part, XServes(p)
  PROVE  /\ wire[p] = "request" /\ UNCHANGED <<finished, adapterVars, late>>
         /\ wire' \in [Part -> WireState] /\ answerId' \in [Part -> OptionalId]
         /\ timeline' \subseteq Post
         /\ wire'[p] # "request"
         /\ \A q \in Part : q # p => wire'[q] = wire[q] /\ answerId'[q] = answerId[q]
         /\ \A q \in Part : PostsOf(q) \subseteq PostsOf(q)'
         /\ wire'[p] = "created" =>
               \E post \in PostsOf(p)' : post.id = answerId'[p] /\ post.parent = replyTo[p]
<1> USE DEF IInv, TypeOK, XPublisherTypeOK, WireState, PostsOf
<1>1. CASE XCreates(p)
  <2>1. PICK id \in PostIds, exact \in BOOLEAN :
          /\ timeline' = timeline \cup
                {[id |-> id, part |-> p, parent |-> replyTo[p], exact |-> exact]}
          /\ answerId' = [answerId EXCEPT ![p] = id]
    BY <1>1 DEF XCreates
  <2>2. PICK answer \in {"created", "error"} : wire' = [wire EXCEPT ![p] = answer]
    BY <1>1 DEF XCreates
  <2> DEFINE made == [id |-> id, part |-> p, parent |-> replyTo[p], exact |-> exact]
  <2>3. made \in Post /\ made \in PostsOf(p)' /\ made.id = answerId'[p] /\ made.parent = replyTo[p]
    BY <2>1 DEF Post
  <2>4. wire[p] = "request" /\ UNCHANGED <<finished, adapterVars, late>>
    BY <1>1 DEF XCreates, XServes
  <2>5. \A q \in Part : PostsOf(q) \subseteq PostsOf(q)'
    BY <2>1
  <2>6. answerId' \in [Part -> OptionalId] /\ answerId'[p] = id
        /\ \A q \in Part : q # p => answerId'[q] = answerId[q]
    BY <2>1 DEF OptionalId
  <2>7. wire' \in [Part -> WireState] /\ wire'[p] # "request"
        /\ \A q \in Part : q # p => wire'[q] = wire[q]
    BY <2>2
  <2>8. timeline' \subseteq Post
    BY <2>1, <2>3
  <2> HIDE DEF made
  <2>9. \E post \in PostsOf(p)' : post.id = answerId'[p] /\ post.parent = replyTo[p]
    BY <2>3
  <2> QED BY ONLY <2>4, <2>5, <2>6, <2>7, <2>8, <2>9
<1>2. CASE XDeclines(p)
  BY <1>2 DEF XDeclines, XServes
<1> QED BY <1>1, <1>2 DEF XServes

\* Posted rows keep the parents of all parts that have been touched.
LEMMA ParentsStand ==
  ASSUME IInv, NEW p \in Part, Touched(p),
         \A q \in Part : ledger[q] = "posted" => ledgerId'[q] = ledgerId[q]
  PROVE  ParentOf(p)' = ParentOf(p)
<1>1. CASE p = 1
  BY <1>1 DEF ParentOf
<1>2. CASE p # 1
  <2>1. p-1 \in Part /\ p-1 < p
    BY <1>2 DEF Part
  <2> QED BY <1>2, <2>1 DEF ParentOf, IInv, InOrder
<1> QED BY <1>1, <1>2

-----------------------------------------------------------------------------
\* The steps of a run.

LEMMA RunIInv == IInv /\ Run => IInv'
<1> SUFFICES ASSUME IInv, Run PROVE IInv'
  OBVIOUS
<1>1. 1 \in Part /\ \A q \in Part : ~(q < 1)
  BY DEF Part
<1>2. /\ adapter' \in [Part -> AdapterStep] /\ replyTo' \in [Part -> OptionalId]
      /\ adapter'[1] = "start" /\ replyTo'[1] = NoPost
      /\ \A q \in Part : q # 1 => adapter'[q] = "off" /\ replyTo'[q] = replyTo[q]
      /\ UNCHANGED <<ledger, ledgerId, wire, answerId, timeline, late, finished>>
  BY <1>1 DEF Run, Idle, AdapterStart, IInv, TypeOK, XPublisherTypeOK, AdapterStep, OptionalId, xVars
<1>3. TypeOK'          BY <1>2 DEF IInv, TypeOK, XPublisherTypeOK
<1>4. OneAtATime'      BY <1>2 DEF OneAtATime
<1>5. InOrder'         BY <1>1, <1>2 DEF IInv, InOrder, Touched
<1>6. ParentAgreed'    BY <1>1, <1>2 DEF IInv, ParentAgreed, ParentOf
<1>7. AnswersAreReal'  BY <1>2 DEF IInv, AnswersAreReal, PostedUnder, PostsOf, ParentOf
<1>8. AllPosted'       BY <1>2 DEF IInv, AllPosted
<1> QED BY <1>3, <1>4, <1>5, <1>6, <1>7, <1>8 DEF IInv

LEMMA AdvanceIInv == ASSUME IInv, NEW p \in Part, Advance(p) PROVE IInv'
<1>1. /\ ledger[p] = "posted" /\ adapter[p] = "exit0"
      /\ \A q \in Part : q < p => ledger[q] = "posted"
      /\ \A q \in Part : q # p => adapter[q] = "off"
  BY DEF Advance, IInv, AnswersAreReal, InOrder, Touched, OneAtATime
<1>2. CASE p < PartCount
  <2>1. p+1 \in Part /\ p+1 # p /\ \A q \in Part : q < p+1 => q = p \/ q < p
    BY <1>2 DEF Part
  <2>2. /\ adapter' \in [Part -> AdapterStep] /\ replyTo' \in [Part -> OptionalId]
        /\ adapter'[p+1] = "start" /\ replyTo'[p+1] = ledgerId[p]
        /\ \A q \in Part : q # p+1 => adapter'[q] = "off" /\ replyTo'[q] = replyTo[q]
        /\ UNCHANGED <<ledger, ledgerId, wire, answerId, timeline, late, finished>>
    BY <1>1, <1>2, <2>1 DEF Advance, NextParent, IInv, TypeOK, XPublisherTypeOK, AdapterStep,
                            OptionalId, xVars
  <2>3. ParentOf(p+1) = ledgerId[p]
    BY <2>1 DEF ParentOf, Part
  <2>4. TypeOK'          BY <2>2 DEF IInv, TypeOK, XPublisherTypeOK
  <2>5. OneAtATime'      BY <2>2 DEF OneAtATime
  <2>6. InOrder'         BY <1>1, <2>1, <2>2 DEF IInv, InOrder, Touched
  <2>7. ParentAgreed'
    <3>1. \A q \in Part : ParentOf(q)' = ParentOf(q)
      BY <2>2 DEF ParentOf
    <3> QED BY <2>1, <2>2, <2>3, <3>1 DEF IInv, ParentAgreed
  <2>8. AnswersAreReal'  BY <2>2 DEF IInv, AnswersAreReal, PostedUnder, PostsOf, ParentOf
  <2>9. AllPosted'       BY <2>2 DEF IInv, AllPosted
  <2> QED BY <2>4, <2>5, <2>6, <2>7, <2>8, <2>9 DEF IInv
<1>3. CASE ~(p < PartCount)
  <2>1. \A q \in Part : q = p \/ q < p
    BY <1>3 DEF Part
  <2>2. /\ adapter' \in [Part -> AdapterStep] /\ finished' = TRUE
        /\ \A q \in Part : adapter'[q] = "off"
        /\ UNCHANGED <<ledger, ledgerId, replyTo, wire, answerId, timeline, late>>
    BY <1>1, <1>3 DEF Advance, AdapterEnds, IInv, TypeOK, XPublisherTypeOK, AdapterStep, xVars
  <2>3. TypeOK'          BY <2>2 DEF IInv, TypeOK, XPublisherTypeOK
  <2>4. OneAtATime'      BY <2>2 DEF OneAtATime
  <2>5. InOrder'         BY <2>2 DEF IInv, InOrder, Touched
  <2>6. ParentAgreed'    BY <2>2 DEF IInv, ParentAgreed, ParentOf
  <2>7. AnswersAreReal'  BY <2>2 DEF IInv, AnswersAreReal, PostedUnder, PostsOf, ParentOf
  <2>8. AllPosted'       BY <1>1, <2>1, <2>2 DEF AllPosted
  <2> QED BY <2>3, <2>4, <2>5, <2>6, <2>7, <2>8 DEF IInv
<1> QED BY <1>2, <1>3

LEMMA StopIInv == ASSUME IInv, NEW p \in Part, Stop(p) PROVE IInv'
<1>1. /\ adapter' \in [Part -> AdapterStep]
      /\ \A q \in Part : adapter'[q] = adapter[q] \/ adapter'[q] = "off"
      /\ UNCHANGED <<ledger, ledgerId, replyTo, wire, answerId, timeline, late, finished>>
  BY DEF Stop, AdapterEnds, IInv, TypeOK, XPublisherTypeOK, AdapterStep, xVars
<1>2. TypeOK'          BY <1>1 DEF IInv, TypeOK, XPublisherTypeOK
<1>3. OneAtATime'      BY <1>1 DEF IInv, OneAtATime
<1>4. InOrder'         BY <1>1 DEF IInv, InOrder, Touched
<1>5. ParentAgreed'    BY <1>1 DEF IInv, ParentAgreed, ParentOf
<1>6. AnswersAreReal'  BY <1>1 DEF IInv, AnswersAreReal, PostedUnder, PostsOf, ParentOf
<1>7. AllPosted'       BY <1>1 DEF IInv, AllPosted
<1> QED BY <1>2, <1>3, <1>4, <1>5, <1>6, <1>7 DEF IInv

LEMMA WorkIInv == ASSUME IInv, NEW p \in Part, Work(p) PROVE IInv'
<1>1. /\ \A q \in Part : ledger[q] = "posted" => ledger'[q] = "posted" /\ ledgerId'[q] = ledgerId[q]
      /\ \A q \in Part : Touched(q)' => Touched(q)
      /\ \A q \in Part : adapter'[q] # "off" => adapter[q] # "off"
  BY WorkSteps DEF Touched
<1>2. \A q \in Part : Touched(q) => ParentOf(q)' = ParentOf(q)
  BY <1>1, ParentsStand
<1>3. TypeOK'
  BY WorkSteps DEF IInv, TypeOK, XPublisherTypeOK
<1>4. OneAtATime'
  BY <1>1 DEF IInv, OneAtATime
<1>5. InOrder'
  BY <1>1 DEF IInv, InOrder
<1>6. ParentAgreed'
  <2>1. \A q \in Part : adapter'[q] # "off" \/ wire'[q] = "request" =>
            Touched(q) /\ (adapter[q] # "off" \/ wire[q] = "request")
    BY WorkSteps DEF Touched
  <2> QED BY <1>2, <2>1, WorkSteps DEF IInv, ParentAgreed
<1>7. AnswersAreReal'
  <2> SUFFICES ASSUME NEW q \in Part
               PROVE  /\ wire'[q] = "created" => PostedUnder(q, answerId[q])'
                      /\ ledger'[q] = "posted" => PostedUnder(q, ledgerId[q])'
                      /\ adapter'[q] = "exit0" => ledger'[q] = "posted"
                      /\ adapter'[q] \in {"sending", "reauth", "resending"} => ledger'[q] = "pending"
    BY DEF AnswersAreReal
  <2>1. /\ UNCHANGED <<answerId, timeline>>
        /\ wire'[q] = "created" => wire[q] = "created"
        /\ \/ ledger'[q] = "posted" => ledger[q] = "posted" /\ ledgerId'[q] = ledgerId[q]
           \/ wire[q] = "created" /\ ledgerId'[q] = answerId[q]
        /\ adapter'[q] = "exit0" => ledger'[q] = "posted"
        /\ adapter'[q] \in {"sending", "reauth", "resending"} => ledger'[q] = "pending"
    BY <1>1, WorkSteps DEF IInv, AnswersAreReal
  <2>2. wire[q] = "created" => PostedUnder(q, answerId[q])'
    BY <1>2, <2>1 DEF IInv, AnswersAreReal, PostedUnder, PostsOf, Touched
  <2>3. ledger[q] = "posted" => PostedUnder(q, ledgerId[q])'
    BY <1>1, <1>2, <2>1 DEF IInv, AnswersAreReal, PostedUnder, PostsOf, Touched
  <2>4. ledgerId'[q] = answerId[q] /\ PostedUnder(q, answerId[q])' => PostedUnder(q, ledgerId[q])'
    BY <2>1 DEF PostedUnder
  <2> QED BY <2>1, <2>2, <2>3, <2>4
<1>8. AllPosted'
  BY <1>1, WorkSteps DEF IInv, AllPosted
<1> QED BY <1>3, <1>4, <1>5, <1>6, <1>7, <1>8 DEF IInv

LEMMA ServesIInv == ASSUME IInv, NEW p \in Part, XServes(p) PROVE IInv'
<1>1. UNCHANGED <<ledger, ledgerId, adapter, replyTo, late, finished>>
  BY ServesSteps DEF adapterVars
<1>2. /\ \A q \in Part : ParentOf(q)' = ParentOf(q)
      /\ \A q \in Part : Touched(q)' => Touched(q)
  BY <1>1, ServesSteps DEF ParentOf, Touched
<1>3. TypeOK'
  BY <1>1, ServesSteps DEF IInv, TypeOK, XPublisherTypeOK
<1>4. OneAtATime' /\ InOrder' /\ AllPosted'
  BY <1>1, <1>2 DEF IInv, OneAtATime, InOrder, AllPosted
<1>5. ParentAgreed'
  BY <1>1, <1>2, ServesSteps DEF IInv, ParentAgreed
<1>6. AnswersAreReal'
  <2>1. \A q \in Part : \A id : PostedUnder(q, id) => \E post \in PostsOf(q)' :
            post.id = id /\ post.parent = ParentOf(q)'
    BY <1>2, ServesSteps DEF PostedUnder
  <2>2. \A q \in Part : ledger'[q] = "posted" => PostedUnder(q, ledgerId[q])'
    BY <1>1, <2>1 DEF IInv, AnswersAreReal, PostedUnder
  <2>3. wire'[p] = "created" => PostedUnder(p, answerId[p])'
    BY <1>1, <1>2, ServesSteps DEF PostedUnder, IInv, ParentAgreed
  <2>4. \A q \in Part : q # p /\ wire'[q] = "created" => PostedUnder(q, answerId[q])'
    BY <2>1, ServesSteps DEF IInv, AnswersAreReal, PostedUnder
  <2> QED BY <1>1, <2>2, <2>3, <2>4 DEF IInv, AnswersAreReal
<1> QED BY <1>3, <1>4, <1>5, <1>6 DEF IInv

LEMMA InitIInv == Init => IInv
<1> SUFFICES ASSUME Init PROVE IInv
  OBVIOUS
<1>1. TypeOK
  BY DEF Init, XPublisherInit, TypeOK, XPublisherTypeOK, OptionalId, LedgerStatus, AdapterStep,
         WireState
<1> QED BY <1>1 DEF Init, XPublisherInit, IInv, OneAtATime, InOrder, Touched, ParentAgreed,
                    AnswersAreReal, AllPosted

LEMMA IInvStep == IInv /\ [Next]_vars => IInv'
<1> SUFFICES ASSUME IInv, [Next]_vars PROVE IInv'
  OBVIOUS
<1>1. CASE UNCHANGED vars
  BY <1>1 DEF vars, xPublisherVars, adapterVars, xVars, IInv, TypeOK, XPublisherTypeOK, OneAtATime,
              InOrder, Touched, ParentAgreed, AnswersAreReal, AllPosted, PostedUnder, PostsOf,
              ParentOf
<1> QED BY <1>1, RunIInv, AdvanceIInv, StopIInv, WorkIInv, ServesIInv DEF Next

LEMMA Invariance == Spec => []IInv
  BY InitIInv, IInvStep, PTL DEF Spec

-----------------------------------------------------------------------------
\* The theorems.

\* The ledger, the adapter and X's side of every exchange keep their types.
THEOREM TypeCorrect == Spec => []TypeOK
<1>1. IInv => TypeOK
  BY DEF IInv
<1> QED BY <1>1, Invariance, PTL

\* The ids a run of the command prints, however many runs came before and whatever became
\* of their requests, are those of one unbroken chain of posts on the account.
THEOREM FinishedThread == Spec => []FinishedIsOneThread
<1>1. IInv => FinishedIsOneThread
  BY DEF IInv, AllPosted, AnswersAreReal, PostedUnder, ParentOf, FinishedIsOneThread
<1> QED BY <1>1, Invariance, PTL

\* A later run reuses a posted row, id and all, and does not repeat a request whose fate is
\* unknown.
THEOREM LedgerStands == Spec => LedgerRemembers
<1>1. ASSUME IInv, [Next]_vars
      PROVE  [\A p \in Part :
                /\ ledger[p] = "posted" => ledger'[p] = "posted" /\ ledgerId'[p] = ledgerId[p]
                /\ (ledger[p] = "pending" /\ adapter[p] \in {"off", "start"}
                      /\ wire[p] # "request") => wire'[p] # "request"]_vars
  <2>1. ASSUME NEW p \in Part, Work(p)
        PROVE  \A q \in Part :
                /\ ledger[q] = "posted" => ledger'[q] = "posted" /\ ledgerId'[q] = ledgerId[q]
                /\ (ledger[q] = "pending" /\ adapter[q] \in {"off", "start"}
                      /\ wire[q] # "request") => wire'[q] # "request"
    BY <1>1, <2>1, WorkSteps
  <2>2. ASSUME NEW p \in Part, XServes(p)
        PROVE  UNCHANGED <<ledger, ledgerId>>
               /\ \A q \in Part : wire[q] # "request" => wire'[q] # "request"
    BY <1>1, <2>2, ServesSteps DEF adapterVars
  <2>3. ASSUME NEW p \in Part, Advance(p) \/ Stop(p)
        PROVE  UNCHANGED <<ledger, ledgerId, wire>>
    BY <2>3 DEF Advance, Stop, AdapterEnds, xVars
  <2>4. Run => UNCHANGED <<ledger, ledgerId, wire>>
    BY DEF Run, AdapterStart, xVars
  <2> QED BY <1>1, <2>1, <2>2, <2>3, <2>4 DEF Next
<1> QED BY <1>1, Invariance, PTL DEF Spec, LedgerRemembers
=============================================================================
