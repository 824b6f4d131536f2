----------------------------- MODULE XTokenProofs -----------------------------
(***************************************************************************)
(* Proofs about XToken for any set of processes and any number of tokens.   *)
(*                                                                         *)
(* The argument: only the holder of the lock spends a refresh token, and it *)
(* spends the one it read from the file under the lock.  What the operator  *)
(* has been granted and not saved is nobody else's, so that it can neither  *)
(* be spent nor be the successor of what is; therefore whatever the file    *)
(* holds, while nobody is about to save, is alive.                          *)
(***************************************************************************)
EXTENDS XToken, TLAPS

USE XTokenAssumption DEF Token, None, Pair, NoPair

-----------------------------------------------------------------------------
\* Type correctness, and with it that the lock is held by whoever is inside refresh; what is
\* spent has been issued because what is held has.

\* X has issued every refresh token that anybody holds.
Bounded ==
    /\ file.refresh <= issued /\ grant.refresh <= issued
    /\ \A p \in Proc : pair[p].refresh <= issued

LEMMA NoPairIsPair == NoPair \in Pair /\ NoPair.refresh = None
  OBVIOUS

LEMMA ParsedIsPair ==
  ASSUME issued \in Nat, issued < MaxTokens, NEW rotated \in BOOLEAN,
         NEW prior \in Token \cup {None}
  PROVE  Parsed(rotated, prior) \in Pair
  BY DEF Parsed

\* Leaving refresh, of the process that holds the lock.
LEMMA LeaveTypeOK ==
  ASSUME TypeOK, NEW p \in Proc, lock = p, NEW tokens \in Pair, Leave(p, tokens)
  PROVE  /\ lock' \in Proc \cup {Nobody}
         /\ pc' \in [Proc -> {"idle", "ask", "wait", "locked", "sent", "save", "verify", "have"}]
         /\ mine' \in [Proc -> Pair] /\ pair' \in [Proc -> Pair]
         /\ \A q \in Proc : pc'[q] \in {"locked", "sent", "save", "verify"} <=> lock' = q
<1> HIDE DEF Pair, NoPair
<1> QED BY NoPairIsPair DEF TypeOK, Leave, Goto, Take

LEMMA BoundedStep == TypeOK /\ Bounded /\ [Next]_vars => Bounded'
<1> SUFFICES ASSUME TypeOK, Bounded, [Next]_vars PROVE Bounded'
  OBVIOUS
<1> USE DEF TypeOK, Bounded, Goto, Take, Leave, Issue, xVars
<1>1. ASSUME NEW p \in Proc, Step(p) PROVE Bounded'
  <2>1. CASE Compare(p)       BY <2>1 DEF Compare, Presented
  <2>2. CASE Answered(p)      BY <2>2 DEF Answered, Parsed
  <2>3. CASE RefreshFails(p)  BY <2>3 DEF RefreshFails
  <2>4. CASE Save(p)          BY <2>4 DEF Save
  <2>5. CASE Verify(p)        BY <2>5 DEF Verify, IdentityFails
  <2>6. CASE Ask(p) \/ Refused(p) \/ Finished(p) \/ Lock(p)
    BY <2>6 DEF Ask, Refused, Finished, Lock
  <2> QED BY <1>1, <2>1, <2>2, <2>3, <2>4, <2>5, <2>6 DEF Step
<1>2. ASSUME NEW p \in Proc, AnswerLost(p) PROVE Bounded'
  BY <1>2 DEF AnswerLost
<1>3. ASSUME NEW p \in Proc, Die(p) PROVE Bounded'
  BY <1>3 DEF Die
<1>4. CASE Authorize \/ SaveGrant \/ GetsStale
  BY <1>4 DEF Authorize, SaveGrant, GetsStale
<1>5. CASE UNCHANGED vars
  BY <1>5 DEF vars
<1> QED BY <1>1, <1>2, <1>3, <1>4, <1>5 DEF Next

\* X issues a token, and spends one that it has issued before.
LEMMA IssueTypeOK ==
  ASSUME issued \in 0 .. MaxTokens, spent \subseteq 1 .. issued, stale \subseteq 1 .. issued,
         NEW refresh \in 0 .. issued, Issue(refresh)
  PROVE  issued' \in 0 .. MaxTokens /\ spent' \subseteq 1 .. issued' /\ stale' \subseteq 1 .. issued'
<1>1. issued' = issued + 1 /\ stale' = stale /\ spent' \subseteq spent \cup (1 .. issued)
  BY DEF Issue
<1>2. issued + 1 \in 0 .. MaxTokens /\ 1 .. issued \subseteq 1 .. (issued + 1)
  BY DEF Issue
<1> QED BY <1>1, <1>2

LEMMA TypeOKStep == TypeOK /\ Bounded /\ [Next]_vars => TypeOK'
<1> SUFFICES ASSUME TypeOK, Bounded, [Next]_vars PROVE TypeOK'
  OBVIOUS
<1>a. \A p \in Proc : pair[p].refresh \in Token \cup {None} /\ pair[p].refresh \in 0 .. issued
  BY DEF TypeOK, Bounded
<1> HIDE DEF Pair, NoPair
<1> USE NoPairIsPair DEF TypeOK, Goto, Take, xVars
<1>1. ASSUME NEW p \in Proc, Step(p) PROVE TypeOK'
  <2>1. CASE Ask(p)           BY <2>1 DEF Ask
  <2>2. CASE Refused(p)       BY <2>2 DEF Refused
  <2>3. CASE Finished(p)      BY <2>3 DEF Finished
  <2>4. CASE Lock(p)          BY <2>4 DEF Lock
  <2>5. CASE Compare(p)
    <3>1. lock = p
      BY <2>5 DEF Compare
    <3>2. CASE Presented(p) = NoPair
      BY <2>5, <3>1, <3>2, LeaveTypeOK DEF Compare
    <3>3. CASE Presented(p) # NoPair
      BY <2>5, <3>3 DEF Compare, Presented
    <3> QED BY <3>2, <3>3
  <2>6. CASE Answered(p)
    <3>1. pair' \in [Proc -> Pair]
      BY <1>a, <2>6, ParsedIsPair DEF Answered, Issue
    <3>2. issued' \in 0 .. MaxTokens /\ spent' \subseteq 1 .. issued'
                                     /\ stale' \subseteq 1 .. issued'
      <4>1. PICK rotated \in BOOLEAN : Issue(IF rotated THEN pair[p].refresh ELSE None)
        BY <2>6 DEF Answered
      <4>2. (IF rotated THEN pair[p].refresh ELSE None) \in 0 .. issued
        BY <1>a
      <4> QED BY <4>1, <4>2, IssueTypeOK
    <3> QED BY <2>6, <3>1, <3>2 DEF Answered, Issue
  <2>7. CASE RefreshFails(p)  BY <2>7, LeaveTypeOK DEF RefreshFails
  <2>8. CASE Save(p)          BY <2>8 DEF Save
  <2>9. CASE Verify(p)        BY <2>9, LeaveTypeOK DEF Verify, IdentityFails
  <2> QED BY <1>1, <2>1, <2>2, <2>3, <2>4, <2>5, <2>6, <2>7, <2>8, <2>9 DEF Step
<1>2. ASSUME NEW p \in Proc, AnswerLost(p) PROVE TypeOK'
  <2>1. issued' \in 0 .. MaxTokens /\ spent' \subseteq 1 .. issued' /\ stale' \subseteq 1 .. issued'
    BY <1>a, <1>2, IssueTypeOK DEF AnswerLost
  <2> QED BY <1>2, <2>1, LeaveTypeOK DEF AnswerLost, Issue
<1>3. ASSUME NEW p \in Proc, Die(p) PROVE TypeOK'
  BY <1>3 DEF Die
<1>4. CASE Authorize
  <2>1. [access |-> issued + 1, refresh |-> issued + 1] \in Pair
    BY <1>4 DEF Authorize, Issue, Pair
  <2> QED BY <1>4, <2>1 DEF Authorize, Issue
<1>5. CASE SaveGrant   BY <1>5 DEF SaveGrant
<1>6. CASE GetsStale   BY <1>6 DEF GetsStale
<1>7. CASE UNCHANGED vars  BY <1>7 DEF vars
<1> QED BY <1>1, <1>2, <1>3, <1>4, <1>5, <1>6, <1>7 DEF Next

LEMMA InitTypeOK == Init => TypeOK /\ Bounded
<1> HIDE DEF Pair, NoPair
<1> SUFFICES ASSUME Init PROVE TypeOK /\ Bounded
  OBVIOUS
<1>1. issued = 0 /\ 0 \in 0 .. MaxTokens /\ 0 \in 0 .. MaxDeaths /\ deaths = 0
  BY DEF Init
<1>2. \A p \in Proc : pc[p] = "idle" /\ lock # p
  BY DEF Init
<1>3. mine \in [Proc -> Pair] /\ pair \in [Proc -> Pair] /\ file \in Pair /\ grant \in Pair
  BY NoPairIsPair DEF Init
<1>4. TypeOK
  BY <1>1, <1>2, <1>3 DEF Init, TypeOK
<1>5. Bounded
  BY <1>1, NoPairIsPair DEF Init, Bounded
<1> QED BY <1>4, <1>5

\* In every state each variable has its type.
THEOREM TypeCorrect == Spec => []TypeOK
<1>1. TypeOK /\ Bounded /\ [Next]_vars => (TypeOK /\ Bounded)'
  BY TypeOKStep, BoundedStep
<1> QED BY InitTypeOK, <1>1, PTL DEF Spec

-----------------------------------------------------------------------------
\* The inductive invariant.

\* A grant that is not saved yet is alive, and nobody else's.
GrantApart ==
    grant # NoPair =>
        /\ grant.refresh # None /\ grant.refresh \notin spent
        /\ grant.refresh # file.refresh
        /\ \A p \in Proc : grant.refresh # pair[p].refresh

\* What a process presents or is about to save is alive, and so is the file's, but for the
\* moment in which its successor is about to be saved.
Alive ==
    ~lost =>
        /\ ~reused
        /\ \A p \in Proc : pc[p] \in {"sent", "save"} => pair[p].refresh \notin spent
        /\ (\A p \in Proc : pc[p] # "save") => file.refresh \notin spent

IInv == TypeOK /\ Bounded /\ GrantApart /\ Alive

LEMMA GrantApartStep == TypeOK /\ Bounded /\ GrantApart /\ [Next]_vars => GrantApart'
<1> SUFFICES ASSUME TypeOK, Bounded, GrantApart, [Next]_vars PROVE GrantApart'
  OBVIOUS
<1> USE DEF TypeOK, Bounded, GrantApart, Goto, Take, Leave, Issue, xVars
<1>1. ASSUME NEW p \in Proc, Step(p) PROVE GrantApart'
  <2>1. CASE Compare(p)       BY <2>1 DEF Compare, Presented
  <2>2. CASE Answered(p)      BY <2>2 DEF Answered, Parsed
  <2>3. CASE RefreshFails(p)  BY <2>3 DEF RefreshFails
  <2>4. CASE Save(p)          BY <2>4 DEF Save
  <2>5. CASE Verify(p)        BY <2>5 DEF Verify, IdentityFails
  <2>6. CASE Ask(p) \/ Refused(p) \/ Finished(p) \/ Lock(p)
    BY <2>6 DEF Ask, Refused, Finished, Lock
  <2> QED BY <1>1, <2>1, <2>2, <2>3, <2>4, <2>5, <2>6 DEF Step
<1>2. ASSUME NEW p \in Proc, AnswerLost(p) PROVE GrantApart'
  BY <1>2 DEF AnswerLost
<1>3. ASSUME NEW p \in Proc, Die(p) PROVE GrantApart'
  BY <1>3 DEF Die
<1>4. CASE Authorize  BY <1>4 DEF Authorize
<1>5. CASE SaveGrant  BY <1>5 DEF SaveGrant
<1>6. CASE GetsStale  BY <1>6 DEF GetsStale
<1>7. CASE UNCHANGED vars
  BY <1>7 DEF vars
<1> QED BY <1>1, <1>2, <1>3, <1>4, <1>5, <1>6, <1>7 DEF Next

LEMMA AliveStep == IInv /\ [Next]_vars => Alive'
<1> SUFFICES ASSUME IInv, [Next]_vars PROVE Alive'
  OBVIOUS
<1> USE DEF IInv, TypeOK, Alive, Goto, Take, Leave, Issue, xVars
<1>1. ASSUME NEW p \in Proc, Step(p) PROVE Alive'
  <2>1. CASE Ask(p) \/ Refused(p) \/ Finished(p) \/ Lock(p)
    BY <2>1 DEF Ask, Refused, Finished, Lock
  \* Under the lock, what is presented is what the file holds.
  <2>2. CASE Compare(p)
    <3>1. pc[p] = "locked" /\ \A q \in Proc : pc[q] # "save"
      BY <2>2 DEF Compare
    <3> QED BY <2>2, <3>1 DEF Compare, Presented
  \* Only the pair of the process that holds the lock is spent.
  <2>3. CASE Answered(p)
    <3>1. \A q \in Proc : q # p => pc[q] \notin {"sent", "save"}
      BY <2>3 DEF Answered
    <3>2. pair'[p].refresh \notin spent' /\ pc'[p] = "save" /\ reused' = reused
      BY <2>3 DEF Answered, Parsed, Bounded
    <3> QED BY <2>3, <3>1, <3>2 DEF Answered
  <2>4. CASE RefreshFails(p)  BY <2>4 DEF RefreshFails
  <2>5. CASE Save(p)          BY <2>5 DEF Save
  <2>6. CASE Verify(p)        BY <2>6 DEF Verify, IdentityFails
  <2> QED BY <1>1, <2>1, <2>2, <2>3, <2>4, <2>5, <2>6 DEF Step
<1>2. ASSUME NEW p \in Proc, AnswerLost(p) PROVE Alive'
  BY <1>2 DEF AnswerLost
<1>3. ASSUME NEW p \in Proc, Die(p) PROVE Alive'
  BY <1>3 DEF Die
<1>4. CASE Authorize  BY <1>4 DEF Authorize, Bounded
<1>5. CASE SaveGrant  BY <1>5 DEF SaveGrant, GrantApart
<1>6. CASE GetsStale  BY <1>6 DEF GetsStale
<1>7. CASE UNCHANGED vars
  BY <1>7 DEF vars
<1> QED BY <1>1, <1>2, <1>3, <1>4, <1>5, <1>6, <1>7 DEF Next

-----------------------------------------------------------------------------
\* Unless an answer did not arrive or a process died holding one, X is never shown a spent
\* refresh token, and the file holds one that X takes whenever no process is between
\* presenting one and saving its successor.
THEOREM RefreshSafe == Spec => []NotStranded
<1>1. Init => IInv
  BY InitTypeOK DEF Init, IInv, GrantApart, Alive
<1>2. IInv /\ [Next]_vars => IInv'
  BY TypeOKStep, BoundedStep, GrantApartStep, AliveStep DEF IInv
<1>3. IInv => NotStranded
  BY DEF IInv, Alive, NotStranded
<1> QED BY <1>1, <1>2, <1>3, PTL DEF Spec
=============================================================================
