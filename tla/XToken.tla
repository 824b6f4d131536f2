------------------------------- MODULE XToken --------------------------------
(***************************************************************************)
(* The X tokens that several processes share (XTokenManager and authorize   *)
(* of x_oauth.py, atomic_write_private): the daemon, its publisher adapter  *)
(* and the narrative publisher read one file, refresh it under one lock     *)
(* file, and an operator may replace it at any time, without the lock.      *)
(*                                                                         *)
(* X takes a refresh token once, if it answers with another; an access      *)
(* token and a refresh token are numbered in the order X issues them.  A    *)
(* new authorization is taken not to revoke the tokens of an older one.     *)
(***************************************************************************)
EXTENDS Naturals, FiniteSets

CONSTANTS Proc,       \* processes that use the token
          MaxTokens,  \* bound: tokens X issues
          MaxDeaths   \* bound: deaths of processes and answers that are lost

Nobody == "nobody"

ASSUME XTokenAssumption ==
    Nobody \notin Proc /\ MaxTokens \in Nat \ {0} /\ MaxDeaths \in Nat

Token == 1 .. MaxTokens
None == 0
Pair == [access : Token \cup {None}, refresh : Token \cup {None}]
NoPair == [access |-> None, refresh |-> None]

VARIABLES
    file,         \* the token file
    lock,         \* who holds the lock file
    pc,           \* where in the manager each process is
    mine,         \* the tokens it found, was refused, or was given
    pair,         \* what it presents to X, then what it got
    grant,        \* what the operator's authorization got and has not saved
    \* X, and the clock
    issued,       \* tokens issued
    spent,        \* refresh tokens X takes no more
    stale,        \* access tokens with less than refresh_threshold to go
    reused,       \* X was shown a spent refresh token
    lost, deaths  \* X rotated a token and no process saved the answer; a bound

vars == <<file, lock, pc, mine, pair, grant, issued, spent, stale, reused, lost, deaths>>
xVars == <<issued, spent, stale, reused>>

TypeOK ==
    /\ file \in Pair /\ lock \in Proc \cup {Nobody}
    /\ pc \in [Proc -> {"idle", "ask", "wait", "locked", "sent", "save", "verify", "have"}]
    /\ mine \in [Proc -> Pair] /\ pair \in [Proc -> Pair] /\ grant \in Pair
    /\ issued \in 0 .. MaxTokens /\ spent \subseteq 1 .. issued /\ stale \subseteq 1 .. issued
    /\ reused \in BOOLEAN /\ lost \in BOOLEAN /\ deaths \in 0 .. MaxDeaths
    /\ \A p \in Proc : pc[p] \in {"locked", "sent", "save", "verify"} <=> lock = p

Init ==
    /\ file = NoPair /\ lock = Nobody
    /\ pc = [p \in Proc |-> "idle"] /\ mine = [p \in Proc |-> NoPair]
    /\ pair = [p \in Proc |-> NoPair] /\ grant = NoPair
    /\ issued = 0 /\ spent = {} /\ stale = {} /\ reused = FALSE /\ lost = FALSE /\ deaths = 0

Goto(p, where) == pc' = [pc EXCEPT ![p] = where]
Take(p, tokens) == mine' = [mine EXCEPT ![p] = tokens]

-----------------------------------------------------------------------------
\* get_valid_access_token; without a token file, XAuthRequired.

Ask(p) ==
    /\ pc[p] \in {"idle", "ask"}
    /\ file # NoPair
    /\ Take(p, file)
    /\ Goto(p, IF file.access \in stale THEN "wait" ELSE "have")
    /\ UNCHANGED <<file, lock, pair, grant, xVars, lost, deaths>>

\* The adapter's 401: refresh if the token is still the current one, else ask again.
Refused(p) ==
    /\ pc[p] = "have"
    /\ Goto(p, IF file.access = mine[p].access THEN "wait" ELSE "ask")
    /\ UNCHANGED <<file, lock, mine, pair, grant, xVars, lost, deaths>>

Finished(p) ==
    /\ pc[p] = "have" /\ Goto(p, "idle") /\ Take(p, NoPair)
    /\ UNCHANGED <<file, lock, pair, grant, xVars, lost, deaths>>

Lock(p) ==
    /\ pc[p] = "wait" /\ lock = Nobody /\ lock' = p /\ Goto(p, "locked")
    /\ UNCHANGED <<file, mine, pair, grant, xVars, lost, deaths>>

\* Leaving refresh, with a token or without, releases the lock.
Leave(p, tokens) ==
    /\ lock' = Nobody /\ Take(p, tokens) /\ pair' = [pair EXCEPT ![p] = NoPair]
    /\ Goto(p, IF tokens = NoPair THEN "idle" ELSE "have")

\* Fault: what was read before the lock was had is presented.
AsRead(p) == mine[p]

\* _refresh_locked reads again: what it presents is in the file now, and nothing if another
\* process has replaced the token meanwhile.
Presented(p) == IF file.access = mine[p].access THEN file ELSE NoPair

Compare(p) ==
    /\ pc[p] = "locked"
    /\ IF Presented(p) = NoPair
         THEN Leave(p, file)
         ELSE /\ pair' = [pair EXCEPT ![p] = Presented(p)] /\ Goto(p, "sent")
              /\ UNCHANGED <<lock, mine>>
    /\ UNCHANGED <<file, grant, xVars, lost, deaths>>

-----------------------------------------------------------------------------
\* X and the network, between the request and its answer.

Issue(refresh) ==
    /\ issued < MaxTokens /\ issued' = issued + 1
    /\ spent' = (IF refresh = None THEN spent ELSE spent \cup {refresh})
    /\ UNCHANGED <<stale, reused>>

\* parse_token_response: without a new refresh token the prior one is kept.
Parsed(rotated, prior) ==
    [access |-> issued + 1, refresh |-> IF rotated THEN issued + 1 ELSE prior]

Answered(p) ==
    /\ pc[p] = "sent" /\ pair[p].refresh \notin spent
    /\ \E rotated \in BOOLEAN :
          /\ Issue(IF rotated THEN pair[p].refresh ELSE None)
          /\ pair' = [pair EXCEPT ![p] = Parsed(rotated, pair[p].refresh)]
    /\ Goto(p, "save")
    /\ UNCHANGED <<file, lock, mine, grant, lost, deaths>>

\* X refuses, or is not reached: XAuthRequired.
RefreshFails(p) ==
    /\ pc[p] = "sent" /\ Leave(p, NoPair)
    /\ reused' = (reused \/ pair[p].refresh \in spent)
    /\ UNCHANGED <<file, grant, issued, spent, stale, lost, deaths>>

\* The answer does not arrive or cannot be used, or the process dies with the request on
\* the wire.
AnswerLost(p) ==
    /\ pc[p] = "sent" /\ pair[p].refresh \notin spent
    /\ deaths < MaxDeaths /\ deaths' = deaths + 1 /\ lost' = TRUE
    /\ Issue(pair[p].refresh) /\ Leave(p, NoPair)
    /\ UNCHANGED <<file, grant>>

-----------------------------------------------------------------------------
\* atomic_write_private: the file is the old one or the new one.
Save(p) ==
    /\ pc[p] = "save" /\ file' = pair[p] /\ Goto(p, "verify")
    /\ UNCHANGED <<lock, mine, pair, grant, xVars, lost, deaths>>

\* Fault: a failed check of the identity leaves the lock held.
CheckFails(p) == Goto(p, "idle") /\ UNCHANGED <<lock, mine, pair>>

IdentityFails(p) == Leave(p, NoPair)

\* The account is checked after the new pair is saved; what fails then is not undone.
Verify(p) ==
    /\ pc[p] = "verify"
    /\ Leave(p, pair[p]) \/ IdentityFails(p)
    /\ UNCHANGED <<file, grant, xVars, lost, deaths>>

\* The kernel releases the lock of a process that dies.
Die(p) ==
    /\ pc[p] # "idle" /\ deaths < MaxDeaths /\ deaths' = deaths + 1
    /\ Goto(p, "idle") /\ Take(p, NoPair) /\ pair' = [pair EXCEPT ![p] = NoPair]
    /\ lock' = (IF lock = p THEN Nobody ELSE lock)
    /\ lost' = (lost \/ pc[p] = "save")
    /\ UNCHANGED <<file, grant, xVars>>

-----------------------------------------------------------------------------
\* authorize: the code is exchanged and the account checked; then the file is written.

Authorize ==
    /\ grant = NoPair /\ Issue(None)
    /\ grant' = [access |-> issued + 1, refresh |-> issued + 1]
    /\ UNCHANGED <<file, lock, pc, mine, pair, lost, deaths>>

SaveGrant ==
    /\ grant # NoPair /\ file' = grant /\ grant' = NoPair
    /\ UNCHANGED <<lock, pc, mine, pair, xVars, lost, deaths>>

GetsStale ==
    /\ \E t \in (1 .. issued) \ stale : stale' = stale \cup {t}
    /\ UNCHANGED <<file, lock, pc, mine, pair, grant, issued, spent, reused, lost, deaths>>

Step(p) == \/ Ask(p) \/ Refused(p) \/ Finished(p) \/ Lock(p) \/ Compare(p)
           \/ Answered(p) \/ RefreshFails(p) \/ Save(p) \/ Verify(p)

Next == \/ \E p \in Proc : Step(p) \/ AnswerLost(p) \/ Die(p)
        \/ Authorize \/ SaveGrant \/ GetsStale

Spec == Init /\ [][Next]_vars

\* A request has a timeout of 30 s, and a process that waits for the lock is not passed
\* over for ever.
FairSpec ==
    /\ Spec
    /\ \A p \in Proc : /\ WF_vars(Compare(p) \/ Answered(p) \/ RefreshFails(p) \/ Save(p) \/ Verify(p))
                       /\ SF_vars(Lock(p))

-----------------------------------------------------------------------------
\* A rotated token is lost only with an answer that did not arrive or with a process that
\* died holding it, not by two processes that found the same token stale, nor by an
\* authorization that is saved in the midst of a refresh: otherwise X is never shown a
\* spent refresh token, and while no process is between presenting one and saving its
\* successor, the file holds one that X still takes.
NotStranded ==
    ~lost => /\ ~reused
             /\ (\A p \in Proc : pc[p] \notin {"sent", "save"})
                   => file = NoPair \/ file.refresh \notin spent

\* Whoever waits for the lock gets an answer, although others fail or die holding it.
RefreshEnds ==
    \A p \in Proc : pc[p] = "wait" ~> pc[p] \in {"idle", "have"}
=============================================================================
