------------------------------ MODULE PoemThread ------------------------------
(***************************************************************************)
(* What publishing a frozen poem promises, seen from outside: the account  *)
(* receives the parts in order, each exactly once, each replying to the    *)
(* one before it, and the entry is handed on for submission only when the  *)
(* whole thread stands.  No daemon, no adapter, no failures.               *)
(***************************************************************************)
EXTENDS Naturals

CONSTANTS PartCount, PostIds, NoPost

VARIABLES thread,       \* the posts: which part, its id, what it replies to
          submittable   \* the thread has been declared complete

Init == thread = {} /\ submittable = FALSE

Extend(part, id, parent) ==
    /\ ~submittable
    /\ \A post \in thread : post.part # part /\ post.id # id
    /\ IF part = 1 THEN parent = NoPost
       ELSE \E prev \in thread : prev.part = part - 1 /\ prev.id = parent
    /\ thread' = thread \cup {[part |-> part, id |-> id, parent |-> parent]}
    /\ UNCHANGED submittable

Finish ==
    /\ \A part \in 1 .. PartCount : \E post \in thread : post.part = part
    /\ submittable' = TRUE
    /\ UNCHANGED thread

Next ==
    \/ \E part \in 1 .. PartCount, id \in PostIds, parent \in PostIds \cup {NoPost} :
          Extend(part, id, parent)
    \/ Finish

Spec == Init /\ [][Next]_<<thread, submittable>>
=============================================================================
