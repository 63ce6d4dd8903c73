-------------------------- MODULE TransactionSpec --------------------------
(***************************************************************************)
(* What a transactional resource promises                                  *)
(* (MafOamSpiTransactionalResource_2.h: "Either all changes or no changes  *)
(* are applied"): a transaction collects changes that nobody else sees;    *)
(* once its commit is asked for they are settled; they are carried out all *)
(* at once, and once at most, or not at all.  Only the answer may get      *)
(* lost: then the transaction has been carried out and its user is told    *)
(* that the commit failed.  MoTransaction implements this.                 *)
(***************************************************************************)
CONSTANTS
    Transactions,
    Below          \* [names -> the names at and below each]

VARIABLES
    objects,       \* the names of the objects there are
    changes,       \* [Transactions -> its changes, records of dn and kind]
    status         \* [Transactions -> Statuses]

specVars == <<objects, changes, status>>

Statuses == {"none", "open", "closing", "committed", "doubtful", "aborted",
             "over"}

Init == /\ objects \subseteq DOMAIN Below
        /\ changes = [t \in Transactions |-> {}]
        /\ status = [t \in Transactions |-> "none"]

\* A step of t leads from one of the statuses "from" to the status "to".
Passes(t, from, to) ==
    status[t] \in from /\ status' = [status EXCEPT ![t] = to]

Begin(t) == Passes(t, {"none"}, "open") /\ UNCHANGED <<objects, changes>>

\* The user changes what the transaction is to do.
Edit(t) ==
    /\ status[t] = "open"
    /\ changes' = [changes EXCEPT ![t] = changes'[t]]
    /\ UNCHANGED <<objects, status>>

\* The commit is asked for.
Close(t) == Passes(t, {"open"}, "closing") /\ UNCHANGED <<objects, changes>>

\* All changes are carried out.
CarryOut(t) ==
    /\ objects' = (objects \cup {x.dn : x \in {y \in changes[t] : y.kind = "create"}})
                     \ UNION {Below[x.dn] : x \in {y \in changes[t] : y.kind = "delete"}}
    /\ UNCHANGED changes

Commit(t) == Passes(t, {"closing"}, "committed") /\ CarryOut(t)

LoseAnswer(t) == Passes(t, {"closing"}, "doubtful") /\ CarryOut(t)

\* Nothing is carried out.
Abort(t) ==
    Passes(t, {"open", "closing"}, "aborted") /\ UNCHANGED <<objects, changes>>

End(t) ==
    /\ Passes(t, {"closing", "committed", "doubtful", "aborted"}, "over")
    /\ changes' = [changes EXCEPT ![t] = {}]
    /\ UNCHANGED objects

Next == \E t \in Transactions :
            \/ Begin(t) \/ Edit(t) \/ Close(t) \/ Commit(t) \/ LoseAnswer(t)
            \/ Abort(t) \/ End(t)

Spec == Init /\ [][Next]_specVars

=============================================================================
