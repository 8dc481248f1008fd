--------------------------- MODULE VersionLedger ---------------------------
(***************************************************************************)
(* VersionLedger: what making Versions promises.  One operation at a time  *)
(* has begun to make a Version.  It makes one or is refused for good.      *)
(* Until then the comments file may already hold what the Version leaves,  *)
(* then it is what the Version leaves, or what it was when the operation   *)
(* began: a comment stored meanwhile can be forgotten, no earlier one.     *)
(* Comments that a Version replaces have been kept before.  CurrentVersion *)
(* implements it.                                                          *)
(***************************************************************************)
EXTENDS Integers, Sequences

CONSTANTS
    Ops,       \* identities of the operations that make a Version
    Comments,  \* comments of the user
    None       \* the operation of the first Version

VARIABLES
    ledger,    \* the operations that made the Versions, in order
    comments,  \* the comments of the current draft
    kept,      \* sets of comments that can be restored
    held,      \* the comments when the operation began
    decided    \* what became of an operation

vars == <<ledger, comments, kept, held, decided>>

Init ==
    /\ ledger = <<None>>
    /\ comments = {}
    /\ kept = {}
    /\ held = [op \in Ops |-> {}]
    /\ decided = [op \in Ops |-> "open"]

Comment(c) ==
    /\ comments' = comments \cup {c}
    /\ UNCHANGED <<ledger, kept, held, decided>>

Keep ==
    /\ kept' = kept \cup {comments}
    /\ UNCHANGED <<ledger, comments, held, decided>>

Begin(op) ==
    /\ decided[op] = "open" /\ \A p \in Ops : decided[p] # "begun"
    /\ decided' = [decided EXCEPT ![op] = "begun"]
    /\ held' = [held EXCEPT ![op] = comments]
    /\ UNCHANGED <<ledger, comments, kept>>

(* What a Version may leave: the comments of its beginning; or others, and  *)
(* then those have been kept.                                               *)
Leaves(op, cs) ==
    cs = held[op] \/ (held[op] \in kept /\ cs \in kept \cup {{}})

(* The comments file before the decision. *)
Put(op) ==
    /\ decided[op] = "begun" /\ Leaves(op, comments')
    /\ UNCHANGED <<ledger, kept, held, decided>>

Make(op) ==
    /\ decided[op] = "begun" /\ Leaves(op, comments)
    /\ ledger' = Append(ledger, op)
    /\ decided' = [decided EXCEPT ![op] = "made"]
    /\ UNCHANGED <<comments, kept, held>>

Refuse(op) ==
    /\ \/ decided[op] = "open"
       \/ decided[op] = "begun" /\ comments = held[op]
    /\ decided' = [decided EXCEPT ![op] = "refused"]
    /\ UNCHANGED <<ledger, comments, kept, held>>

Next ==
    \/ \E c \in Comments : Comment(c)
    \/ Keep
    \/ \E op \in Ops : Begin(op) \/ Put(op) \/ Make(op) \/ Refuse(op)

Spec == Init /\ [][Next]_vars
=============================================================================
