----------------------------- MODULE AppendOnlyLog ----------------------------
(* What log.py promises: a list of statements that only ever grows at its end. *)
(* A writer that dies leaves its line open, and what comes next is lost in it; *)
(* nothing before the last line is ever touched.                               *)
EXTENDS Sequences

CONSTANTS
    Statements,
    Lost         \* what nobody can read any more

VARIABLES
    published,   \* statements, or what is lost of them
    open         \* whether the last line has no end yet

vars == <<published, open>>

Init == published = <<>> /\ open = FALSE

\* A statement on a line of its own.
Publish ==
    /\ ~open
    /\ \E s \in Statements : published' = Append(published, s)
    /\ UNCHANGED open

\* A writer dies, with all of its line written but the end, or part of it.
Die ==
    /\ ~open
    /\ \E s \in Statements \cup {Lost} : published' = Append(published, s)
    /\ open' = TRUE

\* The next writer runs into the open line; it may die as well.
RunInto ==
    /\ open
    /\ published' = [published EXCEPT ![Len(published)] = Lost]
    /\ open' \in BOOLEAN

Next == Publish \/ Die \/ RunInto

Spec == Init /\ [][Next]_vars
===============================================================================
