------------------------------ MODULE BadgeDecay ------------------------------
(* What statement.py promises a reader: a badge is not a stored value that     *)
(* somebody maintains. Once issued it only ever decays, with the passing of    *)
(* time alone; it is never renewed in place, and REVOKED never changes.        *)
EXTENDS Sequences, Naturals

CONSTANTS VALID, STALE, EXPIRED, REVOKED

VARIABLE shown      \* what each badge issued so far shows at this moment

States == {VALID, STALE, EXPIRED, REVOKED}

Worse(state) ==
    CASE state = VALID -> {STALE, EXPIRED}
      [] state = STALE -> {EXPIRED}
      [] OTHER -> {}

Init == shown = <<>>

Issue == \E state \in States : shown' = Append(shown, state)

Decay ==
    /\ Len(shown') = Len(shown)
    /\ DOMAIN shown' = DOMAIN shown
    /\ \A i \in DOMAIN shown : shown'[i] \in {shown[i]} \cup Worse(shown[i])

Next == Issue \/ Decay

Spec == Init /\ [][Next]_shown
===============================================================================
