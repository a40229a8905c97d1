----------------------------- MODULE MCEventBus -----------------------------
(* Small instances of EventBus for TLC. *)
EXTENDS EventBus, TLC

CONSTANTS tDoc, tUser, p1, p2

\* Two handlers of one type.
SiblingRegistry == << [type |-> tDoc, name |-> "h1"], [type |-> tDoc, name |-> "h2"] >>

PollerSymmetry == Permutations({p1, p2})
=============================================================================
