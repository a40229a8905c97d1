----------------------------- MODULE MCAccount -----------------------------
(* Account for TLC: which requests run together. *)
EXTENDS Account, TLC

CONSTANTS r1, r2, r3, a, b

Mix(m1, m2, m3) == (r1 :> m1) @@ (r2 :> m2) @@ (r3 :> m3)

LockoutMix  == Mix({"login", "unlock", "password"}, {"wrong"}, {"wrong"})
LimitMix    == Mix({"login"}, {"login", "refresh", "logoutAll"}, {"logout"})
SessionMix  == Mix({"logoutAll"}, {"refresh", "logoutAll"}, {"logout"})
PasswordMix == Mix({"password"}, {"password"}, {"password"})
EnrolMix    == Mix({"login", "verify"}, {"verify", "enrol", "disable"}, {"enrol", "disable"})
CodesMix    == Mix({"verify"}, {"verify", "codes"}, {"verify", "disable", "codes"})
AllMixes    == {LockoutMix, LimitMix, SessionMix, PasswordMix, EnrolMix, CodesMix}

Symmetry == Permutations(Passwords)
=============================================================================
