---------------------------- MODULE MCWebRequest ----------------------------
(* WebRequest for TLC: which requests come together. *)
EXTENDS WebRequest, TLC

CONSTANTS r1, r2, r3, t1, t2

Mix(c1, c2, c3) == (r1 :> c1) @@ (r2 :> c2) @@ (r3 :> c3)

Jwt(kind, tenant)  == [kind |-> kind, tenant |-> tenant, session |-> FALSE, keyed |-> TRUE,
                       superuser |-> FALSE, deleted |-> FALSE]
Keyed(kind)        == [Jwt(kind, t1) EXCEPT !.session = TRUE]
Restoring(kind)    == [Jwt(kind, t1) EXCEPT !.superuser = TRUE, !.deleted = TRUE]

Unlimited(calls) == [calls |-> calls, limited |-> FALSE]

KeyedMix   == Unlimited(Mix(Keyed("create"), Keyed("create"), Keyed("update")))
RowMix     == Unlimited(Mix(Jwt("update", t1), Restoring("update"), Jwt("delete", t1)))
CreateMix  == Unlimited(Mix(Jwt("create", t1), Jwt("create", t1), Jwt("delete", t1)))
NameMix    == Unlimited(Mix(Jwt("create", t1), Jwt("update", t1), Jwt("delete", t1)))
TenantMix  == Unlimited(Mix(Jwt("create", t2), Jwt("update", t1), Jwt("create", None)))
RateMix    == [calls |-> Mix(Jwt("delete", t1), Jwt("delete", t2), Jwt("delete", None)), limited |-> TRUE]
AllMixes   == {KeyedMix, RowMix, CreateMix, NameMix, TenantMix, RateMix}

Symmetry == Permutations(Threads) \cup Permutations(Names)
=============================================================================
