------------------------------ MODULE MCRules ------------------------------
(* Roles, Settings and Metadata for TLC.  They share no state: a behaviour is of the
   one that focus names. *)
EXTENDS Roles, Settings, Metadata

CONSTANTS own, other, q1, q2, w1, w2, c1, c2, d1

VARIABLE focus

vars == <<focus, roleVars, settingVars, metaVars>>

-----------------------------------------------------------------------------
(* Roles: a custom write action, a resource of its own, a readonly or a writable view,
   a writable access, a definition the catalog check reports *)

Action(readonly, granted) == [readonly |-> readonly, roles |-> granted]
Resource(removed, defined) == [off |-> FALSE, removed |-> removed, defined |-> defined]
File(resources)            == [NoFile EXCEPT !.resources = resources]

MCFiles ==
    {NoFile,
     [NoFile EXCEPT !.off = TRUE, !.access = "given", !.accessAction = Action(FALSE, DefaultRoles)],
     File(own :> Resource({"delete"}, "view" :> Action(FALSE, {"owner"}))),
     File((own :> [off |-> TRUE, removed |-> {}, defined |-> <<>>])
            @@ (other :> Resource({"create", "update", "delete"}, "sign" :> Action(FALSE, {"member", "viewer"})))),
     [File(other :> Resource(DOMAIN DefaultCrudActions, <<>>)) EXCEPT !.access = "off"]}

MCGrantSets == {{Access, <<own, "view">>}, {Access, <<own, "view">>, <<own, "update">>},
                {Access, <<other, "sign">>}}

-----------------------------------------------------------------------------
(* Settings: a key changes its type and its schema, is private, is defined twice, or has
   a schema jsonschema does not take *)

Definition(type, check, admits) ==
    [type |-> type, schema |-> [check |-> check, admits |-> admits], default |-> "0", private |-> FALSE]

Zero == <<"number", "0">>

\* [x is no JSON, and no number
MCLoads == ("0" :> {Zero}) @@ ("1" :> {<<"number", "1">>}) @@ ("[x" :> {})

MCReleases ==
    {<<"a" :> Definition("integer", "valid", {Zero})>>,
     <<"a" :> Definition("string", "valid", {}), "a" :> Definition("boolean", "none", {})>>,
     <<"a" :> Definition("json", "invalid", {Zero})>>,
     <<"a" :> [Definition("string", "none", {}) EXCEPT !.private = TRUE]>>}

-----------------------------------------------------------------------------
(* Metadata *)

Blank == [name |-> "", json |-> "str", formats |-> {}, num |-> 0, finite |-> TRUE, places |-> 0,
          len |-> 1, rank |-> 1, instant |-> 1, scheme |-> "", items |-> {}]

Null   == [Blank EXCEPT !.json = "null"]
One    == [Blank EXCEPT !.json = "int", !.num = 1]
Five   == [Blank EXCEPT !.json = "int", !.num = 5]
True   == [Blank EXCEPT !.json = "bool", !.num = 1]
Cents  == [Blank EXCEPT !.formats = {"decimal"}, !.num = 4, !.places = 2, !.len = 4]
NaN    == [Blank EXCEPT !.name = "NaN", !.formats = {"decimal"}, !.finite = FALSE, !.len = 3]
Inf    == [Blank EXCEPT !.name = "Infinity", !.formats = {"decimal"}, !.finite = FALSE, !.num = 999, !.len = 8]
Usd    == [Blank EXCEPT !.name = "USD", !.len = 3]
Jan5   == [Blank EXCEPT !.formats = DateTypes, !.rank = 2, !.instant = 5, !.len = 10]
Jan20  == [Blank EXCEPT !.formats = DateTypes, !.rank = 3, !.instant = 20, !.len = 10]
Jan10c == [Blank EXCEPT !.formats = DateTypes, !.rank = 9, !.instant = 10, !.len = 8]   \* 20250110
Ftp    == [Blank EXCEPT !.formats = {"url"}, !.scheme = "ftp", !.len = 9]
Https  == [Blank EXCEPT !.formats = {"url"}, !.scheme = "https", !.len = 9]
Strings(s)  == [Blank EXCEPT !.json = "list", !.items = s]
Pattern(s)  == [Blank EXCEPT !.formats = {"pattern"}, !.items = s]

Rules(r) == [json |-> "object", rules |-> r]
Field(type, given, default) == [type |-> type, required |-> TRUE, given |-> given, default |-> default]

MCFields ==
    c1 :> {Field("string", Rules(("min_length" :> One) @@ ("max_length" :> Five)), Null),
           Field("string", Rules("pattern" :> Pattern({"USD"})), Usd),
           Field("decimal", Rules(("min" :> One) @@ ("precision" :> One)), NaN),
           Field("integer", Rules(("min" :> True) @@ ("max" :> Five)), Null),
           Field("date", Rules("min" :> Jan20), Null),
           Field("enum", Rules("choices" :> Strings({"USD"})), Usd),
           Field("enum", NoRules, Null),
           Field("url", Rules("allowed_schemes" :> Strings({"https"})), Null),
           Field("boolean", [json |-> "list", rules |-> "min" :> One], Null)}
    @@ c2 :> {[Field("email", NoRules, Null) EXCEPT !.required = FALSE]}

MCMetadatas ==
    {<<>>, (c1 :> Usd) @@ (c2 :> Null), c2 :> Null}
    \cup {c1 :> v : v \in {Null, One, True, Cents, NaN, Inf, Usd, Jan5, Jan10c, Ftp}}

-----------------------------------------------------------------------------

Idle(part) ==
    CASE part = "roles"    -> file = NoFile /\ role = <<>> /\ edit = [q \in Editors |-> [pc |-> "new"]]
      [] part = "settings" -> /\ disk = <<>> /\ cached = NoCatalog /\ work = <<>> /\ stored = <<>>
                              /\ live = {} /\ sound = {}
      [] OTHER             -> MetaInit

Init ==
    /\ focus \in {"roles", "settings", "metadata"}
    /\ IF focus = "roles" THEN RoleInit ELSE Idle("roles")
    /\ IF focus = "settings" THEN SettingInit ELSE Idle("settings")
    /\ Idle("metadata")

Next ==
    /\ UNCHANGED focus
    /\ \/ focus = "roles"    /\ RoleNext    /\ UNCHANGED <<settingVars, metaVars>>
       \/ focus = "settings" /\ SettingNext /\ UNCHANGED <<roleVars, metaVars>>
       \/ focus = "metadata" /\ MetaNext    /\ UNCHANGED <<roleVars, settingVars>>

Spec == Init /\ [][Next]_vars

Symmetry == Permutations(Editors) \cup Permutations(Workers)
=============================================================================
