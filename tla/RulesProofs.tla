---------------------------- MODULE RulesProofs ----------------------------
(***************************************************************************)
(* What is validated under one catalog, release or definition and read     *)
(* under another: roles, tenant settings and metadata, for any files,      *)
(* releases, definitions and values, any number of requests, and           *)
(* deployments at any time.                                                *)
(***************************************************************************)
EXTENDS Roles, Settings, Metadata, SequenceTheorems, WellFoundedInduction, NaturalsInduction, TLAPS

RoleSpec == RoleInit /\ [][RoleNext]_roleVars

\* A viewer's permissions write nothing of the catalog they were checked against,
\* but for what seeding takes over from a catalog the check would have reported.
ReadOnly(r) ==
    r.kind = "viewer" =>
        \A c \in Writes(r.seen) \cap r.permissions : r.seeded /\ c \in CatalogErrors(r.seen) \cup {Access}

\* The instances requests have in hand must be as good as the stored roles: saves
\* write all their fields.
RolesInv ==
    /\ \A name \in DOMAIN role : ReadOnly(role[name])
    /\ DOMAIN edit = Editors
    /\ \A q \in Editors : edit[q].pc # "new" => ReadOnly(edit[q].copy)

\* tenants/signals.py:18-27: a viewer that is seeded gets the default grants, and
\* writes among them are what validate_business_rules reports.
LEMMA SeededReadOnly ==
    ASSUME NEW f, NEW r, r.kind = "viewer" => r.permissions = DefaultPermissions(f, "viewer"),
           r.seen = f, r.seeded = TRUE
    PROVE  ReadOnly(r)
  BY DEF ReadOnly, DefaultPermissions, CatalogErrors, Writes

\* iam_roles/serializers.py:64-72
LEMMA AcceptedReadOnly ==
    ASSUME NEW r, Accepted(r.kind, r.permissions), r.seen = file
    PROVE  ReadOnly(r)
  BY DEF ReadOnly, Accepted

\* Seeding, validation and saves of stale instances (iam_roles/serializers.py:49-83,
\* core/base/serializers.py:110-150) keep roles and copies read-only.
LEMMA StepKeepsRoles ==
    ASSUME RolesInv, [RoleNext]_roleVars
    PROVE  RolesInv'
<1>. USE DEF RolesInv
<1>1. ASSUME NEW f \in Files, Deploy(f) PROVE RolesInv'
  BY <1>1 DEF Deploy
<1>2. CASE SeedDefaultRoles
  <2>1. \A r \in DefaultRoles : ReadOnly(role'[r])
    BY <1>2, SeededReadOnly DEF SeedDefaultRoles
  <2>. QED
    BY <1>2, <2>1 DEF SeedDefaultRoles
<1>3. ASSUME NEW q \in Editors, NEW to, NEW name, NEW copy, ReadOnly(copy), EditTo(q, to, name, copy), UNCHANGED role
      PROVE  RolesInv'
  BY <1>3 DEF EditTo
<1>4. ASSUME NEW kind, NEW permissions, Accepted(kind, permissions)
      PROVE  ReadOnly(Given(kind, permissions))
  BY <1>4, AcceptedReadOnly DEF Given
<1>5. ASSUME NEW q \in Editors,
             \/ \E kind \in RoleKinds, permissions \in GrantSets : ValidateNew(q, kind, permissions)
             \/ \E name \in Edited : Load(q, name)
             \/ \E permissions \in GrantSets : ValidatePermissions(q, permissions)
             \/ ValidateOther(q)
      PROVE  RolesInv'
  <2>1. ASSUME NEW kind \in RoleKinds, NEW permissions \in GrantSets, ValidateNew(q, kind, permissions)
        PROVE  RolesInv'
    BY <1>3, <1>4, <2>1 DEF ValidateNew
  <2>2. ASSUME NEW name \in Edited, Load(q, name) PROVE RolesInv'
    BY <1>3, <2>2 DEF Load
  <2>3. ASSUME NEW permissions \in GrantSets, ValidatePermissions(q, permissions) PROVE RolesInv'
    BY <1>3, <1>4, <2>3 DEF ValidatePermissions
  <2>4. CASE ValidateOther(q)
    BY <1>3, <2>4 DEF ValidateOther
  <2>. QED
    BY <1>5, <2>1, <2>2, <2>3, <2>4
<1>6. ASSUME NEW q \in Editors, InsertRole(q) \/ SaveRole(q) PROVE RolesInv'
  <2>1. ReadOnly(edit[q].copy) /\ EditTo(q, "done", edit[q].name, edit[q].copy)
    BY <1>6 DEF InsertRole, SaveRole
  <2>2. \A name \in DOMAIN role' : ReadOnly(role'[name])
    BY <1>6, <2>1 DEF InsertRole, SaveRole, Store
  <2>. QED
    BY <2>1, <2>2 DEF EditTo
<1>7. CASE UNCHANGED roleVars
  BY <1>7 DEF roleVars
<1>. QED
  BY <1>1, <1>2, <1>3, <1>4, <1>5, <1>6, <1>7 DEF RoleNext

\* A viewer who is no admin can do nothing that wrote under the catalog its role was
\* checked against, unless it was seeded so (iam_roles/serializers.py:49-83).
THEOREM ViewersReadCorrect == RoleSpec => []ViewersRead
<1>1. RoleInit => RolesInv
  BY DEF RoleInit, RolesInv
<1>2. RolesInv => ViewersRead
  BY DEF RolesInv, ViewersRead, ReadOnly, Allowed
<1>. QED
  BY <1>1, <1>2, StepKeepsRoles, PTL DEF RoleSpec

-----------------------------------------------------------------------------
(* Settings *)

SettingSpec == SettingInit /\ [][SettingNext]_settingVars

Catalogs == {MergedSettings(release) : release \in live}

\* What is in hand of a request that looked up after the cache was last deleted: the
\* catalog of its own release, a live catalog, a value that conforms to one.
RequestOK(q) ==
    /\ q.since /\ q.pc = "ready" => q.catalog \in Catalogs
    /\ q.since /\ q.pc = "save" =>
           \E c \in Catalogs : q.key \in Public(c) /\ Conforms(c[q.key], q.value)

\* A catalog that waits to be stored is of a release its worker still runs: that is why
\* a late store brings no release back that was gone when the cache was deleted.
WorkInv ==
    /\ DOMAIN disk = Workers /\ DOMAIN work = Workers
    /\ \A w \in Workers :
         /\ disk[w] \in live
         /\ DOMAIN work[w] = DOMAIN NoRequest
         /\ work[w].pc = "set" => work[w].catalog = MergedSettings(disk[w])
         /\ work[w].pc = "save" => work[w].key \in DOMAIN stored
         /\ work[w].read = 3 /\ work[w].pc # "idle" => work[w].key \in DOMAIN stored
         /\ work[w].since /\ work[w].pc # "save" => work[w].read = 3 /\ work[w].value = NoText
         /\ RequestOK(work[w])

SoundInv ==
    /\ cached \in {NoCatalog} \cup Catalogs
    /\ sound \subseteq DOMAIN stored
    /\ \A k \in sound : \E c \in Catalogs : k \in Public(c) /\ Conforms(c[k], stored[k])

SettingInv == WorkInv /\ SoundInv

\* A step of one request that changes neither the cache nor a row.
LEMMA RequestStep ==
    ASSUME SettingInv, NEW w \in Workers, NEW q, WorkTo(w, q), UNCHANGED <<disk, cached, stored, live, sound>>,
           DOMAIN q = DOMAIN NoRequest,
           q.pc = "set" => q.catalog = MergedSettings(disk[w]),
           q.pc = "save" => q.key \in DOMAIN stored,
           q.read = 3 /\ q.pc # "idle" => q.key \in DOMAIN stored,
           q.since /\ q.pc # "save" => q.read = 3 /\ q.value = NoText,
           RequestOK(q)
    PROVE  SettingInv'
<1>1. work'[w] = q /\ DOMAIN work' = Workers /\ \A v \in Workers \ {w} : work'[v] = work[v]
  BY DEF WorkTo, SettingInv, WorkInv
<1>2. Catalogs' = Catalogs
  BY DEF Catalogs
<1>3. WorkInv'
  BY <1>1, <1>2 DEF WorkInv, SettingInv, RequestOK
<1>4. SoundInv'
  BY <1>2 DEF SoundInv, SettingInv
<1>. QED
  BY <1>3, <1>4 DEF SettingInv

\* tenant_settings/catalog.py:184-191: a reading takes what the cache holds, or the own files.
LEMMA CatalogKeeps ==
    ASSUME SettingInv, NEW w \in Workers, CatalogGet(w) \/ CatalogBuild(w) \/ CatalogSet(w)
    PROVE  SettingInv'
<1>. DEFINE q == work[w]
<1>0. /\ DOMAIN q = DOMAIN NoRequest /\ DOMAIN work = Workers /\ disk[w] \in live
      /\ q.read = 3 /\ q.pc # "idle" => q.key \in DOMAIN stored
      /\ q.since /\ q.pc # "save" => q.read = 3 /\ q.value = NoText
  BY DEF SettingInv, WorkInv
<1>1. CASE CatalogGet(w)
  <2>. DEFINE g == [q EXCEPT !.since = q.read = 3 /\ q.value = NoText]
              h == IF cached = NoCatalog THEN [g EXCEPT !.pc = "build"]
                   ELSE [g EXCEPT !.pc = "ready", !.catalog = cached]
  <2>1. /\ DOMAIN h = DOMAIN NoRequest /\ h.pc \in {"build", "ready"} /\ h.key = q.key /\ h.read = q.read
        /\ h.value = q.value /\ (h.since <=> q.read = 3 /\ q.value = NoText)
        /\ h.pc = "ready" => h.catalog = cached /\ cached # NoCatalog
    BY <1>0 DEF NoRequest
  <2>2. RequestOK(h)
    BY <2>1 DEF RequestOK, SettingInv, SoundInv
  <2>3. WorkTo(w, h) /\ q.pc = "get" /\ UNCHANGED <<disk, cached, stored, live, sound>>
    BY <1>1 DEF CatalogGet
  <2>. HIDE DEF h
  <2>. QED
    BY <1>0, <2>1, <2>2, <2>3, RequestStep
<1>2. CASE CatalogBuild(w)
  <2>. DEFINE h == [q EXCEPT !.pc = "set", !.catalog = MergedSettings(disk[w])]
  <2>1. /\ DOMAIN h = DOMAIN NoRequest /\ h.pc = "set" /\ h.key = q.key /\ h.read = q.read
        /\ h.catalog = MergedSettings(disk[w]) /\ h.value = q.value /\ h.since = q.since
    BY <1>0 DEF NoRequest
  <2>2. WorkTo(w, h) /\ q.pc = "build" /\ UNCHANGED <<disk, cached, stored, live, sound>>
    BY <1>2 DEF CatalogBuild
  <2>. HIDE DEF h
  <2>. QED
    BY <1>0, <2>1, <2>2, RequestStep DEF RequestOK
<1>3. CASE CatalogSet(w)
  <2>1. /\ q.catalog = MergedSettings(disk[w]) /\ cached' = q.catalog /\ q.pc = "set"
        /\ UNCHANGED <<disk, stored, live, sound>> /\ Catalogs' = Catalogs
    BY <1>3 DEF CatalogSet, SettingInv, WorkInv, Catalogs
  <2>2. SoundInv'
    BY <1>0, <2>1 DEF SettingInv, SoundInv, Catalogs
  <2>3. work' = [work EXCEPT ![w] = [q EXCEPT !.pc = "ready"]]
    BY <1>3 DEF CatalogSet, WorkTo
  <2>4. /\ DOMAIN work' = Workers /\ \A v \in Workers \ {w} : work'[v] = work[v]
        /\ work'[w] = [q EXCEPT !.pc = "ready"]
    BY <1>0, <2>3
  <2>. DEFINE h == [q EXCEPT !.pc = "ready"]
  <2>5. /\ DOMAIN h = DOMAIN NoRequest /\ h.pc = "ready" /\ h.key = q.key /\ h.read = q.read
        /\ h.catalog = q.catalog /\ h.value = q.value /\ h.since = q.since
    BY <1>0 DEF NoRequest
  <2>6. h.catalog \in Catalogs
    BY <1>0, <2>1, <2>5 DEF Catalogs
  <2>7. q.since => q.read = 3 /\ q.value = NoText
    BY <2>1 DEF SettingInv, WorkInv
  <2>. HIDE DEF h
  <2>8. WorkInv'
    <3>1. \A v \in Workers : RequestOK(work[v])'
      BY <1>0, <2>1, <2>4, <2>5, <2>6 DEF h, SettingInv, WorkInv, RequestOK
    <3>2. work'[w] = h
      BY <2>4 DEF h
    <3>3. work'[w].read = 3 => work'[w].key \in DOMAIN stored
      BY <1>0, <2>1, <2>5, <3>2
    <3>. QED
      BY <1>0, <2>1, <2>4, <2>5, <2>7, <3>1, <3>2, <3>3 DEF SettingInv, WorkInv
  <2>. QED
    BY <2>2, <2>8 DEF SettingInv
<1>. QED
  BY <1>1, <1>2, <1>3

\* views.py:57-80, serializers.py:50-111: what is stored later is checked against the
\* catalog of the last reading, and against the whole schema.
LEMMA PatchKeeps ==
    ASSUME SettingInv, NEW w \in Workers,
           (\E k \in Keys : Begin(w, k)) \/ GetObject(w) \/ GetQueryset(w)
             \/ (\E text \in Texts : Validate(w, text)) \/ SettingEnds(w)
    PROVE  SettingInv'
<1>. DEFINE q == work[w]
<1>0. DOMAIN q = DOMAIN NoRequest /\ RequestOK(q) /\ (q.since /\ q.pc # "save" => q.value = NoText /\ q.read = 3)
  BY DEF SettingInv, WorkInv
<1>1. ASSUME NEW k \in Keys, Begin(w, k) PROVE SettingInv'
  <2>. DEFINE h == [NoRequest EXCEPT !.pc = "get", !.key = k, !.read = 1]
  <2>1. DOMAIN h = DOMAIN NoRequest /\ h.pc = "get" /\ h.read = 1 /\ h.since = FALSE
    BY DEF NoRequest
  <2>2. WorkTo(w, h) /\ UNCHANGED <<disk, cached, stored, live, sound>>
    BY <1>1 DEF Begin
  <2>. HIDE DEF h
  <2>. QED
    BY <2>1, <2>2, RequestStep DEF RequestOK
<1>2. CASE GetObject(w)
  <2>. DEFINE h == NextRead(q)
  <2>0. q.pc = "ready" /\ q.read = 1
    BY <1>2 DEF GetObject, Passes
  <2>1. DOMAIN h = DOMAIN NoRequest /\ h.pc = "get" /\ h.read = 2 /\ ~h.since
    BY <1>0, <2>0 DEF NoRequest, NextRead
  <2>2. WorkTo(w, h) /\ UNCHANGED <<disk, cached, stored, live, sound>>
    BY <1>2 DEF GetObject
  <2>. HIDE DEF h
  <2>. QED
    BY <2>1, <2>2, RequestStep DEF RequestOK
<1>3. CASE GetQueryset(w)
  <2>1. PICK value \in {NoText, stored[q.key]} : WorkTo(w, [NextRead(q) EXCEPT !.value = value])
    BY <1>3 DEF GetQueryset
  <2>. DEFINE h == [NextRead(q) EXCEPT !.value = value]
  <2>0. q.pc = "ready" /\ q.read = 2 /\ q.key \in DOMAIN stored
    BY <1>3 DEF GetQueryset, Passes
  <2>2. DOMAIN h = DOMAIN NoRequest /\ h.pc = "get" /\ h.key = q.key /\ q.key \in DOMAIN stored /\ ~h.since
    BY <1>0, <2>0 DEF NoRequest, NextRead
  <2>3. UNCHANGED <<disk, cached, stored, live, sound>>
    BY <1>3 DEF GetQueryset
  <2>. HIDE DEF h
  <2>4. WorkTo(w, h)
    BY <2>1 DEF h
  <2>. QED
    BY <2>2, <2>3, <2>4, RequestStep DEF RequestOK
<1>4. ASSUME NEW text \in Texts, Validate(w, text) PROVE SettingInv'
  <2>. DEFINE h == ToSave(q, IF q.value = NoText THEN text ELSE q.value)
  <2>1. /\ DOMAIN h = DOMAIN NoRequest /\ h.pc = "save" /\ h.key = q.key /\ h.read = q.read /\ h.since = q.since
        /\ q.value = NoText => h.value = text
    BY <1>0 DEF NoRequest, ToSave
  <2>2. /\ q.pc = "ready" /\ q.read = 3 /\ q.key \in Public(q.catalog) /\ WorkTo(w, h)
        /\ q.value = NoText => Conforms(q.catalog[q.key], text)
        /\ UNCHANGED <<disk, cached, stored, live, sound>>
    BY <1>4 DEF Validate, Passes
  <2>3. q.key \in DOMAIN stored
    BY <2>2 DEF SettingInv, WorkInv
  <2>. HIDE DEF h
  <2>4. RequestOK(h)
    BY <1>0, <2>1, <2>2 DEF RequestOK
  <2>. QED
    BY <2>1, <2>2, <2>3, <2>4, RequestStep
<1>5. CASE SettingEnds(w)
  <2>1. WorkTo(w, NoRequest) /\ UNCHANGED <<disk, cached, stored, live, sound>>
    BY <1>5 DEF SettingEnds
  <2>2. NoRequest.pc = "idle" /\ NoRequest.read = 0 /\ NoRequest.since = FALSE
    BY DEF NoRequest
  <2>. QED
    BY <2>1, <2>2, RequestStep DEF RequestOK
<1>. QED
  BY <1>1, <1>2, <1>3, <1>4, <1>5

\* A save brings in a value that conforms, leaves the row as it is, or is not vouched for.
LEMMA SaveKeeps ==
    ASSUME SettingInv, NEW w \in Workers, SaveSetting(w)
    PROVE  SettingInv'
<1>. DEFINE q == work[w]
<1>1. /\ q.pc = "save" /\ q.key \in DOMAIN stored /\ RequestOK(q)
      /\ stored' = [stored EXCEPT ![q.key] = q.value]
      /\ sound' = IF q.since THEN sound \cup {q.key} ELSE IF stored' = stored THEN sound ELSE sound \ {q.key}
      /\ WorkTo(w, NoRequest) /\ UNCHANGED <<disk, cached, live>>
  BY DEF SaveSetting, SettingInv, WorkInv
<1>2. /\ DOMAIN stored' = DOMAIN stored /\ stored'[q.key] = q.value
      /\ \A k \in DOMAIN stored \ {q.key} : stored'[k] = stored[k]
      /\ Catalogs' = Catalogs
  BY <1>1 DEF Catalogs
<1>3. SoundInv'
  <2>1. sound' \subseteq DOMAIN stored
    BY <1>1 DEF SettingInv, SoundInv
  <2>2. ASSUME NEW k \in sound'
        PROVE  \E c \in Catalogs : k \in Public(c) /\ Conforms(c[k], stored'[k])
    <3>1. CASE q.since /\ k = q.key
      BY <1>1, <1>2, <3>1 DEF RequestOK
    <3>2. CASE ~(q.since /\ k = q.key)
      <4>1. k \in sound /\ stored'[k] = stored[k]
        BY <1>1, <1>2, <2>2, <3>2 DEF SettingInv, SoundInv
      <4>. QED
        BY <4>1 DEF SettingInv, SoundInv
    <3>. QED
      BY <3>1, <3>2
  <2>. QED
    BY <1>1, <1>2, <2>1, <2>2 DEF SettingInv, SoundInv
<1>4. WorkInv'
  <2>1. /\ work'[w] = NoRequest /\ DOMAIN work' = Workers /\ \A v \in Workers \ {w} : work'[v] = work[v]
        /\ NoRequest.pc = "idle" /\ NoRequest.since = FALSE
    BY <1>1 DEF WorkTo, SettingInv, WorkInv, NoRequest
  <2>. QED
    BY <1>1, <1>2, <2>1 DEF SettingInv, WorkInv, RequestOK
<1>. QED
  BY <1>3, <1>4 DEF SettingInv

\* Deployments only add to what is live; a deletion leaves what the workers run, and
\* nothing that was looked up before is vouched for (tenant_settings/catalog.py:194-200).
LEMMA StepKeepsSettings ==
    ASSUME SettingInv, [SettingNext]_settingVars
    PROVE  SettingInv'
<1>1. ASSUME NEW w \in Workers, NEW release \in Releases, DeployTo(w, release) PROVE SettingInv'
  <2>1. Catalogs \subseteq Catalogs'
    BY <1>1 DEF DeployTo, Catalogs
  <2>2. WorkInv'
    BY <1>1, <2>1 DEF DeployTo, SettingInv, WorkInv, RequestOK
  <2>3. SoundInv'
    BY <1>1, <2>1 DEF DeployTo, SettingInv, SoundInv
  <2>. QED
    BY <2>2, <2>3 DEF SettingInv
<1>2. CASE Invalidate
  <2>1. /\ DOMAIN work' = Workers /\ disk' = disk /\ stored' = stored
        /\ \A w \in Workers : disk[w] \in live' /\ work'[w] = [work[w] EXCEPT !.since = FALSE]
    BY <1>2 DEF Invalidate, SettingInv, WorkInv
  <2>2. ASSUME NEW w \in Workers
        PROVE  /\ DOMAIN work'[w] = DOMAIN NoRequest /\ work'[w].since = FALSE
               /\ work'[w].pc = work[w].pc /\ work'[w].key = work[w].key
               /\ work'[w].read = work[w].read /\ work'[w].catalog = work[w].catalog
    <3>1. DOMAIN work[w] = DOMAIN NoRequest
      BY DEF SettingInv, WorkInv
    <3>. QED
      BY <2>1, <3>1 DEF NoRequest
  <2>3. WorkInv'
    BY <2>1, <2>2 DEF SettingInv, WorkInv, RequestOK
  <2>. QED
    BY <1>2, <2>3 DEF Invalidate, SettingInv, SoundInv
<1>3. CASE UNCHANGED settingVars
  BY <1>3 DEF settingVars, SettingInv, WorkInv, SoundInv, RequestOK, Catalogs
<1>. QED
  BY <1>1, <1>2, <1>3, CatalogKeeps, PatchKeeps, SaveKeeps DEF SettingNext

\* Whatever releases are deployed one over the other, and however late a catalog is stored:
\* a deletion of the cache forgets every release that is not run any more, and a value
\* checked and stored since conforms to a release that was run since
\* (tenant_settings/catalog.py:164-166 and 194-200, serializers.py:50-111).
THEOREM SettingsFollowReleaseCorrect == SettingSpec => []SettingsFollowRelease
<1>1. SettingInit => SettingInv
  <2>. SUFFICES ASSUME SettingInit PROVE SettingInv
    OBVIOUS
  <2>1. /\ DOMAIN disk = Workers /\ DOMAIN work = Workers /\ sound = {} /\ cached = NoCatalog
        /\ \A w \in Workers : disk[w] \in live /\ work[w] = NoRequest
    BY DEF SettingInit
  <2>2. NoRequest.pc = "idle" /\ NoRequest.since = FALSE
    BY DEF NoRequest
  <2>. QED
    BY <2>1, <2>2 DEF SettingInv, WorkInv, SoundInv, RequestOK
<1>2. SettingInv => SettingsFollowRelease
  BY DEF SettingInv, SoundInv, SettingsFollowRelease, Catalogs
<1>. QED
  BY <1>1, <1>2, StepKeepsSettings, PTL DEF SettingSpec

-----------------------------------------------------------------------------
(* Metadata *)

MetaSpec == MetaInit /\ [][MetaNext]_metaVars

\* validators.py:176-229: the checks of one validator, in order.
LEMMA FirstFailureIs ==
    ASSUME NEW checks \in Seq({"ok", "invalid", "crash"})
    PROVE  /\ FirstFailure(checks) = "ok" => \A i \in DOMAIN checks : checks[i] = "ok"
           /\ FirstFailure(checks) = "crash" => \E i \in DOMAIN checks : checks[i] = "crash"
<1>. DEFINE Failed(i) == i \in DOMAIN checks /\ checks[i] # "ok"
<1>1. CASE \A i \in DOMAIN checks : ~Failed(i)
  BY <1>1 DEF FirstFailure
<1>2. CASE \E i \in DOMAIN checks : Failed(i)
  <2>. DEFINE First(i) == Failed(i) /\ \A j \in 1..(i - 1) : ~Failed(j)
  <2>1. \E i \in DOMAIN checks : First(i)
    <3>. DEFINE F == {i \in DOMAIN checks : Failed(i)}
    <3>1. F # {} /\ F \subseteq Nat
      BY <1>2
    <3>2. PICK i \in F : \A j \in F : ~(<<j, i>> \in OpToRel(<, Nat))
      BY <3>1, NatLessThanWellFounded, WFMin
    <3>3. \A j \in F : ~(j < i)
      BY <3>1, <3>2 DEF OpToRel
    <3>. QED
      BY <3>1, <3>3
  <2>2. FirstFailure(checks) = checks[CHOOSE i \in DOMAIN checks : First(i)]
    BY <1>2 DEF FirstFailure
  <2>. QED
    BY <2>1, <2>2
<1>. QED
  BY <1>1, <1>2

Outcomes == {"ok", "invalid", "crash"}

\* No boolean as a bound and no infinite number.
Quiet(given, v) == v.finite /\ \A n \in DOMAIN given.rules : given.rules[n].json # "bool"

\* The checks of one validator are sound for a definition that was validated as a whole.
Sound(type, given, v) ==
    LET checks == RuleChecks(type, given.rules, v)
    IN /\ checks \in Seq(Outcomes)
       /\ (\A i \in DOMAIN checks : checks[i] = "ok") => Keeps(type, given.rules, v)
       /\ (\E i \in DOMAIN checks : checks[i] = "crash") => ~Quiet(given, v)

\* validators.py:176-185 and 288-306
LEMMA StringsSound ==
    ASSUME NEW type \in StringTypes, NEW given, GivenAssumed(given), NEW v, ValueAssumed(v),
           RulesFit(type, given), given.json = "object"
    PROVE  Sound(type, given, v)
<1>. DEFINE rules == given.rules
            c1 == Check(rules, "min_length", IsNumber,  LAMBDA r : v.len < r.num)
            c2 == Check(rules, "max_length", IsNumber,  LAMBDA r : v.len > r.num)
            c3 == Check(rules, "pattern",    IsPattern, LAMBDA r : v.name \notin r.items)
<1>1. RuleChecks(type, rules, v) = <<c1, c2, c3>>
  BY DEF RuleChecks, StringTypes, NumberTypes, ParsedTypes, DateTypes
<1>2. \A n \in DOMAIN rules : rules[n].num \in Int
  BY DEF GivenAssumed, ValueAssumed, Value
<1>3. v.len \in Nat
  BY DEF ValueAssumed, Value
<1>4. /\ "min_length" \in DOMAIN rules => IsNumber(rules["min_length"])
      /\ "max_length" \in DOMAIN rules => IsNumber(rules["max_length"])
      /\ "pattern" \in DOMAIN rules => IsPattern(rules["pattern"])
  BY DEF RulesFit, IsNumber, StringTypes, NumberTypes, ParsedTypes, DateTypes
<1>. HIDE DEF rules
<1>5. /\ c1 \in {"ok", "invalid"} /\ (c1 = "ok" => Bound(rules, "min_length", LAMBDA r : v.len >= r.num))
  BY <1>2, <1>3, <1>4 DEF Check, Bound
<1>6. /\ c2 \in {"ok", "invalid"} /\ (c2 = "ok" => Bound(rules, "max_length", LAMBDA r : v.len <= r.num))
  BY <1>2, <1>3, <1>4 DEF Check, Bound
<1>7. /\ c3 \in {"ok", "invalid"} /\ (c3 = "ok" => Bound(rules, "pattern", LAMBDA r : v.name \in r.items))
  BY <1>4 DEF Check, Bound
<1>8. ~(type \in NumberTypes \cup DateTypes \cup {"decimal", "enum", "url"})
  BY DEF StringTypes, NumberTypes, DateTypes
<1>. USE DEF rules
<1>. HIDE DEF c1, c2, c3
<1>. QED
  BY <1>1, <1>5, <1>6, <1>7, <1>8 DEF Sound, Outcomes, Keeps

\* The checks of a decimal are those of a number and one more.
LEMMA ThreeInAll ==
    ASSUME NEW a, NEW b, NEW c
    PROVE  <<a, b>> \o <<c>> = <<a, b, c>> /\ <<a, b>> \o <<>> = <<a, b>>
<1>. DEFINE S == {a, b, c}
<1>1. <<a, b>> \in Seq(S) /\ <<c>> \in Seq(S) /\ <<a, b, c>> \in Seq(S) /\ <<>> \in Seq(S)
  OBVIOUS
<1>2. Len(<<a, b>> \o <<c>>) = 3 /\ Len(<<a, b>> \o <<>>) = 2
  BY <1>1
<1>3. \A i \in 1..3 : (<<a, b>> \o <<c>>)[i] = <<a, b, c>>[i]
  BY <1>1
<1>4. \A i \in 1..2 : (<<a, b>> \o <<>>)[i] = <<a, b>>[i]
  BY <1>1
<1>5. <<a, b>> \o <<c>> \in Seq(S) /\ <<a, b>> \o <<>> \in Seq(S)
  BY <1>1
<1>. HIDE DEF S
<1>6. Len(<<a, b, c>>) = 3 /\ Len(<<a, b>>) = 2
  OBVIOUS
<1>. QED
  BY <1>1, <1>2, <1>3, <1>4, <1>5, <1>6, SeqEqual

\* validators.py:187-200 and 308-321: a comparison with NaN and the places of an infinite
\* number crash, and so does a boolean as a bound of decimals.
LEMMA NumbersSound ==
    ASSUME NEW type \in NumberTypes, NEW given, GivenAssumed(given), NEW v, ValueAssumed(v),
           RulesFit(type, given), given.json = "object"
    PROVE  Sound(type, given, v)
<1>. DEFINE rules == given.rules
            NotNaN(r) == IsDecimal(r) /\ v.name # "NaN"
            Finite(r) == IsNumber(r) /\ v.finite
            c1 == Check(rules, "min", NotNaN, LAMBDA r : v.num < r.num)
            c2 == Check(rules, "max", NotNaN, LAMBDA r : v.num > r.num)
            c3 == Check(rules, "precision", Finite, LAMBDA r : v.places > r.num)
<1>1. RuleChecks(type, rules, v) = IF type = "decimal" THEN <<c1, c2, c3>> ELSE <<c1, c2>>
  <2>1. RuleChecks(type, rules, v) = <<c1, c2>> \o IF type = "decimal" THEN <<c3>> ELSE <<>>
    BY DEF RuleChecks, StringTypes, NumberTypes, ParsedTypes, DateTypes
  <2>. HIDE DEF c1, c2, c3
  <2>2. <<c1, c2>> \o <<c3>> = <<c1, c2, c3>> /\ <<c1, c2>> \o <<>> = <<c1, c2>>
    BY ThreeInAll
  <2>. QED
    BY <2>1, <2>2
<1>2. \A n \in DOMAIN rules : rules[n].num \in Int
  BY DEF GivenAssumed, ValueAssumed, Value
<1>3. v.num \in Int /\ v.places \in Nat /\ (v.finite => v.name # "NaN")
  BY DEF ValueAssumed, Value
<1>4. \A n \in {"min", "max"} \cap DOMAIN rules : NotNaN(rules[n]) \/ ~v.finite \/ rules[n].json = "bool"
  BY <1>3 DEF RulesFit, IsNumber, IsDecimal, StringTypes, NumberTypes, ParsedTypes, DateTypes
<1>5. type = "decimal" /\ "precision" \in DOMAIN rules => Finite(rules["precision"]) \/ ~v.finite
  BY DEF RulesFit, IsNumber, StringTypes, NumberTypes, ParsedTypes, DateTypes
<1>. HIDE DEF NotNaN, Finite, rules
<1>6. /\ c1 \in Outcomes /\ (c1 = "ok" => Bound(rules, "min", LAMBDA r : v.num >= r.num))
      /\ c1 = "crash" => "min" \in DOMAIN rules /\ ~NotNaN(rules["min"])
  BY <1>2, <1>3 DEF Check, Bound, Outcomes
<1>7. /\ c2 \in Outcomes /\ (c2 = "ok" => Bound(rules, "max", LAMBDA r : v.num <= r.num))
      /\ c2 = "crash" => "max" \in DOMAIN rules /\ ~NotNaN(rules["max"])
  BY <1>2, <1>3 DEF Check, Bound, Outcomes
<1>8. /\ c3 \in Outcomes /\ (c3 = "ok" => Bound(rules, "precision", LAMBDA r : v.places <= r.num))
      /\ c3 = "crash" => "precision" \in DOMAIN rules /\ ~Finite(rules["precision"])
  BY <1>2, <1>3 DEF Check, Bound, Outcomes
<1>. USE DEF rules
<1>. HIDE DEF c1, c2, c3
<1>9. c1 = "crash" \/ c2 = "crash" => ~Quiet(given, v)
  BY <1>4, <1>6, <1>7 DEF Quiet
<1>10. type = "decimal" /\ c3 = "crash" => ~Quiet(given, v)
  BY <1>5, <1>8 DEF Quiet
<1>11. ~(type \in StringTypes \cup DateTypes \cup {"enum", "url"})
  BY DEF StringTypes, NumberTypes, DateTypes
<1>12. CASE type = "decimal"
  BY <1>1, <1>6, <1>7, <1>8, <1>9, <1>10, <1>11, <1>12 DEF Sound, Keeps
<1>13. CASE type # "decimal"
  BY <1>1, <1>6, <1>7, <1>9, <1>11, <1>13 DEF Sound, Keeps
<1>. QED
  BY <1>12, <1>13

\* validators.py:202-209 and 323-329: dates are compared as strings.
LEMMA DatesSound ==
    ASSUME NEW type \in DateTypes, NEW given, GivenAssumed(given), NEW v, ValueAssumed(v),
           RulesFit(type, given), given.json = "object"
    PROVE  Sound(type, given, v)
<1>. DEFINE rules == given.rules
            c1 == Check(rules, "min", IsString, LAMBDA r : v.rank < r.rank)
            c2 == Check(rules, "max", IsString, LAMBDA r : v.rank > r.rank)
<1>1. RuleChecks(type, rules, v) = <<c1, c2>>
  BY DEF RuleChecks, StringTypes, NumberTypes, ParsedTypes, DateTypes
<1>2. \A n \in DOMAIN rules : rules[n].rank \in Nat /\ rules[n].instant \in Nat
  BY DEF GivenAssumed, ValueAssumed, Value
<1>3. v.rank \in Nat /\ v.instant \in Nat
  BY DEF ValueAssumed, Value
<1>4. \A n \in {"min", "max"} \cap DOMAIN rules : IsString(rules[n])
  BY DEF RulesFit, StringTypes, NumberTypes, ParsedTypes, DateTypes
<1>. HIDE DEF rules
<1>5. c1 \in {"ok", "invalid"} /\ (c1 = "ok" => Bound(rules, "min", LAMBDA r : SameForm(v, r) => v.instant >= r.instant))
  BY <1>2, <1>3, <1>4 DEF Check, Bound, SameForm
<1>6. c2 \in {"ok", "invalid"} /\ (c2 = "ok" => Bound(rules, "max", LAMBDA r : SameForm(v, r) => v.instant <= r.instant))
  BY <1>2, <1>3, <1>4 DEF Check, Bound, SameForm
<1>. USE DEF rules
<1>. HIDE DEF c1, c2
<1>7. ~(type \in StringTypes \cup NumberTypes \cup {"decimal", "enum", "url"})
  BY DEF StringTypes, NumberTypes, DateTypes
<1>. QED
  BY <1>1, <1>5, <1>6, <1>7 DEF Sound, Outcomes, Keeps

\* validators.py:211-229 and 331-348, and the types without rules.
LEMMA OthersSound ==
    ASSUME NEW type \in MetadataType \ (StringTypes \cup NumberTypes \cup DateTypes),
           NEW given, GivenAssumed(given), NEW v, ValueAssumed(v),
           RulesFit(type, given), given.json = "object"
    PROVE  Sound(type, given, v)
<1>. DEFINE rules == given.rules
            c1 == Check(rules, "choices", Holds, LAMBDA r : v.name \notin r.items)
            c2 == Check(rules, "allowed_schemes", Holds, LAMBDA r : r.items # {} /\ v.scheme \notin r.items)
<1>1. CASE type = "enum"
  <2>1. "choices" \in DOMAIN rules /\ Holds(rules["choices"])
    BY <1>1 DEF Holds, IsList, IsNumber, RulesFit, StringTypes, NumberTypes, DateTypes
  <2>2. RuleChecks(type, rules, v) = <<c1>>
    BY <1>1, <2>1 DEF RuleChecks, StringTypes, NumberTypes, DateTypes
  <2>3. c1 \in {"ok", "invalid"} /\ (c1 = "ok" => Bound(rules, "choices", LAMBDA r : v.name \in r.items))
    BY <2>1 DEF Check, Bound
  <2>. HIDE DEF c1
  <2>4. Keeps(type, rules, v) <=> Bound(rules, "choices", LAMBDA r : v.name \in r.items)
    BY <1>1 DEF Keeps, StringTypes, NumberTypes, DateTypes
  <2>. QED
    BY <2>2, <2>3, <2>4 DEF Sound, Outcomes
<1>2. CASE type = "url"
  <2>1. "allowed_schemes" \in DOMAIN rules => Holds(rules["allowed_schemes"])
    BY <1>2 DEF Holds, IsList, IsNumber, RulesFit, StringTypes, NumberTypes, DateTypes
  <2>2. RuleChecks(type, rules, v) = <<c2>>
    BY <1>2 DEF RuleChecks, StringTypes, NumberTypes, DateTypes
  <2>3. /\ c2 \in {"ok", "invalid"}
        /\ c2 = "ok" => Bound(rules, "allowed_schemes", LAMBDA r : r.items = {} \/ v.scheme \in r.items)
    BY <2>1 DEF Check, Bound
  <2>. HIDE DEF c2
  <2>4. Keeps(type, rules, v) <=> Bound(rules, "allowed_schemes", LAMBDA r : r.items = {} \/ v.scheme \in r.items)
    BY <1>2 DEF Keeps, StringTypes, NumberTypes, DateTypes
  <2>. QED
    BY <2>2, <2>3, <2>4 DEF Sound, Outcomes
<1>3. CASE type \notin {"enum", "url"}
  <2>1. RuleChecks(type, rules, v) = <<>>
    BY <1>3 DEF RuleChecks
  <2>2. Keeps(type, rules, v)
    BY <1>3 DEF Keeps, NumberTypes
  <2>. QED
    BY <2>1, <2>2 DEF Sound
<1>. QED
  BY <1>1, <1>2, <1>3

\* What is admitted keeps the rules, and a crash has its reasons, of a definition that
\* was validated as a whole (validators.py:144-229 against 263-348).
LEMMA ValueSound ==
    ASSUME NEW type \in MetadataType, NEW given, GivenAssumed(given), NEW v, ValueAssumed(v),
           RulesFit(type, given)
    PROVE  /\ ValidateValue(type, given, v) = "ok" /\ v.json # "null" =>
                  OfType(type, v) /\ Keeps(type, given.rules, v)
           /\ ValidateValue(type, given, v) = "crash" => ~Quiet(given, v)
<1>1. CASE v.json = "null" \/ DOMAIN given.rules = {}
  <2>1. ValidateRules(type, given, v) = "ok"
    BY <1>1 DEF ValidateRules
  <2>2. DOMAIN given.rules = {} => Keeps(type, given.rules, v)
    BY DEF Keeps, Bound
  <2>. QED
    BY <1>1, <2>1, <2>2 DEF ValidateValue
<1>2. CASE v.json # "null" /\ DOMAIN given.rules # {}
  <2>1. given.json = "object"
    BY <1>2 DEF GivenAssumed, RulesFit
  <2>2. Sound(type, given, v)
    BY <2>1, StringsSound, NumbersSound, DatesSound, OthersSound
  <2>3. ValidateRules(type, given, v) = FirstFailure(RuleChecks(type, given.rules, v))
    BY <1>2, <2>1 DEF ValidateRules
  <2>4. /\ ValidateRules(type, given, v) = "ok" => Keeps(type, given.rules, v)
        /\ ValidateRules(type, given, v) = "crash" => ~Quiet(given, v)
    BY <2>2, <2>3, FirstFailureIs DEF Sound, Outcomes
  <2>. QED
    BY <2>4 DEF ValidateValue
<1>. QED
  BY <1>1, <1>2

\* A definition keeps rules that fit its type as long as its parts came together; a
\* fresh document is valid under the definitions there are; crashes are explained.
FieldInv ==
    \A code \in DOMAIN field :
        /\ DOMAIN field[code] = {"type", "required", "given", "default", "whole", "deleted"}
        /\ field[code].type \in MetadataType /\ GivenAssumed(field[code].given)
        /\ field[code].whole => RulesFit(field[code].type, field[code].given)
DocInv ==
    /\ DOMAIN doc = Documents
    /\ \A d \in Documents : {"pc", "fresh"} \subseteq DOMAIN doc[d]
    /\ \A d \in Documents :
         doc[d].fresh => /\ "metadata" \in DOMAIN doc[d]
                         /\ doc[d].metadata \in Metadatas /\ Valid(doc[d].metadata)
MetaInv == FieldInv /\ DocInv /\ CrashesExplained

\* dms_metadata/serializers.py:41-76: a definition that is put as a whole fits, and one
\* that is patched is as whole as it was and its parts are the old ones.
LEMMA DefineKeeps ==
    ASSUME MetaInv, NEW code \in Codes, NEW def \in Fields[code],
           Define(code, def) \/ \E sent \in SUBSET Parts : PatchDefinition(code, def, sent)
    PROVE  MetaInv'
<1>. USE DEF MetaInv
<1>1. /\ DOMAIN def = {"type", "required", "given", "default"}
      /\ def.type \in MetadataType /\ GivenAssumed(def.given) /\ ValueAssumed(def.default)
  BY MetadataAssumption
<1>2. ASSUME NEW new, NEW whole, Put(code, new, whole), Outdate, crashes' = {},
             new.type \in MetadataType, GivenAssumed(new.given), whole => RulesFit(new.type, new.given)
      PROVE  MetaInv'
  <2>1. FieldInv'
    BY <1>2 DEF FieldInv, Put, Defined
  <2>2. DocInv'
    <3>1. doc' = [d \in Documents |-> [doc[d] EXCEPT !.fresh = FALSE]]
      BY <1>2 DEF Outdate
    <3>2. \A d \in Documents : {"pc", "fresh"} \subseteq DOMAIN doc[d]
      BY DEF DocInv
    <3>3. \A d \in Documents : doc'[d] = [doc[d] EXCEPT !.fresh = FALSE]
      BY <3>1
    <3>4. \A d \in Documents : DOMAIN doc'[d] = DOMAIN doc[d] /\ doc'[d].fresh = FALSE
      BY <3>2, <3>3
    <3>. QED
      BY <3>1, <3>2, <3>4 DEF DocInv
  <2>3. CrashesExplained'
    BY <1>2 DEF CrashesExplained
  <2>. QED
    BY <2>1, <2>2, <2>3
<1>3. CASE Define(code, def) /\ DefinitionOutcome(def) = "ok"
  <2>1. Put(code, def, TRUE) /\ Outdate /\ crashes' = {}
    BY <1>3 DEF Define
  <2>2. RulesFit(def.type, def.given)
    BY <1>3 DEF DefinitionOutcome
  <2>. QED
    BY <1>1, <1>2, <2>1, <2>2
<1>4. CASE Define(code, def) /\ DefinitionOutcome(def) # "ok"
  <2>1. UNCHANGED <<field, doc>> /\ crashes' = {[field |-> Defined(def, TRUE), value |-> def.default]}
    BY <1>4 DEF Define, Crash
  <2>2. RulesFit(def.type, def.given) /\ ValidateValue(def.type, def.given, def.default) = "crash"
    BY <1>4 DEF Define, DefinitionOutcome
  <2>3. ~Quiet(def.given, def.default)
    BY <1>1, <2>2, ValueSound
  <2>4. CrashesExplained'
    BY <2>1, <2>3 DEF CrashesExplained, Quiet, Defined
  <2>. QED
    BY <2>1, <2>4 DEF FieldInv, DocInv, Valid, FieldOutcome
<1>5. ASSUME NEW sent \in SUBSET Parts, PatchDefinition(code, def, sent) PROVE MetaInv'
  <2>. DEFINE old   == field[code]
              new   == [p \in DOMAIN def |-> IF p \in sent THEN def[p] ELSE old[p]]
              whole == old.whole /\ \A p \in sent : def[p] = old[p]
  <2>1. code \in DOMAIN field /\ Put(code, new, whole) /\ Outdate /\ crashes' = {}
    BY <1>5 DEF PatchDefinition, Editable
  <2>2. old.type \in MetadataType /\ GivenAssumed(old.given) /\ (old.whole => RulesFit(old.type, old.given))
    BY <2>1 DEF FieldInv
  <2>3. /\ new.type = IF "type" \in sent THEN def.type ELSE old.type
        /\ new.given = IF "given" \in sent THEN def.given ELSE old.given
    BY <1>1
  <2>4. whole => new.type = old.type /\ new.given = old.given
    BY <2>3
  <2>. HIDE DEF old, new, whole
  <2>5. whole => old.whole
    BY DEF whole
  <2>6. new.type \in MetadataType /\ GivenAssumed(new.given) /\ (whole => RulesFit(new.type, new.given))
    BY <1>1, <2>2, <2>3, <2>4, <2>5
  <2>. QED
    BY <1>2, <2>1, <2>6
<1>. QED
  BY <1>3, <1>4, <1>5


\* serializers.py of dms_metadata: a deleted definition says what it said.
LEMMA RemoveKeeps ==
    ASSUME MetaInv, NEW code \in Codes, RemoveDefinition(code)
    PROVE  MetaInv'
<1>. USE DEF MetaInv
<1>1. /\ code \in DOMAIN field /\ UNCHANGED doc /\ crashes' = {}
      /\ field' = [field EXCEPT ![code].deleted = TRUE]
  BY DEF RemoveDefinition, Editable
<1>2. DOMAIN field' = DOMAIN field
  BY <1>1
<1>3. ASSUME NEW c \in DOMAIN field
      PROVE  /\ DOMAIN field'[c] = DOMAIN field[c]
             /\ field'[c].type = field[c].type /\ field'[c].given = field[c].given
             /\ field'[c].required = field[c].required /\ field'[c].whole = field[c].whole
  <2>1. DOMAIN field[c] = {"type", "required", "given", "default", "whole", "deleted"}
    BY DEF FieldInv
  <2>2. field'[c] = IF c = code THEN [field[c] EXCEPT !.deleted = TRUE] ELSE field[c]
    BY <1>1
  <2>3. CASE c = code
    <3>1. field'[c] = [field[c] EXCEPT !.deleted = TRUE]
      BY <2>2, <2>3
    <3>. HIDE <2>2
    <3>. QED
      BY <2>1, <3>1
  <2>4. CASE c # code
    BY <2>2, <2>4
  <2>. QED
    BY <2>3, <2>4
<1>4. FieldInv'
  BY <1>2, <1>3 DEF FieldInv
<1>5. ASSUME NEW metadata, Valid(metadata) PROVE Valid(metadata)'
  <2>1. \A c \in DOMAIN field : FieldOutcome(c, metadata)' = FieldOutcome(c, metadata)
    BY <1>2, <1>3 DEF FieldOutcome
  <2>. QED
    BY <1>2, <1>5, <2>1 DEF Valid
<1>6. DocInv'
  BY <1>1, <1>5 DEF DocInv, Valid, FieldOutcome
<1>7. CrashesExplained'
  BY <1>1 DEF CrashesExplained
<1>. QED
  BY <1>4, <1>6, <1>7

\* dms_documents/serializers.py:44-57: what is saved was valid under the definitions
\* read, and an exception has its reasons.
LEMMA DocumentKeeps ==
    ASSUME MetaInv, NEW d \in Documents,
           \/ \E metadata \in Metadatas : ValidateDocument(d, metadata) \/ PatchDocument(d, metadata)
           \/ SaveDocument(d)
    PROVE  MetaInv'
<1>. USE DEF MetaInv
<1>1. UNCHANGED field
  BY DEF ValidateDocument, PatchDocument, SaveDocument
<1>2. FieldInv'
  BY <1>1 DEF FieldInv
<1>3. \A metadata : Valid(metadata)' <=> Valid(metadata)
  BY <1>1 DEF Valid, FieldOutcome
<1>4. ASSUME NEW metadata \in Metadatas, ValidateDocument(d, metadata) PROVE DocInv' /\ CrashesExplained'
  <2>1. CASE /\ Valid(metadata) /\ crashes' = {}
             /\ doc' = [doc EXCEPT ![d] = [pc |-> "save", fresh |-> TRUE, metadata |-> metadata]]
    <3>1. DocInv'
      BY <1>3, <2>1 DEF DocInv
    <3>. QED
      BY <2>1, <3>1 DEF CrashesExplained
  <2>2. CASE /\ \E code \in DOMAIN field :
                   /\ FieldOutcome(code, metadata) = "crash"
                   /\ Crash(field[code], metadata[code])
             /\ UNCHANGED doc
    <3>1. PICK code \in DOMAIN field :
               FieldOutcome(code, metadata) = "crash" /\ Crash(field[code], metadata[code])
      BY <2>2
    <3>2. /\ code \in DOMAIN metadata
          /\ ValidateValue(field[code].type, field[code].given, metadata[code]) = "crash"
      BY <3>1 DEF FieldOutcome
    <3>3. ValueAssumed(metadata[code])
      BY <3>2, MetadataAssumption
    <3>4. field[code].whole => ~Quiet(field[code].given, metadata[code])
      BY <3>2, <3>3, ValueSound DEF FieldInv
    <3>5. CrashesExplained'
      BY <3>1, <3>4 DEF CrashesExplained, Crash, Quiet
    <3>. QED
      BY <1>3, <2>2, <3>5 DEF DocInv
  <2>. QED
    BY <1>4, <2>1, <2>2 DEF ValidateDocument
<1>5. ASSUME NEW metadata \in Metadatas, PatchDocument(d, metadata) PROVE DocInv' /\ CrashesExplained'
  BY <1>3, <1>5 DEF PatchDocument, DocInv, CrashesExplained
<1>6. ASSUME SaveDocument(d) PROVE DocInv' /\ CrashesExplained'
  <2>1. doc' = [doc EXCEPT ![d].pc = "stored"] /\ crashes' = {}
    BY <1>6 DEF SaveDocument
  <2>2. {"pc", "fresh"} \subseteq DOMAIN doc[d] /\ DOMAIN doc = Documents
    BY DEF DocInv
  <2>3. doc'[d] = [doc[d] EXCEPT !.pc = "stored"] /\ \A e \in Documents \ {d} : doc'[e] = doc[e]
    BY <2>1, <2>2
  <2>4. /\ DOMAIN doc'[d] = DOMAIN doc[d] /\ doc'[d].fresh = doc[d].fresh
        /\ "metadata" \in DOMAIN doc[d] => doc'[d].metadata = doc[d].metadata
    BY <2>2, <2>3
  <2>5. DOMAIN doc' = Documents
    BY <2>1, <2>2
  <2>6. DocInv'
    BY <1>3, <2>3, <2>4, <2>5 DEF DocInv
  <2>. QED
    BY <2>1, <2>6 DEF CrashesExplained
<1>. QED
  BY <1>2, <1>4, <1>5, <1>6

\* services.py:40-100 and validators.py: what a stored document still valid says is what
\* its definitions admit, and a crash of a validator has one of the reasons known.
THEOREM MetadataKeptCorrect == MetaSpec => []MetadataKept
<1>1. MetaInit => MetaInv
  BY DEF MetaInit, MetaInv, FieldInv, DocInv, CrashesExplained
<1>2. MetaInv /\ [MetaNext]_metaVars => MetaInv'
  <2>. SUFFICES ASSUME MetaInv, [MetaNext]_metaVars PROVE MetaInv'
    OBVIOUS
  <2>1. CASE UNCHANGED metaVars
    BY <2>1 DEF metaVars, MetaInv, FieldInv, DocInv, CrashesExplained, Valid, FieldOutcome
  <2>2. ASSUME NEW code \in Codes, RemoveDefinition(code) PROVE MetaInv'
    BY <2>2, RemoveKeeps
  <2>3. ASSUME NEW code \in Codes, NEW def \in Fields[code],
               Define(code, def) \/ \E sent \in SUBSET Parts : PatchDefinition(code, def, sent)
        PROVE  MetaInv'
    BY <2>3, DefineKeeps
  <2>4. ASSUME NEW d \in Documents,
               \/ \E metadata \in Metadatas : ValidateDocument(d, metadata) \/ PatchDocument(d, metadata)
               \/ SaveDocument(d)
        PROVE  MetaInv'
    BY <2>4, DocumentKeeps
  <2>. QED
    BY <2>1, <2>2, <2>3, <2>4 DEF MetaNext
<1>3. MetaInv => MetadataKept
  <2>. SUFFICES ASSUME MetaInv, NEW d \in Documents, doc[d].fresh,
                       NEW code \in DOMAIN field
                PROVE  /\ DOMAIN doc[d].metadata \subseteq DOMAIN field
                       /\ field[code].required => code \in DOMAIN doc[d].metadata
                       /\ code \in DOMAIN doc[d].metadata /\ field[code].whole
                            => Says(field[code], doc[d].metadata[code])
    BY DEF MetadataKept, DocumentsConform, MetaInv, DocInv, Valid
  <2>1. doc[d].metadata \in Metadatas /\ Valid(doc[d].metadata)
    BY DEF MetaInv, DocInv
  <2>2. FieldOutcome(code, doc[d].metadata) = "ok" /\ DOMAIN doc[d].metadata \subseteq DOMAIN field
    BY <2>1 DEF Valid
  <2>3. field[code].required => code \in DOMAIN doc[d].metadata
    BY <2>2 DEF FieldOutcome
  <2>4. ASSUME code \in DOMAIN doc[d].metadata, field[code].whole
        PROVE  Says(field[code], doc[d].metadata[code])
    <3>1. ValueAssumed(doc[d].metadata[code])
      BY <2>1, <2>4, MetadataAssumption
    <3>2. ValidateValue(field[code].type, field[code].given, doc[d].metadata[code]) = "ok"
      BY <2>2, <2>4 DEF FieldOutcome
    <3>. QED
      BY <2>4, <3>1, <3>2, ValueSound DEF MetaInv, FieldInv, Says
  <2>. QED
    BY <2>2, <2>3, <2>4
<1>. QED
  BY <1>1, <1>2, <1>3, PTL DEF MetaSpec
=============================================================================
