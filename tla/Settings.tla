------------------------------ MODULE Settings ------------------------------
(***************************************************************************)
(* The settings of one tenant and the merged catalog of setting            *)
(* definitions, which is cached without a timeout (apps/tenant_settings,   *)
(* tenants/utils.py).                                                      *)
(*                                                                         *)
(* A release is the sequence of the apps' tenant_settings.json.  Each      *)
(* worker process reads the files of the release it was started with.      *)
(* Nothing in the application deletes the cached catalog;                  *)
(* invalidate_catalog_cache is for whoever deploys.                        *)
(*                                                                         *)
(* A JSON value is told apart only by whether a coercion yields it and a   *)
(* schema admits it.  A text stands for its spellings in upper case too.   *)
(***************************************************************************)
EXTENDS Naturals, Sequences, TLC

CONSTANTS
    Keys,
    Texts,      \* bound: what a request may send as a value
    Loads,      \* per text: the value json.loads makes of it, as a set; {} if it fails
    Ints,       \* per text: the value int() makes of it, likewise
    Releases,   \* bound: the releases that are deployed
    Workers

VARIABLES
    disk,       \* the release each worker runs
    cached,     \* what the cache holds: a merged catalog or NoCatalog
    work,       \* per worker: its request
    stored,     \* the tenant's TenantSetting rows, keys to texts; the API makes none
    live,       \* history: the releases some worker has run since the cache was last deleted
    sound       \* history: the keys whose value was checked and stored since then

settingVars == <<disk, cached, work, stored, live, sound>>

-----------------------------------------------------------------------------
(* Catalogs and coercion (catalog.py, _coerce).  A definition is [type, schema, default,
   private].  Its schema is a set of admitted values under a check: "none" where there
   is no schema, "invalid" where jsonschema raises SchemaError for the schema itself. *)

NoCatalog == [none |-> TRUE]

\* Later apps override earlier ones.
MergedSettings(release) ==
    LET Definers(k) == {i \in DOMAIN release : k \in DOMAIN release[i]}
        Last(k)     == CHOOSE i \in Definers(k) : \A j \in Definers(k) : j <= i
    IN [k \in UNION {DOMAIN release[i] : i \in DOMAIN release} |-> release[Last(k)][k]]

Public(catalog) == {k \in DOMAIN catalog : ~catalog[k].private}

\* The coerced value; none if the text cannot be coerced.
Coerced(type, text) ==
    CASE type = "json"    -> Loads[text]
      [] type = "integer" -> Ints[text]
      [] type = "boolean" -> IF text \in {"true", "1"} THEN {<<"boolean", "true">>}
                             ELSE IF text \in {"false", "0"} THEN {<<"boolean", "false">>} ELSE {}
      [] OTHER            -> {<<"string", text>>}

\* The text is coerced and jsonschema.validate passes the whole schema.
Conforms(entry, text) ==
    \E v \in Coerced(entry.type, text) :
        \/ entry.schema.check = "none"
        \/ entry.schema.check = "valid" /\ v \in entry.schema.admits

-----------------------------------------------------------------------------
(* A request.  A PATCH asks for the catalog three times: in get_object (read 1), in
   get_queryset (2) and in the serializer's validate (3).  value: what will be stored;
   since: read 3 of a PATCH with a value began after the cache was last deleted. *)

NoText == "NoText"

NoRequest == [pc |-> "idle", key |-> "", read |-> 0, catalog |-> NoCatalog, value |-> NoText,
              since |-> FALSE]

SettingInit ==
    /\ \E release \in Releases : disk = [w \in Workers |-> release] /\ live = {release}
    /\ cached = NoCatalog
    /\ work = [w \in Workers |-> NoRequest]
    /\ \E keys \in SUBSET Keys : stored = [k \in keys |-> "0"]
    /\ sound = {}

\* A worker is replaced by one of another release, between two requests.
DeployTo(w, release) ==
    /\ work[w].pc = "idle" /\ disk[w] # release
    /\ disk' = [disk EXCEPT ![w] = release]
    /\ live' = live \cup {release}
    /\ UNCHANGED <<cached, work, stored, sound>>

\* invalidate_catalog_cache
Invalidate ==
    /\ cached' = NoCatalog
    /\ live' = {disk[w] : w \in Workers}
    /\ sound' = {}
    /\ work' = [w \in Workers |-> [work[w] EXCEPT !.since = FALSE]]
    /\ UNCHANGED <<disk, stored>>

WorkTo(w, q) == work' = [work EXCEPT ![w] = q]

Begin(w, k) ==
    /\ work[w].pc = "idle"
    /\ WorkTo(w, [NoRequest EXCEPT !.pc = "get", !.key = k, !.read = 1])
    /\ UNCHANGED <<disk, cached, stored, live, sound>>

\* get_merged_catalog looks into the cache, builds the catalog from the files ...
CatalogGet(w) ==
    LET q == [work[w] EXCEPT !.since = work[w].read = 3 /\ work[w].value = NoText] IN
    /\ work[w].pc = "get"
    /\ WorkTo(w, IF cached = NoCatalog THEN [q EXCEPT !.pc = "build"]
                 ELSE [q EXCEPT !.pc = "ready", !.catalog = cached])
    /\ UNCHANGED <<disk, cached, stored, live, sound>>

CatalogBuild(w) ==
    /\ work[w].pc = "build"
    /\ WorkTo(w, [work[w] EXCEPT !.pc = "set", !.catalog = MergedSettings(disk[w])])
    /\ UNCHANGED <<disk, cached, stored, live, sound>>

\* ... and stores it, without a timeout and whatever is there.
CatalogSet(w) ==
    /\ work[w].pc = "set"
    /\ cached' = work[w].catalog
    /\ WorkTo(w, [work[w] EXCEPT !.pc = "ready"])
    /\ UNCHANGED <<disk, stored, live, sound>>

\* The request of w is done with a catalog that has its key as a public one.
Passes(w, read) ==
    /\ work[w].pc = "ready" /\ work[w].read = read
    /\ work[w].key \in Public(work[w].catalog)

NextRead(q) == [q EXCEPT !.pc = "get", !.read = q.read + 1, !.catalog = NoCatalog]

GetObject(w) ==
    /\ Passes(w, 1)
    /\ WorkTo(w, NextRead(work[w]))
    /\ UNCHANGED <<disk, cached, stored, live, sound>>

\* The row, whose value a PATCH without a value saves again.
GetQueryset(w) ==
    /\ Passes(w, 2) /\ work[w].key \in DOMAIN stored
    /\ \E value \in {NoText, stored[work[w].key]} : WorkTo(w, [NextRead(work[w]) EXCEPT !.value = value])
    /\ UNCHANGED <<disk, cached, stored, live, sound>>

ToSave(q, value) == [q EXCEPT !.pc = "save", !.catalog = NoCatalog, !.value = value]

ValidateUncoerced(w, text) ==
    /\ Passes(w, 3)
    /\ WorkTo(w, ToSave(work[w], IF work[w].value = NoText THEN text ELSE work[w].value))
    /\ UNCHANGED <<disk, cached, stored, live, sound>>

\* A PATCH without a value coerces and validates nothing.
Validate(w, text) ==
    LET q == work[w] IN
    /\ Passes(w, 3)
    /\ q.value = NoText => Conforms(q.catalog[q.key], text)
    /\ WorkTo(w, ToSave(q, IF q.value = NoText THEN text ELSE q.value))
    /\ UNCHANGED <<disk, cached, stored, live, sound>>

SaveSetting(w) ==
    LET q == work[w] IN
    /\ q.pc = "save"
    /\ stored' = [stored EXCEPT ![q.key] = q.value]
    /\ sound' = IF q.since THEN sound \cup {q.key}
                ELSE IF stored' = stored THEN sound ELSE sound \ {q.key}
    /\ WorkTo(w, NoRequest)
    /\ UNCHANGED <<disk, cached, live>>

\* The request is refused, fails (SchemaError is not caught), is lost, or was no PATCH: the
\* lists and tenants/utils.py read the catalog as often as they call it.  Where
\* get_queryset finds no row, get_object goes on with a default instance, whose save has
\* no tenant: IntegrityError; what is left of such a PATCH is one more reading.
SettingEnds(w) ==
    /\ work[w].pc # "idle"
    /\ WorkTo(w, NoRequest)
    /\ UNCHANGED <<disk, cached, stored, live, sound>>

SettingNext ==
    \/ \E w \in Workers, release \in Releases : DeployTo(w, release)
    \/ Invalidate
    \/ \E w \in Workers :
         \/ (\E k \in Keys : Begin(w, k)) \/ CatalogGet(w) \/ CatalogBuild(w) \/ CatalogSet(w)
         \/ GetObject(w) \/ GetQueryset(w) \/ (\E text \in Texts : Validate(w, text))
         \/ SaveSetting(w) \/ SettingEnds(w)

-----------------------------------------------------------------------------
(* Properties *)

\* After the cache was deleted, however late a worker stores what it had built before,
\* the cache holds the catalog of a release some worker has run since; and a value that
\* a PATCH checked and stored since then is that of a public key and conforms to such a
\* catalog.  With all workers on one release that is its catalog (tenant_settings/
\* catalog.py:164-166 and 194-200, serializers.py:50-111).
SettingsFollowRelease ==
    LET catalogs == {MergedSettings(release) : release \in live} IN
    /\ cached \in {NoCatalog} \cup catalogs
    /\ \A k \in sound : \E c \in catalogs : k \in Public(c) /\ Conforms(c[k], stored[k])

=============================================================================
