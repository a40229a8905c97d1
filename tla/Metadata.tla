------------------------------ MODULE Metadata ------------------------------
(***************************************************************************)
(* Metadata definitions of a document type and documents validated against *)
(* them (apps/dms_metadata, dms_documents/serializers.py).                 *)
(*                                                                         *)
(* A JSON value is the record of what the validators can tell of it, see   *)
(* Value; a validator answers "ok", "invalid" (a ValidationError, 400) or  *)
(* "crash" (any other exception, 500).                                     *)
(***************************************************************************)
EXTENDS Integers, Sequences, FiniteSets, TLC

CONSTANTS
    Codes,      \* codes of metadata fields
    Fields,     \* bound: per code, the definitions that requests may send
    Metadatas,  \* bound: the metadata that requests may send
    Documents

VARIABLES
    field,      \* the definitions, by code
    doc,        \* the documents: where a request on each is, and what is stored
    crashes     \* history: the definition and the value that crashed a validator in the last step

metaVars == <<field, doc, crashes>>

-----------------------------------------------------------------------------
(* Values *)

StringTypes == {"string", "text"}
NumberTypes == {"integer", "decimal"}
DateTypes   == {"date", "datetime"}
ParsedTypes == DateTypes \cup {"time", "uuid", "email", "url"}
MetadataType == StringTypes \cup NumberTypes \cup ParsedTypes \cup {"boolean", "json", "enum"}

\* formats: what a string can be parsed as.  num, finite, places: of a number or
\* a decimal string.  rank, instant: the place of a string in the order of strings, of
\* a date in time.  items: the strings of a list, the strings a pattern matches.
Value == [name : STRING, json : {"null", "bool", "int", "float", "str", "object", "list"},
          formats : SUBSET (MetadataType \cup {"pattern"}), num : Int, finite : BOOLEAN, places : Nat,
          len : Nat, rank : Nat, instant : Nat, scheme : STRING, items : SUBSET STRING]

\* NaN is the one value called so; no rules are sent with a null.
ValueAssumed(v)     == v \in Value /\ (v.name = "NaN" => ~v.finite)
GivenAssumed(given) == /\ given.json = "null" => DOMAIN given.rules = {}
                       /\ \A n \in DOMAIN given.rules : ValueAssumed(given.rules[n])

ASSUME MetadataAssumption ==
    /\ \A code \in Codes : \A def \in Fields[code] :
         /\ DOMAIN def = {"type", "required", "given", "default"}
         /\ def.type \in MetadataType /\ GivenAssumed(def.given) /\ ValueAssumed(def.default)
    /\ \A metadata \in Metadatas : \A code \in DOMAIN metadata : ValueAssumed(metadata[code])

\* validate_type; null passes.
OfType(type, v) ==
    \/ v.json = "null"
    \/ type \in StringTypes \cup {"enum"} /\ v.json = "str"
    \/ type = "integer" /\ v.json = "int"
    \/ type = "decimal" /\ v.json \in {"int", "float"}
    \/ type = "boolean" /\ v.json = "bool"
    \/ type = "json"    /\ v.json = "object"
    \/ type \in ParsedTypes \cup {"decimal"} /\ v.json = "str" /\ type \in v.formats

\* One check of validate_rules: the rule may be missing, unusable, or violated.
Check(rules, name, Usable(_), Violated(_)) ==
    IF name \notin DOMAIN rules   THEN "ok"
    ELSE IF ~Usable(rules[name])  THEN "crash"
    ELSE IF Violated(rules[name]) THEN "invalid"
    ELSE "ok"

FirstFailure(checks) ==
    LET Failed(i) == i \in DOMAIN checks /\ checks[i] # "ok"
    IN IF \E i \in DOMAIN checks : Failed(i)
       THEN checks[CHOOSE i \in DOMAIN checks : Failed(i) /\ \A j \in 1..(i - 1) : ~Failed(j)]
       ELSE "ok"

IsNumber(r)  == r.json \in {"int", "float", "bool"}
IsString(r)  == r.json = "str"
IsList(r)    == r.json = "list"
IsPattern(r) == IsString(r) /\ "pattern" \in r.formats
Holds(r)     == ~IsNumber(r)

\* Decimal(str(r)) fails for a boolean.
IsDecimal(r) == r.json \in {"int", "float"} \/ (IsString(r) /\ "decimal" \in r.formats)

\* validate_rules, of a value that is OfType and not null.  A comparison with NaN
\* raises, and so does the number of places of what is not finite.
RuleChecks(type, rules, v) ==
    CASE type \in StringTypes ->
           <<Check(rules, "min_length", IsNumber,  LAMBDA r : v.len < r.num),
             Check(rules, "max_length", IsNumber,  LAMBDA r : v.len > r.num),
             Check(rules, "pattern",    IsPattern, LAMBDA r : v.name \notin r.items)>>
      [] type \in NumberTypes ->
           LET NotNaN(r) == IsDecimal(r) /\ v.name # "NaN"
           IN <<Check(rules, "min", NotNaN, LAMBDA r : v.num < r.num),
                Check(rules, "max", NotNaN, LAMBDA r : v.num > r.num)>>
                \o IF type = "decimal"
                   THEN <<Check(rules, "precision", LAMBDA r : IsNumber(r) /\ v.finite,
                                                    LAMBDA r : v.places > r.num)>>
                   ELSE <<>>
      [] type \in DateTypes ->
           <<Check(rules, "min", IsString, LAMBDA r : v.rank < r.rank),
             Check(rules, "max", IsString, LAMBDA r : v.rank > r.rank)>>
      [] type = "enum" ->
           IF "choices" \in DOMAIN rules
           THEN <<Check(rules, "choices", Holds, LAMBDA r : v.name \notin r.items)>>
           ELSE <<"invalid">>
      [] type = "url" ->
           <<Check(rules, "allowed_schemes", Holds, LAMBDA r : r.items # {} /\ v.scheme \notin r.items)>>
      [] OTHER -> <<>>

\* The rules of a definition are given as [json, rules]; none and an empty object
\* are not looked at.
ValidateRules(type, given, v) ==
    IF v.json = "null" \/ DOMAIN given.rules = {} THEN "ok"
    ELSE IF given.json = "object" THEN FirstFailure(RuleChecks(type, given.rules, v))
    ELSE IF type \in {"enum", "url"} THEN "crash" ELSE "ok"

ValidateValue(type, given, v) ==
    IF OfType(type, v) THEN ValidateRules(type, given, v) ELSE "invalid"

\* validate_validation_rules
RulesFit(type, given) ==
    LET Each(names, Fit(_)) == \A n \in names \cap DOMAIN given.rules : Fit(given.rules[n])
        IsInt(r) == r.json \in {"int", "bool"}
    IN given.json # "null" =>
       /\ given.json = "object"
       /\ CASE type \in StringTypes -> Each({"min_length", "max_length"}, IsInt) /\ Each({"pattern"}, IsPattern)
            [] type \in NumberTypes -> /\ Each({"min", "max"}, IsNumber)
                                       /\ type = "decimal" => Each({"precision"}, LAMBDA r : IsInt(r) /\ r.num >= 0)
            [] type \in DateTypes   -> Each({"min", "max"}, IsString)
            [] type = "enum"        -> /\ "choices" \in DOMAIN given.rules
                                       /\ Each({"choices"}, LAMBDA r : IsList(r) /\ r.items # {})
            [] type = "url"         -> Each({"allowed_schemes"}, IsList)
            [] OTHER                -> TRUE

-----------------------------------------------------------------------------
(* Definitions.  One is [type, required, given, default, deleted]; whole (history)
   tells whether its type, rules and default were last sent together.  Bound: no two
   requests on one definition overlap. *)

NoRules == [json |-> "null", rules |-> <<>>]

MetaInit ==
    /\ field = <<>>
    /\ doc = [d \in Documents |-> [pc |-> "new", fresh |-> FALSE]]
    /\ crashes = {}

Outdate == doc' = [d \in Documents |-> [doc[d] EXCEPT !.fresh = FALSE]]

Defined(def, whole) == [type |-> def.type, required |-> def.required, given |-> def.given,
                        default |-> def.default, whole |-> whole, deleted |-> FALSE]

Put(code, def, whole) ==
    field' = [c \in DOMAIN field \cup {code} |-> IF c = code THEN Defined(def, whole) ELSE field[c]]

Editable(code) == code \in DOMAIN field /\ ~field[code].deleted

\* do_validate of a request that sends the type: rules, then the default.
DefinitionOutcome(def) ==
    IF ~RulesFit(def.type, def.given) THEN "invalid" ELSE ValidateValue(def.type, def.given, def.default)

Crash(def, v) == crashes' = {[field |-> def, value |-> v]}

\* POST or PUT; the code of a deleted definition stays taken.
Define(code, def) ==
    \/ /\ code \in DOMAIN field => Editable(code)
       /\ DefinitionOutcome(def) = "ok"
       /\ Put(code, def, TRUE) /\ Outdate
       /\ crashes' = {}
    \/ /\ DefinitionOutcome(def) = "crash"
       /\ Crash(Defined(def, TRUE), def.default)
       /\ UNCHANGED <<field, doc>>

Parts == {"type", "given", "default"}

\* PATCH of some of the parts: only what is sent is validated, and only with a type;
\* without rules or without a default nothing can crash.
PatchDefinition(code, def, sent) ==
    /\ Editable(code) /\ sent \notin {{}, Parts}
    /\ LET given   == IF "given" \in sent THEN def.given ELSE NoRules
           default == IF "default" \in sent THEN def.default ELSE [def.default EXCEPT !.json = "null"]
           old     == field[code]
       IN /\ "type" \in sent => /\ "given" \in sent => RulesFit(def.type, given)
                                /\ ValidateValue(def.type, given, default) = "ok"
          /\ Put(code, [p \in DOMAIN def |-> IF p \in sent THEN def[p] ELSE old[p]],
                 old.whole /\ \A p \in sent : def[p] = old[p])
    /\ Outdate
    /\ crashes' = {}

\* DELETE sets deleted_at; validate goes on with the definition.
RemoveDefinition(code) ==
    /\ Editable(code)
    /\ field' = [field EXCEPT ![code].deleted = TRUE]
    /\ UNCHANGED doc /\ crashes' = {}

-----------------------------------------------------------------------------
(* Documents: MetadataValidationService.validate reads the definitions once, the
   deleted ones too; the document is saved later. *)

FieldOutcome(code, metadata) ==
    IF code \in DOMAIN metadata
    THEN ValidateValue(field[code].type, field[code].given, metadata[code])
    ELSE IF field[code].required THEN "invalid" ELSE "ok"

ValidDeclared(metadata) == \A code \in DOMAIN field : FieldOutcome(code, metadata) = "ok"

Valid(metadata) ==
    /\ \A code \in DOMAIN field : FieldOutcome(code, metadata) = "ok"
    /\ DOMAIN metadata \subseteq DOMAIN field

\* POST, PUT, or a PATCH with document_type.
ValidateDocument(d, metadata) ==
    /\ doc[d].pc # "save"
    /\ \/ /\ Valid(metadata)
          /\ doc' = [doc EXCEPT ![d] = [pc |-> "save", fresh |-> TRUE, metadata |-> metadata]]
          /\ crashes' = {}
       \/ /\ \E code \in DOMAIN field :
                /\ FieldOutcome(code, metadata) = "crash"
                /\ Crash(field[code], metadata[code])
          /\ UNCHANGED doc
    /\ UNCHANGED field

\* A PATCH without document_type is not validated.
PatchDocument(d, metadata) ==
    /\ doc[d].pc = "stored"
    /\ doc' = [doc EXCEPT ![d] = [pc |-> "save", fresh |-> FALSE, metadata |-> metadata]]
    /\ UNCHANGED field /\ crashes' = {}

SaveDocument(d) ==
    /\ doc[d].pc = "save"
    /\ doc' = [doc EXCEPT ![d].pc = "stored"]
    /\ UNCHANGED field /\ crashes' = {}

MetaNext ==
    \/ \E code \in Codes :
         \/ \E def \in Fields[code] :
              Define(code, def) \/ \E sent \in SUBSET Parts : PatchDefinition(code, def, sent)
         \/ RemoveDefinition(code)
    \/ \E d \in Documents :
         \/ \E metadata \in Metadatas : ValidateDocument(d, metadata) \/ PatchDocument(d, metadata)
         \/ SaveDocument(d)

-----------------------------------------------------------------------------
(* Properties *)

\* What a definition says of a value, read as its messages put it.  Dates are compared
\* in time; two strings of one form (rank and instant agree) are.
Bound(rules, name, Kept(_)) == name \in DOMAIN rules => Kept(rules[name])
SameForm(v, r) == (v.rank < r.rank) = (v.instant < r.instant) /\ (v.rank > r.rank) = (v.instant > r.instant)

Keeps(type, rules, v) ==
    /\ type \in StringTypes =>
         /\ Bound(rules, "min_length", LAMBDA r : v.len >= r.num)
         /\ Bound(rules, "max_length", LAMBDA r : v.len <= r.num)
         /\ Bound(rules, "pattern",    LAMBDA r : v.name \in r.items)
    /\ type \in NumberTypes =>
         Bound(rules, "min", LAMBDA r : v.num >= r.num) /\ Bound(rules, "max", LAMBDA r : v.num <= r.num)
    /\ type = "decimal" => Bound(rules, "precision", LAMBDA r : v.places <= r.num)
    /\ type \in DateTypes =>
         /\ Bound(rules, "min", LAMBDA r : SameForm(v, r) => v.instant >= r.instant)
         /\ Bound(rules, "max", LAMBDA r : SameForm(v, r) => v.instant <= r.instant)
    /\ type = "enum" => Bound(rules, "choices", LAMBDA r : v.name \in r.items)
    /\ type = "url"  => Bound(rules, "allowed_schemes", LAMBDA r : r.items = {} \/ v.scheme \in r.items)

Says(def, v) == v.json # "null" => OfType(def.type, v) /\ Keeps(def.type, def.given.rules, v)

\* While the definitions are those it was validated against, deleted or not, a document
\* has their required fields and no others, with values they admit, provided each
\* definition was sent as a whole (dms_metadata/services.py:40-100,
\* dms_documents/serializers.py:44-57).
DocumentsConform ==
    \A d \in Documents :
        doc[d].pc = "stored" /\ doc[d].fresh =>
            /\ DOMAIN doc[d].metadata \subseteq DOMAIN field
            /\ \A code \in DOMAIN field :
                 /\ field[code].required => code \in DOMAIN doc[d].metadata
                 /\ code \in DOMAIN doc[d].metadata /\ field[code].whole => Says(field[code], doc[d].metadata[code])

\* A validator ends with an exception that is no ValidationError only for a definition
\* whose parts were sent apart, a number that is not finite, or a boolean as a bound
\* (validators.py:188-198 and 316-330).
CrashesExplained ==
    \A c \in crashes :
        \/ ~c.field.whole
        \/ ~c.value.finite
        \/ \E n \in DOMAIN c.field.given.rules : c.field.given.rules[n].json = "bool"

MetadataKept == DocumentsConform /\ CrashesExplained

=============================================================================
