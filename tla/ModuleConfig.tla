---------------------------- MODULE ModuleConfig ----------------------------
(***************************************************************************)
(* How a configuration file reaches the module it configures.  The daemon  *)
(* validates `modules.d/<name>.yaml` against the schema the module         *)
(* declares, reads the file again, and hands the bytes to the module,      *)
(* which parses them over the defaults of its own structs.  The file can   *)
(* be edited at any moment, so the two reads can see two documents.        *)
(*                                                                         *)
(* A document is what it sets: each field to a value of the right type     *)
(* ("set"), to the empty string or list ("empty"), to a value of another   *)
(* type ("wrong"), or to an integer that JSON Schema accepts and the       *)
(* field's Rust type does not hold ("odd": negative, too large, 1.0).      *)
(***************************************************************************)
EXTENDS Naturals

CONSTANTS MaxEdits,  \* bound on the edits of the file
          MaxLoads   \* bound on the loads (a load, or a restart after a failure)

ASSUME ConfigAssumption == MaxEdits \in Nat /\ MaxLoads \in Nat \ {0}

VARIABLES cfOwner,   \* whose file it is
          cfField,   \* the field this behaviour's documents are about
          cfSchema,  \* "none", "malformed" or "usable"
          cfSafe,    \* the name has no separator and no ".."
          cfFile,    \* the document on disk
          cfPhase,   \* where the load is
          cfRead,    \* what the validation read
          cfGiven,   \* what the module is given; Blank stands for no bytes
          cfDir,     \* the module's data directory exists
          cfEdits, cfLoads,
          cfTouched, \* history: it was edited between the two reads of this load
          cfFault    \* history: a read of this load failed

configVars == <<cfOwner, cfField, cfSchema, cfSafe, cfFile, cfPhase, cfRead, cfGiven, cfDir, cfEdits, cfLoads,
                cfTouched, cfFault>>

(***************************************************************************)
(* The schemas and the structs.                                            *)
(***************************************************************************)
\* Fields of one type with one default.
Typed(type, default, fields) == [f \in fields |-> [type |-> type, default |-> default]]

\* Two tables as one: the first says what both do.
f ++ g == [x \in DOMAIN f \cup DOMAIN g |-> IF x \in DOMAIN f THEN f[x] ELSE g[x]]

\* A field whose schema advertises no default.
Unadvertised == "unadvertised"

DohSchema ==
    Typed("string", "https://127.0.0.1:443/dns-query", {"doh.server_url"})
        ++ Typed("boolean", "true", {"doh.verify_tls"})
        ++ Typed("string", Unadvertised, {"doh.auth_token", "doh.client_cert", "doh.client_key", "doh.ca_cert"})

LicenseSchema ==
    Typed("string", "https://license.squawkdns.com", {"license.server_url"})
        ++ Typed("string", Unadvertised, {"license.license_key", "license.user_token"})
        ++ Typed("boolean", "true", {"license.validate_online"}) ++ Typed("integer", "1440", {"license.cache_time"})

ForwarderSchema ==
    Typed("string", "127.0.0.1:53", {"forwarder.udp_addr", "forwarder.tcp_addr"})
        ++ Typed("boolean", "false", {"forwarder.enabled"})

SquawkSchema ==
    DohSchema ++ LicenseSchema ++ ForwarderSchema ++ Typed("boolean", "false", {"system_dns.manage"})
        ++ Typed("boolean", "true", {"cache.enabled"}) ++ Typed("array", "empty", {"ntp.server_urls"})

TobogganingSchema ==
    Typed("string", Unadvertised, {"manager_url", "node_id"}) ++ Typed("string", "wg0", {"interface_name"})
        ++ Typed("integer", "1420", {"mtu"}) ++ Typed("integer", "25", {"keepalive"})
        ++ Typed("array", Unadvertised, {"dns", "allowed_ips"}) ++ Typed("boolean", "false", {"embedded"})

BridgeSchema ==
    Typed("boolean", "false", {"bridge.enabled"})
        ++ Typed("string", "empty", {"bridge.listen_tcp", "bridge.listen_unix"})
        ++ Typed("array", "empty", {"bridge.allowed_integrations"})

ObsSchema ==
    Typed("boolean", "false", {"obs.enabled"}) ++ Typed("string", "empty", {"obs.url"})
        ++ Typed("string", "obs_password", {"obs.secret_key"})
        ++ Typed("array", "empty", {"obs.allowed_commands", "obs.allowed_scenes"})

WebhookSchema ==
    Typed("string", Unadvertised, {"webhook.url"}) ++ Typed("string", "empty", {"webhook.auth_secret_key"})
        ++ Typed("integer", "10", {"webhook.timeout_secs"})

WaddlebotSchema ==
    Typed("string", "https://waddles.app/api/v1", {"hub.base_url"}) ++ Typed("integer", "0", {"community_id"})
        ++ BridgeSchema ++ ObsSchema ++ WebhookSchema

WaddleaiSchema ==
    Typed("string", "https://waddleai.app/api/v1", {"server.base_url"})
        ++ Typed("integer", "3600", {"denylist.sync_interval_secs"})
        ++ Typed("integer", "86400", {"denylist.max_age_secs"})
        ++ Typed("boolean", "false", {"hooks.claude", "hooks.gemini", "hooks.vscode"})

DohDefaults ==
    Typed("String", "https://127.0.0.1:443/dns-query", {"doh.server_url"})
        ++ Typed("bool", "true", {"doh.verify_tls"})
        ++ Typed("String", "empty", {"doh.auth_token", "doh.client_cert", "doh.client_key", "doh.ca_cert"})

LicenseDefaults ==
    Typed("String", "https://license.squawkdns.com", {"license.server_url"})
        ++ Typed("String", "empty", {"license.license_key", "license.user_token"})
        ++ Typed("bool", "true", {"license.validate_online"}) ++ Typed("i64", "1440", {"license.cache_time"})

ForwarderDefaults ==
    Typed("String", "127.0.0.1:53", {"forwarder.udp_addr", "forwarder.tcp_addr"})
        ++ Typed("bool", "false", {"forwarder.enabled"})

SquawkDefaults ==
    DohDefaults ++ LicenseDefaults ++ ForwarderDefaults ++ Typed("bool", "false", {"system_dns.manage"})
        ++ Typed("bool", "true", {"cache.enabled"}) ++ Typed("Vec", "empty", {"ntp.server_urls"})

TobogganingDefaults ==
    Typed("String", "empty", {"manager_url", "node_id"}) ++ Typed("String", "wg0", {"interface_name"})
        ++ Typed("u32", "1420", {"mtu"}) ++ Typed("u64", "25", {"keepalive"})
        ++ Typed("Vec", "empty", {"dns", "allowed_ips"}) ++ Typed("bool", "false", {"embedded"})

BridgeDefaults ==
    Typed("bool", "false", {"bridge.enabled"})
        ++ Typed("String", "empty", {"bridge.listen_tcp", "bridge.listen_unix"})
        ++ Typed("Vec", "empty", {"bridge.allowed_integrations"})

ObsDefaults ==
    Typed("bool", "false", {"obs.enabled"}) ++ Typed("String", "empty", {"obs.url"})
        ++ Typed("String", "obs_password", {"obs.secret_key"})
        ++ Typed("Vec", "empty", {"obs.allowed_commands", "obs.allowed_scenes"})

WebhookDefaults ==
    Typed("String", "empty", {"webhook.url"}) ++ Typed("String", "empty", {"webhook.auth_secret_key"})
        ++ Typed("u32", "10", {"webhook.timeout_secs"})

WaddlebotDefaults ==
    Typed("String", "https://waddles.app/api/v1", {"hub.base_url"}) ++ Typed("i64", "0", {"community_id"})
        ++ BridgeDefaults ++ ObsDefaults ++ WebhookDefaults

WaddleaiDefaults ==
    Typed("String", "https://waddleai.app/api/v1", {"server.base_url"})
        ++ Typed("u64", "3600", {"denylist.sync_interval_secs"}) ++ Typed("u64", "86400", {"denylist.max_age_secs"})
        ++ Typed("bool", "false", {"hooks.claude", "hooks.gemini", "hooks.vscode"})

DaemonDefaults ==
    Typed("String", "/run/penguin/penguind.sock", {"socketPath"})
        ++ Typed("String", "/opt/penguin/plugins", {"pluginsDir"})
        ++ Typed("String", "info", {"logLevel"}) ++ Typed("String", "penguin", {"group"})

BuiltIns == {"squawk", "tobogganing", "waddlebot", "waddleai"}
Owners == BuiltIns \cup {"daemon", "plugin"}

\* The schema a built-in module declares; a plugin's has one field.
SchemaOf(o) ==
    CASE o = "squawk" -> SquawkSchema
      [] o = "tobogganing" -> TobogganingSchema
      [] o = "waddlebot" -> WaddlebotSchema
      [] o = "waddleai" -> WaddleaiSchema
      [] OTHER -> Typed("string", Unadvertised, {"endpoint"})

DefaultsOf(o) ==
    CASE o = "squawk" -> SquawkDefaults
      [] o = "tobogganing" -> TobogganingDefaults
      [] o = "waddlebot" -> WaddlebotDefaults
      [] o = "waddleai" -> WaddleaiDefaults
      [] o = "daemon" -> DaemonDefaults
      [] OTHER -> Typed("String", "empty", {"endpoint"})

FieldsOf(o) == DOMAIN DefaultsOf(o)

(***************************************************************************)
(* Documents.                                                              *)
(***************************************************************************)
Unset == [f \in {} |-> "set"]
Plain(kind) == [kind |-> kind, set |-> Unset]
Mapping(set) == [kind |-> "mapping", set |-> set]
Blank == Plain("blank")
IntegerTypes == {"i64", "u32", "u64"}

\* What a field can be written as.
ValuesOf(type) ==
    {"set", "wrong"} \cup (IF type \in {"String", "Vec"} THEN {"empty"} ELSE {})
                     \cup (IF type \in IntegerTypes THEN {"odd"} ELSE {})

\* The fields the schema of `o` requires in a document that sets `fs`.
Required(o, fs) ==
    IF o = "tobogganing" THEN {"manager_url", "node_id"}
    ELSE IF o = "waddlebot" /\ fs \cap DOMAIN WebhookDefaults # {} THEN {"webhook.url"}
    ELSE {}

\* The documents of a behaviour that is about field f of o's file.
Documents(o, f) ==
    LET companions == [g \in Required(o, {f}) |-> "set"]
        values == ValuesOf(DefaultsOf(o)[f].type)
    IN  {Plain(k) : k \in {"absent", "blank", "malformed", "list"}}
            \cup {Mapping(companions)}
            \cup {Mapping([g \in {f} |-> v] ++ companions) : v \in values}
            \cup {Mapping([g \in {f} |-> v]) : v \in values}

(***************************************************************************)
(* Validating, parsing.                                                    *)
(***************************************************************************)
\* Mutant: the schema is not applied.
SchemaHoldsAlways(o, doc) == TRUE

SchemaHolds(o, doc) ==
    /\ Required(o, DOMAIN doc.set) \subseteq DOMAIN doc.set
    /\ \A f \in DOMAIN doc.set \cap DOMAIN SchemaOf(o) :
        /\ doc.set[f] # "wrong"
        /\ doc.set[f] = "odd" => SchemaOf(o)[f].type = "integer"

\* ConfigStore::module of the document it read: a missing file and an empty one are
\* the empty object, and a mapping is validated if there is a schema.
Validates(doc) ==
    \/ doc.kind = "absent"
    \/ /\ doc.kind \in {"blank", "mapping"}
       /\ \/ cfSchema = "none"
          \/ cfSchema = "usable" /\ SchemaHolds(cfOwner, doc)

\* What serde makes of the bytes: absent fields keep their defaults, and integers
\* must fit.
Parses(doc) ==
    /\ doc.kind \in {"blank", "mapping"}
    /\ \A f \in DOMAIN doc.set : doc.set[f] \notin {"wrong", "odd"}

\* ConfigStore::daemon takes an empty field for an unset one; the modules do not.
Filled(o) == o = "daemon"

\* The value a field has once `doc` is parsed.
InEffect(o, doc, f) ==
    IF f \in DOMAIN doc.set
    THEN IF doc.set[f] = "empty" /\ Filled(o) THEN DefaultsOf(o)[f].default ELSE doc.set[f]
    ELSE DefaultsOf(o)[f].default

\* TobogganingModule::init asks for the manager and the node once more.
InitAccepts(doc) ==
    cfOwner = "tobogganing" =>
        \A f \in {"manager_url", "node_id"} : InEffect(cfOwner, doc, f) # "empty"

(***************************************************************************)
(* Steps.                                                                  *)
(***************************************************************************)
ConfigInit ==
    /\ cfOwner \in Owners
    /\ cfField \in FieldsOf(cfOwner)
    /\ cfSchema \in (CASE cfOwner = "plugin" -> {"none", "malformed", "usable"}
                       [] cfOwner = "daemon" -> {"none"}
                       [] OTHER -> {"usable"})
    /\ cfSafe \in (IF cfOwner = "plugin" THEN BOOLEAN ELSE {TRUE})
    /\ cfFile \in Documents(cfOwner, cfField)
    /\ cfPhase = "down" /\ cfRead = Blank /\ cfGiven = Blank /\ cfDir = FALSE
    /\ cfEdits = 0 /\ cfLoads = 0 /\ cfTouched = FALSE /\ cfFault = FALSE

\* The operator, or a tool, rewrites the file.
EditFile ==
    /\ cfEdits < MaxEdits
    /\ \E doc \in Documents(cfOwner, cfField) \ {cfFile} : cfFile' = doc
    /\ cfEdits' = cfEdits + 1 /\ cfTouched' = (cfTouched \/ cfPhase = "validated")
    /\ UNCHANGED <<cfOwner, cfField, cfSchema, cfSafe, cfPhase, cfRead, cfGiven, cfDir, cfLoads, cfFault>>

\* A load may begin: the first, or one after an unload, a failure or a restart.
MayLoad == cfPhase \in {"down", "configured", "refused"} /\ cfLoads < MaxLoads

\* ensure_data_dir: a directory that could not be made is only logged.
DirEnsured == cfDir' \in (IF cfDir THEN {TRUE} ELSE BOOLEAN)

\* resolve_config's last case: an unusable file is logged, and is no config.
GoesWithout == cfPhase' = "given" /\ cfGiven' = Blank

\* check_name and ConfigStore::module.
Passes == cfSafe /\ Validates(cfFile)

\* host_for begins: the name is checked, the file is read and validated.
\* Otherwise the module goes without.
ValidateConfig ==
    /\ cfOwner # "daemon" /\ MayLoad
    /\ cfLoads' = cfLoads + 1 /\ cfTouched' = FALSE /\ cfRead' = cfFile
    /\ \/ /\ Passes /\ cfFault' = FALSE
          /\ cfPhase' = "validated" /\ UNCHANGED <<cfGiven, cfDir>>
       \/ /\ ~Passes /\ cfFault' = FALSE
          /\ GoesWithout /\ DirEnsured
       \/ cfFault' = TRUE /\ GoesWithout /\ DirEnsured
    /\ UNCHANGED <<cfOwner, cfField, cfSchema, cfSafe, cfFile, cfEdits>>

\* module_raw's own read: what is in the file now, or nothing if it is gone.
SecondRead == IF cfFile.kind = "absent" THEN Blank ELSE cfFile

\* module_raw reads the file again, without validating it, and host_for is done.
ReadVerbatim ==
    /\ cfPhase = "validated"
    /\ \/ cfPhase' = "given" /\ cfGiven' = SecondRead /\ UNCHANGED cfFault
       \/ cfFault' = TRUE /\ GoesWithout
    /\ DirEnsured
    /\ UNCHANGED <<cfOwner, cfField, cfSchema, cfSafe, cfFile, cfRead, cfEdits, cfLoads, cfTouched>>

\* Module::init parses what it was given, if any.
ParseConfig ==
    /\ cfPhase = "given"
    /\ cfPhase' = (IF cfGiven = Blank \/ cfOwner = "plugin" \/ Parses(cfGiven)
                   THEN IF InitAccepts(cfGiven) THEN "configured" ELSE "refused"
                   ELSE "refused")
    /\ UNCHANGED <<cfOwner, cfField, cfSchema, cfSafe, cfFile, cfRead, cfGiven, cfDir, cfEdits, cfLoads, cfTouched, cfFault>>

\* ConfigStore::daemon: one read; a missing file is the defaults, a malformed one
\* ends the daemon's start, and an empty field is its default.
ReadDaemonConfig ==
    /\ cfOwner = "daemon" /\ MayLoad
    /\ cfLoads' = cfLoads + 1 /\ cfTouched' = FALSE /\ cfRead' = cfFile
    /\ \/ /\ cfFault' = FALSE
          /\ cfGiven' = SecondRead
          /\ cfPhase' = (IF cfFile.kind = "absent" \/ Parses(cfFile) THEN "configured" ELSE "refused")
       \/ cfFault' = TRUE /\ cfPhase' = "refused" /\ cfGiven' = Blank
    /\ UNCHANGED <<cfOwner, cfField, cfSchema, cfSafe, cfFile, cfDir, cfEdits>>

ConfigNext == EditFile \/ ValidateConfig \/ ReadVerbatim \/ ParseConfig \/ ReadDaemonConfig

ConfigSpec == ConfigInit /\ [][ConfigNext]_configVars

(***************************************************************************)
(* Properties.                                                             *)
(***************************************************************************)
\* Every variable has its type, and a daemon that started has no empty setting,
\* whether its file leaves the field out or blank (ConfigStore::daemon).
ConfigTypeOK ==
    /\ cfOwner \in Owners /\ cfField \in FieldsOf(cfOwner)
    /\ {cfFile, cfRead, cfGiven} \subseteq Documents(cfOwner, cfField)
    /\ cfPhase \in {"down", "validated", "given", "configured", "refused"}
    /\ cfDir \in BOOLEAN /\ cfEdits \in 0..MaxEdits /\ cfLoads \in 0..MaxLoads
    /\ cfTouched \in BOOLEAN /\ cfFault \in BOOLEAN
    /\ cfOwner = "daemon" /\ cfPhase = "configured" =>
        \A f \in FieldsOf(cfOwner) : InEffect(cfOwner, cfGiven, f) # "empty"

\* "The module never parses an unvalidated file itself": unless an edit fell between
\* the two reads of module_raw, a built-in module refuses what it is given only for
\* an integer its type does not hold, or for want of a manager or a node.
ValidatedIsAccepted ==
    (cfOwner \in BuiltIns /\ cfPhase = "refused" /\ ~cfTouched) =>
        \/ \E f \in DOMAIN cfGiven.set : cfGiven.set[f] = "odd"
        \/ cfOwner = "tobogganing"
                /\ \E f \in {"manager_url", "node_id"} : InEffect(cfOwner, cfGiven, f) = "empty"

\* A file that is not edited between the two reads, and can be read, is used exactly when it
\* is valid: resolve_config neither hands out a bad file nor drops a good one.
UsedExactlyIfValid ==
    cfPhase \in {"given", "configured"} /\ cfOwner # "daemon" /\ ~cfTouched /\ ~cfFault =>
        cfGiven = (IF cfSafe /\ Validates(cfRead) /\ cfRead.kind # "absent" THEN cfRead ELSE Blank)

\* What the schemas advertise is what a module runs with when its file, validated or
\* not, says nothing of a field: no struct's default contradicts its schema's.
UnsetMeansAdvertised ==
    cfOwner \in BuiltIns /\ cfPhase = "configured" =>
        \A f \in FieldsOf(cfOwner) \ DOMAIN cfGiven.set :
            SchemaOf(cfOwner)[f].default \in {Unadvertised, InEffect(cfOwner, cfGiven, f)}

\* tobogganing never runs without a manager or a node identity, whatever the file
\* says, whether or not its validation passed, and whatever is edited meanwhile.
NeverHalfConfigured ==
    cfOwner = "tobogganing" /\ cfPhase = "configured" =>
        /\ Parses(cfGiven)
        /\ {"manager_url", "node_id"} \subseteq DOMAIN cfGiven.set
=============================================================================
