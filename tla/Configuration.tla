--------------------------- MODULE Configuration ----------------------------
(***************************************************************************)
(* The configuration file: what KemuriConfig::load accepts, how the        *)
(* settings of a check are inherited from its profile, and the hashes that *)
(* identify a configuration and the settings of a check.                   *)
(*                                                                         *)
(* A list of the file is a sequence of records with an id.  The optional   *)
(* settings of a check or a profile are a partial function, params, from   *)
(* the names of the settings to their values.  A text a parser takes apart *)
(* is a number and what follows it; a text its parser refuses is           *)
(* Unparsable.  The file reader returns one error, and every error has the *)
(* same effect, so the order in which the conditions are looked at is left *)
(* out.                                                                    *)
(***************************************************************************)
EXTENDS Integers, FiniteSets, SequencesExt

CONSTANTS
    None,        \* an optional value that is not given
    Unparsable,  \* a text its parser refuses
    Forever,     \* the text "forever" of a retention
    MaxU64       \* the largest unsigned integer a duration is held in

Text(number, suffix) == [number |-> number, suffix |-> suffix]

Kinds == {"icmp", "http", "tcp", "dns"}

-----------------------------------------------------------------------------
(***************************************************************************)
(* The settings of a check of each kind.                                   *)
(***************************************************************************)

SettingsOf == [
    icmp |-> {"count", "address_family", "payload_size", "source_address"},
    http |-> {"url", "method", "headers", "expected_status", "body", "follow_redirects",
              "max_redirect_count", "connection_mode", "measure_until", "user_agent",
              "tls_validate", "root_certificates"},
    tcp  |-> {"host", "port", "address_family", "source_address", "tls"},
    dns  |-> {"domain", "record_type", "resolver", "protocol", "expected_rcode",
              "require_answer"}]

\* The value of a setting that neither the check nor its profile gives.
Default == [
    count |-> 3, address_family |-> "auto", payload_size |-> 56, source_address |-> None,
    method |-> None, headers |-> <<>>, expected_status |-> None, body |-> None,
    follow_redirects |-> TRUE, max_redirect_count |-> 10, connection_mode |-> "pooled",
    measure_until |-> "headers", user_agent |-> None, tls_validate |-> TRUE,
    root_certificates |-> {}, tls |-> None, record_type |-> None, resolver |-> None,
    protocol |-> "udp", expected_rcode |-> "noerror", require_answer |-> FALSE]

-----------------------------------------------------------------------------
(***************************************************************************)
(* Durations and percentages.                                              *)
(***************************************************************************)

MillisOf == [ms |-> 1, s |-> 1000, m |-> 60000, h |-> 3600000, d |-> 86400000]

\* parse_duration succeeds: digits, a known unit, and no overflow in milliseconds.
IsDuration(text) ==
    /\ text.number # Unparsable
    /\ text.suffix \in DOMAIN MillisOf
    /\ text.number <= MaxU64 \div MillisOf[text.suffix]

Millis(text) == text.number * MillisOf[text.suffix]

IsPositiveDuration(text) == IsDuration(text) /\ Millis(text) > 0

\* parse_percentage_value
IsPercentage(text) ==
    /\ text.number # Unparsable
    /\ text.suffix = "%"
    /\ text.number \in 0..100

-----------------------------------------------------------------------------
(***************************************************************************)
(* Validation: KemuriConfig::validate_with_warnings.                       *)
(***************************************************************************)

Members(entries) == {entries[i] : i \in DOMAIN entries}

Unique(entries) ==
    \A i, j \in DOMAIN entries : entries[i].id = entries[j].id => i = j

Ids(entries) == {entry.id : entry \in Members(entries)}

Entry(entries, id) == CHOOSE entry \in Members(entries) : entry.id = id

RatioMetrics == {"measurement_loss_ratio", "health_failure_ratio", "healthy_sample_ratio"}
LatencyMetrics == {"p50_latency", "p95_latency", "p99_latency"}
Metrics == RatioMetrics \cup LatencyMetrics
               \cup {"consecutive_total_loss_rounds", "consecutive_unhealthy_rounds", "no_data"}
Operators == {"gt", "gte", "lt", "lte"}

\* validate_alert_threshold
IsThreshold(text, metric) ==
    \/ metric \in RatioMetrics /\ IsPercentage(text)
    \/ metric \in LatencyMetrics /\ IsPositiveDuration(text)
    \/ /\ metric \notin RatioMetrics \cup LatencyMetrics
       /\ text.number # Unparsable
       /\ text.suffix = ""
       /\ text.number >= 0

ValidRule(rule, config) ==
    /\ rule.profile \in Ids(config.profiles)
    /\ rule.notifier \in Ids(config.notifiers)
    /\ IsPositiveDuration(rule.window)
    /\ rule.metric \in Metrics
    /\ rule.operator \in Operators
    /\ rule.clear_operator \in Operators \cup {None}
    /\ IsThreshold(rule.threshold, rule.metric)
    /\ rule.clear_threshold = None \/ IsThreshold(rule.clear_threshold, rule.metric)
    /\ \A text \in {rule.duration, rule.repeat_every, rule.no_data_period} \ {None} :
          IsPositiveDuration(text)
    /\ rule.minimum_rounds # 0
    /\ rule.minimum_latency_samples # 0

\* The fields of a profile that are not optional must be given (serde refuses the
\* file otherwise).
ValidProfile(profile) ==
    /\ profile.kind \in Kinds
    /\ SettingsOf[profile.kind] \ DOMAIN Default \subseteq DOMAIN profile.params
    /\ IsPositiveDuration(profile.interval)
    /\ IsPositiveDuration(profile.timeout)

ValidTarget(target, config) ==
    /\ Unique(target.checks)
    /\ \A check \in Members(target.checks) : check.profile \in Ids(config.profiles)

\* SchedulerConfig::validate
ValidScheduler(scheduler) ==
    /\ IsPositiveDuration(scheduler.tick_interval)
    /\ scheduler.max_concurrent > 0
    /\ IsPercentage(scheduler.default_jitter)
    /\ \A kind \in Kinds : scheduler.max_concurrent_by_probe[kind] # 0

\* StorageConfig::validate and RetentionConfig::validate
ValidStorage(storage) ==
    /\ \A name \in DOMAIN storage.retention :
          storage.retention[name] = Forever \/ IsPositiveDuration(storage.retention[name])
    /\ IsPercentage(storage.warning_free)
    /\ IsPercentage(storage.critical_free)
    /\ storage.critical_free.number < storage.warning_free.number

Valid(config) ==
    /\ config.version = 1
    /\ Unique(config.profiles)
    /\ \A profile \in Members(config.profiles) : ValidProfile(profile)
    /\ Unique(config.notifiers)
    /\ Unique(config.rules)
    /\ \A rule \in Members(config.rules) : ValidRule(rule, config)
    /\ Unique(config.targets)
    /\ \A target \in Members(config.targets) : ValidTarget(target, config)
    /\ ValidScheduler(config.scheduler)
    /\ ValidStorage(config.storage)
    /\ IsDuration(config.shutdown_timeout)

-----------------------------------------------------------------------------
(***************************************************************************)
(* Secrets and certificates are read when the configuration is resolved.   *)
(* outside is what the process can read then: the contents of the files    *)
(* and variables that exist.                                               *)
(***************************************************************************)

Literal(value) == [from |-> "literal", name |-> None, value |-> value]
FromFile(name) == [from |-> "from_file", name |-> name, value |-> None]

\* SecretRef::resolve
SecretReadable(secret, outside) == secret.from = "literal" \/ secret.name \in DOMAIN outside

SecretValue(secret, outside) ==
    IF secret.from = "literal" THEN secret.value ELSE outside[secret.name]

\* validate_certificates: every file can be read and holds certificates only.
CertificatesReadable(paths, outside) ==
    \A path \in paths : path \in DOMAIN outside /\ outside[path] = "pem"

-----------------------------------------------------------------------------
(***************************************************************************)
(* Inheritance: ProbeProfileConfig::resolve_check.                         *)
(***************************************************************************)

\* One map extended by another: what both have is taken from the other.
Extended(map, by) ==
    [name \in DOMAIN map \cup DOMAIN by |->
        IF name \in DOMAIN by THEN by[name] ELSE map[name]]

Headers(params) == IF "headers" \in DOMAIN params THEN params["headers"] ELSE <<>>

\* A check's own value wins over its profile's, and that over the default.
\* Headers are merged, and a header of the check wins over one of its profile.
Inherited(name, profile, check) ==
    IF name = "headers"
    THEN Extended(Headers(profile.params), Headers(check.params))
    ELSE Extended(Extended(Default, profile.params), check.params)[name]

Settings(profile, check) ==
    [name \in SettingsOf[profile.kind] |-> Inherited(name, profile, check)]

\* validate_family
FamilyFits(s) ==
    /\ s.address_family \in {"auto", "ipv4", "ipv6"}
    /\ s.source_address # Unparsable
    /\ s.source_address # None /\ s.address_family # "auto"
          => s.source_address = s.address_family

\* HttpStatusExpectation::resolve
StatusFits(expected) ==
    /\ expected # Unparsable
    /\ expected # None =>
          /\ {expected.first, expected.last} \subseteq 100..599
          /\ expected.first <= expected.last

\* What resolve_check and validate_resolved_probe_params ask of the settings.
\* A source address is the family it belongs to.
ValidSettings(kind, s, outside) ==
    \/ kind = "icmp" /\ s.count > 0 /\ s.payload_size <= 65507 /\ FamilyFits(s)
    \/ /\ kind = "http"
       /\ s.url # Unparsable /\ s.url.scheme \in {"http", "https"}
       /\ s.method # Unparsable
       /\ StatusFits(s.expected_status)
       /\ s.body = None \/ SecretReadable(s.body, outside)
       /\ s.connection_mode \in {"pooled", "per_round", "fresh"}
       /\ s.measure_until \in {"headers", "body"}
       /\ CertificatesReadable(s.root_certificates, outside)
    \/ /\ kind = "tcp" /\ s.port > 0 /\ FamilyFits(s)
       /\ s.tls # None => CertificatesReadable(s.tls.root_certificates, outside)
    \/ /\ kind = "dns"
       /\ s.protocol \in {"udp", "tcp"}
       /\ s.expected_rcode \in
              {"noerror", "formerr", "servfail", "nxdomain", "notimp", "refused"}
       /\ s.resolver # Unparsable

OwnOr(text, inherited) == IF text = None THEN inherited ELSE text

CheckResolves(profile, check, outside) ==
    /\ check.kind \in {None, profile.kind}
    /\ IsPositiveDuration(OwnOr(check.interval, profile.interval))
    /\ IsPositiveDuration(OwnOr(check.timeout, profile.timeout))
    /\ ValidSettings(profile.kind, Settings(profile, check), outside)

\* The settings with the value of the secret in the place of its reference.
Effective(profile, check, outside) ==
    LET s == Settings(profile, check)
    IN  IF profile.kind = "http" /\ s.body # None
        THEN [s EXCEPT !.body = SecretValue(s.body, outside)]
        ELSE s

\* Mutant: the timeout is left out of the identity of the settings.
RevisionIgnoresTimeout(check, profile, outside) ==
    [check_id |-> check.id, profile_id |-> profile.id,
     interval |-> Millis(OwnOr(check.interval, profile.interval)),
     probe    |-> Effective(profile, check, outside)]

\* compute_revision_id of the revision input.  The hash stands for its input:
\* two inputs with the same hash are not modelled.
Revision(check, profile, outside) ==
    [check_id |-> check.id, profile_id |-> profile.id,
     interval |-> Millis(OwnOr(check.interval, profile.interval)),
     timeout  |-> Millis(OwnOr(check.timeout, profile.timeout)),
     probe    |-> Effective(profile, check, outside)]

-----------------------------------------------------------------------------
(***************************************************************************)
(* KemuriConfig::resolve.  A check is named by its target and its id.      *)
(***************************************************************************)

TargetOf(config, key) == Entry(config.targets, key[1])
CheckOf(config, key) == Entry(TargetOf(config, key).checks, key[2])
ProfileOf(config, key) == Entry(config.profiles, CheckOf(config, key).profile)

ConfiguredKeys(config) ==
    UNION {{<<target.id, check.id>> : check \in Members(target.checks)} :
              target \in Members(config.targets)}

EnabledTargets(config) == {target.id : target \in {t \in Members(config.targets) : t.enabled}}

EnabledKeys(config) ==
    {key \in ConfiguredKeys(config) :
        key[1] \in EnabledTargets(config) /\ CheckOf(config, key).enabled}

Resolves(config, outside) ==
    \A key \in EnabledKeys(config) :
        CheckResolves(ProfileOf(config, key), CheckOf(config, key), outside)

ResolvedCheck(config, outside, key) ==
    LET check == CheckOf(config, key)
        profile == ProfileOf(config, key)
    IN  [target_address |-> TargetOf(config, key).address,
         profile_id     |-> profile.id,
         probe_kind     |-> profile.kind,
         interval       |-> Millis(OwnOr(check.interval, profile.interval)),
         timeout        |-> Millis(OwnOr(check.timeout, profile.timeout)),
         revision_id    |-> Revision(check, profile, outside),
         probe_params   |-> Effective(profile, check, outside)]

Resolved(config, outside) ==
    [key \in EnabledKeys(config) |-> ResolvedCheck(config, outside, key)]

\* The secrets the generation is computed over: those of the notifiers and the
\* bodies the checks give themselves, the ones that cannot be read left out.
NamedSecrets(config) ==
    UNION {{<<n.id, field, n.secrets[field]>> : field \in DOMAIN n.secrets} :
              n \in Members(config.notifiers)}
        \cup {<<key, "body", CheckOf(config, key).params["body"]>> :
                 key \in {k \in ConfiguredKeys(config) :
                            "body" \in DOMAIN CheckOf(config, k).params}}

\* The labels and headers of a file are hash maps: one with two entries is
\* written in an order that each parse of the file draws anew.
Maps(config) ==
    {target.labels : target \in Members(config.targets)}
        \cup {entry.params["headers"] :
                 entry \in {p \in Members(config.profiles)
                              \cup UNION {Members(t.checks) : t \in Members(config.targets)} :
                              "headers" \in DOMAIN p.params}}

MapOrders(config) ==
    IF \E map \in Maps(config) : Cardinality(DOMAIN map) > 1 THEN {1, 2} ELSE {1}

\* generation_hash: the lists in the order of their ids, and the secrets.
GenerationHash(config, order, outside) ==
    [config  |-> [config EXCEPT !.profiles = Members(config.profiles),
                                !.notifiers = Members(config.notifiers),
                                !.rules = Members(config.rules),
                                !.targets = {[t EXCEPT !.checks = Members(t.checks)] :
                                                t \in Members(config.targets)}],
     order   |-> order,
     secrets |-> {<<s[1], s[2], SecretValue(s[3], outside)>> :
                    s \in {x \in NamedSecrets(config) : SecretReadable(x[3], outside)}}]

\* build_notifiers: every notifier can read its secrets, with their values.
NotifiersBuild(config, outside) ==
    \A notifier \in Members(config.notifiers) :
        \A field \in DOMAIN notifier.secrets : SecretReadable(notifier.secrets[field], outside)

NotifierMap(config, outside) ==
    [id \in Ids(config.notifiers) |->
        LET secrets == Entry(config.notifiers, id).secrets
        IN  [field \in DOMAIN secrets |-> SecretValue(secrets[field], outside)]]
=============================================================================
