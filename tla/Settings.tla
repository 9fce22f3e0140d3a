------------------------------ MODULE Settings ------------------------------
(***************************************************************************)
(* What an application hands to the factories of the package, and what     *)
(* they make of it: validateConfig() of src/core/config.ts for the client, *)
(* and the options of the runtime watcher, of the status observer and of   *)
(* the webhook and Telegram notifiers.                                     *)
(*                                                                         *)
(* A factory reads its settings in a fixed order and throws at the first   *)
(* that is not acceptable; a setting that is not given has its default.    *)
(* A given value is known by its JavaScript type and a number: itself, the *)
(* length of a trimmed text or the length of a list.  A list is known by   *)
(* its length and its first element.  A link template is well formed       *)
(* ("template") or any other text.  Times are in hundredths of a second:   *)
(* TLC's integers do not hold thirty days in milliseconds.                 *)
(***************************************************************************)
EXTENDS Integers, Sequences, FiniteSetsExt

Given(type, value) == [type |-> type, value |-> value]
Undefined == Given("undefined", 0)

\* No upper bound, for TLC.
Unbounded == 2000000000

\* One setting: where it is read (its parent is "options" if that is no list or
\* section of them), the types and the range it accepts.
Setting(path, parent, types, least, most, default) ==
  [path |-> path, parent |-> parent, types |-> types, least |-> least,
   most |-> most, default |-> default]

Required == -1
Unset == 0
Words(path, parent, default) == Setting(path, parent, {"text"}, 1, Unbounded, default)
Flag(path, parent, default) == Setting(path, parent, {"boolean"}, 0, 1, default)
Hook(path) == Setting(path, "options", {"function"}, 0, Unbounded, Unset)
Section(path, parent) == Setting(path, parent, {"object", "array"}, 0, Unbounded, Unset)
List(path, parent, most) == Setting(path, parent, {"array"}, 0, most, Unset)
Count(path, parent, default, most) == Setting(path, parent, {"number"}, 1, most, default)
Template(path) == Setting(path, "links", {"template"}, 0, Unbounded, Unset)

Seconds(n) == 100 * n
Days(n) == Seconds(86400) * n

\* normalizeRules()
RuleSchema ==
  << List("rules", "options", 50), Section("rules[0]", "rules"),
     Count("rules[0].alertThreshold", "rules[0]", Unset, 1000000),
     Flag("rules[0].ignore", "rules[0]", Unset),
     Words("rules[0].environment", "rules[0]", Unset),
     Words("rules[0].route", "rules[0]", Unset),
     Setting("rules[0].severity", "rules[0]", {"severity"}, 0, Unbounded, Unset) >>

\* validateConfig()
NameSchema ==
  << Words("service", "options", Required), Words("environment", "options", Required),
     Words("release", "options", Unset), Words("instance", "options", Unset),
     Flag("enabled", "options", 1), Hook("filter"), Hook("fingerprint"), Hook("beforeSend") >>
SectionSchema ==
  << Section("grouping", "options"), Section("queue", "options"),
     Section("notifierCircuitBreaker", "queue"), Section("privacy", "options"),
     Section("overload", "options"), Section("links", "options"),
     Template("log"), Template("trace"),
     Setting("concurrency", "queue", {"number"}, 1, 1, 1) >>
GroupingSchema ==
  << Count("windowMs", "grouping", Seconds(60), Days(7)),
     Count("alertThreshold", "grouping", 3, 1000000),
     Count("cooldownMs", "grouping", Seconds(900), Days(30)),
     Count("maxGroups", "grouping", 200, 10000),
     Count("maxEventsPerWindow", "grouping", 100, 10000) >>
QueueSchema ==
  << Count("maxPendingAlerts", "queue", 100, 10000),
     Count("notifierTimeoutMs", "queue", Seconds(5), Seconds(60)),
     Count("failureThreshold", "notifierCircuitBreaker", 3, 100),
     Count("breakerCooldownMs", "notifierCircuitBreaker", Seconds(30), Days(1)) >>
OverloadSchema ==
  << Count("maxEventsPerSecond", "overload", 1000, 1000000),
     Count("burst", "overload", Unset, 1000000),
     Count("alertCooldownMs", "overload", Seconds(60), Days(30)) >>
PrivacySchema ==
  << List("redactKeys", "privacy", 100), Words("redactKeys[0]", "redactKeys", Unset),
     Count("maxDepth", "privacy", 5, 20), Count("maxKeys", "privacy", 100, 10000),
     Count("maxStringLength", "privacy", 500, 32768),
     Count("maxStackLength", "privacy", 4000, 32768) >>
NotifierSchema ==
  << Setting("notifiers", "options", {"array"}, 1, Unbounded, Required),
     Setting("notifiers[0]", "notifiers", {"notifier"}, 0, Unbounded, Required) >>
ClientSchema ==
  NameSchema \o SectionSchema \o RuleSchema \o GroupingSchema \o QueueSchema
  \o OverloadSchema \o PrivacySchema \o NotifierSchema

\* registerWotchiRuntimeWatcher(): a threshold may be any positive number.
ReadingThreshold(path) == Setting(path, "options", {"number", "fraction"}, 1, Unbounded, Unset)
WatcherSchema ==
  << Setting("intervalMs", "options", {"number"}, 10, Seconds(60), Seconds(5)),
     ReadingThreshold("cpuPercent"), ReadingThreshold("rssBytes"),
     ReadingThreshold("heapUsedBytes"), ReadingThreshold("eventLoopDelayMs"),
     ReadingThreshold("pendingAlerts"), ReadingThreshold("notifierFailures"),
     Count("alertThreshold", "options", 3, 1000000) >>

\* normalizeOptions() of the status observer, and the property names of
\* normalizeRequestContextOptions(): an "identifier" is a simple name.
PropertyName(path) == Setting(path, "options", {"identifier"}, 0, Unbounded, Unset)
Statuses(path, element) ==
  << List(path, "options", 100), Setting(element, path, {"number"}, 100, 599, Unset) >>
ObserverSchema ==
  << Count("alertThreshold", "options", Unset, 1000000),
     PropertyName("requestIdProperty"), PropertyName("correlationIdProperty"),
     PropertyName("traceContextProperty") >>
  \o Statuses("statusCodes", "statusCodes[0]")
  \o << List("statusClasses", "options", Unbounded),
        Setting("statusClasses[0]", "statusClasses", {"class"}, 0, Unbounded, Unset) >>
  \o Statuses("ignoreStatusCodes", "ignoreStatusCodes[0]")

\* normalizeWebhookOptions(): the URL is "public", "loopback" (plain HTTP to
\* this host), "private" or none of them.  A header is "header" if its name
\* and value may be sent.
WebhookSchema(loopback, private) ==
  << Flag("allowHttpLoopback", "options", 0),
     Setting("url", "options", {"public"} \cup (IF loopback THEN {"loopback"} ELSE {})
                                   \cup (IF private THEN {"private"} ELSE {}),
             1, 2048, Required),
     Count("timeoutMs", "options", Seconds(3), Seconds(30)),
     Setting("maxRetries", "options", {"number"}, 0, 1, 1), Hook("payloadBuilder"),
     Setting("headers", "options", {"headers"}, 0, 20, Unset),
     Setting("headers[0]", "headers", {"header"}, 0, 2000, Unset) >>

\* createTelegramNotifier(): a "token" has no separator of a URL in it.  The
\* timeoutMs is not read before the first send().
TelegramSchema ==
  << Setting("botToken", "options", {"token"}, 1, 200, Required),
     Setting("chatId", "options", {"token"}, 1, 200, Required) >>

-----------------------------------------------------------------------------
Sections == {"object"}
Lists == {"rules", "notifiers", "redactKeys", "statusCodes", "statusClasses",
          "ignoreStatusCodes", "headers"}

\* What is read at `path`: an absent section has no settings.
ValueAt(given, path) == IF path \in DOMAIN given THEN given[path] ELSE Undefined
Present(given, parent) ==
  \/ parent = "options"
  \/ ValueAt(given, parent).type \in Sections
  \/ parent \in Lists /\ ValueAt(given, parent).value > 0
Read(given, s) == IF Present(given, s.parent) THEN ValueAt(given, s.path) ELSE Undefined

\* Mutant of Accepts: zero passes for a positive number.
AcceptsZero(s, value) ==
  \/ value = Undefined /\ s.default # Required
  \/ value.type \in s.types /\ value.value <= s.most

Accepts(s, value) ==
  \/ value = Undefined /\ s.default # Required
  \/ value.type \in s.types /\ value.value \in s.least..s.most

\* An element is only looked at in a list that has one, and has no default.
Faulty(given, s) ==
  IF s.parent \in Lists
  THEN Present(given, s.parent) /\ (Read(given, s) = Undefined \/ ~Accepts(s, Read(given, s)))
  ELSE ~Accepts(s, Read(given, s))

\* Of the options: the settings in effect, or the first that is at fault.
Refused(path) == [refused |-> path]
IsRefused(settings) == DOMAIN settings = {"refused"}

Validated(schema, given) ==
  LET faults == {i \in DOMAIN schema : Faulty(given, schema[i])}
      InEffect(s) == IF Read(given, s) = Undefined THEN s.default ELSE Read(given, s).value
      At(path) == CHOOSE i \in DOMAIN schema : schema[i].path = path
  IN IF faults # {} THEN Refused(schema[Min(faults)].path)
     ELSE [path \in {schema[i].path : i \in DOMAIN schema} |-> InEffect(schema[At(path)])]

\* An unset burst is the rate.
ValidateConfig(given) ==
  LET settings == Validated(ClientSchema, given)
  IN IF ~IsRefused(settings) /\ settings["burst"] = Unset
     THEN [settings EXCEPT !["burst"] = settings["maxEventsPerSecond"]]
     ELSE settings

IsTrue(given, path) == ValueAt(given, path) = Given("boolean", 1)

Validate(factory, given) ==
  CASE factory = "client" -> ValidateConfig(given)
    [] factory = "watcher" -> Validated(WatcherSchema, given)
    [] factory = "observer" -> Validated(ObserverSchema, given)
    [] factory = "telegram" -> Validated(TelegramSchema, given)
    [] factory = "webhook" ->
         Validated(WebhookSchema(IsTrue(given, "allowHttpLoopback"),
                                 IsTrue(given, "allowPrivateDestinations")), given)
=============================================================================
