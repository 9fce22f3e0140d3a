--------------------------- MODULE SettingsProofs ---------------------------
(***************************************************************************)
(* What the factories accept is usable, whatever they are given; and what  *)
(* one of them starts, the runtime watcher, measures is right for every    *)
(* interval, every set of thresholds and every length of a behaviour.      *)
(***************************************************************************)
EXTENDS RuntimeWatcher, Configuration, SequenceTheorems, TLAPS

-----------------------------------------------------------------------------
(* The schemas: each piece is usable, and so is what they are joined to.   *)

\* A setting whose range and default are what SettingsAreUsable asks for.
IsUsable(s) ==
  /\ s.least \in Int /\ s.most \in Int /\ s.default \in Int
  /\ s.path \in Delays => /\ s.least >= 1 /\ s.most <= LargestDelay
                          /\ s.default >= 1 /\ s.default <= LargestDelay
  /\ s.path \in Capacities => s.least >= 1 /\ (s.default >= 1 \/ s.path = "burst")
  /\ s.path \in {"maxGroups", "maxEventsPerWindow"} => s.most <= 10000 /\ s.default <= 10000
  /\ s.path = "burst" => s.default = Unset

Elements(schema) == {schema[i] : i \in DOMAIN schema}
UsableSchema(schema) ==
  schema \in Seq(Elements(schema)) /\ \A i \in DOMAIN schema : IsUsable(schema[i])

LEMMA NumberFacts ==
  /\ Unset = 0 /\ Unset \in Int /\ Required \in Int /\ Unbounded \in Int
  /\ LargestDelay \in Int /\ LargestDelay >= 6000
  /\ Seconds(3) = 300 /\ Seconds(5) = 500 /\ Seconds(30) = 3000 /\ Seconds(60) = 6000
  /\ Seconds(900) = 90000 /\ Days(1) \in Int /\ Days(7) \in Int /\ Days(30) \in Int
BY DEF Unset, Required, Unbounded, LargestDelay, Seconds, Days

LEMMA SettingFacts ==
  ASSUME NEW path, NEW parent, NEW types, NEW least \in Int, NEW most \in Int, NEW default \in Int,
         path \in Delays => /\ least >= 1 /\ most <= LargestDelay
                            /\ default >= 1 /\ default <= LargestDelay,
         path \in Capacities => least >= 1 /\ (default >= 1 \/ path = "burst"),
         path \in {"maxGroups", "maxEventsPerWindow"} => most <= 10000 /\ default <= 10000,
         path = "burst" => default = Unset
  PROVE  IsUsable(Setting(path, parent, types, least, most, default))
BY DEF IsUsable, Setting

LEMMA CountFacts ==
  ASSUME NEW path, NEW parent, NEW default \in Int, NEW most \in Int,
         path \in Delays => most <= LargestDelay /\ default >= 1 /\ default <= LargestDelay,
         path \in Capacities => default >= 1 \/ path = "burst",
         path \in {"maxGroups", "maxEventsPerWindow"} => most <= 10000 /\ default <= 10000,
         path = "burst" => default = Unset
  PROVE  IsUsable(Count(path, parent, default, most))
BY SettingFacts DEF Count

\* The other settings.
LEMMA OtherSetting ==
  ASSUME NEW path, path \notin Delays \cup Capacities, NEW parent, NEW types,
         NEW least \in Int, NEW most \in Int, NEW default \in Int
  PROVE  IsUsable(Setting(path, parent, types, least, most, default))
BY SettingFacts DEF Delays, Capacities

LEMMA WordsFacts ==
  ASSUME NEW path, path \notin Delays \cup Capacities, NEW parent, NEW default \in Int
  PROVE  IsUsable(Words(path, parent, default)) /\ IsUsable(Flag(path, parent, default))
BY OtherSetting, NumberFacts DEF Words, Flag

LEMMA OtherFacts ==
  ASSUME NEW path, path \notin Delays \cup Capacities, NEW parent
  PROVE  /\ IsUsable(Hook(path)) /\ IsUsable(Section(path, parent))
         /\ IsUsable(Template(path)) /\ IsUsable(ReadingThreshold(path))
         /\ IsUsable(PropertyName(path))
BY OtherSetting, NumberFacts DEF Hook, Section, Template, ReadingThreshold, PropertyName

LEMMA ListFacts ==
  ASSUME NEW path, path \notin Delays \cup Capacities, NEW parent, NEW most \in Int
  PROVE  IsUsable(List(path, parent, most))
BY OtherSetting, NumberFacts DEF List

LEMMA NamesUsable == UsableSchema(NameSchema)
<1>1. /\ IsUsable(Words("service", "options", Required))
      /\ IsUsable(Words("environment", "options", Required))
      /\ IsUsable(Words("release", "options", Unset))
      /\ IsUsable(Words("instance", "options", Unset))
      /\ IsUsable(Flag("enabled", "options", 1))
  BY NumberFacts, WordsFacts DEF Delays, Capacities
<1>2. /\ IsUsable(Hook("filter")) /\ IsUsable(Hook("fingerprint")) /\ IsUsable(Hook("beforeSend"))
  BY NumberFacts, OtherFacts DEF Delays, Capacities
<1> QED BY <1>1, <1>2 DEF NameSchema, UsableSchema, Elements

LEMMA SectionsUsable == UsableSchema(SectionSchema)
<1>1. /\ IsUsable(Section("grouping", "options")) /\ IsUsable(Section("queue", "options"))
      /\ IsUsable(Section("notifierCircuitBreaker", "queue"))
      /\ IsUsable(Section("privacy", "options")) /\ IsUsable(Section("overload", "options"))
      /\ IsUsable(Section("links", "options"))
  BY OtherFacts DEF Delays, Capacities
<1>2. IsUsable(Template("log")) /\ IsUsable(Template("trace"))
  BY OtherFacts DEF Delays, Capacities
<1>3. IsUsable(Setting("concurrency", "queue", {"number"}, 1, 1, 1))
  BY OtherSetting DEF Delays, Capacities
<1> QED BY <1>1, <1>2, <1>3 DEF SectionSchema, UsableSchema, Elements

LEMMA RulesUsable == UsableSchema(RuleSchema)
<1>1. IsUsable(List("rules", "options", 50)) /\ IsUsable(Section("rules[0]", "rules"))
  BY ListFacts, OtherFacts DEF Delays, Capacities
<1>2. IsUsable(Count("rules[0].alertThreshold", "rules[0]", Unset, 1000000))
  BY NumberFacts, CountFacts DEF Delays, Capacities
<1>3. /\ IsUsable(Flag("rules[0].ignore", "rules[0]", Unset))
      /\ IsUsable(Words("rules[0].environment", "rules[0]", Unset))
      /\ IsUsable(Words("rules[0].route", "rules[0]", Unset))
  BY NumberFacts, WordsFacts DEF Delays, Capacities
<1>4. IsUsable(Setting("rules[0].severity", "rules[0]", {"severity"}, 0, Unbounded, Unset))
  BY NumberFacts, OtherSetting DEF Delays, Capacities
<1> QED BY <1>1, <1>2, <1>3, <1>4 DEF RuleSchema, UsableSchema, Elements

LEMMA GroupingUsable == UsableSchema(GroupingSchema)
<1>1. /\ IsUsable(Count("windowMs", "grouping", Seconds(60), Days(7)))
      /\ IsUsable(Count("alertThreshold", "grouping", 3, 1000000))
      /\ IsUsable(Count("cooldownMs", "grouping", Seconds(900), Days(30)))
  BY NumberFacts, CountFacts DEF Delays, Capacities
<1>2. /\ IsUsable(Count("maxGroups", "grouping", 200, 10000))
      /\ IsUsable(Count("maxEventsPerWindow", "grouping", 100, 10000))
  BY CountFacts DEF Delays, Capacities
<1> QED BY <1>1, <1>2 DEF GroupingSchema, UsableSchema, Elements

LEMMA QueueUsable == UsableSchema(QueueSchema)
<1>1. /\ IsUsable(Count("maxPendingAlerts", "queue", 100, 10000))
      /\ IsUsable(Count("notifierTimeoutMs", "queue", Seconds(5), Seconds(60)))
  BY NumberFacts, CountFacts DEF Delays, Capacities
<1>2. /\ IsUsable(Count("failureThreshold", "notifierCircuitBreaker", 3, 100))
      /\ IsUsable(Count("breakerCooldownMs", "notifierCircuitBreaker", Seconds(30), Days(1)))
  BY NumberFacts, CountFacts DEF Delays, Capacities
<1> QED BY <1>1, <1>2 DEF QueueSchema, UsableSchema, Elements

LEMMA OverloadUsable == UsableSchema(OverloadSchema)
<1>1. /\ IsUsable(Count("maxEventsPerSecond", "overload", 1000, 1000000))
      /\ IsUsable(Count("burst", "overload", Unset, 1000000))
      /\ IsUsable(Count("alertCooldownMs", "overload", Seconds(60), Days(30)))
  BY NumberFacts, CountFacts DEF Delays, Capacities
<1> QED BY <1>1 DEF OverloadSchema, UsableSchema, Elements

LEMMA PrivacyUsable == UsableSchema(PrivacySchema)
<1>1. /\ IsUsable(List("redactKeys", "privacy", 100))
      /\ IsUsable(Words("redactKeys[0]", "redactKeys", Unset))
  BY NumberFacts, ListFacts, WordsFacts DEF Delays, Capacities
<1>2. /\ IsUsable(Count("maxDepth", "privacy", 5, 20))
      /\ IsUsable(Count("maxKeys", "privacy", 100, 10000))
  BY CountFacts DEF Delays, Capacities
<1>3. /\ IsUsable(Count("maxStringLength", "privacy", 500, 32768))
      /\ IsUsable(Count("maxStackLength", "privacy", 4000, 32768))
  BY CountFacts DEF Delays, Capacities
<1> QED BY <1>1, <1>2, <1>3 DEF PrivacySchema, UsableSchema, Elements

LEMMA NotifiersUsable == UsableSchema(NotifierSchema)
<1>1. /\ IsUsable(Setting("notifiers", "options", {"array"}, 1, Unbounded, Required))
      /\ IsUsable(Setting("notifiers[0]", "notifiers", {"notifier"}, 0, Unbounded, Required))
  BY NumberFacts, OtherSetting DEF Delays, Capacities
<1> QED BY <1>1 DEF NotifierSchema, UsableSchema, Elements

LEMMA WatcherUsable == UsableSchema(WatcherSchema)
<1>1. IsUsable(Setting("intervalMs", "options", {"number"}, 10, Seconds(60), Seconds(5)))
  BY NumberFacts, SettingFacts DEF Delays, Capacities
<1>2. /\ IsUsable(ReadingThreshold("cpuPercent")) /\ IsUsable(ReadingThreshold("rssBytes"))
      /\ IsUsable(ReadingThreshold("heapUsedBytes"))
      /\ IsUsable(ReadingThreshold("eventLoopDelayMs"))
      /\ IsUsable(ReadingThreshold("pendingAlerts"))
      /\ IsUsable(ReadingThreshold("notifierFailures"))
  BY OtherFacts DEF Delays, Capacities
<1>3. IsUsable(Count("alertThreshold", "options", 3, 1000000))
  BY CountFacts DEF Delays, Capacities
<1> QED BY <1>1, <1>2, <1>3 DEF WatcherSchema, UsableSchema, Elements

LEMMA TelegramUsable == UsableSchema(TelegramSchema)
<1>1. /\ IsUsable(Setting("botToken", "options", {"token"}, 1, 200, Required))
      /\ IsUsable(Setting("chatId", "options", {"token"}, 1, 200, Required))
  BY NumberFacts, OtherSetting DEF Delays, Capacities
<1> QED BY <1>1 DEF TelegramSchema, UsableSchema, Elements

LEMMA WebhookUsable ==
  ASSUME NEW loopback, NEW private
  PROVE  UsableSchema(WebhookSchema(loopback, private))
<1>1. /\ IsUsable(Flag("allowHttpLoopback", "options", 0)) /\ IsUsable(Hook("payloadBuilder"))
  BY WordsFacts, OtherFacts DEF Delays, Capacities
<1>2. \A types : IsUsable(Setting("url", "options", types, 1, 2048, Required))
  BY NumberFacts, OtherSetting DEF Delays, Capacities
<1>3. IsUsable(Count("timeoutMs", "options", Seconds(3), Seconds(30)))
  BY NumberFacts, CountFacts DEF Delays, Capacities
<1>4. /\ IsUsable(Setting("maxRetries", "options", {"number"}, 0, 1, 1))
      /\ IsUsable(Setting("headers", "options", {"headers"}, 0, 20, Unset))
      /\ IsUsable(Setting("headers[0]", "headers", {"header"}, 0, 2000, Unset))
  BY NumberFacts, OtherSetting DEF Delays, Capacities
<1> QED BY <1>1, <1>2, <1>3, <1>4 DEF WebhookSchema, UsableSchema, Elements

LEMMA SeqOfElements ==
  ASSUME NEW S, NEW t \in Seq(S)
  PROVE  t \in Seq(Elements(t))
<1>1. \A i \in 1..Len(t) : t[i] \in Elements(t)
  BY DEF Elements
<1>2. t = [i \in 1..Len(t) |-> t[i]] /\ Len(t) \in Nat
  OBVIOUS
<1> HIDE DEF Elements
<1>3. t \in [1..Len(t) -> Elements(t)]
  BY <1>1, <1>2
<1> QED BY <1>2, <1>3, SeqDef

\* Two schemas after one another.
LEMMA Joined ==
  ASSUME NEW first, NEW second, UsableSchema(first), UsableSchema(second)
  PROVE  /\ UsableSchema(first \o second)
         /\ Elements(first \o second) = Elements(first) \cup Elements(second)
<1> DEFINE all == Elements(first) \cup Elements(second)
<1>1. first \in Seq(all) /\ second \in Seq(all)
  BY DEF UsableSchema, Elements
<1>2. first \o second \in Seq(all)
  BY <1>1
<1>3. \A i \in DOMAIN (first \o second) :
        \/ \E j \in DOMAIN first : (first \o second)[i] = first[j]
        \/ \E j \in DOMAIN second : (first \o second)[i] = second[j]
  BY <1>1
<1>4. \A i \in DOMAIN (first \o second) : IsUsable((first \o second)[i])
  BY <1>3 DEF UsableSchema
<1>5. first \o second \in Seq(Elements(first \o second))
  BY <1>2, SeqOfElements
<1>6. /\ DOMAIN first = 1..Len(first) /\ DOMAIN second = 1..Len(second)
      /\ DOMAIN (first \o second) = 1..(Len(first) + Len(second))
      /\ Len(first) \in Nat /\ Len(second) \in Nat
      /\ \A i \in DOMAIN first : (first \o second)[i] = first[i]
      /\ \A i \in DOMAIN second : (first \o second)[Len(first) + i] = second[i]
  BY <1>1
<1>7. \A i \in DOMAIN first : first[i] \in Elements(first \o second)
  BY <1>6 DEF Elements
<1>8. \A i \in DOMAIN second : Len(first) + i \in DOMAIN (first \o second)
  BY <1>6
<1>9. \A i \in DOMAIN second : second[i] \in Elements(first \o second)
  BY <1>6, <1>8 DEF Elements
<1>10. Elements(first \o second) = all
  BY <1>3, <1>7, <1>9 DEF Elements
<1> QED BY <1>4, <1>5, <1>10 DEF UsableSchema

\* The settings of the client have those that SettingsAreUsable names.
LEMMA ClientUsable ==
  /\ UsableSchema(ClientSchema)
  /\ Elements(GroupingSchema) \cup Elements(OverloadSchema) \subseteq Elements(ClientSchema)
<1>1. UsableSchema(NameSchema \o SectionSchema)
  BY Joined, NamesUsable, SectionsUsable
<1>2. UsableSchema(NameSchema \o SectionSchema \o RuleSchema)
  BY <1>1, Joined, RulesUsable
<1> DEFINE grouped == NameSchema \o SectionSchema \o RuleSchema \o GroupingSchema
           queued == grouped \o QueueSchema
           limited == queued \o OverloadSchema
           private == limited \o PrivacySchema
<1>3. UsableSchema(grouped) /\ Elements(GroupingSchema) \subseteq Elements(grouped)
  BY <1>2, Joined, GroupingUsable
<1> HIDE DEF grouped
<1>4. UsableSchema(queued) /\ Elements(GroupingSchema) \subseteq Elements(queued)
  BY <1>3, Joined, QueueUsable
<1> HIDE DEF queued
<1>5. /\ UsableSchema(limited) /\ Elements(GroupingSchema) \subseteq Elements(limited)
      /\ Elements(OverloadSchema) \subseteq Elements(limited)
  BY <1>4, Joined, OverloadUsable
<1> HIDE DEF limited
<1>6. /\ UsableSchema(private)
      /\ Elements(GroupingSchema) \cup Elements(OverloadSchema) \subseteq Elements(private)
  BY <1>5, Joined, PrivacyUsable
<1> HIDE DEF private
<1>7. /\ UsableSchema(private \o NotifierSchema)
      /\ Elements(GroupingSchema) \cup Elements(OverloadSchema)
           \subseteq Elements(private \o NotifierSchema)
  BY <1>6, Joined, NotifiersUsable
<1> QED BY <1>7 DEF ClientSchema, private, limited, queued, grouped

\* The burst is a setting of the client alone.
NoBurst(schema) == \A s \in Elements(schema) : s.path # "burst"

LEMMA OthersUsable ==
  /\ UsableSchema(WatcherSchema) /\ NoBurst(WatcherSchema)
  /\ UsableSchema(TelegramSchema) /\ NoBurst(TelegramSchema)
  /\ \A loopback, private : /\ UsableSchema(WebhookSchema(loopback, private))
                            /\ NoBurst(WebhookSchema(loopback, private))
<1>1. NoBurst(WatcherSchema)
  BY DEF NoBurst, Elements, WatcherSchema, Setting, ReadingThreshold, Count
<1>2. NoBurst(TelegramSchema)
  BY DEF NoBurst, Elements, TelegramSchema, Setting
<1>3. ASSUME NEW loopback, NEW private
      PROVE  NoBurst(WebhookSchema(loopback, private))
  BY DEF NoBurst, Elements, WebhookSchema, Setting, Flag, Count, Hook
<1> QED BY <1>1, <1>2, <1>3, WatcherUsable, TelegramUsable, WebhookUsable

LEMMA StatusesUsable ==
  ASSUME NEW path, path \notin Delays \cup Capacities, path # "burst",
         NEW element, element \notin Delays \cup Capacities, element # "burst"
  PROVE  UsableSchema(Statuses(path, element)) /\ NoBurst(Statuses(path, element))
<1>1. /\ IsUsable(List(path, "options", 100))
      /\ IsUsable(Setting(element, path, {"number"}, 100, 599, Unset))
  BY ListFacts, NumberFacts, OtherSetting
<1>2. UsableSchema(Statuses(path, element))
  BY <1>1 DEF Statuses, UsableSchema, Elements
<1>3. NoBurst(Statuses(path, element))
  BY DEF Statuses, NoBurst, Elements, List, Setting
<1> QED BY <1>2, <1>3

LEMMA ObserverUsable == UsableSchema(ObserverSchema) /\ NoBurst(ObserverSchema)
<1> DEFINE names == << Count("alertThreshold", "options", Unset, 1000000),
                       PropertyName("requestIdProperty"), PropertyName("correlationIdProperty"),
                       PropertyName("traceContextProperty") >>
           classes == << List("statusClasses", "options", Unbounded),
                         Setting("statusClasses[0]", "statusClasses", {"class"}, 0, Unbounded, Unset) >>
           codes == Statuses("statusCodes", "statusCodes[0]")
           ignored == Statuses("ignoreStatusCodes", "ignoreStatusCodes[0]")
<1>1. UsableSchema(names)
  <2>1. IsUsable(Count("alertThreshold", "options", Unset, 1000000))
    BY NumberFacts, CountFacts DEF Delays, Capacities
  <2>2. /\ IsUsable(PropertyName("requestIdProperty"))
        /\ IsUsable(PropertyName("correlationIdProperty"))
        /\ IsUsable(PropertyName("traceContextProperty"))
    BY OtherFacts DEF Delays, Capacities
  <2> QED BY <2>1, <2>2 DEF UsableSchema, Elements
<1>2. UsableSchema(classes)
  <2>1. IsUsable(List("statusClasses", "options", Unbounded))
    BY NumberFacts, ListFacts DEF Delays, Capacities
  <2>2. IsUsable(Setting("statusClasses[0]", "statusClasses", {"class"}, 0, Unbounded, Unset))
    BY NumberFacts, OtherSetting DEF Delays, Capacities
  <2> QED BY <2>1, <2>2 DEF UsableSchema, Elements
<1>3. NoBurst(names) /\ NoBurst(classes)
  BY DEF NoBurst, Elements, Count, PropertyName, List, Setting
<1>4. UsableSchema(codes) /\ NoBurst(codes) /\ UsableSchema(ignored) /\ NoBurst(ignored)
  BY StatusesUsable DEF Delays, Capacities
<1> HIDE DEF names, classes, codes, ignored
<1>5. UsableSchema(names \o codes) /\ NoBurst(names \o codes)
  BY <1>1, <1>3, <1>4, Joined DEF NoBurst
<1>6. UsableSchema(names \o codes \o classes) /\ NoBurst(names \o codes \o classes)
  BY <1>2, <1>3, <1>5, Joined DEF NoBurst
<1>7. /\ UsableSchema(names \o codes \o classes \o ignored)
      /\ NoBurst(names \o codes \o classes \o ignored)
  BY <1>4, <1>6, Joined DEF NoBurst
<1> QED BY <1>7 DEF ObserverSchema, names, codes, classes, ignored

-----------------------------------------------------------------------------
(* What a schema makes of what is given.                                   *)

\* Every setting in effect is its default or the value given, and none is at fault.
Settled(schema, values, accepted) ==
  /\ \A i \in DOMAIN schema : ~Faulty(values, schema[i])
  /\ DOMAIN accepted = {schema[i].path : i \in DOMAIN schema}
  /\ \A path \in DOMAIN accepted :
       \E i \in DOMAIN schema :
         /\ schema[i].path = path
         /\ accepted[path] = IF Read(values, schema[i]) = Undefined THEN schema[i].default
                             ELSE Read(values, schema[i]).value

LEMMA ValidatedFacts ==
  ASSUME NEW schema, NEW values, ~IsRefused(Validated(schema, values))
  PROVE  Settled(schema, values, Validated(schema, values))
<1> DEFINE faults == {i \in DOMAIN schema : Faulty(values, schema[i])}
           InEffect(s) == IF Read(values, s) = Undefined THEN s.default ELSE Read(values, s).value
           At(path) == CHOOSE i \in DOMAIN schema : schema[i].path = path
           paths == {schema[i].path : i \in DOMAIN schema}
<1>1. Validated(schema, values)
        = IF faults # {} THEN Refused(schema[Min(faults)].path)
          ELSE [path \in paths |-> InEffect(schema[At(path)])]
  BY DEF Validated
<1>2. faults = {}
  BY <1>1 DEF Refused, IsRefused
<1>3. Validated(schema, values) = [path \in paths |-> InEffect(schema[At(path)])]
  BY <1>1, <1>2
<1>4. \A path \in paths : At(path) \in DOMAIN schema /\ schema[At(path)].path = path
  OBVIOUS
<1> HIDE DEF At, InEffect
<1>5. /\ DOMAIN Validated(schema, values) = paths
      /\ \A path \in paths : Validated(schema, values)[path] = InEffect(schema[At(path)])
  BY <1>3
<1> QED BY <1>2, <1>4, <1>5 DEF InEffect, Settled

LEMMA UsableValues ==
  ASSUME NEW schema, UsableSchema(schema), NEW values,
         NEW accepted, Settled(schema, values, accepted)
  PROVE  /\ \A path \in Delays \cap DOMAIN accepted : accepted[path] \in 1..LargestDelay
         /\ \A path \in Capacities \cap DOMAIN accepted :
              /\ accepted[path] \in Int
              /\ accepted[path] >= 1 \/ (path = "burst" /\ accepted[path] = Unset)
         /\ \A path \in {"maxGroups", "maxEventsPerWindow"} \cap DOMAIN accepted :
              accepted[path] <= 10000
         /\ "burst" \in DOMAIN accepted /\ ValueAt(values, "burst") = Undefined
              => accepted["burst"] = Unset
<1>1. /\ \A i \in DOMAIN schema : ~Faulty(values, schema[i])
      /\ \A path \in DOMAIN accepted :
           \E i \in DOMAIN schema :
             /\ schema[i].path = path
             /\ accepted[path] = IF Read(values, schema[i]) = Undefined THEN schema[i].default
                                ELSE Read(values, schema[i]).value
  BY DEF Settled
<1>2. SUFFICES ASSUME NEW path \in DOMAIN accepted
               PROVE  /\ path \in Delays => accepted[path] \in 1..LargestDelay
                      /\ path \in Capacities =>
                           /\ accepted[path] \in Int
                           /\ accepted[path] >= 1 \/ (path = "burst" /\ accepted[path] = Unset)
                      /\ path \in {"maxGroups", "maxEventsPerWindow"} => accepted[path] <= 10000
                      /\ path = "burst" /\ ValueAt(values, path) = Undefined
                           => accepted[path] = Unset
  OBVIOUS
<1>3. PICK i \in DOMAIN schema :
        /\ schema[i].path = path
        /\ accepted[path] = IF Read(values, schema[i]) = Undefined THEN schema[i].default
                           ELSE Read(values, schema[i]).value
  BY <1>1
<1> DEFINE s == schema[i]
           value == Read(values, s)
<1>4. IsUsable(s) /\ ~Faulty(values, s)
  BY <1>1 DEF UsableSchema
<1>5. value = Undefined \/ Accepts(s, value)
  BY <1>4 DEF Faulty, Read
<1>6. CASE value = Undefined
  BY <1>3, <1>4, <1>6, NumberFacts DEF IsUsable, Delays, Capacities
<1>7. CASE value # Undefined
  <2>1. value.value \in s.least..s.most /\ accepted[path] = value.value
    BY <1>3, <1>5, <1>7 DEF Accepts
  <2>2. ValueAt(values, path) # Undefined
    BY <1>3, <1>7 DEF Read
  <2> HIDE DEF value
  <2> QED BY <1>3, <1>4, <2>1, <2>2, NumberFacts DEF IsUsable, Delays, Capacities
<1> QED BY <1>6, <1>7

-----------------------------------------------------------------------------
(* What the factories accept.                                              *)

LEMMA AcceptedByOthers ==
  ASSUME NEW schema, UsableSchema(schema), NoBurst(schema), NEW values,
         ~IsRefused(Validated(schema, values))
  PROVE  LET accepted == Validated(schema, values) IN
         /\ \A path \in Delays \cap DOMAIN accepted : accepted[path] \in 1..LargestDelay
         /\ \A path \in Capacities \cap DOMAIN accepted : accepted[path] > 0
<1>1. PICK accepted : accepted = Validated(schema, values)
  OBVIOUS
<1>2. Settled(schema, values, accepted)
  BY <1>1, ValidatedFacts
<1>3. "burst" \notin DOMAIN accepted
  BY <1>2 DEF Settled, NoBurst, Elements
<1>4. /\ \A path \in Delays \cap DOMAIN accepted : accepted[path] \in 1..LargestDelay
      /\ \A path \in Capacities \cap DOMAIN accepted :
           /\ accepted[path] \in Int
           /\ accepted[path] >= 1 \/ (path = "burst" /\ accepted[path] = Unset)
  BY <1>2, UsableValues
<1>5. \A path \in Capacities \cap DOMAIN accepted : accepted[path] > 0
  BY <1>3, <1>4
<1> QED BY <1>1, <1>4, <1>5

\* The settings of the client that SettingsAreUsable names are always there.
LEMMA ClientPaths ==
  \A path \in {"maxGroups", "maxEventsPerWindow", "maxEventsPerSecond", "burst"} :
    \E s \in Elements(ClientSchema) : s.path = path
<1>1. /\ Elements(GroupingSchema) \subseteq Elements(ClientSchema)
      /\ Elements(OverloadSchema) \subseteq Elements(ClientSchema)
  BY ClientUsable
<1>2. /\ \E s \in Elements(GroupingSchema) : s.path = "maxGroups"
      /\ \E s \in Elements(GroupingSchema) : s.path = "maxEventsPerWindow"
  <2>1. /\ GroupingSchema[4].path = "maxGroups" /\ GroupingSchema[5].path = "maxEventsPerWindow"
        /\ 4 \in DOMAIN GroupingSchema /\ 5 \in DOMAIN GroupingSchema
    BY DEF GroupingSchema, Count, Setting
  <2> QED BY <2>1 DEF Elements
<1>3. /\ \E s \in Elements(OverloadSchema) : s.path = "maxEventsPerSecond"
      /\ \E s \in Elements(OverloadSchema) : s.path = "burst"
  <2>1. /\ OverloadSchema[1].path = "maxEventsPerSecond" /\ OverloadSchema[2].path = "burst"
        /\ 1 \in DOMAIN OverloadSchema /\ 2 \in DOMAIN OverloadSchema
    BY DEF OverloadSchema, Count, Setting
  <2> QED BY <2>1 DEF Elements
<1> QED BY <1>1, <1>2, <1>3

LEMMA Products ==
  ASSUME NEW a \in Int, NEW b \in Int, NEW most \in Int, 0 <= a, 0 <= b, a <= most, b <= most
  PROVE  a * b <= most * most
<1>1. \A m, n \in Int : 0 <= m /\ 0 <= n => 0 <= m * n
  OBVIOUS
<1>2. (most - a) * b >= 0 /\ (most - b) * most >= 0
  BY <1>1
<1>3. (most - a) * b = most * b - a * b /\ (most - b) * most = most * most - most * b
  OBVIOUS
<1> QED BY <1>2, <1>3

LEMMA AcceptedByClient ==
  ASSUME NEW values, ~IsRefused(ValidateConfig(values))
  PROVE  LET accepted == ValidateConfig(values) IN
         /\ \A path \in Delays \cap DOMAIN accepted : accepted[path] \in 1..LargestDelay
         /\ \A path \in Capacities \cap DOMAIN accepted : accepted[path] > 0
         /\ accepted["maxGroups"] * accepted["maxEventsPerWindow"] <= 100000000
         /\ ValueAt(values, "burst") = Undefined
              => accepted["burst"] = accepted["maxEventsPerSecond"]
<1>1. PICK read : read = Validated(ClientSchema, values)
  OBVIOUS
<1>2. PICK accepted : accepted = ValidateConfig(values)
  OBVIOUS
<1>3. accepted = IF ~IsRefused(read) /\ read["burst"] = Unset
                 THEN [read EXCEPT !["burst"] = read["maxEventsPerSecond"]]
                 ELSE read
  BY <1>1, <1>2 DEF ValidateConfig
<1>4. ~IsRefused(read)
  BY <1>2, <1>3
<1>5. Settled(ClientSchema, values, read)
  BY <1>1, <1>4, ValidatedFacts
<1>6. {"maxGroups", "maxEventsPerWindow", "maxEventsPerSecond", "burst"} \subseteq DOMAIN read
  BY <1>5, ClientPaths DEF Settled, Elements
<1>7. /\ \A path \in Delays \cap DOMAIN read : read[path] \in 1..LargestDelay
      /\ \A path \in Capacities \cap DOMAIN read :
           /\ read[path] \in Int
           /\ read[path] >= 1 \/ (path = "burst" /\ read[path] = Unset)
      /\ \A path \in {"maxGroups", "maxEventsPerWindow"} \cap DOMAIN read : read[path] <= 10000
      /\ "burst" \in DOMAIN read /\ ValueAt(values, "burst") = Undefined => read["burst"] = Unset
  BY <1>5, UsableValues, ClientUsable
<1>8. /\ DOMAIN accepted = DOMAIN read
      /\ \A path \in DOMAIN read \ {"burst"} : accepted[path] = read[path]
      /\ read["burst"] = Unset => accepted["burst"] = read["maxEventsPerSecond"]
      /\ read["burst"] # Unset => accepted["burst"] = read["burst"]
  BY <1>3, <1>4, <1>6
<1>9. \A path \in Delays \cap DOMAIN accepted : accepted[path] \in 1..LargestDelay
  BY <1>7, <1>8 DEF Delays
<1>10. read["maxEventsPerSecond"] \in Int /\ read["maxEventsPerSecond"] >= 1
  BY <1>6, <1>7 DEF Capacities
<1>11. \A path \in Capacities \cap DOMAIN accepted : accepted[path] > 0
  BY <1>7, <1>8, <1>10
<1>12. ValueAt(values, "burst") = Undefined => accepted["burst"] = accepted["maxEventsPerSecond"]
  BY <1>6, <1>7, <1>8
<1>13. accepted["maxGroups"] * accepted["maxEventsPerWindow"] <= 100000000
  <2>1. /\ accepted["maxGroups"] = read["maxGroups"]
        /\ accepted["maxEventsPerWindow"] = read["maxEventsPerWindow"]
    BY <1>6, <1>8
  <2>2. /\ read["maxGroups"] \in Int /\ read["maxGroups"] >= 1
        /\ read["maxEventsPerWindow"] \in Int /\ read["maxEventsPerWindow"] >= 1
    BY <1>6, <1>7 DEF Capacities
  <2>3. read["maxGroups"] <= 10000 /\ read["maxEventsPerWindow"] <= 10000
    BY <1>6, <1>7
  <2>4. read["maxGroups"] * read["maxEventsPerWindow"] <= 10000 * 10000
    BY <2>2, <2>3, Products
  <2> QED BY <2>1, <2>4
<1> QED BY <1>2, <1>9, <1>11, <1>12, <1>13

\* Nothing is accepted before the factory is called, and then once.
ConfigurationInv ==
  given \in Options /\ (settings = NotYet \/ settings = Validate(given.factory, given.values))

LEMMA AcceptedAreUsable == ConfigurationInv => SettingsAreUsable
<1> SUFFICES ASSUME ConfigurationInv, settings # NotYet, ~IsRefused(settings)
             PROVE  /\ \A path \in Delays \cap DOMAIN settings : settings[path] \in 1..LargestDelay
                    /\ \A path \in Capacities \cap DOMAIN settings : settings[path] > 0
                    /\ given.factory = "client" =>
                         /\ settings["maxGroups"] * settings["maxEventsPerWindow"] <= 100000000
                         /\ ValueAt(given.values, "burst") = Undefined
                              => settings["burst"] = settings["maxEventsPerSecond"]
  BY DEF SettingsAreUsable
<1>1. settings = Validate(given.factory, given.values)
  BY DEF ConfigurationInv
<1>2. CASE given.factory = "client"
  <2>1. settings = ValidateConfig(given.values)
    BY <1>1, <1>2 DEF Validate
  <2> QED BY <1>2, <2>1, AcceptedByClient
<1>3. CASE given.factory = "watcher"
  <2>1. settings = Validated(WatcherSchema, given.values)
    BY <1>1, <1>3 DEF Validate
  <2> QED BY <1>3, <2>1, AcceptedByOthers, OthersUsable
<1>4. CASE given.factory = "observer"
  <2>1. settings = Validated(ObserverSchema, given.values)
    BY <1>1, <1>4 DEF Validate
  <2> QED BY <1>4, <2>1, AcceptedByOthers, ObserverUsable
<1>5. CASE given.factory = "telegram"
  <2>1. settings = Validated(TelegramSchema, given.values)
    BY <1>1, <1>5 DEF Validate
  <2> QED BY <1>5, <2>1, AcceptedByOthers, OthersUsable
<1>6. CASE given.factory = "webhook"
  <2>1. PICK schema : /\ settings = Validated(schema, given.values)
                      /\ UsableSchema(schema) /\ NoBurst(schema)
    BY <1>1, <1>6, OthersUsable DEF Validate
  <2> QED BY <1>6, <2>1, AcceptedByOthers
<1> QED BY <1>2, <1>3, <1>4, <1>5, <1>6, OptionsAssumption
        DEF OptionsAssumption, ConfigurationInv

\* Whatever a factory is given, of any types and in any combination, the
\* settings it makes of it are usable.
THEOREM AcceptedIsUsable == ConfigurationSpec => []SettingsAreUsable
<1>1. ConfigurationInit => ConfigurationInv
  BY DEF ConfigurationInit, ConfigurationInv
<1>2. ConfigurationInv /\ [Configure]_configurationVars => ConfigurationInv'
  BY DEF ConfigurationInv, Configure, configurationVars
<1> QED BY <1>1, <1>2, AcceptedAreUsable, PTL DEF ConfigurationSpec

-----------------------------------------------------------------------------
(* The runtime watcher.                                                    *)

Numbers ==
  /\ time \in Int /\ offset \in Int /\ dueAt \in Int /\ expectedAt \in Int
  /\ notifierFailures \in Int /\ previousNotifierFailures \in Int
  /\ failuresSince \in Int /\ failuresSampled \in Int /\ failuresBefore \in Int

\* The wall clock and the timer agree on the next sample, unless it was stepped.
Aligned == stepped \/ expectedAt = dueAt + offset

\* The counter only grows, and what it has grown by is still to be sampled.
Counted ==
  /\ previousNotifierFailures <= notifierFailures
  /\ failuresSince = notifierFailures - previousNotifierFailures

WatcherInv == Numbers /\ Aligned /\ Counted /\ DelayIsBlockedTime /\ FailuresSampledOnce

LEMMA Bounds ==
  IntervalMs \in Nat \ {0} /\ MaxTime \in Nat /\ MaxStep \in Nat /\ MaxFailures \in Nat
BY WatcherAssumption DEF WatcherAssumption

LEMMA InitHolds == Init => WatcherInv
BY Bounds
DEF Init, WatcherInv, Numbers, Aligned, Counted, DelayIsBlockedTime, FailuresSampledOnce

LEMMA TakeSampleKeeps == WatcherInv /\ TakeSample => WatcherInv'
<1> SUFFICES ASSUME WatcherInv, TakeSample PROVE WatcherInv'
  OBVIOUS
<1> USE Bounds DEF WatcherInv, Numbers, Aligned, Counted
<1>1. sample'.delay = AtLeast0(Now - expectedAt) /\ sample'.late = time - dueAt
      /\ sample'.failures = AtLeast0(notifierFailures - previousNotifierFailures)
      /\ sample'.stepped = stepped
  BY DEF TakeSample
<1>2. Numbers'
  BY <1>1 DEF TakeSample, AtLeast0, Now, ExpectedNext
<1>3. Aligned' /\ Counted'
  BY DEF TakeSample, Now, ExpectedNext
<1>4. DelayIsBlockedTime'
  BY <1>1 DEF TakeSample, DelayIsBlockedTime, AtLeast0, Now
<1>5. FailuresSampledOnce'
  BY <1>1 DEF TakeSample, FailuresSampledOnce, AtLeast0
<1> QED
  BY <1>2, <1>3, <1>4, <1>5

LEMMA FailureKeeps ==
  WatcherInv /\ (FailNotifier \/ UNCHANGED failureVars)
    /\ UNCHANGED <<clockVars, sampleVars>> => WatcherInv'
BY DEF WatcherInv, Numbers, Aligned, Counted, DelayIsBlockedTime, FailuresSampledOnce,
       FailNotifier, failureVars, clockVars, sampleVars

LEMMA ClockKeeps == WatcherInv /\ (Tick \/ StepClock) => WatcherInv'
BY Bounds
DEF WatcherInv, Numbers, Aligned, Counted, DelayIsBlockedTime, FailuresSampledOnce,
    Tick, StepClock, sampleVars, failureVars

LEMMA StepKeeps == WatcherInv /\ [Next]_vars => WatcherInv'
<1> SUFFICES ASSUME WatcherInv, [Next]_vars PROVE WatcherInv'
  OBVIOUS
<1>1. CASE TakeSample
  BY <1>1, TakeSampleKeeps
<1>2. CASE SkipReading \/ Unregister
  BY <1>2, FailureKeeps DEF SkipReading, Unregister
<1>3. CASE CaptureReading \/ QueueFails
  BY <1>3, FailureKeeps DEF CaptureReading, QueueFails
<1>4. CASE Tick \/ StepClock
  BY <1>4, ClockKeeps
<1>5. CASE UNCHANGED vars
  BY <1>5, FailureKeeps DEF vars
<1> QED
  BY <1>1, <1>2, <1>3, <1>4, <1>5 DEF Next

LEMMA InvariantHolds == Spec => []WatcherInv
<1> QED
  BY InitHolds, StepKeeps, PTL DEF Spec

\* The measured delay is the time the due timer waited, in every behaviour.
THEOREM DelayHolds == Spec => []DelayIsBlockedTime
<1>1. WatcherInv => DelayIsBlockedTime
  BY DEF WatcherInv
<1> QED
  BY <1>1, InvariantHolds, PTL

\* Every failure of a notifier is measured by exactly one sample.
THEOREM FailuresHold == Spec => []FailuresSampledOnce
<1>1. WatcherInv => FailuresSampledOnce
  BY DEF WatcherInv
<1> QED
  BY <1>1, InvariantHolds, PTL
=============================================================================
