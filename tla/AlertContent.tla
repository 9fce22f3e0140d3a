---------------------------- MODULE AlertContent ----------------------------
(***************************************************************************)
(* What an alert says: the safe event that captureSafeEvent() of           *)
(* src/core/client.ts makes of a capture, the sample of it that the group  *)
(* keeps, the alert of src/core/incident-builder.ts with its links, and    *)
(* what is left of an alert that beforeSend() has returned.                *)
(*                                                                         *)
(* Objects are the values of SafeValue, whose redactValue() the client     *)
(* calls for every part.  A text is known by the capture it comes from.    *)
(* Whether an alert is due is the subject of CapturePipeline: here it may  *)
(* be with any capture that is not ignored.                                *)
(***************************************************************************)
EXTENDS Naturals, RequestContext, SequencesExt, TLC

CONSTANTS TagLimit,       \* 50 in the code
          DefaultMaxKeys  \* 100 in the code

ASSUME ContentAssumption == {TagLimit, DefaultMaxKeys} \subseteq Nat \ {0}

VARIABLES
  privacy,  \* the limits in effect: maxKeys, maxDepth
  rules,    \* the rules of the configuration
  capture,  \* what is captured, and the how-manieth of its group it is
  event,    \* its safe event
  sample,   \* the event that the group keeps
  alert,    \* the alert built from the sample
  sent      \* what is handed to the queue

contentVars == <<privacy, rules, capture, event, sample, alert, sent>>

\* maxStringLength is taken to be no shorter than the fields' own names.
Safe(maxKeys, maxDepth) ==
  INSTANCE SafeValue WITH heap <- <<>>, stored <- <<>>

Value(tag, of, entries) == [tag |-> tag, of |-> of, entries |-> entries]
Missing == Value(None, 0, <<>>)
Text(n) == Value("text", n, <<>>)
Number(n) == Value("number", n, <<>>)
Record(entries) == Value("object", 0, entries)
Entry(key, value) == [key |-> key, value |-> value]
IsText(value) == value.tag \notin {None, "object", "array", "number"}

\* {...(value === undefined ? {} : { key: value })}, for the keys in their order.
Defined(entries) == SelectSeq(entries, LAMBDA entry : entry.value # Missing)
Picked(keys, F(_)) == Defined([i \in DOMAIN keys |-> Entry(keys[i], F(keys[i]))])

\* redacted[key], asString(redacted[key])
Get(record, key) ==
  IF \E i \in DOMAIN record.entries : record.entries[i].key = key
  THEN record.entries[CHOOSE i \in DOMAIN record.entries : record.entries[i].key = key].value
  ELSE Missing
GetText(record, key) == IF IsText(Get(record, key)) THEN Get(record, key) ELSE Missing
GetNumber(record, key) == IF Get(record, key).tag = "number" THEN Get(record, key) ELSE Missing

-----------------------------------------------------------------------------
(* The sanitizers of the client.                                           *)

RedactWithin(value, limits) ==
  IF value = Missing THEN Missing ELSE Safe(limits.maxKeys, limits.maxDepth)!RedactValue(value)
Redact(value) == RedactWithin(value, privacy)

\* A record, or nothing.
SafeWithin(value, limits) ==
  LET redacted == RedactWithin(value, limits)
  IN IF redacted.tag = "object" THEN redacted ELSE Missing
SafeRecord(value) == SafeWithin(value, privacy)

OrNothing(entries) == IF entries = <<>> THEN Missing ELSE Record(entries)

\* The fields of a record that are texts.
SafeTrace(value) ==
  LET redacted == SafeRecord(value)
  IN OrNothing(Picked(<<"traceId", "spanId">>, LAMBDA key : GetText(redacted, key)))

SafeRequest(value) ==
  LET redacted == SafeRecord(value)
      Field(key) == CASE key = "statusCode" -> GetNumber(redacted, key)
                      [] key = "trace" -> SafeTrace(Get(redacted, key))
                      [] OTHER -> GetText(redacted, key)
  IN OrNothing(Picked(<<"method", "route", "requestId", "correlationId", "statusCode", "trace">>,
                      Field))

MaxTags == IF privacy.maxKeys < TagLimit THEN privacy.maxKeys ELSE TagLimit
SafeTags(value) ==
  OrNothing(SelectSeq(SafeWithin(value, [privacy EXCEPT !.maxKeys = MaxTags]).entries,
                      LAMBDA entry : IsText(entry.value)))

\* redactError(), safeErrorFromValue(): a record with a name and a message.
ErrorFields == <<"name", "message", "stack", "code", "applicationFrame">>
ErrorTexts(redacted) == Picked(ErrorFields, LAMBDA key : GetText(redacted, key))
SafeError(value) ==
  LET redacted == SafeRecord(value)
  IN IF Missing \in {GetText(redacted, "name"), GetText(redacted, "message")} THEN Missing
     ELSE Record(ErrorTexts(redacted))
Unknown == Value("[REDACTED]", 0, <<>>)
EventError(value) ==
  LET texts == ErrorTexts(SafeRecord(value))
      Or(key) == IF GetText(Record(texts), key) = Missing THEN Unknown ELSE GetText(Record(texts), key)
  IN Record(<<Entry("name", Or("name")), Entry("message", Or("message"))>>
            \o SelectSeq(texts, LAMBDA entry : entry.key \in {"stack", "code"}))

\* mergeContext(): {...metadata, ...context}
Merged(first, second) ==
  LET Own(key) == IF Get(second, key) # Missing THEN Get(second, key) ELSE Get(first, key)
  IN [i \in DOMAIN first.entries |->
        Entry(first.entries[i].key, Own(first.entries[i].key))]
     \o SelectSeq(second.entries, LAMBDA entry : Get(first, entry.key) = Missing)
MergeContext(metadata, context) ==
  LET m == SafeRecord(metadata)
      c == SafeRecord(context)
  IN IF m = Missing /\ c = Missing THEN Missing ELSE Record(Merged(m, c))

-----------------------------------------------------------------------------
(* captureSafeEvent()                                                      *)

\* The request context of the adapters as an object; its texts, and all that
\* capture n brings along, are known by n.
RequestRecord(context, n) ==
  LET TraceRecord == Record(Picked(<<"traceId", "spanId">>,
                       LAMBDA key : IF key \in context.trace THEN Text(n) ELSE Missing))
      Field(key) == CASE key \notin context.fields -> Missing
                      [] key = "statusCode" -> Number(n)
                      [] key = "trace" -> TraceRecord
                      [] OTHER -> Text(n)
  IN OrNothing(Picked(<<"method", "route", "statusCode", "requestId", "correlationId", "trace">>,
                      Field))

\* `size` keys of an object of the application, the first of which holds
\* objects within objects down to `depth`.
Chain(n, depth) ==
  LET chain[d \in 0..depth] == IF d = 0 THEN Text(n) ELSE Record(<<Entry("inner", chain[d - 1])>>)
  IN chain[depth]
Attached(prefix, n, size, depth) ==
  IF size = 0 THEN Missing
  ELSE Record([i \in 1..size |->
         Entry(prefix \o ToString(i), IF i = 1 THEN Chain(n, depth - 1) ELSE Text(n))])

\* The first that is a text: the operation, job and correlation id may come
\* from the options of the capture, from its context or from its request.
FirstOf(values) ==
  LET texts == SelectSeq(values, IsText) IN IF texts = <<>> THEN Missing ELSE texts[1]

SafeEvent(input, n) ==
  LET request == SafeRequest(RequestRecord(RequestContextOf(input.request), n))
      context == MergeContext(Attached("m", n, input.metadata, 1),
                              Attached("c", n, input.context, input.depth))
      Option == IF input.options THEN Text(n) ELSE Missing
      Field(key) ==
        CASE key = "correlationId" -> FirstOf(<<Option, GetText(request, "correlationId")>>)
          [] key = "operation" -> FirstOf(<<Option, Get(context, "operation")>>)
          [] key = "job" -> FirstOf(<<Option, Get(context, "job"), Get(context, "queue")>>)
          [] key = "tags" -> SafeTags(Attached("t", n, input.tags, 1))
          [] key = "error" -> EventError(Record(<<Entry("name", Text(n)), Entry("message", Text(n)),
                                                  Entry("stack", Text(n))>>))
          [] key = "request" -> request
          [] key = "trace" -> SafeTrace(IF input.options THEN Record(<<Entry("traceId", Text(n))>>)
                                        ELSE Get(request, "trace"))
          [] key = "context" -> context
          [] OTHER -> Text(n)
  IN Record(Picked(<<"id", "timestamp", "service", "environment", "instance", "release",
                     "correlationId", "operation", "job", "tags", "error", "request",
                     "trace", "context">>, Field))

\* matchingRule(): the first whose environment and route, where they are
\* given, are those of the event.  The event has a route only if its safe
\* request still has one.
EventRoute == IF Get(Get(event, "request"), "route") = Missing THEN <<None>>
              ELSE RequestContextOf(capture.request).route
Matches(rule) == rule.here /\ rule.route \in {<<None>>, EventRoute}
MatchingRules == SelectSeq(rules, Matches)
Ignored == MatchingRules # <<>> /\ MatchingRules[1].ignore

-----------------------------------------------------------------------------
(* The group's sample, and the alert.                                      *)

\* cloneSafeEvent(): the context is copied with the limits of normalize.ts.
DefaultLimits == [maxKeys |-> DefaultMaxKeys, maxDepth |-> 5]

Replaced(record, key, value) ==
  Record([i \in DOMAIN record.entries |->
            IF record.entries[i].key = key THEN Entry(key, value) ELSE record.entries[i]])
CloneSafeEvent(original) ==
  Replaced(original, "context", Safe(DefaultLimits.maxKeys, DefaultLimits.maxDepth)!
                                  Normalized(Get(original, "context")))

\* renderLinks(): both templates are configured; a trace link needs a trace.
RenderLinks ==
  LET traced == \/ Get(event, "trace") # Missing
                \/ Get(Get(event, "request"), "trace") # Missing
  IN Record(<<Entry("log", Text(capture.n))>>
            \o IF traced THEN <<Entry("trace", Text(capture.n))>> ELSE <<>>)

Actions == Value("array", 0, <<Entry("item", Text(0)), Entry("item", Text(0))>>)

\* Mutant of AlertKeys: what comes from the caller before the dates.
AlertKeysCallerFirst ==
  <<"id", "fingerprint", "title", "severity", "summary", "suggestedActions", "context", "tags",
    "firstSeenAt", "lastSeenAt", "occurrences", "service", "environment", "instance",
    "release", "correlationId", "operation", "job", "error", "request", "trace">>

\* The keys of an alert in their order: all that it needs comes first.
AlertKeys ==
  <<"id", "fingerprint", "title", "severity", "summary", "suggestedActions", "firstSeenAt",
    "lastSeenAt", "occurrences", "service", "environment", "instance", "release",
    "correlationId", "operation", "job", "tags", "error", "request", "trace", "context">>

\* buildIncidentAlert(): the stack has a frame of the application.
AlertOf(of) ==
  LET error == Record(Get(of, "error").entries \o
                 IF Get(Get(of, "error"), "stack") = Missing THEN <<>>
                 ELSE <<Entry("applicationFrame", Get(Get(of, "error"), "stack"))>>)
      Field(key) == CASE key = "suggestedActions" -> Actions
                      [] key = "occurrences" -> Number(capture.n)
                      [] key = "error" -> error
                      [] key \in {"id", "fingerprint", "title", "severity", "summary",
                                  "firstSeenAt", "lastSeenAt"} -> Text(0)
                      [] OTHER -> Get(of, key)
  IN Picked(AlertKeys, Field)

Withheld == Value("withheld", 0, <<>>)

Needed == {"title", "fingerprint", "summary", "severity", "firstSeenAt", "lastSeenAt",
           "service", "environment"}

\* safeAlertFromValue(): what the client takes of the alert that beforeSend()
\* has returned, if all that an alert must have is still there.
SafeAlert(value) ==
  LET redacted == SafeRecord(value)
      Field(key) == CASE key = "id" -> FirstOf(<<GetText(redacted, key), Text(0)>>)
                      [] key = "suggestedActions" -> Get(redacted, key)
                      [] key = "occurrences" -> GetNumber(redacted, key)
                      [] key = "error" -> SafeError(Get(redacted, key))
                      [] key = "request" -> SafeRequest(Get(redacted, key))
                      [] key = "trace" -> SafeTrace(Get(redacted, key))
                      [] key = "context" -> SafeRecord(Get(redacted, key))
                      [] key = "tags" -> SafeTags(Get(redacted, key))
                      [] key = "links" ->
                           OrNothing(Picked(<<"log", "trace">>,
                             LAMBDA link : GetText(SafeRecord(Get(redacted, key)), link)))
                      [] OTHER -> GetText(redacted, key)
  IN IF \/ \E key \in Needed : GetText(redacted, key) = Missing
        \/ GetNumber(redacted, "occurrences") = Missing
        \/ Get(redacted, "suggestedActions").tag # "array"
     THEN Withheld
     ELSE Record(Picked(Append(AlertKeys, "links"), Field))
=============================================================================
