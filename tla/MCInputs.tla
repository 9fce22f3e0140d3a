------------------------------ MODULE MCInputs ------------------------------
(* Inputs for TLC: one setting that is not the usual one beside another at *)
(* the upper end of its range.                                             *)
EXTENDS Inputs

Usual(factory) ==
  CASE factory = "client" ->
         ("service" :> Given("text", 4)) @@ ("environment" :> Given("text", 4))
         @@ ("notifiers" :> Given("array", 1)) @@ ("notifiers[0]" :> Given("notifier", 0))
    [] factory = "telegram" ->
         ("botToken" :> Given("token", 9)) @@ ("chatId" :> Given("token", 9))
    [] factory = "webhook" -> ("url" :> Given("public", 30))
    [] OTHER -> <<>>

SchemaOf(factory) ==
  CASE factory = "client" -> ClientSchema
    [] factory = "watcher" -> WatcherSchema
    [] factory = "observer" -> ObserverSchema
    [] factory = "telegram" -> TelegramSchema
    [] factory = "webhook" ->
         Append(WebhookSchema(TRUE, TRUE), Flag("allowPrivateDestinations", "options", 0))

\* A value of another type, and the values at the ends of the range.
Probes(s) ==
  {Given("symbol", 0)} \cup
  {Given(type, value) : type \in s.types,
                        value \in {n \in {s.least - 1, s.least, s.most, s.most + 1} : n >= 0}}

\* What a setting is read from is there, too.
RECURSIVE Around(_, _)
Around(schema, path) ==
  IF path = "options" THEN <<>>
  ELSE LET s == CHOOSE t \in Range(schema) : t.path = path
       IN (path :> Given(CHOOSE t \in s.types : s.types = {"object", "array"} => t = "object", 1))
          @@ Around(schema, s.parent)

Unusual(factory) ==
  UNION {{[path |-> s.path, parent |-> s.parent, value |-> value] : value \in Probes(s)} :
           s \in Range(SchemaOf(factory))}

Largest(factory) == {c \in Unusual(factory) : \E s \in Range(SchemaOf(factory)) :
                       s.path = c.path /\ c.value.type \in s.types /\ c.value.value = s.most}

With(factory, a, b) ==
  [factory |-> factory,
   values |-> (a.path :> a.value) @@ (b.path :> b.value)
              @@ Around(SchemaOf(factory), a.parent) @@ Around(SchemaOf(factory), b.parent)
              @@ Usual(factory)]

Limit(path, value) == [path |-> path, parent |-> "privacy", value |-> Given("number", value)]

TwoUnusual ==
  UNION {{With(factory, a, b) : a \in Unusual(factory), b \in Largest(factory)} :
           factory \in {"client", "watcher", "observer", "telegram", "webhook"}}
TightLimits ==
  {With("client", Limit("maxKeys", k), Limit("maxDepth", d)) : k \in {2, 3, 13, 14, 30}, d \in {1, 2, 3, 5}}

MCOptions == TwoUnusual \cup TightLimits

Rule(here, route, ignore) == [here |-> here, route |-> route, ignore |-> ignore]
MCRuleLists ==
  {<<>>, <<Rule(TRUE, <<"health">>, TRUE)>>,
   <<Rule(TRUE, <<"orders", ":id">>, TRUE), Rule(TRUE, <<None>>, FALSE)>>}

Request(route, path, full) ==
  [method |-> IF full THEN "text" ELSE "other", routePath |-> route, path |-> path,
   statusCode |-> TRUE, requestId |-> IF full THEN "text" ELSE "throws",
   correlationId |-> IF full THEN "text" ELSE None,
   trace |-> IF full THEN {"traceId", "spanId"} ELSE {"other"}]
Unreadable == [Request(<<None>>, <<None>>, TRUE) EXCEPT !.method = "throws"]

Input(request, size, depth, options) ==
  [request |-> request, metadata |-> size % 3, context |-> size, tags |-> size,
   depth |-> depth, options |-> options]

MCCaptures ==
  {Input(Request(<<"orders", ":id">>, <<"orders", "abc">>, full), size, 1, FALSE) :
     full \in BOOLEAN, size \in {0, 5, 11}}
  \cup {Input(Request(<<"health">>, <<"health">>, FALSE), 1, 3, TRUE),
        Input(Request(<<None>>, <<"notification-preferences">>, TRUE), 15, 6, FALSE),
        Input(Unreadable, 2, 1, FALSE)}
=============================================================================
