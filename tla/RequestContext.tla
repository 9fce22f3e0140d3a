--------------------------- MODULE RequestContext ---------------------------
(***************************************************************************)
(* What the Express and NestJS adapters tell of a request: its method, its *)
(* route, the status of its response, and what the application has stored  *)
(* on the request object under the names that the options give.            *)
(* buildRequestContext() of src/integrations/request-context.ts.           *)
(*                                                                         *)
(* A property of the request is "text", anything "other", missing, or      *)
(* "throws" when it is read.  A path is a sequence of segments.            *)
(***************************************************************************)
EXTENDS Sequences, FiniteSets

None == "undefined"

Properties == {None, "text", "other", "throws"}

\* Numbers, hexadecimal numbers and UUIDs are the ids of something, and so is
\* taken every segment of 24 characters.
Dynamic == {"42", "deadbeef", "notification-preferences"}
Segments == Dynamic \cup {"orders", "health", ":id"}

\* A path that is no text ("other": Express also takes patterns and lists), or
\* is empty, is no route.
IsPath(path) == path \notin {<<>>, <<None>>, <<"other">>}
NormalizeRoutePath(path) ==
  IF IsPath(path)
  THEN [i \in DOMAIN path |-> IF path[i] \in Dynamic THEN ":id" ELSE path[i]]
  ELSE <<None>>

\* readRequestId(), readCorrelationId(): own properties that are texts.
ReadText(property) == property = "text"

\* readTraceContext(): either identifier makes a trace, neither none.
TraceIds == {"traceId", "spanId"}
ReadTrace(trace) == trace \cap TraceIds

\* buildRequestContext(): the fields that the context has, and its route.
BuildRequestContext(input) ==
  LET fields == {f \in {"method", "requestId", "correlationId"} : ReadText(input[f])}
                \cup (IF input.statusCode THEN {"statusCode"} ELSE {})
                \cup (IF ReadTrace(input.trace) # {} THEN {"trace"} ELSE {})
      route == NormalizeRoutePath(input.route)
  IN [fields |-> IF route = <<None>> THEN fields ELSE fields \cup {"route"},
      route |-> route, trace |-> ReadTrace(input.trace)]

NoContext == [fields |-> {}, route |-> <<None>>, trace |-> {}]

FirstDefined(first, second) == IF first = <<None>> THEN second ELSE first

\* Mutant of RouteOf: the path that was asked for, ids and all.
RouteOfPath(request) == FirstDefined(request.path, request.routePath)

\* The route that the router has matched, or else the path.  (NestJS would also
\* take the URL; Express and Fastify requests always have a path or a URL.)
RouteOf(request) == FirstDefined(request.routePath, request.path)

\* getExpressRequestContext() and getNestRequestContext(): a request that
\* cannot be read has no context at all.
RequestContextOf(request) ==
  IF request.method = "throws" THEN NoContext
  ELSE BuildRequestContext(
         [method |-> request.method, route |-> RouteOf(request),
          statusCode |-> request.statusCode, requestId |-> request.requestId,
          correlationId |-> request.correlationId, trace |-> request.trace])
=============================================================================
