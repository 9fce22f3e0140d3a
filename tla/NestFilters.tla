---------------------------- MODULE NestFilters ----------------------------
(***************************************************************************)
(* The global exception filters of a NestJS application, and where         *)
(* src/integrations/nest puts Wotchi among them: as a filter of its own    *)
(* that passes the exception on, or around a filter of the application.    *)
(***************************************************************************)
EXTENDS Naturals, Sequences, FiniteSets, SequencesExt

CONSTANTS Filters,       \* the application's global exception filters
          WotchiFilter,  \* the WotchiNestExceptionFilter
          Fallback       \* no filter matches: the default answer

ASSUME FiltersAssumption ==
  /\ IsFiniteSet(Filters)
  /\ WotchiFilter \notin Filters /\ Fallback \notin Filters \cup {WotchiFilter}

Kinds == {"HttpException", "httpError", "unknown"}

\* The setups that the documentation describes: an application that wraps its
\* filters registers no Wotchi filter besides.  Types of exceptions are what a
\* filter catches of the one exception.
Setups ==
  {setup \in [registered : SetToAllKPermutations(Filters \cup {WotchiFilter}),
              wrapped : SUBSET Filters, matching : SUBSET Filters,
              kind : Kinds, own : {"4xx", "5xx"}] :
     /\ setup.wrapped \cup setup.matching \subseteq ToSet(setup.registered)
     /\ setup.wrapped # {} => ~Contains(setup.registered, WotchiFilter)
     /\ setup.kind = "unknown" => setup.own = "5xx"}

\* matchesException(); the Wotchi filter is @Catch() and takes everything.
MatchesException(setup, filter) == filter = WotchiFilter \/ filter \in setup.matching

FirstMatch(setup, filters) ==
  LET i == SelectInSeq(filters, LAMBDA f : MatchesException(setup, f))
  IN  IF i = 0 THEN Fallback ELSE filters[i]

\* NestJS asks the global filter that was registered last first.
Dispatched(setup) == FirstMatch(setup, Reverse(setup.registered))

\* Mutant of PreviousGlobalFilters: in the order of registration.
PreviousUnreversed(setup) ==
  LET at == SelectInSeq(setup.registered, LAMBDA f : f = WotchiFilter)
  IN  SubSeq(setup.registered, 1, at - 1)

\* getPreviousGlobalFilters(): those registered before Wotchi, the last first.
PreviousGlobalFilters(setup) ==
  LET at == SelectInSeq(setup.registered, LAMBDA f : f = WotchiFilter)
  IN  Reverse(SubSeq(setup.registered, 1, at - 1))

\* WotchiNestExceptionFilter.catch(): after the capture, a previous filter
\* answers, or Wotchi as NestJS would have.
Answering(setup) ==
  IF Dispatched(setup) = WotchiFilter
  THEN FirstMatch(setup, PreviousGlobalFilters(setup))
  ELSE Dispatched(setup)

\* The exception passes Wotchi.
Captured(setup) == Dispatched(setup) \in {WotchiFilter} \cup setup.wrapped

\* The filter that would answer if the application did not use Wotchi.
AnsweringWithoutWotchi(setup) ==
  FirstMatch(setup, Reverse(RemoveFirst(setup.registered, WotchiFilter)))

\* getStatusCode(): the status is predicted, before anybody answers.
PredictedStatus(setup, status) ==
  IF setup.kind = "HttpException" THEN setup.own
  ELSE IF status \in {"4xx", "5xx"} THEN status ELSE "5xx"

\* The status of the default answer; if the headers have been sent, the
\* response is only ended, whatever the exception.
FallbackStatus(setup, status, headersSent) ==
  IF headersSent THEN status ELSE IF setup.kind = "unknown" THEN "5xx" ELSE setup.own
=============================================================================
