------------------------------- MODULE Inputs -------------------------------
(***************************************************************************)
(* From what the application hands in to what an alert says: a factory     *)
(* validates its settings; a client that it has made builds the alerts of  *)
(* the captures of one group, one after the other, and lets beforeSend()   *)
(* change them.                                                            *)
(***************************************************************************)
EXTENDS Configuration, AlertContent

CONSTANTS RuleLists, \* rules that a configuration may have
          Captures,  \* what may be captured: the request, and sizes of the rest
          MaxCaptures

vars == <<configurationVars, contentVars>>

Idle == [n |-> 0]

Init ==
  /\ ConfigurationInit
  /\ privacy = DefaultLimits /\ rules = <<>>
  /\ capture = Idle /\ event = Missing /\ sample = Missing /\ alert = <<>> /\ sent = Idle

Started == given.factory = "started"

\* createWotchi() returns a client; what it does not need here is forgotten.
Start ==
  /\ settings # NotYet /\ ~IsRefused(settings)
  /\ given.factory = "client" /\ settings["enabled"] = 1
  /\ privacy' = [maxKeys |-> settings["maxKeys"], maxDepth |-> settings["maxDepth"]]
  /\ rules' \in RuleLists
  /\ given' = [factory |-> "started"] /\ settings' = NotYet
  /\ UNCHANGED <<capture, event, sample, alert, sent>>

\* captureSafeEvent() up to the group; the group keeps the sample it has.
Capture(input) ==
  /\ Started /\ (capture = Idle \/ sent # Idle) /\ capture.n < MaxCaptures
  /\ capture' = [n |-> capture.n + 1] @@ input
  /\ event' = SafeEvent(input, capture.n + 1)
  /\ alert' = <<>> /\ sent' = Idle
  /\ UNCHANGED <<given, settings, privacy, rules, sample>>

Ignore ==
  /\ Started /\ capture # Idle /\ alert = <<>> /\ sent = Idle /\ Ignored
  /\ sent' = [hook |-> "not called", value |-> Withheld]
  /\ UNCHANGED <<given, settings, privacy, rules, capture, event, sample, alert>>

BuildAlert ==
  LET kept == IF sample = Missing THEN CloneSafeEvent(event) ELSE sample
  IN /\ Started /\ capture # Idle /\ alert = <<>> /\ sent = Idle /\ ~Ignored
     /\ sample' = kept
     /\ alert' = AlertOf(kept) \o <<Entry("links", RenderLinks)>>
     /\ UNCHANGED <<given, settings, privacy, rules, capture, event, sent>>

\* beforeSend() returns undefined, null, a copy of the alert, or a part of it.
Returned(hook) == IF hook = "copy" THEN Record(alert) ELSE Record(<<alert[1], alert[3]>>)

BeforeSend(hook) ==
  /\ alert # <<>> /\ sent = Idle
  /\ sent' = [hook |-> hook, value |-> CASE hook = "undefined" -> Record(alert)
                                         [] hook = "null" -> Withheld
                                         [] OTHER -> SafeAlert(Returned(hook))]
  /\ UNCHANGED <<given, settings, privacy, rules, capture, event, sample, alert>>

Next ==
  \/ ~Started /\ Configure /\ UNCHANGED contentVars
  \/ Start
  \/ \E input \in Captures : Capture(input)
  \/ Ignore
  \/ BuildAlert
  \/ \E hook \in {"undefined", "null", "copy", "part"} : BeforeSend(hook)

Spec == Init /\ [][Next]_vars

-----------------------------------------------------------------------------
(* Properties.                                                             *)

Keys == Safe(1, 1)!EntryCount(Record(alert))
Levels == Safe(1, 1)!Height(Record(alert))

\* beforeSend() may "transform" an alert (README.md:256): a copy of the alert
\* that it returns is sent as it is, although every part of it is made safe a
\* second time and all parts share one budget of keys, when the alert fits the
\* limits; and no context, tags, request or trace that an event brings along
\* can make the client withhold a copy, only limits too small for any alert.
CopySurvives ==
  sent # Idle /\ sent.hook = "copy" =>
    /\ Keys < privacy.maxKeys /\ Levels <= privacy.maxDepth => sent.value = Record(alert)
    /\ sent.value = Withheld => privacy.maxKeys < 14 \/ privacy.maxDepth < 2

\* "Exact rules.environment and rules.route matches can ignore an event" (docs/
\* CONFIGURATION.md:186-187): no alert is built for a request on the route of
\* the first rule, if that rule ignores it, whatever ids its path holds; as
\* long as no segment of the route itself looks like an id and the limits leave
\* room for the route.
IgnoredRouteStaysQuiet ==
  alert # <<>> /\ rules # <<>> /\ privacy.maxKeys > 2 /\ capture.request.method # "throws" =>
    LET route == capture.request.routePath
    IN ~ /\ rules[1].ignore /\ rules[1].here /\ rules[1].route = route
         /\ IsPath(route) /\ \A i \in DOMAIN route : route[i] \notin Dynamic
=============================================================================
