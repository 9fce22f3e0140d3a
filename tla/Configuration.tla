--------------------------- MODULE Configuration ---------------------------
(***************************************************************************)
(* A factory of the package is called: it makes settings of what it was    *)
(* given, or refuses it.                                                   *)
(***************************************************************************)
EXTENDS Settings

CONSTANT Options  \* what a factory may be given: any values, of any types

ASSUME OptionsAssumption ==
  \A options \in Options : options.factory \in
    {"client", "watcher", "observer", "telegram", "webhook"}

VARIABLES given, settings

configurationVars == <<given, settings>>

NotYet == [refused |-> "not yet"]

ConfigurationInit == given \in Options /\ settings = NotYet

\* A factory is called.
Configure ==
  /\ settings = NotYet
  /\ settings' = Validate(given.factory, given.values)
  /\ UNCHANGED given

ConfigurationSpec == ConfigurationInit /\ [][Configure]_configurationVars

-----------------------------------------------------------------------------
(* Properties.                                                             *)

\* A timer of more than 2^31 - 1 milliseconds fires at once.
LargestDelay == 214748364
Delays == {"notifierTimeoutMs", "intervalMs", "timeoutMs"}
Capacities == {"maxGroups", "maxEventsPerWindow", "maxPendingAlerts", "burst",
               "maxEventsPerSecond", "failureThreshold", "maxDepth", "maxKeys"}

\* "Invalid values fail before the application starts sending events" (docs/
\* CONFIGURATION.md:3-4): whatever a factory accepts, of any combination of
\* settings, is what the rest assumes: timers that really wait, room for one in
\* every queue, bucket and store, and a bound on what the groups hold.  An
\* unset burst is never above or below a second's worth of captures.
SettingsAreUsable ==
  settings # NotYet /\ ~IsRefused(settings) =>
    /\ \A path \in Delays \cap DOMAIN settings : settings[path] \in 1..LargestDelay
    /\ \A path \in Capacities \cap DOMAIN settings : settings[path] > 0
    /\ given.factory = "client" =>
         /\ settings["maxGroups"] * settings["maxEventsPerWindow"] <= 100000000
         /\ ValueAt(given.values, "burst") = Undefined
              => settings["burst"] = settings["maxEventsPerSecond"]
=============================================================================
