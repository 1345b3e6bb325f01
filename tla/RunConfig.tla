----------------------------- MODULE RunConfig -----------------------------
(***************************************************************************)
(* The run configuration of a service: what the LoadConfig, ChangeConfig,  *)
(* RunStop and ExportConfig alerts, buttons and commands do to the         *)
(* configuration held by Services, to the slow-control variables Config    *)
(* and NewConfig, and to the user's callbacks.                             *)
(*                                                                         *)
(* All handlers run in the one slow-control thread; "at" is where it is.   *)
(* A load talks to the database for a while and a callback is user code,   *)
(* so other threads may look on, and call ResetConfigIDs, in between.      *)
(***************************************************************************)
EXTENDS Naturals

CONSTANT Ids     \* <<base, run mode>> id pairs that name a configuration

NoId == "none"   \* the pair <<0, 0>>
Special == {"empty", "error", "user"}

ASSUME IdsOK == Ids \cap (Special \cup {NoId}) = {}

(* A configuration text: the one the database has under an id pair, none   *)
(* yet, the text of an error, or one made by the user.                     *)
Contents == Ids \cup Special

(* LoadConfigAlertFunc: while(count<5).                                    *)
MaxTries == 5

VARIABLES
  subscribed,    \* the callbacks that are in place
  config,        \* the Config variable shown to slow control
  new_config,    \* the NewConfig variable
  config_id,     \* m_base_config_id and m_run_mode_config_id
  testing,       \* Services::m_testing, of the configuration loaded last
  local_config,  \* m_local_config
  enforced,      \* SlowControlCollection::m_testing
  warning,       \* the Warning bit of the state word
  error,         \* the Error bit
  at,            \* where the slow-control thread is
  via,           \* alert, payload (an alert with one), button or command
  load,          \* the load it was asked for
  given,         \* the configuration it gives to the callback
  tries,         \* count of LoadConfigAlertFunc
  old_testing,   \* the same of the ChangeConfig alert callback
  applied,       \* external: what the user's code runs with
  changed_by,    \* history: the way of the last call of that callback
  due,           \* history: reset, and missed an alert or loaded since, but
                 \* not changed since
  replaced       \* history: the configuration held is one of SetLocalConfig

sharedVars == <<config, new_config, config_id, testing, local_config>>
flagVars == <<warning, error>>
localVars == <<load, given, tries, old_testing>>
threadVars == <<at, via, localVars>>
historyVars == <<applied, changed_by, due, replaced>>
vars == <<subscribed, sharedVars, enforced, flagVars, threadVars, historyVars>>

Callbacks == {"LoadConfig", "ChangeConfig", "RunStop", "ExportConfig"}
Load == [id : Ids \cup {NoId}, testing : BOOLEAN]
NoLoad == [id |-> NoId, testing |-> FALSE]
Alerts == {"alert", "payload"}

Init ==
  /\ subscribed = {}
  /\ config = "Unconfigured"
  /\ new_config = 0
  /\ config_id = NoId
  /\ testing \in BOOLEAN        \* the constructor leaves it uninitialised
  /\ local_config = "empty"
  /\ enforced = FALSE
  /\ warning = FALSE
  /\ error = FALSE
  /\ at = "idle"
  /\ via = "alert"
  /\ load = NoLoad
  /\ given = "empty"
  /\ tries = 0
  /\ old_testing = FALSE
  /\ applied = "none"
  /\ changed_by = "none"
  /\ due = "no"
  /\ replaced = FALSE

----------------------------------------------------------------------------
(* A handler begins, and returns with its local variables gone.            *)

Begin(where, way) ==
  /\ at = "idle"
  /\ at' = where
  /\ via' = way

Return ==
  /\ at' = "idle"
  /\ via' = "alert"
  /\ load' = NoLoad
  /\ given' = "empty"
  /\ tries' = 0
  /\ old_testing' = FALSE

----------------------------------------------------------------------------
(* Subscribing, and the resets.                                            *)

(* Services::Init and the three SetXFunc: AlertSubscribe and the controls. *)
(* The handler of an alert holds the table of alert functions.             *)
Subscribe(name) ==
  /\ name \notin subscribed
  /\ at # "idle" => via \notin Alerts
  /\ subscribed' = subscribed \cup {name}
  /\ UNCHANGED <<sharedVars, enforced, flagVars, threadVars, historyVars>>

ResetConfigIDs ==
  /\ config_id' = NoId
  /\ due' = "reset"

(* The same as a public function, called from a user's thread.             *)
UserReset ==
  /\ ResetConfigIDs
  /\ UNCHANGED <<subscribed, config, new_config, testing, local_config,
                 enforced, flagVars, threadVars, applied, changed_by, replaced>>

(* Called by the user's code, a callback for one, but not while a load     *)
(* writes the same string.                                                 *)
SetLocalConfig ==
  /\ at \in {"idle", "change", "stop"}
  /\ local_config' = "user"
  /\ replaced' = TRUE
  /\ UNCHANGED <<subscribed, config, new_config, config_id, testing, enforced,
                 flagVars, threadVars, applied, changed_by, due>>

(* The ClearState button.                                                  *)
ClearState ==
  /\ at = "idle"
  /\ warning' = FALSE
  /\ error' = FALSE
  /\ UNCHANGED <<subscribed, sharedVars, enforced, threadVars, historyVars>>

----------------------------------------------------------------------------
(* Loading.                                                                *)

(* A LoadConfig alert with a payload, or the LoadConfig command.           *)
BeginLoad(way, what) ==
  /\ "LoadConfig" \in subscribed
  /\ Begin("compare", way)
  /\ config' = "LoadStart"
  /\ load' = what
  /\ UNCHANGED <<subscribed, new_config, config_id, testing, local_config,
                 enforced, flagVars, given, tries, old_testing, historyVars>>

(* The alert before Services::Init has subscribed to it.                   *)
LoadTooEarly ==
  /\ at = "idle"
  /\ "LoadConfig" \notin subscribed
  /\ config' = "LoadStart"
  /\ UNCHANGED <<subscribed, new_config, config_id, testing, local_config,
                 enforced, flagVars, threadVars, historyVars>>

(* A LoadConfig alert without a payload: JsonParser is given a null        *)
(* pointer and throws.                                                     *)
LoadWithoutPayload ==
  /\ at = "idle"
  /\ "LoadConfig" \in subscribed
  /\ config' = "LoadStart"
  /\ error' = TRUE
  /\ UNCHANGED <<subscribed, new_config, config_id, testing, local_config,
                 enforced, warning, threadVars, historyVars>>

Loaded ==
  /\ at' = "loaded"
  /\ due' = IF due \in {"reset", "missed"} /\ load.id # NoId
              THEN "reloaded" ELSE due

(* The ids asked for are the ones already held: nothing is fetched.        *)
SkipLoad ==
  /\ at = "compare"
  /\ load.id = config_id
  /\ Loaded
  /\ UNCHANGED <<subscribed, sharedVars, enforced, flagVars, via, localVars,
                 applied, changed_by, replaced>>

(* The configuration held is the buffer of the answer, emptied first.      *)
BeginFetch ==
  /\ at = "compare"
  /\ load.id # config_id
  /\ at' = "fetch"
  /\ local_config' = "empty" /\ replaced' = FALSE
  /\ UNCHANGED <<subscribed, config, new_config, config_id, testing, enforced,
                 flagVars, via, localVars, applied, changed_by, due>>

(* Faulty: the attempts are not counted. *)
FetchFailsForever ==
  /\ at = "fetch"
  /\ local_config' = "error"
  /\ UNCHANGED <<subscribed, config, new_config, config_id, testing, enforced,
                 flagVars, at, via, localVars, historyVars>>

(* Faulty: one attempt too many. *)
FetchFailsOnceMore ==
  /\ at = "fetch"
  /\ local_config' = "error"
  /\ tries' = tries + 1
  /\ at' = IF tries' > MaxTries THEN "load_failed" ELSE at
  /\ UNCHANGED <<subscribed, config, new_config, config_id, testing, enforced,
                 flagVars, via, load, given, old_testing, historyVars>>

(* GetCachedDeviceConfig fails and leaves the error text in m_local_config.*)
FetchFails ==
  /\ at = "fetch"
  /\ local_config' = "error"
  /\ tries' = tries + 1
  /\ at' = IF tries' = MaxTries THEN "load_failed" ELSE at
  /\ UNCHANGED <<subscribed, config, new_config, config_id, testing, enforced,
                 flagVars, via, load, given, old_testing, historyVars>>

(* It returns the configuration asked for: take it, its ids and its        *)
(* testing flag, and raise NewConfig.                                      *)
Fetched ==
  /\ at = "fetch"
  /\ load.id \in Ids
  /\ local_config' = load.id
  /\ new_config' = 1
  /\ config_id' = load.id
  /\ testing' = load.testing
  /\ Loaded
  /\ UNCHANGED <<subscribed, config, enforced, flagVars, via, localVars,
                 applied, changed_by, replaced>>

EndLoad ==
  /\ at \in {"loaded", "load_failed"}
  /\ Return
  /\ config' = IF at = "loaded" THEN "LoadEnd" ELSE "LoadFail"
  /\ error' = (error \/ (at = "load_failed" /\ via \in Alerts))
  /\ UNCHANGED <<subscribed, new_config, config_id, testing, local_config,
                 enforced, warning, historyVars>>

----------------------------------------------------------------------------
(* Changing.  The callback returns true, returns false or throws.          *)

Outcomes == {"true", "false", "throws"}

(* The ChangeConfig alert; it is ignored while NewConfig is 0.             *)
ChangeAlert(way) ==
  /\ new_config = 1
  /\ "ChangeConfig" \in subscribed
  /\ Begin("change", way)
  /\ config' = "ChangeStart"
  /\ given' = local_config
  /\ old_testing' = enforced
  /\ enforced' = testing
  /\ UNCHANGED <<subscribed, new_config, config_id, testing, local_config,
                 flagVars, load, tries, historyVars>>

(* The alert while NewConfig is 0: the handler returns.                    *)
ChangeIgnored ==
  /\ at = "idle"
  /\ new_config = 0
  /\ due' = IF due = "reset" THEN "missed" ELSE due
  /\ UNCHANGED <<subscribed, sharedVars, enforced, flagVars, threadVars,
                 applied, changed_by, replaced>>

(* The alert when nobody has subscribed to it.                             *)
ChangeUnheard ==
  /\ at = "idle"
  /\ new_config = 1
  /\ "ChangeConfig" \notin subscribed
  /\ config' = "ChangeStart"
  /\ UNCHANGED <<subscribed, new_config, config_id, testing, local_config,
                 enforced, flagVars, threadVars, historyVars>>

BeginChange(way, content) ==
  /\ "ChangeConfig" \in subscribed
  /\ Begin("change", way)
  /\ config' = "ChangeStart"
  /\ given' = content
  /\ UNCHANGED <<subscribed, new_config, config_id, testing, local_config,
                 enforced, flagVars, load, tries, old_testing, historyVars>>

(* The ChangeConfig button.                                                *)
ChangeButton == BeginChange("button", local_config)

(* The ChangeToConfig command; Update refuses it while it is locked.       *)
ChangeToConfig(content) == ~enforced /\ BeginChange("command", content)

(* What the caller of the callback makes of its outcome.                   *)
Called(outcome) ==
  /\ at = "change"
  /\ Return
  /\ applied' = IF outcome = "true" THEN given ELSE "unknown"
  /\ changed_by' = via
  /\ UNCHANGED <<subscribed, testing>>

Consumed == new_config' = 0 /\ due' = "no"

EndState(outcome) == IF outcome = "true" THEN "ChangeEnd" ELSE "ChangeFail"

(* In the alert handler: an alert with a payload is not reported.          *)
EndChangeAlert(outcome) ==
  /\ via \in Alerts
  /\ Called(outcome)
  /\ enforced' = IF outcome = "false" THEN old_testing ELSE enforced
  /\ warning' = (warning \/ outcome = "false")
  /\ error' = (error \/ outcome # "true")
  /\ IF via = "alert"
       THEN config' = EndState(outcome) /\ Consumed
       ELSE UNCHANGED <<config, new_config, due>>
  /\ UNCHANGED <<config_id, local_config, replaced>>

(* Faulty: the button leaves the lock as it was. *)
EndChangeButtonKeepsLock(outcome) ==
  /\ via = "button"
  /\ Called(outcome)
  /\ warning' = (warning \/ outcome # "true")
  /\ IF outcome = "throws"
       THEN UNCHANGED <<config, new_config, due>>
       ELSE config' = EndState(outcome) /\ Consumed
  /\ UNCHANGED <<config_id, local_config, replaced, enforced, error>>

(* In the button: an exception leaves ChangeStart behind.                  *)
EndChangeButton(outcome) ==
  /\ via = "button"
  /\ Called(outcome)
  /\ enforced' = IF outcome = "true" THEN testing ELSE enforced
  /\ warning' = (warning \/ outcome # "true")
  /\ IF outcome = "throws"
       THEN UNCHANGED <<config, new_config, due>>
       ELSE config' = EndState(outcome) /\ Consumed
  /\ UNCHANGED <<config_id, local_config, replaced, error>>

(* A configuration made elsewhere replaces the one held, and has no ids.   *)
Adopt(content) ==
  IF content # local_config
    THEN local_config' = content /\ config_id' = NoId /\ replaced' = FALSE
    ELSE UNCHANGED <<local_config, config_id, replaced>>

(* Faulty: it does not replace the one held. *)
EndChangeToConfigKeepsLocal(outcome) ==
  /\ via = "command"
  /\ Called(outcome)
  /\ warning' = (warning \/ outcome # "true")
  /\ config' = IF outcome = "throws" THEN config ELSE EndState(outcome)
  /\ UNCHANGED <<local_config, config_id, replaced, new_config, enforced, error, due>>

(* In the command: NewConfig is left alone.                                *)
EndChangeToConfig(outcome) ==
  /\ via = "command"
  /\ Called(outcome)
  /\ IF outcome = "true" THEN Adopt(given)
                         ELSE UNCHANGED <<local_config, config_id, replaced>>
  /\ warning' = (warning \/ outcome # "true")
  /\ config' = IF outcome = "throws" THEN config ELSE EndState(outcome)
  /\ UNCHANGED <<new_config, enforced, error, due>>

----------------------------------------------------------------------------
(* Stopping and exporting.                                                 *)

(* Faulty: only the callback is called. *)
BeginStopOnly(way) ==
  /\ "RunStop" \in subscribed
  /\ Begin("stop", way)
  /\ due' = "reset"
  /\ UNCHANGED <<subscribed, sharedVars, enforced, flagVars, localVars,
                 applied, changed_by, replaced>>

(* The RunStop alert or button: reset, then call the callback.             *)
BeginStop(way) ==
  /\ "RunStop" \in subscribed
  /\ Begin("stop", way)
  /\ ResetConfigIDs
  /\ UNCHANGED <<subscribed, config, new_config, testing, local_config,
                 enforced, flagVars, localVars, applied, changed_by, replaced>>

EndStop(outcome) ==
  /\ at = "stop"
  /\ Return
  /\ warning' = (warning \/ outcome = "false"
                   \/ (outcome = "throws" /\ via = "button"))
  /\ error' = (error \/ (outcome # "true" /\ via \in Alerts))
  /\ config' = IF via = "button" /\ outcome # "throws"
                 THEN "Unconfigured" ELSE config
  /\ UNCHANGED <<subscribed, new_config, config_id, testing, local_config,
                 enforced, historyVars>>

(* Faulty: the exported configuration is held under the old ids. *)
ExportUnderOldIds(content) ==
  /\ at = "idle"
  /\ "ExportConfig" \in subscribed
  /\ local_config' = content
  /\ applied' = content
  /\ UNCHANGED <<subscribed, config, new_config, config_id, testing, enforced,
                 flagVars, threadVars, changed_by, due, replaced>>

(* The callback of ExportConfig hands out the configuration the user's     *)
(* code runs with ...                                                      *)
Export(content) ==
  /\ at = "idle"
  /\ "ExportConfig" \in subscribed
  /\ Adopt(content)
  /\ applied' = content
  /\ UNCHANGED <<subscribed, config, new_config, testing, enforced, flagVars,
                 threadVars, changed_by, due>>

(* ... or fails.                                                           *)
ExportFails(way, outcome) ==
  /\ at = "idle"
  /\ "ExportConfig" \in subscribed
  /\ outcome # "true"
  /\ warning' = (warning \/ outcome = "false" \/ way = "button")
  /\ error' = (error \/ way = "alert")
  /\ UNCHANGED <<subscribed, sharedVars, enforced, threadVars, historyVars>>

----------------------------------------------------------------------------

Requests ==
  \/ \E what \in Load, way \in {"payload", "command"} : BeginLoad(way, what)
  \/ LoadTooEarly \/ LoadWithoutPayload
  \/ \E way \in Alerts : ChangeAlert(way)
  \/ ChangeIgnored \/ ChangeUnheard
  \/ ChangeButton
  \/ \E content \in Ids \cup {"user"} : ChangeToConfig(content)
  \/ \E way \in {"alert", "button"} : BeginStop(way)
  \/ \E content \in Ids \cup {"user"} : Export(content)
  \/ \E way \in {"alert", "button"}, outcome \in Outcomes :
       ExportFails(way, outcome)
  \/ ClearState

Handling ==
  \/ SkipLoad \/ BeginFetch \/ FetchFails \/ Fetched \/ EndLoad
  \/ \E outcome \in Outcomes :
       \/ EndChangeAlert(outcome) \/ EndChangeButton(outcome)
       \/ EndChangeToConfig(outcome) \/ EndStop(outcome)

Next ==
  \/ \E name \in Callbacks : Subscribe(name)
  \/ UserReset
  \/ SetLocalConfig
  \/ Requests
  \/ Handling

(* The slow-control thread goes on with what it has begun: a call of the   *)
(* database returns within its timeout, and callbacks are taken to return. *)
Spec == Init /\ [][Next]_vars /\ WF_vars(Handling)

----------------------------------------------------------------------------
(* Properties.                                                             *)

ConfigStates == {"Unconfigured", "LoadStart", "LoadEnd", "LoadFail",
                 "ChangeStart", "ChangeEnd", "ChangeFail"}

(* Every variable keeps its type, and a handler has what it was called     *)
(* with.                                                                   *)
TypeOK ==
  /\ subscribed \subseteq Callbacks
  /\ config \in ConfigStates
  /\ new_config \in {0, 1}
  /\ config_id \in Ids \cup {NoId}
  /\ testing \in BOOLEAN
  /\ local_config \in Contents
  /\ enforced \in BOOLEAN
  /\ warning \in BOOLEAN
  /\ error \in BOOLEAN
  /\ at \in {"idle", "compare", "fetch", "loaded", "load_failed", "change",
            "stop"}
  /\ via \in {"alert", "payload", "button", "command"}
  /\ load \in Load
  /\ given \in Contents
  /\ tries \in 0 .. MaxTries
  /\ at = "fetch" => tries < MaxTries
  /\ old_testing \in BOOLEAN
  /\ applied \in Contents \cup {"none", "unknown"}
  /\ changed_by \in {"none", "alert", "payload", "button", "command"}
  /\ due \in {"no", "reset", "missed", "reloaded"}
  /\ replaced \in BOOLEAN

(* The ids never stand for another configuration than the one held: a      *)
(* service that exported, or was changed to, some other configuration does *)
(* not skip the load of the one it had before, unless it replaced it by    *)
(* SetLocalConfig.  (While it fetches, the answer is written over it, and  *)
(* after a failed load the ids are those of before, and the error text is  *)
(* held.)                                                                  *)
IdsDescribeConfig ==
  config_id # NoId /\ at # "fetch" /\ ~replaced =>
    local_config \in {config_id, "error"}

(* While Config says ChangeEnd, the configuration held, and shown to slow  *)
(* control as LocalConfig, is the one the user's code runs with, unless    *)
(* SetLocalConfig has replaced it.                                         *)
ChangeEndIsApplied == config = "ChangeEnd" /\ ~replaced => applied = local_config

(* While Config says ChangeEnd after an alert or the button, the lock on   *)
(* slow controls is that of the configuration loaded last, whatever was    *)
(* refused, failed or reverted before.                                     *)
LockIsOfLoadedConfig ==
  config = "ChangeEnd" /\ changed_by \in {"alert", "button"}
    => enforced = testing

(* After a RunStop and a load that was reported as done, the ChangeConfig  *)
(* alert reaches the callback, whatever was loaded before the stop.        *)
RestartReachesCallback == due = "reloaded" => new_config = 1

(* Every load the thread has begun is reported as done or failed.          *)
LoadIsReported ==
  at = "compare" ~> at = "idle" /\ config \in {"LoadEnd", "LoadFail"}

----------------------------------------------------------------------------
(* Refinement.                                                             *)

Doing == IF at = "idle" THEN "nothing"
         ELSE IF at \in {"change", "stop"} THEN at
         ELSE "load"

Control == INSTANCE RunControl
             WITH Texts <- Contents, shown <- config, doing <- Doing,
                  held <- local_config, running <- applied, own <- replaced,
                  pending <- new_config = 1

(* Runs are controlled as RunControl says, whichever alert, button or      *)
(* command asks, and whatever the database and the callbacks do.           *)
ImplementsRunControl == Control!Spec

----------------------------------------------------------------------------
(* What comments of the code say, and the code does not do.                *)

(* "reset the active configuration numbers so that the next ChangeConfig   *)
(* alert will invoke the callback" (ResetConfigIDs): a service that was    *)
(* changed by an alert to a configuration it had loaded, and then reset,   *)
(* has not ignored a ChangeConfig alert since.                             *)
ResetLetsAlertThrough ==
  changed_by = "alert" /\ applied \in Ids => due # "missed"

============================================================================
