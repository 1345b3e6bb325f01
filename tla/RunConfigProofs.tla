-------------------------- MODULE RunConfigProofs --------------------------
(***************************************************************************)
(* Proofs about RunConfig, for any set of configuration ids.               *)
(***************************************************************************)
EXTENDS RunConfig, TLAPS

----------------------------------------------------------------------------
(* Type correctness, which needs that a load begins with no attempt made.  *)

CountInv == at \in {"idle", "compare", "change", "stop"} => tries = 0

TypeInv == TypeOK /\ CountInv

LEMMA NoLoadIsLoad == NoLoad \in Load
BY DEF NoLoad, Load

LEMMA TypeInvInit == Init => TypeInv
<1> SUFFICES ASSUME Init PROVE TypeInv
  OBVIOUS
<1>1. NoLoad \in Load
  BY NoLoadIsLoad
<1>2. /\ testing \in BOOLEAN /\ enforced \in BOOLEAN /\ warning \in BOOLEAN
      /\ error \in BOOLEAN /\ old_testing \in BOOLEAN /\ replaced \in BOOLEAN
  BY DEF Init
<1> QED
  BY <1>1, <1>2 DEF Init, TypeInv, TypeOK, CountInv, ConfigStates, Contents, Special,
              MaxTries

LEMMA TypeInvRequests == TypeInv /\ Requests => TypeInv'
<1> SUFFICES ASSUME TypeInv, Requests PROVE TypeInv'
  OBVIOUS
<1> USE DEF TypeInv, TypeOK, CountInv, ConfigStates, Callbacks, Contents,
            Special, Alerts, sharedVars, flagVars, localVars, threadVars, historyVars, Begin
<1>1. ASSUME NEW what \in Load, NEW way \in {"payload", "command"},
             BeginLoad(way, what)
      PROVE  TypeInv'
  BY <1>1 DEF BeginLoad
<1>2. CASE LoadTooEarly
  BY <1>2 DEF LoadTooEarly
<1>3. CASE LoadWithoutPayload
  BY <1>3 DEF LoadWithoutPayload
<1>4. ASSUME NEW way \in Alerts, ChangeAlert(way)
      PROVE  TypeInv'
  BY <1>4 DEF ChangeAlert
<1>5. CASE ChangeIgnored \/ ChangeUnheard
  <2>1. CASE ChangeIgnored
    <3>1. due' \in {"no", "reset", "missed", "reloaded"}
      BY <2>1 DEF ChangeIgnored
    <3> QED
      BY <2>1, <3>1 DEF ChangeIgnored
  <2>2. CASE ChangeUnheard
    BY <2>2 DEF ChangeUnheard
  <2> QED
    BY <1>5, <2>1, <2>2
<1>6. CASE ChangeButton
  BY <1>6 DEF ChangeButton, BeginChange
<1>7. ASSUME NEW content \in Ids \cup {"user"}, ChangeToConfig(content)
      PROVE  TypeInv'
  BY <1>7 DEF ChangeToConfig, BeginChange
<1>8. ASSUME NEW way \in {"alert", "button"}, BeginStop(way)
      PROVE  TypeInv'
  BY <1>8 DEF BeginStop, ResetConfigIDs
<1>9. ASSUME NEW content \in Ids \cup {"user"}, Export(content)
      PROVE  TypeInv'
  <2>1. replaced' \in BOOLEAN
    BY <1>9 DEF Export, Adopt
  <2> QED
    BY <1>9, <2>1 DEF Export, Adopt
<1>10. ASSUME NEW way \in {"alert", "button"}, NEW outcome \in Outcomes,
              ExportFails(way, outcome)
       PROVE  TypeInv'
  BY <1>10 DEF ExportFails
<1>11. CASE ClearState
  <2>1. warning' \in BOOLEAN /\ error' \in BOOLEAN
    BY <1>11 DEF ClearState
  <2> QED
    BY <1>11, <2>1 DEF ClearState
<1> QED
  BY <1>1, <1>2, <1>3, <1>4, <1>5, <1>6, <1>7, <1>8, <1>9, <1>10, <1>11
  DEF Requests

LEMMA TypeInvHandling == TypeInv /\ Handling => TypeInv'
<1> SUFFICES ASSUME TypeInv, Handling PROVE TypeInv'
  OBVIOUS
<1> USE DEF TypeInv, TypeOK, CountInv, ConfigStates, Contents, Special, Alerts, sharedVars,
            flagVars, localVars, threadVars, historyVars, Return
<1>1. CASE SkipLoad
  BY <1>1 DEF SkipLoad, Loaded
<1>2. CASE BeginFetch
  <2>1. /\ replaced' \in BOOLEAN /\ testing' \in BOOLEAN /\ enforced' \in BOOLEAN
        /\ warning' \in BOOLEAN /\ error' \in BOOLEAN /\ old_testing' \in BOOLEAN
    BY <1>2 DEF BeginFetch
  <2> QED
    BY <1>2, <2>1 DEF BeginFetch, MaxTries
<1>3. CASE FetchFails
  BY <1>3 DEF FetchFails, MaxTries
<1>4. CASE Fetched
  <2>1. testing' \in BOOLEAN
    BY <1>4 DEF Fetched, Load
  <2> QED
    BY <1>4, <2>1 DEF Fetched, Loaded
<1>5. CASE EndLoad
  <2>1. warning' \in BOOLEAN /\ error' \in BOOLEAN
    BY <1>5 DEF EndLoad
  <2>2. old_testing' \in BOOLEAN /\ load' \in Load
    BY <1>5, NoLoadIsLoad DEF EndLoad
  <2> QED
    BY <1>5, <2>1, <2>2 DEF EndLoad, MaxTries
<1>6. ASSUME NEW outcome \in Outcomes, EndChangeAlert(outcome)
      PROVE  TypeInv'
  BY <1>6, NoLoadIsLoad DEF EndChangeAlert, Called, Consumed, EndState, MaxTries
<1>7. ASSUME NEW outcome \in Outcomes, EndChangeButton(outcome)
      PROVE  TypeInv'
  BY <1>7, NoLoadIsLoad DEF EndChangeButton, Called, Consumed, EndState, MaxTries
<1>8. ASSUME NEW outcome \in Outcomes, EndChangeToConfig(outcome)
      PROVE  TypeInv'
  BY <1>8, NoLoadIsLoad DEF EndChangeToConfig, Called, Adopt, EndState, MaxTries
<1>9. ASSUME NEW outcome \in Outcomes, EndStop(outcome)
      PROVE  TypeInv'
  <2>1. /\ warning' \in BOOLEAN /\ error' \in BOOLEAN
        /\ old_testing' \in BOOLEAN
    BY <1>9 DEF EndStop
  <2> QED
    BY <1>9, <2>1, NoLoadIsLoad DEF EndStop, MaxTries
<1> QED
  BY <1>1, <1>2, <1>3, <1>4, <1>5, <1>6, <1>7, <1>8, <1>9 DEF Handling

LEMMA TypeInvStep == TypeInv /\ [Next]_vars => TypeInv'
<1> SUFFICES ASSUME TypeInv, [Next]_vars PROVE TypeInv'
  OBVIOUS
<1> USE DEF TypeInv, TypeOK, CountInv, sharedVars, flagVars, localVars,
            threadVars, historyVars
<1>1. ASSUME NEW name \in Callbacks, Subscribe(name)
      PROVE  TypeInv'
  BY <1>1 DEF Subscribe
<1>2. CASE UserReset
  BY <1>2 DEF UserReset, ResetConfigIDs
<1>3. CASE UNCHANGED vars
  BY <1>3 DEF vars
<1>4. CASE SetLocalConfig
  BY <1>4 DEF SetLocalConfig, Contents, Special
<1> QED
  BY <1>1, <1>2, <1>3, <1>4, TypeInvRequests, TypeInvHandling DEF Next

THEOREM TypeInvariant == Spec => []TypeInv
BY TypeInvInit, TypeInvStep, PTL DEF Spec

(* Every variable of the run configuration keeps its type, and a load gives *)
(* up after MaxTries attempts (LoadConfigAlertFunc).                       *)
THEOREM TypeCorrect == Spec => []TypeOK
<1>1. TypeInv => TypeOK
  BY DEF TypeInv
<1> QED
  BY <1>1, TypeInvariant, PTL

----------------------------------------------------------------------------
(* The ids and the configuration held.  Every step that replaces the       *)
(* configuration sets the ids to its own, clears them, or fails.           *)

LEMMA IdsStep == TypeInv /\ IdsDescribeConfig /\ [Next]_vars => IdsDescribeConfig'
<1> SUFFICES ASSUME TypeInv, IdsDescribeConfig, [Next]_vars
             PROVE  IdsDescribeConfig'
  OBVIOUS
<1> USE DEF IdsDescribeConfig, sharedVars, historyVars
<1>1. CASE UserReset
  BY <1>1 DEF UserReset, ResetConfigIDs
<1>2. CASE BeginFetch \/ FetchFails
  BY <1>2 DEF BeginFetch, FetchFails
<1>3. CASE Fetched
  BY <1>3 DEF Fetched
<1>4. ASSUME NEW outcome \in Outcomes, EndChangeToConfig(outcome)
      PROVE  IdsDescribeConfig'
  BY <1>4 DEF EndChangeToConfig, Called, Adopt
<1>5. ASSUME NEW way, BeginStop(way)
      PROVE  IdsDescribeConfig'
  BY <1>5 DEF BeginStop, ResetConfigIDs
<1>6. ASSUME NEW content, Export(content)
      PROVE  IdsDescribeConfig'
  BY <1>6 DEF Export, Adopt
<1>7. CASE UNCHANGED <<config_id, local_config, replaced>> /\ (at = "fetch" => at' = at)
  BY <1>7
<1>8. ASSUME NEW name \in Callbacks, Subscribe(name)
      PROVE  IdsDescribeConfig'
  BY <1>7, <1>8 DEF Subscribe, threadVars
<1>9. CASE Requests
  BY <1>9, <1>5, <1>6, <1>7
  DEF Requests, BeginLoad, LoadTooEarly, LoadWithoutPayload, ChangeAlert,
      ChangeIgnored, ChangeUnheard, ChangeButton, ChangeToConfig, BeginChange, ExportFails,
      ClearState, Begin, threadVars
<1>10. CASE Handling
  BY <1>10, <1>2, <1>3, <1>4, <1>7
  DEF Handling, SkipLoad, Loaded, EndLoad, EndChangeAlert, EndChangeButton,
      EndStop, Called
<1>11. CASE UNCHANGED vars
  BY <1>11, <1>7 DEF vars, threadVars
<1>12. CASE SetLocalConfig
  BY <1>12 DEF SetLocalConfig
<1> QED
  BY <1>1, <1>8, <1>9, <1>10, <1>11, <1>12 DEF Next

(* The ids are those of the configuration held, or the text of an error is *)
(* held (ExportConfig, ChangeToConfig, GetCachedDeviceConfig).             *)
THEOREM IdsMatch == Spec => []IdsDescribeConfig
<1>1. Init => IdsDescribeConfig
  BY DEF Init, IdsDescribeConfig
<1> QED
  BY <1>1, IdsStep, TypeInvariant, PTL DEF Spec

----------------------------------------------------------------------------
(* What a handler relies on while it waits for the database or for a       *)
(* callback: nobody else changes Config or the locks, nor, but for         *)
(* SetLocalConfig, the configuration held.                                 *)

HandlerInv ==
  /\ at \in {"compare", "fetch", "loaded", "load_failed"}
       => config = "LoadStart"
  /\ at = "change"
       => /\ config = "ChangeStart"
          /\ via # "command" /\ ~replaced => given = local_config
          /\ via \in Alerts => enforced = testing

LEMMA HandlerRequests ==
  TypeInv /\ HandlerInv /\ Requests => HandlerInv'
<1> SUFFICES ASSUME TypeInv, HandlerInv, Requests PROVE HandlerInv'
  OBVIOUS
<1> USE DEF HandlerInv, Begin, Alerts, sharedVars, flagVars, localVars,
            threadVars, historyVars
<1>1. ASSUME NEW what \in Load, NEW way \in {"payload", "command"},
             BeginLoad(way, what)
      PROVE  HandlerInv'
  BY <1>1 DEF BeginLoad
<1>2. CASE \/ LoadTooEarly \/ LoadWithoutPayload \/ ChangeIgnored
           \/ ChangeUnheard \/ ClearState
  BY <1>2
  DEF LoadTooEarly, LoadWithoutPayload, ChangeIgnored, ChangeUnheard, ClearState
<1>3. ASSUME NEW way \in Alerts, ChangeAlert(way)
      PROVE  HandlerInv'
  BY <1>3 DEF ChangeAlert
<1>4. CASE ChangeButton
  BY <1>4 DEF ChangeButton, BeginChange
<1>5. ASSUME NEW content \in Ids \cup {"user"}, ChangeToConfig(content)
      PROVE  HandlerInv'
  BY <1>5 DEF ChangeToConfig, BeginChange
<1>6. ASSUME NEW way \in {"alert", "button"}, BeginStop(way)
      PROVE  HandlerInv'
  BY <1>6 DEF BeginStop
<1>7. ASSUME NEW content \in Ids \cup {"user"}, Export(content)
      PROVE  HandlerInv'
  BY <1>7 DEF Export
<1>8. ASSUME NEW way \in {"alert", "button"}, NEW outcome \in Outcomes,
             ExportFails(way, outcome)
      PROVE  HandlerInv'
  BY <1>8 DEF ExportFails
<1> QED
  BY <1>1, <1>2, <1>3, <1>4, <1>5, <1>6, <1>7, <1>8 DEF Requests

LEMMA HandlerStep ==
  TypeInv /\ HandlerInv /\ [Next]_vars => HandlerInv'
<1> SUFFICES ASSUME TypeInv, HandlerInv, [Next]_vars PROVE HandlerInv'
  OBVIOUS
<1> USE DEF HandlerInv, sharedVars, flagVars, localVars, threadVars,
            historyVars
<1>1. CASE SkipLoad \/ BeginFetch \/ FetchFails
  BY <1>1 DEF SkipLoad, BeginFetch, FetchFails, Loaded, MaxTries
<1>2. CASE Fetched
  BY <1>2 DEF Fetched, Loaded
<1>3. ASSUME at' = "idle"
      PROVE  HandlerInv'
  BY <1>3
<1>4. CASE Handling
  BY <1>1, <1>2, <1>3, <1>4
  DEF Handling, EndLoad, EndChangeAlert, EndChangeButton, EndChangeToConfig,
      EndStop, Called, Return
<1>5. ASSUME NEW name \in Callbacks, Subscribe(name)
      PROVE  HandlerInv'
  BY <1>5 DEF Subscribe
<1>6. CASE UserReset
  BY <1>6 DEF UserReset
<1>7. CASE UNCHANGED vars
  BY <1>7 DEF vars
<1>8. CASE SetLocalConfig
  BY <1>8 DEF SetLocalConfig
<1> QED
  BY <1>4, <1>5, <1>6, <1>7, <1>8, HandlerRequests DEF Next

THEOREM HandlerInvariant == Spec => []HandlerInv
<1>1. Init => HandlerInv
  BY DEF Init, HandlerInv
<1> QED
  BY <1>1, HandlerStep, TypeInvariant, PTL DEF Spec

----------------------------------------------------------------------------
(* What ChangeEnd reports.  Only the three ends of a change set it, each   *)
(* with what its handler has kept; while it stands, only an export changes *)
(* the configuration held, and it says what the user's code runs with.     *)

ReportInv == ChangeEndIsApplied /\ LockIsOfLoadedConfig

LEMMA ReportRequests ==
  TypeInv /\ ReportInv /\ Requests => ReportInv'
<1> SUFFICES ASSUME TypeInv, ReportInv, Requests PROVE ReportInv'
  OBVIOUS
<1> USE DEF ReportInv, ChangeEndIsApplied, LockIsOfLoadedConfig, sharedVars,
            flagVars, localVars, threadVars, historyVars
<1>1. ASSUME config' # "ChangeEnd"
      PROVE  ReportInv'
  BY <1>1
<1>2. CASE UNCHANGED <<config, applied, local_config, changed_by, enforced,
                       testing, replaced>>
  BY <1>2
<1>3. ASSUME NEW content \in Ids \cup {"user"}, Export(content)
      PROVE  ReportInv'
  BY <1>3 DEF Export, Adopt
<1> QED
  BY <1>1, <1>2, <1>3
  DEF Requests, BeginLoad, LoadTooEarly, LoadWithoutPayload, ChangeAlert,
      ChangeIgnored, ChangeUnheard, ChangeButton, ChangeToConfig, BeginChange, BeginStop,
      ResetConfigIDs, ExportFails, ClearState

LEMMA ReportHandling ==
  TypeInv /\ HandlerInv /\ ReportInv /\ Handling => ReportInv'
<1> SUFFICES ASSUME TypeInv, HandlerInv, ReportInv, Handling
             PROVE  ReportInv'
  OBVIOUS
<1> USE DEF HandlerInv, ReportInv, ChangeEndIsApplied, LockIsOfLoadedConfig,
            Alerts, sharedVars, flagVars, localVars
<1>1. ASSUME config' # "ChangeEnd"
      PROVE  ReportInv'
  BY <1>1
<1>2. CASE SkipLoad \/ BeginFetch \/ FetchFails \/ Fetched
  BY <1>1, <1>2 DEF SkipLoad, BeginFetch, FetchFails, Fetched
<1>3. CASE EndLoad
  BY <1>1, <1>3 DEF EndLoad
<1>4. ASSUME NEW outcome \in Outcomes, EndChangeAlert(outcome)
      PROVE  ReportInv'
  BY <1>4 DEF EndChangeAlert, Called, EndState
<1>5. ASSUME NEW outcome \in Outcomes, EndChangeButton(outcome)
      PROVE  ReportInv'
  BY <1>5 DEF EndChangeButton, Called, EndState
<1>6. ASSUME NEW outcome \in Outcomes, EndChangeToConfig(outcome)
      PROVE  ReportInv'
  BY <1>6 DEF EndChangeToConfig, Called, EndState, Adopt
<1>7. ASSUME NEW outcome \in Outcomes, EndStop(outcome)
      PROVE  ReportInv'
  BY <1>1, <1>7 DEF EndStop, historyVars
<1> QED
  BY <1>2, <1>3, <1>4, <1>5, <1>6, <1>7 DEF Handling

LEMMA ReportStep ==
  TypeInv /\ HandlerInv /\ ReportInv /\ [Next]_vars => ReportInv'
<1> SUFFICES ASSUME TypeInv, HandlerInv, ReportInv, [Next]_vars
             PROVE  ReportInv'
  OBVIOUS
<1>1. CASE UNCHANGED <<config, applied, local_config, changed_by, enforced,
                       testing, replaced>>
  BY <1>1 DEF ReportInv, ChangeEndIsApplied, LockIsOfLoadedConfig
<1>2. ASSUME NEW name \in Callbacks, Subscribe(name)
      PROVE  ReportInv'
  BY <1>1, <1>2 DEF Subscribe, sharedVars, historyVars
<1>3. CASE UserReset
  BY <1>1, <1>3 DEF UserReset
<1>4. CASE UNCHANGED vars
  BY <1>1, <1>4 DEF vars, sharedVars, historyVars
<1>5. CASE SetLocalConfig
  BY <1>5
  DEF SetLocalConfig, ReportInv, ChangeEndIsApplied, LockIsOfLoadedConfig
<1> QED
  BY <1>2, <1>3, <1>4, <1>5, ReportRequests, ReportHandling DEF Next

LEMMA ReportInvariant == Spec => []ReportInv
<1>1. Init => ReportInv
  BY DEF Init, ReportInv, ChangeEndIsApplied, LockIsOfLoadedConfig
<1> QED
  BY <1>1, ReportStep, TypeInvariant, HandlerInvariant, PTL DEF Spec

(* ChangeEnd is only shown while the user's code runs with the             *)
(* configuration held (the alert handler, the button and the command).     *)
THEOREM ChangeEndApplied == Spec => []ChangeEndIsApplied
<1>1. ReportInv => ChangeEndIsApplied
  BY DEF ReportInv
<1> QED
  BY <1>1, ReportInvariant, PTL

(* After an alert or the button, ChangeEnd is only shown while the lock is *)
(* that of the configuration loaded last (SetTesting, EnforceTesting).     *)
THEOREM LockMatches == Spec => []LockIsOfLoadedConfig
<1>1. ReportInv => LockIsOfLoadedConfig
  BY DEF ReportInv
<1> QED
  BY <1>1, ReportInvariant, PTL

----------------------------------------------------------------------------
(* Restarting.  The ids are gone after a reset, until a load sets them and *)
(* NewConfig with them; so the load after it cannot be skipped.            *)

RestartInv == RestartReachesCallback /\ (due \in {"reset", "missed"} => config_id = NoId)

LEMMA RestartStep == RestartInv /\ [Next]_vars => RestartInv'
<1> SUFFICES ASSUME RestartInv, [Next]_vars PROVE RestartInv'
  OBVIOUS
<1> USE DEF RestartInv, RestartReachesCallback, sharedVars, historyVars
<1>1. CASE UNCHANGED <<due, config_id, new_config>>
  BY <1>1
<1>2. ASSUME NEW way, BeginStop(way)
      PROVE  RestartInv'
  BY <1>2 DEF BeginStop, ResetConfigIDs
<1>3. ASSUME NEW content, Export(content)
      PROVE  RestartInv'
  BY <1>3 DEF Export, Adopt
<1>4. CASE Requests
  BY <1>1, <1>2, <1>3, <1>4
  DEF Requests, BeginLoad, LoadTooEarly, LoadWithoutPayload, ChangeAlert,
      ChangeIgnored, ChangeUnheard, ChangeButton, ChangeToConfig, BeginChange, ExportFails,
      ClearState
<1>5. CASE SkipLoad
  BY <1>5 DEF SkipLoad, Loaded
<1>6. CASE Fetched
  BY <1>6 DEF Fetched, Loaded
<1>7. ASSUME NEW outcome \in Outcomes,
             \/ EndChangeAlert(outcome) \/ EndChangeButton(outcome)
             \/ EndChangeToConfig(outcome)
      PROVE  RestartInv'
  BY <1>7
  DEF EndChangeAlert, EndChangeButton, EndChangeToConfig, Consumed, Adopt
<1>8. CASE Handling
  BY <1>1, <1>5, <1>6, <1>7, <1>8
  DEF Handling, BeginFetch, FetchFails, EndLoad, EndStop
<1>9. CASE UserReset
  BY <1>9 DEF UserReset, ResetConfigIDs
<1>10. ASSUME NEW name \in Callbacks, Subscribe(name)
       PROVE  RestartInv'
  BY <1>1, <1>10 DEF Subscribe
<1>11. CASE UNCHANGED vars
  BY <1>1, <1>11 DEF vars
<1>12. CASE SetLocalConfig
  BY <1>1, <1>12 DEF SetLocalConfig
<1> QED
  BY <1>4, <1>8, <1>9, <1>10, <1>11, <1>12 DEF Next

(* After a reset, a load that is reported as done raises NewConfig, so     *)
(* that the next ChangeConfig alert is not ignored (ResetConfigIDs,        *)
(* LoadConfigAlertFunc).                                                   *)
THEOREM RestartHeard == Spec => []RestartReachesCallback
<1>1. Init => RestartInv
  BY DEF Init, RestartInv, RestartReachesCallback
<1>2. RestartInv => RestartReachesCallback
  BY DEF RestartInv
<1> QED
  BY <1>1, <1>2, RestartStep, PTL DEF Spec

----------------------------------------------------------------------------
(* Runs are controlled as RunControl says.  A load overwrites what the     *)
(* user put by hand, and fails with the text of an error held.             *)

LoadInv ==
  /\ at = "fetch" => ~replaced
  /\ at = "load_failed" => local_config = "error"

LEMMA LoadInvStep == LoadInv /\ [Next]_vars => LoadInv'
<1> SUFFICES ASSUME LoadInv, [Next]_vars PROVE LoadInv'
  OBVIOUS
<1> USE DEF LoadInv, sharedVars, localVars, threadVars, historyVars
<1>1. CASE at' \notin {"fetch", "load_failed"}
  BY <1>1
<1>2. CASE UNCHANGED <<at, replaced, tries, local_config>>
  BY <1>2
<1>3. CASE BeginFetch
  BY <1>3 DEF BeginFetch
<1>4. CASE FetchFails
  BY <1>4 DEF FetchFails
<1>5. CASE Requests
  BY <1>1, <1>2, <1>5
  DEF Requests, BeginLoad, LoadTooEarly, LoadWithoutPayload, ChangeAlert,
      ChangeIgnored, ChangeUnheard, ChangeButton, ChangeToConfig, BeginChange, BeginStop,
      Export, ExportFails, ClearState, Begin
<1>6. CASE Handling
  BY <1>1, <1>3, <1>4, <1>6
  DEF Handling, SkipLoad, Fetched, Loaded, EndLoad, EndChangeAlert,
      EndChangeButton, EndChangeToConfig, EndStop, Called, Return
<1>7. CASE SetLocalConfig
  BY <1>1, <1>7 DEF SetLocalConfig
<1>8. CASE UserReset \/ (\E name \in Callbacks : Subscribe(name)) \/ UNCHANGED vars
  BY <1>2, <1>8 DEF UserReset, Subscribe, vars
<1> QED
  BY <1>5, <1>6, <1>7, <1>8 DEF Next

(* What an operator's requests come to.                                    *)
LEMMA ControlRequests ==
  ASSUME TypeInv, HandlerInv, LoadInv, Requests
  PROVE  [Control!Next]_(Control!controlVars)
<1> USE DEF Control!Next, Control!controlVars, Doing, Begin, sharedVars,
            historyVars, threadVars, localVars
<1>1. ASSUME NEW what \in Load, NEW way, BeginLoad(way, what)
      PROVE  Control!StartLoad
  BY <1>1 DEF BeginLoad, Control!StartLoad, Control!Start
<1>2. CASE LoadTooEarly \/ LoadWithoutPayload
  BY <1>2 DEF LoadTooEarly, LoadWithoutPayload, Control!StartLoad, Control!Start
<1>3. ASSUME NEW way, ChangeAlert(way)
      PROVE  Control!StartChange
  BY <1>3 DEF ChangeAlert, Control!StartChange, Control!Start
<1>4. CASE ChangeUnheard
  BY <1>4 DEF ChangeUnheard, Control!StartChange, Control!Start
<1>5. ASSUME NEW way, NEW content, BeginChange(way, content)
      PROVE  Control!StartChange
  BY <1>5 DEF BeginChange, Control!StartChange, Control!Start
<1>6. ASSUME NEW way, BeginStop(way)
      PROVE  Control!StartStop
  BY <1>6 DEF BeginStop, ResetConfigIDs, Control!StartStop
<1>7. ASSUME NEW content \in Ids \cup {"user"}, Export(content)
      PROVE  Control!Export
  BY <1>7 DEF Export, Adopt, Control!Export, Contents, Special, TypeInv, TypeOK
<1>8. ASSUME NEW way, NEW outcome,
             ExportFails(way, outcome) \/ ChangeIgnored \/ ClearState
      PROVE  UNCHANGED Control!controlVars
  BY <1>8 DEF ExportFails, ChangeIgnored, ClearState
<1> QED
  BY <1>1, <1>2, <1>3, <1>4, <1>5, <1>6, <1>7, <1>8
  DEF Requests, ChangeButton, ChangeToConfig

(* What the handlers come to.                                              *)
LEMMA ControlHandling ==
  ASSUME TypeInv, HandlerInv, LoadInv, Handling
  PROVE  [Control!Next]_(Control!controlVars)
<1> USE DEF Control!Next, Control!controlVars, Doing, Return, sharedVars,
            historyVars, threadVars, localVars, TypeInv, TypeOK, HandlerInv
<1>1. CASE SkipLoad
  BY <1>1 DEF SkipLoad, Loaded
<1>2. CASE BeginFetch \/ FetchFails \/ Fetched
  BY <1>2
  DEF BeginFetch, FetchFails, Fetched, Loaded, LoadInv, Contents, Special,
      Control!Fetch
<1>3. CASE EndLoad
  BY <1>3 DEF EndLoad, LoadInv, Control!EndLoad
<1>4. ASSUME NEW outcome \in Outcomes, EndChangeAlert(outcome)
      PROVE  Control!EndChange
  BY <1>4
  DEF EndChangeAlert, Called, Consumed, EndState, Alerts, Control!EndChange,
      Control!ChangeSucceeds, Control!ChangeFails
<1>5. ASSUME NEW outcome \in Outcomes, EndChangeButton(outcome)
      PROVE  Control!EndChange
  BY <1>5
  DEF EndChangeButton, Called, Consumed, EndState, Control!EndChange,
      Control!ChangeSucceeds, Control!ChangeFails
<1>6. ASSUME NEW outcome \in Outcomes, EndChangeToConfig(outcome)
      PROVE  Control!EndChange
  BY <1>6
  DEF EndChangeToConfig, Called, Adopt, EndState, Control!EndChange,
      Control!ChangeSucceeds, Control!ChangeFails
<1>7. ASSUME NEW outcome \in Outcomes, EndStop(outcome)
      PROVE  Control!EndStop
  BY <1>7 DEF EndStop, Control!EndStop
<1> QED
  BY <1>1, <1>2, <1>3, <1>4, <1>5, <1>6, <1>7 DEF Handling

LEMMA ControlStep ==
  TypeInv /\ HandlerInv /\ LoadInv /\ [Next]_vars
    => [Control!Next]_(Control!controlVars)
<1> SUFFICES ASSUME TypeInv, HandlerInv, LoadInv, [Next]_vars
             PROVE  [Control!Next]_(Control!controlVars)
  OBVIOUS
<1> USE DEF Control!controlVars, Doing, sharedVars, threadVars, localVars,
            historyVars
<1>1. CASE SetLocalConfig
  BY <1>1 DEF SetLocalConfig, Control!Next, Control!Replace
<1>2. CASE UserReset \/ (\E name \in Callbacks : Subscribe(name)) \/ UNCHANGED vars
  BY <1>2 DEF UserReset, Subscribe, vars
<1> QED
  BY <1>1, <1>2, ControlRequests, ControlHandling DEF Next

(* For any configurations: one thing is done at a time, its end is shown   *)
(* only after its start, and what is held, what the user's code runs with  *)
(* and NewConfig change only as they should (the handlers of LoadConfig,   *)
(* ChangeConfig, ChangeToConfig, RunStop and ExportConfig).                *)
THEOREM RunControlImplemented == Spec => ImplementsRunControl
<1>1. Init => Control!Init
  BY DEF Init, Control!Init, Doing
<1>2. Init => LoadInv
  BY DEF Init, LoadInv
<1> QED
  BY <1>1, <1>2, LoadInvStep, ControlStep, TypeInvariant, HandlerInvariant, PTL
  DEF Spec, ImplementsRunControl, Control!Spec

----------------------------------------------------------------------------
(* The safety half of LoadIsReported: how many steps of the slow-control   *)
(* thread a load takes yet, at most.                                       *)

LoadRank ==
  IF at = "compare" THEN MaxTries + 2
  ELSE IF at = "fetch" THEN MaxTries - tries + 1
  ELSE IF at \in {"loaded", "load_failed"} THEN 1
  ELSE 0

LoadGoesOn ==
  LoadRank > 0 =>
    IF Handling
      THEN /\ LoadRank' < LoadRank
           /\ LoadRank' = 0 => config' \in {"LoadEnd", "LoadFail"}
      ELSE UNCHANGED LoadRank

LEMMA LoadGoesOnStep == TypeInv /\ Next => LoadGoesOn
<1> SUFFICES ASSUME TypeInv, Next, LoadRank > 0 PROVE LoadGoesOn
  BY DEF LoadGoesOn
<1> USE DEF LoadRank, MaxTries, localVars
<1>1. at \in {"compare", "fetch", "loaded", "load_failed"}
  OBVIOUS
<1>2. CASE Handling
  <2>1. \/ SkipLoad \/ BeginFetch \/ FetchFails \/ Fetched \/ EndLoad
    BY <1>1, <1>2
    DEF Handling, EndChangeAlert, EndChangeButton, EndChangeToConfig, EndStop,
        Called
  <2>2. CASE SkipLoad \/ BeginFetch \/ FetchFails \/ Fetched
    <3>1. tries \in 0 .. 5 /\ (at = "compare" => tries = 0)
          /\ (at = "fetch" => tries < 5)
      BY DEF TypeInv, TypeOK, CountInv
    <3> QED
      BY <1>2, <2>2, <3>1
      DEF SkipLoad, BeginFetch, FetchFails, Fetched, Loaded, LoadGoesOn
  <2>3. CASE EndLoad
    BY <1>2, <2>3 DEF EndLoad, Return, LoadGoesOn, TypeInv, TypeOK
  <2> QED
    BY <2>1, <2>2, <2>3
<1>3. CASE ~Handling
  <2>1. UNCHANGED <<at, tries>>
    BY <1>1, <1>3
    DEF Next, Requests, BeginLoad, LoadTooEarly, LoadWithoutPayload,
        ChangeAlert, ChangeIgnored, ChangeUnheard, ChangeButton, ChangeToConfig, BeginChange,
        BeginStop, Export, ExportFails, ClearState, Begin, Subscribe,
        UserReset, SetLocalConfig, threadVars
  <2> QED
    BY <1>3, <2>1 DEF LoadGoesOn
<1> QED
  BY <1>2, <1>3

(* Every step of the slow-control thread in a load brings it nearer to its *)
(* report, the last one is the report, and nothing else any other thread   *)
(* or user does sets it back (LoadConfigAlertFunc).                        *)
THEOREM LoadRunsDown == Spec => [][LoadGoesOn]_vars
BY LoadGoesOnStep, TypeInvariant, PTL DEF Spec
============================================================================
