-------------------------- MODULE OtelLogger_proofs --------------------------
(***************************************************************************)
(* Theorems about OtelLogger for any number of goroutines, any of klog's     *)
(* levels and any arguments.                                                *)
(***************************************************************************)
EXTENDS OtelLogger, TLAPS

USE LoggerAssumption

LEMMA SeverityType == \A l \in Level : Severity(l) \in {"DEBUG", "INFO", "WARN", "ERROR"}
BY DEF Severity

\* What EntryOf makes is an entry of the call's level and of the given format.
LEMMA EntryType ==
  ASSUME TypeOK, NEW call \in Call, NEW json \in BOOLEAN
  PROVE  /\ EntryOf(call, json) \in Entry \ {None}
         /\ EntryOf(call, json).level = call.level
         /\ EntryOf(call, json).json = json
<1>1. Severity(call.level) \in {"DEBUG", "INFO", "WARN", "ERROR"}
  BY SeverityType DEF Call
<1>2. enableCaller \in BOOLEAN
  BY DEF TypeOK
<1>3. call.level \in Level
  BY DEF Call
<1> DEFINE pairs == call.form # "plain" /\ HasFields(call.args)
           e == EntryOf(call, json)
<1>4. e = [level |-> call.level, severity |-> Severity(call.level), json |-> json,
           caller |-> enableCaller, fields |-> pairs /\ json,
           message |-> IF call.form = "plain" THEN "args" ELSE IF pairs THEN "format" ELSE "formatted",
           context |-> call.form = "context",
           exported |-> global # None /\ log[global] = "live"]
  BY DEF EntryOf
<1>5. (pairs /\ json) \in BOOLEAN
  OBVIOUS
<1> HIDE DEF pairs, e
<1>6. e \in Entry
  BY <1>1, <1>2, <1>3, <1>4, <1>5 DEF Entry
<1>7. e.level = call.level /\ e.json = json
  BY <1>4
<1> QED BY <1>6, <1>7 DEF e

----------------------------------------------------------------------------

LEMMA TypeInit == Init => TypeOK
BY DEF Init, TypeOK, State

\* A goroutine goes to another state.
LEMMA GotoType ==
  ASSUME TypeOK, NEW c \in Goroutine, NEW s \in State, Goto(c, s)
  PROVE  g' \in [Goroutine -> State]
BY DEF TypeOK, Goto

LEMMA TypeStep == TypeOK /\ [Next]_vars => TypeOK'
<1> SUFFICES ASSUME TypeOK, [Next]_vars PROVE TypeOK'
  OBVIOUS
<1> DEFINE Others == /\ level' \in Level
                     /\ <<jsonFormat', enableCaller'>> \in BOOLEAN \X BOOLEAN
                     /\ output' \in {"nil", "set"}
                     /\ waiting' \in Goroutine \cup {None}
                     /\ out' \in Entry \cup {None}
                     /\ {trace', log'} \subseteq [Kit -> {"none", "live", "down"}]
                     /\ kit' \in [Kit -> {"none", "init", "up", "shutdown", "over"}]
                     /\ global' \in Kit \cup {None}
<1>0. ASSUME g' \in [Goroutine -> State], Others PROVE TypeOK'
  BY <1>0 DEF TypeOK
<1>1. ASSUME NEW c \in Goroutine, Log(c) \/ Logf(c) \/ CtxLogf(c) PROVE TypeOK'
  <2>1. PICK l \in Level, form \in Forms, args \in ArgLists \cup {<<>>} : Enter(c, l, form, args)
    BY <1>1 DEF Log, Logf, CtxLogf, Forms
  <2>2. [pc |-> "enter", call |-> [level |-> l, form |-> form, args |-> args]] \in State
    BY DEF State, Call
  <2>3. g' \in [Goroutine -> State]
    BY <2>1, <2>2, GotoType DEF Enter
  <2>4. Others
    BY <2>1 DEF Enter, fields, kitVars, TypeOK
  <2> QED BY <1>0, <2>3, <2>4
<1>2. ASSUME NEW c \in Goroutine, Locked(c) PROVE TypeOK'
  <2>1. g[c] \in [pc : {"enter", "nested"}, call : Call]
    BY <1>2 DEF Locked, TypeOK, State, Idle
  <2>2. (IF level <= g[c].call.level THEN [g[c] EXCEPT !.pc = "nested"] ELSE Idle) \in State
    BY <2>1 DEF State
  <2>3. g' \in [Goroutine -> State]
    BY <1>2, <2>2, GotoType DEF Locked
  <2>4. Others
    BY <1>2 DEF Locked, fields, kitVars, TypeOK
  <2> QED BY <1>0, <2>3, <2>4
<1>3. ASSUME NEW c \in Goroutine, Nested(c) PROVE TypeOK'
  <2>1. g[c].call \in Call
    BY <1>3 DEF Nested, TypeOK, State, Idle
  <2>2. [pc |-> "emit", call |-> g[c].call, json |-> jsonFormat] \in State
    BY <2>1 DEF State, TypeOK
  <2>3. g' \in [Goroutine -> State]
    BY <1>3, <2>2, GotoType DEF Nested
  <2>4. Others
    BY <1>3 DEF Nested, fields, kitVars, TypeOK
  <2> QED BY <1>0, <2>3, <2>4
<1>4. ASSUME NEW c \in Goroutine, Emit(c) PROVE TypeOK'
  <2>1. g[c].call \in Call /\ g[c].json \in BOOLEAN
    BY <1>4 DEF Emit, TypeOK, State, Idle
  <2>2. out' \in Entry
    BY <1>4, <2>1, EntryType DEF Emit
  <2>3. g' \in [Goroutine -> State]
    BY <1>4, GotoType DEF Emit, State
  <2>4. Others
    BY <1>4, <2>2 DEF Emit, fields, kitVars, TypeOK
  <2> QED BY <1>0, <2>3, <2>4
<1>5. ASSUME NEW c \in Goroutine, SetLevel(c) \/ SetJSONFormat(c) \/ SetOutput(c) PROVE TypeOK'
  <2>1. PICK field \in {"level", "json", "output"} : Set(c, field)
    BY <1>5 DEF SetLevel, SetJSONFormat, SetOutput
  <2>2. [pc |-> "set", field |-> field] \in State
    BY DEF State
  <2>3. g' \in [Goroutine -> State]
    BY <2>1, <2>2, GotoType DEF Set
  <2>4. Others
    BY <2>1 DEF Set, fields, kitVars, TypeOK
  <2> QED BY <1>0, <2>3, <2>4
<1>6. ASSUME NEW c \in Goroutine, Wait(c) PROVE TypeOK'
  <2>1. g[c] \in [pc : {"set", "wait"}, field : {"level", "json", "output"}]
    BY <1>6 DEF Wait, TypeOK, State, Idle
  <2>2. [g[c] EXCEPT !.pc = "wait"] \in State
    BY <2>1 DEF State
  <2>3. g' \in [Goroutine -> State]
    BY <1>6, <2>2, GotoType DEF Wait
  <2>4. Others
    BY <1>6 DEF Wait, fields, kitVars, TypeOK
  <2> QED BY <1>0, <2>3, <2>4
<1>7. ASSUME NEW c \in Goroutine, Assign(c) PROVE TypeOK'
  <2>1. g' \in [Goroutine -> State]
    BY <1>7, GotoType DEF Assign, State
  <2>2. Others
    BY <1>7 DEF Assign, SetField, kitVars, TypeOK
  <2> QED BY <1>0, <2>1, <2>2
<1>8. ASSUME NEW k \in Kit, InitTrace(k) \/ InitLogger(k) \/ ShutdownTrace(k) \/ ShutdownLog(k)
      PROVE  TypeOK'
  <2>1. UNCHANGED <<fields, g, waiting>> /\ out' = None
    BY <1>8 DEF InitTrace, InitLogger, ShutdownTrace, ShutdownLog
  <2>2. /\ {trace', log'} \subseteq [Kit -> {"none", "live", "down"}]
        /\ kit' \in [Kit -> {"none", "init", "up", "shutdown", "over"}]
        /\ global' \in Kit \cup {None}
    BY <1>8 DEF InitTrace, InitLogger, ShutdownTrace, ShutdownLog, TypeOK
  <2> QED BY <2>1, <2>2 DEF fields, TypeOK
<1>9. CASE UNCHANGED vars
  BY <1>9 DEF vars, TypeOK
<1> QED
  BY <1>1, <1>2, <1>3, <1>4, <1>5, <1>6, <1>7, <1>8, <1>9 DEF Next, Continue, Take

\* The variables have their types, and an entry that goes out is whole.
THEOREM TypeCorrect == Spec => []TypeOK
BY TypeInit, TypeStep, PTL DEF Spec

----------------------------------------------------------------------------

\* A call that holds a read lock has passed the test of the level in force, and
\* the format it has read is the one in force.
ReadersAreCurrent ==
  \A c \in Goroutine :
    /\ g[c].pc \in {"nested", "emit"} => level <= g[c].call.level
    /\ g[c].pc = "emit" => g[c].json = jsonFormat

LEMMA CurrentStep == TypeOK /\ ReadersAreCurrent /\ [Next]_vars => ReadersAreCurrent'
<1> SUFFICES ASSUME TypeOK, ReadersAreCurrent, [Next]_vars, NEW d \in Goroutine
             PROVE  /\ g'[d].pc \in {"nested", "emit"} => level' <= g'[d].call.level
                    /\ g'[d].pc = "emit" => g'[d].json = jsonFormat'
  BY DEF ReadersAreCurrent
<1> USE DEF ReadersAreCurrent, Goto
<1>0. g \in [Goroutine -> State]
  BY DEF TypeOK
<1>4. ASSUME NEW c \in Goroutine,
             Log(c) \/ Logf(c) \/ CtxLogf(c) \/ SetLevel(c) \/ SetJSONFormat(c) \/ SetOutput(c)
      PROVE  \/ g'[d].pc \notin {"nested", "emit"}
             \/ UNCHANGED <<level, jsonFormat>> /\ g'[d] = g[d]
  <2>1. CASE Log(c) \/ Logf(c) \/ CtxLogf(c)
    <3>1. PICK l, form, args : l \in Level /\ Enter(c, l, form, args)
      BY <2>1 DEF Log, Logf, CtxLogf
    <3> QED BY <1>0, <3>1 DEF Enter, fields
  <2>2. CASE SetLevel(c) \/ SetJSONFormat(c) \/ SetOutput(c)
    BY <1>0, <2>2 DEF SetLevel, SetJSONFormat, SetOutput, Set, fields
  <2> QED BY <1>4, <2>1, <2>2
<1>5. ASSUME NEW c \in Goroutine, Locked(c)
      PROVE  /\ UNCHANGED <<level, jsonFormat>>
             /\ \/ g'[d] = g[d]
                \/ g'[d].pc = "idle"
                \/ g'[d].pc = "nested" /\ level <= g'[d].call.level
  <2>1. g[c] \in [pc : {"enter", "nested"}, call : Call]
    BY <1>0, <1>5 DEF Locked, State, Idle
  <2>2. CASE level <= g[c].call.level
    <3>1. g' = [g EXCEPT ![c] = [g[c] EXCEPT !.pc = "nested"]]
      BY <1>5, <2>2 DEF Locked
    <3> QED BY <1>0, <1>5, <2>1, <2>2, <3>1 DEF Locked, fields
  <2>3. CASE ~(level <= g[c].call.level)
    <3>1. g' = [g EXCEPT ![c] = Idle]
      BY <1>5, <2>3 DEF Locked
    <3> QED BY <1>0, <1>5, <3>1 DEF Locked, fields, Idle
  <2> QED BY <2>2, <2>3
<1>6. ASSUME NEW c \in Goroutine, Nested(c)
      PROVE  /\ UNCHANGED <<level, jsonFormat>>
             /\ \/ g'[d] = g[d]
                \/ g[d].pc = "nested" /\ g'[d].call = g[d].call /\ g'[d].json = jsonFormat
  BY <1>0, <1>6 DEF Nested, fields
<1>7. ASSUME NEW c \in Goroutine, Emit(c)
      PROVE  /\ UNCHANGED <<level, jsonFormat>>
             /\ g'[d] = g[d] \/ g'[d].pc = "idle"
  BY <1>0, <1>7 DEF Emit, fields, Idle
<1>8. ASSUME NEW c \in Goroutine, Wait(c)
      PROVE  /\ UNCHANGED <<level, jsonFormat>>
             /\ g'[d] = g[d] \/ g'[d].pc = "wait"
  <2>1. g[c] \in [pc : {"set", "wait"}, field : {"level", "json", "output"}]
    BY <1>0, <1>8 DEF Wait, State, Idle
  <2> QED BY <1>0, <1>8, <2>1 DEF Wait, fields
<1>9. ASSUME NEW c \in Goroutine, Assign(c) PROVE g'[d].pc \notin {"nested", "emit"}
  <2>1. g[d].pc \notin {"nested", "emit"}
    BY <1>9 DEF Assign, Readers
  <2>2. g'[d] = g[d] \/ g'[d] = Idle
    BY <1>0, <1>9 DEF Assign
  <2> QED BY <2>1, <2>2 DEF Idle
<1>10. ASSUME \/ \E k \in Kit : \/ InitTrace(k) \/ InitLogger(k)
                               \/ ShutdownTrace(k) \/ ShutdownLog(k)
              \/ UNCHANGED vars
       PROVE  UNCHANGED <<level, jsonFormat>> /\ g'[d] = g[d]
  BY <1>10 DEF InitTrace, InitLogger, ShutdownTrace, ShutdownLog, vars, fields
<1>11. \/ g'[d].pc \notin {"nested", "emit"}
       \/ UNCHANGED <<level, jsonFormat>> /\ g'[d] = g[d]
       \/ UNCHANGED <<level, jsonFormat>> /\ g'[d].pc = "nested" /\ level <= g'[d].call.level
       \/ /\ UNCHANGED <<level, jsonFormat>>
          /\ g[d].pc = "nested" /\ g'[d].call = g[d].call /\ g'[d].json = jsonFormat
  BY <1>4, <1>5, <1>6, <1>7, <1>8, <1>9, <1>10 DEF Next, Continue, Take
<1> QED BY <1>11

LEMMA EntryIsCurrent ==
  TypeOK /\ ReadersAreCurrent /\ [Next]_vars
    => [out' # None => out'.level >= level /\ out'.json = jsonFormat]_vars
<1> SUFFICES ASSUME TypeOK, ReadersAreCurrent, Next, out' # None
             PROVE  out'.level >= level /\ out'.json = jsonFormat
  OBVIOUS
<1>1. PICK c \in Goroutine : Emit(c)
  <2>1. \A c \in Goroutine : Locked(c) \/ Nested(c) \/ Wait(c) \/ Assign(c) => out' = None
    BY DEF Locked, Nested, Wait, Assign
  <2>2. \A c \in Goroutine :
          Log(c) \/ Logf(c) \/ CtxLogf(c) \/ SetLevel(c) \/ SetJSONFormat(c) \/ SetOutput(c)
            => out' = None
    BY DEF Log, Logf, CtxLogf, Enter, SetLevel, SetJSONFormat, SetOutput, Set
  <2>3. \A k \in Kit :
          InitTrace(k) \/ InitLogger(k) \/ ShutdownTrace(k) \/ ShutdownLog(k) => out' = None
    BY DEF InitTrace, InitLogger, ShutdownTrace, ShutdownLog
  <2> QED BY <2>1, <2>2, <2>3 DEF Next, Continue, Take
<1>2. g[c] \in [pc : {"emit"}, call : Call, json : BOOLEAN]
  BY <1>1 DEF Emit, TypeOK, State, Idle
<1>3. out'.level = g[c].call.level /\ out'.json = g[c].json
  BY <1>1, <1>2, EntryType DEF Emit
<1>4. level <= g[c].call.level /\ g[c].json = jsonFormat
  BY <1>1 DEF ReadersAreCurrent, Emit
<1>5. level \in Level /\ g[c].call.level \in Level
  BY <1>2 DEF TypeOK, Call
<1>6. Level \subseteq Int
  OBVIOUS
<1> QED BY <1>3, <1>4, <1>5, <1>6

\* Whatever the setters and the other calls do meanwhile, an entry goes out only
\* at a level that is in force when it does, and in the format that is.
THEOREM EntriesAreInForce == Spec => InForceAtEmission
<1>1. Init => ReadersAreCurrent
  BY DEF Init, ReadersAreCurrent, Idle
<1>2. Spec => []ReadersAreCurrent
  BY <1>1, TypeInit, TypeStep, CurrentStep, PTL DEF Spec
<1> QED
  BY <1>2, TypeCorrect, EntryIsCurrent, PTL DEF Spec, InForceAtEmission

----------------------------------------------------------------------------

\* Within InitOTEL the trace provider is up and the log provider is not, within
\* Shutdown the trace provider is down.
KitSteps ==
  /\ \A k \in Kit : kit[k] = "none" => trace[k] # "live" /\ log[k] # "live"
  /\ \A k \in Kit : kit[k] = "init" => trace[k] = "live" /\ log[k] # "live"
  /\ \A k \in Kit : kit[k] = "shutdown" => trace[k] = "down"

LEMMA KitStep == TypeOK /\ KitSteps /\ KitIsWhole /\ [Next]_vars => KitSteps' /\ KitIsWhole'
<1> SUFFICES ASSUME TypeOK, KitSteps, KitIsWhole, [Next]_vars PROVE KitSteps' /\ KitIsWhole'
  OBVIOUS
<1> USE DEF KitSteps, KitIsWhole
<1>0. DOMAIN trace = Kit /\ DOMAIN log = Kit /\ DOMAIN kit = Kit
  BY DEF TypeOK
<1>1. ASSUME NEW k \in Kit, InitTrace(k) \/ InitLogger(k) PROVE KitSteps' /\ KitIsWhole'
  BY <1>0, <1>1 DEF InitTrace, InitLogger
<1>2. ASSUME NEW k \in Kit, ShutdownTrace(k) \/ ShutdownLog(k) PROVE KitSteps' /\ KitIsWhole'
  BY <1>0, <1>2 DEF ShutdownTrace, ShutdownLog
<1>3. CASE UNCHANGED kitVars
  BY <1>3 DEF kitVars
<1>4. \A c \in Goroutine :
        Log(c) \/ Logf(c) \/ CtxLogf(c) \/ SetLevel(c) \/ SetJSONFormat(c) \/ SetOutput(c)
          => UNCHANGED kitVars
  BY DEF Log, Logf, CtxLogf, Enter, SetLevel, SetJSONFormat, SetOutput, Set
<1>5. \A c \in Goroutine : Continue(c) \/ Take(c) => UNCHANGED kitVars
  BY DEF Continue, Take, Locked, Nested, Emit, Wait, Assign
<1>6. UNCHANGED vars => UNCHANGED kitVars
  BY DEF vars, kitVars
<1> QED BY <1>1, <1>2, <1>3, <1>4, <1>5, <1>6 DEF Next

\* Outside InitOTEL and Shutdown both providers of a kit are up or both are not,
\* for any number of kits.
THEOREM TheKitIsWhole == Spec => []KitIsWhole
<1>1. Init => KitSteps /\ KitIsWhole
  BY DEF Init, KitSteps, KitIsWhole
<1> QED BY <1>1, TypeInit, TypeStep, KitStep, PTL DEF Spec
=============================================================================
