----------------------------- MODULE OtelLogger -----------------------------
(***************************************************************************)
(* log/otel: the logger that Kitex is given, and the kit around it.  The     *)
(* goroutines of a process log and call the setters at any time; a log call  *)
(* holds the read lock of mu from the test of the level to the end, takes it *)
(* a second time in logWithFormat, and exports its entry before it returns   *)
(* (SimpleProcessor).  A writer that waits for mu keeps new readers out, as  *)
(* sync.RWMutex does: also the one that asks for the second time.            *)
(***************************************************************************)
EXTENDS Integers, Sequences, FiniteSets

CONSTANTS
  Goroutine,
  Level,       \* klog's levels, of LevelTrace = 0 .. LevelFatal = 6
  ArgLists,    \* arguments of the format methods: strings "s" and others "o"
  Kit,         \* calls of InitOTEL, each of which makes a kit of its own
  None

VARIABLES
  level, jsonFormat, enableCaller, output,   \* the fields of impl
  g,           \* where each goroutine is, and in which call
  waiting,     \* mu: the writer that has asked for it
  out,         \* the entry the last step sent out, if it did
  trace, log,  \* the providers of each kit: "none", "live", "down"
  kit,         \* where its InitOTEL or Shutdown is
  global       \* the kit whose log provider is the global one

vars == <<level, jsonFormat, enableCaller, output, g, waiting, out, trace, log, kit, global>>

LevelInfo == 2

Forms == {"plain", "format", "context"}

Call == [level : Level, form : Forms, args : ArgLists \cup {<<>>}]

Idle == [pc |-> "idle"]

Entry ==
  [level : Level, severity : {"DEBUG", "INFO", "WARN", "ERROR"}, json : BOOLEAN, caller : BOOLEAN,
   message : {"args", "format", "formatted"}, fields : BOOLEAN, context : BOOLEAN, exported : BOOLEAN]

\* None is neither a goroutine nor an entry nor a kit.
ASSUME LoggerAssumption ==
  /\ Level \subseteq 0 .. 6 /\ LevelInfo \in Level
  /\ None \notin Goroutine \cup Entry \cup Kit

State ==
  {Idle} \cup [pc : {"enter", "nested"}, call : Call]
         \cup [pc : {"emit"}, call : Call, json : BOOLEAN]
         \cup [pc : {"set", "wait"}, field : {"level", "json", "output"}]

TypeOK ==
  /\ level \in Level
  /\ <<jsonFormat, enableCaller>> \in BOOLEAN \X BOOLEAN
  /\ output \in {"nil", "set"}
  /\ g \in [Goroutine -> State]
  /\ waiting \in Goroutine \cup {None}
  /\ out \in Entry \cup {None}
  /\ {trace, log} \subseteq [Kit -> {"none", "live", "down"}]
  /\ kit \in [Kit -> {"none", "init", "up", "shutdown", "over"}]
  /\ global \in Kit \cup {None}

\* The constructors differ in format and caller.
Init ==
  /\ level = LevelInfo
  /\ jsonFormat \in BOOLEAN /\ enableCaller \in BOOLEAN
  /\ output = "nil"
  /\ g = [c \in Goroutine |-> Idle]
  /\ waiting = None
  /\ out = None
  /\ trace = [k \in Kit |-> "none"] /\ log = trace /\ kit = trace
  /\ global = None

fields == <<level, jsonFormat, enableCaller, output>>

kitVars == <<trace, log, kit, global>>

Goto(c, state) == g' = [g EXCEPT ![c] = state]

----------------------------------------------------------------------------
(* Log calls                                                                *)

Enter(c, l, form, args) ==
  /\ g[c] = Idle
  /\ Goto(c, [pc |-> "enter", call |-> [level |-> l, form |-> form, args |-> args]])
  /\ out' = None
  /\ UNCHANGED <<fields, waiting, kitVars>>

\* Trace .. Fatal
Log(c) == \E l \in Level : Enter(c, l, "plain", <<>>)

\* Tracef .. Fatalf
Logf(c) == \E l \in Level, args \in ArgLists : Enter(c, l, "format", args)

\* CtxTracef .. CtxFatalf
CtxLogf(c) == \E l \in Level, args \in ArgLists : Enter(c, l, "context", args)

\* mu.RLock, the test of the level, and, if it fails, RUnlock.
Locked(c) ==
  /\ g[c].pc = "enter"
  /\ waiting = None
  /\ Goto(c, IF level <= g[c].call.level THEN [g[c] EXCEPT !.pc = "nested"] ELSE Idle)
  /\ out' = None
  /\ UNCHANGED <<fields, waiting, kitVars>>

\* logWithFormat and logWithFormatContext, first half: the lock once more, for
\* the format.
Nested(c) ==
  /\ g[c].pc = "nested"
  /\ waiting = None
  /\ Goto(c, [pc |-> "emit", call |-> g[c].call, json |-> jsonFormat])
  /\ out' = None
  /\ UNCHANGED <<fields, waiting, kitVars>>

\* parseKeyValuePairs: an even number of arguments with a string at an odd
\* position are fields, and the format is the message as it is.
HasFields(args) ==
  /\ args # <<>> /\ Len(args) % 2 = 0
  /\ \E i \in DOMAIN args : i % 2 = 1 /\ args[i] = "s"

\* Mutant: klog's names are handed on.
Severity_Names(l) ==
  CASE l = 0 -> "TRACE" [] l = 1 -> "DEBUG" [] l = 2 -> "INFO" [] l = 3 -> "NOTICE"
    [] l = 4 -> "WARN" [] l = 5 -> "ERROR" [] l = 6 -> "FATAL"

\* slog has four levels for klog's seven.
Severity(l) ==
  CASE l \in {0, 1} -> "DEBUG"
    [] l \in {2, 3} -> "INFO"
    [] l = 4 -> "WARN"
    [] l \in {5, 6} -> "ERROR"

EntryOf(call, json) ==
  LET pairs == call.form # "plain" /\ HasFields(call.args)
  IN [level |-> call.level, severity |-> Severity(call.level), json |-> json,
      caller |-> enableCaller, fields |-> pairs /\ json,
      message |-> IF call.form = "plain" THEN "args" ELSE IF pairs THEN "format" ELSE "formatted",
      context |-> call.form = "context",
      exported |-> global # None /\ log[global] = "live"]

\* Second half, and RUnlock.  The global provider exports it while it is up.
Emit(c) ==
  /\ g[c].pc = "emit"
  /\ out' = EntryOf(g[c].call, g[c].json)
  /\ Goto(c, Idle)
  /\ UNCHANGED <<fields, waiting, kitVars>>

\* Those who hold a read lock.
Readers == {c \in Goroutine : g[c].pc \in {"nested", "emit"}}

----------------------------------------------------------------------------
(* The setters                                                              *)

Set(c, field) ==
  /\ g[c] = Idle
  /\ Goto(c, [pc |-> "set", field |-> field])
  /\ out' = None
  /\ UNCHANGED <<fields, waiting, kitVars>>

SetLevel(c) == Set(c, "level")
SetJSONFormat(c) == Set(c, "json")
SetOutput(c) == Set(c, "output")

\* mu.Lock: one writer at a time keeps the readers out ...
Wait(c) ==
  /\ g[c].pc = "set"
  /\ waiting = None
  /\ waiting' = c
  /\ Goto(c, [g[c] EXCEPT !.pc = "wait"])
  /\ out' = None
  /\ UNCHANGED <<fields, kitVars>>

SetField(field) ==
  \/ field = "level" /\ level' \in Level /\ UNCHANGED <<jsonFormat, output>>
  \/ field = "json" /\ jsonFormat' \in BOOLEAN /\ UNCHANGED <<level, output>>
  \/ field = "output" /\ output' = "set" /\ UNCHANGED <<level, jsonFormat>>

\* Mutant: the setter does not wait for the readers.
Assign_Unlocked(c) ==
  /\ g[c].pc = "wait"
  /\ SetField(g[c].field)
  /\ waiting' = None
  /\ Goto(c, Idle)
  /\ out' = None
  /\ UNCHANGED <<enableCaller, kitVars>>

\* Mutant: the setter returns without Unlock.
Assign_NoUnlock(c) ==
  /\ g[c].pc = "wait"
  /\ Readers = {}
  /\ SetField(g[c].field)
  /\ waiting' = waiting
  /\ Goto(c, Idle)
  /\ out' = None
  /\ UNCHANGED <<enableCaller, kitVars>>

\* ... and has it when the last one is gone; the assignment and Unlock.
Assign(c) ==
  /\ g[c].pc = "wait"
  /\ Readers = {}
  /\ SetField(g[c].field)
  /\ waiting' = None
  /\ Goto(c, Idle)
  /\ out' = None
  /\ UNCHANGED <<enableCaller, kitVars>>

----------------------------------------------------------------------------
(* The kits                                                                 *)

\* InitOTEL makes the trace provider ...
InitTrace(k) ==
  /\ kit[k] = "none"
  /\ trace' = [trace EXCEPT ![k] = "live"]
  /\ kit' = [kit EXCEPT ![k] = "init"]
  /\ out' = None
  /\ UNCHANGED <<fields, g, waiting, log, global>>

\* ... and the log provider, which is the global one from now on, with the
\* logger, or it fails and takes the first one down.
InitLogger(k) ==
  /\ kit[k] = "init"
  /\ \/ /\ log' = [log EXCEPT ![k] = "live"]
        /\ kit' = [kit EXCEPT ![k] = "up"]
        /\ global' = k
        /\ UNCHANGED trace
     \/ /\ trace' = [trace EXCEPT ![k] = "down"]
        /\ kit' = [kit EXCEPT ![k] = "over"]
        /\ UNCHANGED <<log, global>>
  /\ out' = None
  /\ UNCHANGED <<fields, g, waiting>>

\* Mutant: an error of the trace provider ends Shutdown.
ShutdownTrace_Returns(k) ==
  /\ kit[k] = "up"
  /\ trace' = [trace EXCEPT ![k] = "down"]
  /\ kit' \in {[kit EXCEPT ![k] = at] : at \in {"shutdown", "over"}}
  /\ out' = None
  /\ UNCHANGED <<fields, g, waiting, log, global>>

\* Shutdown, whether or not the provider's is an error.
ShutdownTrace(k) ==
  /\ kit[k] = "up"
  /\ trace' = [trace EXCEPT ![k] = "down"]
  /\ kit' = [kit EXCEPT ![k] = "shutdown"]
  /\ out' = None
  /\ UNCHANGED <<fields, g, waiting, log, global>>

ShutdownLog(k) ==
  /\ kit[k] = "shutdown"
  /\ log' = [log EXCEPT ![k] = "down"]
  /\ kit' = [kit EXCEPT ![k] = "over"]
  /\ out' = None
  /\ UNCHANGED <<fields, g, waiting, trace, global>>

----------------------------------------------------------------------------

Continue(c) == Emit(c) \/ Assign(c)

Take(c) == Locked(c) \/ Nested(c) \/ Wait(c)

Next ==
  \/ \E c \in Goroutine : \/ Log(c) \/ Logf(c) \/ CtxLogf(c)
                          \/ SetLevel(c) \/ SetJSONFormat(c) \/ SetOutput(c)
                          \/ Continue(c) \/ Take(c)
  \/ \E k \in Kit : InitTrace(k) \/ InitLogger(k) \/ ShutdownTrace(k) \/ ShutdownLog(k)

\* sync.RWMutex lets in, in the end, whoever asks again and again.
Fairness == \A c \in Goroutine : WF_vars(Continue(c)) /\ SF_vars(Take(c))

Spec == Init /\ [][Next]_vars /\ Fairness

----------------------------------------------------------------------------

\* What is in force when an entry goes out decides whether and how it does:
\* after SetLevel has returned nothing below the level is logged, also not by
\* calls that began earlier, and no entry has an earlier format.  (This is what
\* the lock held from the test to the end, lines 388 to 392, is for.)
InForceAtEmission ==
  [][out' # None => out'.level >= level /\ out'.json = jsonFormat]_vars

\* A setter came between the two RLocks of a call (lines 388 and 340): the call
\* waits for the setter, the setter for the call, all others for the setter.
Stuck ==
  /\ waiting # None
  /\ \E c \in Goroutine : g[c].pc = "nested"

\* Nothing else keeps a call from returning.
CallsReturn == \A c \in Goroutine : g[c] # Idle ~> (g[c] = Idle \/ Stuck)

\* Outside InitOTEL and Shutdown the providers of a kit are both up or both not,
\* whatever fails in them and whatever other kits there are (otel_kit.go lines 55
\* to 66 and 80 to 102).
KitIsWhole ==
  \A k \in Kit : kit[k] \notin {"init", "shutdown"} => (trace[k] = "live" <=> log[k] = "live")
=============================================================================
