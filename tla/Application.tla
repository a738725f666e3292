----------------------------- MODULE Application -----------------------------
(***************************************************************************)
(* The Android application around the server: the main thread, which runs   *)
(* the callbacks of activities and service and, when its looper has nothing *)
(* else to do, the event loop; the thread on which each sparkle_main_activity *)
(* runs the user's script; the settings they share; and the pipe that takes *)
(* what the main thread and the script print to the event loop, which       *)
(* writes it to the log.                                                    *)
(*                                                                         *)
(* The main thread is the pipe's only reader, and one of its writers.       *)
(***************************************************************************)
EXTENDS Integers

CONSTANTS
    Activities,     \* sparkle_main_activity objects, each made once
    Nobody,         \* no activity
    PipeSize,       \* what the pipe holds, in chunks that one read() takes
    Malformed,      \* versions of the configuration file that load() throws on
    Mistyped,       \* versions in which on_start is no string
    MaxEdits,       \* bound: versions of the configuration file
    MaxLines,       \* bound: commands of one script, which print or use the server
    MaxStarts       \* bound: presses of the start button

\* The file the application comes with can be read.
ASSUME ApplicationAssumption ==
    /\ Nobody \notin Activities
    /\ PipeSize \in Nat \ {0}
    /\ Malformed \subseteq Nat /\ Mistyped \subseteq Nat
    /\ 1 \notin Malformed \cup Mistyped
    /\ MaxEdits \in Nat /\ MaxLines \in Nat /\ MaxStarts \in Nat

VARIABLES
    main,           \* what the main thread does, and for which activity
    activity,       \* "none", "alive" or "deleted"
    service,        \* the sparkle_service exists
    wanted,         \* Android has been asked for the service
    file,           \* the version of the configuration file
    settings_,      \* the version in settings_, 0 while it is incomplete
    locked,         \* the main thread has the mutex of the settings
    user_busy_,
    user_thread_,   \* "none", "begun", "got", "system", "done" or "ended"
    command,        \* the version of on_start that the thread runs
    asked,          \* history: the version load() gave the start of the thread
    script,         \* "none", "runs", "prints", "waits" or "exited"
    lines,          \* how many commands the script has run
    pipe,           \* chunks in the pipe
    starts

appVars == <<main, activity, service, wanted, file, settings_, locked, user_busy_,
             user_thread_, command, asked, script, lines, pipe, starts>>

config == <<file, settings_, locked>>
users == <<user_busy_, user_thread_, command, asked, script, lines>>
android == <<activity, service, wanted>>

Main(step, a) == [step |-> step, activity |-> a]

Idle == Main("idle", Nobody)

\* An exception that nobody catches ends the process.
Dead == Main("dead", Nobody)

-----------------------------------------------------------------------------
(* Callbacks of the activities *)

\* onCreate: native_create makes the object, whose constructor prints; with
\* EXTRA_QUIET the service is started at once.
OnCreate(a) ==
    /\ main = Idle
    /\ activity[a] = "none"
    /\ main' = Main("create", a)
    /\ UNCHANGED <<android, config, users, pipe, starts>>

Created(quiet) ==
    /\ main.step = "create"
    /\ pipe < PipeSize
    /\ pipe' = pipe + 1
    /\ activity' = [activity EXCEPT ![main.activity] = "alive"]
    /\ wanted' = (wanted \/ quiet)
    /\ main' = Idle
    /\ UNCHANGED <<service, config, users, starts>>

\* Fault: load() does not lock the mutex.
OnStartUnlocked(a) ==
    /\ main = Idle
    /\ activity[a] = "alive"
    /\ starts < MaxStarts
    /\ starts' = starts + 1
    /\ wanted' = TRUE
    /\ settings_' = 0
    /\ main' = Main("load", a)
    /\ UNCHANGED <<activity, service, file, locked, users, pipe>>

\* The start button: startService, then native_start, where load() takes the
\* mutex and clears the settings.
OnStart(a) ==
    /\ main = Idle
    /\ activity[a] = "alive"
    /\ starts < MaxStarts
    /\ starts' = starts + 1
    /\ wanted' = TRUE
    /\ locked' = TRUE
    /\ settings_' = 0
    /\ main' = Main("load", a)
    /\ UNCHANGED <<activity, service, file, users, pipe>>

\* Fault: load() returns with the mutex.
LoadedKeepsLock ==
    /\ main.step = "load"
    /\ file \notin Malformed
    /\ settings_' = file
    /\ main' = Main("busy", main.activity)
    /\ UNCHANGED <<android, file, locked, users, pipe, starts>>

\* load() reads the file and gives the mutex back.
Loaded ==
    /\ main.step = "load"
    /\ file \notin Malformed
    /\ settings_' = file
    /\ locked' = FALSE
    /\ main' = Main("busy", main.activity)
    /\ UNCHANGED <<android, file, users, pipe, starts>>

\* A line that no handler matches
LoadThrows ==
    /\ main.step = "load"
    /\ file \in Malformed
    /\ main' = Dead
    /\ UNCHANGED <<android, config, users, pipe, starts>>

\* start() does nothing more while user_busy_ is set.
TestBusy ==
    /\ main.step = "busy"
    /\ \/ /\ user_busy_[main.activity]
          /\ main' = Idle
          /\ UNCHANGED user_busy_
       \/ /\ ~user_busy_[main.activity]
          /\ user_busy_' = [user_busy_ EXCEPT ![main.activity] = TRUE]
          /\ main' = Main("rejoin", main.activity)
    /\ UNCHANGED <<android, config, user_thread_, command, asked, script, lines, pipe, starts>>

\* join() of a thread that is joinable returns when the thread has ended.
Joined(a) == user_thread_[a] \in {"none", "ended"}

\* start() joins the thread of the last start and makes the next.
Spawn ==
    /\ main.step = "rejoin"
    /\ Joined(main.activity)
    /\ user_thread_' = [user_thread_ EXCEPT ![main.activity] = "begun"]
    /\ asked' = [asked EXCEPT ![main.activity] = settings_]
    /\ script' = [script EXCEPT ![main.activity] = "none"]
    /\ lines' = [lines EXCEPT ![main.activity] = 0]
    /\ main' = Idle
    /\ UNCHANGED <<android, config, user_busy_, command, pipe, starts>>

\* The stop button: stopService, and a native_stop that does nothing; or
\* ACTION_STOP, on which the service stops itself.
OnStop ==
    /\ main = Idle
    /\ wanted
    /\ wanted' = FALSE
    /\ UNCHANGED <<main, activity, service, config, users, pipe, starts>>

\* onDestroy: native_destroy drops the last reference, the destructor prints
OnDestroy(a) ==
    /\ main = Idle
    /\ activity[a] = "alive"
    /\ main' = Main("destroy", a)
    /\ UNCHANGED <<android, config, users, pipe, starts>>

DestructorPrints ==
    /\ main.step = "destroy"
    /\ pipe < PipeSize
    /\ pipe' = pipe + 1
    /\ main' = Main("join", main.activity)
    /\ UNCHANGED <<android, config, users, starts>>

\* Fault: the destructor does not wait for the thread.
DestructorJoinsNot ==
    /\ main.step = "join"
    /\ activity' = [activity EXCEPT ![main.activity] = "deleted"]
    /\ main' = Idle
    /\ UNCHANGED <<service, wanted, config, users, pipe, starts>>

\* and joins the thread.
DestructorJoins ==
    /\ main.step = "join"
    /\ Joined(main.activity)
    /\ activity' = [activity EXCEPT ![main.activity] = "deleted"]
    /\ user_thread_' = [user_thread_ EXCEPT ![main.activity] = "none"]
    /\ main' = Idle
    /\ UNCHANGED <<service, wanted, config, user_busy_, command, asked, script, lines,
                   pipe, starts>>

\* The editor saves the configuration.
WriteFile(version) ==
    /\ main = Idle
    /\ version > file
    /\ file' = version
    /\ UNCHANGED <<main, android, settings_, locked, users, pipe, starts>>

-----------------------------------------------------------------------------
(* Callbacks of the service, and the event loop *)

ServiceOnCreate ==
    /\ main = Idle
    /\ wanted /\ ~service
    /\ main' = Main("serve", Nobody)
    /\ UNCHANGED <<android, config, users, pipe, starts>>

ServiceCreated ==
    /\ main.step = "serve"
    /\ pipe < PipeSize
    /\ pipe' = pipe + 1
    /\ service' = TRUE
    /\ main' = Idle
    /\ UNCHANGED <<activity, wanted, config, users, starts>>

ServiceOnDestroy ==
    /\ main = Idle
    /\ ~wanted /\ service
    /\ main' = Main("unserve", Nobody)
    /\ UNCHANGED <<android, config, users, pipe, starts>>

\* The server is gone: whoever waited for an answer is told so.
ServiceDestroyed ==
    /\ main.step = "unserve"
    /\ pipe < PipeSize
    /\ pipe' = pipe + 1
    /\ service' = FALSE
    /\ script' = [a \in Activities |-> IF script[a] = "waits" THEN "runs" ELSE script[a]]
    /\ main' = Idle
    /\ UNCHANGED <<activity, wanted, config, user_busy_, user_thread_, command, asked,
                   lines, starts>>

\* run_once, for the pipe: one read(), to the log
LogDataIn ==
    /\ main = Idle
    /\ pipe > 0
    /\ pipe' = pipe - 1
    /\ UNCHANGED <<main, android, config, users, starts>>

\* run_once, for the display: a client gets its answer
Dispatch(a) ==
    /\ main = Idle
    /\ service
    /\ script[a] = "waits"
    /\ script' = [script EXCEPT ![a] = "runs"]
    /\ UNCHANGED <<main, android, config, user_busy_, user_thread_, command, asked, lines,
                   pipe, starts>>

-----------------------------------------------------------------------------
(* sparkle_main_activity::user() *)

GetOnStart(a) ==
    /\ user_thread_[a] = "begun"
    /\ ~locked
    /\ settings_ \notin Mistyped
    /\ command' = [command EXCEPT ![a] = settings_]
    /\ user_thread_' = [user_thread_ EXCEPT ![a] = "got"]
    /\ UNCHANGED <<main, android, config, user_busy_, asked, script, lines, pipe, starts>>

\* get<std::string> finds a number.
GetThrows(a) ==
    /\ user_thread_[a] = "begun"
    /\ ~locked
    /\ settings_ \in Mistyped
    /\ main' = Dead
    /\ UNCHANGED <<android, config, users, pipe, starts>>

\* Fault: user_busy_ is given up before the script has ended.
SystemNotBusy(a) ==
    /\ user_thread_[a] = "got"
    /\ user_thread_' = [user_thread_ EXCEPT ![a] = "system"]
    /\ script' = [script EXCEPT ![a] = "runs"]
    /\ user_busy_' = [user_busy_ EXCEPT ![a] = FALSE]
    /\ UNCHANGED <<main, android, config, command, asked, lines, pipe, starts>>

System(a) ==
    /\ user_thread_[a] = "got"
    /\ user_thread_' = [user_thread_ EXCEPT ![a] = "system"]
    /\ script' = [script EXCEPT ![a] = "runs"]
    /\ UNCHANGED <<main, android, config, user_busy_, command, asked, lines, pipe, starts>>

SystemReturns(a) ==
    /\ user_thread_[a] = "system"
    /\ script[a] = "exited"
    /\ user_thread_' = [user_thread_ EXCEPT ![a] = "done"]
    /\ user_busy_' = [user_busy_ EXCEPT ![a] = FALSE]
    /\ UNCHANGED <<main, android, config, command, asked, script, lines, pipe, starts>>

ThreadEnds(a) ==
    /\ user_thread_[a] = "done"
    /\ user_thread_' = [user_thread_ EXCEPT ![a] = "ended"]
    /\ UNCHANGED <<main, android, config, user_busy_, command, asked, script, lines, pipe,
                   starts>>

-----------------------------------------------------------------------------
(* The script, a process of its own *)

ScriptPrints(a) ==
    /\ script[a] = "runs"
    /\ lines[a] < MaxLines
    /\ lines' = [lines EXCEPT ![a] = @ + 1]
    /\ script' = [script EXCEPT ![a] = "prints"]
    /\ UNCHANGED <<main, android, config, user_busy_, user_thread_, command, asked, pipe,
                   starts>>

WriteReturns(a) ==
    /\ script[a] = "prints"
    /\ pipe < PipeSize
    /\ pipe' = pipe + 1
    /\ script' = [script EXCEPT ![a] = "runs"]
    /\ UNCHANGED <<main, android, config, user_busy_, user_thread_, command, asked, lines,
                   starts>>

\* It starts a client of the server and waits for it.
ScriptConnects(a) ==
    /\ script[a] = "runs"
    /\ service
    /\ lines[a] < MaxLines
    /\ lines' = [lines EXCEPT ![a] = @ + 1]
    /\ script' = [script EXCEPT ![a] = "waits"]
    /\ UNCHANGED <<main, android, config, user_busy_, user_thread_, command, asked, pipe,
                   starts>>

ScriptExits(a) ==
    /\ script[a] = "runs"
    /\ script' = [script EXCEPT ![a] = "exited"]
    /\ UNCHANGED <<main, android, config, user_busy_, user_thread_, command, asked, lines,
                   pipe, starts>>

-----------------------------------------------------------------------------
AppInit ==
    /\ main = Idle
    /\ activity = [a \in Activities |-> "none"]
    /\ service = FALSE /\ wanted = FALSE
    /\ file = 1 /\ settings_ = 1 /\ locked = FALSE
    /\ user_busy_ = [a \in Activities |-> FALSE]
    /\ user_thread_ = [a \in Activities |-> "none"]
    /\ command = [a \in Activities |-> 0]
    /\ asked = [a \in Activities |-> 0]
    /\ script = [a \in Activities |-> "none"]
    /\ lines = [a \in Activities |-> 0]
    /\ pipe = 0
    /\ starts = 0

Callbacks ==
    \/ \E a \in Activities : OnCreate(a) \/ OnStart(a) \/ OnDestroy(a)
    \/ OnStop
    \/ \E version \in 1 .. MaxEdits : WriteFile(version)
    \/ ServiceOnCreate
    \/ ServiceOnDestroy

MainGoesOn ==
    \/ \E quiet \in BOOLEAN : Created(quiet)
    \/ Loaded \/ LoadThrows \/ TestBusy \/ Spawn
    \/ DestructorPrints \/ DestructorJoins
    \/ ServiceCreated \/ ServiceDestroyed

RunOnce == LogDataIn \/ \E a \in Activities : Dispatch(a)

User(a) == GetOnStart(a) \/ GetThrows(a) \/ System(a) \/ SystemReturns(a) \/ ThreadEnds(a)

Script(a) == ScriptPrints(a) \/ WriteReturns(a) \/ ScriptConnects(a) \/ ScriptExits(a)

AppNext ==
    /\ main # Dead
    /\ \/ Callbacks
       \/ MainGoesOn
       \/ RunOnce
       \/ \E a \in Activities : User(a) \/ Script(a)

AppSpec == AppInit /\ [][AppNext]_appVars

\* The main thread goes on as long as it can, its looper comes to the event
\* loop, threads are scheduled, and so is the script, whose steps are bounded.
AppFairSpec ==
    /\ AppSpec
    /\ WF_appVars(MainGoesOn)
    /\ WF_appVars(RunOnce)
    /\ \A a \in Activities : WF_appVars(main # Dead /\ User(a)) /\ WF_appVars(main # Dead /\ Script(a))

-----------------------------------------------------------------------------
AppTypeOK ==
    /\ main \in [step : {"idle", "create", "load", "busy", "rejoin", "destroy", "join",
                         "serve", "unserve", "dead"},
                 activity : Activities \cup {Nobody}]
    /\ activity \in [Activities -> {"none", "alive", "deleted"}]
    /\ service \in BOOLEAN /\ wanted \in BOOLEAN
    /\ file \in Nat /\ settings_ \in Nat /\ locked \in BOOLEAN
    /\ user_busy_ \in [Activities -> BOOLEAN]
    /\ user_thread_ \in [Activities -> {"none", "begun", "got", "system", "done", "ended"}]
    /\ command \in [Activities -> Nat] /\ asked \in [Activities -> Nat]
    /\ script \in [Activities -> {"none", "runs", "prints", "waits", "exited"}]
    /\ lines \in [Activities -> 0 .. MaxLines]
    /\ pipe \in 0 .. PipeSize
    /\ starts \in 0 .. MaxStarts

\* user() runs in a member function of the activity: as long as its thread has
\* not ended, the activity is not deleted, however the back button and the
\* script's end are interleaved.
ThreadHasActivity ==
    \A a \in Activities : ~Joined(a) => activity[a] = "alive"

\* The script that runs is the one of a complete configuration, at least as
\* new as the one that was loaded when the start button was pressed, even if
\* another load() is under way on the main thread.
CommandFresh ==
    \A a \in Activities :
        user_thread_[a] \in {"got", "system"} => command[a] > 0 /\ command[a] >= asked[a]

Starting == main.step \in {"load", "busy", "rejoin"}

\* The start button never waits for a script: native_start returns (or the
\* configuration ends the process) even if the script of an earlier start runs,
\* prints, or waits for the server.
StartReturns == Starting ~> main \in {Idle, Dead}

\* The main thread waits for what only the main thread can do: room in the
\* pipe it reads, or the end of a script that waits for such room or for the
\* server.
Stuck ==
    \/ main.step \in {"create", "destroy", "serve", "unserve"} /\ pipe = PipeSize
    \/ /\ main.step = "join"
       /\ \/ script[main.activity] = "waits"
          \/ script[main.activity] = "prints" /\ pipe = PipeSize

\* Every callback returns, but for those two circles: an onDestroy that finds
\* the script running returns when the script has exited.
CallbackReturns == main # Idle ~> main \in {Idle, Dead} \/ Stuck

=============================================================================
