------------------------------- MODULE Logging -------------------------------
(***************************************************************************)
(* Log records, the level and the sink (logging.cc).  Every function takes *)
(* one mutex that is not recursive; a record decides under it whether it   *)
(* is emitted and to which sink, and the sink runs under it.  What a sink  *)
(* may do is the user's: it returns, throws, or (Reentrant) calls one of   *)
(* these functions, which the header forbids.                              *)
(***************************************************************************)
EXTENDS Integers, FiniteSets

CONSTANTS Threads,
          Severities,     \* the severities the program uses
          Sinks,          \* the sinks it installs, each of them once
          Reentrant,      \* those that call back
          DefaultSink,    \* an empty LogSink: records go to stderr
          NoThread,
          MaxCalls        \* bound: calls per thread

severityRank == [Debug |-> 0, Info |-> 1, Warn |-> 2, Error |-> 3]

ASSUME LoggingAssumption ==
  /\ Severities \subseteq DOMAIN severityRank
  /\ Reentrant \subseteq Sinks
  /\ DefaultSink \notin Sinks
  /\ NoThread \notin Threads
  /\ MaxCalls \in Nat

VARIABLES level,      \* logLevelStorage()
          sink,       \* sinkStorage()
          mutex,      \* the thread that holds sinkMutex()
          pc,         \* where each thread is
          call,       \* the call it makes, with its argument
          target,     \* the sink it has entered
          left,       \* calls it may still make
          retired,    \* history: sinks that have been replaced, and destroyed
          levels,     \* history: levels in force since the thread asked for the mutex
          sinks       \* history: sinks in force since then

vars == <<level, sink, mutex, pc, call, target, left, retired, levels, sinks>>

Calls ==
  [name : {"log", "setLogLevel"}, severity : Severities]
    \cup [name : {"logLevel"}]
    \cup [name : {"setLogSink"}, sink : Sinks \cup {DefaultSink}]

Idle == [name |-> "none"]

Fresh(s) ==
  /\ s \notin retired \cup {sink}
  /\ \A t \in Threads : call[t].name = "setLogSink" => call[t].sink # s

\* A call begins: LOG_* constructs a LogMessage, any other function asks for
\* the mutex.  resetLogSink() is setLogSink({}).
Begin(t, c) ==
  /\ pc[t] = "idle"
  /\ left[t] > 0
  /\ c.name = "setLogSink" => c.sink = DefaultSink \/ Fresh(c.sink)
  /\ left' = [left EXCEPT ![t] = @ - 1]
  /\ call' = [call EXCEPT ![t] = c]
  /\ pc' = [pc EXCEPT ![t] = IF c.name = "log" THEN "streams" ELSE "waits"]
  /\ levels' = [levels EXCEPT ![t] = {level}]
  /\ sinks' = [sinks EXCEPT ![t] = {sink}]
  /\ UNCHANGED <<level, sink, mutex, target, retired>>

\* The end of the full expression: the destructor takes the text, then asks
\* for the mutex.
Destroy(t) ==
  /\ pc[t] = "streams"
  /\ pc' = [pc EXCEPT ![t] = "waits"]
  /\ levels' = [levels EXCEPT ![t] = {level}]
  /\ sinks' = [sinks EXCEPT ![t] = {sink}]
  /\ UNCHANGED <<level, sink, mutex, call, target, left, retired>>

\* Taking the text throws bad_alloc: the record is lost.
DestroyThrows(t) ==
  /\ pc[t] = "streams"
  /\ pc' = [pc EXCEPT ![t] = "idle"]
  /\ call' = [call EXCEPT ![t] = Idle]
  /\ UNCHANGED <<level, sink, mutex, target, left, retired, levels, sinks>>

Lock(t) ==
  /\ pc[t] \in {"waits", "reenters"}
  /\ mutex = NoThread
  /\ mutex' = t
  /\ pc' = [pc EXCEPT ![t] = "locked"]
  /\ UNCHANGED <<level, sink, call, target, left, retired, levels, sinks>>

\* The lock_guard goes out of scope and the function returns.
Unlock(t) ==
  /\ mutex' = NoThread
  /\ pc' = [pc EXCEPT ![t] = "idle"]
  /\ call' = [call EXCEPT ![t] = Idle]

SetLevel(t) ==
  /\ pc[t] = "locked" /\ call[t].name = "setLogLevel"
  /\ level' = call[t].severity
  /\ levels' = [u \in Threads |-> levels[u] \cup {level'}]
  /\ Unlock(t)
  /\ UNCHANGED <<sink, target, left, retired, sinks>>

GetLevel(t) ==
  /\ pc[t] = "locked" /\ call[t].name = "logLevel"
  /\ Unlock(t)
  /\ UNCHANGED <<level, sink, target, left, retired, levels, sinks>>

\* The assignment destroys the sink that was there.
SetSink(t) ==
  /\ pc[t] = "locked" /\ call[t].name = "setLogSink"
  /\ sink' = call[t].sink
  /\ sinks' = [u \in Threads |-> sinks[u] \cup {sink'}]
  /\ retired' = retired \cup ({sink} \ {DefaultSink})
  /\ Unlock(t)
  /\ UNCHANGED <<level, target, left, levels>>

(* Mutant: the threshold itself is dropped. *)
BelowOrAt(t) == severityRank[call[t].severity] <= severityRank[level]

Below(t) == severityRank[call[t].severity] < severityRank[level]

(* Mutant: the early return leaves the mutex locked. *)
DropKeepsLock(t) ==
  /\ pc[t] = "locked" /\ call[t].name = "log"
  /\ Below(t)
  /\ pc' = [pc EXCEPT ![t] = "idle"]
  /\ call' = [call EXCEPT ![t] = Idle]
  /\ UNCHANGED <<level, sink, mutex, target, left, retired, levels, sinks>>

Drop(t) ==
  /\ pc[t] = "locked" /\ call[t].name = "log"
  /\ Below(t)
  /\ Unlock(t)
  /\ UNCHANGED <<level, sink, target, left, retired, levels, sinks>>

(* Mutant: the sink is copied and called without the mutex. *)
EmitUnlocked(t) ==
  /\ pc[t] = "locked" /\ call[t].name = "log"
  /\ ~Below(t)
  /\ mutex' = NoThread
  /\ pc' = [pc EXCEPT ![t] = "emits"]
  /\ target' = [target EXCEPT ![t] = sink]
  /\ UNCHANGED <<level, sink, call, left, retired, levels, sinks>>

Emit(t) ==
  /\ pc[t] = "locked" /\ call[t].name = "log"
  /\ ~Below(t)
  /\ pc' = [pc EXCEPT ![t] = "emits"]
  /\ target' = [target EXCEPT ![t] = sink]
  /\ UNCHANGED <<level, sink, mutex, call, left, retired, levels, sinks>>

(* Mutant: a sink that throws skips the unlock. *)
SinkEndsLocked(t) ==
  /\ pc[t] = "emits"
  /\ target' = [target EXCEPT ![t] = DefaultSink]
  /\ pc' = [pc EXCEPT ![t] = "idle"]
  /\ call' = [call EXCEPT ![t] = Idle]
  /\ UNCHANGED <<level, sink, mutex, left, retired, levels, sinks>>

\* The sink returns, or throws what the destructor catches.
SinkEnds(t) ==
  /\ pc[t] = "emits"
  /\ target' = [target EXCEPT ![t] = DefaultSink]
  /\ Unlock(t)
  /\ UNCHANGED <<level, sink, left, retired, levels, sinks>>

\* The sink asks for the mutex its own thread holds.
SinkCallsBack(t) ==
  /\ pc[t] = "emits"
  /\ target[t] \in Reentrant
  /\ pc' = [pc EXCEPT ![t] = "reenters"]
  /\ UNCHANGED <<level, sink, mutex, call, target, left, retired, levels, sinks>>

Init ==
  /\ level = "Warn"
  /\ sink = DefaultSink
  /\ mutex = NoThread
  /\ pc = [t \in Threads |-> "idle"]
  /\ call = [t \in Threads |-> Idle]
  /\ target = [t \in Threads |-> DefaultSink]
  /\ left = [t \in Threads |-> MaxCalls]
  /\ retired = {}
  /\ levels = [t \in Threads |-> {}]
  /\ sinks = [t \in Threads |-> {}]

Step(t) ==
  \/ Destroy(t) \/ DestroyThrows(t)
  \/ Lock(t)
  \/ SetLevel(t) \/ GetLevel(t) \/ SetSink(t)
  \/ Drop(t) \/ Emit(t)
  \/ SinkEnds(t) \/ SinkCallsBack(t)

Next == \E t \in Threads : Step(t) \/ \E c \in Calls : Begin(t, c)

Spec == Init /\ [][Next]_vars

\* A thread inside a call runs on; nothing is assumed of the order in which
\* the mutex is given to those that wait.
FairSpec == Spec /\ \A t \in Threads : WF_vars(Step(t))

-----------------------------------------------------------------------------
Inside == {"locked", "emits", "reenters"}

\* Every variable has its type, and the mutex is held by exactly the thread
\* that is between lock and unlock (logging.cc:68-102), so that no two sinks
\* run at once.
TypeOK ==
  /\ level \in Severities \cup {"Warn"}
  /\ sink \in Sinks \cup {DefaultSink}
  /\ mutex \in Threads \cup {NoThread}
  /\ pc \in [Threads -> {"idle", "streams", "waits"} \cup Inside]
  /\ call \in [Threads -> Calls \cup {Idle}]
  /\ target \in [Threads -> Sinks \cup {DefaultSink}]
  /\ left \in [Threads -> 0 .. MaxCalls]
  /\ retired \subseteq Sinks
  /\ levels \in [Threads -> SUBSET (Severities \cup {"Warn"})]
  /\ sinks \in [Threads -> SUBSET (Sinks \cup {DefaultSink})]
  /\ \A t \in Threads :
       /\ pc[t] \in Inside <=> mutex = t
       /\ pc[t] = "idle" <=> call[t] = Idle
       /\ pc[t] \in {"streams", "emits", "reenters"} => call[t].name = "log"

\* A sink that runs is the installed one, and so not one that setLogSink() has
\* replaced and destroyed, and its record meets the level: once setLogSink()
\* has returned, what the old sink refers to is the caller's to destroy.
SinkInForce ==
  \A t \in Threads :
    pc[t] \in {"emits", "reenters"} =>
      /\ target[t] = sink
      /\ sink \notin retired
      /\ ~Below(t)

\* setLogLevel() and setLogSink() take effect: a record is dropped only for a
\* level, and delivered only to a sink and past a level, that was in force at
\* some time after its destructor asked for the mutex.
ChangesTakeEffect ==
  [][\A t \in Threads :
       pc[t] = "locked" /\ call[t].name = "log" =>
         /\ pc'[t] = "idle" =>
              \E l \in levels[t] : severityRank[call[t].severity] < severityRank[l]
         /\ pc'[t] = "emits" =>
              /\ target'[t] \in sinks[t]
              /\ \E l \in levels[t] : severityRank[call[t].severity] >= severityRank[l]]_vars

\* Every call ends, a destructor's too, whatever the sinks throw, unless one
\* of them breaks the header's rule and calls back.
OnlyCallbacksHang ==
  \A t \in Threads :
    pc[t] # "idle" ~> pc[t] = "idle" \/ \E u \in Threads : pc[u] = "reenters"

=============================================================================
