---------------------------- MODULE Logging_proofs ----------------------------
(* Proofs about Logging: who holds the mutex, and which sink and level a   *)
(* record meets, for any number of threads, severities and sinks.          *)
EXTENDS Logging, TLAPS

Waiting(t) == pc[t] = "waits" \/ pc[t] \in Inside

(* What was in force since a thread asked for the mutex includes the present. *)
WindowsOpen == \A t \in Threads : Waiting(t) => level \in levels[t] /\ sink \in sinks[t]

Installs(t, s) == call[t].name = "setLogSink" /\ call[t].sink = s

(* A sink that is installed was never installed before: the present one has *)
(* not been replaced, and those about to be are neither it nor each other.  *)
InstalledOnce ==
  /\ sink \notin retired
  /\ \A t \in Threads, s \in Sinks : Installs(t, s) =>
       /\ s \notin retired
       /\ s # sink
       /\ \A u \in Threads : Installs(u, s) => u = t

LogInv == TypeOK /\ SinkInForce /\ WindowsOpen /\ InstalledOnce

(* Which fields a call has. *)
LEMMA CallFields ==
  ASSUME NEW c \in Calls \cup {Idle}
  PROVE  /\ c \in Calls => c # Idle /\ c.name # "none"
         /\ c = Idle => c.name = "none"
         /\ c.name \in {"log", "setLogLevel"} => c.severity \in Severities
         /\ c.name = "setLogSink" => c.sink \in Sinks \cup {DefaultSink}
  BY DEF Calls, Idle

(* Every severity in use has a rank. *)
LEMMA Ranked == \A s \in Severities \cup {"Warn"} : severityRank[s] \in Int
<1>1. \A s \in {"Debug", "Info", "Warn", "Error"} : severityRank[s] \in Int
  BY DEF severityRank
<1>2. DOMAIN severityRank = {"Debug", "Info", "Warn", "Error"}
  BY DEF severityRank
<1> QED BY <1>1, <1>2, LoggingAssumption

LEMMA LogInvInit == Init => LogInv
<1> SUFFICES ASSUME Init PROVE LogInv
  OBVIOUS
<1>1. TypeOK
  BY LoggingAssumption DEF Init, TypeOK, Inside, Idle
<1>2. SinkInForce /\ WindowsOpen
  BY DEF Init, SinkInForce, WindowsOpen, Waiting, Inside
<1>3. InstalledOnce
  BY DEF Init, InstalledOnce, Installs, Idle
<1> QED BY <1>1, <1>2, <1>3 DEF LogInv

(* A new call: a sink it brings is fresh. *)
LEMMA BeginKeeps ==
  ASSUME LogInv, NEW t \in Threads, NEW c \in Calls, Begin(t, c)
  PROVE  LogInv'
<1> USE DEF LogInv
<1>1. c # Idle /\ c.name # "none"
  BY CallFields
<1>2. TypeOK'
  <2>1. level' = level /\ sink' = sink /\ mutex' = mutex /\ retired' = retired
        /\ target' = target
    BY DEF Begin
  <2>2. left' \in [Threads -> 0 .. MaxCalls]
    BY LoggingAssumption DEF Begin, TypeOK
  <2>3. levels' \in [Threads -> SUBSET (Severities \cup {"Warn"})]
        /\ sinks' \in [Threads -> SUBSET (Sinks \cup {DefaultSink})]
    BY DEF Begin, TypeOK
  <2>4. call' \in [Threads -> Calls \cup {Idle}]
        /\ pc' \in [Threads -> {"idle", "streams", "waits"} \cup Inside]
    BY DEF Begin, TypeOK
  <2>5. ASSUME NEW u \in Threads
        PROVE  /\ pc'[u] \in Inside <=> mutex' = u
               /\ pc'[u] = "idle" <=> call'[u] = Idle
               /\ pc'[u] \in {"streams", "emits", "reenters"} => call'[u].name = "log"
    <3>1. CASE u = t
      BY <3>1, <1>1 DEF Begin, TypeOK, Inside
    <3>2. CASE u # t
      BY <3>2 DEF Begin, TypeOK
    <3> QED BY <3>1, <3>2
  <2> QED BY <2>1, <2>2, <2>3, <2>4, <2>5 DEF TypeOK, Inside
<1>3. \A u \in Threads : u # t => pc'[u] = pc[u] /\ call'[u] = call[u]
                                  /\ levels'[u] = levels[u] /\ sinks'[u] = sinks[u]
  BY DEF Begin, TypeOK
<1>4. pc'[t] \in {"streams", "waits"} /\ call'[t] = c
      /\ levels'[t] = {level} /\ sinks'[t] = {sink}
  BY DEF Begin, TypeOK
<1>5. SinkInForce'
  BY <1>3, <1>4 DEF Begin, SinkInForce, Below
<1>6. WindowsOpen'
  BY <1>3, <1>4 DEF Begin, WindowsOpen, Waiting
<1>7. InstalledOnce'
  <2>1. ASSUME NEW s \in Sinks, Installs(t, s)'
        PROVE  s \notin retired /\ s # sink /\ \A u \in Threads : u # t => ~Installs(u, s)
    BY <2>1, <1>4, LoggingAssumption DEF Begin, Fresh, Installs
  <2>2. \A u \in Threads, s \in Sinks : u # t => (Installs(u, s)' <=> Installs(u, s))
    BY <1>3 DEF Installs
  <2>3. sink' = sink /\ retired' = retired
    BY DEF Begin
  <2> QED BY <2>1, <2>2, <2>3 DEF InstalledOnce
<1> QED BY <1>2, <1>5, <1>6, <1>7

(* The steps of a record before it asks for the mutex. *)
LEMMA DestroyKeeps ==
  ASSUME LogInv, NEW t \in Threads, Destroy(t) \/ DestroyThrows(t)
  PROVE  LogInv'
<1> USE DEF LogInv
<1>1. \A u \in Threads : u # t => pc'[u] = pc[u] /\ call'[u] = call[u]
                                  /\ levels'[u] = levels[u] /\ sinks'[u] = sinks[u]
  BY DEF Destroy, DestroyThrows, TypeOK
<1>2. CASE Destroy(t)
  <2>1. pc'[t] = "waits" /\ levels'[t] = {level} /\ sinks'[t] = {sink} /\ call' = call
        /\ call[t] # Idle /\ mutex # t
    BY <1>2 DEF Destroy, TypeOK, Inside
  <2>2. TypeOK'
    BY <1>2, <1>1, <2>1 DEF Destroy, TypeOK, Inside
  <2>3. SinkInForce' /\ WindowsOpen' /\ InstalledOnce'
    BY <1>2, <1>1, <2>1
       DEF Destroy, SinkInForce, Below, WindowsOpen, Waiting, InstalledOnce, Installs
  <2> QED BY <2>2, <2>3
<1>3. CASE DestroyThrows(t)
  <2>1. pc'[t] = "idle" /\ call'[t] = Idle /\ mutex # t /\ Idle.name = "none"
    BY <1>3 DEF DestroyThrows, TypeOK, Inside, Idle
  <2>2. TypeOK'
    BY <1>3, <1>1, <2>1 DEF DestroyThrows, TypeOK, Inside
  <2>3. SinkInForce' /\ WindowsOpen' /\ InstalledOnce'
    BY <1>3, <1>1, <2>1
       DEF DestroyThrows, SinkInForce, Below, WindowsOpen, Waiting, Inside,
           InstalledOnce, Installs
  <2> QED BY <2>2, <2>3
<1> QED BY <1>2, <1>3

(* The mutex is given to a thread that waits for it, when nobody is inside. *)
LEMMA LockKeeps ==
  ASSUME LogInv, NEW t \in Threads, Lock(t)
  PROVE  LogInv'
<1> USE DEF LogInv
<1>1. pc[t] = "waits" /\ \A u \in Threads : pc[u] \notin Inside
  BY LoggingAssumption DEF Lock, TypeOK, Inside
<1>2. pc'[t] = "locked" /\ \A u \in Threads : u # t => pc'[u] = pc[u]
  BY DEF Lock, TypeOK
<1>3. TypeOK'
  BY <1>1, <1>2 DEF Lock, TypeOK, Inside
<1>4. SinkInForce' /\ WindowsOpen' /\ InstalledOnce'
  BY <1>1, <1>2
     DEF Lock, SinkInForce, Below, WindowsOpen, Waiting, Inside, InstalledOnce, Installs
<1> QED BY <1>3, <1>4

(* A thread that unlocks was the only one inside. *)
LEMMA UnlockAlone ==
  ASSUME LogInv, NEW t \in Threads, pc[t] \in Inside, Unlock(t)
  PROVE  /\ pc' \in [Threads -> {"idle", "streams", "waits"} \cup Inside]
         /\ call' \in [Threads -> Calls \cup {Idle}]
         /\ mutex' = NoThread
         /\ pc'[t] = "idle" /\ call'[t] = Idle
         /\ \A u \in Threads : pc'[u] \notin Inside /\ mutex' # u
         /\ \A u \in Threads : u # t => pc'[u] = pc[u] /\ call'[u] = call[u]
<1>1. mutex = t /\ \A u \in Threads : u # t => pc[u] \notin Inside
  BY DEF LogInv, TypeOK
<1> QED BY <1>1, LoggingAssumption DEF LogInv, TypeOK, Unlock, Inside

(* The functions that set or read the level, a record that is dropped, and *)
(* the end of a sink.                                                      *)
LEMMA LevelKeeps ==
  ASSUME LogInv, NEW t \in Threads,
         SetLevel(t) \/ GetLevel(t) \/ Drop(t) \/ SinkEnds(t)
  PROVE  LogInv'
<1> USE DEF LogInv
<1>1. pc[t] \in Inside /\ Unlock(t)
  BY DEF SetLevel, GetLevel, Drop, SinkEnds, Inside
<1>2. Idle.name = "none"
  BY DEF Idle
<1>3. sink' = sink /\ retired' = retired /\ left' = left /\ sinks' = sinks
  BY DEF SetLevel, GetLevel, Drop, SinkEnds
<1>4. target' \in [Threads -> Sinks \cup {DefaultSink}]
  BY DEF SetLevel, GetLevel, Drop, SinkEnds, TypeOK
<1>5. /\ level' \in Severities \cup {"Warn"}
      /\ levels' \in [Threads -> SUBSET (Severities \cup {"Warn"})]
      /\ \A u \in Threads : level \in levels[u] => level' \in levels'[u]
  <2>1. CASE SetLevel(t)
    <3>1. call[t].severity \in Severities
      BY <2>1, CallFields DEF SetLevel, TypeOK
    <3> QED BY <2>1, <3>1 DEF SetLevel, TypeOK
  <2>2. CASE GetLevel(t) \/ Drop(t) \/ SinkEnds(t)
    BY <2>2 DEF GetLevel, Drop, SinkEnds, TypeOK
  <2> QED BY <2>1, <2>2
<1>6. TypeOK'
  BY <1>1, <1>3, <1>4, <1>5, UnlockAlone DEF TypeOK, Inside
<1>7. SinkInForce'
  BY <1>1, UnlockAlone DEF SinkInForce, Inside
<1>8. WindowsOpen'
  BY <1>1, <1>3, <1>5, UnlockAlone DEF WindowsOpen, Waiting
<1>9. InstalledOnce'
  BY <1>1, <1>2, <1>3, UnlockAlone DEF InstalledOnce, Installs
<1> QED BY <1>6, <1>7, <1>8, <1>9

(* The sink that is replaced has not been installed twice. *)
LEMMA SetSinkKeeps ==
  ASSUME LogInv, NEW t \in Threads, SetSink(t)
  PROVE  LogInv'
<1> USE DEF LogInv
<1>1. pc[t] \in Inside /\ Unlock(t)
  BY DEF SetSink, Inside
<1>2. sink' = call[t].sink /\ sink' \in Sinks \cup {DefaultSink}
  BY CallFields DEF SetSink, TypeOK
<1>3. retired' = retired \cup ({sink} \ {DefaultSink}) /\ retired' \subseteq Sinks
  BY DEF SetSink, TypeOK
<1>4. /\ sinks' \in [Threads -> SUBSET (Sinks \cup {DefaultSink})]
      /\ \A u \in Threads : sink' \in sinks'[u]
  BY <1>2 DEF SetSink, TypeOK
<1>5. TypeOK'
  BY <1>1, <1>2, <1>3, <1>4, UnlockAlone DEF SetSink, TypeOK, Inside
<1>6. SinkInForce'
  BY <1>1, UnlockAlone DEF SinkInForce, Inside
<1>7. WindowsOpen'
  BY <1>1, <1>4, UnlockAlone DEF SetSink, WindowsOpen, Waiting
<1>8. InstalledOnce'
  <2>1. sink' \notin retired'
    <3>1. CASE sink' = DefaultSink
      BY <3>1, <1>3, LoggingAssumption
    <3>2. CASE sink' \in Sinks
      <4>1. Installs(t, sink')
        BY <1>2 DEF SetSink, Installs
      <4> QED BY <4>1, <3>2, <1>3 DEF InstalledOnce
    <3> QED BY <1>2, <3>1, <3>2
  <2>2. ASSUME NEW u \in Threads, NEW s \in Sinks, Installs(u, s)'
        PROVE  u # t /\ Installs(u, s)
    BY <2>2, <1>1, UnlockAlone DEF Installs, Idle
  <2>3. ASSUME NEW u \in Threads, NEW s \in Sinks, Installs(u, s), u # t
        PROVE  s # sink' /\ s \notin retired'
    BY <2>3, <1>2, <1>3 DEF InstalledOnce, Installs, SetSink
  <2> QED BY <2>1, <2>2, <2>3 DEF InstalledOnce
<1> QED BY <1>5, <1>6, <1>7, <1>8

(* A record that is emitted has met the level; its sink is the installed one. *)
LEMMA EmitKeeps ==
  ASSUME LogInv, NEW t \in Threads, Emit(t) \/ SinkCallsBack(t)
  PROVE  LogInv'
<1> USE DEF LogInv
<1>1. pc[t] \in Inside /\ pc'[t] \in {"emits", "reenters"}
      /\ call' = call /\ call[t].name = "log"
  BY DEF Emit, SinkCallsBack, TypeOK, Inside
<1>2. \A u \in Threads : u # t => pc'[u] = pc[u] /\ pc[u] \notin Inside
  BY <1>1 DEF Emit, SinkCallsBack, TypeOK
<1>3. target' \in [Threads -> Sinks \cup {DefaultSink}] /\ target'[t] = sink /\ ~Below(t)
  BY DEF Emit, SinkCallsBack, TypeOK, SinkInForce
<1>4. TypeOK'
  BY <1>1, <1>2, <1>3 DEF Emit, SinkCallsBack, TypeOK, Inside
<1>5. SinkInForce'
  BY <1>1, <1>2, <1>3
     DEF Emit, SinkCallsBack, SinkInForce, Below, InstalledOnce, Inside
<1>6. WindowsOpen' /\ InstalledOnce'
  BY <1>1, <1>2
     DEF Emit, SinkCallsBack, WindowsOpen, Waiting, InstalledOnce, Installs
<1> QED BY <1>4, <1>5, <1>6

LEMMA LogInvStep == LogInv /\ [Next]_vars => LogInv'
<1> SUFFICES ASSUME LogInv, [Next]_vars PROVE LogInv'
  OBVIOUS
<1>1. ASSUME NEW t \in Threads, NEW c \in Calls, Begin(t, c) PROVE LogInv'
  BY <1>1, BeginKeeps
<1>2. ASSUME NEW t \in Threads, Step(t) PROVE LogInv'
  BY <1>2, DestroyKeeps, LockKeeps, LevelKeeps, SetSinkKeeps, EmitKeeps DEF Step
<1>3. CASE UNCHANGED vars
  BY <1>3 DEF vars, LogInv, TypeOK, SinkInForce, Below, WindowsOpen, Waiting,
              InstalledOnce, Installs
<1> QED BY <1>1, <1>2, <1>3 DEF Next

LEMMA LogInvariant == Spec => []LogInv
<1> QED BY LogInvInit, LogInvStep, PTL DEF Spec

(* The mutex is held by exactly the thread between lock and unlock, and every *)
(* variable has its type, whatever the sinks do.                              *)
THEOREM MutexExcludes == Spec => []TypeOK
<1>1. LogInv => TypeOK
  BY DEF LogInv
<1> QED BY <1>1, LogInvariant, PTL

(* A sink that runs is the installed one, for any number of threads: after *)
(* setLogSink() has returned, the sink it replaced is not called.          *)
THEOREM RetiredSinksAreSilent == Spec => []SinkInForce
<1>1. LogInv => SinkInForce
  BY DEF LogInv
<1> QED BY <1>1, LogInvariant, PTL

(* A record is dropped or delivered for a level and a sink in force after its *)
(* destructor asked for the mutex.                                            *)
THEOREM RecordsMeetChanges == Spec => ChangesTakeEffect
<1> DEFINE Effect ==
      \A t \in Threads :
        pc[t] = "locked" /\ call[t].name = "log" =>
          /\ pc'[t] = "idle" =>
               \E l \in levels[t] : severityRank[call[t].severity] < severityRank[l]
          /\ pc'[t] = "emits" =>
               /\ target'[t] \in sinks[t]
               /\ \E l \in levels[t] : severityRank[call[t].severity] >= severityRank[l]
<1>1. LogInv /\ [Next]_vars => [Effect]_vars
  <2> SUFFICES ASSUME LogInv, Next, NEW t \in Threads,
                      pc[t] = "locked", call[t].name = "log"
               PROVE  /\ pc'[t] = "idle" =>
                           \E l \in levels[t] :
                             severityRank[call[t].severity] < severityRank[l]
                      /\ pc'[t] = "emits" =>
                           /\ target'[t] \in sinks[t]
                           /\ \E l \in levels[t] :
                                severityRank[call[t].severity] >= severityRank[l]
    OBVIOUS
  <2>1. level \in levels[t] /\ sink \in sinks[t]
    BY DEF LogInv, WindowsOpen, Waiting, Inside
  <2>2. severityRank[call[t].severity] \in Int /\ severityRank[level] \in Int
    <3>1. call[t].severity \in Severities
      BY CallFields DEF LogInv, TypeOK
    <3> QED BY <3>1, Ranked DEF LogInv, TypeOK
  <2>3. CASE Drop(t)
    BY <2>3, <2>1 DEF Drop, Below, Unlock, LogInv, TypeOK
  <2>4. CASE Emit(t)
    BY <2>4, <2>1, <2>2 DEF Emit, Below, LogInv, TypeOK
  <2>5. ASSUME NEW u \in Threads, u # t, Step(u) \/ \E c \in Calls : Begin(u, c)
        PROVE  pc'[t] = "locked"
    BY <2>5 DEF Step, Begin, Destroy, DestroyThrows, Lock, SetLevel, GetLevel, SetSink,
                Drop, Emit, SinkEnds, SinkCallsBack, Unlock, LogInv, TypeOK
  <2>6. ASSUME Step(t) \/ \E c \in Calls : Begin(t, c)
        PROVE  Drop(t) \/ Emit(t)
    BY <2>6 DEF Step, Begin, Destroy, DestroyThrows, Lock, SetLevel, GetLevel, SetSink,
                SinkEnds, SinkCallsBack
  <2> QED BY <2>3, <2>4, <2>5, <2>6 DEF Next
<1>2. ChangesTakeEffect <=> [][Effect]_vars
  BY DEF ChangesTakeEffect
<1>3. Spec => [][Effect]_vars
  BY <1>1, LogInvariant, PTL DEF Spec
<1> QED BY <1>2, <1>3

=============================================================================
