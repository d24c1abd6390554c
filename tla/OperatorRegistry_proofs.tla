----------------------- MODULE OperatorRegistry_proofs -----------------------
(* Proofs about OperatorRegistry: the handles of every library add up, and *)
(* with them which images stay mapped, for any number of registries,       *)
(* libraries and types.                                                    *)
EXTENDS OperatorRegistry, FiniteSetTheorems, FunctionTheorems, SequenceTheorems, TLAPS

AllFinite ==
  \A lib \in Libraries :
    /\ IsFiniteSet(InRegistries(lib))
    /\ IsFiniteSet(InLoads(lib))
    /\ IsFiniteSet(Held(lib, lost))

(* An open handle is one of the library's present mapping. *)
CurrentMappings ==
  /\ \A r \in Registries : \A i \in DOMAIN handles[r] :
       mapping[handles[r][i][1]] = handles[r][i][2]
  /\ \A r \in Registries : loading[r] # None => mapping[loading[r][1]] = loading[r][2]
  /\ \A i \in DOMAIN lost : mapping[lost[i][1]] = lost[i][2]

OpensBound == \A lib \in Libraries : refs[lib] <= opens /\ mapping[lib] <= opens

(* Only an entry point registers factories of a library. *)
FromPlugins ==
  \A r \in Registries, t \in Types :
    factories[r][t] \notin {Host, None} => factories[r][t][1] \in Plugins

RegInv ==
  /\ TypeOK
  /\ HandlesAccountedFor
  /\ AllFinite
  /\ CurrentMappings
  /\ OpensBound
  /\ FromPlugins
  /\ OnlyRefusalsDangle

-----------------------------------------------------------------------------
(* What the counted sets are after a step *)

LEMMA Images ==
  ASSUME NEW image \in Image
  PROVE  /\ image[1] \in Libraries
         /\ image[2] \in 0 .. MaxOpens
         /\ image = <<image[1], image[2]>>
         /\ image # None
BY RegistryAssumption DEF Image

LEMMA HeldAppend ==
  ASSUME NEW seq \in Seq(Image), NEW image \in Image, NEW lib
  PROVE  /\ Len(seq) + 1 \notin Held(lib, seq)
         /\ Held(lib, Append(seq, image)) =
              IF image[1] = lib THEN Held(lib, seq) \cup {Len(seq) + 1} ELSE Held(lib, seq)
<1>1. /\ DOMAIN seq = 1 .. Len(seq)
      /\ Len(seq) \in Nat
      /\ DOMAIN Append(seq, image) = 1 .. Len(seq) + 1
      /\ \A i \in 1 .. Len(seq) : Append(seq, image)[i] = seq[i]
      /\ Append(seq, image)[Len(seq) + 1] = image
  BY AppendProperties, LenProperties
<1>2. 1 .. Len(seq) + 1 = (1 .. Len(seq)) \cup {Len(seq) + 1}
  BY <1>1
<1> QED BY <1>1, <1>2 DEF Held

LEMMA HeldConcat ==
  ASSUME NEW s \in Seq(Image), NEW t \in Seq(Image), NEW lib,
         IsFiniteSet(Held(lib, s)), IsFiniteSet(Held(lib, t))
  PROVE  /\ IsFiniteSet(Held(lib, s \o t))
         /\ Cardinality(Held(lib, s \o t)) = Cardinality(Held(lib, s)) + Cardinality(Held(lib, t))
<1> DEFINE A == Held(lib, s)
           B == Held(lib, t)
           C == {Len(s) + i : i \in B}
           f == [i \in B |-> Len(s) + i]
<1>1. /\ DOMAIN s = 1 .. Len(s)
      /\ DOMAIN t = 1 .. Len(t)
      /\ Len(s) \in Nat
      /\ Len(t) \in Nat
      /\ DOMAIN (s \o t) = 1 .. Len(s) + Len(t)
      /\ \A i \in 1 .. Len(s) + Len(t) :
           (s \o t)[i] = IF i <= Len(s) THEN s[i] ELSE t[i - Len(s)]
  BY ConcatProperties, LenProperties
<1>2. A \subseteq 1 .. Len(s) /\ B \subseteq 1 .. Len(t)
  BY <1>1 DEF Held
<1>3. Held(lib, s \o t) \subseteq A \cup C
  <2> SUFFICES ASSUME NEW i \in Held(lib, s \o t)
               PROVE  i \in A \cup C
    OBVIOUS
  <2>1. i \in 1 .. Len(s) + Len(t) /\ (s \o t)[i][1] = lib
    BY <1>1 DEF Held
  <2>2. CASE i <= Len(s)
    BY <2>1, <2>2, <1>1 DEF Held
  <2>3. CASE ~(i <= Len(s))
    <3>1. i - Len(s) \in B
      BY <2>1, <2>3, <1>1 DEF Held
    <3>2. i = Len(s) + (i - Len(s))
      BY <2>1, <1>1
    <3> QED BY <3>1, <3>2
  <2> QED BY <2>2, <2>3
<1>4. A \cup C \subseteq Held(lib, s \o t)
  <2>1. A \subseteq Held(lib, s \o t)
    BY <1>1 DEF Held
  <2>2. ASSUME NEW i \in B PROVE Len(s) + i \in Held(lib, s \o t)
    <3>1. i \in 1 .. Len(t) /\ t[i][1] = lib
      BY <1>1 DEF Held
    <3>2. /\ Len(s) + i \in 1 .. Len(s) + Len(t)
          /\ ~(Len(s) + i <= Len(s))
          /\ (Len(s) + i) - Len(s) = i
      BY <3>1, <1>1
    <3>3. (s \o t)[Len(s) + i] = t[i]
      BY <3>2, <1>1
    <3> QED BY <3>1, <3>2, <3>3, <1>1 DEF Held
  <2> QED BY <2>1, <2>2
<1>5. f \in Bijection(B, C)
  <2>1. f \in [B -> C]
    OBVIOUS
  <2>2. \A a, b \in B : f[a] = f[b] => a = b
    BY <1>1, <1>2
  <2>3. \A c \in C : \E b \in B : f[b] = c
    OBVIOUS
  <2> QED BY <2>1, <2>2, <2>3, Fun_IsBij
<1>6. IsFiniteSet(C) /\ Cardinality(C) = Cardinality(B)
  BY <1>5, FS_Bijection, Fun_ExistsBij
<1>7. A \cap C = {}
  BY <1>1, <1>2
<1>8. IsFiniteSet(A \cup C) /\ Cardinality(A \cup C) = Cardinality(A) + Cardinality(C)
  <2>1. /\ IsFiniteSet(A \cup C)
        /\ Cardinality(A \cup C) = Cardinality(A) + Cardinality(C) - Cardinality(A \cap C)
    BY <1>6, FS_Union
  <2>2. Cardinality(A \cap C) = 0
    BY <1>7, FS_EmptySet
  <2>3. Cardinality(A) \in Nat /\ Cardinality(C) \in Nat
    BY <1>6, FS_CardinalityType
  <2> HIDE DEF A, C
  <2> QED BY <2>1, <2>2, <2>3
<1> QED BY <1>3, <1>4, <1>6, <1>8

\* What RegInv says of the handle a load is at.
LEMMA Loading ==
  ASSUME RegInv, NEW r \in Registries, loading[r] # None
  PROVE  /\ loading[r] \in Image
         /\ r \in InLoads(loading[r][1])
         /\ mapping[loading[r][1]] = loading[r][2]
<1>1. loading[r] \in Image
  BY DEF RegInv, TypeOK
<1> QED BY <1>1 DEF RegInv, InLoads, CurrentMappings

\* A library with an open handle is mapped.
LEMMA OpenIsMapped ==
  ASSUME RegInv, NEW lib \in Libraries
  PROVE  /\ refs[lib] \in Nat
         /\ refs[lib] = 0 => InRegistries(lib) = {} /\ InLoads(lib) = {} /\ Held(lib, lost) = {}
<1>1. /\ IsFiniteSet(InRegistries(lib))
      /\ IsFiniteSet(InLoads(lib))
      /\ IsFiniteSet(Held(lib, lost))
  BY DEF RegInv, AllFinite
<1>2. /\ Cardinality(InRegistries(lib)) \in Nat
      /\ Cardinality(InLoads(lib)) \in Nat
      /\ Cardinality(Held(lib, lost)) \in Nat
  BY <1>1, FS_CardinalityType
<1>3. refs[lib] = Cardinality(InRegistries(lib)) + Cardinality(InLoads(lib))
                  + Cardinality(Held(lib, lost))
  BY DEF RegInv, HandlesAccountedFor
<1>4. refs[lib] = 0 => /\ Cardinality(InRegistries(lib)) = 0
                       /\ Cardinality(InLoads(lib)) = 0
                       /\ Cardinality(Held(lib, lost)) = 0
  BY <1>2, <1>3
<1>5. refs[lib] \in Nat
  BY <1>2, <1>3
<1>6. refs[lib] = 0 => InRegistries(lib) = {} /\ InLoads(lib) = {} /\ Held(lib, lost) = {}
  BY <1>1, <1>4, FS_EmptySet
<1> QED BY <1>5, <1>6

\* The library of a load in progress is mapped.
LEMMA LoadingIsMapped ==
  ASSUME RegInv, NEW r \in Registries, loading[r] # None
  PROVE  /\ loading[r][1] \in Libraries
         /\ refs[loading[r][1]] \in Nat
         /\ refs[loading[r][1]] > 0
<1>1. loading[r] \in Image /\ r \in InLoads(loading[r][1])
  BY Loading
<1>2. loading[r][1] \in Libraries
  BY <1>1, Images
<1>3. refs[loading[r][1]] \in Nat /\ refs[loading[r][1]] # 0
  BY <1>1, <1>2, OpenIsMapped
<1> QED BY <1>2, <1>3

\* A load that ends leaves its library's loads, and no other's.
LEMMA LoadEnds ==
  ASSUME RegInv, NEW r \in Registries, loading[r] # None,
         loading' = [loading EXCEPT ![r] = None],
         NEW lib \in Libraries
  PROVE  /\ InLoads(lib)' = IF lib = loading[r][1] THEN InLoads(lib) \ {r} ELSE InLoads(lib)
         /\ IsFiniteSet(InLoads(lib)')
         /\ Cardinality(InLoads(lib)') =
              IF lib = loading[r][1] THEN Cardinality(InLoads(lib)) - 1 ELSE Cardinality(InLoads(lib))
<1>1. \A q \in Registries : loading'[q] = IF q = r THEN None ELSE loading[q]
  BY DEF RegInv, TypeOK
<1>2. InLoads(lib)' = IF lib = loading[r][1] THEN InLoads(lib) \ {r} ELSE InLoads(lib)
  BY <1>1 DEF InLoads
<1>3. IsFiniteSet(InLoads(lib))
  BY DEF RegInv, AllFinite
<1>4. r \in InLoads(loading[r][1])
  BY Loading
<1> QED BY <1>2, <1>3, <1>4, FS_RemoveElement

-----------------------------------------------------------------------------
(* Every action preserves RegInv *)

LEMMA InitRegInv == Init => RegInv
<1> SUFFICES ASSUME Init PROVE RegInv
  OBVIOUS
<1>1. TypeOK
  BY RegistryAssumption DEF Init, TypeOK
<1>2. ASSUME NEW lib \in Libraries
      PROVE  InRegistries(lib) = {} /\ InLoads(lib) = {} /\ Held(lib, lost) = {}
  BY DEF Init, InRegistries, InLoads, Held
<1>3. HandlesAccountedFor /\ AllFinite
  <2>1. IsFiniteSet({}) /\ Cardinality({}) = 0
    BY FS_EmptySet
  <2>2. AllFinite
    BY <1>2, <2>1 DEF AllFinite
  <2>3. ASSUME NEW lib \in Libraries
        PROVE  refs[lib] = Cardinality(InRegistries(lib)) + Cardinality(InLoads(lib))
                           + Cardinality(Held(lib, lost))
    <3>1. refs[lib] = 0
      BY DEF Init
    <3>2. refs[lib] = Cardinality({}) + Cardinality({}) + Cardinality({})
      BY <2>1, <3>1
    <3> QED BY <1>2, <3>2
  <2> QED BY <2>2, <2>3 DEF HandlesAccountedFor
<1>4. CurrentMappings /\ OpensBound
  BY DEF Init, CurrentMappings, OpensBound
<1>5. FromPlugins /\ OnlyRefusalsDangle
  BY DEF Init, FromPlugins, OnlyRefusalsDangle
<1> QED BY <1>1, <1>3, <1>4, <1>5 DEF RegInv

LEMMA OpenKeepsRegInv ==
  ASSUME RegInv, NEW r \in Registries, NEW lib \in Libraries, Open(r, lib)
  PROVE  RegInv'
<1> DEFINE image == <<lib, mapping'[lib]>>
<1>1. /\ refs[lib] \in Nat /\ mapping[lib] \in Nat /\ opens \in Nat
      /\ refs[lib] <= opens /\ mapping[lib] <= opens /\ opens + 1 <= MaxOpens
  BY RegistryAssumption DEF RegInv, TypeOK, OpensBound, Open
<1>2. /\ refs' = [refs EXCEPT ![lib] = refs[lib] + 1]
      /\ mapping' = [mapping EXCEPT ![lib] = IF refs[lib] = 0 THEN mapping[lib] + 1 ELSE mapping[lib]]
      /\ loading' = [loading EXCEPT ![r] = image]
      /\ loading[r] = None
      /\ opens' = opens + 1
      /\ UNCHANGED <<factories, handles, lost, refused>>
  BY DEF Open, Opened
<1>3. /\ refs'[lib] = refs[lib] + 1
      /\ mapping'[lib] = IF refs[lib] = 0 THEN mapping[lib] + 1 ELSE mapping[lib]
      /\ \A l \in Libraries \ {lib} : refs'[l] = refs[l] /\ mapping'[l] = mapping[l]
      /\ loading'[r] = image
      /\ \A q \in Registries \ {r} : loading'[q] = loading[q]
  BY <1>2 DEF RegInv, TypeOK
<1>4. image \in Image /\ image[1] = lib /\ image[2] = mapping'[lib] /\ image # None
  BY <1>1, <1>3, RegistryAssumption DEF Image
<1> HIDE DEF image
<1>5. TypeOK'
  <2>1. refs[lib] + 1 \in 0 .. MaxOpens /\ mapping'[lib] \in 0 .. MaxOpens /\ opens' \in 0 .. MaxOpens
    BY <1>1, <1>2, <1>3, RegistryAssumption
  <2>2. refs' \in [Libraries -> 0 .. MaxOpens]
    BY <2>1, <1>2 DEF RegInv, TypeOK
  <2>3. mapping' \in [Libraries -> 0 .. MaxOpens]
    BY <2>1, <1>2, <1>3 DEF RegInv, TypeOK
  <2>4. loading' \in [Registries -> Image \union {None}]
    BY <1>2, <1>4 DEF RegInv, TypeOK
  <2> QED BY <2>1, <2>2, <2>3, <2>4, <1>2 DEF RegInv, TypeOK
<1>6. ASSUME NEW l \in Libraries
      PROVE  /\ InRegistries(l)' = InRegistries(l)
             /\ Held(l, lost)' = Held(l, lost)
             /\ InLoads(l)' = IF l = lib THEN InLoads(l) \cup {r} ELSE InLoads(l)
             /\ IsFiniteSet(InLoads(l))
             /\ r \notin InLoads(l)
  <2>1. InRegistries(l)' = InRegistries(l) /\ Held(l, lost)' = Held(l, lost)
    BY <1>2 DEF InRegistries, Held
  <2>2. InLoads(l)' = IF l = lib THEN InLoads(l) \cup {r} ELSE InLoads(l)
    BY <1>2, <1>3, <1>4 DEF InLoads
  <2> QED BY <2>1, <2>2, <1>2 DEF RegInv, AllFinite, InLoads
<1>7. AllFinite'
  BY <1>6, FS_AddElement DEF RegInv, AllFinite
<1>8. HandlesAccountedFor'
  <2> SUFFICES ASSUME NEW l \in Libraries
               PROVE  refs'[l] = Cardinality(InRegistries(l)') + Cardinality(InLoads(l)')
                                 + Cardinality(Held(l, lost)')
    BY DEF HandlesAccountedFor
  <2>1. refs[l] = Cardinality(InRegistries(l)) + Cardinality(InLoads(l)) + Cardinality(Held(l, lost))
    BY DEF RegInv, HandlesAccountedFor
  <2>2. Cardinality(InLoads(l)') = IF l = lib THEN Cardinality(InLoads(l)) + 1 ELSE Cardinality(InLoads(l))
    BY <1>6, FS_AddElement
  <2>3. /\ Cardinality(InRegistries(l)) \in Nat
        /\ Cardinality(InLoads(l)) \in Nat
        /\ Cardinality(Held(l, lost)) \in Nat
    BY FS_CardinalityType DEF RegInv, AllFinite
  <2> QED BY <2>1, <2>2, <2>3, <1>3, <1>6
\* The library gets a new mapping only while nothing is open of the old one.
<1>9. ASSUME mapping'[lib] # mapping[lib]
      PROVE  refs[lib] = 0 /\ InRegistries(lib) = {} /\ InLoads(lib) = {} /\ Held(lib, lost) = {}
  BY <1>9, <1>3, OpenIsMapped
<1>10. CurrentMappings'
  <2>1. ASSUME NEW q \in Registries, NEW i \in DOMAIN handles[q]
        PROVE  mapping'[handles[q][i][1]] = handles[q][i][2]
    <3>1. handles[q][i] \in Image
      BY ElementOfSeq, LenProperties DEF RegInv, TypeOK
    <3>2. mapping[handles[q][i][1]] = handles[q][i][2] /\ handles[q][i][1] \in Libraries
      BY <3>1, Images DEF RegInv, CurrentMappings
    <3>3. ASSUME handles[q][i][1] = lib PROVE InRegistries(lib) # {}
      <4>1. i \in Held(lib, handles[q])
        BY <3>3 DEF Held
      <4>2. <<q, i>> \in InRegistries(lib)
        BY <4>1 DEF InRegistries
      <4> QED BY <4>2
    <3> QED BY <3>2, <3>3, <1>9, <1>3
  <2>2. ASSUME NEW q \in Registries, loading'[q] # None
        PROVE  mapping'[loading'[q][1]] = loading'[q][2]
    <3>1. CASE q = r
      BY <3>1, <1>3, <1>4
    <3>2. CASE q # r
      <4>1. /\ mapping[loading[q][1]] = loading[q][2]
            /\ q \in InLoads(loading[q][1])
            /\ loading[q][1] \in Libraries
        BY <3>2, <2>2, <1>3, Loading, LoadingIsMapped
      <4> QED BY <4>1, <3>2, <1>3, <1>9
    <3> QED BY <3>1, <3>2
  <2>3. ASSUME NEW i \in DOMAIN lost
        PROVE  mapping'[lost[i][1]] = lost[i][2]
    <3>1. lost[i] \in Image
      BY ElementOfSeq, LenProperties DEF RegInv, TypeOK
    <3>2. mapping[lost[i][1]] = lost[i][2] /\ lost[i][1] \in Libraries
      BY <3>1, Images DEF RegInv, CurrentMappings
    <3>3. lost[i][1] = lib => Held(lib, lost) # {}
      BY DEF Held
    <3> QED BY <3>2, <3>3, <1>9, <1>3
  <2> QED BY <2>1, <2>2, <2>3, <1>2 DEF CurrentMappings
<1>11. OpensBound'
  <2> SUFFICES ASSUME NEW l \in Libraries PROVE refs'[l] <= opens' /\ mapping'[l] <= opens'
    BY DEF OpensBound
  <2>1. refs[l] \in Nat /\ mapping[l] \in Nat /\ refs[l] <= opens /\ mapping[l] <= opens
    BY RegistryAssumption DEF RegInv, TypeOK, OpensBound
  <2> QED BY <2>1, <1>1, <1>2, <1>3
<1>12. FromPlugins'
  BY <1>2 DEF RegInv, FromPlugins
<1>13. OnlyRefusalsDangle'
  <2> SUFFICES ASSUME NEW q \in Registries, NEW t \in Types, factories[q][t] \notin {Host, None},
                      factories[q][t] \notin refused
               PROVE  refs'[factories[q][t][1]] > 0 /\ mapping'[factories[q][t][1]] = factories[q][t][2]
    BY <1>2 DEF OnlyRefusalsDangle, IsMapped
  <2>1. factories[q][t] \in Image
    BY DEF RegInv, TypeOK
  <2>2. refs[factories[q][t][1]] > 0 /\ mapping[factories[q][t][1]] = factories[q][t][2]
    BY DEF RegInv, OnlyRefusalsDangle, IsMapped
  <2> QED BY <2>1, <2>2, <1>1, <1>3, Images
<1> QED BY <1>5, <1>7, <1>8, <1>10, <1>11, <1>12, <1>13 DEF RegInv
LEMMA EndOfLoad ==
  ASSUME RegInv, NEW r \in Registries, loading[r] # None,
         loading' = [loading EXCEPT ![r] = None]
  PROVE  /\ loading' \in [Registries -> Image \union {None}]
         /\ \A q \in Registries : loading'[q] = IF q = r THEN None ELSE loading[q]
BY DEF RegInv, TypeOK

\* MissingSymbol and EntryPointRefuses: the load ends and its handle is closed.
LEMMA ClosedAtEnd ==
  ASSUME RegInv, NEW r \in Registries, loading[r] # None,
         Closed(loading[r][1]),
         loading' = [loading EXCEPT ![r] = None],
         UNCHANGED <<handles, lost, opens>>
  PROVE  /\ refs' \in [Libraries -> 0 .. MaxOpens]
         /\ HandlesAccountedFor' /\ AllFinite' /\ CurrentMappings' /\ OpensBound'
         /\ \A l \in Libraries \ {loading[r][1]} : refs'[l] = refs[l]
<1> DEFINE lib == loading[r][1]
<1>1. lib \in Libraries /\ refs[lib] \in Nat /\ refs[lib] > 0
  BY LoadingIsMapped
<1>2. refs' = [refs EXCEPT ![lib] = refs[lib] - 1] /\ UNCHANGED mapping
  BY DEF Closed
<1>3. refs'[lib] = refs[lib] - 1 /\ \A l \in Libraries \ {lib} : refs'[l] = refs[l]
  BY <1>1, <1>2 DEF RegInv, TypeOK
<1>4. refs' \in [Libraries -> 0 .. MaxOpens]
  <2>1. refs[lib] - 1 \in 0 .. MaxOpens
    BY <1>1, RegistryAssumption DEF RegInv, TypeOK
  <2> QED BY <2>1, <1>2 DEF RegInv, TypeOK
<1>5. ASSUME NEW l \in Libraries
      PROVE  /\ InRegistries(l)' = InRegistries(l)
             /\ Held(l, lost)' = Held(l, lost)
             /\ IsFiniteSet(InLoads(l)')
             /\ Cardinality(InLoads(l)') =
                  IF l = lib THEN Cardinality(InLoads(l)) - 1 ELSE Cardinality(InLoads(l))
  <2>1. InRegistries(l)' = InRegistries(l) /\ Held(l, lost)' = Held(l, lost)
    BY DEF InRegistries, Held
  <2> QED BY <2>1, LoadEnds
<1>6. AllFinite'
  BY <1>5 DEF RegInv, AllFinite
<1>7. HandlesAccountedFor'
  <2> SUFFICES ASSUME NEW l \in Libraries
               PROVE  refs'[l] = Cardinality(InRegistries(l)') + Cardinality(InLoads(l)')
                                 + Cardinality(Held(l, lost)')
    BY DEF HandlesAccountedFor
  <2>1. refs[l] = Cardinality(InRegistries(l)) + Cardinality(InLoads(l)) + Cardinality(Held(l, lost))
    BY DEF RegInv, HandlesAccountedFor
  <2>2. /\ Cardinality(InRegistries(l)) \in Nat
        /\ Cardinality(InLoads(l)) \in Nat
        /\ Cardinality(Held(l, lost)) \in Nat
    BY FS_CardinalityType DEF RegInv, AllFinite
  <2> QED BY <2>1, <2>2, <1>3, <1>5
<1>8. CurrentMappings'
  BY <1>2, EndOfLoad DEF RegInv, CurrentMappings
<1>9. OpensBound'
  <2> SUFFICES ASSUME NEW l \in Libraries PROVE refs'[l] <= opens
    BY <1>2 DEF RegInv, OpensBound
  <2>1. refs[l] \in Nat /\ refs[l] <= opens /\ opens \in Nat
    BY RegistryAssumption DEF RegInv, TypeOK, OpensBound
  <2> QED BY <2>1, <1>3
<1> QED BY <1>3, <1>4, <1>6, <1>7, <1>8, <1>9

LEMMA MissingSymbolKeepsRegInv ==
  ASSUME RegInv, NEW r \in Registries, MissingSymbol(r)
  PROVE  RegInv'
<1>1. /\ loading[r] # None
      /\ loading[r][1] \notin Plugins
      /\ Closed(loading[r][1])
      /\ loading' = [loading EXCEPT ![r] = None]
      /\ UNCHANGED <<factories, handles, mapping, lost, refused, opens>>
  BY DEF MissingSymbol, Closed
<1>2. /\ refs' \in [Libraries -> 0 .. MaxOpens]
      /\ HandlesAccountedFor' /\ AllFinite' /\ CurrentMappings' /\ OpensBound'
      /\ \A l \in Libraries \ {loading[r][1]} : refs'[l] = refs[l]
  BY <1>1, ClosedAtEnd
<1>3. TypeOK'
  BY <1>1, <1>2, EndOfLoad DEF RegInv, TypeOK
<1>4. FromPlugins'
  BY <1>1 DEF RegInv, FromPlugins
<1>5. OnlyRefusalsDangle'
  <2> SUFFICES ASSUME NEW q \in Registries, NEW t \in Types, factories[q][t] \notin {Host, None},
                      factories[q][t] \notin refused
               PROVE  refs'[factories[q][t][1]] > 0 /\ mapping[factories[q][t][1]] = factories[q][t][2]
    BY <1>1 DEF OnlyRefusalsDangle, IsMapped
  <2>1. factories[q][t][1] \in Plugins
    BY DEF RegInv, FromPlugins
  <2>2. refs[factories[q][t][1]] > 0 /\ mapping[factories[q][t][1]] = factories[q][t][2]
    BY DEF RegInv, OnlyRefusalsDangle, IsMapped
  <2> QED BY <1>1, <1>2, <2>1, <2>2, RegistryAssumption
<1> QED BY <1>2, <1>3, <1>4, <1>5 DEF RegInv

LEMMA EntryPointRefusesKeepsRegInv ==
  ASSUME RegInv, NEW r \in Registries, EntryPointRefuses(r)
  PROVE  RegInv'
<1>1. /\ loading[r] # None
      /\ Closed(loading[r][1])
      /\ loading' = [loading EXCEPT ![r] = None]
      /\ refused' = refused \union {loading[r]}
      /\ UNCHANGED <<factories, handles, mapping, lost, opens>>
  BY DEF EntryPointRefuses, InEntryPoint, Closed
<1>2. /\ refs' \in [Libraries -> 0 .. MaxOpens]
      /\ HandlesAccountedFor' /\ AllFinite' /\ CurrentMappings' /\ OpensBound'
      /\ \A l \in Libraries \ {loading[r][1]} : refs'[l] = refs[l]
  BY <1>1, ClosedAtEnd
<1>3. loading[r] \in Image /\ mapping[loading[r][1]] = loading[r][2]
  BY <1>1, Loading
<1>4. TypeOK'
  BY <1>1, <1>2, <1>3, EndOfLoad DEF RegInv, TypeOK
<1>5. FromPlugins'
  BY <1>1 DEF RegInv, FromPlugins
<1>6. OnlyRefusalsDangle'
  <2> SUFFICES ASSUME NEW q \in Registries, NEW t \in Types, factories[q][t] \notin {Host, None},
                      factories[q][t] \notin refused, factories[q][t] # loading[r]
               PROVE  refs'[factories[q][t][1]] > 0 /\ mapping[factories[q][t][1]] = factories[q][t][2]
    BY <1>1 DEF OnlyRefusalsDangle, IsMapped
  <2>1. factories[q][t] \in Image
    BY DEF RegInv, TypeOK
  <2>2. refs[factories[q][t][1]] > 0 /\ mapping[factories[q][t][1]] = factories[q][t][2]
    BY DEF RegInv, OnlyRefusalsDangle, IsMapped
  \* the present mapping of the library that is closed is the refused image
  <2>3. factories[q][t][1] # loading[r][1]
    BY <1>3, <2>1, <2>2, Images
  <2> QED BY <1>2, <2>1, <2>2, <2>3, Images
<1> QED BY <1>2, <1>4, <1>5, <1>6 DEF RegInv
\* A step that leaves the handles, the loads and the linker alone.
LEMMA FactoriesOnly ==
  ASSUME RegInv, UNCHANGED <<handles, loading, refs, mapping, lost, refused, opens>>
  PROVE  HandlesAccountedFor' /\ AllFinite' /\ CurrentMappings' /\ OpensBound'
<1>1. ASSUME NEW lib \in Libraries
      PROVE  /\ InRegistries(lib)' = InRegistries(lib)
             /\ InLoads(lib)' = InLoads(lib)
             /\ Held(lib, lost)' = Held(lib, lost)
  BY DEF InRegistries, InLoads, Held
<1>2. HandlesAccountedFor' /\ AllFinite'
  BY <1>1 DEF RegInv, HandlesAccountedFor, AllFinite
<1>3. CurrentMappings' /\ OpensBound'
  BY DEF RegInv, CurrentMappings, OpensBound
<1> QED BY <1>2, <1>3

LEMMA PluginRegistersKeepsRegInv ==
  ASSUME RegInv, NEW r \in Registries, NEW type \in Types, PluginRegisters(r, type)
  PROVE  RegInv'
<1>1. /\ loading[r] # None
      /\ loading[r][1] \in Plugins
      /\ factories' = [factories EXCEPT ![r][type] = loading[r]]
      /\ UNCHANGED <<handles, loading, refs, mapping, lost, refused, opens>>
  BY DEF PluginRegisters, InEntryPoint
<1>2. /\ loading[r] \in Image
      /\ refs[loading[r][1]] > 0
      /\ mapping[loading[r][1]] = loading[r][2]
  BY <1>1, Loading, LoadingIsMapped
<1>3. TypeOK'
  BY <1>1, <1>2 DEF RegInv, TypeOK
<1>4. \A q \in Registries, t \in Types :
        factories'[q][t] = IF q = r /\ t = type THEN loading[r] ELSE factories[q][t]
  BY <1>1 DEF RegInv, TypeOK
<1>5. FromPlugins'
  BY <1>1, <1>4 DEF RegInv, FromPlugins
<1>6. OnlyRefusalsDangle'
  BY <1>1, <1>2, <1>4 DEF RegInv, OnlyRefusalsDangle, IsMapped
<1> QED BY <1>1, <1>3, <1>5, <1>6, FactoriesOnly DEF RegInv

LEMMA HostRegistersKeepsRegInv ==
  ASSUME RegInv, NEW r \in Registries, NEW type \in Types, HostRegisters(r, type)
  PROVE  RegInv'
<1>1. /\ factories' = [factories EXCEPT ![r][type] = Host]
      /\ UNCHANGED <<handles, loading, refs, mapping, lost, refused, opens>>
  BY DEF HostRegisters
<1>2. TypeOK'
  BY <1>1 DEF RegInv, TypeOK
<1>3. \A q \in Registries, t \in Types :
        factories'[q][t] = IF q = r /\ t = type THEN Host ELSE factories[q][t]
  BY <1>1 DEF RegInv, TypeOK
<1>4. FromPlugins' /\ OnlyRefusalsDangle'
  BY <1>1, <1>3 DEF RegInv, FromPlugins, OnlyRefusalsDangle, IsMapped
<1> QED BY <1>1, <1>2, <1>4, FactoriesOnly DEF RegInv

LEMMA EntryPointThrowsKeepsRegInv ==
  ASSUME RegInv, NEW r \in Registries, EntryPointThrows(r)
  PROVE  RegInv'
<1> DEFINE image == loading[r]
<1>1. /\ loading[r] # None
      /\ loading' = [loading EXCEPT ![r] = None]
      /\ lost' = Append(lost, image)
      /\ UNCHANGED <<factories, handles, refs, mapping, refused, opens>>
  BY DEF EntryPointThrows, InEntryPoint
<1>2. image \in Image /\ mapping[image[1]] = image[2] /\ image[1] \in Libraries
  BY <1>1, Loading, LoadingIsMapped
<1>3. lost \in Seq(Image)
  BY DEF RegInv, TypeOK
<1>4. TypeOK'
  BY <1>1, <1>2, <1>3, AppendProperties, EndOfLoad DEF RegInv, TypeOK
<1>5. ASSUME NEW l \in Libraries
      PROVE  /\ InRegistries(l)' = InRegistries(l)
             /\ IsFiniteSet(InLoads(l)')
             /\ Cardinality(InLoads(l)') =
                  IF l = image[1] THEN Cardinality(InLoads(l)) - 1 ELSE Cardinality(InLoads(l))
             /\ IsFiniteSet(Held(l, lost)')
             /\ Cardinality(Held(l, lost)') =
                  IF l = image[1] THEN Cardinality(Held(l, lost)) + 1 ELSE Cardinality(Held(l, lost))
  <2>1. InRegistries(l)' = InRegistries(l)
    BY <1>1 DEF InRegistries, Held
  <2>2. /\ IsFiniteSet(InLoads(l)')
        /\ Cardinality(InLoads(l)') =
             IF l = image[1] THEN Cardinality(InLoads(l)) - 1 ELSE Cardinality(InLoads(l))
    BY <1>1, LoadEnds
  <2>3. /\ Len(lost) + 1 \notin Held(l, lost)
        /\ Held(l, lost)' = IF image[1] = l THEN Held(l, lost) \cup {Len(lost) + 1} ELSE Held(l, lost)
    <3>1. Held(l, lost)' = Held(l, Append(lost, image))
      BY <1>1 DEF Held
    <3>2. /\ Len(lost) + 1 \notin Held(l, lost)
          /\ Held(l, Append(lost, image)) =
               IF image[1] = l THEN Held(l, lost) \cup {Len(lost) + 1} ELSE Held(l, lost)
      BY <1>2, <1>3, HeldAppend
    <3> QED BY <3>1, <3>2
  <2> QED BY <2>1, <2>2, <2>3, FS_AddElement DEF RegInv, AllFinite
<1>6. AllFinite'
  BY <1>5 DEF RegInv, AllFinite
<1>7. HandlesAccountedFor'
  <2> SUFFICES ASSUME NEW l \in Libraries
               PROVE  refs[l] = Cardinality(InRegistries(l)') + Cardinality(InLoads(l)')
                                + Cardinality(Held(l, lost)')
    BY <1>1 DEF HandlesAccountedFor
  <2>1. refs[l] = Cardinality(InRegistries(l)) + Cardinality(InLoads(l)) + Cardinality(Held(l, lost))
    BY DEF RegInv, HandlesAccountedFor
  <2>2. /\ Cardinality(InRegistries(l)) \in Nat
        /\ Cardinality(InLoads(l)) \in Nat
        /\ Cardinality(Held(l, lost)) \in Nat
    BY FS_CardinalityType DEF RegInv, AllFinite
  <2> QED BY <2>1, <2>2, <1>5
<1>8. CurrentMappings'
  <2>1. \A i \in DOMAIN lost' : mapping[lost'[i][1]] = lost'[i][2]
    <3>1. \A i \in DOMAIN lost' : (i \in DOMAIN lost /\ lost'[i] = lost[i]) \/ lost'[i] = image
      BY <1>1, <1>2, <1>3, AppendProperties, LenProperties
    <3> QED BY <3>1, <1>2 DEF RegInv, CurrentMappings
  <2> QED BY <2>1, <1>1, EndOfLoad DEF RegInv, CurrentMappings
<1>9. OpensBound' /\ FromPlugins' /\ OnlyRefusalsDangle'
  BY <1>1 DEF RegInv, OpensBound, FromPlugins, OnlyRefusalsDangle, IsMapped
<1> QED BY <1>4, <1>6, <1>7, <1>8, <1>9 DEF RegInv

LEMMA EntryPointAcceptsKeepsRegInv ==
  ASSUME RegInv, NEW r \in Registries, EntryPointAccepts(r)
  PROVE  RegInv'
<1> DEFINE image == loading[r]
           slot == <<r, Len(handles[r]) + 1>>
<1>1. /\ loading[r] # None
      /\ loading' = [loading EXCEPT ![r] = None]
      /\ handles' = [handles EXCEPT ![r] = Append(handles[r], image)]
      /\ UNCHANGED <<factories, lost, refs, mapping, refused, opens>>
  BY DEF EntryPointAccepts, InEntryPoint
<1>2. image \in Image /\ mapping[image[1]] = image[2] /\ image[1] \in Libraries
  BY <1>1, Loading, LoadingIsMapped
<1>3. handles[r] \in Seq(Image)
  BY DEF RegInv, TypeOK
<1>4. \A q \in Registries : handles'[q] = IF q = r THEN Append(handles[r], image) ELSE handles[q]
  BY <1>1 DEF RegInv, TypeOK
<1>5. TypeOK'
  BY <1>1, <1>2, <1>3, AppendProperties, EndOfLoad DEF RegInv, TypeOK
<1>6. ASSUME NEW l \in Libraries
      PROVE  /\ slot \notin InRegistries(l)
             /\ InRegistries(l)' = IF image[1] = l THEN InRegistries(l) \cup {slot} ELSE InRegistries(l)
             /\ IsFiniteSet(InLoads(l)')
             /\ Cardinality(InLoads(l)') =
                  IF l = image[1] THEN Cardinality(InLoads(l)) - 1 ELSE Cardinality(InLoads(l))
             /\ Held(l, lost)' = Held(l, lost)
  <2>1. /\ Len(handles[r]) + 1 \notin Held(l, handles[r])
        /\ Held(l, Append(handles[r], image)) =
             IF image[1] = l THEN Held(l, handles[r]) \cup {Len(handles[r]) + 1} ELSE Held(l, handles[r])
    BY <1>2, <1>3, HeldAppend
  <2>2. slot \notin InRegistries(l)
    BY <2>1 DEF InRegistries
  <2>3. \A q \in Registries : Held(l, handles'[q]) =
          IF q = r THEN Held(l, Append(handles[r], image)) ELSE Held(l, handles[q])
    BY <1>4
  <2>4. InRegistries(l)' = UNION {{<<q, i>> : i \in Held(l, handles'[q])} : q \in Registries}
    BY DEF InRegistries, Held
  <2>5. InRegistries(l)' = IF image[1] = l THEN InRegistries(l) \cup {slot} ELSE InRegistries(l)
    BY <2>1, <2>3, <2>4 DEF InRegistries
  <2>6. Held(l, lost)' = Held(l, lost)
    BY <1>1 DEF Held
  <2> QED BY <2>2, <2>5, <2>6, <1>1, LoadEnds
<1>7. ASSUME NEW l \in Libraries
      PROVE  /\ IsFiniteSet(InRegistries(l)')
             /\ Cardinality(InRegistries(l)') =
                  IF l = image[1] THEN Cardinality(InRegistries(l)) + 1 ELSE Cardinality(InRegistries(l))
  <2>1. IsFiniteSet(InRegistries(l))
    BY DEF RegInv, AllFinite
  <2> HIDE DEF slot
  <2> QED BY <2>1, <1>6, FS_AddElement
<1>8. AllFinite'
  BY <1>6, <1>7 DEF RegInv, AllFinite
<1>9. HandlesAccountedFor'
  <2> SUFFICES ASSUME NEW l \in Libraries
               PROVE  refs[l] = Cardinality(InRegistries(l)') + Cardinality(InLoads(l)')
                                + Cardinality(Held(l, lost)')
    BY <1>1 DEF HandlesAccountedFor
  <2>1. refs[l] = Cardinality(InRegistries(l)) + Cardinality(InLoads(l)) + Cardinality(Held(l, lost))
    BY DEF RegInv, HandlesAccountedFor
  <2>2. /\ Cardinality(InRegistries(l)) \in Nat
        /\ Cardinality(InLoads(l)) \in Nat
        /\ Cardinality(Held(l, lost)) \in Nat
    BY FS_CardinalityType DEF RegInv, AllFinite
  <2> QED BY <2>1, <2>2, <1>6, <1>7
<1>10. CurrentMappings'
  <2>1. \A q \in Registries : \A i \in DOMAIN handles'[q] :
          mapping[handles'[q][i][1]] = handles'[q][i][2]
    <3>1. \A q \in Registries : \A i \in DOMAIN handles'[q] :
            (i \in DOMAIN handles[q] /\ handles'[q][i] = handles[q][i]) \/ handles'[q][i] = image
      <4>1. \A i \in DOMAIN Append(handles[r], image) :
              \/ i \in DOMAIN handles[r] /\ Append(handles[r], image)[i] = handles[r][i]
              \/ Append(handles[r], image)[i] = image
        BY <1>2, <1>3, AppendProperties, LenProperties
      <4> QED BY <4>1, <1>4
    <3> QED BY <3>1, <1>2 DEF RegInv, CurrentMappings
  <2> QED BY <2>1, <1>1, EndOfLoad DEF RegInv, CurrentMappings
<1>11. OpensBound' /\ FromPlugins' /\ OnlyRefusalsDangle'
  BY <1>1 DEF RegInv, OpensBound, FromPlugins, OnlyRefusalsDangle, IsMapped
<1> QED BY <1>5, <1>8, <1>9, <1>10, <1>11 DEF RegInv

LEMMA RenewKeepsRegInv ==
  ASSUME RegInv, NEW r \in Registries, Renew(r)
  PROVE  RegInv'
<1>1. /\ factories' = [factories EXCEPT ![r] = [t \in Types |-> None]]
      /\ handles' = [handles EXCEPT ![r] = << >>]
      /\ lost' = lost \o handles[r]
      /\ UNCHANGED <<loading, refs, mapping, refused, opens>>
  BY DEF Renew
<1>2. lost \in Seq(Image) /\ handles[r] \in Seq(Image)
  BY DEF RegInv, TypeOK
<1>3. /\ \A q \in Registries : handles'[q] = IF q = r THEN << >> ELSE handles[q]
      /\ \A q \in Registries, t \in Types :
           factories'[q][t] = IF q = r THEN None ELSE factories[q][t]
  BY <1>1 DEF RegInv, TypeOK
<1>4. TypeOK'
  <2>1. lost' \in Seq(Image)
    BY <1>1, <1>2, ConcatProperties
  <2>2. handles' \in [Registries -> Seq(Image)]
    BY <1>1, EmptySeq DEF RegInv, TypeOK
  <2>3. factories' \in [Registries -> [Types -> Image \union {Host, None}]]
    BY <1>1 DEF RegInv, TypeOK
  <2> QED BY <2>1, <2>2, <2>3, <1>1 DEF RegInv, TypeOK
\* The registry's handles of a library become lost ones, one for one.
<1>5. ASSUME NEW l \in Libraries
      PROVE  /\ IsFiniteSet(InRegistries(l)')
             /\ IsFiniteSet(Held(l, lost)')
             /\ InLoads(l)' = InLoads(l)
             /\ Cardinality(InRegistries(l)') + Cardinality(Held(l, lost)') =
                  Cardinality(InRegistries(l)) + Cardinality(Held(l, lost))
  <2> DEFINE H == Held(l, handles[r])
             G == {<<r, i>> : i \in H}
             f == [i \in H |-> <<r, i>>]
  <2>1. InRegistries(l)' = InRegistries(l) \ G /\ G \subseteq InRegistries(l)
    <3>1. InRegistries(l)' = UNION {{<<q, i>> : i \in Held(l, handles'[q])} : q \in Registries}
      BY DEF InRegistries, Held
    <3>2. Held(l, << >>) = {}
      BY DEF Held
    <3>3. \A q \in Registries : Held(l, handles'[q]) = IF q = r THEN {} ELSE Held(l, handles[q])
      BY <1>3, <3>2
    <3> QED BY <3>1, <3>3 DEF InRegistries
  <2>2. IsFiniteSet(InRegistries(l)) /\ IsFiniteSet(Held(l, lost))
    BY DEF RegInv, AllFinite
  <2>3. f \in Bijection(H, G)
    <3>1. f \in [H -> G] /\ (\A a, b \in H : f[a] = f[b] => a = b) /\ \A g \in G : \E b \in H : f[b] = g
      OBVIOUS
    <3> QED BY <3>1, Fun_IsBij
  <2>4. IsFiniteSet(G)
    BY <2>1, <2>2, FS_Subset
  <2>5. IsFiniteSet(H) /\ Cardinality(H) = Cardinality(G)
    <3>1. ExistsBijection(H, G)
      BY <2>3, Fun_ExistsBij
    <3>2. ExistsBijection(G, H)
      BY <3>1, Fun_ExistsBijSymmetric
    <3> QED BY <3>2, <2>4, FS_Bijection
  <2>6. /\ IsFiniteSet(InRegistries(l)')
        /\ Cardinality(InRegistries(l)') = Cardinality(InRegistries(l)) - Cardinality(G)
    <3>1. InRegistries(l) \cap G = G
      BY <2>1
    <3> HIDE DEF G
    <3> QED BY <2>1, <2>2, <3>1, FS_Difference
  <2>7. /\ IsFiniteSet(Held(l, lost)')
        /\ Cardinality(Held(l, lost)') = Cardinality(Held(l, lost)) + Cardinality(H)
    <3>1. Held(l, lost)' = Held(l, lost \o handles[r])
      BY <1>1 DEF Held
    <3> QED BY <3>1, <1>2, <2>2, <2>5, HeldConcat
  <2>8. InLoads(l)' = InLoads(l)
    BY <1>1 DEF InLoads
  <2>9. /\ Cardinality(InRegistries(l)) \in Nat
        /\ Cardinality(Held(l, lost)) \in Nat
        /\ Cardinality(G) \in Nat
    BY <2>2, <2>4, FS_CardinalityType
  <2> HIDE DEF G, H
  <2> QED BY <2>5, <2>6, <2>7, <2>8, <2>9
<1>6. AllFinite'
  BY <1>5 DEF RegInv, AllFinite
<1>7. HandlesAccountedFor'
  <2> SUFFICES ASSUME NEW l \in Libraries
               PROVE  refs[l] = Cardinality(InRegistries(l)') + Cardinality(InLoads(l)')
                                + Cardinality(Held(l, lost)')
    BY <1>1 DEF HandlesAccountedFor
  <2>1. refs[l] = Cardinality(InRegistries(l)) + Cardinality(InLoads(l)) + Cardinality(Held(l, lost))
    BY DEF RegInv, HandlesAccountedFor
  <2>2. /\ Cardinality(InRegistries(l)) \in Nat
        /\ Cardinality(InLoads(l)) \in Nat
        /\ Cardinality(Held(l, lost)) \in Nat
        /\ Cardinality(InRegistries(l)') \in Nat
        /\ Cardinality(Held(l, lost)') \in Nat
    BY <1>5, FS_CardinalityType DEF RegInv, AllFinite
  <2> QED BY <2>1, <2>2, <1>5
<1>8. CurrentMappings'
  <2>1. \A q \in Registries : \A i \in DOMAIN handles'[q] :
          mapping[handles'[q][i][1]] = handles'[q][i][2]
    BY <1>3 DEF RegInv, CurrentMappings
  <2>2. \A i \in DOMAIN lost' : mapping[lost'[i][1]] = lost'[i][2]
    <3> SUFFICES ASSUME NEW i \in DOMAIN lost' PROVE mapping[lost'[i][1]] = lost'[i][2]
      OBVIOUS
    <3>1. /\ Len(lost) \in Nat /\ Len(handles[r]) \in Nat
          /\ DOMAIN lost = 1 .. Len(lost) /\ DOMAIN handles[r] = 1 .. Len(handles[r])
          /\ DOMAIN lost' = 1 .. Len(lost) + Len(handles[r])
          /\ lost'[i] = IF i <= Len(lost) THEN lost[i] ELSE handles[r][i - Len(lost)]
      BY <1>1, <1>2, ConcatProperties, LenProperties
    <3>2. CASE i <= Len(lost)
      BY <3>1, <3>2 DEF RegInv, CurrentMappings
    <3>3. CASE ~(i <= Len(lost))
      <4>1. i - Len(lost) \in DOMAIN handles[r]
        BY <3>1, <3>3
      <4> QED BY <4>1, <3>1, <3>3 DEF RegInv, CurrentMappings
    <3> QED BY <3>2, <3>3
  <2> QED BY <2>1, <2>2, <1>1 DEF RegInv, CurrentMappings
<1>9. OpensBound' /\ FromPlugins' /\ OnlyRefusalsDangle'
  BY <1>1, <1>3 DEF RegInv, OpensBound, FromPlugins, OnlyRefusalsDangle, IsMapped
<1> QED BY <1>4, <1>6, <1>7, <1>8, <1>9 DEF RegInv

-----------------------------------------------------------------------------
(* The theorems *)

LEMMA StepKeepsRegInv == RegInv /\ [Next]_vars => RegInv'
<1> SUFFICES ASSUME RegInv, [Next]_vars PROVE RegInv'
  OBVIOUS
<1>1. CASE Next
  <2>1. PICK r \in Registries :
          \/ \E lib \in Libraries : Open(r, lib)
          \/ MissingSymbol(r)
          \/ \E t \in Types : PluginRegisters(r, t)
          \/ EntryPointRefuses(r)
          \/ EntryPointThrows(r)
          \/ EntryPointAccepts(r)
          \/ \E t \in Types : HostRegisters(r, t)
          \/ Renew(r)
    BY <1>1 DEF Next
  <2>2. CASE \E lib \in Libraries : Open(r, lib)
    BY <2>2, OpenKeepsRegInv
  <2>3. CASE MissingSymbol(r)
    BY <2>3, MissingSymbolKeepsRegInv
  <2>4. CASE \E t \in Types : PluginRegisters(r, t)
    BY <2>4, PluginRegistersKeepsRegInv
  <2>5. CASE EntryPointRefuses(r)
    BY <2>5, EntryPointRefusesKeepsRegInv
  <2>6. CASE EntryPointThrows(r)
    BY <2>6, EntryPointThrowsKeepsRegInv
  <2>7. CASE EntryPointAccepts(r)
    BY <2>7, EntryPointAcceptsKeepsRegInv
  <2>8. CASE \E t \in Types : HostRegisters(r, t)
    BY <2>8, HostRegistersKeepsRegInv
  <2>9. CASE Renew(r)
    BY <2>9, RenewKeepsRegInv
  <2> QED BY <2>1, <2>2, <2>3, <2>4, <2>5, <2>6, <2>7, <2>8, <2>9
<1>2. CASE UNCHANGED vars
  <2>1. UNCHANGED <<factories, handles, loading, refs, mapping, lost, refused, opens>>
    BY <1>2 DEF vars
  <2>2. TypeOK' /\ FromPlugins' /\ OnlyRefusalsDangle'
    BY <2>1 DEF RegInv, TypeOK, FromPlugins, OnlyRefusalsDangle, IsMapped
  <2> QED BY <2>1, <2>2, FactoriesOnly DEF RegInv
<1> QED BY <1>1, <1>2

LEMMA RegInvHolds == Spec => []RegInv
BY InitRegInv, StepKeepsRegInv, PTL DEF Spec

(* The registries, handles and mappings keep their types, however many     *)
(* loads of however many registries interleave.                            *)
THEOREM RegistryTyped == Spec => []TypeOK
<1>1. RegInv => TypeOK
  BY DEF RegInv
<1> QED BY <1>1, RegInvHolds, PTL

(* No handle is closed twice or forgotten: the dynamic linker's count of a *)
(* library is the number of handles in registries, in loads in progress    *)
(* and lost.                                                               *)
THEOREM HandlesAddUp == Spec => []HandlesAccountedFor
<1>1. RegInv => HandlesAccountedFor
  BY DEF RegInv
<1> QED BY <1>1, RegInvHolds, PTL

(* A library whose load has returned stays mapped, in the mapping it was   *)
(* loaded in, as long as the registry that loaded it lives.                *)
THEOREM LibrariesStayMapped == Spec => []LoadedStaysMapped
<1>1. RegInv => LoadedStaysMapped
  <2> SUFFICES ASSUME RegInv, NEW r \in Registries, NEW i \in DOMAIN handles[r]
               PROVE  refs[handles[r][i][1]] > 0 /\ mapping[handles[r][i][1]] = handles[r][i][2]
    BY DEF LoadedStaysMapped, IsMapped
  <2> DEFINE lib == handles[r][i][1]
  <2>1. lib \in Libraries
    <3>1. handles[r][i] \in Image
      BY ElementOfSeq, LenProperties DEF RegInv, TypeOK
    <3> QED BY <3>1, Images
  <2>2. <<r, i>> \in InRegistries(lib)
    <3>1. i \in Held(lib, handles[r])
      BY DEF Held
    <3> QED BY <3>1 DEF InRegistries
  <2>3. refs[lib] \in Nat /\ refs[lib] # 0
    BY <2>1, <2>2, OpenIsMapped
  <2> QED BY <2>3 DEF RegInv, CurrentMappings
<1> QED BY <1>1, RegInvHolds, PTL

(* A factory whose code is gone came from a plugin whose entry point       *)
(* refused: no other failure of a load, and no later load, unmaps code a   *)
(* factory lives in.                                                       *)
THEOREM DanglingIsRefused == Spec => []OnlyRefusalsDangle
<1>1. RegInv => OnlyRefusalsDangle
  BY DEF RegInv
<1> QED BY <1>1, RegInvHolds, PTL

=============================================================================
