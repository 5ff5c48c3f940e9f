-------------------------- MODULE HelmValuesProofs --------------------------
(***************************************************************************)
(* Proofs about HelmValues, for values with lists of any length and any    *)
(* number of controllers.  What a loop over a list leaves of it takes an   *)
(* induction, and that the recursion of Without defines a function takes   *)
(* another.  The library's induction theorems range over operators, which  *)
(* no prover here instantiates; the one below ranges over sets.            *)
(***************************************************************************)
EXTENDS HelmValues, FiniteSetTheorems, TLAPS

-----------------------------------------------------------------------------
(* Induction *)

LEMMA NatSetInduction ==
    ASSUME NEW S \in SUBSET Nat, 0 \in S, \A n \in S : n + 1 \in S
    PROVE  S = Nat
  <1>. SUFFICES ASSUME NEW n \in Nat, n \notin S PROVE FALSE
    OBVIOUS
  <1>. DEFINE T == {1 .. m : m \in Nat \ S}
  <1>1. T \subseteq FiniteSubsetsOf(Nat) /\ T # {}
    <2>1. \A m \in Nat : 1 .. m \subseteq Nat /\ IsFiniteSet(1 .. m)
      BY FS_Interval
    <2>. QED  BY <2>1 DEF FiniteSubsetsOf
  <1>2. PICK x \in T : \A y \in T : <<y, x>> \notin StrictSubsetOrdering(Nat)
    BY <1>1, WFMin, FS_StrictSubsetOrderingWellFounded
  <1>3. PICK m \in Nat \ S : x = 1 .. m
    BY <1>2
  <1>4. m # 0 /\ m - 1 \in Nat \ S
    BY <1>3
  <1>5. 1 .. (m - 1) \in T
    BY <1>4
  <1>6. <<1 .. (m - 1), 1 .. m>> \in StrictSubsetOrdering(Nat)
    <2>1. 1 .. (m - 1) \subseteq 1 .. m /\ 1 .. m \subseteq Nat
      BY <1>4
    <2>2. m \in 1 .. m /\ m \notin 1 .. (m - 1)
      BY <1>4
    <2>. QED  BY <2>1, <2>2 DEF StrictSubsetOrdering
  <1>. QED  BY <1>2, <1>3, <1>5, <1>6

-----------------------------------------------------------------------------
(* The loop *)

\* What the loop does with the i-th entry.
Step(list, conflicting, u, i) ==
    IF list[i] \in conflicting THEN u ELSE Append(u, list[i])

\* u is a run of the loop over the first n entries of list.
Loop(list, conflicting, n, u) ==
    u = [i \in 0 .. n |->
            IF i = 0 THEN <<>> ELSE Step(list, conflicting, u[i - 1], i)]

\* The recursion of Without has a solution.
LEMMA LoopExists ==
    ASSUME NEW list, NEW conflicting
    PROVE  \A n \in Nat : \E u : Loop(list, conflicting, n, u)
  <1>. DEFINE S == {n \in Nat : \E u : Loop(list, conflicting, n, u)}
  <1>1. 0 \in S
    <2>. DEFINE u == [i \in 0 .. 0 |-> <<>>]
    <2>1. Loop(list, conflicting, 0, u)
      BY DEF Loop
    <2>. QED  BY <2>1
  <1>2. ASSUME NEW n \in S PROVE n + 1 \in S
    <2>1. PICK u : Loop(list, conflicting, n, u)
      BY <1>2
    <2>. DEFINE last == Step(list, conflicting, u[n], n + 1)
                w == [i \in 0 .. n + 1 |-> IF i = n + 1 THEN last ELSE u[i]]
    <2>2. n \in Nat
      BY <1>2
    <2>3. ASSUME NEW i \in 0 .. n + 1
          PROVE  w[i] = IF i = 0 THEN <<>> ELSE Step(list, conflicting, w[i - 1], i)
      <3>1. CASE i = n + 1
        BY <2>2, <3>1
      <3>2. CASE i # n + 1
        <4>1. i \in 0 .. n /\ w[i] = u[i] /\ (i # 0 => w[i - 1] = u[i - 1])
          BY <2>2, <3>2
        <4>2. u[i] = IF i = 0 THEN <<>> ELSE Step(list, conflicting, u[i - 1], i)
          BY <2>1, <4>1 DEF Loop
        <4>. QED  BY <4>1, <4>2
      <3>. QED  BY <3>1, <3>2
    <2>4. Loop(list, conflicting, n + 1, w)
      BY <2>3 DEF Loop
    <2>. QED  BY <2>2, <2>4
  <1>3. S = Nat
    <2>. HIDE DEF S
    <2>1. S \in SUBSET Nat
      BY DEF S
    <2>. QED  BY <1>1, <1>2, <2>1, NatSetInduction
  <1>. QED  BY <1>3

\* r is what is left of the first n entries of list without the conflicting ones,
\* in their order: the i-th of them was at position at[i].
Leaves(list, conflicting, n, r, at) ==
    /\ at \in [DOMAIN r -> 1 .. n]
    /\ \A i \in DOMAIN r : r[i] = list[at[i]] /\ r[i] \notin conflicting
    /\ \A i, j \in DOMAIN r : i < j => at[i] < at[j]
    /\ \A p \in 1 .. n : list[p] \notin conflicting => \E i \in DOMAIN r : at[i] = p

LEMMA StepLeaves ==
    ASSUME NEW S, NEW list \in Seq(S), NEW conflicting, NEW n \in Nat,
           n + 1 <= Len(list), NEW r \in Seq(S), NEW at,
           Leaves(list, conflicting, n, r, at)
    PROVE  /\ Step(list, conflicting, r, n + 1) \in Seq(S)
           /\ \E b : Leaves(list, conflicting, n + 1, Step(list, conflicting, r, n + 1), b)
  <1>1. CASE list[n + 1] \in conflicting
    <2>1. Leaves(list, conflicting, n + 1, r, at)
      BY <1>1 DEF Leaves
    <2>. QED  BY <1>1, <2>1 DEF Step
  <1>2. CASE list[n + 1] \notin conflicting
    <2>. DEFINE q == Append(r, list[n + 1])
                b == [i \in DOMAIN q |-> IF i = Len(r) + 1 THEN n + 1 ELSE at[i]]
    <2>1. /\ q \in Seq(S) /\ Len(r) \in Nat /\ DOMAIN r = 1 .. Len(r)
          /\ DOMAIN q = 1 .. Len(r) + 1
          /\ q[Len(r) + 1] = list[n + 1] /\ \A i \in DOMAIN r : q[i] = r[i]
      OBVIOUS
    <2>. HIDE DEF q
    <2>2. b \in [DOMAIN q -> 1 .. n + 1]
      BY <2>1 DEF Leaves
    <2>3. /\ b[Len(r) + 1] = n + 1
          /\ \A i \in DOMAIN r : b[i] = at[i] /\ at[i] \in 1 .. n
      BY <2>1 DEF Leaves
    <2>. HIDE DEF b
    <2>4. ASSUME NEW i \in DOMAIN q PROVE q[i] = list[b[i]] /\ q[i] \notin conflicting
      BY <1>2, <2>1, <2>3 DEF Leaves
    <2>5. ASSUME NEW i \in DOMAIN q, NEW j \in DOMAIN q, i < j PROVE b[i] < b[j]
      BY <2>1, <2>3, <2>5 DEF Leaves
    <2>6. ASSUME NEW p \in 1 .. n + 1, list[p] \notin conflicting
          PROVE  \E i \in DOMAIN q : b[i] = p
      <3>1. CASE p = n + 1
        BY <2>1, <2>3, <3>1
      <3>2. CASE p # n + 1
        <4>1. p \in 1 .. n
          BY <3>2
        <4>2. PICK i \in DOMAIN r : at[i] = p
          BY <2>6, <4>1 DEF Leaves
        <4>3. i \in DOMAIN q /\ b[i] = p
          BY <2>1, <2>3, <4>2
        <4>. QED  BY <4>3
      <3>. QED  BY <3>1, <3>2
    <2>7. Leaves(list, conflicting, n + 1, q, b)
      BY <2>2, <2>4, <2>5, <2>6 DEF Leaves
    <2>. QED  BY <1>2, <2>1, <2>7 DEF Step, q
  <1>. QED  BY <1>1, <1>2

LEMMA LoopLeaves ==
    ASSUME NEW S, NEW list \in Seq(S), NEW conflicting, NEW u,
           Loop(list, conflicting, Len(list), u)
    PROVE  /\ u[Len(list)] \in Seq(S)
           /\ \E at : Leaves(list, conflicting, Len(list), u[Len(list)], at)
  <1>. DEFINE P == {n \in Nat : n <= Len(list) =>
                        /\ u[n] \in Seq(S)
                        /\ \E at : Leaves(list, conflicting, n, u[n], at)}
  <1>0. Len(list) \in Nat
    OBVIOUS
  <1>1. 0 \in P
    <2>1. u[0] = <<>>
      BY <1>0 DEF Loop
    <2>2. <<>> \in Seq(S) /\ DOMAIN <<>> = {}
      OBVIOUS
    <2>3. Leaves(list, conflicting, 0, <<>>, [i \in {} |-> 0])
      BY <2>2 DEF Leaves
    <2>. QED  BY <2>1, <2>2, <2>3
  <1>2. ASSUME NEW n \in P PROVE n + 1 \in P
    <2>. SUFFICES ASSUME n + 1 <= Len(list)
                  PROVE  /\ u[n + 1] \in Seq(S)
                         /\ \E at : Leaves(list, conflicting, n + 1, u[n + 1], at)
      BY <1>2
    <2>1. n \in Nat /\ n <= Len(list)
      BY <1>0
    <2>2. u[n] \in Seq(S) /\ \E at : Leaves(list, conflicting, n, u[n], at)
      BY <2>1
    <2>3. u[n + 1] = Step(list, conflicting, u[n], n + 1)
      BY <1>0, <2>1 DEF Loop
    <2>. QED  BY <2>1, <2>2, <2>3, StepLeaves
  <1>3. P = Nat
    <2>. HIDE DEF P
    <2>1. P \in SUBSET Nat
      BY DEF P
    <2>. QED  BY <1>1, <1>2, <2>1, NatSetInduction
  <1>. QED  BY <1>0, <1>3

\* Without leaves exactly the entries that are not conflicting, in their order.
LEMMA WithoutLeaves ==
    ASSUME NEW S, NEW list \in Seq(S), NEW conflicting
    PROVE  /\ Without(list, conflicting) \in Seq(S)
           /\ \E at : Leaves(list, conflicting, Len(list), Without(list, conflicting), at)
  <1>. DEFINE u == CHOOSE w : Loop(list, conflicting, Len(list), w)
  <1>1. Loop(list, conflicting, Len(list), u)
    <2>1. Len(list) \in Nat
      OBVIOUS
    <2>. QED  BY <2>1, LoopExists
  <1>2. Without(list, conflicting) = u[Len(list)]
    BY DEF Without, Loop, Step
  <1>. HIDE DEF u
  <1>. QED  BY <1>1, <1>2, LoopLeaves

-----------------------------------------------------------------------------
(* The lists of a section *)

\* What a loop leaves of a list with the bundle's entry behind it: the entries
\* that were not in the way and the new one, the others in their order.
LEMMA AppendedEntries ==
    ASSUME NEW S, NEW list \in Seq(S), NEW conflicting, NEW new
    PROVE  Elements(Append(Without(list, conflicting), new))
                = (Elements(list) \ conflicting) \cup {new}
  <1>. DEFINE r == Without(list, conflicting)
  <1>1. r \in Seq(S)
    BY WithoutLeaves
  <1>2. PICK at : Leaves(list, conflicting, Len(list), r, at)
    BY WithoutLeaves
  <1>. HIDE DEF r
  <1>3. Elements(r) = Elements(list) \ conflicting
    <2>0. DOMAIN list = 1 .. Len(list)
      OBVIOUS
    <2>1. ASSUME NEW i \in DOMAIN r PROVE r[i] \in Elements(list) \ conflicting
      BY <1>2, <2>0 DEF Leaves, Elements
    <2>2. ASSUME NEW p \in DOMAIN list, list[p] \notin conflicting
          PROVE  list[p] \in Elements(r)
      BY <1>2, <2>0, <2>2 DEF Leaves, Elements
    <2>. QED  BY <2>1, <2>2 DEF Elements
  <1>4. /\ DOMAIN Append(r, new) = 1 .. Len(r) + 1 /\ DOMAIN r = 1 .. Len(r)
        /\ Len(r) \in Nat
        /\ Append(r, new)[Len(r) + 1] = new
        /\ \A i \in DOMAIN r : Append(r, new)[i] = r[i]
    BY <1>1
  <1>5. Elements(Append(r, new)) = Elements(r) \cup {new}
    BY <1>4 DEF Elements
  <1>. QED  BY <1>3, <1>4, <1>5 DEF r

\* The entries of the list have different keys.
Keyed(list, key) == \A i, j \in DOMAIN list : key[list[i]] = key[list[j]] => i = j

\* All entries with the key of the new one are in the way.
Clears(list, conflicting, new, key) ==
    \A e \in Elements(list) : key[e] = key[new] => e \in conflicting

\* Entries that had different keys still have, if all that have the key of the new
\* one are taken out.
LEMMA AppendedDistinct ==
    ASSUME NEW S, NEW list \in Seq(S), NEW conflicting, NEW new, NEW key,
           Keyed(list, key), Clears(list, conflicting, new, key),
           NEW q, q = Append(Without(list, conflicting), new)
    PROVE  Keyed(q, key)
  <1>. DEFINE r == Without(list, conflicting)
  <1>1. r \in Seq(S)
    BY WithoutLeaves
  <1>2. PICK at : Leaves(list, conflicting, Len(list), r, at)
    BY WithoutLeaves
  <1>0. q = Append(r, new)
    OBVIOUS
  <1>. HIDE DEF r
  <1>3. /\ DOMAIN q = 1 .. Len(r) + 1 /\ DOMAIN r = 1 .. Len(r) /\ Len(r) \in Nat
        /\ q[Len(r) + 1] = new
        /\ \A i \in DOMAIN r : q[i] = r[i]
    <2>1. /\ DOMAIN Append(r, new) = 1 .. Len(r) + 1
          /\ DOMAIN r = 1 .. Len(r) /\ Len(r) \in Nat
          /\ Append(r, new)[Len(r) + 1] = new
          /\ \A i \in DOMAIN r : Append(r, new)[i] = r[i]
      BY <1>1
    <2>. QED  BY <1>0, <2>1
  <1>4. DOMAIN list = 1 .. Len(list)
    OBVIOUS
  <1>5. ASSUME NEW i \in DOMAIN r PROVE key[r[i]] # key[new]
    <2>1. r[i] \in Elements(list) /\ r[i] \notin conflicting
      BY <1>2, <1>4 DEF Leaves, Elements
    <2>. QED  BY <2>1 DEF Clears
  <1>6. ASSUME NEW i \in DOMAIN r, NEW j \in DOMAIN r, key[r[i]] = key[r[j]]
        PROVE  i = j
    <2>1. at[i] \in DOMAIN list /\ at[j] \in DOMAIN list
          /\ r[i] = list[at[i]] /\ r[j] = list[at[j]]
      BY <1>2, <1>4 DEF Leaves
    <2>2. at[i] = at[j]
      BY <1>6, <2>1 DEF Keyed
    <2>3. ~(i < j) /\ ~(j < i)
      BY <1>2, <1>4, <2>1, <2>2 DEF Leaves
    <2>. QED  BY <1>3, <2>3
  <1>7. ASSUME NEW i \in DOMAIN q, NEW j \in DOMAIN q, key[q[i]] = key[q[j]]
        PROVE  i = j
    <2>1. CASE i \in DOMAIN r /\ j \in DOMAIN r
      BY <1>3, <1>6, <1>7, <2>1
    <2>2. CASE i \in DOMAIN r /\ j \notin DOMAIN r
      <3>1. j = Len(r) + 1
        BY <1>3, <2>2
      <3>. QED  BY <1>3, <1>5, <1>7, <2>2, <3>1
    <2>3. CASE i \notin DOMAIN r /\ j \in DOMAIN r
      <3>1. i = Len(r) + 1
        BY <1>3, <2>3
      <3>. QED  BY <1>3, <1>5, <1>7, <2>3, <3>1
    <2>4. CASE i \notin DOMAIN r /\ j \notin DOMAIN r
      BY <1>3, <2>4
    <2>. QED  BY <2>1, <2>2, <2>3, <2>4
  <1>. QED  BY <1>7 DEF Keyed

-----------------------------------------------------------------------------
(* One section *)

\* What the three functions leave of a section: the entries that were not in the
\* way, and the bundle's own.
LEMMA SectionEntries ==
    ASSUME NEW section \in Section
    PROVE  LET new == addCAToController(section) IN
           /\ new.readable
           /\ Elements(new.volumes) = {caVolume} \cup
                {v \in Elements(section.volumes) : v.name # caVolume.name}
           /\ Elements(new.volumeMounts) = {caVolumeMount} \cup
                {m \in Elements(section.volumeMounts) :
                    m.path # caVolumeMount.path /\ m.name # caVolumeMount.name}
           /\ Elements(new.extraEnv) = {caEnvVar} \cup
                {e \in Elements(section.extraEnv) : e.name # caEnvVar.name}
  <1>1. PICK V, M, E : /\ section.volumes \in Seq(V)
                       /\ section.volumeMounts \in Seq(M)
                       /\ section.extraEnv \in Seq(E)
    BY DEF Section
  <1>. DEFINE volumes == removeConflictingVolumesAndAppend(section.volumes)
              mounts == removeConflictingVolumeMountsAndAppend(section.volumeMounts)
              env == removeConflictingEnvVarsAndAppend(section.extraEnv)
  <1>2. Elements(volumes) = {caVolume} \cup
            {v \in Elements(section.volumes) : v.name # caVolume.name}
    <2>. DEFINE conflicting == {v \in Elements(section.volumes) : v.name = caVolume.name}
    <2>1. volumes = Append(Without(section.volumes, conflicting), caVolume)
      BY DEF removeConflictingVolumesAndAppend
    <2>2. Elements(Append(Without(section.volumes, conflicting), caVolume))
                = (Elements(section.volumes) \ conflicting) \cup {caVolume}
      BY <1>1, AppendedEntries
    <2>. HIDE DEF volumes
    <2>. QED  BY <2>1, <2>2
  <1>3. Elements(mounts) = {caVolumeMount} \cup
            {m \in Elements(section.volumeMounts) :
                m.path # caVolumeMount.path /\ m.name # caVolumeMount.name}
    <2>. DEFINE conflicting == {m \in Elements(section.volumeMounts) :
                                    \/ m.path = caVolumeMount.path
                                    \/ m.name = caVolumeMount.name}
    <2>1. mounts = Append(Without(section.volumeMounts, conflicting), caVolumeMount)
      BY DEF removeConflictingVolumeMountsAndAppend
    <2>2. Elements(Append(Without(section.volumeMounts, conflicting), caVolumeMount))
                = (Elements(section.volumeMounts) \ conflicting) \cup {caVolumeMount}
      BY <1>1, AppendedEntries
    <2>. HIDE DEF mounts
    <2>. QED  BY <2>1, <2>2
  <1>4. Elements(env) = {caEnvVar} \cup
            {e \in Elements(section.extraEnv) : e.name # caEnvVar.name}
    <2>. DEFINE conflicting == {e \in Elements(section.extraEnv) : e.name = caEnvVar.name}
    <2>1. env = Append(Without(section.extraEnv, conflicting), caEnvVar)
      BY DEF removeConflictingEnvVarsAndAppend
    <2>2. Elements(Append(Without(section.extraEnv, conflicting), caEnvVar))
                = (Elements(section.extraEnv) \ conflicting) \cup {caEnvVar}
      BY <1>1, AppendedEntries
    <2>. HIDE DEF env
    <2>. QED  BY <2>1, <2>2
  <1>. HIDE DEF volumes, mounts, env
  <1>5. addCAToController(section)
            = [readable |-> TRUE, volumes |-> volumes, volumeMounts |-> mounts,
               extraEnv |-> env]
    BY DEF addCAToController, volumes, mounts, env
  <1>. QED  BY <1>2, <1>3, <1>4, <1>5

LEMMA SectionFindsCA ==
    ASSUME NEW section \in Section
    PROVE  FindsCA(addCAToController(section))
  <1>. DEFINE new == addCAToController(section)
  <1>1. /\ new.readable
        /\ Elements(new.volumes) = {caVolume} \cup
             {v \in Elements(section.volumes) : v.name # caVolume.name}
        /\ Elements(new.volumeMounts) = {caVolumeMount} \cup
             {m \in Elements(section.volumeMounts) :
                 m.path # caVolumeMount.path /\ m.name # caVolumeMount.name}
        /\ Elements(new.extraEnv) = {caEnvVar} \cup
             {e \in Elements(section.extraEnv) : e.name # caEnvVar.name}
    BY SectionEntries
  <1>. HIDE DEF new
  <1>2. caVolume.name = caVolumeMount.name
    BY DEF caVolume, caVolumeMount
  <1>3. VolumeOf(new, caVolumeMount) = {caVolume.source}
    BY <1>1, <1>2 DEF VolumeOf
  <1>4. {x \in Elements(new.extraEnv) : x.name = caEnvVar.name} = {caEnvVar}
    BY <1>1
  <1>5. \A m \in Elements(new.volumeMounts) : m.path = caVolumeMount.path => m = caVolumeMount
    BY <1>1
  <1>6. FindsCA(new)
    BY <1>1, <1>3, <1>4, <1>5 DEF FindsCA
  <1>. QED  BY <1>6 DEF new

\* A mount that is kept has another name than the bundle's volume, so the volumes
\* of its name are all kept and the new one is not among them.
LEMMA SectionMountsKept ==
    ASSUME NEW section \in Section
    PROVE  MountsKept(section, addCAToController(section))
  <1>. DEFINE new == addCAToController(section)
  <1>1. /\ Elements(new.volumes) = {caVolume} \cup
             {v \in Elements(section.volumes) : v.name # caVolume.name}
        /\ Elements(new.volumeMounts) = {caVolumeMount} \cup
             {m \in Elements(section.volumeMounts) :
                 m.path # caVolumeMount.path /\ m.name # caVolumeMount.name}
    BY SectionEntries
  <1>. HIDE DEF new
  <1>2. caVolume.name = caVolumeMount.name
    BY DEF caVolume, caVolumeMount
  <1>3. ASSUME NEW m \in Elements(section.volumeMounts), m.path # caVolumeMount.path
        PROVE  \/ m \in Elements(new.volumeMounts) /\ VolumeOf(new, m) = VolumeOf(section, m)
               \/ m \notin Elements(new.volumeMounts) /\ m.name = caVolume.name
    <2>1. CASE m.name = caVolume.name
      <3>1. m # caVolumeMount
        BY <1>3
      <3>2. m \notin Elements(new.volumeMounts)
        BY <1>1, <1>2, <2>1, <3>1
      <3>. QED  BY <2>1, <3>2
    <2>2. CASE m.name # caVolume.name
      <3>1. m \in Elements(new.volumeMounts)
        BY <1>1, <1>2, <1>3, <2>2
      <3>2. VolumeOf(new, m) = VolumeOf(section, m)
        BY <1>1, <2>2 DEF VolumeOf
      <3>. QED  BY <3>1, <3>2
    <2>. QED  BY <2>1, <2>2
  <1>4. MountsKept(section, new)
    BY <1>3 DEF MountsKept
  <1>. QED  BY <1>4 DEF new

LEMMA SectionStaysValid ==
    ASSUME NEW section \in Section, Valid(section)
    PROVE  Valid(addCAToController(section))
  <1>. DEFINE new == addCAToController(section)
  <1>1. PICK V, M : section.volumes \in Seq(V) /\ section.volumeMounts \in Seq(M)
    BY DEF Section
  <1>2. Distinct(new.volumes, LAMBDA v : v.name)
    <2>. DEFINE conflicting == {v \in Elements(section.volumes) : v.name = caVolume.name}
                q == Append(Without(section.volumes, conflicting), caVolume)
                key == [v \in Elements(section.volumes) \cup {caVolume} |-> v.name]
    <2>1. new.volumes = q
      BY DEF addCAToController, removeConflictingVolumesAndAppend
    <2>2. Keyed(section.volumes, key)
      BY DEF Valid, Distinct, Elements, Keyed
    <2>3. Clears(section.volumes, conflicting, caVolume, key)
      BY DEF Clears
    <2>4. \A i \in DOMAIN q : q[i] \in Elements(section.volumes) \cup {caVolume}
      <3>1. Elements(q) = (Elements(section.volumes) \ conflicting) \cup {caVolume}
        BY <1>1, AppendedEntries
      <3>2. \A i \in DOMAIN q : q[i] \in Elements(q)
        BY DEF Elements
      <3>. QED  BY <3>1, <3>2
    <2>. HIDE DEF key, conflicting
    <2>0. q = Append(Without(section.volumes, conflicting), caVolume)
      OBVIOUS
    <2>. HIDE DEF q, new
    <2>5. Keyed(q, key)
      BY <1>1, <2>0, <2>2, <2>3, AppendedDistinct
    <2>6. \A i \in DOMAIN q : key[q[i]] = q[i].name
      BY <2>4 DEF key
    <2>7. Distinct(q, LAMBDA v : v.name)
      BY <2>5, <2>6 DEF Distinct, Keyed
    <2>. QED  BY <2>1, <2>7
  <1>3. Distinct(new.volumeMounts, LAMBDA m : m.path)
    <2>. DEFINE conflicting == {m \in Elements(section.volumeMounts) :
                                    \/ m.path = caVolumeMount.path
                                    \/ m.name = caVolumeMount.name}
                q == Append(Without(section.volumeMounts, conflicting), caVolumeMount)
                key == [m \in Elements(section.volumeMounts) \cup {caVolumeMount} |-> m.path]
    <2>1. new.volumeMounts = q
      BY DEF addCAToController, removeConflictingVolumeMountsAndAppend
    <2>2. Keyed(section.volumeMounts, key)
      BY DEF Valid, Distinct, Elements, Keyed
    <2>3. Clears(section.volumeMounts, conflicting, caVolumeMount, key)
      BY DEF Clears
    <2>4. \A i \in DOMAIN q : q[i] \in Elements(section.volumeMounts) \cup {caVolumeMount}
      <3>1. Elements(q) = (Elements(section.volumeMounts) \ conflicting) \cup {caVolumeMount}
        BY <1>1, AppendedEntries
      <3>2. \A i \in DOMAIN q : q[i] \in Elements(q)
        BY DEF Elements
      <3>. QED  BY <3>1, <3>2
    <2>. HIDE DEF key, conflicting
    <2>0. q = Append(Without(section.volumeMounts, conflicting), caVolumeMount)
      OBVIOUS
    <2>. HIDE DEF q, new
    <2>5. Keyed(q, key)
      BY <1>1, <2>0, <2>2, <2>3, AppendedDistinct
    <2>6. \A i \in DOMAIN q : key[q[i]] = q[i].path
      BY <2>4 DEF key
    <2>7. Distinct(q, LAMBDA m : m.path)
      BY <2>5, <2>6 DEF Distinct, Keyed
    <2>. QED  BY <2>1, <2>7
  <1>4. \A m \in Elements(new.volumeMounts) : VolumeOf(new, m) # {}
    <2>1. /\ Elements(new.volumes) = {caVolume} \cup
               {v \in Elements(section.volumes) : v.name # caVolume.name}
          /\ Elements(new.volumeMounts) = {caVolumeMount} \cup
               {m \in Elements(section.volumeMounts) :
                   m.path # caVolumeMount.path /\ m.name # caVolumeMount.name}
      BY SectionEntries
    <2>. HIDE DEF new
    <2>2. caVolume.name = caVolumeMount.name
      BY DEF caVolume, caVolumeMount
    <2>3. ASSUME NEW m \in Elements(new.volumeMounts) PROVE VolumeOf(new, m) # {}
      <3>1. CASE m = caVolumeMount
        BY <2>1, <2>2, <3>1 DEF VolumeOf
      <3>2. CASE m # caVolumeMount
        <4>1. m \in Elements(section.volumeMounts) /\ m.name # caVolume.name
          BY <2>1, <2>2, <3>2
        <4>2. PICK v \in Elements(section.volumes) : v.name = m.name
          BY <4>1 DEF Valid, VolumeOf
        <4>3. v \in Elements(new.volumes)
          BY <2>1, <4>1, <4>2
        <4>. QED  BY <4>2, <4>3 DEF VolumeOf
      <3>. QED  BY <3>1, <3>2
    <2>. QED  BY <2>3
  <1>. HIDE DEF new
  <1>5. Valid(new)
    BY <1>2, <1>3, <1>4 DEF Valid
  <1>. QED  BY <1>5 DEF new

-----------------------------------------------------------------------------
(* The whole values *)

\* The controllers that have been treated.
Done == {fluxControllers[i] : i \in 1 .. next - 1}

\* The sections of the controllers treated so far are what addCAToController makes
\* of them and were readable, the others are as given.
HInv ==
    /\ given \in [Elements(fluxControllers) -> Section]
    /\ next \in 1 .. Len(fluxControllers) + 1
    /\ root = [c \in Elements(fluxControllers) |->
                IF c \in Done THEN addCAToController(given[c]) ELSE given[c]]
    /\ \A c \in Done : given[c].readable
    /\ Returned => next = Len(fluxControllers) + 1

LEMMA InitHInv == Init => HInv
  <1>. SUFFICES ASSUME Init PROVE HInv
    OBVIOUS
  <1>1. Len(fluxControllers) \in Nat
    BY ControllersAssumption
  <1>2. given \in [Elements(fluxControllers) -> Section]
    BY RootsAssumption DEF Init
  <1>3. Done = {}
    BY DEF Init, Done
  <1>. QED  BY <1>1, <1>2, <1>3 DEF Init, HInv, Returned

\* No controller is listed twice: the one that is treated now has not been before.
LEMMA StepHInv == HInv /\ [Next]_vars => HInv'
  <1>. SUFFICES ASSUME HInv, [Next]_vars PROVE HInv'
    OBVIOUS
  <1>0. /\ fluxControllers \in Seq(STRING) /\ Len(fluxControllers) \in Nat
        /\ DOMAIN fluxControllers = 1 .. Len(fluxControllers)
        /\ \A i, j \in DOMAIN fluxControllers :
                fluxControllers[i] = fluxControllers[j] => i = j
        /\ \A i \in DOMAIN fluxControllers :
                fluxControllers[i] \in Elements(fluxControllers)
    BY ControllersAssumption DEF Distinct, Elements
  <1>1. CASE Reject
    BY <1>1 DEF HInv, Reject, Done, Returned
  <1>2. CASE AddCA
    <2>1. /\ next \in 1 .. Len(fluxControllers) /\ next' = next + 1
          /\ given' = given /\ outcome' = outcome /\ outcome = "running"
      BY <1>0, <1>2 DEF AddCA, Running
    <2>. DEFINE c == Current
    <2>2. c \in Elements(fluxControllers) /\ c \notin Done
      BY <1>0, <2>1 DEF Current, Done
    <2>3. Done' = Done \cup {c}
      <3>1. 1 .. next' - 1 = (1 .. next - 1) \cup {next}
        BY <2>1
      <3>. QED  BY <3>1 DEF Done, Current
    <2>4. root[c] = given[c] /\ given[c].readable
      BY <1>2, <2>2 DEF HInv, AddCA
    <2>5. root' = [root EXCEPT ![c] = addCAToController(given[c])]
      BY <1>2, <2>4 DEF AddCA
    <2>. HIDE DEF c
    <2>6. root' = [d \in Elements(fluxControllers) |->
                    IF d \in Done' THEN addCAToController(given[d]) ELSE given[d]]
      BY <2>2, <2>3, <2>5 DEF HInv
    <2>7. \A d \in Done' : given[d].readable
      BY <2>3, <2>4 DEF HInv
    <2>8. (next \in 1 .. Len(fluxControllers) + 1)'
      BY <1>0, <2>1
    <2>9. ~Returned'
      BY <2>1 DEF Returned
    <2>. QED  BY <2>1, <2>6, <2>7, <2>8, <2>9 DEF HInv
  <1>3. CASE Fail
    BY <1>3 DEF HInv, Fail, Done, Returned
  <1>4. CASE Return
    <2>1. next = Len(fluxControllers) + 1
      BY <1>0, <1>4 DEF HInv, Return
    <2>. QED  BY <1>4, <2>1 DEF HInv, Return, Done
  <1>5. CASE UNCHANGED vars
    BY <1>5 DEF HInv, vars, Done, Returned
  <1>. QED  BY <1>1, <1>2, <1>3, <1>4, <1>5 DEF Next

\* When the values are returned, every controller has been treated.
LEMMA ReturnedSections ==
    ASSUME HInv, Returned, NEW i \in DOMAIN fluxControllers
    PROVE  LET c == fluxControllers[i] IN
           given[c] \in Section /\ root[c] = addCAToController(given[c])
  <1>1. /\ DOMAIN fluxControllers = 1 .. Len(fluxControllers)
        /\ Len(fluxControllers) \in Nat
    BY ControllersAssumption
  <1>2. fluxControllers[i] \in Elements(fluxControllers)
    BY DEF Elements
  <1>3. fluxControllers[i] \in Done
    BY <1>1 DEF Done, HInv
  <1>. QED  BY <1>2, <1>3 DEF HInv

\* Values that are returned give every controller the CA bundle: whatever volumes,
\* mounts and variables the user had, and however many (helm.go:135-139, 213-244).
THEOREM HelmValuesInstallCA == Spec => []CAInstalled
  <1>1. HInv => CAInstalled
    BY ReturnedSections, SectionFindsCA DEF CAInstalled
  <1>. QED  BY <1>1, InitHInv, StepHInv, PTL DEF Spec

\* Sections the API server accepted as part of a pod it still accepts.
THEOREM HelmValuesStayValid == Spec => []StaysValid
  <1>1. HInv => StaysValid
    BY ReturnedSections, SectionStaysValid DEF StaysValid
  <1>. QED  BY <1>1, InitHInv, StepHInv, PTL DEF Spec

\* No mount of the user's changes its meaning, and none is lost without need.
THEOREM HelmValuesKeepMounts == Spec => []MountsKeepMeaning
  <1>1. HInv => MountsKeepMeaning
    BY ReturnedSections, SectionMountsKept DEF MountsKeepMeaning
  <1>. QED  BY <1>1, InitHInv, StepHInv, PTL DEF Spec

=============================================================================
