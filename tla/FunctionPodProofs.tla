------------------------- MODULE FunctionPodProofs -------------------------
(***************************************************************************)
(* Proofs about FunctionPod, for every runtime table, every configured     *)
(* deployment, every set of requests and every bound: what the look-ups of *)
(* langruntime.go return, how the pod is put together, and the invariant   *)
(* of the way from a submitted file to a started function.                 *)
(***************************************************************************)
EXTENDS FunctionPod, FiniteSetTheorems, SequenceTheorems, TLAPS

-----------------------------------------------------------------------------
(* Look-ups in the runtime table.                                          *)

\* A non-empty set of numbers has a least element.
LEMMA LeastNumber ==
    ASSUME NEW T, T \subseteq Nat, T # {}
    PROVE  \E x \in T : \A y \in T : x <= y
  <1>1. PICK R : R = {p \in Nat \X Nat : p[1] < p[2]}
    OBVIOUS
  <1>2. IsWellFoundedOn(R, Nat)
    BY NatLessThanWellFounded, <1>1 DEF OpToRel
  <1>3. PICK x \in T : \A y \in T : ~(<<y, x>> \in R)
    BY <1>2, WFMin
  <1>4. ASSUME NEW y \in T
        PROVE  x <= y
    <2>1. x \in Nat /\ y \in Nat /\ <<y, x>> \notin R
      BY <1>3
    <2>2. ~(y < x)
      BY <1>1, <2>1
    <2>3. QED
      BY <2>1, <2>2
  <1>5. QED
    BY <1>4

\* Among indices of a sequence there is a first one.
LEMMA FirstIndex ==
    ASSUME NEW n \in Nat, NEW I \in SUBSET (1..n), I # {}
    PROVE  \E i \in I : \A j \in 1..(i - 1) : j \notin I
  <1>1. I \subseteq Nat
    OBVIOUS
  <1>2. PICK i \in I : \A j \in I : i <= j
    BY <1>1, LeastNumber
  <1>3. QED
    BY <1>1, <1>2

\* findRuntimeVersion's loop returns one of the versions, and none only if none
\* matches.
LEMMA WithVersionFound ==
    ASSUME NEW S, NEW vs \in Seq(S), NEW w, \E v \in ToSet(vs) : v.version = w
    PROVE  \E v \in ToSet(vs) : WithVersion(vs, w) = <<v>> /\ v.version = w
  <1>1. PICK I : I = {i \in 1..Len(vs) : vs[i].version = w}
    OBVIOUS
  <1>2. I \in SUBSET (1..Len(vs)) /\ I # {} /\ Len(vs) \in Nat
    BY <1>1 DEF ToSet
  <1>3. \E i \in I : \A j \in 1..(i - 1) : j \notin I
    BY <1>2, FirstIndex
  <1>4. \E i \in DOMAIN vs : vs[i].version = w /\ \A j \in 1..(i - 1) : ~(vs[j].version = w)
    BY <1>1, <1>3
  <1>5. PICK i \in DOMAIN vs : /\ vs[i].version = w
                               /\ WithVersion(vs, w) = <<vs[i]>>
    BY <1>4 DEF WithVersion, First
  <1>6. QED
    BY <1>5 DEF ToSet

\* And it returns none only if none matches.
LEMMA WithVersionNone ==
    ASSUME NEW S, NEW vs \in Seq(S), NEW w, \A v \in ToSet(vs) : v.version # w
    PROVE  WithVersion(vs, w) = <<>>
  BY DEF WithVersion, First, ToSet

\* GetRuntimeInfo's loop returns an entry of the table.
LEMMA WithIDFound ==
    ASSUME NEW id, \E t \in ToSet(Table) : t.id = id
    PROVE  \E t \in ToSet(Table) : WithID(id) = <<t>> /\ t.id = id
  <1>0. Table \in Seq(ToSet(Table))
    BY PodTypes
  <1>1. PICK I : I = {i \in 1..Len(Table) : Table[i].id = id}
    OBVIOUS
  <1>2. I \in SUBSET (1..Len(Table)) /\ I # {} /\ Len(Table) \in Nat
    BY <1>0, <1>1 DEF ToSet
  <1>3. \E i \in I : \A j \in 1..(i - 1) : j \notin I
    BY <1>2, FirstIndex
  <1>4. \E i \in DOMAIN Table : Table[i].id = id /\ \A j \in 1..(i - 1) : ~(Table[j].id = id)
    BY <1>0, <1>1, <1>3
  <1>5. PICK i \in DOMAIN Table : /\ Table[i].id = id
                                  /\ WithID(id) = <<Table[i]>>
    BY <1>4 DEF WithID, First
  <1>6. QED
    BY <1>5 DEF ToSet

\* And it returns none only if none matches.
LEMMA WithIDNone ==
    ASSUME NEW id, \A t \in ToSet(Table) : t.id # id
    PROVE  WithID(id) = <<>>
  BY DEF WithID, First, ToSet

\* What a look-up finds is a version of the table.
LEMMA VersionFound ==
    ASSUME NEW rt, findRuntimeVersion(rt) # <<>>
    PROVE  \E v : findRuntimeVersion(rt) = <<v>> /\ IsVersion(v)
  <1>1. GetRuntimeInfo(rt) # <<>>
    BY DEF findRuntimeVersion
  <1>2. PICK id : GetRuntimeInfo(rt) = WithID(id)
    BY DEF GetRuntimeInfo
  <1>3. \E t \in ToSet(Table) : t.id = id
    BY <1>1, <1>2, WithIDNone
  <1>4. PICK t \in ToSet(Table) : GetRuntimeInfo(rt) = <<t>>
    BY <1>2, <1>3, WithIDFound
  <1>5. IsRuntime(t)
    BY PodTypes
  <1>6. PICK vs, w : vs = t.versions /\ w = getVersionFromRuntime(rt)
    OBVIOUS
  <1>7. findRuntimeVersion(rt) = WithVersion(vs, w)
    BY <1>1, <1>4, <1>6 DEF findRuntimeVersion
  <1>8. vs \in Seq(ToSet(vs)) /\ \A v \in ToSet(vs) : IsVersion(v)
    BY <1>5, <1>6 DEF IsRuntime
  <1>9. PICK v \in ToSet(vs) : WithVersion(vs, w) = <<v>>
    BY <1>7, <1>8, WithVersionFound, WithVersionNone
  <1>10. QED
    BY <1>7, <1>8, <1>9

\* The regular expression ^[a-zA-Z_-]+ cuts the identifier off a name made of
\* letters and separators followed by digits and dots, [0-9.]+$ the version.
LEMMA NameCut ==
    ASSUME NEW T, NEW a \in Seq(T), NEW b \in Seq(Num), T \cap Num = {}
    PROVE  PrefixIn(a \o b, T) = a /\ getVersionFromRuntime(a \o b) = b
  <1>1. PICK U : U = T \union Num
    OBVIOUS
  <1>2. a \in Seq(U) /\ b \in Seq(U)
    BY <1>1, SeqMonotonic
  <1>3. PICK s : s = a \o b
    OBVIOUS
  <1>4. /\ s \in Seq(U) /\ Len(s) = Len(a) + Len(b)
        /\ Len(a) \in Nat /\ Len(b) \in Nat
        /\ \A i \in 1..Len(s) : s[i] = IF i <= Len(a) THEN a[i] ELSE b[i - Len(a)]
    BY <1>2, <1>3, ConcatProperties
  <1>5. \A i \in 1..Len(a) : s[i] \in T /\ s[i] \notin Num
    BY <1>4
  <1>6. \A i \in (Len(a) + 1)..Len(s) : s[i] \in Num /\ s[i] \notin T
    BY <1>4
  <1>7. PrefixIn(s, T) = a
    <2> DEFINE P(n) == /\ \A i \in 1..n : s[i] \in T
                       /\ n < Len(s) => s[n + 1] \notin T
    <2>1. Len(a) \in 0..Len(s) /\ P(Len(a))
      <3>1. Len(a) \in 0..Len(s)
        BY <1>4
      <3>2. Len(a) < Len(s) => Len(a) + 1 \in (Len(a) + 1)..Len(s)
        BY <1>4
      <3>3. Len(a) < Len(s) => s[Len(a) + 1] \notin T
        BY <1>6, <3>2
      <3>4. QED
        BY <1>5, <3>1, <3>3
    <2>2. ASSUME NEW n \in 0..Len(s), P(n)
          PROVE  n = Len(a)
      <3>1. CASE n < Len(a)
        BY <1>4, <1>5, <2>2, <3>1
      <3>2. CASE n > Len(a)
        <4>1. Len(a) + 1 \in 1..n /\ Len(a) + 1 \in (Len(a) + 1)..Len(s)
          BY <1>4, <3>2
        <4>2. s[Len(a) + 1] \in T
          BY <2>2, <4>1
        <4>3. QED
          BY <1>6, <4>1, <4>2
      <3>3. QED
        BY <1>4, <3>1, <3>2
    <2>3. (CHOOSE n \in 0..Len(s) : P(n)) = Len(a)
      <3> HIDE DEF P
      <3> QED
        BY <2>1, <2>2
    <2>4. PrefixIn(s, T) = SubSeq(s, 1, Len(a))
      BY <2>3 DEF PrefixIn
    <2>5. \A i \in 1..Len(a) : s[i] \in U
      BY <1>1, <1>5
    <2>6. /\ SubSeq(s, 1, Len(a)) \in Seq(U)
          /\ Len(SubSeq(s, 1, Len(a))) = IF 1 <= Len(a) THEN Len(a) - 1 + 1 ELSE 0
          /\ \A i \in 1..Len(a) - 1 + 1 : SubSeq(s, 1, Len(a))[i] = s[1 + i - 1]
      BY <1>4, <2>5, SubSeqProperties
    <2>7. QED
      BY <1>2, <1>4, <2>4, <2>6, SeqEqual
  <1>8. getVersionFromRuntime(s) = b
    <2> DEFINE P(n) == /\ \A i \in n..Len(s) : s[i] \in Num
                       /\ n > 1 => s[n - 1] \notin Num
    <2>1. Len(a) + 1 \in 1..Len(s) + 1 /\ P(Len(a) + 1)
      BY <1>4, <1>5, <1>6
    <2>2. ASSUME NEW n \in 1..Len(s) + 1, P(n)
          PROVE  n = Len(a) + 1
      <3>1. CASE n < Len(a) + 1
        BY <1>4, <1>5, <2>2, <3>1
      <3>2. CASE n > Len(a) + 1
        <4>1. n > 1 /\ n - 1 \in (Len(a) + 1)..Len(s)
          BY <1>4, <3>2
        <4>2. s[n - 1] \notin Num
          BY <2>2, <4>1
        <4>3. QED
          BY <1>6, <4>1, <4>2
      <3>3. QED
        BY <1>4, <3>1, <3>2
    <2>3. (CHOOSE n \in 1..Len(s) + 1 : P(n)) = Len(a) + 1
      <3> HIDE DEF P
      <3> QED
        BY <2>1, <2>2
    <2>4. getVersionFromRuntime(s) = SubSeq(s, Len(a) + 1, Len(s))
      BY <2>3 DEF getVersionFromRuntime
    <2>5. \A i \in (Len(a) + 1)..Len(s) : s[i] \in U
      BY <1>1, <1>6
    <2>6. PICK m : m = Len(a) + 1
      OBVIOUS
    <2>7. /\ SubSeq(s, m, Len(s)) \in Seq(U)
          /\ Len(SubSeq(s, m, Len(s))) = IF m <= Len(s) THEN Len(s) - m + 1 ELSE 0
          /\ \A i \in 1..Len(s) - m + 1 : SubSeq(s, m, Len(s))[i] = s[m + i - 1]
      BY <1>4, <2>5, <2>6, SubSeqProperties
    <2>8. Len(SubSeq(s, m, Len(s))) = Len(b)
      BY <1>4, <2>6, <2>7
    <2>9. ASSUME NEW i \in 1..Len(b)
          PROVE  SubSeq(s, m, Len(s))[i] = b[i]
      <3>1. i \in 1..Len(s) - m + 1 /\ m + i - 1 \in 1..Len(s) /\ ~(m + i - 1 <= Len(a))
        BY <1>4, <2>6
      <3>2. m + i - 1 - Len(a) = i
        BY <1>4, <2>6
      <3>3. QED
        BY <1>4, <2>7, <3>1, <3>2
    <2>10. QED
      BY <1>2, <2>4, <2>6, <2>7, <2>8, <2>9, SeqEqual
  <1>9. QED
    BY <1>3, <1>7, <1>8

\* A name that IsValidRuntime accepts is one that findRuntimeVersion resolves.
LEMMA ValidIsFound ==
    ASSUME WellNamed, NEW rt, IsValidRuntime(rt)
    PROVE  findRuntimeVersion(rt) # <<>>
  <1>1. PICK i \in DOMAIN Table : \E j \in DOMAIN Table[i].versions :
            rt = Table[i].id \o Table[i].versions[j].version
    BY DEF IsValidRuntime, GetRuntimes
  <1>2. PICK j \in DOMAIN Table[i].versions : rt = Table[i].id \o Table[i].versions[j].version
    BY <1>1
  <1>3. PICK t, vs, v : t = Table[i] /\ vs = t.versions /\ v = vs[j]
    OBVIOUS
  <1>4. t \in ToSet(Table) /\ v \in ToSet(vs) /\ rt = t.id \o v.version
    BY <1>2, <1>3 DEF ToSet
  <1>5. t.id \in Seq(Alpha \union Sep) /\ v.version \in Seq(Num)
    BY <1>3, <1>4 DEF WellNamed
  <1>6. PrefixIn(rt, Alpha \union Sep) = t.id /\ getVersionFromRuntime(rt) = v.version
    BY <1>4, <1>5, NameCut, TokenClasses
  <1>7. PICK u \in ToSet(Table) : GetRuntimeInfo(rt) = <<u>> /\ u.id = t.id
    BY <1>4, <1>6, WithIDFound DEF GetRuntimeInfo
  <1>8. u = t
    <2>1. PICK k \in DOMAIN Table : u = Table[k]
      BY DEF ToSet
    <2>2. k = i
      BY <1>3, <1>7, <2>1 DEF WellNamed
    <2>3. QED
      BY <1>3, <2>1, <2>2
  <1>9. findRuntimeVersion(rt) = WithVersion(vs, v.version)
    BY <1>3, <1>6, <1>7, <1>8 DEF findRuntimeVersion
  <1>10. vs \in Seq(ToSet(vs))
    BY <1>3, <1>4, PodTypes DEF IsRuntime
  <1>11. \E x \in ToSet(vs) : WithVersion(vs, v.version) = <<x>>
    BY <1>4, <1>10, WithVersionFound
  <1>12. QED
    BY <1>9, <1>11

-----------------------------------------------------------------------------
(* The init containers of a pod.                                           *)

Installs(s, v) == hasDeps(s) /\ HasImage("installation", v)

Compiles(v) == HasImage("compilation", v)

CopiesDeps(s) == GetRuntimeInfo(s.rt) # <<>> /\ Head(GetRuntimeInfo(s.rt)).dep /\ ~s.ct.deps

\* The prepare container of revision s.
Prepares(c, s) ==
    /\ c.name = "prepare" /\ c.key = getFileName(s.ct, s.rt) /\ c.decode = s.ct.enc
    /\ c.from = Address(s) /\ c.check = s.sum /\ c.copyDeps = CopiesDeps(s)

\* The init containers of revision s in their order.
Shape(init, s, v) ==
    /\ DOMAIN init = 1..Len(init)
    /\ Len(init) = 1 + (IF Installs(s, v) THEN 1 ELSE 0) + (IF Compiles(v) THEN 1 ELSE 0)
    /\ Prepares(init[1], s)
    /\ Installs(s, v) => init[2].name = "install" /\ init[2].check = s.deps
    /\ Compiles(v) => init[Len(init)].name = "compile"

\* A container and what it mounts before secrets are added.
IsContainer(c) ==
    /\ {"name", "mounts", "check"} \subseteq DOMAIN c
    /\ c.mounts \in {<<runtimeMount>>, <<runtimeMount, srcMount>>}
    /\ c.name \in {"prepare", "install", "compile"}

\* GetBuildContainer and GetCompilationContainer for a runtime with the hook.
LEMMA HookFacts ==
    ASSUME NEW v, NEW phase, NEW name \in {"install", "compile"}, NEW env, NEW check,
           HasImage(phase, v)
    PROVE  \E c : /\ HookContainer(v, phase, name, env, runtimeMount, check) = <<c>>
                  /\ IsContainer(c) /\ c.name = name /\ c.check = check
  <1>1. PICK c : c = [name |-> name, image |-> v.images[phase].image, mounts |-> <<runtimeMount>>,
                      env |-> env \o <<"INSTALL_VOLUME">> \o v.images[phase].env, check |-> check]
    OBVIOUS
  <1>2. HookContainer(v, phase, name, env, runtimeMount, check) = <<c>>
    BY <1>1 DEF HookContainer
  <1>3. IsContainer(c) /\ c.name = name /\ c.check = check
    BY <1>1 DEF IsContainer
  <1>4. QED
    BY <1>2, <1>3

\* getProvisionContainer.
LEMMA ProvisionFacts ==
    ASSUME NEW s, NEW c, c = getProvisionContainer(s)
    PROVE  /\ IsContainer(c) /\ {"key", "decode", "from", "copyDeps"} \subseteq DOMAIN c
           /\ Prepares(c, s)
  BY DEF getProvisionContainer, IsContainer, Prepares, CopiesDeps

\* Short lists put together.
LEMMA Pair ==
    ASSUME NEW a, NEW b
    PROVE  <<a>> \o <<b>> = <<a, b>>
  <1>1. PICK S : S = {a, b}
    OBVIOUS
  <1>2. <<a>> \in Seq(S) /\ <<b>> \in Seq(S) /\ <<a, b>> \in Seq(S)
    BY <1>1
  <1>3. /\ <<a>> \o <<b>> \in Seq(S) /\ Len(<<a>> \o <<b>>) = 2
        /\ (<<a>> \o <<b>>)[1] = a /\ (<<a>> \o <<b>>)[2] = b
    BY <1>2, ConcatProperties
  <1>4. \A i \in 1..2 : (<<a>> \o <<b>>)[i] = <<a, b>>[i]
    BY <1>3
  <1>5. QED
    BY <1>2, <1>3, <1>4, SeqEqual

\* The same for a third element.
LEMMA Triple ==
    ASSUME NEW a, NEW b, NEW c
    PROVE  <<a, b>> \o <<c>> = <<a, b, c>>
  <1>1. PICK S : S = {a, b, c}
    OBVIOUS
  <1>2. <<a, b>> \in Seq(S) /\ <<c>> \in Seq(S) /\ <<a, b, c>> \in Seq(S)
    BY <1>1
  <1>3. /\ <<a, b>> \o <<c>> \in Seq(S) /\ Len(<<a, b>> \o <<c>>) = 3
        /\ (<<a, b>> \o <<c>>)[1] = a /\ (<<a, b>> \o <<c>>)[2] = b
        /\ (<<a, b>> \o <<c>>)[3] = c
    BY <1>2, ConcatProperties
  <1>4. \A i \in 1..3 : (<<a, b>> \o <<c>>)[i] = <<a, b, c>>[i]
    BY <1>3
  <1>5. QED
    BY <1>2, <1>3, <1>4, SeqEqual

\* populatePodSpec's list of init containers, before secrets are mounted.
LEMMA ContainersShape ==
    ASSUME NEW s, NEW v, NEW env, NEW ic, ic = InitContainers(s, v, env)
    PROVE  /\ Shape(ic, s, v)
           /\ \A i \in 1..Len(ic) : IsContainer(ic[i])
           /\ {"key", "decode", "from", "copyDeps"} \subseteq DOMAIN ic[1]
           /\ \A i \in 1..Len(ic) : ic[i].name = "install" => HasImage("installation", v)
           /\ \A i \in 1..Len(ic) : ic[i].name = "compile" => HasImage("compilation", v)
  <1>1. PICK a : a = getProvisionContainer(s)
    OBVIOUS
  <1>2. /\ IsContainer(a) /\ {"key", "decode", "from", "copyDeps"} \subseteq DOMAIN a
        /\ Prepares(a, s) /\ a.name = "prepare"
    BY <1>1, ProvisionFacts DEF Prepares
  <1>3. PICK B : B = IF hasDeps(s) THEN GetBuildContainer(v, s.deps, env, runtimeMount) ELSE <<>>
    OBVIOUS
  <1>4. PICK C : C = GetCompilationContainer(v, env, runtimeMount)
    OBVIOUS
  <1>5. ic = (<<a>> \o B) \o C
    BY <1>1, <1>3, <1>4 DEF InitContainers
  <1>6. CASE ~Installs(s, v)
    <2>1. B = <<>>
      BY <1>3, <1>6 DEF Installs, GetBuildContainer, HookContainer
    <2>2. CASE ~Compiles(v)
      <3>1. C = <<>>
        BY <1>4, <2>2 DEF Compiles, GetCompilationContainer, HookContainer
      <3>2. ic = <<a>>
        BY <1>5, <2>1, <3>1
      <3>3. QED
        BY <1>2, <1>6, <2>2, <3>2 DEF Shape
    <2>3. CASE Compiles(v)
      <3>1. PICK c : C = <<c>> /\ IsContainer(c) /\ c.name = "compile"
        BY <1>4, <2>3, HookFacts DEF Compiles, GetCompilationContainer
      <3>2. ic = <<a, c>>
        BY <1>5, <2>1, <3>1, Pair
      <3>3. QED
        BY <1>2, <1>6, <2>3, <3>1, <3>2 DEF Shape, Compiles
    <2>4. QED
      BY <2>2, <2>3
  <1>7. CASE Installs(s, v)
    <2>1. PICK b : B = <<b>> /\ IsContainer(b) /\ b.name = "install" /\ b.check = s.deps
      BY <1>3, <1>7, HookFacts DEF Installs, GetBuildContainer
    <2>2. CASE ~Compiles(v)
      <3>1. C = <<>>
        BY <1>4, <2>2 DEF Compiles, GetCompilationContainer, HookContainer
      <3>2. ic = <<a, b>>
        BY <1>5, <2>1, <3>1, Pair
      <3>3. QED
        BY <1>2, <1>7, <2>1, <2>2, <3>2 DEF Shape, Installs
    <2>3. CASE Compiles(v)
      <3>1. PICK c : C = <<c>> /\ IsContainer(c) /\ c.name = "compile"
        BY <1>4, <2>3, HookFacts DEF Compiles, GetCompilationContainer
      <3>2. <<a>> \o B = <<a, b>>
        BY <2>1, Pair
      <3>3. ic = <<a, b, c>>
        BY <1>5, <3>1, <3>2, Triple
      <3>4. QED
        BY <1>2, <1>7, <2>1, <2>3, <3>1, <3>3 DEF Shape, Compiles, Installs
    <2>4. QED
      BY <2>2, <2>3
  <1>8. QED
    BY <1>6, <1>7

\* GetInitContainerSecrets returns names.
LEMMA SecretsType ==
    ASSUME NEW v, IsVersion(v), NEW name
    PROVE  GetInitContainerSecrets(v, name) \in Seq(STRING)
  <1>1. PICK phase : phase = name2phase(name)
    OBVIOUS
  <1>2. CASE HasImage(phase, v)
    <2>1. v.images[phase].secrets \in Seq(STRING)
      BY <1>2 DEF IsVersion, HasImage
    <2>2. QED
      BY <1>1, <1>2, <2>1 DEF GetInitContainerSecrets
  <1>3. CASE ~HasImage(phase, v)
    BY <1>1, <1>3 DEF GetInitContainerSecrets
  <1>4. QED
    BY <1>2, <1>3

\* The mounts m are of the two volumes of the function and of the secrets, none
\* of which is left out.
Mounts(m, secrets) ==
    /\ \A j \in DOMAIN m : m[j].vol \in {"fn", "fn-deps"} \union ToSet(secrets)
    /\ \A k \in ToSet(secrets) : \E j \in DOMAIN m : m[j].vol = k

\* A container keeps everything but its mounts, and mounts its own volumes and
\* the secrets of its phase.
LEMMA MountFacts ==
    ASSUME NEW v, IsVersion(v), NEW c, IsContainer(c),
           NEW d, d = MountSecrets(v, c),
           NEW secrets, secrets = GetInitContainerSecrets(v, c.name)
    PROVE  /\ \A k \in DOMAIN c : k # "mounts" => d[k] = c[k]
           /\ Mounts(d.mounts, secrets)
  <1>1. secrets \in Seq(STRING)
    BY SecretsType
  <1>2. PICK M : M = [i \in DOMAIN secrets |-> [vol |-> secrets[i], path |-> secrets[i]]]
    OBVIOUS
  <1>3. PICK R : R = {runtimeMount, srcMount} \union {[vol |-> k, path |-> k] : k \in STRING}
    OBVIOUS
  <1>4. M \in Seq(R) /\ Len(M) = Len(secrets) /\ Len(secrets) \in Nat /\ DOMAIN secrets = 1..Len(secrets)
    <2>1. Len(secrets) \in Nat /\ DOMAIN secrets = 1..Len(secrets)
      BY <1>1, LenProperties
    <2>2. \A i \in DOMAIN secrets : secrets[i] \in STRING
      BY <1>1
    <2>3. \A i \in DOMAIN secrets : [vol |-> secrets[i], path |-> secrets[i]] \in R
      BY <1>3, <2>2
    <2>4. M \in [1..Len(secrets) -> R]
      BY <1>2, <2>1, <2>3
    <2>5. QED
      BY <2>1, <2>4
  <1>5. PICK m : m = c.mounts
    OBVIOUS
  <1>6. /\ m \in Seq(R) /\ Len(m) \in Nat
        /\ \A j \in 1..Len(m) : m[j].vol \in {"fn", "fn-deps"}
    <2>1. runtimeMount \in R /\ runtimeMount.vol = "fn" /\ srcMount \in R /\ srcMount.vol = "fn-deps"
      <3>1. runtimeMount.vol = "fn" /\ srcMount.vol = "fn-deps"
        BY Zenon DEF runtimeMount, srcMount
      <3>2. QED
        BY <1>3, <3>1
    <2>2. CASE m = <<runtimeMount>>
      BY <2>1, <2>2
    <2>3. CASE m = <<runtimeMount, srcMount>>
      BY <2>1, <2>3
    <2>4. QED
      BY <1>5, <2>2, <2>3 DEF IsContainer
  <1>7. d = [c EXCEPT !.mounts = m \o M]
    BY <1>2, <1>5 DEF MountSecrets
  <1>8. d.mounts = m \o M /\ \A k \in DOMAIN c : k # "mounts" => d[k] = c[k]
    BY <1>7 DEF IsContainer
  <1>9. PICK n : n = d.mounts
    OBVIOUS
  <1>10. /\ n \in Seq(R) /\ Len(n) = Len(m) + Len(secrets) /\ DOMAIN n = 1..Len(n)
         /\ \A i \in 1..Len(n) : n[i] = IF i <= Len(m) THEN m[i] ELSE M[i - Len(m)]
    <2>1. n = m \o M
      BY <1>8, <1>9
    <2>2. /\ m \o M \in Seq(R) /\ Len(m \o M) = Len(m) + Len(M)
          /\ \A i \in 1..Len(m) + Len(M) : (m \o M)[i] = IF i <= Len(m) THEN m[i] ELSE M[i - Len(m)]
      BY <1>4, <1>6, ConcatProperties
    <2>3. n \in Seq(R) /\ Len(n) = Len(m) + Len(secrets)
      BY <1>4, <2>1, <2>2
    <2>4. \A i \in 1..Len(n) : n[i] = IF i <= Len(m) THEN m[i] ELSE M[i - Len(m)]
      BY <1>4, <2>1, <2>2, <2>3
    <2>5. DOMAIN n = 1..Len(n)
      BY <2>3, LenProperties
    <2>6. QED
      BY <2>3, <2>4, <2>5
  <1>11. ASSUME NEW j \in DOMAIN n
         PROVE  n[j].vol \in {"fn", "fn-deps"} \union ToSet(secrets)
    <2>1. CASE j <= Len(m)
      BY <1>6, <1>10, <2>1
    <2>2. CASE ~(j <= Len(m))
      <3>1. j - Len(m) \in DOMAIN secrets /\ n[j] = M[j - Len(m)]
        BY <1>4, <1>6, <1>10, <2>2
      <3>2. n[j].vol = secrets[j - Len(m)]
        BY <1>2, <3>1
      <3>3. QED
        BY <3>1, <3>2 DEF ToSet
    <2>3. QED
      BY <2>1, <2>2
  <1>12. ASSUME NEW k \in ToSet(secrets)
         PROVE  \E j \in DOMAIN n : n[j].vol = k
    <2>1. PICK i \in 1..Len(secrets) : k = secrets[i]
      BY <1>4 DEF ToSet
    <2>2. i + Len(m) \in DOMAIN n /\ ~(i + Len(m) <= Len(m)) /\ i + Len(m) - Len(m) = i
      BY <1>4, <1>6, <1>10
    <2>3. n[i + Len(m)] = M[i]
      BY <1>10, <2>2
    <2>4. n[i + Len(m)].vol = k
      BY <1>2, <1>4, <2>1, <2>3
    <2>5. QED
      BY <2>2, <2>4
  <1>13. Mounts(n, secrets)
    BY <1>11, <1>12 DEF Mounts
  <1>14. QED
    BY <1>8, <1>9, <1>13

\* Mounting secrets leaves the order and the commands of the containers alone.
LEMMA MountedShape ==
    ASSUME NEW s, NEW v, IsVersion(v), NEW env, NEW ic, ic = InitContainers(s, v, env),
           NEW init, init = [i \in DOMAIN ic |-> MountSecrets(v, ic[i])]
    PROVE  Shape(init, s, v) /\ Len(init) = Len(ic)
  <1>1. /\ Shape(ic, s, v)
        /\ \A i \in 1..Len(ic) : IsContainer(ic[i])
        /\ {"key", "decode", "from", "copyDeps"} \subseteq DOMAIN ic[1]
    BY ContainersShape
  <1>2. DOMAIN ic = 1..Len(ic) /\ Len(ic) \in 1..3
    BY <1>1 DEF Shape
  <1>3. DOMAIN init = 1..Len(ic) /\ Len(init) = Len(ic)
    BY <1>2
  <1>4. \A i \in 1..Len(ic) : \A k \in DOMAIN ic[i] : k # "mounts" => init[i][k] = ic[i][k]
    <2> SUFFICES ASSUME NEW i \in 1..Len(ic), NEW k \in DOMAIN ic[i], k # "mounts"
                 PROVE  init[i][k] = ic[i][k]
      OBVIOUS
    <2>1. IsContainer(ic[i]) /\ init[i] = MountSecrets(v, ic[i])
      BY <1>1, <1>2
    <2>2. QED
      BY <2>1, MountFacts
  <1>5. \A i \in 1..Len(ic) : init[i].name = ic[i].name /\ init[i].check = ic[i].check
    BY <1>1, <1>4 DEF IsContainer
  <1>6. Prepares(ic[1], s) /\ 1 \in 1..Len(ic)
    BY <1>1, <1>2 DEF Shape
  <1>7. Prepares(init[1], s)
    BY <1>1, <1>4, <1>5, <1>6 DEF Prepares
  <1>8. Installs(s, v) => 2 \in 1..Len(ic)
    BY <1>1, <1>2 DEF Shape
  <1>9. QED
    BY <1>1, <1>2, <1>3, <1>5, <1>7, <1>8 DEF Shape

-----------------------------------------------------------------------------
(* The volumes of a pod.                                                   *)

\* A finite set laid out as a sequence: every element, once.
LEMMA LaidOut ==
    ASSUME NEW S, IsFiniteSet(S), NEW q, q = SetToSeq(S)
    PROVE  /\ q \in Seq(S) /\ ToSet(q) = S
           /\ \A i, j \in DOMAIN q : q[i] = q[j] => i = j
  <1>1. PICK n : n = Cardinality(S)
    OBVIOUS
  <1>2. n \in Nat /\ ExistsBijection(1..n, S)
    BY <1>1, FS_CardinalityType
  <1>3. \E f \in [1..n -> S] : IsInjective(f)
    BY <1>2 DEF ExistsBijection, Bijection, Injection
  <1>4. q \in [1..n -> S] /\ IsInjective(q)
    BY <1>1, <1>3 DEF SetToSeq
  <1>5. q \in Injection(1..n, S)
    BY <1>4 DEF Injection
  <1>6. IsFiniteSet(1..n) /\ Cardinality(1..n) = n
    BY <1>2, FS_Interval
  <1>7. q \in Surjection(1..n, S)
    BY <1>1, <1>5, <1>6, FS_Injection
  <1>8. ToSet(q) = S
    BY <1>4, <1>7 DEF Surjection, ToSet
  <1>9. QED
    BY <1>2, <1>4, <1>8 DEF IsInjective

\* The image of a finite set under a function is finite.
LEMMA ImageFinite ==
    ASSUME NEW S, IsFiniteSet(S), NEW f, DOMAIN f = S, f = [x \in S |-> f[x]],
           NEW T, T = {f[x] : x \in S}
    PROVE  IsFiniteSet(T)
  <1>1. f \in Surjection(S, T)
    BY DEF Surjection
  <1>2. QED
    BY <1>1, FS_Surjection

\* The volumes of a pod: declared, added by populatePodSpec, or of a secret.
PodVolumes ==
    Volumes \union {[name |-> n, secret |-> NoSecret] : n \in {"fn", "fn-deps"}}

\* With different names there are as many names as volumes.
LEMMA NamesCount ==
    ASSUME NEW vols \in Seq(PodVolumes),
           \A i, j \in DOMAIN vols : vols[i].name = vols[j].name => i = j
    PROVE  Cardinality(VolumeNames(vols)) = Len(vols)
  <1>1. Len(vols) \in Nat /\ DOMAIN vols = 1..Len(vols)
    BY LenProperties
  <1>2. PICK S, T, f : /\ S = 1..Len(vols) /\ T = VolumeNames(vols)
                       /\ f = [i \in S |-> vols[i].name]
    OBVIOUS
  <1>3. IsFiniteSet(S) /\ Cardinality(S) = Len(vols)
    <2>1. PICK n \in Nat : n = Len(vols)
      BY <1>1
    <2>2. IsFiniteSet(1..n) /\ Cardinality(1..n) = n
      BY FS_Interval
    <2>3. QED
      BY <1>2, <2>1, <2>2
  <1>4. f \in [S -> T]
    BY <1>1, <1>2 DEF VolumeNames
  <1>5. f \in Surjection(S, T)
    BY <1>1, <1>2, <1>4 DEF Surjection, VolumeNames
  <1>6. f \in Injection(S, T)
    BY <1>1, <1>2, <1>4 DEF Injection, IsInjective
  <1>7. Cardinality(T) = Cardinality(S)
    BY <1>3, <1>5, <1>6, FS_Surjection
  <1>8. QED
    BY <1>2, <1>3, <1>7

\* The loop over the secrets of the init containers (kubelessutil.go:446-480):
\* the volumes there were are kept, each secret gets its volume, and no name is
\* declared twice.
LEMMA SecretVolumesAdded ==
    ASSUME NEW vols \in Seq(PodVolumes), NEW uses, IsFiniteSet(uses),
           \A u \in uses : u[2] \in STRING,
           NEW q, q = addSecretVolumes(vols, uses)
    PROVE  /\ q \in Seq(PodVolumes)
           /\ VolumeNames(vols) \subseteq VolumeNames(q)
           /\ \A u \in uses : u[2] \in VolumeNames(q)
           /\ ~Clash(vols, uses) => \A u \in uses : [name |-> u[2], secret |-> u[2]] \in ToSet(q)
           /\ (\A i, j \in DOMAIN vols : vols[i].name = vols[j].name => i = j)
              => \A i, j \in DOMAIN q : q[i].name = q[j].name => i = j
  <1>1. PICK W : W = {w \in uses : w[2] \notin VolumeNames(vols)}
    OBVIOUS
  <1>2. PICK S : S = {SecretVolume(u) : u \in W}
    OBVIOUS
  <1>3. IsFiniteSet(S)
    <2>1. IsFiniteSet(W)
      BY <1>1, FS_Subset
    <2>2. PICK f : f = [u \in W |-> SecretVolume(u)]
      OBVIOUS
    <2>3. S = {f[u] : u \in W}
      BY <1>2, <2>2
    <2>4. QED
      BY <2>1, <2>2, <2>3, ImageFinite
  <1>4. PICK n : n = SetToSeq(S)
    OBVIOUS
  <1>5. q = vols \o n
    BY <1>1, <1>2, <1>4 DEF addSecretVolumes
  <1>6. S \subseteq PodVolumes
    BY <1>1, <1>2 DEF SecretVolume, PodVolumes, Volumes
  <1>7. /\ n \in Seq(S) /\ ToSet(n) = S
        /\ \A i, j \in DOMAIN n : n[i] = n[j] => i = j
    BY <1>3, <1>4, LaidOut
  <1>8. /\ n \in Seq(PodVolumes)
        /\ Len(n) \in Nat /\ DOMAIN n = 1..Len(n) /\ Len(vols) \in Nat /\ DOMAIN vols = 1..Len(vols)
    BY <1>6, <1>7, SeqMonotonic, LenProperties
  <1>9. /\ vols \o n \in Seq(PodVolumes) /\ Len(vols \o n) = Len(vols) + Len(n)
        /\ \A i \in 1..Len(vols) + Len(n) :
              (vols \o n)[i] = IF i <= Len(vols) THEN vols[i] ELSE n[i - Len(vols)]
    BY <1>8, ConcatProperties
  <1>10. /\ q \in Seq(PodVolumes) /\ DOMAIN q = 1..Len(vols) + Len(n)
         /\ \A i \in DOMAIN vols : i \in DOMAIN q /\ q[i] = vols[i]
         /\ \A i \in DOMAIN n : i + Len(vols) \in DOMAIN q /\ q[i + Len(vols)] = n[i]
         /\ \A i \in DOMAIN q : ~(i <= Len(vols)) => i - Len(vols) \in DOMAIN n /\ q[i] = n[i - Len(vols)]
    <2>1. q \in Seq(PodVolumes) /\ DOMAIN q = 1..Len(vols) + Len(n)
      BY <1>5, <1>8, <1>9, LenProperties
    <2>2. \A i \in DOMAIN vols : i \in DOMAIN q /\ q[i] = vols[i]
      BY <1>5, <1>8, <1>9, <2>1
    <2>3. ASSUME NEW i \in DOMAIN n
          PROVE  i + Len(vols) \in DOMAIN q /\ q[i + Len(vols)] = n[i]
      <3>1. i + Len(vols) \in 1..Len(vols) + Len(n) /\ ~(i + Len(vols) <= Len(vols))
            /\ i + Len(vols) - Len(vols) = i
        BY <1>8
      <3>2. QED
        BY <1>5, <1>9, <2>1, <3>1
    <2>4. ASSUME NEW i \in DOMAIN q, ~(i <= Len(vols))
          PROVE  i - Len(vols) \in DOMAIN n /\ q[i] = n[i - Len(vols)]
      BY <1>5, <1>8, <1>9, <2>1, <2>4
    <2>5. QED
      BY <2>1, <2>2, <2>3, <2>4
  <1>11. VolumeNames(vols) \subseteq VolumeNames(q)
    BY <1>10 DEF VolumeNames
  <1>12. ASSUME NEW u \in uses, u[2] \notin VolumeNames(vols)
         PROVE  /\ [name |-> u[2], secret |-> u[2]] \in ToSet(q)
                /\ u[2] \in VolumeNames(q)
    <2>1. PICK x : x = SecretVolume(u)
      OBVIOUS
    <2>2. x \in S
      BY <1>1, <1>2, <1>12, <2>1
    <2>3. PICK i \in DOMAIN n : n[i] = x
      BY <1>7, <2>2 DEF ToSet
    <2>4. i + Len(vols) \in DOMAIN q /\ q[i + Len(vols)] = x
      BY <1>10, <2>3
    <2>5. x \in ToSet(q) /\ x.name \in VolumeNames(q)
      BY <2>4 DEF ToSet, VolumeNames
    <2>6. QED
      BY <2>1, <2>5 DEF SecretVolume
  <1>13. \A u \in uses : u[2] \in VolumeNames(q)
    BY <1>11, <1>12
  <1>14. ASSUME ~Clash(vols, uses), NEW u \in uses
         PROVE  [name |-> u[2], secret |-> u[2]] \in ToSet(q)
    <2>1. CASE u[2] \notin VolumeNames(vols)
      BY <1>12, <2>1
    <2>2. CASE u[2] \in VolumeNames(vols)
      <3>1. PICK i \in DOMAIN vols : vols[i].name = u[2]
        BY <2>2 DEF VolumeNames
      <3>2. vols[i].secret = vols[i].name
        BY <1>14, <3>1 DEF Clash
      <3>3. vols[i] \in PodVolumes
        BY <1>8
      <3>4. vols[i] = [name |-> u[2], secret |-> u[2]]
        BY <3>1, <3>2, <3>3 DEF PodVolumes, Volumes
      <3>5. QED
        BY <1>10, <3>4 DEF ToSet
    <2>3. QED
      BY <2>1, <2>2
  <1>15. ASSUME \A i, j \in DOMAIN vols : vols[i].name = vols[j].name => i = j,
                NEW i \in DOMAIN q, NEW j \in DOMAIN q, q[i].name = q[j].name
         PROVE  i = j
    <2>0. i \in Int /\ j \in Int
      BY <1>10
    <2>1. \A k \in DOMAIN n : /\ n[k].name \notin VolumeNames(vols)
                              /\ n[k] = [name |-> n[k].name, secret |-> n[k].name]
      <3> SUFFICES ASSUME NEW k \in DOMAIN n
                   PROVE  /\ n[k].name \notin VolumeNames(vols)
                          /\ n[k] = [name |-> n[k].name, secret |-> n[k].name]
        OBVIOUS
      <3>1. n[k] \in S
        BY <1>7, <1>8
      <3>2. PICK u \in W : n[k] = SecretVolume(u)
        BY <1>2, <3>1
      <3>3. QED
        BY <1>1, <3>2 DEF SecretVolume
    <2>2. \A k \in DOMAIN vols : vols[k].name \in VolumeNames(vols)
      BY DEF VolumeNames
    <2>3. CASE i <= Len(vols) /\ j <= Len(vols)
      <3>1. i \in DOMAIN vols /\ j \in DOMAIN vols
        BY <1>8, <1>10, <2>3
      <3>2. QED
        BY <1>10, <1>15, <3>1
    <2>4. CASE i <= Len(vols) /\ ~(j <= Len(vols))
      <3>1. i \in DOMAIN vols
        BY <1>8, <1>10, <2>4
      <3>2. QED
        BY <1>10, <1>15, <2>1, <2>2, <2>4, <3>1
    <2>5. CASE ~(i <= Len(vols)) /\ j <= Len(vols)
      <3>1. j \in DOMAIN vols
        BY <1>8, <1>10, <2>5
      <3>2. QED
        BY <1>10, <1>15, <2>1, <2>2, <2>5, <3>1
    <2>6. CASE ~(i <= Len(vols)) /\ ~(j <= Len(vols))
      <3>1. PICK k \in DOMAIN n : k = i - Len(vols) /\ q[i] = n[k]
        BY <1>10, <2>6
      <3>2. PICK l \in DOMAIN n : l = j - Len(vols) /\ q[j] = n[l]
        BY <1>10, <2>6
      <3>3. n[k] = n[l]
        BY <1>15, <2>1, <3>1, <3>2
      <3>4. k = l
        BY <1>7, <3>3
      <3>5. QED
        BY <1>8, <2>0, <3>1, <3>2, <3>4
    <2>7. QED
      BY <2>3, <2>4, <2>5, <2>6
  <1>16. QED
    BY <1>10, <1>11, <1>13, <1>14, <1>15

\* The secrets that the init containers use.
LEMMA UsesFacts ==
    ASSUME NEW v, IsVersion(v), NEW n \in Nat, NEW ic, DOMAIN ic = 1..n,
           NEW uses, uses = InitSecrets(v, ic)
    PROVE  /\ IsFiniteSet(uses)
           /\ \A u \in uses : u[2] \in STRING
           /\ \A i \in 1..n : \A k \in ToSet(GetInitContainerSecrets(v, ic[i].name)) : <<i, k>> \in uses
  <1>1. PICK f : f = [i \in 1..n |-> {i} \X ToSet(GetInitContainerSecrets(v, ic[i].name))]
    OBVIOUS
  <1>2. PICK T : T = {f[i] : i \in 1..n}
    OBVIOUS
  <1>3. uses = UNION T
    BY <1>1, <1>2 DEF InitSecrets
  <1>4. ASSUME NEW i \in 1..n
        PROVE  /\ IsFiniteSet(f[i])
               /\ \A u \in f[i] : u[2] \in STRING
    <2>1. PICK s : s = GetInitContainerSecrets(v, ic[i].name)
      OBVIOUS
    <2>2. s \in Seq(STRING)
      BY <2>1, SecretsType
    <2>3. Len(s) \in Nat /\ DOMAIN s = 1..Len(s) /\ s = [j \in 1..Len(s) |-> s[j]]
      BY <2>2, LenProperties
    <2>4. IsFiniteSet(1..Len(s))
      BY <2>3, FS_Interval
    <2>5. IsFiniteSet(ToSet(s))
      BY <2>3, <2>4, ImageFinite DEF ToSet
    <2>6. IsFiniteSet({i})
      BY FS_Singleton
    <2>7. f[i] = {i} \X ToSet(s)
      BY <1>1, <2>1
    <2>8. ToSet(s) \subseteq STRING
      BY <2>2 DEF ToSet
    <2>9. QED
      BY <2>5, <2>6, <2>7, <2>8, FS_Product
  <1>5. IsFiniteSet(T)
    <2>1. IsFiniteSet(1..n)
      BY FS_Interval
    <2>2. DOMAIN f = 1..n /\ f = [i \in 1..n |-> f[i]]
      BY <1>1
    <2>3. QED
      BY <1>2, <2>1, <2>2, ImageFinite
  <1>6. IsFiniteSet(uses)
    BY <1>2, <1>3, <1>4, <1>5, FS_UNION
  <1>7. \A u \in uses : u[2] \in STRING
    BY <1>2, <1>3, <1>4
  <1>8. ASSUME NEW i \in 1..n, NEW k \in ToSet(GetInitContainerSecrets(v, ic[i].name))
        PROVE  <<i, k>> \in uses
    <2>1. <<i, k>> \in f[i] /\ f[i] \in T
      BY <1>1, <1>2
    <2>2. QED
      BY <1>3, <2>1
  <1>9. QED
    BY <1>6, <1>7, <1>8

\* The volumes populatePodSpec starts from.
LEMMA BaseFacts ==
    ASSUME NEW d, d.volumes \in Seq(Volumes), NEW q, q = BaseVolumes(d)
    PROVE  /\ q \in Seq(PodVolumes)
           /\ {"fn", "fn-deps"} \subseteq VolumeNames(q)
           /\ DeclaredOnce(d.volumes) => \A i, j \in DOMAIN q : q[i].name = q[j].name => i = j
  <1>1. PICK vols, a, b : /\ vols = d.volumes
                          /\ a = [name |-> "fn", secret |-> NoSecret]
                          /\ b = [name |-> "fn-deps", secret |-> NoSecret]
    OBVIOUS
  <1>2. Volumes \subseteq PodVolumes /\ a \in PodVolumes /\ b \in PodVolumes
    BY <1>1 DEF PodVolumes
  <1>3. /\ <<a, b>> \in Seq(PodVolumes) /\ vols \in Seq(PodVolumes)
        /\ a.name = "fn" /\ b.name = "fn-deps"
    BY <1>1, <1>2, SeqMonotonic
  <1>4. q = vols \o <<a, b>>
    BY <1>1 DEF BaseVolumes
  <1>5. Len(vols) \in Nat /\ DOMAIN vols = 1..Len(vols)
    BY <1>3, LenProperties
  <1>6. /\ vols \o <<a, b>> \in Seq(PodVolumes) /\ Len(vols \o <<a, b>>) = Len(vols) + Len(<<a, b>>)
        /\ \A i \in 1..Len(vols) + Len(<<a, b>>) : (vols \o <<a, b>>)[i] =
              IF i <= Len(vols) THEN vols[i] ELSE <<a, b>>[i - Len(vols)]
    BY <1>3, ConcatProperties
  <1>7. /\ q \in Seq(PodVolumes) /\ Len(q) = Len(vols) + 2 /\ DOMAIN q = 1..Len(vols) + 2
        /\ \A i \in 1..Len(vols) : q[i] = vols[i]
    BY <1>4, <1>5, <1>6, LenProperties
  <1>8. q[Len(vols) + 1] = a /\ q[Len(vols) + 2] = b
    BY <1>4, <1>5, <1>6
  <1>9. {"fn", "fn-deps"} \subseteq VolumeNames(q)
    BY <1>3, <1>5, <1>7, <1>8 DEF VolumeNames
  <1>10. ASSUME DeclaredOnce(vols), NEW i \in DOMAIN q, NEW j \in DOMAIN q, q[i].name = q[j].name
         PROVE  i = j
    <2>1. \A k \in 1..Len(vols) : q[k].name \notin {"fn", "fn-deps"}
      BY <1>5, <1>7, <1>10 DEF DeclaredOnce, VolumeNames
    <2>2. i \in 1..Len(vols) \/ i = Len(vols) + 1 \/ i = Len(vols) + 2
      BY <1>5, <1>7
    <2>3. j \in 1..Len(vols) \/ j = Len(vols) + 1 \/ j = Len(vols) + 2
      BY <1>5, <1>7
    <2>4. CASE i \in 1..Len(vols) /\ j \in 1..Len(vols)
      BY <1>5, <1>7, <1>10, <2>4 DEF DeclaredOnce
    <2>5. CASE i \notin 1..Len(vols) \/ j \notin 1..Len(vols)
      BY <1>3, <1>8, <1>10, <2>1, <2>2, <2>3, <2>5
    <2>6. QED
      BY <2>4, <2>5
  <1>11. QED
    BY <1>1, <1>7, <1>9, <1>10

\* What InitMountsSound says of a deployment of a function whose runtime version
\* is v.
MountsSound(d, v) ==
    /\ Cardinality(VolumeNames(d.volumes)) = Len(d.volumes)
    /\ \A i \in DOMAIN d.init :
          LET m == d.init[i].mounts
              phase == [install |-> "installation", compile |-> "compilation"]
          IN  /\ \A j \in DOMAIN m : m[j].vol \in VolumeNames(d.volumes)
              /\ d.init[i].name \in DOMAIN phase =>
                    \A k \in ToSet(v.images[phase[d.init[i].name]].secrets) :
                        /\ \E j \in DOMAIN m : m[j].vol = k
                        /\ [name |-> k, secret |-> k] \in ToSet(d.volumes)

\* The pod that populatePodSpec assembles without an error.
LEMMA AssemblySound ==
    ASSUME NEW s, NEW v, IsVersion(v), NEW env, NEW ic, ic = InitContainers(s, v, env),
           NEW base \in Seq(PodVolumes), {"fn", "fn-deps"} \subseteq VolumeNames(base),
           \A i, j \in DOMAIN base : base[i].name = base[j].name => i = j,
           NEW uses, uses = InitSecrets(v, ic), ~Clash(base, uses),
           NEW d, d.init = [i \in DOMAIN ic |-> MountSecrets(v, ic[i])],
           d.volumes = addSecretVolumes(base, uses)
    PROVE  MountsSound(d, v)
  <1>1. /\ Shape(ic, s, v)
        /\ \A i \in 1..Len(ic) : IsContainer(ic[i])
        /\ \A i \in 1..Len(ic) : ic[i].name = "install" => HasImage("installation", v)
        /\ \A i \in 1..Len(ic) : ic[i].name = "compile" => HasImage("compilation", v)
    BY ContainersShape
  <1>2. PICK n \in Nat : n = Len(ic) /\ DOMAIN ic = 1..n
    BY <1>1 DEF Shape
  <1>3. PICK vols : vols = d.volumes
    OBVIOUS
  <1>4. /\ IsFiniteSet(uses) /\ \A u \in uses : u[2] \in STRING
        /\ \A i \in 1..n : \A k \in ToSet(GetInitContainerSecrets(v, ic[i].name)) : <<i, k>> \in uses
    BY <1>2, UsesFacts
  <1>5. /\ vols \in Seq(PodVolumes)
        /\ VolumeNames(base) \subseteq VolumeNames(vols)
        /\ \A u \in uses : u[2] \in VolumeNames(vols)
        /\ \A u \in uses : [name |-> u[2], secret |-> u[2]] \in ToSet(vols)
        /\ \A i, j \in DOMAIN vols : vols[i].name = vols[j].name => i = j
    BY <1>3, <1>4, SecretVolumesAdded
  <1>6. Cardinality(VolumeNames(vols)) = Len(vols)
    BY <1>5, NamesCount
  <1>7. ASSUME NEW i \in 1..n, NEW c, c = d.init[i], NEW secrets,
               secrets = GetInitContainerSecrets(v, ic[i].name)
        PROVE  /\ c.name = ic[i].name
               /\ Mounts(c.mounts, secrets)
               /\ \A j \in DOMAIN c.mounts : c.mounts[j].vol \in VolumeNames(vols)
               /\ \A k \in ToSet(secrets) : [name |-> k, secret |-> k] \in ToSet(vols)
    <2>1. PICK b : b = ic[i]
      OBVIOUS
    <2>2. IsContainer(b) /\ c = MountSecrets(v, b) /\ secrets = GetInitContainerSecrets(v, b.name)
      BY <1>1, <1>2, <1>7, <2>1
    <2>3. /\ \A k \in DOMAIN b : k # "mounts" => c[k] = b[k]
          /\ Mounts(c.mounts, secrets)
      BY <2>2, MountFacts
    <2>4. c.name = ic[i].name
      BY <2>1, <2>2, <2>3 DEF IsContainer
    <2>5. \A k \in ToSet(secrets) : <<i, k>> \in uses
      BY <1>4, <1>7
    <2>6. \A k \in ToSet(secrets) : k \in VolumeNames(vols) /\ [name |-> k, secret |-> k] \in ToSet(vols)
      BY <1>5, <2>5
    <2>7. {"fn", "fn-deps"} \subseteq VolumeNames(vols)
      BY <1>5
    <2>8. \A j \in DOMAIN c.mounts : c.mounts[j].vol \in VolumeNames(vols)
      BY <2>3, <2>6, <2>7 DEF Mounts
    <2>9. QED
      BY <2>3, <2>4, <2>6, <2>8
  <1>8. ASSUME NEW i \in 1..n, NEW phase, phase = [install |-> "installation", compile |-> "compilation"],
               d.init[i].name \in DOMAIN phase,
               NEW k \in ToSet(v.images[phase[d.init[i].name]].secrets)
        PROVE  k \in ToSet(GetInitContainerSecrets(v, ic[i].name))
    <2>1. d.init[i].name = ic[i].name
      BY <1>7
    <2>2. ic[i].name \in {"install", "compile"}
      BY <1>8, <2>1
    <2>3. name2phase(ic[i].name) = phase[ic[i].name] /\ HasImage(phase[ic[i].name], v)
      BY <1>1, <1>2, <1>8, <2>2 DEF name2phase
    <2>4. QED
      BY <1>8, <2>1, <2>3 DEF GetInitContainerSecrets
  <1>9. DOMAIN d.init = 1..n
    BY <1>2
  <1>10. ASSUME NEW i \in DOMAIN d.init
         PROVE  LET m == d.init[i].mounts
                    phase == [install |-> "installation", compile |-> "compilation"]
                IN  /\ \A j \in DOMAIN m : m[j].vol \in VolumeNames(d.volumes)
                    /\ d.init[i].name \in DOMAIN phase =>
                          \A k \in ToSet(v.images[phase[d.init[i].name]].secrets) :
                              /\ \E j \in DOMAIN m : m[j].vol = k
                              /\ [name |-> k, secret |-> k] \in ToSet(d.volumes)
    <2>1. PICK c, secrets, phase :
             /\ c = d.init[i] /\ secrets = GetInitContainerSecrets(v, ic[i].name)
             /\ phase = [install |-> "installation", compile |-> "compilation"]
      OBVIOUS
    <2>2. i \in 1..n
      BY <1>9, <1>10
    <2>3. \A j \in DOMAIN c.mounts : c.mounts[j].vol \in VolumeNames(vols)
      BY <1>7, <2>1, <2>2
    <2>4. \A k \in ToSet(secrets) : /\ \E j \in DOMAIN c.mounts : c.mounts[j].vol = k
                                    /\ [name |-> k, secret |-> k] \in ToSet(vols)
      <3>1. Mounts(c.mounts, secrets)
        BY <1>7, <2>1, <2>2
      <3>2. \A k \in ToSet(secrets) : [name |-> k, secret |-> k] \in ToSet(vols)
        BY <1>7, <2>1, <2>2
      <3>3. QED
        BY <3>1, <3>2 DEF Mounts
    <2>5. ASSUME c.name \in DOMAIN phase, NEW k \in ToSet(v.images[phase[c.name]].secrets)
          PROVE  k \in ToSet(secrets)
      BY <1>8, <2>1, <2>2, <2>5
    <2>6. QED
      BY <1>3, <2>1, <2>3, <2>4, <2>5
  <1>11. QED
    BY <1>3, <1>6, <1>10 DEF MountsSound

-----------------------------------------------------------------------------
(* The merge and the outcome of EnsureFuncDeployment.                      *)

DepFields == {"containers", "volumes", "labels", "selector"}

\* A cached Function f is revision s but for its deployment, into which the
\* controller merges the configured one.
Agrees(f, s) ==
    /\ f.rt = s.rt /\ f.handler = s.handler /\ f.ct = s.ct /\ f.body = s.body
    /\ f.sum = s.sum /\ f.deps = s.deps /\ f.rev = s.rev

\* The runtime version that revision s is deployed with.
VersionOf(s) == Head(findRuntimeVersion(s.rt))

\* The init containers, if any, prepare revision s.
InitFor(init, s) == init # <<>> => Shape(init, s, VersionOf(s)) /\ s.handler # NoHandler

\* The fields of a deployment.
DpmFields == {"rev", "prep", "init", "volumes", "pull", "containers", "labels", "probe"}

\* A deployment made for revision s, with an image of its own or prepared.
Deploys(d, s) ==
    /\ DOMAIN d = DpmFields
    /\ d.rev = s.rev /\ d.prep = s.rev
    /\ InitFor(d.init, s)

\* MergeDeployments never adds to the volumes of a deployment that has some.
LEMMA MergeFacts ==
    ASSUME NEW dst, DOMAIN dst = DepFields, NEW d \in ToSet(MergeDeployments(dst, Config))
    PROVE  DOMAIN d = DepFields /\ d.volumes \in {dst.volumes, Config.volumes}
  <1>1. DOMAIN Config = DepFields
    BY PodTypes DEF IsDeployment, DepFields
  <1>2. PICK a : a = initializeEmptyMaps(dst)
    OBVIOUS
  <1>3. PICK b : b = initializeEmptyMaps(Config)
    OBVIOUS
  <1>4. a.volumes = dst.volumes /\ b.volumes = Config.volumes
    BY <1>1, <1>2, <1>3 DEF initializeEmptyMaps, DepFields
  <1>5. PICK m : m = MergeEmpty(a, b)
    OBVIOUS
  <1>6. DOMAIN m = DepFields /\ m.volumes \in {a.volumes, b.volumes}
    BY <1>5 DEF MergeEmpty, DepFields
  <1>7. PICK cs : MergeDeployments(dst, Config) \in {<<>>, <<[m EXCEPT !.containers = cs]>>}
    BY <1>2, <1>3, <1>5 DEF MergeDeployments
  <1>8. PICK e : e = [m EXCEPT !.containers = cs]
    OBVIOUS
  <1>9. d = e
    BY <1>7, <1>8 DEF ToSet
  <1>10. QED
    BY <1>4, <1>6, <1>8, <1>9 DEF DepFields

\* The container that EnsureFuncDeployment adds leaves the volumes alone.
LEMMA OwnVolumes ==
    ASSUME NEW f, DOMAIN f.dep = DepFields
    PROVE  OwnDeployment(f).volumes = f.dep.volumes
  BY DEF OwnDeployment, DepFields

\* The image look-up fails only where the version look-up does.
LEMMA ImageFound ==
    ASSUME NEW f, NEW own, ImageOf(f, own) = <<>>
    PROVE  findRuntimeVersion(f.rt) = <<>>
  <1>1. Assembled(f) /\ GetFunctionImage(f.rt) = <<>>
    BY DEF ImageOf
  <1>2. QED
    BY <1>1 DEF GetFunctionImage, findRuntimeVersion

\* The merge does not reach the init containers.
LEMMA ContainersAgree ==
    ASSUME NEW f, NEW s, Agrees(f, s), NEW v, NEW env
    PROVE  InitContainers(f, v, env) = InitContainers(s, v, env)
  BY DEF Agrees, InitContainers, getProvisionContainer, Address, hasDeps

\* Nor the config map.
LEMMA ConfigMapsAgree ==
    ASSUME NEW f, NEW s, Agrees(f, s)
    PROVE  ConfigMapOf(f) = ConfigMapOf(s)
  BY DEF Agrees, ConfigMapOf

\* The pod of a Function that agrees with revision s.
PodFits(spec, s, once) ==
    /\ spec.err \in {"none", "format", "runtime", "volume"}
    /\ spec.err = "runtime" => findRuntimeVersion(s.rt) = <<>>
    /\ spec.err = "none" => /\ spec.init = <<>> \/ Shape(spec.init, s, VersionOf(s))
                            /\ once => MountsSound(spec, VersionOf(s))

\* What populatePodSpec returns, for every outcome.
LEMMA PodAssembled ==
    ASSUME NEW f, NEW s, Agrees(f, s), NEW own, own.volumes \in Seq(Volumes),
           NEW vs, vs = findRuntimeVersion(f.rt), NEW spec \in populatePodSpec(f, own, vs)
    PROVE  PodFits(spec, s, DeclaredOnce(own.volumes))
  <1>1. vs = findRuntimeVersion(s.rt)
    BY DEF Agrees
  <1>2. CASE spec = PodError("format") \/ spec = PodError("volume")
    BY <1>2 DEF PodError, PodFits
  <1>3. CASE vs = <<>> /\ spec = PodError("runtime")
    BY <1>1, <1>3 DEF PodError, PodFits
  <1>4. CASE vs # <<>> /\ \E init \in {InitContainers(f, Head(vs), own.containers[1].env)} :
                          \E uses \in {InitSecrets(Head(vs), init)} :
                             ~Clash(BaseVolumes(own), uses) /\ spec = WithInit(own, Head(vs), init, uses)
    <2>1. PICK v : v = Head(vs)
      OBVIOUS
    <2>2. IsVersion(v) /\ v = VersionOf(s)
      <3>1. PICK w : IsVersion(w) /\ vs = <<w>>
        BY <1>4, VersionFound
      <3>2. QED
        BY <1>1, <2>1, <3>1 DEF VersionOf
    <2>3. PICK env, ic, uses : /\ ic = InitContainers(f, v, env) /\ uses = InitSecrets(v, ic)
                               /\ ~Clash(BaseVolumes(own), uses)
                               /\ spec = WithInit(own, v, ic, uses)
      BY <1>4, <2>1
    <2>4. ic = InitContainers(s, v, env)
      BY <2>3, ContainersAgree
    <2>5. PICK base : base = BaseVolumes(own)
      OBVIOUS
    <2>6. /\ spec.err = "none" /\ spec.init = [i \in DOMAIN ic |-> MountSecrets(v, ic[i])]
          /\ spec.volumes = addSecretVolumes(base, uses)
      BY <2>3, <2>5 DEF WithInit
    <2>7. Shape(spec.init, s, v)
      BY <2>2, <2>4, <2>6, MountedShape
    <2>8. ASSUME DeclaredOnce(own.volumes)
          PROVE  MountsSound(spec, v)
      <3>1. /\ base \in Seq(PodVolumes) /\ {"fn", "fn-deps"} \subseteq VolumeNames(base)
            /\ \A i, j \in DOMAIN base : base[i].name = base[j].name => i = j
        BY <2>5, <2>8, BaseFacts
      <3>2. ~Clash(base, uses)
        BY <2>3, <2>5
      <3>3. QED
        BY <2>2, <2>3, <2>4, <2>6, <3>1, <3>2, AssemblySound
    <2>9. QED
      BY <2>2, <2>6, <2>7, <2>8 DEF PodFits
  <1>5. QED
    BY <1>2, <1>3, <1>4 DEF populatePodSpec

\* A Function without prepared pod keeps the volumes it has.
LEMMA PodAsGiven ==
    ASSUME NEW s, NEW vols \in Seq(Volumes), NEW spec, spec.err = "none", spec.init = <<>>,
           spec.volumes = vols
    PROVE  PodFits(spec, s, DeclaredOnce(vols))
  <1>1. ASSUME DeclaredOnce(vols)
        PROVE  MountsSound(spec, VersionOf(s))
    <2>1. Volumes \subseteq PodVolumes
      BY DEF PodVolumes
    <2>2. vols \in Seq(PodVolumes)
      BY <2>1, SeqMonotonic
    <2>3. \A i, j \in DOMAIN vols : vols[i].name = vols[j].name => i = j
      BY <1>1 DEF DeclaredOnce
    <2>4. Cardinality(VolumeNames(vols)) = Len(vols)
      BY <2>2, <2>3, NamesCount
    <2>5. DOMAIN spec.init = {}
      OBVIOUS
    <2>6. QED
      BY <2>4, <2>5 DEF MountsSound
  <1>2. QED
    BY <1>1 DEF PodFits

\* What EnsureFuncDeployment does for a cached Function that agrees with
\* revision s.
LEMMA Outcome ==
    ASSUME NEW f, NEW s, Agrees(f, s), DOMAIN f.dep = DepFields, f.dep.volumes \in Seq(Volumes),
           NEW r \in EnsureFuncDeployment(f)
    PROVE  /\ r.err = "runtime" => findRuntimeVersion(f.rt) = <<>>
           /\ r.err = "none" => /\ r.sent = <<Head(r.sent)>>
                                /\ Deploys(Head(r.sent), s)
                                /\ DeclaredOnce(f.dep.volumes) => MountsSound(Head(r.sent), VersionOf(s))
  <1>1. PICK own : own = OwnDeployment(f)
    OBVIOUS
  <1>2. PICK vs : vs = findRuntimeVersion(f.rt)
    OBVIOUS
  <1>3. PICK image : image = ImageOf(f, own)
    OBVIOUS
  <1>4. own.volumes = f.dep.volumes
    BY <1>1, OwnVolumes
  <1>5. PICK spec \in PodSpec(f, own, vs) :
           r = IF spec.err # "none" \/ image = <<>>
               THEN [err |-> IF spec.err # "none" THEN spec.err ELSE "runtime", sent |-> <<>>]
               ELSE [err |-> "none", sent |-> <<
                       [rev |-> f.rev, prep |-> f.rev, init |-> spec.init, volumes |-> spec.volumes, pull |-> spec.pull,
                        containers |-> [own.containers EXCEPT ![1] = FunctionContainer(f, own, Head(image))],
                        labels |-> own.labels, probe |-> GetLivenessProbeInfo(f.rt)]>>]
    BY <1>1, <1>2, <1>3 DEF EnsureFuncDeployment
  <1>6. PodFits(spec, s, DeclaredOnce(f.dep.volumes))
    <2>1. CASE Assembled(f)
      <3>1. spec \in populatePodSpec(f, own, vs)
        BY <1>5, <2>1 DEF PodSpec
      <3>2. PodFits(spec, s, DeclaredOnce(own.volumes))
        BY <1>2, <1>4, <3>1, PodAssembled
      <3>3. QED
        BY <1>4, <3>2
    <2>2. CASE ~Assembled(f)
      <3>1. spec.err = "none" /\ spec.init = <<>> /\ spec.volumes = own.volumes
        BY <1>5, <2>2 DEF PodSpec
      <3>2. QED
        BY <1>4, <3>1, PodAsGiven
    <2>3. QED
      BY <2>1, <2>2
  <1>7. findRuntimeVersion(f.rt) = findRuntimeVersion(s.rt) /\ f.rev = s.rev
    BY DEF Agrees
  <1>8. CASE spec.err # "none"
    BY <1>5, <1>6, <1>7, <1>8 DEF PodFits
  <1>9. CASE spec.err = "none" /\ image = <<>>
    BY <1>3, <1>5, <1>9, ImageFound
  <1>10. CASE spec.err = "none" /\ image # <<>>
    <2>1. PICK d : d = [rev |-> f.rev, prep |-> f.rev, init |-> spec.init, volumes |-> spec.volumes, pull |-> spec.pull,
                        containers |-> [own.containers EXCEPT ![1] = FunctionContainer(f, own, Head(image))],
                        labels |-> own.labels, probe |-> GetLivenessProbeInfo(f.rt)]
      OBVIOUS
    <2>2. r.err = "none" /\ r.sent = <<d>>
      BY <1>5, <1>10, <2>1
    <2>3. /\ DOMAIN d = DpmFields /\ d.rev = f.rev /\ d.prep = f.rev
          /\ d.init = spec.init /\ d.volumes = spec.volumes
      BY <2>1 DEF DpmFields
    <2>4. Deploys(d, s)
      <3>1. d.init # <<>> => Assembled(f)
        BY <1>5, <2>3 DEF PodSpec
      <3>2. Assembled(f) => f.handler # NoHandler
        BY Zenon DEF Assembled
      <3>3. f.handler = s.handler
        BY DEF Agrees
      <3>4. QED
        BY <1>6, <1>7, <1>10, <2>3, <3>1, <3>2, <3>3 DEF PodFits, Deploys, InitFor
    <2>5. DeclaredOnce(f.dep.volumes) => MountsSound(d, VersionOf(s))
      BY <1>6, <1>10, <2>3 DEF PodFits, MountsSound
    <2>6. QED
      BY <2>2, <2>4, <2>5
  <1>11. QED
    BY <1>8, <1>9, <1>10

-----------------------------------------------------------------------------
(* The inductive invariant.                                                *)

Fields == {"rt", "handler", "dep", "ct", "body", "sum", "deps", "rev"}

\* The checksum is of the bytes themselves, bundled dependencies come without
\* a list and without a checksum, and the content type is the file's.
GoodRev(s, i) ==
    /\ DOMAIN s = Fields /\ s.rev = i
    /\ s.body = ParseContent(s.ct, s.body.bytes)
    /\ s.body.bytes = [file |-> s.body.bytes.file, v |-> s.body.bytes.v]
    /\ s.sum \in {<<>>, <<s.body.bytes>>}
    /\ s.ct.deps => s.deps = NoDeps /\ s.sum = <<>>
    /\ \E r \in Requests : /\ s.dep = r.dep
                           /\ s.ct.enc = GetContentType(r.file).enc /\ s.ct.comp = r.file.ext

\* The volumes are the user's or, if there were none, the configured ones: the
\* merge into the cached object does not accumulate them.
CacheOk(c, s) ==
    /\ DOMAIN c = Fields /\ Agrees(c, s)
    /\ DOMAIN c.dep = DepFields
    /\ c.dep.volumes \in {s.dep.volumes, Config.volumes}

\* The prepare container c verifies what it then copies.
Verifies(c) == c.check # <<>> /\ c.decode # "text"

\* What the init containers have done so far is what they were made for.
PodSound(p, init) ==
    /\ p.next \in 1..Len(init) + 1
    /\ p.st = "started" => p.next = Len(init) + 1
    /\ p.raw # <<>> => p.next = 1 /\ init # <<>> /\ (Verifies(init[1]) => p.raw = init[1].check)
    /\ p.next > 1 => /\ Verifies(init[1]) => p.bytes = init[1].check
                     /\ init[1].copyDeps \/ p.deps = Bundled
    /\ p.next > 2 /\ init[2].name = "install" => /\ p.installed = p.deps
                                                 /\ init[2].check = NoDeps \/ init[2].check = p.deps
    /\ p.next > Len(init) /\ init # <<>> /\ init[Len(init)].name = "compile" =>
          p.compiled = <<p.bytes, p.installed>>

OfRevision(x) == x = <<Head(x)>> /\ Head(x).rev \in 1..Len(subs)

SubsInv == subs \in Seq(ToSet(subs)) /\ \A i \in 1..Len(subs) : GoodRev(subs[i], i)

CacheInv == cache # <<>> => OfRevision(cache) /\ CacheOk(Head(cache), subs[Head(cache).rev])

QueueInv == queued => cache # <<>>

CmInv == cm # <<>> => OfRevision(cm) /\ Head(cm) = ConfigMapOf(subs[Head(cm).rev])

SentInv ==
    sent # <<>> =>
        /\ OfRevision(sent)
        /\ VolumesDeclaredOnce => MountsSound(Head(sent), VersionOf(subs[Head(sent).rev]))

\* The deployment is of one revision and its init containers are of one, which
\* may be an earlier one.
DpmInv ==
    dpm # <<>> =>
        /\ OfRevision(dpm) /\ DOMAIN Head(dpm) = DpmFields
        /\ Head(dpm).prep \in 1..Len(subs)
        /\ InitFor(Head(dpm).init, subs[Head(dpm).prep])

PodsInv ==
    /\ DOMAIN pod = DOMAIN NoPod
    /\ pod.st # "none" => dpm # <<>> /\ PodSound(pod, Head(dpm).init)

ErrInv == err = "runtime" => cache # <<>> /\ findRuntimeVersion(Head(cache).rt) = <<>>

\* At every moment each object holds one submitted revision: the cached
\* Function up to the merge, the config map, the deployments sent and stored,
\* and the pod as far as it was prepared.
PodInv ==
    /\ SubsInv /\ CacheInv /\ QueueInv /\ CmInv /\ SentInv /\ DpmInv /\ PodsInv /\ ErrInv

\* A revision's deployment is one that a user asked for.
LEMMA RevisionDeployment ==
    ASSUME NEW s, NEW i, GoodRev(s, i)
    PROVE  /\ DOMAIN s.dep = DepFields /\ s.dep.volumes \in Seq(Volumes)
           /\ VolumesDeclaredOnce => DeclaredOnce(s.dep.volumes)
  <1>1. PICK r \in Requests : s.dep = r.dep
    BY DEF GoodRev
  <1>2. QED
    BY <1>1, PodTypes DEF IsDeployment, DepFields, VolumesDeclaredOnce

\* The volumes of a cached Function are the user's or the configured ones.
LEMMA CachedVolumes ==
    ASSUME NEW s, NEW i, GoodRev(s, i), NEW c, CacheOk(c, s)
    PROVE  /\ c.dep.volumes \in Seq(Volumes)
           /\ VolumesDeclaredOnce => DeclaredOnce(c.dep.volumes)
  <1>1. /\ s.dep.volumes \in Seq(Volumes)
        /\ VolumesDeclaredOnce => DeclaredOnce(s.dep.volumes)
    BY RevisionDeployment
  <1>2. /\ Config.volumes \in Seq(Volumes)
        /\ VolumesDeclaredOnce => DeclaredOnce(Config.volumes)
    BY PodTypes DEF IsDeployment, VolumesDeclaredOnce
  <1>3. c.dep.volumes = s.dep.volumes \/ c.dep.volumes = Config.volumes
    BY DEF CacheOk
  <1>4. QED
    BY <1>1, <1>2, <1>3

\* Merging once more keeps a cached Function in agreement with its revision.
LEMMA MergedOk ==
    ASSUME NEW c, NEW s, CacheOk(c, s), NEW d \in ToSet(MergeDeployments(c.dep, Config)),
           NEW f, f = [c EXCEPT !.dep = d]
    PROVE  CacheOk(f, s) /\ f.rev = c.rev
  <1>1. DOMAIN d = DepFields /\ d.volumes \in {c.dep.volumes, Config.volumes}
    BY MergeFacts DEF CacheOk
  <1>2. DOMAIN c = Fields
    BY DEF CacheOk
  <1>3. /\ DOMAIN f = Fields /\ f.dep = d
        /\ f.rt = c.rt /\ f.handler = c.handler /\ f.ct = c.ct /\ f.body = c.body
        /\ f.sum = c.sum /\ f.deps = c.deps /\ f.rev = c.rev
    BY <1>2 DEF Fields
  <1>4. QED
    BY <1>1, <1>3 DEF CacheOk, Agrees

\* Before anything is submitted.
LEMMA InitHolds ==
    Init => PodInv
  <1> SUFFICES ASSUME Init
               PROVE  PodInv
    OBVIOUS
  <1>1. SubsInv
    <2>1. subs = <<>> /\ Len(subs) = 0
      BY DEF Init
    <2>2. subs \in Seq(ToSet(subs)) /\ 1..Len(subs) = {}
      BY <2>1
    <2>3. QED
      BY <2>2 DEF SubsInv
  <1>2. pod.st = "none" /\ DOMAIN pod = DOMAIN NoPod /\ err # "runtime"
    BY DEF Init, NoPod
  <1>3. CacheInv /\ QueueInv /\ CmInv /\ SentInv /\ DpmInv
    BY DEF Init, CacheInv, QueueInv, CmInv, SentInv, DpmInv
  <1>4. PodsInv /\ ErrInv
    BY <1>2 DEF PodsInv, ErrInv
  <1>5. QED
    BY <1>1, <1>3, <1>4 DEF PodInv

\* A submission adds a revision and keeps the others in their places.
GrewBy(q, q2, x) ==
    /\ q2 \in Seq(ToSet(q2)) /\ Len(q) \in Nat /\ Len(q2) = Len(q) + 1
    /\ \A i \in 1..Len(q) : q2[i] = q[i]
    /\ q2[Len(q) + 1] = x

\* Append is such an addition.
LEMMA Grown ==
    ASSUME NEW q, q \in Seq(ToSet(q)), NEW x, NEW q2, q2 = Append(q, x)
    PROVE  GrewBy(q, q2, x)
  <1>1. PICK S : S = ToSet(q) \union {x}
    OBVIOUS
  <1>2. q \in Seq(S) /\ x \in S
    BY <1>1, SeqMonotonic
  <1>3. q2 \in Seq(S) /\ Len(q2) = Len(q) + 1 /\ Len(q) \in Nat
    BY <1>2, LenProperties
  <1>4. (\A i \in 1..Len(q) : q2[i] = q[i]) /\ q2[Len(q) + 1] = x
    BY <1>2
  <1>5. DOMAIN q2 = 1..Len(q2) /\ Len(q2) \in Nat
    BY <1>3, LenProperties
  <1>6. PICK T : T = ToSet(q2)
    OBVIOUS
  <1>7. PICK n \in Nat : n = Len(q2)
    BY <1>5
  <1>8. q2 \in Seq(T)
    <2>1. q2 \in [1..n -> S]
      BY <1>3, <1>7, LenProperties
    <2>2. \A i \in 1..n : q2[i] \in T
      BY <1>5, <1>6, <1>7 DEF ToSet
    <2>3. q2 \in [1..n -> T]
      BY <2>1, <2>2
    <2>4. QED
      BY <2>3, SeqDef
  <1>9. QED
    BY <1>3, <1>4, <1>6, <1>8 DEF GrewBy

\* The revision that Submit stores.
LEMMA SubmittedRevision ==
    ASSUME NEW r \in Requests, NEW bundled \in BOOLEAN, r.cli \in BOOLEAN,
           r.cli => ~bundled, bundled => r.deps = NoDeps,
           NEW ct, ct = [GetContentType(r.file) EXCEPT !.deps = bundled],
           NEW w, NEW bytes, bytes = [file |-> r.file, v |-> w],
           NEW n, NEW s,
           s = [rt |-> r.rt, handler |-> r.handler, dep |-> r.dep,
                ct |-> ct, body |-> ParseContent(ct, bytes),
                sum |-> IF r.cli THEN <<bytes>> ELSE <<>>,
                deps |-> r.deps, rev |-> n]
    PROVE  GoodRev(s, n)
  <1>1. ct.enc = GetContentType(r.file).enc /\ ct.comp = r.file.ext /\ ct.deps = bundled
    BY DEF GetContentType
  <1>2. /\ DOMAIN s = Fields /\ s.rev = n /\ s.ct = ct /\ s.dep = r.dep /\ s.deps = r.deps
        /\ s.body = ParseContent(ct, bytes) /\ s.sum = IF r.cli THEN <<bytes>> ELSE <<>>
    BY DEF Fields
  <1>3. s.body.bytes = bytes /\ s.body.bytes = [file |-> s.body.bytes.file, v |-> s.body.bytes.v]
    <2>1. s.body.bytes = bytes
      BY <1>2 DEF ParseContent
    <2>2. QED
      BY <2>1
  <1>4. s.sum \in {<<>>, <<s.body.bytes>>}
    BY <1>2, <1>3
  <1>5. s.ct.deps => s.deps = NoDeps /\ s.sum = <<>>
    BY <1>1, <1>2
  <1>6. s.body = ParseContent(s.ct, s.body.bytes)
    BY <1>2, <1>3
  <1>7. \E q \in Requests : /\ s.dep = q.dep
                            /\ s.ct.enc = GetContentType(q.file).enc /\ s.ct.comp = q.file.ext
    BY <1>1, <1>2
  <1>8. QED
    BY <1>2, <1>3, <1>4, <1>5, <1>6, <1>7 DEF GoodRev

\* A user deploys a file.
LEMMA SubmitStep ==
    ASSUME PodInv, User
    PROVE  PodInv'
  <1>1. PICK r \in Requests, bundled \in BOOLEAN : Submit(r, bundled)
    BY DEF User
  <1>2. PICK n : n = Len(subs)
    OBVIOUS
  <1>3. PICK ct : ct = [GetContentType(r.file) EXCEPT !.deps = bundled]
    OBVIOUS
  <1>4. PICK w : w = IF r.file.src = "url" THEN url ELSE Len(subs) + 1
    OBVIOUS
  <1>5. PICK bytes : bytes = [file |-> r.file, v |-> w]
    OBVIOUS
  <1>6. PICK s : s = [rt |-> r.rt, handler |-> r.handler, dep |-> r.dep,
                      ct |-> ct, body |-> ParseContent(ct, bytes),
                      sum |-> IF r.cli THEN <<bytes>> ELSE <<>>,
                      deps |-> r.deps, rev |-> n + 1]
    OBVIOUS
  <1>7. /\ subs' = Append(subs, s)
        /\ UNCHANGED <<url, cache, queued, tries, faults, cm, sent, dpm, err, pod>>
        /\ r.cli => ~bundled
        /\ bundled => r.deps = NoDeps
    BY <1>1, <1>2, <1>3, <1>4, <1>5, <1>6 DEF Submit
  <1>8. GoodRev(s, n + 1)
    BY <1>3, <1>5, <1>6, <1>7, PodTypes, SubmittedRevision
  <1>9. /\ subs' \in Seq(ToSet(subs')) /\ n \in Nat /\ Len(subs') = n + 1
        /\ \A i \in 1..n : subs'[i] = subs[i]
        /\ subs'[n + 1] = s
    <2>1. PICK q, q2 : q = subs /\ q2 = subs'
      OBVIOUS
    <2>2. q \in Seq(ToSet(q))
      BY <2>1 DEF PodInv, SubsInv
    <2>3. q2 = Append(q, s)
      BY <1>7, <2>1
    <2>4. GrewBy(q, q2, s)
      BY <2>2, <2>3, Grown
    <2>5. QED
      BY <1>2, <2>1, <2>4 DEF GrewBy
  <1>10. SubsInv'
    <2>1. \A i \in 1..n : GoodRev(subs[i], i)
      BY <1>2 DEF PodInv, SubsInv
    <2>2. ASSUME NEW i \in 1..n + 1
          PROVE  GoodRev(subs'[i], i)
      <3>1. CASE i = n + 1
        BY <1>8, <1>9, <3>1
      <3>2. CASE i # n + 1
        <4>1. i \in 1..n
          BY <1>9, <3>2
        <4>2. QED
          BY <1>9, <2>1, <4>1
      <3>3. QED
        BY <3>1, <3>2
    <2>3. QED
      BY <1>9, <2>2 DEF SubsInv
  <1>11. ASSUME NEW x, OfRevision(x)
         PROVE  Head(x).rev \in 1..Len(subs') /\ x = <<Head(x)>> /\ subs'[Head(x).rev] = subs[Head(x).rev]
    BY <1>2, <1>9, <1>11 DEF OfRevision
  <1>12. CacheInv'
    BY <1>7, <1>11 DEF PodInv, CacheInv, OfRevision
  <1>13. CmInv'
    BY <1>7, <1>11 DEF PodInv, CmInv, OfRevision
  <1>14. SentInv'
    BY <1>7, <1>11 DEF PodInv, SentInv, OfRevision
  <1>15. DpmInv'
    <2>1. ASSUME dpm # <<>>
          PROVE  Head(dpm).prep \in 1..Len(subs') /\ subs'[Head(dpm).prep] = subs[Head(dpm).prep]
      BY <1>2, <1>9, <2>1 DEF PodInv, DpmInv
    <2>2. QED
      BY <1>7, <1>11, <2>1 DEF PodInv, DpmInv, OfRevision
  <1>16. PodsInv'
    BY <1>7, <1>11 DEF PodInv, PodsInv, DpmInv
  <1>17. QueueInv' /\ ErrInv'
    BY <1>7 DEF PodInv, QueueInv, ErrInv
  <1>18. QED
    BY <1>10, <1>12, <1>13, <1>14, <1>15, <1>16, <1>17 DEF PodInv

\* The file behind the URL changes, or nothing does.
LEMMA RepublishStep ==
    ASSUME PodInv, Republish \/ UNCHANGED vars
    PROVE  PodInv'
  <1>1. UNCHANGED <<subs, cache, queued, tries, faults, cm, sent, dpm, err, pod>>
    BY DEF Republish, vars
  <1>2. SubsInv' /\ CacheInv' /\ QueueInv' /\ CmInv'
    BY <1>1 DEF PodInv, SubsInv, CacheInv, QueueInv, CmInv, OfRevision
  <1>3. SentInv' /\ DpmInv' /\ PodsInv' /\ ErrInv'
    BY <1>1 DEF PodInv, SentInv, DpmInv, PodsInv, ErrInv, OfRevision
  <1>4. QED
    BY <1>2, <1>3 DEF PodInv

\* What a step of the controller leaves alone.
LEMMA StoredKept ==
    ASSUME PodInv, UNCHANGED <<subs, sent, dpm, pod>>
    PROVE  SubsInv' /\ SentInv' /\ DpmInv' /\ PodsInv'
  BY DEF PodInv, SubsInv, SentInv, DpmInv, PodsInv, OfRevision

\* The informer delivers the latest revision.
LEMMA ObserveStep ==
    ASSUME PodInv, Observe
    PROVE  PodInv'
  <1>1. PICK n : n = Len(subs)
    OBVIOUS
  <1>2. PICK s : s = subs[n]
    OBVIOUS
  <1>3. n \in 1..n /\ GoodRev(s, n)
    <2>1. subs \in Seq(ToSet(subs)) /\ subs # <<>>
      BY DEF PodInv, SubsInv, Observe
    <2>2. n \in 1..n
      BY <1>1, <2>1
    <2>3. QED
      BY <1>1, <1>2, <2>2 DEF PodInv, SubsInv
  <1>4. /\ cache' = <<s>> /\ err' = "none"
        /\ UNCHANGED <<subs, cm, sent, dpm, pod>>
    BY <1>1, <1>2 DEF Observe, Last
  <1>5. s.rev = n /\ CacheOk(s, s)
    BY <1>3, RevisionDeployment DEF GoodRev, CacheOk, Agrees
  <1>6. CacheInv' /\ QueueInv'
    <2>1. Head(cache') = s /\ cache' # <<>>
      BY <1>4
    <2>2. QED
      BY <1>1, <1>2, <1>3, <1>4, <1>5, <2>1 DEF CacheInv, QueueInv, OfRevision
  <1>7. CmInv' /\ ErrInv'
    BY <1>4 DEF PodInv, CmInv, ErrInv, OfRevision
  <1>8. QED
    BY <1>4, <1>6, <1>7, StoredKept DEF PodInv

\* The merge runs past the end of the containers.
LEMMA PanicStep ==
    ASSUME PodInv, ReconcilePanics
    PROVE  PodInv'
  <1>1. /\ cache' = <<>> /\ queued' = FALSE /\ err' = "panic"
        /\ UNCHANGED <<subs, cm, sent, dpm, pod>>
    BY DEF ReconcilePanics
  <1>2. CacheInv' /\ QueueInv' /\ CmInv' /\ ErrInv'
    BY <1>1 DEF PodInv, CacheInv, QueueInv, CmInv, ErrInv, OfRevision
  <1>3. QED
    BY <1>1, <1>2, StoredKept DEF PodInv

\* The cached Function after the merge.
LEMMA MergedFacts ==
    ASSUME PodInv, queued, NEW f \in Merged
    PROVE  \E s : /\ f.rev \in 1..Len(subs) /\ s = subs[f.rev] /\ GoodRev(s, f.rev)
                  /\ CacheOk(f, s)
  <1>1. PICK c, s : c = Head(cache) /\ s = subs[c.rev]
    OBVIOUS
  <1>2. c.rev \in 1..Len(subs) /\ CacheOk(c, s) /\ GoodRev(s, c.rev)
    BY <1>1 DEF PodInv, QueueInv, CacheInv, OfRevision, SubsInv
  <1>3. PICK d \in ToSet(MergeDeployments(c.dep, Config)) : f = [c EXCEPT !.dep = d]
    BY <1>1 DEF Merged
  <1>4. CacheOk(f, s) /\ f.rev = c.rev
    BY <1>2, <1>3, MergedOk
  <1>5. QED
    BY <1>1, <1>2, <1>4

\* The cache and the config map after a reconciliation.
LEMMA Reconciled ==
    ASSUME PodInv, NEW f, NEW s, f.rev \in 1..Len(subs), s = subs[f.rev], CacheOk(f, s),
           UNCHANGED subs, cache' = <<f>>, cm' \in {cm, <<ConfigMapOf(f)>>}
    PROVE  CacheInv' /\ QueueInv' /\ CmInv'
  <1>1. cache' # <<>> /\ Head(cache') = f
    OBVIOUS
  <1>2. CacheInv' /\ QueueInv'
    BY <1>1 DEF CacheInv, QueueInv, OfRevision
  <1>3. CASE cm' = cm
    <2>1. CmInv /\ subs' = subs
      BY DEF PodInv
    <2>2. QED
      BY <1>2, <1>3, <2>1 DEF CmInv, OfRevision
  <1>4. CASE cm' = <<ConfigMapOf(f)>>
    <2>1. PICK x : x = ConfigMapOf(f)
      OBVIOUS
    <2>2. cm' = <<x>> /\ Head(cm') = x
      BY <1>4, <2>1
    <2>3. x.rev = f.rev
      BY <2>1 DEF ConfigMapOf
    <2>4. x = ConfigMapOf(s)
      BY <2>1, ConfigMapsAgree DEF CacheOk
    <2>5. subs' = subs /\ cm' = <<Head(cm')>>
      BY <2>2
    <2>6. Head(cm').rev \in 1..Len(subs') /\ Head(cm') = ConfigMapOf(subs'[Head(cm').rev])
      BY <2>2, <2>3, <2>4, <2>5
    <2>7. QED
      BY <1>2, <2>5, <2>6 DEF CmInv, OfRevision
  <1>5. QED
    BY <1>2, <1>3, <1>4

\* A new pod has done nothing yet.
LEMMA FreshPod ==
    ASSUME NEW init, NEW s, InitFor(init, s)
    PROVE  PodSound(NewPod, init)
  <1>1. NewPod.next = 1 /\ NewPod.st = "init" /\ NewPod.raw = <<>>
    BY DEF NewPod, NoPod
  <1>2. PICK n \in Nat : n = Len(init) /\ (init # <<>> => n >= 1)
    BY DEF InitFor, Shape
  <1>3. 1 \in 1..n + 1 /\ ~(1 > 1) /\ ~(1 > 2) /\ (init # <<>> => ~(1 > n))
    BY <1>2
  <1>4. QED
    BY <1>1, <1>2, <1>3 DEF PodSound

\* A reconciliation that ends before the deployment.
LEMMA ReconcileFailsStep ==
    ASSUME PodInv, Faulty
    PROVE  PodInv'
  <1>1. PICK f \in Merged, stage \in {"handler", "configmap", "service"} : ReconcileFails(f, stage)
    BY DEF Faulty
  <1>2. PICK s : /\ f.rev \in 1..Len(subs) /\ s = subs[f.rev]
                 /\ CacheOk(f, s)
    BY MergedFacts DEF Faulty
  <1>3. /\ cache' = <<f>> /\ cm' \in {cm, <<ConfigMapOf(f)>>} /\ err' = stage
        /\ UNCHANGED <<subs, sent, dpm, pod>>
    BY <1>1 DEF ReconcileFails, Failed
  <1>4. CacheInv' /\ QueueInv' /\ CmInv'
    BY <1>2, <1>3, Reconciled
  <1>5. ErrInv'
    BY <1>3 DEF ErrInv
  <1>6. QED
    BY <1>3, <1>4, <1>5, StoredKept DEF PodInv

\* What the API server holds after a deployment was created or patched.
LEMMA StoredFacts ==
    ASSUME PodInv, NEW s, s.rev \in 1..Len(subs), s = subs[s.rev], NEW d, Deploys(d, s),
           NEW st, st = Stored(d)
    PROVE  /\ DOMAIN st = DpmFields /\ st.rev = s.rev
           /\ st.prep \in 1..Len(subs) /\ InitFor(st.init, subs[st.prep])
  <1>1. CASE dpm = <<>>
    BY <1>1 DEF Stored, Deploys
  <1>2. CASE dpm # <<>>
    <2>1. PICK old : old = Head(dpm)
      OBVIOUS
    <2>2. old.prep \in 1..Len(subs) /\ InitFor(old.init, subs[old.prep])
      BY <1>2, <2>1 DEF PodInv, DpmInv
    <2>3. PICK pr, i, vo, pu, la :
             /\ pr = IF d.init = <<>> THEN old.prep ELSE d.prep
             /\ i = IF d.init = <<>> THEN old.init ELSE d.init
             /\ st = [d EXCEPT !.prep = pr, !.init = i, !.volumes = vo, !.pull = pu, !.labels = la]
      BY <1>2, <2>1 DEF Stored, Patched, KeptIfEmpty
    <2>4. DOMAIN st = DpmFields /\ st.rev = d.rev /\ st.prep = pr /\ st.init = i
      BY <2>3 DEF Deploys, DpmFields
    <2>5. QED
      BY <2>2, <2>3, <2>4 DEF Deploys
  <1>3. QED
    BY <1>1, <1>2

\* A reconciliation that reaches the deployment, which may be refused.
LEMMA ReconcileStep ==
    ASSUME PodInv, queued, NEW f \in Merged, NEW r \in EnsureFuncDeployment(f), Reconcile(f, r)
    PROVE  PodInv'
  <1>1. PICK s : /\ f.rev \in 1..Len(subs) /\ s = subs[f.rev]
                 /\ GoodRev(s, f.rev) /\ CacheOk(f, s)
    BY MergedFacts
  <1>2. PICK d : d = Head(r.sent)
    OBVIOUS
  <1>3. /\ r.err = "runtime" => findRuntimeVersion(f.rt) = <<>>
        /\ r.err = "none" => /\ r.sent = <<d>> /\ Deploys(d, s)
                             /\ DeclaredOnce(f.dep.volumes) => MountsSound(d, VersionOf(s))
    <2>1. Agrees(f, s) /\ DOMAIN f.dep = DepFields
      BY <1>1 DEF CacheOk
    <2>2. f.dep.volumes \in Seq(Volumes)
      BY <1>1, CachedVolumes
    <2>3. QED
      BY <1>2, <2>1, <2>2, Outcome
  <1>4. VolumesDeclaredOnce => DeclaredOnce(f.dep.volumes)
    BY <1>1, CachedVolumes
  <1>5. cache' = <<f>> /\ cm' = <<ConfigMapOf(f)>> /\ UNCHANGED subs
    BY DEF Reconcile
  <1>6. CacheInv' /\ QueueInv' /\ CmInv' /\ SubsInv'
    BY <1>1, <1>5, Reconciled DEF PodInv, SubsInv
  <1>7. ErrInv'
    <2>1. cache' # <<>> /\ Head(cache') = f
      BY <1>5
    <2>2. err' \in {"none", "rejected", r.err}
      BY DEF Reconcile, Failed
    <2>3. QED
      BY <1>3, <2>1, <2>2 DEF ErrInv
  <1>8. r.err = "none" => d.rev = f.rev
    BY <1>1, <1>3 DEF Deploys, CacheOk, Agrees
  <1>9. SentInv'
    <2>1. CASE r.err = "none"
      <3>1. sent' = <<d>> /\ Head(sent') = d
        BY <1>3, <2>1 DEF Reconcile
      <3>2. QED
        BY <1>1, <1>3, <1>4, <1>5, <1>8, <2>1, <3>1 DEF SentInv, OfRevision
    <2>2. CASE r.err # "none"
      <3>1. sent' = sent
        BY <2>2 DEF Reconcile
      <3>2. QED
        BY <1>5, <3>1 DEF PodInv, SentInv, OfRevision
    <2>3. QED
      BY <2>1, <2>2
  <1>10. CASE UNCHANGED <<dpm, pod>>
    <2>1. DpmInv' /\ PodsInv'
      BY <1>5, <1>10 DEF PodInv, DpmInv, PodsInv, OfRevision
    <2>2. QED
      BY <1>6, <1>7, <1>9, <2>1 DEF PodInv
  <1>11. PICK st : st = Stored(d)
    OBVIOUS
  <1>12. CASE r.err = "none" /\ dpm' = <<st>>
              /\ (pod' = NewPod \/ (pod' = pod /\ dpm # <<>> /\ st.init = Head(dpm).init))
    <2>1. Head(dpm') = st /\ dpm' # <<>>
      BY <1>12
    <2>2. /\ DOMAIN st = DpmFields /\ st.rev = f.rev
          /\ st.prep \in 1..Len(subs) /\ InitFor(st.init, subs[st.prep])
      <3>1. s.rev = f.rev
        BY <1>1 DEF GoodRev
      <3>2. QED
        BY <1>1, <1>3, <1>11, <1>12, <3>1, StoredFacts
    <2>3. DpmInv'
      BY <1>1, <1>5, <1>12, <2>1, <2>2 DEF DpmInv, OfRevision
    <2>4. PodSound(NewPod, st.init) /\ DOMAIN NewPod = DOMAIN NoPod
      BY <2>2, FreshPod DEF NewPod
    <2>5. PodsInv'
      <3>1. CASE pod' = NewPod
        BY <2>1, <2>4, <3>1 DEF PodsInv
      <3>2. CASE pod' = pod /\ st.init = Head(dpm).init
        BY <2>1, <3>2 DEF PodInv, PodsInv
      <3>3. QED
        BY <1>12, <3>1, <3>2
    <2>6. QED
      BY <1>6, <1>7, <1>9, <2>3, <2>5 DEF PodInv
  <1>13. QED
    <2>1. CASE r.err = "none" /\ dpm' = <<st>>
      <3>1. pod' = IF dpm # <<>> /\ Template(Head(dpm')) = Template(Head(dpm)) THEN pod ELSE NewPod
        BY <1>2, <1>11, <2>1 DEF Reconcile, Failed
      <3>2. Head(dpm') = st
        BY <2>1
      <3>3. Template(st) = Template(Head(dpm)) => st.init = Head(dpm).init
        BY DEF Template
      <3>4. QED
        BY <1>12, <2>1, <3>1, <3>2, <3>3
    <2>2. CASE ~(r.err = "none" /\ dpm' = <<st>>)
      <3>1. UNCHANGED <<dpm, pod>>
        BY <1>2, <1>11, <2>2 DEF Reconcile
      <3>2. QED
        BY <1>10, <3>1
    <2>3. QED
      BY <2>1, <2>2

-----------------------------------------------------------------------------
(* The steps of the kubelet.                                               *)

\* Which init container is at which place.
LEMMA Places ==
    ASSUME NEW init, NEW s, NEW v, Shape(init, s, v), NEW i \in 1..Len(init)
    PROVE  /\ init[i].name = "prepare" => i = 1
           /\ init[i].name = "install" => Installs(s, v) /\ i = 2
           /\ init[i].name = "compile" => /\ Compiles(v) /\ i = Len(init)
                                          /\ Installs(s, v) => i = 3
                                          /\ ~Installs(s, v) => i = 2
  <1>1. /\ Len(init) = 1 + (IF Installs(s, v) THEN 1 ELSE 0) + (IF Compiles(v) THEN 1 ELSE 0)
        /\ init[1].name = "prepare"
        /\ Installs(s, v) => init[2].name = "install"
        /\ Compiles(v) => init[Len(init)].name = "compile"
    BY DEF Shape, Prepares
  <1>2. QED
    BY <1>1

\* The fields of a pod.
LEMMA PodFields ==
    DOMAIN NoPod = {"st", "next", "raw", "bytes", "deps", "installed", "compiled"}
  BY DEF NoPod

\* The pod in the middle of its preparation.
LEMMA Preparing ==
    ASSUME PodInv, pod.st # "none", NEW init, init = Head(dpm).init, NEW s, s = subs[Head(dpm).prep]
    PROVE  /\ GoodRev(s, Head(dpm).prep) /\ PodSound(pod, init) /\ DOMAIN pod = DOMAIN NoPod
           /\ init = <<>> \/ Shape(init, s, VersionOf(s))
           /\ InitFor(init, s)
  BY DEF PodInv, SubsInv, DpmInv, PodsInv, InitFor

\* A step of the kubelet changes the pod alone.
LEMMA PodChanged ==
    ASSUME PodInv, pod.st # "none", DOMAIN pod' = DOMAIN NoPod,
           PodSound(pod', Head(dpm).init),
           UNCHANGED <<subs, cache, queued, cm, sent, dpm, err>>
    PROVE  PodInv'
  <1>1. SubsInv' /\ CacheInv' /\ QueueInv' /\ CmInv'
    BY DEF PodInv, SubsInv, CacheInv, QueueInv, CmInv, OfRevision
  <1>2. SentInv' /\ DpmInv' /\ ErrInv'
    BY DEF PodInv, SentInv, DpmInv, ErrInv, OfRevision
  <1>3. PodsInv'
    BY DEF PodInv, PodsInv
  <1>4. QED
    BY <1>1, <1>2, <1>3 DEF PodInv

\* The prepare container up to its checksum.
LEMMA VerifyStep ==
    ASSUME PodInv, RunVerify
    PROVE  PodInv'
  <1>1. PICK init, s : init = Head(dpm).init /\ s = subs[Head(dpm).prep]
    OBVIOUS
  <1>2. PICK c, x : c = init[pod.next] /\ x = Raw(c).bytes
    OBVIOUS
  <1>3. PICK p, q : p = pod /\ q = pod'
    OBVIOUS
  <1>4. /\ p.st = "init" /\ p.next <= Len(init) /\ c.name = "prepare" /\ PrepareOk(c)
        /\ q = [p EXCEPT !.raw = <<x>>]
        /\ UNCHANGED <<subs, cache, queued, cm, sent, dpm, err>>
    BY <1>1, <1>2, <1>3 DEF RunVerify
  <1>5. /\ GoodRev(s, Head(dpm).prep) /\ PodSound(p, init) /\ DOMAIN p = DOMAIN NoPod
        /\ init = <<>> \/ Shape(init, s, VersionOf(s))
    BY <1>1, <1>3, <1>4, Preparing
  <1>6. p.next \in 1..Len(init) + 1
    BY <1>5 DEF PodSound
  <1>7. Shape(init, s, VersionOf(s)) /\ init # <<>>
    BY <1>4, <1>5, <1>6
  <1>8. Len(init) \in 1..3
    BY <1>7 DEF Shape
  <1>9. p.next \in 1..Len(init)
    BY <1>4, <1>6, <1>8
  <1>10. p.next = 1
    BY <1>2, <1>3, <1>4, <1>7, <1>9, Places
  <1>11. c = init[1] /\ c.check = s.sum
    BY <1>2, <1>3, <1>7, <1>10 DEF Shape, Prepares
  <1>12. c.check # <<>> => <<x>> = c.check
    <2>1. s.sum # <<>> => x = Head(s.sum)
      BY <1>2, <1>4, <1>11 DEF PrepareOk
    <2>2. s.sum = <<>> \/ s.sum = <<s.body.bytes>>
      BY <1>5 DEF GoodRev
    <2>3. QED
      BY <1>11, <2>1, <2>2
  <1>13. /\ DOMAIN q = DOMAIN NoPod /\ q.st = p.st /\ q.next = p.next /\ q.raw = <<x>>
         /\ q.bytes = p.bytes /\ q.deps = p.deps /\ q.installed = p.installed /\ q.compiled = p.compiled
    BY <1>4, <1>5, PodFields
  <1>14. PodSound(q, init)
    BY <1>4, <1>5, <1>7, <1>10, <1>11, <1>12, <1>13 DEF PodSound, Verifies
  <1>15. QED
    BY <1>1, <1>3, <1>4, <1>13, <1>14, PodChanged

\* The prepare container after its checksum.
LEMMA CopyStep ==
    ASSUME PodInv, RunCopy
    PROVE  PodInv'
  <1>1. PICK init, s : init = Head(dpm).init /\ s = subs[Head(dpm).prep]
    OBVIOUS
  <1>2. PICK c : c = init[pod.next]
    OBVIOUS
  <1>3. PICK p, q : p = pod /\ q = pod'
    OBVIOUS
  <1>4. PICK b, e : /\ c.decode # "text" => b = p.raw
                    /\ ~c.copyDeps => e = Bundled
                    /\ \/ q = [p EXCEPT !.raw = <<>>]
                       \/ q = [p EXCEPT !.next = @ + 1, !.raw = <<>>, !.bytes = b, !.deps = e]
    BY <1>1, <1>2, <1>3 DEF RunCopy
  <1>5. /\ p.st = "init" /\ p.raw # <<>>
        /\ UNCHANGED <<subs, cache, queued, cm, sent, dpm, err>>
    BY <1>3 DEF RunCopy
  <1>6. /\ PodSound(p, init) /\ DOMAIN p = DOMAIN NoPod
        /\ init = <<>> \/ Shape(init, s, VersionOf(s))
    BY <1>1, <1>3, <1>5, Preparing
  <1>7. /\ p.next = 1 /\ Shape(init, s, VersionOf(s)) /\ init # <<>>
        /\ Verifies(init[1]) => p.raw = init[1].check
    BY <1>5, <1>6 DEF PodSound
  <1>8. c = init[1]
    BY <1>2, <1>3, <1>7
  <1>9. PICK n \in Nat : n = Len(init) /\ n \in 1..3
    BY <1>7 DEF Shape
  <1>10. init[n].name = "compile" => n > 1
    BY <1>7, <1>9 DEF Shape, Prepares
  <1>11. CASE q = [p EXCEPT !.raw = <<>>]
    <2>1. /\ DOMAIN q = DOMAIN NoPod /\ q.st = p.st /\ q.next = p.next /\ q.raw = <<>>
          /\ q.bytes = p.bytes /\ q.deps = p.deps /\ q.installed = p.installed /\ q.compiled = p.compiled
      BY <1>6, <1>11, PodFields
    <2>2. PodSound(q, init)
      BY <1>6, <2>1 DEF PodSound
    <2>3. QED
      BY <1>1, <1>3, <1>5, <2>1, <2>2, PodChanged
  <1>12. CASE q = [p EXCEPT !.next = @ + 1, !.raw = <<>>, !.bytes = b, !.deps = e]
    <2>1. /\ DOMAIN q = DOMAIN NoPod /\ q.st = p.st /\ q.next = p.next + 1 /\ q.raw = <<>>
          /\ q.bytes = b /\ q.deps = e
      BY <1>6, <1>12, PodFields
    <2>2. q.next = 2 /\ q.next \in 1..n + 1 /\ ~(q.next > 2)
      BY <1>7, <1>9, <2>1
    <2>3. init[n].name = "compile" => ~(q.next > n)
      BY <1>9, <1>10, <2>2
    <2>4. Verifies(init[1]) => q.bytes = init[1].check
      BY <1>4, <1>7, <1>8, <2>1 DEF Verifies
    <2>5. init[1].copyDeps \/ q.deps = Bundled
      BY <1>4, <1>8, <2>1
    <2>6. PodSound(q, init)
      BY <1>5, <1>9, <2>1, <2>2, <2>3, <2>4, <2>5 DEF PodSound
    <2>7. QED
      BY <1>1, <1>3, <1>5, <2>1, <2>6, PodChanged
  <1>13. QED
    BY <1>4, <1>11, <1>12

\* The dependencies that an install container has verified.
LEMMA InstalledDeps ==
    ASSUME NEW s, NEW i, GoodRev(s, i), NEW v, Installs(s, v), NEW e,
           CopiesDeps(s) \/ e = Bundled, s.deps = NoDeps \/ s.deps = e
    PROVE  e = IF s.deps = NoDeps THEN Bundled ELSE s.deps
  <1>1. CASE s.deps = NoDeps
    <2>1. s.ct.deps
      BY <1>1 DEF Installs, hasDeps
    <2>2. ~CopiesDeps(s)
      BY <2>1 DEF CopiesDeps
    <2>3. QED
      BY <1>1, <2>2
  <1>2. CASE s.deps # NoDeps
    BY <1>2
  <1>3. QED
    BY <1>1, <1>2

\* The install and the compile container.
LEMMA HookStep ==
    ASSUME PodInv, RunHook
    PROVE  PodInv'
  <1>1. PICK init, s : init = Head(dpm).init /\ s = subs[Head(dpm).prep]
    OBVIOUS
  <1>2. PICK c, v : c = init[pod.next] /\ v = VersionOf(s)
    OBVIOUS
  <1>3. PICK p, q : p = pod /\ q = pod'
    OBVIOUS
  <1>4. /\ p.st = "init" /\ p.next <= Len(init)
        /\ UNCHANGED <<subs, cache, queued, cm, sent, dpm, err>>
        /\ \/ /\ c.name = "install" /\ (c.check = NoDeps \/ c.check = p.deps)
              /\ q = [p EXCEPT !.next = @ + 1, !.installed = p.deps]
           \/ /\ c.name = "compile"
              /\ q = [p EXCEPT !.next = @ + 1, !.compiled = <<p.bytes, p.installed>>]
    BY <1>1, <1>2, <1>3 DEF RunHook
  <1>5. /\ GoodRev(s, Head(dpm).prep) /\ PodSound(p, init) /\ DOMAIN p = DOMAIN NoPod
        /\ init = <<>> \/ Shape(init, s, v)
    BY <1>1, <1>2, <1>3, <1>4, Preparing
  <1>6. p.next \in 1..Len(init) + 1
    BY <1>5 DEF PodSound
  <1>7. Shape(init, s, v) /\ init # <<>>
    BY <1>4, <1>5, <1>6
  <1>8. PICK n \in 1..3 : n = Len(init)
    BY <1>7 DEF Shape
  <1>9. p.next \in 1..Len(init)
    BY <1>4, <1>6, <1>8
  <1>10. /\ c.name = "install" => Installs(s, v) /\ p.next = 2
         /\ c.name = "compile" => /\ Compiles(v) /\ p.next = n
                                  /\ Installs(s, v) => p.next = 3
                                  /\ ~Installs(s, v) => p.next = 2
    BY <1>2, <1>3, <1>7, <1>8, <1>9, Places
  <1>11. /\ p.raw # <<>> => p.next = 1
         /\ p.next > 1 => /\ Verifies(init[1]) => p.bytes = init[1].check
                          /\ init[1].copyDeps \/ p.deps = Bundled
         /\ p.next > 2 /\ init[2].name = "install" => /\ p.installed = p.deps
                                                      /\ init[2].check = NoDeps \/ init[2].check = p.deps
    BY <1>5 DEF PodSound
  <1>12. CASE c.name = "install" /\ (c.check = NoDeps \/ c.check = p.deps)
              /\ q = [p EXCEPT !.next = @ + 1, !.installed = p.deps]
    <2>1. /\ DOMAIN q = DOMAIN NoPod /\ q.st = p.st /\ q.next = p.next + 1 /\ q.raw = p.raw
          /\ q.bytes = p.bytes /\ q.deps = p.deps /\ q.installed = p.deps
      BY <1>5, <1>12, PodFields
    <2>2. p.next = 2 /\ q.next = 3 /\ Installs(s, v) /\ q.next \in 1..n + 1 /\ q.next > 1
      BY <1>8, <1>9, <1>10, <1>12, <2>1
    <2>3. c = init[2]
      BY <1>2, <1>3, <2>2
    <2>4. init[n].name = "compile" => ~(q.next > n)
      <3>1. n = 2 => init[n].name = "install"
        BY <1>12, <2>3
      <3>2. QED
        BY <1>8, <1>9, <2>2, <3>1
    <2>5. /\ q.raw = <<>>
          /\ Verifies(init[1]) => q.bytes = init[1].check
          /\ init[1].copyDeps \/ q.deps = Bundled
      BY <1>11, <2>1, <2>2
    <2>6. q.installed = q.deps /\ (init[2].check = NoDeps \/ init[2].check = q.deps)
      BY <1>12, <2>1, <2>3
    <2>7. PodSound(q, init)
      BY <1>4, <1>8, <2>1, <2>2, <2>4, <2>5, <2>6 DEF PodSound
    <2>8. QED
      BY <1>1, <1>3, <1>4, <2>1, <2>7, PodChanged
  <1>13. CASE c.name = "compile" /\ q = [p EXCEPT !.next = @ + 1, !.compiled = <<p.bytes, p.installed>>]
    <2>1. /\ DOMAIN q = DOMAIN NoPod /\ q.st = p.st /\ q.next = p.next + 1 /\ q.raw = p.raw
          /\ q.bytes = p.bytes /\ q.deps = p.deps /\ q.installed = p.installed
          /\ q.compiled = <<q.bytes, q.installed>>
      BY <1>5, <1>13, PodFields
    <2>2. p.next > 1 /\ p.next # 1 /\ q.next \in 1..n + 1 /\ q.next > 1
      BY <1>8, <1>9, <1>10, <1>13, <2>1
    <2>3. init[2].name = "install" => p.next > 2
      <3>1. p.next = 2 => init[2].name = "compile"
        BY <1>2, <1>3, <1>13
      <3>2. p.next = 2 \/ p.next > 2
        BY <1>8, <1>9, <2>2
      <3>3. QED
        BY <3>1, <3>2
    <2>4. /\ q.raw = <<>>
          /\ Verifies(init[1]) => q.bytes = init[1].check
          /\ init[1].copyDeps \/ q.deps = Bundled
          /\ init[2].name = "install" => /\ q.installed = q.deps
                                         /\ init[2].check = NoDeps \/ init[2].check = q.deps
      BY <1>11, <2>1, <2>2, <2>3
    <2>5. PodSound(q, init)
      BY <1>4, <1>8, <2>1, <2>2, <2>4 DEF PodSound
    <2>6. QED
      BY <1>1, <1>3, <1>4, <2>1, <2>5, PodChanged
  <1>14. QED
    BY <1>4, <1>12, <1>13

\* The function's own container starts.
LEMMA StartStep ==
    ASSUME PodInv, StartFunction
    PROVE  PodInv'
  <1>1. PICK init, s : init = Head(dpm).init /\ s = subs[Head(dpm).prep]
    OBVIOUS
  <1>2. PICK p, q : p = pod /\ q = pod'
    OBVIOUS
  <1>3. /\ p.st = "init" /\ p.next > Len(init) /\ q = [p EXCEPT !.st = "started"]
        /\ UNCHANGED <<subs, cache, queued, cm, sent, dpm, err>>
    BY <1>1, <1>2 DEF StartFunction
  <1>4. /\ PodSound(p, init) /\ DOMAIN p = DOMAIN NoPod
        /\ init = <<>> \/ Shape(init, s, VersionOf(s))
    BY <1>1, <1>2, <1>3, Preparing
  <1>5. p.next \in 1..Len(init) + 1 /\ Len(init) \in Nat
    BY <1>4 DEF PodSound, Shape
  <1>6. p.next = Len(init) + 1
    BY <1>3, <1>5
  <1>7. /\ DOMAIN q = DOMAIN NoPod /\ q.next = p.next /\ q.raw = p.raw /\ q.bytes = p.bytes
        /\ q.deps = p.deps /\ q.installed = p.installed /\ q.compiled = p.compiled
    BY <1>3, <1>4, PodFields
  <1>8. PodSound(q, init)
    BY <1>4, <1>6, <1>7 DEF PodSound
  <1>9. QED
    BY <1>1, <1>2, <1>3, <1>7, <1>8, PodChanged

\* The pod is replaced.
LEMMA LostStep ==
    ASSUME PodInv, PodLost
    PROVE  PodInv'
  <1>1. PICK init, s : init = Head(dpm).init /\ s = subs[Head(dpm).prep]
    OBVIOUS
  <1>2. pod.st # "none" /\ pod' = NewPod /\ UNCHANGED <<subs, cache, queued, cm, sent, dpm, err>>
    BY DEF PodLost
  <1>3. InitFor(init, s)
    BY <1>1, <1>2, Preparing
  <1>4. PodSound(NewPod, init) /\ DOMAIN NewPod = DOMAIN NoPod
    BY <1>3, FreshPod DEF NewPod
  <1>5. QED
    BY <1>1, <1>2, <1>4, PodChanged

-----------------------------------------------------------------------------
(* The theorems.                                                           *)

\* Every step keeps the invariant.
LEMMA StepKeeps ==
    ASSUME PodInv, [Next]_vars
    PROVE  PodInv'
  <1>1. CASE User
    BY <1>1, SubmitStep
  <1>2. CASE Republish \/ UNCHANGED vars
    BY <1>2, RepublishStep
  <1>3. CASE Controller
    BY <1>3, ObserveStep, PanicStep, ReconcileStep DEF Controller
  <1>4. CASE Faulty
    BY <1>4, ReconcileFailsStep
  <1>5. CASE Kubelet
    BY <1>5, VerifyStep, CopyStep, HookStep, StartStep DEF Kubelet
  <1>6. CASE PodLost
    BY <1>6, LostStep
  <1>7. QED
    BY <1>1, <1>2, <1>3, <1>4, <1>5, <1>6 DEF Next

\* Whatever is submitted, merged again, retried, lost or republished, each
\* object that the controller writes belongs to exactly one revision, and the
\* pod is prepared for the revision of its deployment (kubelessutil.go:85-117,
\* :407-480, :862-930).
THEOREM PodInvariant == Spec => []PodInv
  <1>1. PodInv /\ [Next]_vars => PodInv'
    BY StepKeeps
  <1>2. QED
    BY <1>1, InitHolds, PTL DEF Spec

\* A started function runs the bytes and the dependencies its deployment was
\* made for, whatever the config map and the URL hold by then, and was compiled
\* from them (kubelessutil.go:101-117, langruntime.go:304-313).
THEOREM StartsOneRevisionTheorem == Spec => []StartsOneRevision
  <1>1. PodInv => StartsOneRevision
    <2> SUFFICES ASSUME PodInv, pod.st = "started", Head(dpm).init # <<>>
                 PROVE  StartsOneRevision
      BY DEF StartsOneRevision
    <2>1. PICK init, s, v : init = Head(dpm).init /\ s = subs[Head(dpm).prep] /\ v = VersionOf(s)
      OBVIOUS
    <2>2. PodSound(pod, init) /\ Shape(init, s, v) /\ GoodRev(s, Head(dpm).prep)
      BY <2>1, Preparing
    <2>3. pod.next = Len(init) + 1
      BY <2>2 DEF PodSound
    <2>4. /\ pod.next > 1 /\ pod.next > Len(init)
          /\ Installs(s, v) => pod.next > 2
      BY <2>2, <2>3 DEF Shape
    <2>5. /\ s.sum # <<>> /\ s.ct.enc # "text" => pod.bytes = s.sum
          /\ Installs(s, v) => pod.installed = IF s.deps = NoDeps THEN Bundled ELSE s.deps
          /\ Compiles(v) => pod.compiled = <<pod.bytes, pod.installed>>
      <3>1. Prepares(init[1], s)
        BY <2>2 DEF Shape
      <3>2. /\ Verifies(init[1]) => pod.bytes = init[1].check
            /\ init[1].copyDeps \/ pod.deps = Bundled
        BY <2>2, <2>4 DEF PodSound
      <3>3. s.sum # <<>> /\ s.ct.enc # "text" => pod.bytes = s.sum
        BY <3>1, <3>2 DEF Prepares, Verifies
      <3>4. CopiesDeps(s) \/ pod.deps = Bundled
        BY <3>1, <3>2 DEF Prepares
      <3>5. ASSUME Installs(s, v)
            PROVE  pod.installed = IF s.deps = NoDeps THEN Bundled ELSE s.deps
        <4>1. init[2].name = "install" /\ init[2].check = s.deps
          BY <2>2, <3>5 DEF Shape
        <4>2. pod.installed = pod.deps /\ (s.deps = NoDeps \/ s.deps = pod.deps)
          BY <2>2, <2>4, <3>5, <4>1 DEF PodSound
        <4>3. pod.deps = IF s.deps = NoDeps THEN Bundled ELSE s.deps
          BY <2>2, <3>4, <3>5, <4>2, InstalledDeps
        <4>4. QED
          BY <4>2, <4>3
      <3>6. Compiles(v) => pod.compiled = <<pod.bytes, pod.installed>>
        BY <2>1, <2>2, <2>4 DEF PodSound, Shape
      <3>7. QED
        BY <3>3, <3>5, <3>6
    <2>6. QED
      BY <2>1, <2>5 DEF StartsOneRevision, Installs, Compiles, VersionOf
  <1>2. QED
    BY <1>1, PodInvariant, PTL

\* With a runtime table whose names can be taken apart again, the controller
\* resolves every runtime that the command line accepts: "runtime" is never the
\* error of a Function with a valid one (langruntime.go:101-108, :123-138,
\* :165-177).
THEOREM ValidRuntimeResolvesTheorem == WellNamed => (Spec => []ValidRuntimeResolves)
  <1> SUFFICES ASSUME WellNamed
               PROVE  Spec => []ValidRuntimeResolves
    OBVIOUS
  <1>1. PodInv => ValidRuntimeResolves
    <2> SUFFICES ASSUME PodInv, err = "runtime", IsValidRuntime(Head(cache).rt)
                 PROVE  FALSE
      BY DEF ValidRuntimeResolves
    <2>1. PICK rt : rt = Head(cache).rt
      OBVIOUS
    <2>2. findRuntimeVersion(rt) = <<>>
      BY <2>1 DEF PodInv, ErrInv
    <2>3. QED
      BY <2>1, <2>2, ValidIsFound
  <1>2. QED
    BY <1>1, PodInvariant, PTL

\* If no archive is valid text, the prepare container of the revision in the
\* config map undoes the encoding the command line chose and its checksum
\* matches (kubelessutil.go:85-117, :951-1016).
THEOREM PrepareAcceptsTheorem == ArchivesAreBinary => (Spec => []PrepareAccepts)
  <1> SUFFICES ASSUME ArchivesAreBinary
               PROVE  Spec => []PrepareAccepts
    OBVIOUS
  <1>1. PodInv => PrepareAccepts
    <2> SUFFICES ASSUME PodInv, cm # <<>>, dpm # <<>>, Head(cm).rev = Head(dpm).prep,
                        Head(dpm).init # <<>>, Served(subs[Head(dpm).prep])
                 PROVE  PrepareOk(Head(Head(dpm).init))
      BY DEF PrepareAccepts
    <2>1. PICK init, s : init = Head(dpm).init /\ s = subs[Head(dpm).prep]
      OBVIOUS
    <2>2. /\ GoodRev(s, Head(dpm).prep) /\ Shape(init, s, VersionOf(s)) /\ s.handler # NoHandler
          /\ Head(cm) = ConfigMapOf(s)
      BY <2>1 DEF PodInv, SubsInv, DpmInv, CmInv, OfRevision, InitFor
    <2>3. PICK c : c = init[1]
      OBVIOUS
    <2>4. Head(init) = c /\ Prepares(c, s)
      BY <2>2, <2>3 DEF Shape
    <2>5. c.key = Head(cm).key /\ Head(cm).body = s.body
      BY <2>2, <2>4 DEF Prepares, ConfigMapOf
    <2>6. PICK enc, x : enc = s.ct.enc /\ x = s.body.bytes
      OBVIOUS
    <2>7. c.decode = enc /\ c.check = s.sum /\ c.from = Address(s)
      BY <2>4, <2>6 DEF Prepares
    <2>8. PICK t \in BOOLEAN : /\ t <=> enc # "url" /\ ~PlainText(s.ct)
                               /\ s.body = [bytes |-> x, b64 |-> t]
                               /\ x = [file |-> x.file, v |-> x.v]
      BY <2>2, <2>6 DEF GoodRev, ParseContent
    <2>9. c.decode = "base64" => Head(cm).body.b64
      <3>1. s.body.b64 = t
        BY <2>8
      <3>2. enc = "base64" => t
        BY <2>6, <2>8 DEF PlainText
      <3>3. QED
        BY <2>5, <2>7, <3>1, <3>2
    <2>10. ASSUME c.check # <<>>
           PROVE  ~Raw(c).b64 /\ Raw(c).bytes = Head(c.check)
      <3>1. Head(c.check) = x /\ ~s.ct.deps
        BY <2>2, <2>6, <2>7, <2>10 DEF GoodRev
      <3>2. CASE enc = "url"
        <4>1. x.v = url
          BY <2>1, <2>6, <3>2 DEF Served
        <4>2. Head(c.from) = x.file
          BY <2>6, <2>7, <3>2 DEF Address
        <4>3. Raw(c) = [bytes |-> [file |-> x.file, v |-> x.v], b64 |-> FALSE]
          BY <2>7, <3>2, <4>1, <4>2 DEF Raw
        <4>4. Raw(c).bytes = x /\ Raw(c).b64 = FALSE
          BY <2>8, <4>3
        <4>5. QED
          BY <3>1, <4>4
      <3>3. CASE enc = "base64"
        BY <2>5, <2>7, <2>8, <3>1, <3>3 DEF Raw
      <3>4. CASE enc = "text"
        <4>1. s.ct.comp = NoExt
          <5>1. PICK r \in Requests : enc = GetContentType(r.file).enc /\ s.ct.comp = r.file.ext
            BY <2>2, <2>6 DEF GoodRev
          <5>2. r.file.text /\ r.file.src # "url"
            BY <3>4, <5>1 DEF GetContentType
          <5>3. QED
            BY <5>1, <5>2 DEF ArchivesAreBinary
        <4>2. PlainText(s.ct)
          BY <2>6, <3>1, <3>4, <4>1 DEF PlainText
        <4>3. Raw(c) = s.body
          BY <2>5, <2>7, <3>4 DEF Raw
        <4>4. ~t /\ Raw(c).bytes = x /\ Raw(c).b64 = t
          BY <2>8, <4>2, <4>3
        <4>5. QED
          BY <3>1, <4>4
      <3>5. QED
        <4>1. enc \in {"url", "text", "base64"}
          BY <2>2, <2>6 DEF GoodRev, GetContentType
        <4>2. QED
          BY <3>2, <3>3, <3>4, <4>1
    <2>11. QED
      BY <2>1, <2>4, <2>5, <2>9, <2>10 DEF PrepareOk
  <1>2. QED
    BY <1>1, PodInvariant, PTL

\* If users and operators declare each volume once, so does every deployment
\* that is sent, however often it was merged and whatever secrets the init
\* containers share; and they mount their secrets from volumes of those secrets
\* (kubelessutil.go:445-480).
THEOREM InitMountsSoundTheorem == VolumesDeclaredOnce => (Spec => []InitMountsSound)
  <1> SUFFICES ASSUME VolumesDeclaredOnce
               PROVE  Spec => []InitMountsSound
    OBVIOUS
  <1>1. PodInv => InitMountsSound
    <2> SUFFICES ASSUME PodInv, sent # <<>>
                 PROVE  InitMountsSound
      BY DEF InitMountsSound
    <2>1. MountsSound(Head(sent), VersionOf(subs[Head(sent).rev]))
      BY DEF PodInv, SentInv
    <2>2. QED
      BY <2>1 DEF MountsSound, VersionOf, InitMountsSound
  <1>2. QED
    BY <1>1, PodInvariant, PTL

=============================================================================
