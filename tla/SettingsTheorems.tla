-------------------------- MODULE SettingsTheorems --------------------------
(***************************************************************************)
(* Facts about loading settings, for every environment and config file.    *)
(***************************************************************************)
EXTENDS Settings, TLAPS

\* Of two last elements of a set of numbers, each is the other.
LEMMA LastIsUnique ==
    ASSUME NEW S \in SUBSET Nat, NEW i, NEW j, IsLast(i, S), IsLast(j, S)
    PROVE  i = j
  BY DEF IsLast

LEMMA SettersAreLines ==
    ASSUME NEW f \in ConfigFile, NEW n \in 0 .. Len(f), NEW k
    PROVE  /\ Setters(f, n, k) \in SUBSET Nat
           /\ \A i \in Setters(f, n, k) : i \in 1 .. Len(f) /\ f[i] \in Line
<1>1. Len(f) \in Nat /\ \A i \in 1 .. Len(f) : f[i] \in Line
  BY DEF ConfigFile
<1>2. \A i \in Setters(f, n, k) : i \in 1 .. n
  BY DEF Setters
<1>3. \A i \in 1 .. n : i \in Nat /\ i \in 1 .. Len(f)
  BY <1>1
<1>. QED
  BY <1>1, <1>2, <1>3

\* What the lines of a file leave is a value for every variable.
LEMMA LoadedVarsType ==
    ASSUME NEW var \in [Key -> Text], NEW f \in ConfigFile, NEW n \in 0 .. Len(f)
    PROVE  LoadedVars(var, f, n) \in [Key -> Text]
<1> SUFFICES ASSUME NEW k \in Key
             PROVE  LoadedVars(var, f, n)[k] \in Text
  BY DEF LoadedVars
<1> DEFINE S == Setters(f, n, k)
           i == CHOOSE x \in S : IsLast(x, S)
<1>1. LoadedVars(var, f, n)[k] =
        IF \E x \in S : IsLast(x, S) THEN f[i].val.text ELSE var[k]
  BY DEF LoadedVars
<1>2. CASE \E x \in S : IsLast(x, S)
  <2>1. i \in S
    BY <1>2
  <2>2. f[i] \in Line
    BY <2>1, SettersAreLines
  <2>. QED
    BY <1>1, <1>2, <2>2 DEF Line, Token
<1>3. CASE ~ \E x \in S : IsLast(x, S)
  BY <1>1, <1>3
<1>. QED
  BY <1>2, <1>3

LEMMA FinishType ==
    ASSUME NEW var \in [Key -> Text], NEW arg \in Text
    PROVE  Finish(var, arg) \in Env
<1>1. ResolvePlatform(var) \in [Key -> Text]
  BY TextAssumption DEF ResolvePlatform, AndroidOnLinux
<1>2. \A v \in [Key -> Text] : GenericFlags(v) \in SUBSET Flag
  BY DEF GenericFlags, Flag
<1>3. \A v \in [Key -> Text] : OutFolder(v, arg) \in OutName
  BY DEF OutFolder, OutName, Key
<1>. QED
  BY <1>1, <1>2, <1>3 DEF Finish, Env

\* Whatever a script inherits, the loader hands it an environment.
THEOREM LoadSettingsType ==
    ASSUME NEW e \in Env, NEW f \in ConfigFile, NEW arg \in Text
    PROVE  LoadSettings(e, f, arg) \in Env
<1> DEFINE v == LoadedVars(e.var, f, Len(f))
<1>1. v \in [Key -> Text]
  <2>1. Len(f) \in 0 .. Len(f)
    BY DEF ConfigFile
  <2>. QED
    BY <2>1, LoadedVarsType DEF Env
<1>2. CASE MustHave(v)
  BY <1>1, <1>2, FinishType DEF LoadSettings
<1>3. CASE ~MustHave(v)
  BY <1>1, <1>3 DEF LoadSettings, Env, Flag
<1>. QED
  BY <1>2, <1>3
-----------------------------------------------------------------------------
\* A file that sets no variable by itself that the loader derives.
LeavesDerived(f) == Setters(f, Len(f), "LIBAROMA_PLATFORM_ANDROID") = {}

\* A variable that a file sets is the same whatever it was before, and one that
\* it does not set keeps its value.
LEMMA LoadedVarIs ==
    ASSUME NEW var, NEW f, NEW n, NEW k \in Key
    PROVE  LET S == Setters(f, n, k)
           IN  /\ (\E i \in S : IsLast(i, S))
                  => \A w : LoadedVars(w, f, n)[k] = LoadedVars(var, f, n)[k]
               /\ ~(\E i \in S : IsLast(i, S)) => LoadedVars(var, f, n)[k] = var[k]
  BY DEF LoadedVars

\* Loading a file again does not change the variables, ...
LEMMA LoadedVarsTwice ==
    ASSUME NEW var, NEW f, NEW n
    PROVE  LoadedVars(LoadedVars(var, f, n), f, n) = LoadedVars(var, f, n)
<1>1. \A k \in Key :
        LoadedVars(LoadedVars(var, f, n), f, n)[k] = LoadedVars(var, f, n)[k]
  BY LoadedVarIs
<1>. QED
  BY <1>1 DEF LoadedVars

\* ... not even when the platform has been resolved in between.
LEMMA ResolvedTwice ==
    ASSUME NEW var \in [Key -> Text], NEW f \in ConfigFile, LeavesDerived(f)
    PROVE  LET v == LoadedVars(var, f, Len(f))
               w == LoadedVars(ResolvePlatform(v), f, Len(f))
           IN  ResolvePlatform(w) = ResolvePlatform(v)
<1> DEFINE n == Len(f)
           v == LoadedVars(var, f, n)
           r == ResolvePlatform(v)
           w == LoadedVars(r, f, n)
           P == "LIBAROMA_PLATFORM"
           A == "LIBAROMA_PLATFORM_ANDROID"
<1>1. P \in Key /\ A \in Key /\ P # A
  BY DEF Key
<1>2. CASE v[P] # "android"
  <2>1. r = v
    BY <1>2 DEF ResolvePlatform
  <2>. QED
    BY <2>1, LoadedVarsTwice
<1>3. CASE v[P] = "android"
  <2>1. /\ r = AndroidOnLinux(v)
        /\ r[P] = "linux" /\ r[A] = "yes"
        /\ \A k \in Key \ {P, A} : r[k] = v[k]
    BY <1>1, <1>3 DEF ResolvePlatform, AndroidOnLinux
  <2>2. w[A] = "yes"
    BY <1>1, <2>1, LoadedVarIs DEF LeavesDerived
  <2>3. \A k \in Key \ {P, A} : w[k] = v[k]
    BY <2>1, LoadedVarIs
  <2>4. w[P] = v[P] \/ w[P] = "linux"
    BY <1>1, <2>1, LoadedVarIs
  <2>5. CASE w[P] = v[P]
    <3>1. ResolvePlatform(w) = AndroidOnLinux(w)
      BY <1>3, <2>5 DEF ResolvePlatform
    <3>2. \A k \in Key : AndroidOnLinux(w)[k] = AndroidOnLinux(v)[k]
      BY <2>3 DEF AndroidOnLinux
    <3>3. AndroidOnLinux(w) = AndroidOnLinux(v)
      BY <3>2 DEF AndroidOnLinux
    <3>. QED
      BY <2>1, <3>1, <3>3
  <2>6. CASE w[P] = "linux"
    <3>1. ResolvePlatform(w) = w
      BY <2>6 DEF ResolvePlatform
    <3>2. \A k \in Key : w[k] = AndroidOnLinux(v)[k]
      BY <1>1, <2>1, <2>2, <2>3, <2>6
    <3>3. w = AndroidOnLinux(v)
      BY <3>2 DEF AndroidOnLinux, LoadedVars
    <3>. QED
      BY <2>1, <3>1, <3>3
  <2>. QED
    BY <2>4, <2>5, <2>6
<1>. QED
  BY <1>2, <1>3

LEMMA ResolvedMustHave ==
    ASSUME NEW var
    PROVE  MustHave(ResolvePlatform(var)) <=> MustHave(var)
  BY DEF MustHave, ResolvePlatform, AndroidOnLinux, Key

\* A nested script that loads the same config in its caller's environment gets
\* its caller's settings: the same variables, flags and out folder.
THEOREM ReloadStable ==
    ASSUME NEW e \in Env, NEW f \in ConfigFile, NEW arg, LeavesDerived(f)
    PROVE  LoadSettings(LoadSettings(e, f, arg), f, arg) = LoadSettings(e, f, arg)
<1> DEFINE v == LoadedVars(e.var, f, Len(f))
           L == LoadSettings(e, f, arg)
           w == LoadedVars(L.var, f, Len(f))
<1>1. CASE MustHave(v)
  <2>1. L = Finish(v, arg) /\ L.var = ResolvePlatform(v)
    BY <1>1 DEF LoadSettings, Finish
  <2>2. ResolvePlatform(w) = ResolvePlatform(v)
    BY <2>1, ResolvedTwice DEF Env
  <2>3. MustHave(w)
    BY <1>1, <2>2, ResolvedMustHave
  <2>4. LoadSettings(L, f, arg) = Finish(w, arg)
    BY <2>3 DEF LoadSettings
  <2>. QED
    BY <2>1, <2>2, <2>4 DEF Finish
<1>2. CASE ~MustHave(v)
  <2>1. L = [var |-> v, flags |-> {"base"}, out |-> e.out]
    BY <1>2 DEF LoadSettings
  <2>2. w = v
    BY <2>1, LoadedVarsTwice
  <2>. QED
    BY <1>2, <2>1, <2>2 DEF LoadSettings
<1>. QED
  BY <1>1, <1>2
-----------------------------------------------------------------------------
\* Reading the lines one by one.
LEMMA NoLine ==
    ASSUME NEW var \in [Key -> Text], NEW f
    PROVE  LoadedVars(var, f, 0) = var
<1>1. \A k : Setters(f, 0, k) = {}
  BY DEF Setters
<1>. QED
  BY <1>1 DEF LoadedVars

\* A line that sets a variable decides it; the others stay.
LEMMA NextLine ==
    ASSUME NEW var \in [Key -> Text], NEW f \in ConfigFile, NEW n \in 1 .. Len(f),
           NEW k \in Key
    PROVE  LoadedVars(var, f, n)[k] =
             IF ~f[n].comment /\ f[n].key.text = k /\ f[n].val.text # ""
             THEN f[n].val.text
             ELSE LoadedVars(var, f, n - 1)[k]
<1> DEFINE S == Setters(f, n, k)
           T == Setters(f, n - 1, k)
           Sets == ~f[n].comment /\ f[n].key.text = k /\ f[n].val.text # ""
<1>1. n \in Nat /\ Len(f) \in Nat /\ n \in 1 .. n
  BY DEF ConfigFile
<1>2. 1 .. n = (1 .. n - 1) \union {n}
  BY <1>1
<1>3. CASE ~Sets
  <2>1. S = T
    BY <1>1, <1>2, <1>3 DEF Setters
  <2>. QED
    BY <1>3, <2>1 DEF LoadedVars
<1>4. CASE Sets
  <2>1. n \in S /\ S \in SUBSET Nat /\ \A i \in S : i <= n
    <3>1. n \in S
      BY <1>1, <1>4 DEF Setters
    <3>2. \A i \in S : i \in 1 .. n
      BY DEF Setters
    <3>. QED
      BY <1>1, <3>1, <3>2
  <2>2. IsLast(n, S)
    BY <2>1 DEF IsLast
  <2>3. \A i \in S : IsLast(i, S) => i = n
    BY <2>1, <2>2, LastIsUnique
  <2>4. (CHOOSE i \in S : IsLast(i, S)) = n
    BY <2>1, <2>2, <2>3
  <2>5. LoadedVars(var, f, n)[k] = f[n].val.text
    BY <2>1, <2>2, <2>4 DEF LoadedVars
  <2>. QED
    BY <1>4, <2>5
<1>. QED
  BY <1>3, <1>4
=============================================================================
