----------------------- MODULE RegisterDevices_proofs -----------------------
(***************************************************************************)
(* Proofs about RegisterDevices for any file, any names, types and disks:  *)
(* a scan adds no device that a line names and none that is monitored      *)
(* under another name; every entry has the settings that its line asks     *)
(* for; and no entry is lost on the way to the main loop.                  *)
(***************************************************************************)
EXTENDS RegisterDevices, SequenceTheorems, WellFoundedInduction, TLAPS

\* The entries are a sequence, and so are the registered devices.
IsSequence(s) == Len(s) \in Nat /\ s = [i \in 1 .. Len(s) |-> s[i]]

\* Nothing is scanned or registered before the file has been read; the entries of
\* the scan follow those of the file; the names of the latter are collected.
Sequences_Inv == IsSequence(conf_entries) /\ IsSequence(configs) /\ entry \in Nat \ {0}
Phases == /\ pc = "parse" => scanned = << >>
          /\ pc \in {"parse", "empty", "error"} => configs = << >> /\ entry = 1
          /\ entry = 1 => configs = << >>
ScannedLast ==
    \A i \in DOMAIN scanned : \A k \in DOMAIN conf_entries :
        IsScanned(i) /\ ~IsScanned(k) => k < i
NamesCollected ==
    \A k \in DOMAIN conf_entries :
        k < entry /\ ~IsScanned(k) => Unique(conf_entries[k]) \in prev_unique_names
\* No entry of the scan that is registered has the unique name of a line.
NamesApart ==
    \A i \in DOMAIN configs : configs[i].scanned =>
        \A k \in DOMAIN conf_entries :
            ~IsScanned(k) => Unique(conf_entries[k]) # Unique(configs[i].cfg)

Inv == Sequences_Inv /\ Phases /\ ScannedLast /\ NamesCollected /\ NamesApart
       /\ NoneTwice

-----------------------------------------------------------------------------
(***************************************************************************)
(* Sequences of any elements.                                              *)
(***************************************************************************)
\* A function on 1 .. n is a sequence of its values.
LEMMA IsSequenceIsSeq ==
    ASSUME NEW s, IsSequence(s)
    PROVE  \E S : s \in Seq(S)
<1> DEFINE S == {s[i] : i \in 1 .. Len(s)}
<1>1. s \in [1 .. Len(s) -> S]
  BY DEF IsSequence
<1>2. s \in Seq(S)
  BY <1>1, SeqDef DEF IsSequence
<1> HIDE DEF S
<1> QED
  BY <1>2

LEMMA SeqIsSequence ==
    ASSUME NEW S, NEW s \in Seq(S)
    PROVE  IsSequence(s) /\ DOMAIN s = 1 .. Len(s)
BY DEF IsSequence

LEMMA EmptyIsSequence == IsSequence(<< >>)
BY DEF IsSequence

LEMMA AppendSequence ==
    ASSUME NEW s, IsSequence(s), NEW x
    PROVE  /\ IsSequence(Append(s, x)) /\ DOMAIN Append(s, x) = 1 .. Len(s) + 1
           /\ \A i \in 1 .. Len(s) : Append(s, x)[i] = s[i]
           /\ Append(s, x)[Len(s) + 1] = x
<1>1. PICK S : s \in Seq(S)
  BY IsSequenceIsSeq
<1> DEFINE T == S \cup {x}
<1>2. s \in Seq(T) /\ x \in T
  BY <1>1, SeqMonotonic
<1> HIDE DEF T
<1>3. DOMAIN Append(s, x) = 1 .. Len(Append(s, x)) /\ IsSequence(Append(s, x))
  BY <1>2, AppendProperties, SeqIsSequence
<1> QED
  BY <1>2, <1>3, AppendProperties

LEMMA ConcatSequence ==
    ASSUME NEW s, IsSequence(s), NEW t, IsSequence(t)
    PROVE  /\ IsSequence(s \o t) /\ DOMAIN (s \o t) = 1 .. Len(s) + Len(t)
           /\ \A i \in 1 .. Len(s) : (s \o t)[i] = s[i]
           /\ \A i \in 1 .. Len(t) : (s \o t)[Len(s) + i] = t[i]
<1>1. PICK S : s \in Seq(S)
  BY IsSequenceIsSeq
<1>2. PICK T : t \in Seq(T)
  BY IsSequenceIsSeq
<1> DEFINE U == S \cup T
<1>3. s \in Seq(U) /\ t \in Seq(U)
  BY <1>1, <1>2, SeqMonotonic
<1> HIDE DEF U
<1>4. IsSequence(s \o t) /\ DOMAIN (s \o t) = 1 .. Len(s \o t)
  BY <1>3, ConcatProperties, SeqIsSequence
<1>5. /\ Len(s) \in Nat /\ Len(t) \in Nat /\ Len(s \o t) = Len(s) + Len(t)
      /\ \A i \in 1 .. Len(s) + Len(t) :
             (s \o t)[i] = IF i <= Len(s) THEN s[i] ELSE t[i - Len(s)]
  BY <1>3, ConcatProperties DEF IsSequence
<1> HIDE DEF IsSequence
<1>6. \A i \in 1 .. Len(t) : (s \o t)[Len(s) + i] = t[i]
  BY <1>5
<1> QED
  BY <1>4, <1>5, <1>6

LEMMA FunctionIsSequence ==
    ASSUME NEW n \in Nat, NEW S, NEW f \in [1 .. n -> S]
    PROVE  IsSequence(f) /\ Len(f) = n
<1>1. f \in Seq(S)
  BY SeqDef
<1>2. DOMAIN f = 1 .. Len(f) /\ DOMAIN f = 1 .. n /\ Len(f) \in Nat
  BY <1>1
<1> QED
  BY <1>1, <1>2, SeqIsSequence

-----------------------------------------------------------------------------
(***************************************************************************)
(* Induction on natural numbers, without an operator as a parameter.       *)
(***************************************************************************)
LEMMA LeastFromRelation ==
    ASSUME NEW R, IsWellFoundedOn(R, Nat), \A x, y \in Nat : x < y => <<x, y>> \in R,
           NEW S, S \subseteq Nat, S # {}
    PROVE  \E x \in S : \A y \in S : x <= y
<1>1. PICK x \in S : \A y \in S : ~(<<y, x>> \in R)
  BY WFMin, ZenonT(120)
<1>2. ASSUME NEW y \in S PROVE x <= y
  <2>1. x \in Nat /\ y \in Nat
    OBVIOUS
  <2>2. ~(y < x)
    BY <1>1, <2>1, Zenon
  <2> QED
    BY <2>1, <2>2
<1> QED
  BY <1>2

\* Induction: a set that has 0 and, with each natural number, the next one has them all.
LEMMA Induction ==
    ASSUME NEW S, 0 \in S, \A n \in Nat : n \in S => n + 1 \in S
    PROVE  Nat \subseteq S
<1> SUFFICES ASSUME Nat \ S # {} PROVE FALSE
  OBVIOUS
<1>1. \A x, y \in Nat : x < y => <<x, y>> \in OpToRel(<, Nat)
  BY DEF OpToRel
<1>2. PICK n \in Nat \ S : \A m \in Nat \ S : n <= m
  BY <1>1, NatLessThanWellFounded, LeastFromRelation
<1>3. n # 0 /\ n - 1 \in Nat /\ n - 1 \in S
  BY <1>2
<1> QED
  BY <1>2, <1>3

-----------------------------------------------------------------------------
(***************************************************************************)
(* The fold of ParseConfigLine() over the directives: one after the other. *)
(***************************************************************************)
\* The recursive function on sets of indices by which FoldLeft is defined.
Iterates(h, base, dirs, n) ==
    h = [s \in SUBSET (1 .. n) |->
            IF s = {} THEN base ELSE ParseToken(h[s \ {Max(s)}], dirs[Max(s)])]

LEMMA MaxIsLast ==
    ASSUME NEW n \in Nat, NEW s \in SUBSET (1 .. n), n \in s
    PROVE  Max(s) = n
<1>1. \A y \in s : n >= y
  OBVIOUS
<1>2. Max(s) \in s /\ Max(s) >= n
  BY <1>1 DEF Max
<1>3. Max(s) \in 1 .. n
  BY <1>2
<1> QED
  BY <1>2, <1>3

LEMMA IterationGoesOn ==
    ASSUME NEW n \in Nat, NEW h, NEW base, NEW dirs, Iterates(h, base, dirs, n)
    PROVE  \E g : Iterates(g, base, dirs, n + 1)
<1> DEFINE g == [s \in SUBSET (1 .. n + 1) |->
                    IF n + 1 \in s THEN ParseToken(h[s \ {n + 1}], dirs[n + 1]) ELSE h[s]]
<1>1. ASSUME NEW s \in SUBSET (1 .. n + 1), n + 1 \in s
      PROVE  g[s] = ParseToken(g[s \ {Max(s)}], dirs[Max(s)])
  <2>1. Max(s) = n + 1 /\ s \ {n + 1} \in SUBSET (1 .. n + 1)
    BY <1>1, MaxIsLast
  <2>2. g[s \ {n + 1}] = h[s \ {n + 1}]
    BY <2>1
  <2> QED
    BY <1>1, <2>1, <2>2, Zenon
<1>2. ASSUME NEW s \in SUBSET (1 .. n + 1), n + 1 \notin s
      PROVE  g[s] = IF s = {} THEN base ELSE ParseToken(g[s \ {Max(s)}], dirs[Max(s)])
  <2>1. s \in SUBSET (1 .. n)
    BY <1>2
  <2>2. h[s] = IF s = {} THEN base ELSE ParseToken(h[s \ {Max(s)}], dirs[Max(s)])
    BY <2>1, Zenon DEF Iterates
  <2>3. g[s] = h[s] /\ g[s \ {Max(s)}] = h[s \ {Max(s)}]
    BY <1>2
  <2> QED
    BY <2>2, <2>3, Zenon
<1>3. ASSUME NEW s \in SUBSET (1 .. n + 1)
      PROVE  g[s] = IF s = {} THEN base ELSE ParseToken(g[s \ {Max(s)}], dirs[Max(s)])
  BY <1>1, <1>2, Zenon
<1>4. g = [s \in SUBSET (1 .. n + 1) |-> g[s]]
  OBVIOUS
<1> HIDE DEF g
<1>5. Iterates(g, base, dirs, n + 1)
  BY <1>3, <1>4, Zenon DEF Iterates
<1> QED
  BY <1>5

LEMMA IterationExists ==
    ASSUME NEW base, NEW dirs, NEW n \in Nat
    PROVE  \E h : Iterates(h, base, dirs, n)
<1> DEFINE S == {k \in Nat : \E h : Iterates(h, base, dirs, k)}
<1>1. 0 \in S
  <2> DEFINE h == [s \in SUBSET (1 .. 0) |-> base]
  <2>1. \A s \in SUBSET (1 .. 0) : s = {}
    OBVIOUS
  <2>2. Iterates(h, base, dirs, 0)
    BY <2>1, Zenon DEF Iterates
  <2> QED
    BY <2>2
<1>2. ASSUME NEW k \in Nat, k \in S PROVE k + 1 \in S
  BY <1>2, IterationGoesOn
<1> HIDE DEF S
<1>3. Nat \subseteq S
  BY <1>1, <1>2, Induction
<1> QED
  BY <1>3 DEF S

\* The results after each directive.
Fold(base, dirs) == FoldLeft(ParseToken, base, dirs)

LEMMA FoldSteps ==
    ASSUME NEW base, NEW n \in Nat, NEW dirs, DOMAIN dirs = 1 .. n
    PROVE  \E r : /\ r[0] = base /\ r[n] = Fold(base, dirs)
                  /\ \A k \in 1 .. n : r[k] = ParseToken(r[k - 1], dirs[k])
<1> DEFINE it == CHOOSE h : h = [s \in SUBSET (1 .. n) |->
                     IF s = {} THEN base ELSE ParseToken(h[s \ {Max(s)}], dirs[Max(s)])]
           r == [k \in 0 .. n |-> it[1 .. k]]
<1>1. Fold(base, dirs) = it[1 .. n]
  BY Zenon DEF Fold, FoldLeft, MapThenFoldSet
<1>2. Iterates(it, base, dirs, n)
  <2>1. \E h : h = [s \in SUBSET (1 .. n) |->
            IF s = {} THEN base ELSE ParseToken(h[s \ {Max(s)}], dirs[Max(s)])]
    <3>1. PICK h : Iterates(h, base, dirs, n)
      BY IterationExists, Zenon
    <3> QED
      BY <3>1, Zenon DEF Iterates
  <2> QED
    BY <2>1, Zenon DEF Iterates
<1> HIDE DEF it
<1>3. ASSUME NEW s \in SUBSET (1 .. n)
      PROVE  it[s] = IF s = {} THEN base ELSE ParseToken(it[s \ {Max(s)}], dirs[Max(s)])
  BY <1>2, Zenon DEF Iterates
<1>4. it[1 .. 0] = base
  <2>1. 1 .. 0 = {}
    OBVIOUS
  <2> QED
    BY <1>3, <2>1
<1>5. ASSUME NEW k \in 1 .. n PROVE it[1 .. k] = ParseToken(it[1 .. (k - 1)], dirs[k])
  <2>1. /\ 1 .. k \in SUBSET (1 .. n) /\ 1 .. k # {} /\ k \in Nat
        /\ (1 .. k) \ {k} = 1 .. (k - 1) /\ k \in 1 .. k
    OBVIOUS
  <2>2. Max(1 .. k) = k
    BY <2>1, MaxIsLast
  <2> QED
    BY <1>3, <2>1, <2>2, Zenon
<1>6. /\ r[0] = it[1 .. 0] /\ r[n] = it[1 .. n]
      /\ \A k \in 1 .. n : r[k] = it[1 .. k] /\ r[k - 1] = it[1 .. (k - 1)]
  OBVIOUS
<1> HIDE DEF r
<1> QED
  BY <1>1, <1>4, <1>5, <1>6

-----------------------------------------------------------------------------
(***************************************************************************)
(* One directive.                                                          *)
(***************************************************************************)
\* (The provers do not know that the literals are members of STRING.)
Text == STRING \cup {"", "DEFAULT", "DEVICESCAN", "#"}
Config == [name: Text, lineno: Nat, dev_type: Types \cup {""}, ignore: BOOLEAN,
           removable: BOOLEAN, monitors: SUBSET Monitorings, settings: [Keys -> Text]]
Parse == [cfg: Config, types: Seq(Types), ok: BOOLEAN]

LEMMA DirectiveType ==
    ASSUME NEW t \in Directive
    PROVE  /\ t.dir \in Keys => t.arg \in Text
           /\ t.dir = "-d" => t.arg \in Types \cup {"ignore", "removable", "auto"}
           /\ t.dir = "-W" => t.arg \in {"0", "2,40,45"}
           /\ t.dir = "-l" => t.arg \in {"selftest", "error", "xerror", "offlinests", "selfteststs"}
           /\ t = [dir |-> t.dir, arg |-> t.arg]
BY DEF Directive, Keys, Text

LEMMA AddsLog ==
    ASSUME NEW t, t.dir = "-l"
    PROVE  Adds(t) = IF t.arg = "error" THEN {"errorlog"}
                     ELSE IF t.arg = "xerror" THEN {"xerrorlog"} ELSE {t.arg}
BY DEF Adds

\* Only -W switches the monitoring of the temperature on.
LEMMA AddsType ==
    ASSUME NEW t \in Directive
    PROVE  /\ Adds(t) \subseteq Monitorings
           /\ t.dir = "-W" => Adds(t) = IF t.arg = "0" THEN {} ELSE {"temperature"}
           /\ t.dir # "-W" => "temperature" \notin Adds(t)
<1>1. CASE t.dir = "-l"
  <2>1. t.arg \in {"selftest", "error", "xerror", "offlinests", "selfteststs"}
    BY <1>1, DirectiveType
  <2>2. Adds(t) \subseteq {"selftest", "errorlog", "xerrorlog", "offlinests", "selfteststs"}
    BY <1>1, <2>1, AddsLog
  <2> QED
    BY <1>1, <2>2 DEF Monitorings
<1>2. CASE t.dir = "-W"
  <2>1. Adds(t) = IF t.arg = "0" THEN {} ELSE {"temperature"}
    BY <1>2 DEF Adds
  <2> QED
    BY <1>2, <2>1 DEF Monitorings
<1>3. CASE t.dir \notin {"-l", "-W"}
  BY <1>3 DEF Adds, Monitorings, MonitorAll
<1> QED
  BY <1>1, <1>2, <1>3

LEMMA ConfigType ==
    ASSUME NEW c \in Config
    PROVE  /\ [c EXCEPT !.ignore = TRUE] \in Config
           /\ [c EXCEPT !.removable = TRUE] \in Config
           /\ \A type \in Types \cup {""} : [c EXCEPT !.dev_type = type] \in Config
           /\ \A s \in [Keys -> Text] : [c EXCEPT !.settings = s] \in Config
           /\ \A m \in SUBSET Monitorings : [c EXCEPT !.monitors = m] \in Config
BY DEF Config

\* What a step of the parser may change: the configuration and the list of types.
Takes(p, q, cfg, types) == q \in Parse /\ q.cfg = cfg /\ q.types = types /\ q.ok = p.ok

LEMMA ErrorTaken ==
    ASSUME NEW p \in Parse, NEW t, ~p.ok \/ t.dir = "bad"
    PROVE  ParseToken(p, t) \in Parse /\ ~ParseToken(p, t).ok
<1>1. ParseToken(p, t) = [p EXCEPT !.ok = FALSE]
  <2>1. CASE ~p.ok
    <3>1. ~(t.dir = "-d" /\ p.ok) /\ ~(t.dir \in Keys /\ p.ok)
      BY <2>1
    <3> QED
      BY <2>1, <3>1, Zenon DEF ParseToken
  <2>2. CASE p.ok /\ t.dir = "bad"
    BY <2>2 DEF ParseToken, Keys
  <2> QED
    BY <2>1, <2>2
<1> QED
  BY <1>1 DEF Parse

LEMMA DeviceTaken ==
    ASSUME NEW p \in Parse, p.ok, NEW t \in Directive, t.dir = "-d"
    PROVE  LET q == ParseToken(p, t)
           IN  CASE t.arg = "ignore" -> Takes(p, q, [p.cfg EXCEPT !.ignore = TRUE], p.types)
                 [] t.arg = "removable" ->
                        Takes(p, q, [p.cfg EXCEPT !.removable = TRUE], p.types)
                 [] t.arg = "auto" -> Takes(p, q, [p.cfg EXCEPT !.dev_type = ""], << >>)
                 [] OTHER -> Takes(p, q, [p.cfg EXCEPT !.dev_type = t.arg],
                                   Append(p.types, t.arg))
<1>1. ParseToken(p, t) = DeviceType(p, t.arg)
  BY DEF ParseToken, Keys
<1>2. p.cfg \in Config /\ p.types \in Seq(Types)
  BY DEF Parse
<1>3. CASE t.arg = "ignore"
  BY <1>1, <1>2, <1>3, ConfigType DEF DeviceType, Parse, Takes
<1>4. CASE t.arg = "removable"
  BY <1>1, <1>2, <1>4, ConfigType DEF DeviceType, Parse, Takes
<1>5. CASE t.arg = "auto"
  <2>1. ParseToken(p, t) = [p EXCEPT !.cfg.dev_type = "", !.types = << >>]
    BY <1>1, <1>5 DEF DeviceType
  <2>2. [p.cfg EXCEPT !.dev_type = ""] \in Config
    <3>1. "" \in Types \cup {""}
      OBVIOUS
    <3> QED
      BY <1>2, <3>1, ConfigType, Zenon
  <2>3. Takes(p, ParseToken(p, t), [p.cfg EXCEPT !.dev_type = ""], << >>)
    <3>1. << >> \in Seq(Types)
      OBVIOUS
    <3> QED
      BY <2>1, <2>2, <3>1 DEF Parse, Takes
  <2> QED
    BY <1>5, <2>3
<1>6. CASE t.arg \notin {"ignore", "removable", "auto"}
  <2>1. t.arg \in Types
    BY <1>6, DirectiveType
  <2>2. Append(p.types, t.arg) \in Seq(Types)
    BY <1>2, <2>1
  <2> QED
    <3>1. ParseToken(p, t) = [p EXCEPT !.cfg.dev_type = t.arg, !.types = Append(@, t.arg)]
      BY <1>1, <1>6 DEF DeviceType
    <3>2. [p.cfg EXCEPT !.dev_type = t.arg] \in Config
      BY <1>2, <2>1, ConfigType
    <3>3. Takes(p, ParseToken(p, t), [p.cfg EXCEPT !.dev_type = t.arg],
                Append(p.types, t.arg))
      BY <2>2, <3>1, <3>2 DEF Parse, Takes
    <3> QED
      BY <1>6, <3>3
<1> QED
  BY <1>3, <1>4, <1>5, <1>6

LEMMA SettingTaken ==
    ASSUME NEW p \in Parse, p.ok, NEW t \in Directive, t.dir \in Keys
    PROVE  Takes(p, ParseToken(p, t),
                 [p.cfg EXCEPT !.settings = [p.cfg.settings EXCEPT ![t.dir] = t.arg]], p.types)
<1> DEFINE m == [p.cfg.settings EXCEPT ![t.dir] = t.arg]
           c == [p.cfg EXCEPT !.settings = m]
<1>1. p.cfg \in Config /\ p.cfg.settings \in [Keys -> Text]
  BY DEF Parse, Config
<1>2. m \in [Keys -> Text]
  BY <1>1, DirectiveType
<1> HIDE DEF m
<1>3. c \in Config
  BY <1>1, <1>2, ConfigType
<1> HIDE DEF c
<1>4. ParseToken(p, t) = [p EXCEPT !.cfg = c]
  <2>1. ParseToken(p, t) = [p EXCEPT !.cfg.settings[t.dir] = t.arg]
    BY DEF ParseToken, Keys
  <2> QED
    BY <2>1 DEF Parse, c, m
<1>5. Takes(p, ParseToken(p, t), c, p.types)
  BY <1>3, <1>4 DEF Parse, Takes
<1> QED
  BY <1>5 DEF c, m

LEMMA MonitoringTaken ==
    ASSUME NEW p \in Parse, p.ok, NEW t \in Directive, t.dir \notin {"bad", "-d"} \cup Keys
    PROVE  Takes(p, ParseToken(p, t),
                 [p.cfg EXCEPT !.monitors = (p.cfg.monitors \cup Adds(t)) \ Removes(t)],
                 p.types)
<1> DEFINE m == (p.cfg.monitors \cup Adds(t)) \ Removes(t)
           c == [p.cfg EXCEPT !.monitors = m]
<1>1. p.cfg \in Config /\ p.cfg.monitors \in SUBSET Monitorings
  BY DEF Parse, Config
<1>2. m \in SUBSET Monitorings
  BY <1>1, AddsType
<1> HIDE DEF m
<1>3. c \in Config
  BY <1>1, <1>2, ConfigType
<1> HIDE DEF c
<1>4. ParseToken(p, t) = [p EXCEPT !.cfg = c]
  <2>1. ParseToken(p, t) = [p EXCEPT !.cfg.monitors = (@ \cup Adds(t)) \ Removes(t)]
    BY DEF ParseToken
  <2> QED
    BY <2>1 DEF Parse, c, m
<1>5. Takes(p, ParseToken(p, t), c, p.types)
  BY <1>3, <1>4 DEF Parse, Takes
<1> QED
  BY <1>5 DEF c, m

-----------------------------------------------------------------------------
(***************************************************************************)
(* What a sequence of directives asks for, with one more of them.          *)
(***************************************************************************)
\* The directives e are those of d and then t.
Extends(e, d, n, t) == /\ n \in Nat /\ DOMAIN d = 1 .. n /\ DOMAIN e = 1 .. (n + 1)
                       /\ (\A i \in 1 .. n : e[i] = d[i]) /\ e[n + 1] = t

LastOf(at, dirs) == IF at = {} THEN "" ELSE dirs[CHOOSE i \in at : \A j \in at : j <= i].arg
WithDir(dirs, dir) == {i \in DOMAIN dirs : dirs[i].dir = dir}
OfType(t) == t.dir = "-d" /\ t.arg \in Types \cup {"auto"}
WithType(dirs) == {i \in DOMAIN dirs : OfType(dirs[i])}

\* The monitoring without the default.
Monitored(dirs) ==
    (UNION {Adds(dirs[i]) : i \in DOMAIN dirs})
    \ (IF LastOf(WithDir(dirs, "-W"), dirs) = "0" THEN {"temperature"} ELSE {})

AsWritten(c, dirs) ==
    /\ c.monitors = Monitored(dirs)
    /\ c.ignore <=> Has(dirs, "ignore")
    /\ c.removable <=> Has(dirs, "removable")
    /\ \A key \in Keys : c.settings[key] = LastOf(WithDir(dirs, key), dirs)
    /\ c.dev_type = TypeOf(dirs)

LEMMA GreatestExists ==
    ASSUME NEW n \in Nat, NEW S \in SUBSET (1 .. n), S # {}
    PROVE  \E x \in S : \A y \in S : y <= x
<1> DEFINE G(T) == \E x \in T : \A y \in T : y <= x
           N == {k \in Nat : \A T \in SUBSET (1 .. k) : T = {} \/ G(T)}
<1>1. 0 \in N
  OBVIOUS
<1>2. ASSUME NEW k \in Nat, k \in N PROVE k + 1 \in N
  <2> SUFFICES ASSUME NEW T \in SUBSET (1 .. (k + 1)), T # {} PROVE G(T)
    OBVIOUS
  <2>1. CASE k + 1 \in T
    <3>1. \A y \in T : y <= k + 1
      OBVIOUS
    <3> QED
      BY <2>1, <3>1
  <2>2. CASE k + 1 \notin T
    <3>1. T \in SUBSET (1 .. k)
      BY <2>2
    <3> QED
      BY <1>2, <3>1
  <2> QED
    BY <2>1, <2>2
<1> HIDE DEF N
<1>3. Nat \subseteq N
  BY <1>1, <1>2, Induction
<1> QED
  BY <1>3 DEF N

LEMMA LastOfOld ==
    ASSUME NEW e, NEW d, NEW n, NEW t, Extends(e, d, n, t), NEW at \in SUBSET (1 .. n)
    PROVE  LastOf(at, e) = LastOf(at, d)
<1> DEFINE last == CHOOSE i \in at : \A j \in at : j <= i
<1>1. ASSUME at # {} PROVE last \in 1 .. n
  <2>1. \E i \in at : \A j \in at : j <= i
    BY <1>1, GreatestExists DEF Extends
  <2>2. last \in at
    BY <2>1, Zenon
  <2> HIDE DEF last
  <2> QED
    BY <2>2
<1>2. at # {} => e[last] = d[last]
  <2> HIDE DEF last
  <2> QED
    BY <1>1 DEF Extends
<1>3. /\ LastOf(at, e) = IF at = {} THEN "" ELSE e[last].arg
      /\ LastOf(at, d) = IF at = {} THEN "" ELSE d[last].arg
  BY Zenon DEF LastOf
<1> HIDE DEF last
<1>4. CASE at = {}
  BY <1>3, <1>4, Zenon
<1>5. CASE at # {}
  BY <1>2, <1>3, <1>5, Zenon
<1> QED
  BY <1>4, <1>5

LEMMA LastOfNew ==
    ASSUME NEW e, NEW d, NEW n, NEW t, Extends(e, d, n, t), NEW at \in SUBSET (1 .. n)
    PROVE  LastOf(at \cup {n + 1}, e) = t.arg
<1> DEFINE all == at \cup {n + 1}
           last == CHOOSE i \in all : \A j \in all : j <= i
<1>1. n + 1 \in all /\ \A j \in all : j <= n + 1 /\ j \in 1 .. (n + 1)
  BY DEF Extends
<1>2. last \in all /\ \A j \in all : j <= last
  BY <1>1, Zenon
<1>3. LastOf(all, e) = e[last].arg
  BY <1>1, Zenon DEF LastOf
<1> HIDE DEF all, last
<1>4. last = n + 1
  BY <1>1, <1>2 DEF Extends
<1> QED
  BY <1>3, <1>4 DEF all, Extends

LEMMA LastWithDir ==
    ASSUME NEW e, NEW d, NEW n, NEW t, Extends(e, d, n, t), NEW dir
    PROVE  LastOf(WithDir(e, dir), e) = IF t.dir = dir THEN t.arg
                                        ELSE LastOf(WithDir(d, dir), d)
<1>1. WithDir(e, dir) = IF t.dir = dir THEN WithDir(d, dir) \cup {n + 1} ELSE WithDir(d, dir)
  BY DEF Extends, WithDir
<1>2. WithDir(d, dir) \in SUBSET (1 .. n)
  BY DEF Extends, WithDir
<1> QED
  BY <1>1, <1>2, LastOfOld, LastOfNew

LEMMA LastWithType ==
    ASSUME NEW e, NEW d, NEW n, NEW t, Extends(e, d, n, t)
    PROVE  LastOf(WithType(e), e) = IF OfType(t) THEN t.arg ELSE LastOf(WithType(d), d)
<1>1. WithType(e) = IF OfType(t) THEN WithType(d) \cup {n + 1} ELSE WithType(d)
  BY DEF Extends, WithType
<1>2. WithType(d) \in SUBSET (1 .. n)
  BY DEF Extends, WithType
<1> QED
  BY <1>1, <1>2, LastOfOld, LastOfNew

LEMMA TypeOfIsLast ==
    ASSUME NEW dirs
    PROVE  TypeOf(dirs) = IF LastOf(WithType(dirs), dirs) = "auto" THEN ""
                          ELSE LastOf(WithType(dirs), dirs)
BY Zenon DEF TypeOf, LastArg, LastOf, WithType, OfType

LEMMA HasMore ==
    ASSUME NEW e, NEW d, NEW n, NEW t, Extends(e, d, n, t), NEW arg
    PROVE  Has(e, arg) <=> Has(d, arg) \/ t = [dir |-> "-d", arg |-> arg]
BY DEF Has, Extends

LEMMA MonitoredMore ==
    ASSUME NEW e, NEW d, NEW n, NEW t \in Directive, Extends(e, d, n, t)
    PROVE  Monitored(e) = (Monitored(d) \cup Adds(t)) \ Removes(t)
<1> DEFINE on(s) == UNION {Adds(s[i]) : i \in DOMAIN s}
           last(s) == LastOf(WithDir(s, "-W"), s)
<1>1. on(e) = on(d) \cup Adds(t)
  BY DEF Extends
<1>2. last(e) = IF t.dir = "-W" THEN t.arg ELSE last(d)
  BY LastWithDir
<1>3. ASSUME NEW s
      PROVE  Monitored(s) = on(s) \ (IF last(s) = "0" THEN {"temperature"} ELSE {})
  BY DEF Monitored
<1> HIDE DEF on, last
<1>4. CASE t.dir = "-W"
  BY <1>1, <1>2, <1>3, <1>4, AddsType DEF Removes
<1>5. CASE t.dir # "-W"
  BY <1>1, <1>2, <1>3, <1>5, AddsType DEF Removes
<1> QED
  BY <1>4, <1>5

LEMMA SettingsMore ==
    ASSUME NEW e, NEW d, NEW n, NEW t \in Directive, Extends(e, d, n, t),
           NEW p \in Parse, AsWritten(p.cfg, d), p.ok, t.dir # "bad"
    PROVE  AsWritten(ParseToken(p, t).cfg, e) /\ ParseToken(p, t).ok
<1> DEFINE c == p.cfg
           q == ParseToken(p, t)
<1>1. c \in Config /\ c.settings \in [Keys -> Text]
  BY DEF Parse, Config
<1>2. /\ c.monitors = Monitored(d) /\ c.dev_type = TypeOf(d)
      /\ c.ignore <=> Has(d, "ignore")
      /\ c.removable <=> Has(d, "removable")
      /\ \A key \in Keys : c.settings[key] = LastOf(WithDir(d, key), d)
  BY DEF AsWritten
<1>3. /\ Monitored(e) = (Monitored(d) \cup Adds(t)) \ Removes(t)
      /\ \A key : LastOf(WithDir(e, key), e) = IF t.dir = key THEN t.arg
                                              ELSE LastOf(WithDir(d, key), d)
      /\ \A arg : Has(e, arg) <=> Has(d, arg) \/ t = [dir |-> "-d", arg |-> arg]
  BY MonitoredMore, LastWithDir, HasMore
<1>4. TypeOf(e) = IF ~OfType(t) THEN TypeOf(d) ELSE IF t.arg = "auto" THEN "" ELSE t.arg
  <2>1. LastOf(WithType(e), e) = IF OfType(t) THEN t.arg ELSE LastOf(WithType(d), d)
    BY LastWithType
  <2>2. CASE OfType(t)
    BY <2>1, <2>2, TypeOfIsLast, Zenon
  <2>3. CASE ~OfType(t)
    BY <2>1, <2>3, TypeOfIsLast, Zenon
  <2> QED
    BY <2>2, <2>3
<1>5. t = [dir |-> t.dir, arg |-> t.arg]
  BY DirectiveType
<1> HIDE DEF c, q
<1>6. CASE t.dir = "-d"
  <2>1. Monitored(e) = Monitored(d)
    BY <1>3, <1>6 DEF Adds, Removes
  <2>2. \A key \in Keys : LastOf(WithDir(e, key), e) = LastOf(WithDir(d, key), d)
    BY <1>3, <1>6 DEF Keys
  <2>3. \A arg : Has(e, arg) <=> Has(d, arg) \/ t.arg = arg
    BY <1>3, <1>5, <1>6
  <2>4. CASE t.arg = "ignore"
    <3>1. q.cfg = [c EXCEPT !.ignore = TRUE] /\ q.ok = p.ok
      BY <1>6, <2>4, DeviceTaken DEF Takes, c, q
    <3>2. TypeOf(e) = TypeOf(d)
      BY <1>4, <2>4, NamesAssumption DEF OfType
    <3>3. /\ q.cfg.monitors = c.monitors /\ q.cfg.settings = c.settings
          /\ q.cfg.dev_type = c.dev_type /\ q.cfg.removable = c.removable
          /\ q.cfg.ignore
      BY <1>1, <3>1 DEF Config
    <3>4. Has(e, "ignore") /\ (Has(e, "removable") <=> Has(d, "removable"))
      BY <2>3, <2>4
    <3> QED
      BY <1>2, <2>1, <2>2, <3>1, <3>2, <3>3, <3>4, Zenon DEF AsWritten, c, q
  <2>5. CASE t.arg = "removable"
    <3>1. q.cfg = [c EXCEPT !.removable = TRUE] /\ q.ok = p.ok
      BY <1>6, <2>5, DeviceTaken DEF Takes, c, q
    <3>2. TypeOf(e) = TypeOf(d)
      BY <1>4, <2>5, NamesAssumption DEF OfType
    <3>3. /\ q.cfg.monitors = c.monitors /\ q.cfg.settings = c.settings
          /\ q.cfg.dev_type = c.dev_type /\ q.cfg.ignore = c.ignore
          /\ q.cfg.removable
      BY <1>1, <3>1 DEF Config
    <3>4. Has(e, "removable") /\ (Has(e, "ignore") <=> Has(d, "ignore"))
      BY <2>3, <2>5
    <3> QED
      BY <1>2, <2>1, <2>2, <3>1, <3>2, <3>3, <3>4, Zenon DEF AsWritten, c, q
  <2>6. CASE t.arg \notin {"ignore", "removable"}
    <3> DEFINE type == IF t.arg = "auto" THEN "" ELSE t.arg
    <3>1. q.cfg = [c EXCEPT !.dev_type = type] /\ q.ok = p.ok
      <4>1. CASE t.arg = "auto"
        BY <1>6, <4>1, DeviceTaken DEF Takes, c, q
      <4>2. CASE t.arg # "auto"
        BY <1>6, <2>6, <4>2, DeviceTaken DEF Takes, c, q
      <4> QED
        BY <4>1, <4>2
    <3>2. TypeOf(e) = type
      BY <1>4, <1>6, <2>6, DirectiveType DEF OfType
    <3> HIDE DEF type
    <3>3. /\ q.cfg.monitors = c.monitors /\ q.cfg.settings = c.settings
          /\ q.cfg.removable = c.removable /\ q.cfg.ignore = c.ignore
          /\ q.cfg.dev_type = type
      BY <1>1, <3>1 DEF Config
    <3>4. /\ Has(e, "ignore") <=> Has(d, "ignore")
          /\ Has(e, "removable") <=> Has(d, "removable")
      BY <2>3, <2>6
    <3> QED
      BY <1>2, <2>1, <2>2, <3>1, <3>2, <3>3, <3>4, Zenon DEF AsWritten, c, q
  <2> QED
    BY <2>4, <2>5, <2>6
<1>7. CASE t.dir # "-d"
  <2>1. TypeOf(e) = TypeOf(d)
    BY <1>4, <1>7 DEF OfType
  <2>2. \A arg : Has(e, arg) <=> Has(d, arg)
    BY <1>3, <1>5, <1>7
  <2>3. CASE t.dir \in Keys
    <3>1. q.cfg = [c EXCEPT !.settings = [c.settings EXCEPT ![t.dir] = t.arg]] /\ q.ok = p.ok
      BY <2>3, SettingTaken DEF Takes, c, q
    <3>2. /\ q.cfg.monitors = c.monitors /\ q.cfg.dev_type = c.dev_type
          /\ q.cfg.removable = c.removable /\ q.cfg.ignore = c.ignore
          /\ q.cfg.settings = [c.settings EXCEPT ![t.dir] = t.arg]
      BY <1>1, <3>1 DEF Config
    <3>3. Monitored(e) = Monitored(d)
      BY <1>3, <2>3 DEF Adds, Removes, Keys
    <3>4. \A key \in Keys : q.cfg.settings[key] = LastOf(WithDir(e, key), e)
      BY <1>1, <1>2, <1>3, <3>2
    <3> QED
      BY <1>2, <2>1, <2>2, <3>1, <3>2, <3>3, <3>4, Zenon DEF AsWritten, c, q
  <2>4. CASE t.dir \notin Keys
    <3>1. q.cfg = [c EXCEPT !.monitors = (c.monitors \cup Adds(t)) \ Removes(t)] /\ q.ok = p.ok
      BY <1>7, <2>4, MonitoringTaken DEF Takes, c, q
    <3>2. /\ q.cfg.settings = c.settings /\ q.cfg.dev_type = c.dev_type
          /\ q.cfg.removable = c.removable /\ q.cfg.ignore = c.ignore
          /\ q.cfg.monitors = (c.monitors \cup Adds(t)) \ Removes(t)
      BY <1>1, <3>1 DEF Config
    <3>3. \A key \in Keys : LastOf(WithDir(e, key), e) = LastOf(WithDir(d, key), d)
      BY <1>3, <2>4, Zenon
    <3> QED
      BY <1>2, <1>3, <2>1, <2>2, <3>1, <3>2, <3>3, Zenon DEF AsWritten, c, q
  <2> QED
    BY <2>3, <2>4
<1> QED
  BY <1>6, <1>7

-----------------------------------------------------------------------------
(***************************************************************************)
(* A whole line.                                                           *)
(***************************************************************************)
\* Neither name nor line number change, and types come from the directives.
LEMMA TokenKeeps ==
    ASSUME NEW p \in Parse, p.ok, NEW t \in Directive, t.dir # "bad"
    PROVE  LET q == ParseToken(p, t)
           IN  /\ q \in Parse /\ q.cfg.name = p.cfg.name /\ q.cfg.lineno = p.cfg.lineno
               /\ ToSet(q.types) \subseteq ToSet(p.types) \cup {t.arg}
<1> DEFINE q == ParseToken(p, t)
<1>1. p.cfg \in Config /\ p.types \in Seq(Types)
  BY DEF Parse
<1>2. ASSUME NEW c, NEW types, Takes(p, q, c, types), c.name = p.cfg.name,
             c.lineno = p.cfg.lineno, ToSet(types) \subseteq ToSet(p.types) \cup {t.arg}
      PROVE  /\ q \in Parse /\ q.cfg.name = p.cfg.name /\ q.cfg.lineno = p.cfg.lineno
             /\ ToSet(q.types) \subseteq ToSet(p.types) \cup {t.arg}
  BY <1>2 DEF Takes
<1> HIDE DEF q
<1>3. CASE t.dir = "-d"
  <2>1. CASE t.arg = "ignore"
    <3>1. Takes(p, q, [p.cfg EXCEPT !.ignore = TRUE], p.types)
      BY <1>3, <2>1, DeviceTaken DEF q
    <3>2. /\ [p.cfg EXCEPT !.ignore = TRUE].name = p.cfg.name
          /\ [p.cfg EXCEPT !.ignore = TRUE].lineno = p.cfg.lineno
      BY <1>1 DEF Config
    <3> QED
      BY <1>2, <3>1, <3>2 DEF q
  <2>2. CASE t.arg = "removable"
    <3>1. Takes(p, q, [p.cfg EXCEPT !.removable = TRUE], p.types)
      BY <1>3, <2>2, DeviceTaken DEF q
    <3>2. /\ [p.cfg EXCEPT !.removable = TRUE].name = p.cfg.name
          /\ [p.cfg EXCEPT !.removable = TRUE].lineno = p.cfg.lineno
      BY <1>1 DEF Config
    <3> QED
      BY <1>2, <3>1, <3>2 DEF q
  <2>3. CASE t.arg = "auto"
    <3>1. Takes(p, q, [p.cfg EXCEPT !.dev_type = ""], << >>)
      BY <1>3, <2>3, DeviceTaken DEF q
    <3>2. /\ [p.cfg EXCEPT !.dev_type = ""].name = p.cfg.name
          /\ [p.cfg EXCEPT !.dev_type = ""].lineno = p.cfg.lineno
      BY <1>1 DEF Config
    <3>3. ToSet(<< >>) = {}
      BY DEF ToSet
    <3> QED
      BY <1>2, <3>1, <3>2, <3>3 DEF q
  <2>4. CASE t.arg \notin {"ignore", "removable", "auto"}
    <3>1. Takes(p, q, [p.cfg EXCEPT !.dev_type = t.arg], Append(p.types, t.arg))
      BY <1>3, <2>4, DeviceTaken DEF q
    <3>2. /\ [p.cfg EXCEPT !.dev_type = t.arg].name = p.cfg.name
          /\ [p.cfg EXCEPT !.dev_type = t.arg].lineno = p.cfg.lineno
      BY <1>1 DEF Config
    <3>3. ToSet(Append(p.types, t.arg)) \subseteq ToSet(p.types) \cup {t.arg}
      BY <1>1 DEF ToSet
    <3> QED
      BY <1>2, <3>1, <3>2, <3>3 DEF q
  <2> QED
    BY <2>1, <2>2, <2>3, <2>4
<1>4. CASE t.dir \in Keys
  <2> DEFINE c == [p.cfg EXCEPT !.settings = [p.cfg.settings EXCEPT ![t.dir] = t.arg]]
  <2>1. Takes(p, q, c, p.types)
    BY <1>4, SettingTaken DEF q
  <2>2. c.name = p.cfg.name /\ c.lineno = p.cfg.lineno
    BY <1>1 DEF Config
  <2> QED
    BY <1>2, <2>1, <2>2 DEF q
<1>5. CASE t.dir \notin {"-d"} \cup Keys
  <2> DEFINE c == [p.cfg EXCEPT !.monitors = (p.cfg.monitors \cup Adds(t)) \ Removes(t)]
  <2>1. Takes(p, q, c, p.types)
    BY <1>5, MonitoringTaken DEF q
  <2>2. c.name = p.cfg.name /\ c.lineno = p.cfg.lineno
    BY <1>1 DEF Config
  <2> QED
    BY <1>2, <2>1, <2>2 DEF q
<1> QED
  BY <1>3, <1>4, <1>5 DEF q

\* The first k directives.
Upto(w, k) == [i \in 1 .. k |-> w[i]]

LEMMA UptoExtends ==
    ASSUME NEW w, NEW k \in Nat
    PROVE  Extends(Upto(w, k + 1), Upto(w, k), k, w[k + 1])
BY DEF Extends, Upto

LEMMA ConcatIsUpto ==
    ASSUME NEW d, IsSequence(d), NEW dirs, IsSequence(dirs)
    PROVE  /\ Upto(d \o dirs, Len(d)) = d
           /\ Upto(d \o dirs, Len(d) + Len(dirs)) = d \o dirs
           /\ \A k \in 1 .. Len(dirs) : (d \o dirs)[Len(d) + k] = dirs[k]
<1>1. /\ IsSequence(d \o dirs) /\ DOMAIN (d \o dirs) = 1 .. Len(d) + Len(dirs)
      /\ \A i \in 1 .. Len(d) : (d \o dirs)[i] = d[i]
      /\ \A k \in 1 .. Len(dirs) : (d \o dirs)[Len(d) + k] = dirs[k]
  BY ConcatSequence
<1> DEFINE w == d \o dirs
<1> HIDE DEF w
<1>2. Len(d) \in Nat /\ Len(dirs) \in Nat /\ d = [i \in 1 .. Len(d) |-> d[i]]
  BY DEF IsSequence
<1>3. w = [i \in 1 .. Len(w) |-> w[i]] /\ Len(w) \in Nat
  BY <1>1 DEF IsSequence, w
<1>4. DOMAIN w = 1 .. Len(d) + Len(dirs)
  BY <1>1 DEF w
<1>5. Upto(w, Len(d)) = d
  BY <1>1, <1>2 DEF Upto, w
<1>6. Upto(w, Len(d) + Len(dirs)) = w
  BY <1>3, <1>4 DEF Upto
<1> QED
  BY <1>1, <1>5, <1>6 DEF w

\* What holds after k directives of a line that begins with the settings `base'.
TakenSoFar(p, base, d, dirs, k) ==
    /\ p \in Parse
    /\ p.ok => /\ AsWritten(p.cfg, Upto(d \o dirs, Len(d) + k))
               /\ p.cfg.name = base.cfg.name /\ p.cfg.lineno = base.cfg.lineno
               /\ ToSet(p.types) \subseteq
                      ToSet(base.types) \cup {dirs[i].arg : i \in DOMAIN dirs}

LEMMA NextTaken ==
    ASSUME NEW base, NEW d, IsSequence(d), NEW dirs \in Seq(Directive), NEW p,
           NEW k \in Nat, k + 1 \in 1 .. Len(dirs), TakenSoFar(p, base, d, dirs, k)
    PROVE  TakenSoFar(ParseToken(p, dirs[k + 1]), base, d, dirs, k + 1)
<1> DEFINE t == dirs[k + 1]
           q == ParseToken(p, t)
           w == d \o dirs
           m == Len(d) + k
<1>1. t \in Directive /\ p \in Parse /\ k + 1 \in DOMAIN dirs
  BY DEF TakenSoFar
<1>2. CASE ~p.ok \/ t.dir = "bad"
  BY <1>1, <1>2, ErrorTaken DEF TakenSoFar
<1>3. CASE p.ok /\ t.dir # "bad"
  <2>1. /\ AsWritten(p.cfg, Upto(w, m)) /\ p.cfg.name = base.cfg.name
        /\ p.cfg.lineno = base.cfg.lineno
        /\ ToSet(p.types) \subseteq ToSet(base.types) \cup {dirs[i].arg : i \in DOMAIN dirs}
    BY <1>3 DEF TakenSoFar
  <2>2. m \in Nat /\ Len(d) + (k + 1) = m + 1 /\ w[m + 1] = t
    <3>1. IsSequence(dirs) /\ Len(d) \in Nat
      BY SeqIsSequence DEF IsSequence
    <3>2. (d \o dirs)[Len(d) + (k + 1)] = dirs[k + 1]
      BY <3>1, ConcatIsUpto
    <3> QED
      BY <3>1, <3>2
  <2> HIDE DEF t, q, w, m
  <2>3. Extends(Upto(w, m + 1), Upto(w, m), m, t)
    BY <2>2, UptoExtends
  <2>4. AsWritten(q.cfg, Upto(w, m + 1)) /\ q.ok
    BY <1>1, <1>3, <2>1, <2>3, SettingsMore DEF q
  <2>5. /\ q \in Parse /\ q.cfg.name = p.cfg.name /\ q.cfg.lineno = p.cfg.lineno
        /\ ToSet(q.types) \subseteq ToSet(p.types) \cup {t.arg}
    BY <1>1, <1>3, TokenKeeps DEF q
  <2>6. t.arg \in {dirs[i].arg : i \in DOMAIN dirs}
    BY <1>1 DEF t
  <2>7. ToSet(q.types) \subseteq ToSet(base.types) \cup {dirs[i].arg : i \in DOMAIN dirs}
    BY <2>1, <2>5, <2>6
  <2>8. TakenSoFar(q, base, d, dirs, k + 1)
    BY <2>1, <2>2, <2>4, <2>5, <2>7, Zenon DEF TakenSoFar, w
  <2> QED
    BY <2>8 DEF q, t
<1> QED
  BY <1>2, <1>3

\* The fold over the directives gives what they and those before them ask for.
LEMMA LineTaken ==
    ASSUME NEW base \in Parse, base.ok, NEW d, IsSequence(d), AsWritten(base.cfg, d),
           NEW dirs \in Seq(Directive)
    PROVE  TakenSoFar(Fold(base, dirs), base, d, dirs, Len(dirs))
<1> DEFINE n == Len(dirs)
<1>1. n \in Nat /\ DOMAIN dirs = 1 .. n /\ IsSequence(dirs)
  BY SeqIsSequence
<1>2. PICK r : /\ r[0] = base /\ r[n] = Fold(base, dirs)
               /\ \A k \in 1 .. n : r[k] = ParseToken(r[k - 1], dirs[k])
  BY <1>1, FoldSteps
<1> DEFINE N == {k \in Nat : k <= n => TakenSoFar(r[k], base, d, dirs, k)}
<1>3. 0 \in N
  <2>1. Len(d) + 0 = Len(d) /\ Upto(d \o dirs, Len(d)) = d
    BY <1>1, ConcatIsUpto DEF IsSequence
  <2>2. TakenSoFar(base, base, d, dirs, 0)
    BY <2>1 DEF TakenSoFar
  <2> QED
    BY <1>2, <2>2
<1>4. ASSUME NEW k \in Nat, k \in N PROVE k + 1 \in N
  <2> SUFFICES ASSUME k + 1 <= n PROVE TakenSoFar(r[k + 1], base, d, dirs, k + 1)
    OBVIOUS
  <2>1. k + 1 \in 1 .. n /\ k <= n
    BY <1>1
  <2>2. TakenSoFar(r[k], base, d, dirs, k)
    BY <1>4, <2>1
  <2>3. r[k + 1] = ParseToken(r[k], dirs[k + 1])
    <3>1. r[k + 1] = ParseToken(r[(k + 1) - 1], dirs[k + 1])
      BY <1>2, <2>1, Zenon
    <3>2. (k + 1) - 1 = k
      OBVIOUS
    <3> QED
      BY <3>1, <3>2, Zenon
  <2> QED
    BY <2>1, <2>2, <2>3, NextTaken
<1> HIDE DEF N
<1>5. n \in N
  BY <1>1, <1>3, <1>4, Induction
<1> QED
  BY <1>1, <1>2, <1>5 DEF N

-----------------------------------------------------------------------------
(***************************************************************************)
(* Reading the file.                                                       *)
(***************************************************************************)
LEMMA InitInv == Init => Inv
BY EmptyIsSequence
   DEF Init, Inv, Sequences_Inv, Phases, ScannedLast, NamesCollected, NamesApart,
       NoneTwice, IsScanned

\* While the file is read nothing is registered: only the entries matter.
LEMMA NothingRegistered ==
    ASSUME Inv, pc \in {"parse", "empty", "error"}, UNCHANGED regVars, IsSequence(conf_entries'),
           pc' = "parse" => scanned' = << >>, ScannedLast'
    PROVE  Inv'
<1>1. configs' = << >> /\ entry' = 1 /\ IsSequence(configs')
  BY EmptyIsSequence DEF Inv, Phases, regVars
<1>2. \A k \in DOMAIN conf_entries' : ~(k < entry')
  BY <1>1 DEF IsSequence
<1>3. Sequences_Inv' /\ Phases'
  BY <1>1 DEF Sequences_Inv, Phases
<1>4. NamesCollected' /\ NamesApart' /\ NoneTwice'
  BY <1>1, <1>2 DEF NamesCollected, NamesApart, NoneTwice
<1> QED
  BY <1>3, <1>4 DEF Inv

\* MakeConfigEntries() puts the devices of the scan behind the entries of the file.
LEMMA ScanAppends ==
    ASSUME Inv, NEW base_cfg, NEW types, MakeConfigEntries(base_cfg, types)
    PROVE  \E found \in Seq(Found) :
               LET n == Len(conf_entries)
                   m == Len(found)
               IN  /\ n \in Nat /\ m \in Nat
                   /\ IsSequence(conf_entries') /\ DOMAIN conf_entries' = 1 .. n + m
                   /\ \A i \in 1 .. n : conf_entries'[i] = conf_entries[i]
                   /\ \A i \in 1 .. m :
                          conf_entries'[n + i] = EntryOf(base_cfg, types, found[i])
                   /\ DOMAIN scanned' = 1 .. n + m
                   /\ \A i \in 1 .. m : scanned'[n + i] = found[i]
                   /\ \A i \in 1 .. n + m : IsScanned(i)' <=> n < i
<1>1. PICK found \in ScanResults(types) :
        /\ conf_entries' = conf_entries \o EntriesOf(base_cfg, types, found)
        /\ scanned' = NoDevices \o found
  BY DEF MakeConfigEntries
<1>2. found \in Seq(Found)
  BY DisksAssumption DEF ScanResults
<1>3. IsSequence(found) /\ DOMAIN found = 1 .. Len(found) /\ Len(found) \in Nat
  BY <1>2, SeqIsSequence DEF IsSequence
<1>4. \A i \in DOMAIN found : found[i] # NoDevice
  <2> SUFFICES ASSUME NEW i \in DOMAIN found
               PROVE  found[i].class # NoDevice.class
    OBVIOUS
  <2>1. found[i] \in Found
    BY <1>2
  <2>2. found[i].class \in Types
    BY <2>1 DEF Found
  <2> QED
    BY <2>2, NamesAssumption DEF NoDevice
<1>5. IsSequence(conf_entries) /\ DOMAIN conf_entries = 1 .. Len(conf_entries)
  BY DEF Inv, Sequences_Inv, IsSequence
<1> DEFINE e == EntriesOf(base_cfg, types, found)
           n == Len(conf_entries)
           S == {EntryOf(base_cfg, types, found[i]) : i \in DOMAIN found}
<1>6. e \in [1 .. Len(found) -> S] /\ n \in Nat
  BY <1>3, <1>5 DEF EntriesOf, IsSequence
<1>7. IsSequence(e) /\ Len(e) = Len(found)
  <2> HIDE DEF e, S
  <2> QED
    BY <1>3, <1>6, FunctionIsSequence
<1>8. NoDevices \in [1 .. n -> {NoDevice}]
  BY <1>5 DEF NoDevices
<1>9. IsSequence(NoDevices) /\ Len(NoDevices) = n
  BY <1>6, <1>8, FunctionIsSequence
<1>10. /\ IsSequence(conf_entries') /\ DOMAIN conf_entries' = 1 .. n + Len(found)
       /\ \A i \in 1 .. n : conf_entries'[i] = conf_entries[i]
       /\ \A i \in 1 .. Len(found) : conf_entries'[n + i] = e[i]
  <2>1. conf_entries' = conf_entries \o e
    BY <1>1
  <2> HIDE DEF e
  <2>2. /\ IsSequence(conf_entries \o e) /\ DOMAIN (conf_entries \o e) = 1 .. n + Len(e)
        /\ \A i \in 1 .. n : (conf_entries \o e)[i] = conf_entries[i]
        /\ \A i \in 1 .. Len(e) : (conf_entries \o e)[n + i] = e[i]
    <3>1. IsSequence(conf_entries) /\ IsSequence(e)
      BY <1>5, <1>7
    <3> HIDE DEF S
    <3> QED
      BY ONLY <3>1, ConcatSequence
  <2> QED
    BY <1>7, <2>1, <2>2
<1>11. /\ DOMAIN scanned' = 1 .. n + Len(found)
       /\ \A i \in 1 .. n : scanned'[i] = NoDevices[i]
       /\ \A i \in 1 .. Len(found) : scanned'[n + i] = found[i]
  <2>1. /\ DOMAIN (NoDevices \o found) = 1 .. Len(NoDevices) + Len(found)
        /\ \A i \in 1 .. Len(NoDevices) : (NoDevices \o found)[i] = NoDevices[i]
        /\ \A i \in 1 .. Len(found) : (NoDevices \o found)[Len(NoDevices) + i] = found[i]
    <3>1. IsSequence(NoDevices) /\ IsSequence(found)
      BY <1>3, <1>9
    <3> HIDE DEF e, n, S
    <3> QED
      BY ONLY <3>1, ConcatSequence
  <2> QED
    BY <1>1, <1>9, <2>1
<1>12. \A i \in 1 .. n + Len(found) : IsScanned(i)' <=> n < i
  <2> SUFFICES ASSUME NEW i \in 1 .. n + Len(found)
               PROVE  IsScanned(i)' <=> n < i
    OBVIOUS
  <2>1. CASE i \in 1 .. n
    <3>1. NoDevices[i] = NoDevice
      BY <1>8, <2>1
    <3> QED
      BY <1>6, <1>11, <2>1, <3>1 DEF IsScanned
  <2>2. CASE i \notin 1 .. n
    <3>1. PICK j \in 1 .. Len(found) : i = n + j
      <4>1. i - n \in 1 .. Len(found) /\ i = n + (i - n)
        BY <1>3, <1>6, <2>2
      <4> QED
        BY <4>1
    <3>2. scanned'[i] = found[j] /\ found[j] # NoDevice
      BY <1>3, <1>4, <1>11, <3>1
    <3> QED
      BY <1>6, <1>11, <2>2, <3>2 DEF IsScanned
  <2> QED
    BY <2>1, <2>2
<1>13. \A i \in 1 .. Len(found) : e[i] = EntryOf(base_cfg, types, found[i])
  BY <1>3 DEF EntriesOf
<1> HIDE DEF e, S
<1> QED
  BY <1>2, <1>3, <1>6, <1>10, <1>11, <1>12, <1>13

LEMMA ScanKeepsInv ==
    ASSUME Inv, pc = "parse", UNCHANGED regVars, pc' # "parse",
           NEW base_cfg, NEW types, MakeConfigEntries(base_cfg, types)
    PROVE  Inv'
<1> DEFINE n == Len(conf_entries)
<1>1. PICK m \in Nat :
        /\ n \in Nat /\ IsSequence(conf_entries') /\ DOMAIN conf_entries' = 1 .. n + m
        /\ DOMAIN scanned' = 1 .. n + m
        /\ \A i \in 1 .. n + m : IsScanned(i)' <=> n < i
  BY ScanAppends
<1>2. ScannedLast'
  BY <1>1 DEF ScannedLast
<1> QED
  BY <1>1, <1>2, NothingRegistered

\* All other steps of the parser leave scanned_devs empty.
LEMMA NoScanKeepsInv ==
    ASSUME Inv, pc = "parse", UNCHANGED regVars, UNCHANGED scanned, IsSequence(conf_entries')
    PROVE  Inv'
<1>1. scanned' = << >>
  BY DEF Inv, Phases
<1>2. ScannedLast'
  BY <1>1 DEF ScannedLast
<1> QED
  BY <1>1, <1>2, NothingRegistered

LEMMA TakeLineKeepsInv ==
    ASSUME Inv, pc = "parse", UNCHANGED regVars, NEW l, NEW p, TakeLine(l, p)
    PROVE  Inv'
<1>1. IsSequence(conf_entries)
  BY DEF Inv, Sequences_Inv
<1>2. CASE ~p.ok
  BY <1>2, EmptyIsSequence, NoScanKeepsInv DEF TakeLine
<1>3. CASE p.ok /\ IsDefault(l)
  BY <1>1, <1>3, NoScanKeepsInv DEF TakeLine, IsDefault, IsScan
<1>4. CASE p.ok /\ IsScan(l)
  <2>1. MakeConfigEntries(p.cfg, p.types) /\ Parsed
    BY <1>4 DEF TakeLine, IsDefault, IsScan
  <2>2. pc' # "parse"
    BY <2>1 DEF Parsed
  <2> QED
    BY <2>1, <2>2, ScanKeepsInv
<1>5. CASE p.ok /\ ~IsDefault(l) /\ ~IsScan(l)
  <2>1. conf_entries' = Append(conf_entries, p.cfg) /\ UNCHANGED scanned
    BY <1>5 DEF TakeLine
  <2>2. IsSequence(conf_entries')
    BY <1>1, <2>1, AppendSequence
  <2> QED
    BY <2>1, <2>2, NoScanKeepsInv
<1> QED
  BY <1>2, <1>3, <1>4, <1>5

LEMMA ParseKeepsInv ==
    ASSUME Inv, ReadBlankLine \/ ReadLine \/ ReadContinuedLine \/ EndOfFile \/ NoFile
    PROVE  Inv'
<1> USE DEF MayRead
<1>1. pc = "parse" /\ UNCHANGED regVars
  BY DEF ReadBlankLine, ReadLine, ReadContinuedLine, EndOfFile, NoFile
<1>2. IsSequence(conf_entries)
  BY DEF Inv, Sequences_Inv
<1>3. CASE ReadBlankLine
  BY <1>1, <1>2, <1>3, NoScanKeepsInv DEF ReadBlankLine
<1>4. CASE ReadLine
  BY <1>1, <1>4, TakeLineKeepsInv DEF ReadLine
<1>5. CASE ReadContinuedLine
  BY <1>1, <1>5, TakeLineKeepsInv DEF ReadContinuedLine
<1>6. CASE EndOfFile
  BY <1>1, <1>2, <1>6, NoScanKeepsInv DEF EndOfFile
<1>7. CASE NoFile
  <2>1. pc' # "parse"
    BY <1>7 DEF NoFile, Parsed
  <2> QED
    BY <1>1, <1>7, <2>1, ScanKeepsInv DEF NoFile
<1> QED
  BY <1>3, <1>4, <1>5, <1>6, <1>7

-----------------------------------------------------------------------------
(***************************************************************************)
(* Registering the entries.                                                *)
(***************************************************************************)
\* A step to the next entry that collects its name, if it is one of the file.
LEMMA NextEntryKeeps ==
    ASSUME Inv, AtEntry, NextEntry, prev_unique_names \subseteq prev_unique_names',
           ~IsScanned(entry) => Unique(conf_entries[entry]) \in prev_unique_names'
    PROVE  /\ UNCHANGED << conf_entries, scanned >>
           /\ entry' \in Nat \ {0} /\ Phases' /\ ScannedLast' /\ NamesCollected'
<1>1. UNCHANGED << conf_entries, scanned >> /\ pc' = "register"
  BY DEF AtEntry, NextEntry
<1>2. entry \in Nat \ {0} /\ entry' = entry + 1
  BY DEF Inv, Sequences_Inv, NextEntry
<1>3. entry' \in Nat \ {0} /\ entry' # 1
  BY <1>2
<1>4. ScannedLast' /\ Phases'
  BY <1>1, <1>3 DEF Inv, ScannedLast, Phases, IsScanned
<1>5. NamesCollected'
  <2> SUFFICES ASSUME NEW k \in DOMAIN conf_entries, k < entry', ~IsScanned(k)
               PROVE  Unique(conf_entries[k]) \in prev_unique_names'
    BY <1>1 DEF NamesCollected, IsScanned, Unique
  <2>1. k \in Nat
    BY DEF Inv, Sequences_Inv, IsSequence
  <2>2. k < entry \/ k = entry
    BY <1>2, <2>1
  <2> QED
    BY <2>2 DEF Inv, NamesCollected
<1> QED
  BY <1>1, <1>3, <1>4, <1>5

\* A step that registers nothing.
LEMMA SkipKeepsInv ==
    ASSUME Inv, Ignore \/ SkipNamed \/ RegisterFails
    PROVE  Inv'
<1>1. AtEntry /\ NextEntry /\ UNCHANGED configs
  BY DEF Ignore, SkipNamed, RegisterFails, ToRegister
<1>2. /\ prev_unique_names \subseteq prev_unique_names'
      /\ ~IsScanned(entry) => Unique(conf_entries[entry]) \in prev_unique_names'
  BY DEF Ignore, SkipNamed, RegisterFails, NamesAfterFailure
<1>3. /\ UNCHANGED << conf_entries, scanned >>
      /\ entry' \in Nat \ {0} /\ Phases' /\ ScannedLast' /\ NamesCollected'
  BY <1>1, <1>2, NextEntryKeeps
<1>4. Sequences_Inv' /\ NamesApart' /\ NoneTwice'
  BY <1>1, <1>3
     DEF Inv, Sequences_Inv, NamesApart, NoneTwice, IsScanned, Unique, IsSequence
<1> QED
  BY <1>3, <1>4 DEF Inv

\* is_duplicate_dev_idinfo() finds all that say they are the same device.
LEMMA SameDeviceIsFound ==
    ASSUME NEW d, NEW e, SameDevice(d, e)
    PROVE  SameIdentity(d, e)
BY DEF SameDevice, SameIdentity, Info, HasBc, InfoBc

LEMMA RegisterKeepsInv ==
    ASSUME Inv, RegisterDevice
    PROVE  Inv'
<1>1. AtEntry /\ NextEntry
  BY DEF RegisterDevice, ToRegister
<1>2. /\ prev_unique_names \subseteq prev_unique_names'
      /\ ~IsScanned(entry) => Unique(conf_entries[entry]) \in prev_unique_names'
  BY DEF RegisterDevice
<1>3. /\ UNCHANGED << conf_entries, scanned >>
      /\ entry' \in Nat \ {0} /\ Phases' /\ ScannedLast' /\ NamesCollected'
  BY <1>1, <1>2, NextEntryKeeps
<1>4. PICK c : /\ configs' = Append(configs, c)
               /\ c = [cfg |-> conf_entries[entry], disk |-> DiskOf(entry),
                       scanned |-> IsScanned(entry)]
  BY DEF RegisterDevice
<1>5. /\ IsSequence(configs) /\ IsSequence(conf_entries)
      /\ Len(configs) \in Nat /\ DOMAIN configs = 1 .. Len(configs)
      /\ entry \in DOMAIN conf_entries
  BY DEF Inv, Sequences_Inv, IsSequence, RegisterDevice, ToRegister, AtEntry
<1>6. /\ IsSequence(configs') /\ DOMAIN configs' = 1 .. Len(configs) + 1
      /\ \A i \in 1 .. Len(configs) : configs'[i] = configs[i]
      /\ configs'[Len(configs) + 1] = c
  BY <1>4, <1>5, AppendSequence
<1>7. Sequences_Inv'
  BY <1>3, <1>5, <1>6 DEF Sequences_Inv, IsSequence
<1>8. c.scanned => \A k \in DOMAIN conf_entries :
          ~IsScanned(k) => Unique(conf_entries[k]) # Unique(c.cfg)
  <2> SUFFICES ASSUME IsScanned(entry), NEW k \in DOMAIN conf_entries, ~IsScanned(k)
               PROVE  Unique(conf_entries[k]) # Unique(conf_entries[entry])
    BY <1>4
  <2>1. k < entry
    BY <1>5 DEF Inv, ScannedLast, IsScanned
  <2>2. Unique(conf_entries[k]) \in prev_unique_names
    BY <2>1 DEF Inv, NamesCollected
  <2> QED
    BY <2>2 DEF RegisterDevice, ToRegister
<1>9. NamesApart'
  <2> SUFFICES ASSUME NEW i \in DOMAIN configs', configs'[i].scanned,
                      NEW k \in DOMAIN conf_entries, ~IsScanned(k)
               PROVE  Unique(conf_entries[k]) # Unique(configs'[i].cfg)
    BY <1>3 DEF NamesApart, IsScanned, Unique
  <2>1. CASE i \in 1 .. Len(configs)
    BY <1>5, <1>6, <2>1 DEF Inv, NamesApart
  <2>2. CASE i = Len(configs) + 1
    BY <1>6, <1>8, <2>2
  <2> QED
    BY <1>5, <1>6, <2>1, <2>2
<1>10. c.scanned => \A j \in 1 .. Len(configs) : ~SameDevice(c.disk, configs[j].disk)
  <2> SUFFICES ASSUME IsScanned(entry), NEW j \in 1 .. Len(configs)
               PROVE  ~SameDevice(DiskOf(entry), configs[j].disk)
    BY <1>4
  <2>1. configs[j] \in ToSet(configs)
    BY <1>5 DEF ToSet
  <2> QED
    BY <2>1, SameDeviceIsFound DEF RegisterDevice, IsDuplicate
<1>11. NoneTwice'
  <2> SUFFICES ASSUME NEW i \in DOMAIN configs', configs'[i].scanned, NEW j \in 1 .. i - 1
               PROVE  ~SameDevice(configs'[i].disk, configs'[j].disk)
    BY DEF NoneTwice, SameDevice
  <2>1. CASE i \in 1 .. Len(configs)
    <3>1. j \in 1 .. Len(configs)
      BY <1>5, <2>1
    <3> QED
      BY <1>5, <1>6, <2>1, <3>1 DEF Inv, NoneTwice
  <2>2. CASE i = Len(configs) + 1
    <3>1. j \in 1 .. Len(configs)
      BY <1>5, <2>2
    <3> QED
      BY <1>6, <1>10, <2>2, <3>1
  <2> QED
    BY <1>5, <1>6, <2>1, <2>2
<1> QED
  BY <1>3, <1>7, <1>9, <1>11 DEF Inv

\* No entry, no name and no device changes.
LEMMA OtherKeepsInv ==
    ASSUME Inv, DiskChanges \/ RegisterMandatoryFails \/ Registered \/ UNCHANGED vars
    PROVE  Inv'
<1>1. UNCHANGED << conf_entries, scanned, entry, prev_unique_names, configs >>
  BY DEF DiskChanges, RegisterMandatoryFails, Registered, vars, regVars
<1>2. UNCHANGED pc \/ pc' \in {"exit", "running"}
  BY DEF DiskChanges, RegisterMandatoryFails, Registered, vars
<1>3. Sequences_Inv' /\ Phases'
  BY <1>1, <1>2 DEF Inv, Sequences_Inv, Phases, IsSequence
<1>4. ScannedLast' /\ NamesCollected' /\ NamesApart' /\ NoneTwice'
  BY <1>1 DEF Inv, ScannedLast, NamesCollected, NamesApart, NoneTwice, IsScanned, Unique
<1> QED
  BY <1>3, <1>4 DEF Inv

LEMMA NextInv == Inv /\ [Next]_vars => Inv'
BY ParseKeepsInv, SkipKeepsInv, RegisterKeepsInv, OtherKeepsInv DEF Next

-----------------------------------------------------------------------------
(***************************************************************************)
(* What ParseConfigLine() returns, for any line.                           *)
(***************************************************************************)
\* The settings smartd.conf(5) promises for a sequence of directives, and with the type.
CommonFrom(c, dirs) ==
    /\ c.monitors = MonitorsOf(dirs)
    /\ c.ignore = Has(dirs, "ignore") /\ c.removable = Has(dirs, "removable")
    /\ \A key \in Keys : c.settings[key] = LastArg(dirs, LAMBDA t : t.dir = key)
SettingsFrom(c, dirs) == CommonFrom(c, dirs) /\ c.dev_type = TypeOf(dirs)

LEMMA NoConfigAsWritten == NoConfig \in Config /\ AsWritten(NoConfig, << >>)
<1>1. NoConfig \in Config
  <2>1. NoConfig.settings \in [Keys -> Text]
    <3>1. "" \in Text
      BY DEF Text
    <3>2. NoConfig.settings = [key \in Keys |-> ""]
      BY DEF NoConfig
    <3> QED
      BY <3>1, <3>2, Zenon
  <2>2. {} \in SUBSET Monitorings
    OBVIOUS
  <2> QED
    BY <2>1, <2>2, SMT DEF NoConfig, Config, Text
<1>2. Monitored(<< >>) = {} /\ ~Has(<< >>, "ignore") /\ ~Has(<< >>, "removable")
  BY DEF Monitored, Has
<1>3. \A dir : WithDir(<< >>, dir) = {}
  BY DEF WithDir
<1>4. WithType(<< >>) = {}
  BY DEF WithType
<1>5. TypeOf(<< >>) = ""
  BY <1>4, TypeOfIsLast DEF LastOf
<1>6. \A key \in Keys : NoConfig.settings[key] = LastOf(WithDir(<< >>, key), << >>)
  BY <1>3 DEF LastOf, NoConfig
<1> QED
  BY <1>1, <1>2, <1>5, <1>6 DEF AsWritten, NoConfig

\* Name and number of the line do not matter.
LEMMA NamedAsWritten ==
    ASSUME NEW c \in Config, NEW d, AsWritten(c, d), NEW name \in Text, NEW lineno \in Nat
    PROVE  LET e == [c EXCEPT !.name = name, !.lineno = lineno]
           IN  e \in Config /\ e.name = name /\ e.lineno = lineno /\ AsWritten(e, d)
<1> DEFINE e == [c EXCEPT !.name = name, !.lineno = lineno]
<1>1. e \in Config /\ e.name = name /\ e.lineno = lineno
  BY DEF Config
<1>2. /\ e.monitors = c.monitors /\ e.ignore = c.ignore /\ e.removable = c.removable
      /\ e.settings = c.settings /\ e.dev_type = c.dev_type
  BY DEF Config
<1>3. AsWritten(e, d)
  BY <1>2, Zenon DEF AsWritten
<1> QED
  BY <1>1, <1>3

\* An entry without monitoring gets -a.
LEMMA ImpliedAllSettings ==
    ASSUME NEW c \in Config, NEW d, AsWritten(c, d)
    PROVE  /\ ImpliedAll(c) \in Config /\ SettingsFrom(ImpliedAll(c), d)
           /\ ImpliedAll(c).name = c.name /\ ImpliedAll(c).lineno = c.lineno
<1> DEFINE e == ImpliedAll(c)
<1>1. MonitorAll \in SUBSET Monitorings
  BY DEF MonitorAll, Monitorings
<1>2. /\ e \in Config /\ e.name = c.name /\ e.lineno = c.lineno
      /\ e.ignore = c.ignore /\ e.removable = c.removable
      /\ e.settings = c.settings /\ e.dev_type = c.dev_type
      /\ e.monitors = IF c.monitors = {} THEN MonitorAll ELSE c.monitors
  <2>1. CASE c.monitors = {}
    <3>1. e = [c EXCEPT !.monitors = MonitorAll]
      BY <2>1 DEF ImpliedAll
    <3> HIDE DEF e
    <3> QED
      BY <1>1, <2>1, <3>1 DEF Config
  <2>2. CASE c.monitors # {}
    <3>1. e = c
      BY <2>2 DEF ImpliedAll
    <3> HIDE DEF e
    <3> QED
      BY <2>2, <3>1
  <2> QED
    BY <2>1, <2>2
<1> HIDE DEF e
<1>3. MonitorsOf(d) = IF Monitored(d) = {} THEN MonitorAll ELSE Monitored(d)
  <2>1. LastArg(d, LAMBDA t : t.dir = "-W") = LastOf(WithDir(d, "-W"), d)
    BY Zenon DEF LastArg, LastOf, WithDir
  <2> QED
    BY <2>1 DEF MonitorsOf, Monitored
<1>4. ASSUME NEW key \in Keys
      PROVE  e.settings[key] = LastArg(d, LAMBDA t : t.dir = key)
  <2>1. c.settings[key] = LastOf(WithDir(d, key), d)
    BY DEF AsWritten
  <2> QED
    BY <1>2, <2>1, Zenon DEF LastArg, LastOf, WithDir
<1>5. e.ignore = Has(d, "ignore") /\ e.removable = Has(d, "removable")
  <2>1. c.ignore \in BOOLEAN /\ c.removable \in BOOLEAN
    BY DEF Config
  <2>2. Has(d, "ignore") \in BOOLEAN /\ Has(d, "removable") \in BOOLEAN
    BY DEF Has
  <2> QED
    BY <1>2, <2>1, <2>2, Zenon DEF AsWritten
<1>6. SettingsFrom(e, d)
  <2>1. e.monitors = MonitorsOf(d) /\ e.dev_type = TypeOf(d)
    BY <1>2, <1>3 DEF AsWritten
  <2> QED
    BY <1>4, <1>5, <2>1, Zenon DEF SettingsFrom, CommonFrom
<1> QED
  BY <1>2, <1>6 DEF e

\* With the directives before the line, which are none for a DEFAULT line.
LEMMA LineParsed ==
    ASSUME NEW l \in Line, NEW lineno \in Nat, NEW before \in Config, NEW types \in Seq(Types),
           NEW d, IsSequence(d), AsWritten(Before(l, before), d)
    PROVE  LET p == ParseConfigLine(l, lineno, before, types)
           IN  /\ p.types \in Seq(Types)
               /\ p.ok =>
                   /\ p.cfg \in Config /\ p.cfg.name = l.name /\ p.cfg.lineno = lineno
                   /\ ToSet(p.types) \subseteq
                          ToSet(types) \cup {l.dirs[i].arg : i \in DOMAIN l.dirs}
                   /\ IsDefault(l) => AsWritten(p.cfg, d \o l.dirs)
                   /\ ~IsDefault(l) => SettingsFrom(p.cfg, d \o l.dirs)
<1> DEFINE cfg == [Before(l, before) EXCEPT !.name = l.name, !.lineno = lineno]
           base == [cfg |-> cfg, types |-> types, ok |-> TRUE]
           p == Fold(base, l.dirs)
           q == ParseConfigLine(l, lineno, before, types)
<1>1. l.name \in Text /\ l.dirs \in Seq(Directive)
  <2>1. l.name \in Names \cup {"DEFAULT", "DEVICESCAN", "#"} /\ l.dirs \in Seq(Directive)
    BY DEF Line
  <2> QED
    BY <2>1, NamesAssumption DEF Text
<1>2. Before(l, before) \in Config
  BY NoConfigAsWritten DEF Before
<1>3. cfg \in Config /\ cfg.name = l.name /\ cfg.lineno = lineno /\ AsWritten(cfg, d)
  BY <1>1, <1>2, NamedAsWritten
<1>4. /\ base \in Parse /\ base.ok /\ base.cfg = cfg /\ base.types = types
  <2> HIDE DEF cfg
  <2> QED
    BY <1>3 DEF Parse
<1>5. q = IF ~p.ok \/ (~IsScan(l) /\ Len(p.types) > 1) THEN [p EXCEPT !.ok = FALSE]
          ELSE IF IsDefault(l) THEN p
          ELSE [p EXCEPT !.cfg = ImpliedAll(@), !.ok = MailIsPossible(p.cfg.settings)]
  BY Zenon DEF ParseConfigLine, Fold, FoldLeft, MapThenFoldSet
<1> HIDE DEF cfg
<1>6. TakenSoFar(p, base, d, l.dirs, Len(l.dirs))
  <2> HIDE DEF base
  <2> QED
    BY <1>1, <1>3, <1>4, LineTaken
<1> HIDE DEF base, p, q
<1>7. Upto(d \o l.dirs, Len(d) + Len(l.dirs)) = d \o l.dirs
  BY <1>1, SeqIsSequence, ConcatIsUpto
<1>8. /\ p \in Parse
      /\ p.ok => /\ AsWritten(p.cfg, d \o l.dirs)
                 /\ p.cfg.name = l.name /\ p.cfg.lineno = lineno
                 /\ ToSet(p.types) \subseteq
                        ToSet(types) \cup {l.dirs[i].arg : i \in DOMAIN l.dirs}
  BY <1>3, <1>4, <1>6, <1>7 DEF TakenSoFar
<1>9. CASE ~p.ok \/ (~IsScan(l) /\ Len(p.types) > 1)
  <2>1. q = [p EXCEPT !.ok = FALSE]
    BY <1>5, <1>9
  <2>2. q.types \in Seq(Types) /\ ~q.ok
    BY <1>8, <2>1 DEF Parse
  <2> QED
    BY <2>2 DEF q
<1>10. CASE p.ok /\ (IsScan(l) \/ ~(Len(p.types) > 1)) /\ IsDefault(l)
  <2>1. q = p
    BY <1>5, <1>10, Zenon
  <2>2. q.types \in Seq(Types) /\ q.cfg \in Config
    BY <1>8, <2>1 DEF Parse
  <2> QED
    BY <1>8, <1>10, <2>1, <2>2 DEF q
<1>11. CASE p.ok /\ (IsScan(l) \/ ~(Len(p.types) > 1)) /\ ~IsDefault(l)
  <2>1. q = [p EXCEPT !.cfg = ImpliedAll(@), !.ok = MailIsPossible(p.cfg.settings)]
    BY <1>5, <1>11, Zenon
  <2>2. q.types = p.types /\ q.cfg = ImpliedAll(p.cfg)
    BY <1>8, <2>1 DEF Parse
  <2>3. p.types \in Seq(Types) /\ p.cfg \in Config
    BY <1>8 DEF Parse
  <2>4. /\ ImpliedAll(p.cfg) \in Config /\ SettingsFrom(ImpliedAll(p.cfg), d \o l.dirs)
        /\ ImpliedAll(p.cfg).name = p.cfg.name /\ ImpliedAll(p.cfg).lineno = p.cfg.lineno
    BY <1>8, <1>11, <2>3, ImpliedAllSettings
  <2> QED
    BY <1>8, <1>11, <2>2, <2>3, <2>4 DEF q
<1> QED
  BY <1>9, <1>10, <1>11

-----------------------------------------------------------------------------
(***************************************************************************)
(* The lines read so far and what has become of them.                      *)
(***************************************************************************)
Defaults(s, k) == {j \in 1 .. k - 1 : IsDefault(s[j])}
LastIn(s, at) == IF at = {} THEN << >>
                 ELSE s[CHOOSE j \in at : \A i \in at : i <= j].dirs
DefaultIn(s, k) == LastIn(s, Defaults(s, k))

LinesType == lines \in Seq(Line) /\ default_conf \in Config /\ scan_types \in Seq(Types)
DefaultWritten ==
    pc = "parse" => /\ IsSequence(DefaultIn(lines, Len(lines) + 1))
                    /\ AsWritten(default_conf, DefaultIn(lines, Len(lines) + 1))
NoScanYet == pc = "parse" => \A i \in DOMAIN lines : ~IsScan(lines[i])

WrittenIn(s, k) == DefaultIn(s, k) \o s[k].dirs
EntryWritten(c, s, isScanned) ==
    /\ c \in Config /\ c.lineno <= Len(s)
    /\ c.lineno # 0 =>
           /\ CommonFrom(c, WrittenIn(s, c.lineno))
           /\ ~isScanned => c.dev_type = TypeOf(WrittenIn(s, c.lineno))
EntriesWritten ==
    \A i \in DOMAIN conf_entries : EntryWritten(conf_entries[i], lines, IsScanned(i))

\* All entries of the scan come from one line.
ScannedAgree ==
    \A i, k \in DOMAIN conf_entries :
        IsScanned(i) /\ IsScanned(k) => conf_entries[i].ignore = conf_entries[k].ignore

LinesInv == /\ LinesType /\ DefaultWritten /\ NoScanYet
            /\ EntriesWritten /\ ScannedAgree /\ ScanTypesOfLine

LEMMA DefaultInSame ==
    ASSUME NEW k \in Nat \ {0}, NEW s, NEW u, \A i \in 1 .. k - 1 : s[i] = u[i]
    PROVE  DefaultIn(s, k) = DefaultIn(u, k)
<1> DEFINE at == Defaults(s, k)
           last == CHOOSE j \in at : \A i \in at : i <= j
<1>1. Defaults(u, k) = at /\ at \in SUBSET (1 .. k - 1) /\ k - 1 \in Nat
  BY DEF IsDefault, Defaults
<1> HIDE DEF at
<1>2. ASSUME at # {} PROVE last \in 1 .. k - 1
  <2>1. \E i \in at : \A j \in at : j <= i
    BY <1>1, <1>2, GreatestExists
  <2>2. last \in at
    BY <2>1, Zenon
  <2> HIDE DEF last
  <2> QED
    BY <1>1, <2>2
<1>3. /\ LastIn(s, at) = IF at = {} THEN << >> ELSE s[last].dirs
      /\ LastIn(u, at) = IF at = {} THEN << >> ELSE u[last].dirs
  BY Zenon DEF LastIn
<1> HIDE DEF last
<1>4. at # {} => s[last] = u[last]
  BY <1>2
<1>5. LastIn(s, at) = LastIn(u, at)
  <2>1. CASE at = {}
    BY <1>3, <2>1, Zenon
  <2>2. CASE at # {}
    BY <1>3, <1>4, <2>2, Zenon
  <2> QED
    BY <2>1, <2>2
<1> QED
  BY <1>1, <1>5, Zenon DEF DefaultIn, at

LEMMA DefaultInNext ==
    ASSUME NEW k \in Nat \ {0}, NEW s
    PROVE  DefaultIn(s, k + 1) = IF IsDefault(s[k]) THEN s[k].dirs ELSE DefaultIn(s, k)
<1> DEFINE at == Defaults(s, k + 1)
           last == CHOOSE j \in at : \A i \in at : i <= j
<1>1. at \in SUBSET (1 .. k) /\ at = IF IsDefault(s[k]) THEN Defaults(s, k) \cup {k}
                                    ELSE Defaults(s, k)
  BY DEF Defaults
<1> HIDE DEF at
<1>2. CASE IsDefault(s[k])
  <2>1. k \in at /\ \A j \in at : j <= k /\ j \in 1 .. k
    BY <1>1, <1>2
  <2>2. DefaultIn(s, k + 1) = s[last].dirs
    BY <2>1, Zenon DEF DefaultIn, LastIn, at
  <2>3. last \in at /\ \A j \in at : j <= last
    BY <2>1, Zenon
  <2> HIDE DEF last
  <2>4. last = k
    BY <2>1, <2>3
  <2> QED
    BY <1>2, <2>2, <2>4
<1>3. CASE ~IsDefault(s[k])
  BY <1>1, <1>3, Zenon DEF DefaultIn, at
<1> QED
  BY <1>2, <1>3

\* Another line changes nothing for the lines before.
LEMMA LineAppended ==
    ASSUME NEW s \in Seq(Line), NEW l \in Line
    PROVE  LET u == Append(s, l)
           IN  /\ u \in Seq(Line) /\ Len(u) = Len(s) + 1 /\ u[Len(s) + 1] = l
               /\ \A k \in 1 .. Len(s) : u[k] = s[k] /\ WrittenIn(u, k) = WrittenIn(s, k)
               /\ DefaultIn(u, Len(s) + 1) = DefaultIn(s, Len(s) + 1)
               /\ DefaultIn(u, Len(u) + 1) = IF IsDefault(l) THEN l.dirs
                                             ELSE DefaultIn(s, Len(s) + 1)
<1> DEFINE u == Append(s, l)
           n == Len(s)
<1>1. /\ n \in Nat /\ u \in Seq(Line) /\ Len(u) = n + 1 /\ u[n + 1] = l
      /\ \A k \in 1 .. n : u[k] = s[k]
  BY AppendProperties, LenProperties
<1> HIDE DEF u, n
<1>2. ASSUME NEW k \in 1 .. n + 1 PROVE DefaultIn(u, k) = DefaultIn(s, k)
  <2>1. k \in Nat \ {0} /\ \A i \in 1 .. k - 1 : i \in 1 .. n
    BY <1>1
  <2>2. \A i \in 1 .. k - 1 : u[i] = s[i]
    BY <1>1, <2>1
  <2> QED
    BY <2>1, <2>2, DefaultInSame
<1>3. \A k \in 1 .. n : WrittenIn(u, k) = WrittenIn(s, k)
  <2> SUFFICES ASSUME NEW k \in 1 .. n PROVE WrittenIn(u, k) = WrittenIn(s, k)
    OBVIOUS
  <2>1. u[k] = s[k] /\ k \in 1 .. n + 1
    BY <1>1
  <2>2. DefaultIn(u, k) = DefaultIn(s, k)
    BY <1>2, <2>1
  <2> QED
    BY <2>1, <2>2, Zenon DEF WrittenIn
<1>4. n + 1 \in Nat \ {0} /\ n + 1 \in 1 .. n + 1
  BY <1>1
<1>5. DefaultIn(u, (n + 1) + 1) = IF IsDefault(u[n + 1]) THEN u[n + 1].dirs
                                  ELSE DefaultIn(u, n + 1)
  BY <1>4, DefaultInNext
<1> QED
  BY <1>1, <1>2, <1>3, <1>4, <1>5 DEF u, n

LEMMA InitLinesInv == Init => LinesInv
<1> SUFFICES ASSUME Init PROVE LinesInv
  OBVIOUS
<1>1. /\ lines = << >> /\ default_conf = NoConfig /\ scan_types = << >> /\ conf_entries = << >>
      /\ pc = "parse"
  BY DEF Init
<1>2. LinesType
  BY <1>1, NoConfigAsWritten DEF LinesType
<1>3. DefaultIn(lines, Len(lines) + 1) = << >>
  BY <1>1 DEF DefaultIn, LastIn, Defaults
<1>4. DefaultWritten
  BY <1>1, <1>3, EmptyIsSequence, NoConfigAsWritten DEF DefaultWritten
<1>5. NoScanYet /\ EntriesWritten /\ ScannedAgree /\ ScanTypesOfLine
  BY <1>1 DEF NoScanYet, EntriesWritten, ScannedAgree, ScanTypesOfLine
<1> QED
  BY <1>2, <1>4, <1>5 DEF LinesInv

\* Entries are as written also when another line is read.
LEMMA StillWritten ==
    ASSUME NEW s \in Seq(Line), NEW l \in Line, NEW c, NEW b, EntryWritten(c, s, b)
    PROVE  EntryWritten(c, Append(s, l), b)
<1> DEFINE u == Append(s, l)
<1>1. /\ Len(u) = Len(s) + 1 /\ Len(s) \in Nat
      /\ \A k \in 1 .. Len(s) : WrittenIn(u, k) = WrittenIn(s, k)
  BY LineAppended
<1> HIDE DEF u
<1>2. c.lineno \in Nat /\ c \in Config /\ c.lineno <= Len(s)
  BY DEF EntryWritten, Config
<1>3. c.lineno # 0 => WrittenIn(u, c.lineno) = WrittenIn(s, c.lineno)
  BY <1>1, <1>2
<1>4. c.lineno <= Len(u)
  BY <1>1, <1>2
<1>5. EntryWritten(c, u, b)
  BY <1>2, <1>3, <1>4, Zenon DEF EntryWritten
<1> QED
  BY <1>5 DEF u

\* The line l, as the next one.
LEMMA NextLineParsed ==
    ASSUME LinesInv, pc = "parse", NEW l \in Line, NEW types \in Seq(Types)
    PROVE  LET p == ParseConfigLine(l, Len(lines) + 1, default_conf, types)
           IN  /\ p.types \in Seq(Types)
               /\ p.ok =>
                   /\ p.cfg \in Config /\ p.cfg.lineno = Len(lines) + 1
                   /\ ToSet(p.types) \subseteq
                          ToSet(types) \cup {l.dirs[i].arg : i \in DOMAIN l.dirs}
                   /\ IsDefault(l) => AsWritten(p.cfg, l.dirs)
                   /\ ~IsDefault(l) =>
                          SettingsFrom(p.cfg, WrittenIn(Append(lines, l), Len(lines) + 1))
<1> DEFINE d == IF IsDefault(l) THEN << >> ELSE DefaultIn(lines, Len(lines) + 1)
           p == ParseConfigLine(l, Len(lines) + 1, default_conf, types)
<1>1. /\ lines \in Seq(Line) /\ default_conf \in Config /\ Len(lines) + 1 \in Nat
      /\ l.dirs \in Seq(Directive)
  BY DEF LinesInv, LinesType, Line
<1>2. IsSequence(d)
  BY EmptyIsSequence DEF LinesInv, DefaultWritten
<1>3. AsWritten(Before(l, default_conf), d)
  BY NoConfigAsWritten DEF LinesInv, DefaultWritten, Before
<1> HIDE DEF d, p
<1>4. /\ p.types \in Seq(Types)
      /\ p.ok =>
          /\ p.cfg \in Config /\ p.cfg.lineno = Len(lines) + 1
          /\ ToSet(p.types) \subseteq
                 ToSet(types) \cup {l.dirs[i].arg : i \in DOMAIN l.dirs}
          /\ IsDefault(l) => AsWritten(p.cfg, d \o l.dirs)
          /\ ~IsDefault(l) => SettingsFrom(p.cfg, d \o l.dirs)
  BY <1>1, <1>2, <1>3, LineParsed DEF p
<1>5. << >> \o l.dirs = l.dirs
  BY <1>1
<1>6. /\ DefaultIn(Append(lines, l), Len(lines) + 1) = DefaultIn(lines, Len(lines) + 1)
      /\ Append(lines, l)[Len(lines) + 1] = l
  BY <1>1, LineAppended
<1>7. ~IsDefault(l) => d \o l.dirs = WrittenIn(Append(lines, l), Len(lines) + 1)
  BY <1>6, Zenon DEF d, WrittenIn
<1>8. IsDefault(l) => d \o l.dirs = l.dirs
  BY <1>5, Zenon DEF d
<1> QED
  BY <1>4, <1>7, <1>8, Zenon DEF p

LEMMA EntryOfType ==
    ASSUME NEW base_cfg \in Config, NEW types, NEW f \in Found
    PROVE  LET e == EntryOf(base_cfg, types, f)
           IN  /\ e \in Config /\ e.lineno = base_cfg.lineno
               /\ e.ignore = base_cfg.ignore
               /\ \A dirs : CommonFrom(base_cfg, dirs) => CommonFrom(e, dirs)
<1> DEFINE type == IF types = << >> THEN "" ELSE f.type
           e == EntryOf(base_cfg, types, f)
<1>1. f.name \in Text /\ type \in Types \cup {""}
  BY NamesAssumption DEF Found, Text
<1>2. e = [base_cfg EXCEPT !.name = f.name, !.dev_type = type]
  BY DEF EntryOf
<1> HIDE DEF type, e
<1>3. /\ e \in Config /\ e.lineno = base_cfg.lineno /\ e.ignore = base_cfg.ignore
      /\ e.removable = base_cfg.removable /\ e.monitors = base_cfg.monitors
      /\ e.settings = base_cfg.settings
  BY <1>1, <1>2 DEF Config
<1>4. \A dirs : CommonFrom(base_cfg, dirs) => CommonFrom(e, dirs)
  BY <1>3, Zenon DEF CommonFrom
<1> QED
  BY <1>3, <1>4 DEF e

\* The entries of a scan have the settings of its line.
LEMMA ScanWritten ==
    ASSUME Inv, pc = "parse", NEW base_cfg \in Config, NEW types,
           MakeConfigEntries(base_cfg, types),
           \A i \in DOMAIN conf_entries : EntryWritten(conf_entries[i], lines', FALSE),
           EntryWritten(base_cfg, lines', TRUE)
    PROVE  EntriesWritten' /\ ScannedAgree'
<1> DEFINE n == Len(conf_entries)
<1>1. PICK found \in Seq(Found) :
        LET m == Len(found)
        IN  /\ n \in Nat /\ m \in Nat
            /\ IsSequence(conf_entries') /\ DOMAIN conf_entries' = 1 .. n + m
            /\ \A i \in 1 .. n : conf_entries'[i] = conf_entries[i]
            /\ \A i \in 1 .. m : conf_entries'[n + i] = EntryOf(base_cfg, types, found[i])
            /\ DOMAIN scanned' = 1 .. n + m
            /\ \A i \in 1 .. m : scanned'[n + i] = found[i]
            /\ \A i \in 1 .. n + m : IsScanned(i)' <=> n < i
  BY ScanAppends
<1> DEFINE m == Len(found)
<1>2. DOMAIN conf_entries = 1 .. n
  BY DEF Inv, Sequences_Inv, IsSequence
<1> HIDE DEF n
<1>3. ASSUME NEW i \in 1 .. n + m, n < i
      PROVE  EntryWritten(conf_entries'[i], lines', TRUE)
             /\ conf_entries'[i].ignore = base_cfg.ignore
  <2>1. PICK j \in 1 .. m : i = n + j
    <3>1. i - n \in 1 .. m /\ i = n + (i - n)
      BY <1>1, <1>3
    <3> QED
      BY <3>1
  <2>2. conf_entries'[i] = EntryOf(base_cfg, types, found[j]) /\ found[j] \in Found
    BY <1>1, <2>1
  <2>3. /\ conf_entries'[i] \in Config /\ conf_entries'[i].lineno = base_cfg.lineno
        /\ conf_entries'[i].ignore = base_cfg.ignore
        /\ \A dirs : CommonFrom(base_cfg, dirs) => CommonFrom(conf_entries'[i], dirs)
    BY <2>2, EntryOfType
  <2> QED
    BY <2>3, Zenon DEF EntryWritten
<1>4. ASSUME NEW i \in 1 .. n + m
      PROVE  EntryWritten(conf_entries'[i], lines', IsScanned(i)')
  <2>1. CASE n < i
    <3>1. IsScanned(i)'
      BY <1>1, <2>1
    <3> QED
      BY <1>3, <2>1, <3>1, Zenon DEF EntryWritten
  <2>2. CASE ~(n < i)
    <3>1. i \in 1 .. n /\ conf_entries'[i] = conf_entries[i]
      BY <1>1, <2>2
    <3>2. EntryWritten(conf_entries'[i], lines', FALSE)
      BY <1>2, <3>1
    <3> QED
      BY <3>2, Zenon DEF EntryWritten
  <2> QED
    BY <2>1, <2>2
<1>5. EntriesWritten'
  BY <1>1, <1>4, Zenon DEF EntriesWritten
<1>6. ScannedAgree'
  BY <1>1, <1>3, Zenon DEF ScannedAgree
<1> QED
  BY <1>5, <1>6

\* Before the scan no entry is one of it.
LEMMA NotYetScanned ==
    ASSUME Inv, pc = "parse"
    PROVE  \A i : ~IsScanned(i)
BY DEF Inv, Phases, IsScanned

LEMMA TakeLineWritten ==
    ASSUME Inv, LinesInv, pc = "parse", NEW l \in Line, NEW types \in Seq(Types),
           TakeLine(l, ParseConfigLine(l, Len(lines) + 1, default_conf, types)),
           types = << >> \/ continued'
    PROVE  LinesInv'
<1> DEFINE p == ParseConfigLine(l, Len(lines) + 1, default_conf, types)
           u == Append(lines, l)
           n == Len(lines) + 1
<1>1. /\ p.types \in Seq(Types)
      /\ p.ok =>
          /\ p.cfg \in Config /\ p.cfg.lineno = n
          /\ ToSet(p.types) \subseteq ToSet(types) \cup {l.dirs[i].arg : i \in DOMAIN l.dirs}
          /\ IsDefault(l) => AsWritten(p.cfg, l.dirs)
          /\ ~IsDefault(l) => SettingsFrom(p.cfg, WrittenIn(u, n))
  BY NextLineParsed
<1> HIDE DEF p
<1>2. TakeLine(l, p)
  BY DEF p
<1>3. lines' = u /\ scan_types' = p.types
  BY <1>2 DEF TakeLine
<1>4. /\ u \in Seq(Line) /\ Len(u) = n /\ u[n] = l
      /\ DefaultIn(u, Len(u) + 1) = IF IsDefault(l) THEN l.dirs
                                    ELSE DefaultIn(lines, Len(lines) + 1)
      /\ \A k \in 1 .. Len(lines) : u[k] = lines[k]
      /\ lines \in Seq(Line) /\ default_conf \in Config /\ Len(lines) \in Nat
  BY LineAppended DEF LinesInv, LinesType
<1> HIDE DEF u, n
<1>5. ASSUME NEW i \in DOMAIN conf_entries PROVE EntryWritten(conf_entries[i], u, FALSE)
  <2>1. EntryWritten(conf_entries[i], lines, IsScanned(i))
    BY Zenon DEF LinesInv, EntriesWritten
  <2>2. ~IsScanned(i)
    BY NotYetScanned
  <2>3. EntryWritten(conf_entries[i], lines, FALSE)
    BY <2>1, <2>2, Zenon DEF EntryWritten
  <2> QED
    BY <1>4, <2>3, StillWritten DEF u
<1>6. ScanTypesOfLine'
  <2> SUFFICES ASSUME pc' \in {"register", "empty"}, ~continued'
               PROVE  ToSet(p.types) \subseteq {t.arg : t \in ToSet(l.dirs)}
    <3>1. Last(lines') = l
      BY <1>3, <1>4 DEF Last
    <3> QED
      BY <1>3, <3>1 DEF ScanTypesOfLine
  <2>1. p.ok
    BY <1>2 DEF TakeLine
  <2>2. ToSet(types) = {}
    BY DEF ToSet
  <2>3. \A i \in DOMAIN l.dirs : l.dirs[i] \in ToSet(l.dirs)
    BY DEF ToSet
  <2> QED
    BY <1>1, <2>1, <2>2, <2>3
<1>7. LinesType'
  <2>1. default_conf' = default_conf \/ (p.ok /\ default_conf' = p.cfg)
    <3>1. \/ UNCHANGED << default_conf, scanned >>
          \/ p.ok /\ default_conf' = p.cfg
          \/ UNCHANGED default_conf
          \/ UNCHANGED << pc, default_conf, scanned >>
      BY <1>2, Zenon DEF TakeLine
    <3>2. /\ UNCHANGED << default_conf, scanned >> => default_conf' = default_conf
          /\ UNCHANGED << pc, default_conf, scanned >> => default_conf' = default_conf
          /\ UNCHANGED default_conf => default_conf' = default_conf
      OBVIOUS
    <3> QED
      BY <3>1, <3>2, Zenon
  <2> QED
    BY <1>1, <1>3, <1>4, <2>1 DEF LinesType
<1>8. CASE ~p.ok
  <2>1. conf_entries' = << >> /\ pc' = "error"
    BY <1>2, <1>8 DEF TakeLine
  <2>2. DefaultWritten' /\ NoScanYet' /\ EntriesWritten' /\ ScannedAgree'
    <3>1. pc' # "parse" /\ DOMAIN conf_entries' = {}
      BY <2>1
    <3> QED
      BY <3>1, Zenon DEF DefaultWritten, NoScanYet, EntriesWritten, ScannedAgree
  <2> QED
    BY <1>6, <1>7, <2>2 DEF LinesInv
<1>9. ~IsScan(l) => NoScanYet'
  <2>1. DOMAIN u = 1 .. Len(lines) + 1 /\ DOMAIN lines = 1 .. Len(lines)
    BY <1>4 DEF n
  <2>2. ASSUME ~IsScan(l), NEW i \in DOMAIN u PROVE ~IsScan(u[i])
    <3>1. \A k \in DOMAIN lines : ~IsScan(lines[k])
      BY DEF LinesInv, NoScanYet
    <3>2. CASE i = n
      BY <1>4, <2>2, <3>2, Zenon
    <3>3. CASE i # n
      <4>1. i \in 1 .. Len(lines)
        BY <1>4, <2>1, <3>3 DEF n
      <4>2. u[i] = lines[i] /\ i \in DOMAIN lines
        BY <1>4, <2>1, <4>1
      <4> QED
        BY <3>1, <4>2, Zenon
    <3> QED
      BY <3>2, <3>3
  <2> QED
    BY <1>3, <2>2, Zenon DEF NoScanYet
<1>10. CASE p.ok /\ IsDefault(l)
  <2>1. default_conf' = p.cfg /\ UNCHANGED << pc, conf_entries, scanned >>
    BY <1>2, <1>10 DEF TakeLine, IsDefault, IsScan
  <2>2. AsWritten(p.cfg, l.dirs) /\ IsSequence(l.dirs)
    <3>1. l.dirs \in Seq(Directive)
      BY DEF Line
    <3> QED
      BY <1>1, <1>10, <3>1, SeqIsSequence
  <2>3. DefaultWritten'
    BY <1>3, <1>4, <1>10, <2>1, <2>2 DEF DefaultWritten
  <2>4. ~IsScan(l)
    BY <1>10 DEF IsDefault, IsScan
  <2>5. EntriesWritten' /\ ScannedAgree'
    <3>1. \A i : ~IsScanned(i) /\ ~IsScanned(i)'
      BY <2>1, NotYetScanned DEF IsScanned
    <3>2. \A i \in DOMAIN conf_entries' : EntryWritten(conf_entries'[i], lines', IsScanned(i)')
      BY <1>3, <1>5, <2>1, <3>1, Zenon DEF EntryWritten
    <3> QED
      BY <3>1, <3>2, Zenon DEF EntriesWritten, ScannedAgree
  <2> QED
    BY <1>6, <1>7, <1>9, <2>3, <2>4, <2>5 DEF LinesInv
<1>11. n \in Nat /\ n <= Len(u)
  BY <1>4 DEF n
<1>12. p.ok /\ ~IsDefault(l) => EntryWritten(p.cfg, u, FALSE)
  BY <1>1, <1>11, Zenon DEF EntryWritten, SettingsFrom
<1>13. CASE p.ok /\ IsScan(l)
  <2>1. /\ MakeConfigEntries(p.cfg, p.types) /\ Parsed
    BY <1>2, <1>13 DEF TakeLine, IsDefault, IsScan
  <2>2. ~IsDefault(l) /\ p.cfg \in Config
    BY <1>1, <1>13 DEF IsDefault, IsScan
  <2>3. EntryWritten(p.cfg, u, TRUE)
    BY <1>12, <1>13, <2>2, Zenon DEF EntryWritten
  <2>4. EntriesWritten' /\ ScannedAgree'
    BY <1>3, <1>5, <2>1, <2>2, <2>3, ScanWritten
  <2>5. DefaultWritten' /\ NoScanYet'
    <3>1. pc' # "parse"
      BY <2>1 DEF Parsed
    <3> QED
      BY <3>1 DEF DefaultWritten, NoScanYet
  <2> QED
    BY <1>6, <1>7, <2>4, <2>5 DEF LinesInv
<1>14. CASE p.ok /\ ~IsDefault(l) /\ ~IsScan(l)
  <2>1. /\ conf_entries' = Append(conf_entries, p.cfg)
        /\ UNCHANGED << pc, default_conf, scanned >>
    BY <1>2, <1>14 DEF TakeLine
  <2>2. DefaultWritten'
    BY <1>3, <1>4, <1>14, <2>1 DEF LinesInv, DefaultWritten
  <2>3. EntriesWritten' /\ ScannedAgree'
    <3>1. \A i : ~IsScanned(i) /\ ~IsScanned(i)'
      BY <2>1, NotYetScanned DEF IsScanned
    <3>2. /\ DOMAIN conf_entries' = DOMAIN conf_entries \cup {Len(conf_entries) + 1}
          /\ \A i \in DOMAIN conf_entries : conf_entries'[i] = conf_entries[i]
          /\ conf_entries'[Len(conf_entries) + 1] = p.cfg
      <4>1. IsSequence(conf_entries)
        BY DEF Inv, Sequences_Inv
      <4> QED
        BY <2>1, <4>1, AppendSequence DEF IsSequence
    <3>3. \A i \in DOMAIN conf_entries' : EntryWritten(conf_entries'[i], lines', FALSE)
      BY <1>3, <1>5, <1>12, <1>14, <3>2, Zenon
    <3>4. \A i \in DOMAIN conf_entries' : EntryWritten(conf_entries'[i], lines', IsScanned(i)')
      BY <3>1, <3>3, Zenon DEF EntryWritten
    <3> QED
      BY <3>1, <3>4, Zenon DEF EntriesWritten, ScannedAgree
  <2> QED
    BY <1>6, <1>7, <1>9, <1>14, <2>2, <2>3 DEF LinesInv
<1> QED
  BY <1>8, <1>10, <1>13, <1>14

\* Reading the file.
LEMMA ParseKeepsLinesInv ==
    ASSUME Inv, LinesInv, ReadBlankLine \/ ReadLine \/ ReadContinuedLine \/ EndOfFile \/ NoFile
    PROVE  LinesInv'
<1>1. /\ pc = "parse" /\ lines \in Seq(Line) /\ scan_types \in Seq(Types)
      /\ default_conf \in Config /\ \A i : ~IsScanned(i)
  BY NotYetScanned DEF LinesInv, LinesType, ReadBlankLine, ReadLine, ReadContinuedLine, EndOfFile,
     NoFile, MayRead
<1>2. << >> \in Seq(Types)
  OBVIOUS
<1>3. CASE ReadBlankLine
  <2>1. PICK l \in Line : /\ IsBlank(l) /\ lines' = Append(lines, l) /\ scan_types' = << >>
                          /\ UNCHANGED << pc, default_conf, conf_entries, scanned >>
    BY <1>3, LinesAssumption DEF ReadBlankLine
  <2>2. ~IsDefault(l) /\ ~IsScan(l)
    BY <2>1 DEF IsBlank, IsDefault, IsScan
  <2>3. /\ lines' \in Seq(Line) /\ Len(lines') = Len(lines) + 1
        /\ DOMAIN lines' = DOMAIN lines \cup {Len(lines) + 1}
        /\ \A i \in DOMAIN lines : lines'[i] = lines[i]
        /\ lines'[Len(lines) + 1] = l
    BY <1>1, <2>1
  <2>4. DefaultIn(lines', Len(lines') + 1) = DefaultIn(lines, Len(lines) + 1)
    BY <1>1, <2>1, <2>2, LineAppended
  <2>5. DefaultWritten' /\ LinesType'
    BY <1>1, <1>2, <2>1, <2>3, <2>4 DEF LinesInv, DefaultWritten, LinesType
  <2>6. NoScanYet'
    BY <2>2, <2>3, <1>1, Zenon DEF LinesInv, NoScanYet
  <2>7. \A i : IsScanned(i)' <=> IsScanned(i)
    BY <2>1 DEF IsScanned
  <2>8. ASSUME NEW i \in DOMAIN conf_entries
        PROVE  EntryWritten(conf_entries[i], lines', IsScanned(i)')
    <3>1. EntryWritten(conf_entries[i], lines, IsScanned(i))
      BY Zenon DEF LinesInv, EntriesWritten
    <3>2. EntryWritten(conf_entries[i], lines', IsScanned(i))
      BY <1>1, <2>1, <3>1, StillWritten
    <3> QED
      BY <2>7, <3>2, Zenon DEF EntryWritten
  <2>9. EntriesWritten' /\ ScannedAgree'
    BY <1>1, <2>1, <2>7, <2>8, Zenon DEF EntriesWritten, ScannedAgree
  <2>10. ScanTypesOfLine'
    BY <1>1, <2>1 DEF ScanTypesOfLine
  <2> QED
    BY <2>5, <2>6, <2>9, <2>10 DEF LinesInv
<1>4. CASE ReadLine
  <2>1. PICK l \in Line :
           TakeLine(l, ParseConfigLine(l, Len(lines) + 1, default_conf, << >>))
    BY <1>4, LinesAssumption, Zenon DEF ReadLine, TypesBefore
  <2> QED
    BY <1>1, <1>2, <2>1, TakeLineWritten
<1>5. CASE ReadContinuedLine
  <2>1. PICK l \in Line :
           TakeLine(l, ParseConfigLine(l, Len(lines) + 1, default_conf, scan_types))
    BY <1>5, LinesAssumption, Zenon DEF ReadContinuedLine
  <2>2. continued'
    BY <1>5 DEF ReadContinuedLine
  <2> QED
    BY <1>1, <2>1, <2>2, TakeLineWritten
<1>6. CASE EndOfFile
  <2>1. /\ UNCHANGED << lines, default_conf, scan_types, conf_entries, scanned >>
        /\ pc' # "parse"
    BY <1>6 DEF EndOfFile, Parsed, fileVars
  <2>2. LinesType' /\ DefaultWritten' /\ NoScanYet'
    BY <1>1, <2>1 DEF LinesType, DefaultWritten, NoScanYet
  <2>3. EntriesWritten' /\ ScannedAgree'
    BY <2>1 DEF LinesInv, EntriesWritten, ScannedAgree, IsScanned
  <2>4. ScanTypesOfLine'
    <3>1. \A i \in DOMAIN lines : ~IsScan(lines[i])
      BY <1>1 DEF LinesInv, NoScanYet
    <3>2. lines # << >> => Len(lines) \in DOMAIN lines /\ Last(lines) = lines[Len(lines)]
      BY <1>1 DEF Last
    <3>3. lines' # << >> => ~IsScan(Last(lines'))
      BY <2>1, <3>1, <3>2
    <3> QED
      BY <3>3, Zenon DEF ScanTypesOfLine
  <2> QED
    BY <2>2, <2>3, <2>4 DEF LinesInv
<1>7. CASE NoFile
  <2> DEFINE base == [NoConfig EXCEPT !.name = "DEVICESCAN", !.monitors = MonitorAll]
  <2>1. /\ UNCHANGED << lines, default_conf, scan_types >> /\ lines = << >>
        /\ pc' # "parse" /\ MakeConfigEntries(base, << >>)
    BY <1>7 DEF NoFile, Parsed, fileVars
  <2>2. base \in Config /\ base.lineno = 0
    <3>1. "DEVICESCAN" \in Text /\ MonitorAll \in SUBSET Monitorings
      BY DEF Text, MonitorAll, Monitorings
    <3>2. NoConfig \in Config /\ NoConfig.lineno = 0
      BY NoConfigAsWritten DEF NoConfig
    <3> QED
      BY <3>1, <3>2 DEF Config
  <2> HIDE DEF base
  <2>3. LinesType' /\ DefaultWritten' /\ NoScanYet' /\ ScanTypesOfLine'
    BY <1>1, <2>1 DEF LinesType, DefaultWritten, NoScanYet, ScanTypesOfLine
  <2>4. EntryWritten(base, lines', TRUE)
    <3>1. 0 <= Len(lines')
      BY <2>1
    <3> QED
      BY <2>2, <3>1, Zenon DEF EntryWritten
  <2>5. \A i \in DOMAIN conf_entries : EntryWritten(conf_entries[i], lines', FALSE)
    <3>1. ASSUME NEW i \in DOMAIN conf_entries
          PROVE  EntryWritten(conf_entries[i], lines, FALSE)
      <4>1. EntryWritten(conf_entries[i], lines, IsScanned(i))
        BY Zenon DEF LinesInv, EntriesWritten
      <4> QED
        BY <1>1, <4>1, Zenon DEF EntryWritten
    <3> QED
      BY <2>1, <3>1
  <2>6. EntriesWritten' /\ ScannedAgree'
    BY <1>1, <2>1, <2>2, <2>4, <2>5, ScanWritten
  <2> QED
    BY <2>3, <2>6 DEF LinesInv
<1> QED
  BY <1>3, <1>4, <1>5, <1>6, <1>7

\* Afterwards nothing of it changes.
LEMMA LinesInvUntouched ==
    ASSUME LinesInv, UNCHANGED << fileVars, conf_entries, scanned >>,
           pc' = pc \/ pc' \in {"exit", "running"}
    PROVE  LinesInv'
<1>1. UNCHANGED << lines, default_conf, scan_types, continued, conf_entries, scanned >>
  BY DEF fileVars
<1>2. LinesType' /\ DefaultWritten' /\ NoScanYet'
  BY <1>1 DEF LinesInv, LinesType, DefaultWritten, NoScanYet
<1>3. EntriesWritten' /\ ScannedAgree'
  BY <1>1 DEF LinesInv, EntriesWritten, ScannedAgree, IsScanned
<1>4. ScanTypesOfLine'
  BY <1>1 DEF LinesInv, ScanTypesOfLine
<1> QED
  BY <1>2, <1>3, <1>4 DEF LinesInv

LEMMA NextLinesInv ==
    ASSUME Inv, LinesInv, [Next]_vars
    PROVE  LinesInv'
<1>1. CASE ReadBlankLine \/ ReadLine \/ ReadContinuedLine \/ EndOfFile \/ NoFile
  BY <1>1, ParseKeepsLinesInv
<1>2. CASE DiskChanges \/ Registered \/ UNCHANGED vars
  BY <1>2, LinesInvUntouched DEF DiskChanges, Registered, vars
<1>3. CASE Ignore \/ SkipNamed \/ RegisterDevice \/ RegisterFails
  BY <1>3, LinesInvUntouched DEF Ignore, SkipNamed, RegisterDevice, RegisterFails, NextEntry
<1>4. CASE RegisterMandatoryFails
  BY <1>4, LinesInvUntouched DEF RegisterMandatoryFails
<1> QED
  BY <1>1, <1>2, <1>3, <1>4 DEF Next

\* The invariant is what the property says.
LEMMA LinesInvSuffices == LinesInv => LinesAsWritten
<1> SUFFICES ASSUME LinesInv, pc = "register", NEW i \in DOMAIN conf_entries,
                    conf_entries[i].lineno # 0
             PROVE  LET cfg == conf_entries[i]
                        dirs == Written(cfg.lineno)
                    IN  /\ cfg.monitors = MonitorsOf(dirs)
                        /\ cfg.ignore = Has(dirs, "ignore")
                        /\ cfg.removable = Has(dirs, "removable")
                        /\ \A key \in Keys :
                               cfg.settings[key] = LastArg(dirs, LAMBDA t : t.dir = key)
                        /\ ~IsScanned(i) => cfg.dev_type = TypeOf(dirs)
  BY Zenon DEF LinesInv, LinesAsWritten, SettingsAsWritten
<1> DEFINE cfg == conf_entries[i]
<1>1. EntryWritten(cfg, lines, IsScanned(i))
  BY Zenon DEF LinesInv, EntriesWritten
<1>2. WrittenIn(lines, cfg.lineno) = Written(cfg.lineno)
  BY Zenon DEF WrittenIn, Written, DefaultIn, LastIn, Defaults, DefaultOf
<1> QED
  BY <1>1, <1>2, Zenon DEF EntryWritten, CommonFrom

-----------------------------------------------------------------------------
(***************************************************************************)
(* No disk of a line is added by the scan.                                 *)
(***************************************************************************)
\* A scanned entry has the name of its device, and its type or none; so the unique
\* name of a registered one is its disk, unless the type was not kept.
TypesOfScan ==
    \A i \in DOMAIN conf_entries : IsScanned(i) =>
        /\ conf_entries[i].name = scanned[i].name
        /\ conf_entries[i].dev_type \in {"", scanned[i].type}
DisksOfNames ==
    \A j \in DOMAIN configs : configs[j].scanned =>
        \/ configs[j].disk = Unique(configs[j].cfg)
        \/ configs[j].disk.raid # "" /\ configs[j].cfg.dev_type = ""

NamedInv == TypesOfScan /\ DisksOfNames

LEMMA InitNamedInv == Init => NamedInv
BY DEF Init, NamedInv, TypesOfScan, DisksOfNames

LEMMA ScanKeepsNamedInv ==
    ASSUME Inv, pc = "parse", UNCHANGED regVars, NEW base_cfg \in Config, NEW types,
           MakeConfigEntries(base_cfg, types)
    PROVE  NamedInv'
<1> DEFINE n == Len(conf_entries)
<1>1. PICK found \in Seq(Found) :
        LET m == Len(found)
        IN  /\ n \in Nat /\ m \in Nat /\ DOMAIN conf_entries' = 1 .. n + m
            /\ \A i \in 1 .. m : conf_entries'[n + i] = EntryOf(base_cfg, types, found[i])
            /\ \A i \in 1 .. m : scanned'[n + i] = found[i]
            /\ \A i \in 1 .. n + m : IsScanned(i)' <=> n < i
  BY ScanAppends
<1> DEFINE m == Len(found)
<1> HIDE DEF n
<1>2. ASSUME NEW i \in DOMAIN conf_entries', IsScanned(i)'
      PROVE  /\ conf_entries'[i].name = scanned'[i].name
             /\ conf_entries'[i].dev_type \in {"", scanned'[i].type}
  <2>1. i - n \in 1 .. m /\ i = n + (i - n)
    BY <1>1, <1>2
  <2>2. PICK j \in 1 .. m : i = n + j
    BY <2>1
  <2>3. conf_entries'[i] = EntryOf(base_cfg, types, found[j]) /\ scanned'[i] = found[j]
    BY <1>1, <2>2
  <2>4. /\ EntryOf(base_cfg, types, found[j]).name = found[j].name
        /\ EntryOf(base_cfg, types, found[j]).dev_type \in {"", found[j].type}
    BY DEF EntryOf, Config
  <2> QED
    BY <2>3, <2>4
<1>3. TypesOfScan'
  BY <1>2, Zenon DEF TypesOfScan
<1>4. configs' = << >>
  BY DEF Inv, Phases, regVars
<1>5. DisksOfNames'
  <2>1. DOMAIN configs' = {}
    BY <1>4
  <2> QED
    BY <2>1 DEF DisksOfNames
<1> QED
  BY <1>3, <1>5 DEF NamedInv

\* All other steps of the parser leave scanned_devs empty.
LEMMA NoScanKeepsNamedInv ==
    ASSUME Inv, pc = "parse", UNCHANGED << regVars, scanned >>
    PROVE  NamedInv'
<1>1. scanned' = << >> /\ configs' = << >>
  BY DEF Inv, Phases, regVars
<1> QED
  BY <1>1 DEF NamedInv, TypesOfScan, DisksOfNames, IsScanned

LEMMA TakeLineKeepsNamedInv ==
    ASSUME Inv, LinesInv, pc = "parse", UNCHANGED regVars, NEW l \in Line,
           NEW types \in Seq(Types),
           TakeLine(l, ParseConfigLine(l, Len(lines) + 1, default_conf, types))
    PROVE  NamedInv'
<1> DEFINE p == ParseConfigLine(l, Len(lines) + 1, default_conf, types)
<1>1. p.ok => p.cfg \in Config
  BY NextLineParsed
<1> HIDE DEF p
<1>2. TakeLine(l, p)
  BY DEF p
<1>3. CASE p.ok /\ IsScan(l)
  BY <1>1, <1>2, <1>3, ScanKeepsNamedInv DEF TakeLine, IsDefault, IsScan
<1>4. CASE ~(p.ok /\ IsScan(l))
  BY <1>2, <1>4, NoScanKeepsNamedInv DEF TakeLine
<1> QED
  BY <1>3, <1>4

\* The unique name of a scanned entry is its disk, unless the type was not kept.
LEMMA ScannedDisk ==
    ASSUME NamedInv, NEW i \in DOMAIN conf_entries, IsScanned(i)
    PROVE  \/ DiskOf(i) = Unique(conf_entries[i])
           \/ DiskOf(i).raid # "" /\ conf_entries[i].dev_type = ""
<1> DEFINE name == scanned[i].name
           type == scanned[i].type
           dev_type == conf_entries[i].dev_type
<1>1. /\ DiskOf(i) = Disk(name, type) /\ Unique(conf_entries[i]) = Disk(name, dev_type)
      /\ dev_type \in {"", type}
  BY DEF NamedInv, TypesOfScan, DiskOf, Unique
<1>2. "" \notin RaidTypes
  BY NamesAssumption, DisksAssumption
<1> HIDE DEF name, type, dev_type
<1>3. dev_type = "" => \/ Disk(name, type).raid # ""
                      \/ Disk(name, type) = Disk(name, dev_type)
  BY <1>2 DEF Disk
<1> QED
  BY <1>1, <1>3 DEF dev_type

LEMMA RegisterKeepsNamedInv ==
    ASSUME Inv, NamedInv, RegisterDevice
    PROVE  NamedInv'
<1>1. /\ UNCHANGED << conf_entries, scanned >> /\ entry \in DOMAIN conf_entries
      /\ IsSequence(configs)
  BY DEF Inv, Sequences_Inv, IsSequence, RegisterDevice, ToRegister, AtEntry, NextEntry
<1>2. PICK c : /\ configs' = Append(configs, c)
               /\ c = [cfg |-> conf_entries[entry], disk |-> DiskOf(entry),
                       scanned |-> IsScanned(entry)]
  BY DEF RegisterDevice
<1>3. /\ DOMAIN configs = 1 .. Len(configs) /\ DOMAIN configs' = 1 .. Len(configs) + 1
      /\ \A i \in 1 .. Len(configs) : configs'[i] = configs[i]
      /\ configs'[Len(configs) + 1] = c /\ Len(configs) \in Nat
  BY <1>1, <1>2, AppendSequence DEF IsSequence
<1>4. c.scanned => \/ c.disk = Unique(c.cfg)
                   \/ c.disk.raid # "" /\ c.cfg.dev_type = ""
  BY <1>1, <1>2, ScannedDisk
<1>5. DisksOfNames'
  <2> SUFFICES ASSUME NEW j \in DOMAIN configs', configs'[j].scanned
               PROVE  \/ configs'[j].disk = Unique(configs'[j].cfg)
                      \/ configs'[j].disk.raid # "" /\ configs'[j].cfg.dev_type = ""
    BY DEF DisksOfNames, Unique
  <2>1. CASE j \in 1 .. Len(configs)
    BY <1>3, <2>1 DEF NamedInv, DisksOfNames
  <2>2. CASE j = Len(configs) + 1
    BY <1>3, <1>4, <2>2
  <2>3. j \in 1 .. Len(configs) \/ j = Len(configs) + 1
    BY <1>3
  <2> QED
    BY <2>1, <2>2, <2>3
<1>6. TypesOfScan'
  BY <1>1 DEF NamedInv, TypesOfScan, IsScanned
<1> QED
  BY <1>5, <1>6 DEF NamedInv

LEMMA NextNamedInv ==
    ASSUME Inv, LinesInv, NamedInv, [Next]_vars
    PROVE  NamedInv'
<1>1. CASE ReadBlankLine \/ EndOfFile
  BY <1>1, NoScanKeepsNamedInv DEF ReadBlankLine, EndOfFile, MayRead
<1>2. CASE ReadLine
  <2>1. pc = "parse" /\ UNCHANGED regVars
    BY <1>2 DEF ReadLine, MayRead
  <2>2. PICK l \in Line :
           TakeLine(l, ParseConfigLine(l, Len(lines) + 1, default_conf, << >>))
    BY <1>2, LinesAssumption, Zenon DEF ReadLine, TypesBefore
  <2>3. << >> \in Seq(Types)
    OBVIOUS
  <2> QED
    BY <2>1, <2>2, <2>3, TakeLineKeepsNamedInv
<1>3. CASE ReadContinuedLine
  <2>1. pc = "parse" /\ UNCHANGED regVars
    BY <1>3 DEF ReadContinuedLine, MayRead
  <2>2. PICK l \in Line :
           TakeLine(l, ParseConfigLine(l, Len(lines) + 1, default_conf, scan_types))
    BY <1>3, LinesAssumption, Zenon DEF ReadContinuedLine
  <2>3. scan_types \in Seq(Types)
    BY DEF LinesInv, LinesType
  <2> QED
    BY <2>1, <2>2, <2>3, TakeLineKeepsNamedInv
<1>4. CASE NoFile
  <2> DEFINE cfg == [NoConfig EXCEPT !.name = "DEVICESCAN", !.monitors = MonitorAll]
  <2>1. MakeConfigEntries(cfg, << >>) /\ pc = "parse" /\ UNCHANGED regVars
    BY <1>4 DEF NoFile
  <2>2. cfg \in Config
    BY NoConfigAsWritten DEF Config, Text, MonitorAll, Monitorings
  <2> QED
    BY <2>1, <2>2, ScanKeepsNamedInv
<1>5. CASE RegisterDevice
  BY <1>5, RegisterKeepsNamedInv
<1>6. CASE \/ Ignore \/ SkipNamed \/ RegisterFails \/ DiskChanges
           \/ RegisterMandatoryFails \/ Registered \/ UNCHANGED vars
  <2>1. UNCHANGED << conf_entries, scanned, configs >>
    BY <1>6 DEF Ignore, SkipNamed, RegisterFails, ToRegister, NextEntry, DiskChanges,
       RegisterMandatoryFails, Registered, vars, regVars
  <2> QED
    BY <2>1 DEF NamedInv, TypesOfScan, DisksOfNames, IsScanned, Unique
<1> QED
  BY <1>1, <1>2, <1>3, <1>4, <1>5, <1>6 DEF Next

\* A line's unique name is its disk.
LEMMA NamedInvSuffices ==
    ASSUME Inv, NamedInv
    PROVE  NamedNotScanned
<1> SUFFICES ASSUME NEW i \in DOMAIN configs, NEW k \in DOMAIN conf_entries,
                    configs[i].scanned, ~IsScanned(k), ~TypeNotKept(k, configs[i].cfg)
             PROVE  configs[i].disk # DiskOf(k)
  BY DEF NamedNotScanned
<1>1. DiskOf(k) = Unique(conf_entries[k])
  BY DEF DiskOf
<1>2. Unique(conf_entries[k]) # Unique(configs[i].cfg)
  BY DEF Inv, NamesApart
<1>3. CASE configs[i].disk = Unique(configs[i].cfg)
  BY <1>1, <1>2, <1>3
<1>4. CASE configs[i].disk.raid # "" /\ configs[i].cfg.dev_type = ""
  BY <1>4 DEF TypeNotKept
<1> QED
  BY <1>3, <1>4 DEF NamedInv, DisksOfNames

-----------------------------------------------------------------------------
(***************************************************************************)
(* No entry is lost on the way to the main loop.                           *)
(***************************************************************************)
\* What NothingLost says of an entry.
Handled(i) ==
    LET cfg == conf_entries[i]
    IN  \/ cfg.ignore
        \/ \E c \in ToSet(configs) : c.cfg = cfg
        \/ i \in absent /\ (IsScanned(i) \/ cfg.removable \/ Never)
        \/ /\ IsScanned(i)
           /\ \/ \E k \in DOMAIN conf_entries : ~IsScanned(k) /\ NamedBy(k, cfg)
              \/ \E c \in ToSet(configs) : SameDevice(DiskOf(i), c.disk)

\* The entries before the next one have been dealt with, all of them if smartd runs.
AllHandled == /\ \A i \in DOMAIN conf_entries : i < entry => Handled(i)
              /\ pc = "running" => entry > Len(conf_entries)
\* A collected name is the one of an entry of the file, or of one to be ignored.
NamesFrom == /\ pc = "parse" => prev_unique_names = {}
             /\ \A u \in prev_unique_names : \E k \in DOMAIN conf_entries :
                    u = Unique(conf_entries[k]) /\ (~IsScanned(k) \/ conf_entries[k].ignore)
\* Only disks that there are.
DisksReal == /\ plugged \subseteq RealDisks
             /\ \A j \in DOMAIN configs : configs[j].disk \in RealDisks
             /\ \A i \in DOMAIN scanned : scanned[i] \in Found \cup {NoDevice}

LostInv == AllHandled /\ NamesFrom /\ DisksReal

LEMMA InitLostInv == Init => LostInv
BY DEF Init, LostInv, AllHandled, NamesFrom, DisksReal

\* While the file is read no entry is dealt with.
LEMMA ParseKeepsLostInv ==
    ASSUME Inv, LostInv, pc = "parse", UNCHANGED regVars, pc' # "running",
           IsSequence(conf_entries'),
           \A i \in DOMAIN scanned' : scanned'[i] \in Found \cup {NoDevice}
    PROVE  LostInv'
<1>1. /\ entry' = 1 /\ prev_unique_names' = {} /\ configs' = configs /\ plugged' = plugged
  BY DEF Inv, Phases, LostInv, NamesFrom, regVars
<1>2. \A i \in DOMAIN conf_entries' : ~(i < entry')
  BY <1>1 DEF IsSequence
<1>3. AllHandled'
  BY <1>2, Zenon DEF AllHandled
<1>4. NamesFrom'
  BY <1>1 DEF NamesFrom
<1>5. DisksReal'
  BY <1>1, Zenon DEF LostInv, DisksReal
<1> QED
  BY <1>3, <1>4, <1>5 DEF LostInv

LEMMA ScanKeepsLostInv ==
    ASSUME Inv, LostInv, pc = "parse", UNCHANGED regVars, pc' # "running",
           NEW base_cfg, NEW types, MakeConfigEntries(base_cfg, types)
    PROVE  LostInv'
<1> DEFINE n == Len(conf_entries)
<1>1. PICK found \in Seq(Found) :
        /\ n \in Nat /\ Len(found) \in Nat
        /\ IsSequence(conf_entries')
        /\ DOMAIN scanned' = 1 .. n + Len(found)
        /\ \A i \in 1 .. Len(found) : scanned'[n + i] = found[i]
        /\ \A i \in 1 .. n + Len(found) : IsScanned(i)' <=> n < i
  BY ScanAppends
<1> HIDE DEF n
<1>2. ASSUME NEW i \in DOMAIN scanned' PROVE scanned'[i] \in Found \cup {NoDevice}
  <2>1. CASE n < i
    <3>1. i - n \in 1 .. Len(found) /\ i = n + (i - n)
      BY <1>1, <2>1
    <3>2. scanned'[i] = found[i - n] /\ found[i - n] \in Found
      BY <1>1, <3>1
    <3> QED
      BY <3>2
  <2>2. CASE ~(n < i)
    BY <1>1, <2>2 DEF IsScanned
  <2> QED
    BY <2>1, <2>2
<1> QED
  BY <1>1, <1>2, ParseKeepsLostInv

LEMMA TakeLineKeepsLostInv ==
    ASSUME Inv, Inv', LostInv, pc = "parse", UNCHANGED regVars, NEW l, NEW p, TakeLine(l, p)
    PROVE  LostInv'
<1>1. CASE p.ok /\ IsScan(l)
  <2>1. MakeConfigEntries(p.cfg, p.types) /\ Parsed
    BY <1>1 DEF TakeLine, IsDefault, IsScan
  <2>2. pc' # "running"
    BY <2>1 DEF Parsed
  <2> QED
    BY <2>1, <2>2, ScanKeepsLostInv
<1>2. CASE ~(p.ok /\ IsScan(l))
  <2>1. UNCHANGED scanned /\ pc' # "running"
    BY <1>2 DEF TakeLine
  <2>2. scanned' = << >> /\ IsSequence(conf_entries')
    BY <2>1 DEF Inv, Phases, Sequences_Inv
  <2> QED
    BY <2>1, <2>2, ParseKeepsLostInv
<1> QED
  BY <1>1, <1>2

\* What has been dealt with remains so.
LEMMA HandledRemains ==
    ASSUME UNCHANGED << conf_entries, scanned >>, absent \subseteq absent',
           ToSet(configs) \subseteq ToSet(configs'), NEW i, Handled(i)
    PROVE  Handled(i)'
<1>1. \A k : IsScanned(k)' <=> IsScanned(k)
  BY DEF IsScanned
<1>2. DiskOf(i)' = DiskOf(i)
  BY <1>1 DEF DiskOf, Unique
<1>3. \A k, cfg : NamedBy(k, cfg)' <=> NamedBy(k, cfg)
  BY DEF NamedBy
<1>4. conf_entries' = conf_entries
  OBVIOUS
<1> QED
  BY <1>1, <1>2, <1>3, <1>4, Zenon DEF Handled, SameDevice

\* One entry has been dealt with.
LEMMA NextEntryHandled ==
    ASSUME Inv, LostInv, AtEntry, NextEntry, absent \subseteq absent',
           ToSet(configs) \subseteq ToSet(configs'), NEW e, e = entry, Handled(e)'
    PROVE  AllHandled'
<1>1. /\ UNCHANGED << conf_entries, scanned >> /\ pc' # "running"
      /\ entry' = entry + 1 /\ entry \in Nat
  BY DEF Inv, Sequences_Inv, AtEntry, NextEntry
<1>2. ASSUME NEW i \in DOMAIN conf_entries, i < entry' PROVE Handled(i)'
  <2>1. CASE i = e
    BY <2>1
  <2>2. CASE i # e
    <3>1. i \in Nat
      BY DEF Inv, Sequences_Inv, IsSequence
    <3>2. i < entry
      BY <1>1, <1>2, <2>2, <3>1
    <3>3. Handled(i)
      BY <3>2 DEF LostInv, AllHandled
    <3> QED
      BY <1>1, <3>3, HandledRemains
  <2> QED
    BY <2>1, <2>2
<1> QED
  BY <1>1, <1>2, Zenon DEF AllHandled

\* The only name that may be new is the one of the entry.
LEMMA NamesStayFrom ==
    ASSUME LostInv, AtEntry, NextEntry, entry \in DOMAIN conf_entries,
           \/ prev_unique_names' = prev_unique_names
           \/ /\ prev_unique_names' = prev_unique_names \cup {Unique(conf_entries[entry])}
              /\ ~IsScanned(entry) \/ conf_entries[entry].ignore
    PROVE  NamesFrom'
<1>1. conf_entries' = conf_entries /\ scanned' = scanned /\ pc' = "register"
  BY DEF AtEntry, NextEntry
<1>2. \A k : IsScanned(k)' <=> IsScanned(k)
  BY <1>1 DEF IsScanned
<1>3. \A c : Unique(c)' = Unique(c)
  BY DEF Unique
<1>4. ASSUME NEW u \in prev_unique_names'
      PROVE  \E k \in DOMAIN conf_entries :
                 u = Unique(conf_entries[k]) /\ (~IsScanned(k) \/ conf_entries[k].ignore)
  BY Zenon, <1>4 DEF LostInv, NamesFrom
<1>5. pc' # "parse"
  BY <1>1
<1> QED
  BY <1>1, <1>2, <1>3, <1>4, <1>5, Zenon DEF NamesFrom

\* A device of the scan is a disk.
LEMMA ScannedIsDisk ==
    ASSUME Inv, LostInv, NEW i, IsScanned(i)
    PROVE  DiskOf(i) \in Disks
<1>1. scanned[i] \in Found /\ DiskOf(i) = Disk(scanned[i].name, scanned[i].type)
  BY DEF LostInv, DisksReal, IsScanned, DiskOf
<1>2. scanned[i].name \in Names
  BY <1>1 DEF Found
<1>3. Target[scanned[i].name] \in {Target[n] : n \in Names}
  BY <1>2
<1>4. (IF scanned[i].type \in RaidTypes THEN scanned[i].type ELSE "") \in RaidTypes \cup {""}
  OBVIOUS
<1>5. DiskOf(i) = [name |-> Target[scanned[i].name],
                   raid |-> IF scanned[i].type \in RaidTypes THEN scanned[i].type ELSE ""]
  BY <1>1 DEF Disk
<1> DEFINE name == Target[scanned[i].name]
           raid == IF scanned[i].type \in RaidTypes THEN scanned[i].type ELSE ""
<1>6. name \in {Target[n] : n \in Names} /\ raid \in RaidTypes \cup {""}
      /\ DiskOf(i) = [name |-> name, raid |-> raid]
  BY <1>3, <1>4, <1>5
<1> DEFINE A == {Target[n] : n \in Names}
           B == RaidTypes \cup {""}
<1>7. name \in A /\ raid \in B /\ Disks = [name: A, raid: B]
  BY <1>6, Zenon DEF Disks
<1> HIDE DEF name, raid, A, B
<1>8. [name |-> name, raid |-> raid] \in [name: A, raid: B]
  BY ONLY <1>7
<1> QED
  BY <1>6, <1>7, <1>8, Zenon

\* is_duplicate_dev_idinfo() finds only those that say they are the same device.
LEMMA DuplicateIsSame ==
    ASSUME NEW d \in Disks, NEW e \in Disks, SameIdentity(d, e)
    PROVE  SameDevice(d, e)
<1> DEFINE a == Identities[d]
           b == Identities[e]
<1>1. a.unique /\ b.unique
  BY DEF SameIdentity
<1>2. a.info = b.info
  BY DEF SameIdentity, Info, InfoBc
<1>3. a.single = b.single
  BY <1>1, <1>2, ControllerAssumption, Zenon
<1>4. a.ns = b.ns \/ (a.single /\ b.ns = 0) \/ (b.single /\ a.ns = 0)
  BY DEF SameIdentity, Info, InfoBc, HasBc
<1>5. a.ns = b.ns \/ (a.single /\ b.single /\ 0 \in {a.ns, b.ns})
  <2> HIDE DEF a, b
  <2>1. CASE a.ns = b.ns
    BY <2>1, Zenon
  <2>2. CASE a.single /\ b.ns = 0
    <3>1. a.single /\ b.single
      BY <1>3, <2>2, Zenon
    <3> QED
      BY <2>2, <3>1, Zenon
  <2>3. CASE b.single /\ a.ns = 0
    <3>1. a.single /\ b.single
      BY <1>3, <2>3, Zenon
    <3> QED
      BY <2>3, <3>1, Zenon
  <2> QED
    BY <1>4, <2>1, <2>2, <2>3
<1> QED
  BY <1>1, <1>2, <1>5, Zenon DEF SameDevice

LEMMA RegisterKeepsLostInv ==
    ASSUME Inv, LinesInv, LostInv, Ignore \/ SkipNamed \/ RegisterDevice \/ RegisterFails
    PROVE  LostInv'
<1>1. AtEntry /\ NextEntry
  BY DEF Ignore, SkipNamed, RegisterDevice, RegisterFails, ToRegister
<1>2. /\ conf_entries' = conf_entries /\ scanned' = scanned /\ plugged' = plugged
      /\ IsSequence(configs) /\ entry \in DOMAIN conf_entries
  BY <1>1 DEF NextEntry, AtEntry, Inv, Sequences_Inv, IsSequence
<1>3. PICK e \in DOMAIN conf_entries : e = entry
  BY <1>2
<1>4. /\ IsScanned(e)' <=> IsScanned(e)
      /\ IsScanned(e) <=> IsScanned(entry)
  BY <1>2, <1>3 DEF IsScanned
<1>5. CASE Ignore
  <2>1. /\ conf_entries[entry].ignore /\ UNCHANGED << configs, absent >>
        /\ prev_unique_names' = prev_unique_names \cup {Unique(conf_entries[entry])}
    BY <1>5 DEF Ignore
  <2>2. conf_entries'[e].ignore
    BY <1>2, <1>3, <2>1
  <2>3. Handled(e)'
    BY <2>2, Zenon DEF Handled
  <2>4. AllHandled'
    BY <1>1, <1>3, <2>1, <2>3, NextEntryHandled
  <2>5. NamesFrom'
    BY <1>1, <1>2, <2>1, NamesStayFrom
  <2>6. DisksReal'
    BY <1>2, <2>1 DEF LostInv, DisksReal
  <2> QED
    BY <2>4, <2>5, <2>6 DEF LostInv
<1>6. CASE SkipNamed
  <2>1. /\ ~conf_entries[entry].ignore /\ IsScanned(entry)
        /\ Unique(conf_entries[entry]) \in prev_unique_names
        /\ UNCHANGED << prev_unique_names, configs, absent >>
    BY <1>6 DEF SkipNamed
  <2>2. PICK k \in DOMAIN conf_entries :
           /\ Unique(conf_entries[entry]) = Unique(conf_entries[k])
           /\ ~IsScanned(k) \/ conf_entries[k].ignore
    BY <2>1, Zenon DEF LostInv, NamesFrom
  <2>3. ~IsScanned(k)
    <3>1. IsScanned(k) => conf_entries[entry].ignore = conf_entries[k].ignore
      BY <1>2, <2>1, Zenon DEF LinesInv, ScannedAgree
    <3> QED
      BY <2>1, <2>2, <3>1, Zenon
  <2>4. NamedBy(k, conf_entries[e])'
    BY <1>2, <1>3, <2>2 DEF NamedBy, Unique
  <2>5. ~IsScanned(k)' /\ k \in DOMAIN conf_entries'
    BY <1>2, <2>3 DEF IsScanned
  <2>6. Handled(e)'
    BY <1>2, <1>4, <2>1, <2>4, <2>5, Zenon DEF Handled
  <2>7. AllHandled'
    BY <1>1, <1>3, <2>1, <2>6, NextEntryHandled
  <2>8. NamesFrom'
    BY <1>1, <1>2, <2>1, NamesStayFrom
  <2>9. DisksReal'
    BY <1>2, <2>1 DEF LostInv, DisksReal
  <2> QED
    BY <2>7, <2>8, <2>9 DEF LostInv
<1>7. (prev_unique_names' = IF IsScanned(entry) THEN prev_unique_names
                            ELSE prev_unique_names \cup {Unique(conf_entries[entry])})
          => NamesFrom'
  <2>1. CASE IsScanned(entry)
    BY <1>1, <1>2, <2>1, NamesStayFrom
  <2>2. CASE ~IsScanned(entry)
    BY <1>1, <1>2, <2>2, NamesStayFrom
  <2> QED
    BY <2>1, <2>2
<1>8. CASE RegisterDevice
  <2> DEFINE c == [cfg |-> conf_entries[entry], disk |-> DiskOf(entry),
                   scanned |-> IsScanned(entry)]
  <2>1. /\ configs' = Append(configs, c) /\ absent' = absent
        /\ DiskOf(entry) \in plugged
        /\ prev_unique_names' = IF IsScanned(entry) THEN prev_unique_names
                                ELSE prev_unique_names \cup {Unique(conf_entries[entry])}
    BY <1>8 DEF RegisterDevice
  <2>2. c.cfg = conf_entries[entry] /\ c.disk = DiskOf(entry)
    OBVIOUS
  <2> HIDE DEF c
  <2>3. /\ DOMAIN configs' = 1 .. Len(configs) + 1 /\ Len(configs) \in Nat
        /\ DOMAIN configs = 1 .. Len(configs)
        /\ \A i \in 1 .. Len(configs) : configs'[i] = configs[i]
        /\ configs'[Len(configs) + 1] = c
    BY <1>2, <2>1, AppendSequence DEF IsSequence
  <2>4. c \in ToSet(configs') /\ ToSet(configs) \subseteq ToSet(configs')
    BY <2>3 DEF ToSet
  <2>5. Handled(e)'
    <3>1. c.cfg = conf_entries'[e]
      BY <1>2, <1>3, <2>2
    <3> QED
      BY <2>4, <3>1, Zenon DEF Handled
  <2>6. AllHandled'
    BY <1>1, <1>3, <2>1, <2>4, <2>5, NextEntryHandled
  <2>7. DisksReal'
    <3>1. \A j \in DOMAIN configs' : configs'[j].disk \in RealDisks
      BY <2>1, <2>2, <2>3 DEF LostInv, DisksReal
    <3> QED
      BY <1>2, <3>1 DEF LostInv, DisksReal
  <2> QED
    BY <1>7, <2>1, <2>6, <2>7 DEF LostInv
<1>9. CASE RegisterFails
  <2>1. /\ IsScanned(entry) \/ conf_entries[entry].removable \/ Never
        /\ prev_unique_names' = IF IsScanned(entry) THEN prev_unique_names
                                ELSE prev_unique_names \cup {Unique(conf_entries[entry])}
        /\ absent' = IF IsDuplicate(entry) THEN absent ELSE absent \cup {entry}
        /\ configs' = configs
    BY <1>9 DEF RegisterFails, Mandatory, NamesAfterFailure
  <2>2. Handled(e)'
    <3>1. CASE ~IsDuplicate(entry)
      <4>1. e \in absent'
        BY <1>3, <2>1, <3>1
      <4>2. conf_entries'[e] = conf_entries[entry]
        BY <1>2, <1>3
      <4> QED
        BY <1>4, <2>1, <4>1, <4>2, Zenon DEF Handled
    <3>2. CASE IsDuplicate(entry)
      <4>1. PICK c \in ToSet(configs) : IsScanned(e) /\ SameIdentity(DiskOf(e), c.disk)
        BY <1>3, <3>2 DEF IsDuplicate
      <4>2. c.disk \in Disks
        <5>1. c.disk \in RealDisks
          BY DEF ToSet, LostInv, DisksReal
        <5> QED
          BY <5>1, DisksAssumption
      <4>3. SameDevice(DiskOf(e), c.disk)
        BY <4>1, <4>2, ScannedIsDisk, DuplicateIsSame
      <4>4. DiskOf(e)' = DiskOf(e)
        BY <1>2, <1>4 DEF DiskOf, Unique
      <4>5. SameDevice(DiskOf(e), c.disk)'
        BY <4>3, <4>4 DEF SameDevice
      <4>6. c \in ToSet(configs')
        BY <2>1
      <4> QED
        BY <1>4, <4>1, <4>5, <4>6, Zenon DEF Handled
    <3> QED
      BY <3>1, <3>2
  <2>3. absent \subseteq absent' /\ ToSet(configs) \subseteq ToSet(configs')
    BY <2>1
  <2>4. AllHandled'
    BY <1>1, <1>3, <2>2, <2>3, NextEntryHandled
  <2>5. DisksReal'
    BY <1>2, <2>1 DEF LostInv, DisksReal
  <2> QED
    BY <1>7, <2>1, <2>4, <2>5 DEF LostInv
<1> QED
  BY <1>5, <1>6, <1>8, <1>9

LEMMA NextLostInv ==
    ASSUME Inv, Inv', LinesInv, LostInv, [Next]_vars
    PROVE  LostInv'
<1>1. CASE ReadBlankLine \/ EndOfFile
  <2>1. /\ pc = "parse" /\ UNCHANGED << conf_entries, scanned, regVars >> /\ pc' # "running"
    BY <1>1 DEF ReadBlankLine, EndOfFile, MayRead, Parsed
  <2>2. scanned' = << >> /\ IsSequence(conf_entries')
    BY <2>1 DEF Inv, Phases, Sequences_Inv
  <2> QED
    BY <2>1, <2>2, ParseKeepsLostInv
<1>2. CASE ReadLine \/ ReadContinuedLine
  <2>1. pc = "parse" /\ UNCHANGED regVars /\ \E l, p : TakeLine(l, p)
    BY <1>2 DEF ReadLine, ReadContinuedLine, MayRead
  <2> QED
    BY <2>1, TakeLineKeepsLostInv
<1>3. CASE NoFile
  <2>1. pc' # "running"
    BY <1>3 DEF NoFile, Parsed
  <2> QED
    BY <1>3, <2>1, ScanKeepsLostInv DEF NoFile
<1>4. CASE Ignore \/ SkipNamed \/ RegisterDevice \/ RegisterFails
  BY <1>4, RegisterKeepsLostInv
<1>5. CASE DiskChanges \/ RegisterMandatoryFails \/ Registered \/ UNCHANGED vars
  <2>1. /\ UNCHANGED << conf_entries, scanned, entry, prev_unique_names, configs >>
        /\ absent \subseteq absent' /\ ToSet(configs) \subseteq ToSet(configs')
    BY <1>5 DEF DiskChanges, RegisterMandatoryFails, Registered, vars, regVars
  <2>2. /\ pc' = "running" => pc = "running" \/ entry > Len(conf_entries)
        /\ pc' = "parse" => pc = "parse"
    BY <1>5 DEF DiskChanges, RegisterMandatoryFails, Registered, vars
  <2>3. ASSUME NEW i \in DOMAIN conf_entries, i < entry PROVE Handled(i)'
    <3>1. Handled(i)
      BY <2>3, Zenon DEF LostInv, AllHandled
    <3> QED
      BY <2>1, <3>1, HandledRemains
  <2>4. AllHandled'
    <3>1. pc' = "running" => entry' > Len(conf_entries')
      BY <2>1, <2>2 DEF LostInv, AllHandled
    <3>2. conf_entries' = conf_entries /\ entry' = entry
      BY <2>1
    <3> QED
      BY <2>3, <3>1, <3>2, Zenon DEF AllHandled
  <2>5. NamesFrom'
    <3>1. /\ conf_entries' = conf_entries /\ prev_unique_names' = prev_unique_names
          /\ \A k : IsScanned(k)' <=> IsScanned(k)
      BY <2>1 DEF IsScanned
    <3>2. \A c : Unique(c)' = Unique(c)
      BY DEF Unique
    <3> QED
      BY <2>2, <3>1, <3>2, Zenon DEF LostInv, NamesFrom
  <2>6. plugged' \subseteq RealDisks
    BY <1>5 DEF LostInv, DisksReal, DiskChanges, RegisterMandatoryFails, Registered, vars, regVars
  <2>7. DisksReal'
    BY <2>1, <2>6 DEF LostInv, DisksReal
  <2> QED
    BY <2>4, <2>5, <2>7 DEF LostInv
<1> QED
  BY <1>1, <1>2, <1>3, <1>4, <1>5 DEF Next

\* When smartd runs all entries have been dealt with.
LEMMA LostInvSuffices ==
    ASSUME Inv, LostInv
    PROVE  NothingLost
<1> SUFFICES ASSUME pc = "running", NEW i \in DOMAIN conf_entries PROVE Handled(i)
  BY Zenon DEF NothingLost, Handled
<1>1. i < entry
  BY DEF LostInv, AllHandled, Inv, Sequences_Inv, IsSequence
<1> QED
  BY <1>1, Zenon DEF LostInv, AllHandled

-----------------------------------------------------------------------------
(***************************************************************************)
(* The theorems.                                                           *)
(***************************************************************************)
THEOREM AlwaysInv == Spec => []Inv
<1>1. Init => Inv
  BY InitInv
<1>2. Inv /\ [Next]_vars => Inv'
  BY NextInv
<1> QED
  BY <1>1, <1>2, PTL DEF Spec

\* Whatever the file says and whenever disks come and go, register_devices() adds no disk
\* from the scan that is the disk of a line, unless that disk is told by a type which the
\* scanned entry has not kept (MakeConfigEntries()).
THEOREM NamedAreNotScanned == Spec => []NamedNotScanned
<1>1. Init => Inv /\ LinesInv /\ NamedInv
  BY InitInv, InitLinesInv, InitNamedInv
<1>2. Inv /\ LinesInv /\ NamedInv /\ [Next]_vars => (Inv /\ LinesInv /\ NamedInv)'
  BY NextInv, NextLinesInv, NextNamedInv
<1> QED
  BY <1>1, <1>2, NamedInvSuffices, PTL DEF Spec

\* No device of the scan is monitored if one with its identity is monitored already,
\* whatever the identities are.
THEOREM NoDeviceTwice == Spec => []NoneTwice
<1>1. Inv => NoneTwice
  BY DEF Inv
<1> QED
  BY <1>1, AlwaysInv, PTL

\* Every entry has the settings its line and the DEFAULT before it ask for, and a scan
\* looks for the types of its own line (ParseConfigFile(), ParseConfigLine(), ParseToken()).
THEOREM EntriesAreAsWritten == Spec => []LinesAsWritten
<1>1. Init => Inv /\ LinesInv
  BY InitInv, InitLinesInv
<1>2. Inv /\ LinesInv /\ [Next]_vars => (Inv /\ LinesInv)'
  BY NextInv, NextLinesInv
<1> QED
  BY <1>1, <1>2, LinesInvSuffices, PTL DEF Spec

\* Once smartd runs, every entry of the file is monitored, ignored, or absent and need
\* not be there; and every disk of the scan is monitored, absent, named by a line, or the
\* same as one that is monitored (register_devices()).
THEOREM NoEntryIsLost == Spec => []NothingLost
<1>1. Init => Inv /\ LinesInv /\ LostInv
  BY InitInv, InitLinesInv, InitLostInv
<1>2. Inv /\ LinesInv /\ LostInv /\ [Next]_vars => (Inv /\ LinesInv /\ LostInv)'
  BY NextInv, NextLinesInv, NextLostInv
<1>3. Inv /\ LostInv => NothingLost
  BY LostInvSuffices
<1> QED
  BY <1>1, <1>2, <1>3, PTL DEF Spec
=============================================================================
