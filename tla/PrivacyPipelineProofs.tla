-------------------------- MODULE PrivacyPipelineProofs --------------------------
(***************************************************************************)
(* TLAPS proofs about PrivacyPipeline, for any agents and topics, any      *)
(* thresholds, ceilings, windows and lifetimes.  The four engines keep     *)
(* state of their own, so the invariant has a part for each of them:       *)
(* accesses come in pairs, only the newest fragment is usable, a topic has *)
(* one active persona, and what a budget window has let through is what    *)
(* its budget has spent.                                                   *)
(***************************************************************************)
EXTENDS PrivacyPipeline, FiniteSetTheorems, SequenceTheorems, TLAPS

-----------------------------------------------------------------------------
(* Accesses. *)

\* Counted from the latest, the accesses are two and two at the same instant.
Paired(s) ==
  \A k \in Nat : 2 * k + 1 < Len(s) => s[Len(s) - 2 * k] = s[Len(s) - 2 * k - 1]

\* The next request is refused, whenever it comes.
Hot(s) == Len(s) = AccessLimit \/ PatternScore * Patterns(s) >= CriticalScore

AccessesOK(s) == s \in Seq(Nat) /\ Len(s) <= AccessLimit /\ Paired(s)

(* Identity fragments. *)

FragmentRecord ==
  [active : BOOLEAN, expiresAt : Nat, requests : 0 .. MaxRequestsPerFragment]

\* No fragment before the last is usable.
NewestOnly(fs) ==
  /\ fs \in Seq(FragmentRecord)
  /\ \A i \in 1 .. Len(fs) - 1 : i \notin Usable(fs)

\* The searches bound to a fragment.
BoundTo(b, f) == {i \in DOMAIN b : b[i] = f}

\* A fragment serves the searches it counts, and one more: the one for which it
\* was created, unless that one was counted on it.
BindingsOK(fs, b) ==
  /\ b \in Seq(Nat)
  /\ \A i \in 1 .. Len(b) : b[i] \in 1 .. Len(fs)
  /\ \A i \in 2 .. Len(b) : b[i - 1] <= b[i]
  /\ \A f \in 1 .. Len(fs) :
       /\ Cardinality(BoundTo(b, f)) <= fs[f].requests + 1
       /\ Cardinality(BoundTo(b, f)) <= MaxRequestsPerFragment

(* Personas. *)

PersonaRecord(fs) ==
  [topic : Topics, active : BOOLEAN, searches : 1 .. MaxSearches,
   fragments : SUBSET (1 .. Len(fs))]

PersonasOK(ps, fs) ==
  /\ ps \in Seq(PersonaRecord(fs))
  /\ \A i, j \in 1 .. Len(ps) :
       ps[i].active /\ ps[j].active /\ ps[i].topic = ps[j].topic => i = j

(* Budgets. *)

\* The searches let through from one instant up to another.
Through(u, from, to) == {i \in DOMAIN u : u[i] >= from /\ u[i] < to}

BudgetRecord == [remaining : 0 .. MaxRequestsPerWindow, resetsAt : Nat]

\* Everything let through belongs to the current window or to one before it; the
\* current one has spent what it let through, the last before it no more than one
\* budget, and no stretch holds more than two.
BudgetOK(b, u) ==
  /\ \A i \in 1 .. Len(u) : u[i] <= now /\ u[i] < b.resetsAt
  /\ Cardinality(Through(u, b.resetsAt - BudgetWindow, b.resetsAt))
       <= MaxRequestsPerWindow - b.remaining
  /\ Cardinality(Through(u, b.resetsAt - 2 * BudgetWindow, b.resetsAt - BudgetWindow))
       <= MaxRequestsPerWindow
  /\ b.resetsAt <= now + BudgetWindow
  /\ \A start \in Nat :
       Cardinality(Through(u, start, start + BudgetWindow)) <= 2 * MaxRequestsPerWindow

(* All of it. *)

Answers == [behaviour : {"none", "deny", "allow", "delay", "rotate_fragment"},
            temporal : {"none", "allow", "delay", "cooldown", "temporary_block"},
            persona : {"none", "allow", "rotate_fragment"}]

Shapes ==
  /\ now \in Nat /\ served \in Nat
  /\ DOMAIN accesses = Agents /\ DOMAIN fragments = Agents /\ DOMAIN personas = Agents
  /\ DOMAIN budget = Agents /\ DOMAIN bound = Agents /\ DOMAIN unblocked = Agents
  /\ answer \in [Agents -> Answers]
  /\ executions \in [Agents -> Seq(Nat)]
  /\ \A a \in Agents : Len(executions[a]) <= RecentLimit
  /\ cooldownUntil \in [Agents -> Nat]

\* What the engines keep about an agent.
AgentOK(a) ==
  /\ AccessesOK(accesses[a]) /\ (answer[a].behaviour = "deny" => Hot(accesses[a]))
  /\ NewestOnly(fragments[a]) /\ BindingsOK(fragments[a], bound[a])
  /\ PersonasOK(personas[a], fragments[a])
  /\ budget[a] \in BudgetRecord /\ unblocked[a] \in Seq(Nat)

\* The budget of an agent, where an exhausted budget delays.
Budgeted(a) == ForceDelayOnExhaustion => BudgetOK(budget[a], unblocked[a])

PrivacyInv == Shapes /\ \A a \in Agents : AgentOK(a) /\ Budgeted(a)
-----------------------------------------------------------------------------
(* Sequences and numbers. *)

\* The constants, one by one.
LEMMA Constants ==
  /\ BurstGap \in Nat /\ BurstGap >= 1 /\ FragmentTtl \in Nat /\ FragmentTtl >= 1
  /\ BudgetWindow \in Nat /\ BudgetWindow >= 1
  /\ MaxRequestsPerFragment \in Nat /\ MaxRequestsPerFragment >= 1
  /\ MaxRequestsPerWindow \in Nat /\ MaxRequestsPerWindow >= 1
  /\ AccessLimit \in Nat /\ PatternScore \in Nat /\ CriticalScore \in Nat
  /\ RecentLimit \in Nat /\ Cooldown \in Nat /\ BurstWindow \in Nat
  /\ MaxSearches \in Nat /\ MaxSearches >= 1
<1>1. /\ BurstGap \in Nat \ {0} /\ FragmentTtl \in Nat \ {0} /\ BudgetWindow \in Nat \ {0}
      /\ MaxRequestsPerFragment \in Nat \ {0} /\ MaxRequestsPerWindow \in Nat \ {0}
      /\ BurstWindow \in Nat \ {0}
  BY PrivacyAssumption
<1>2. /\ AccessLimit \in Nat /\ PatternScore \in Nat /\ CriticalScore \in Nat
      /\ RecentLimit \in Nat /\ Cooldown \in Nat
  BY PrivacyAssumption
<1>3. MaxSearches \in Nat \ {0}
  BY EnginesAssumption
<1>. QED BY ONLY <1>1, <1>2, <1>3

\* The larger and the smallest of a set, where the set is at hand.
LEMMA MaxOfTwo ==
  ASSUME NEW n \in Int
  PROVE  Max({0, n}) = IF n > 0 THEN n ELSE 0
BY DEF Max

\* See MaxOfTwo.
LEMMA MinOfOne ==
  ASSUME NEW n \in Int
  PROVE  Min({n}) = n
BY DEF Min

\* Latest keeps the end of a sequence, which is read from there.
LEMMA LatestFacts ==
  ASSUME NEW s \in Seq(Nat), NEW n \in Nat
  PROVE  /\ Latest(s, n) \in Seq(Nat)
         /\ Len(Latest(s, n)) = IF Len(s) <= n THEN Len(s) ELSE n
         /\ \A j \in Nat : j < Len(Latest(s, n)) =>
              Latest(s, n)[Len(Latest(s, n)) - j] = s[Len(s) - j]
<1>. DEFINE m == Len(s) - n + 1
<1>1. Len(s) \in Nat /\ \A i \in 1 .. Len(s) : s[i] \in Nat
  OBVIOUS
<1>2. CASE Len(s) <= n
  BY <1>2 DEF Latest
<1>3. CASE ~(Len(s) <= n)
  <2>1. Latest(s, n) = SubSeq(s, m, Len(s))
    BY <1>3 DEF Latest
  <2>2. m \in Int /\ m >= 1 /\ Len(s) - m + 1 = n /\ (m <= Len(s) <=> n > 0)
    BY <1>1, <1>3
  <2>. HIDE DEF m
  <2>3. /\ SubSeq(s, m, Len(s)) \in Seq(Nat)
        /\ Len(SubSeq(s, m, Len(s))) = IF m <= Len(s) THEN Len(s) - m + 1 ELSE 0
        /\ \A i \in 1 .. Len(s) - m + 1 : SubSeq(s, m, Len(s))[i] = s[m + i - 1]
    <3>1. \A i \in m .. Len(s) : s[i] \in Nat
      BY <1>1, <2>2
    <3>. QED BY <1>1, <2>2, <3>1, SubSeqProperties
  <2>4. Len(SubSeq(s, m, Len(s))) = n
    BY <1>1, <2>2, <2>3
  <2>5. \A j \in Nat : j < n => SubSeq(s, m, Len(s))[n - j] = s[Len(s) - j]
    <3>1. ASSUME NEW j \in Nat, j < n
          PROVE  n - j \in 1 .. Len(s) - m + 1 /\ m + (n - j) - 1 = Len(s) - j
      BY <1>1, <2>2, <3>1
    <3>. QED BY <2>3, <3>1
  <2>. QED BY ONLY <1>3, <2>1, <2>3, <2>4, <2>5
<1>. QED BY <1>2, <1>3

-----------------------------------------------------------------------------
(* Accesses. *)

\* One more access, read from the latest.
LEMMA RecordAccessFacts ==
  ASSUME NEW s \in Seq(Nat), Len(s) <= AccessLimit, now \in Nat
  PROVE  /\ RecordAccess(s) \in Seq(Nat)
         /\ Len(RecordAccess(s)) = IF Len(s) < AccessLimit THEN Len(s) + 1 ELSE AccessLimit
         /\ Len(RecordAccess(s)) > 0 => RecordAccess(s)[Len(RecordAccess(s))] = now
         /\ \A i, j \in Nat : i = j + 1 /\ i < Len(RecordAccess(s)) =>
              RecordAccess(s)[Len(RecordAccess(s)) - i] = s[Len(s) - j]
<1>. DEFINE t == Append(s, now)
            r == Latest(t, AccessLimit)
<1>1. /\ t \in Seq(Nat) /\ Len(t) = Len(s) + 1 /\ t[Len(t)] = now
      /\ \A i \in 1 .. Len(s) : t[i] = s[i]
      /\ Len(s) \in Nat /\ AccessLimit \in Nat
  BY Constants
<1>. HIDE DEF t
<1>2. /\ r \in Seq(Nat) /\ Len(r) = IF Len(t) <= AccessLimit THEN Len(t) ELSE AccessLimit
      /\ \A j \in Nat : j < Len(r) => r[Len(r) - j] = t[Len(t) - j]
  BY <1>1, LatestFacts
<1>3. RecordAccess(s) = r
  BY DEF RecordAccess, t
<1>. HIDE DEF r
<1>4. Len(r) = IF Len(s) < AccessLimit THEN Len(s) + 1 ELSE AccessLimit
  BY <1>1, <1>2
<1>5. Len(r) > 0 => r[Len(r)] = now
  BY <1>1, <1>2
<1>6. ASSUME NEW i \in Nat, NEW j \in Nat, i = j + 1, i < Len(r)
      PROVE  r[Len(r) - i] = s[Len(s) - j]
  <2>1. r[Len(r) - i] = t[Len(t) - i]
    BY <1>2, <1>6
  <2>2. Len(s) - j \in 1 .. Len(s) /\ Len(t) - i = Len(s) - j
    BY <1>1, <1>4, <1>6
  <2>. QED BY <1>1, <2>1, <2>2
<1>. QED BY <1>2, <1>3, <1>4, <1>5, <1>6

\* A request counts as two accesses, so the accesses stay paired.
LEMMA ObservedFacts ==
  ASSUME NEW s, AccessesOK(s), now \in Nat
  PROVE  AccessesOK(RecordAccess(RecordAccess(s)))
<1>. DEFINE r == RecordAccess(s)
            o == RecordAccess(r)
<1>1. /\ s \in Seq(Nat) /\ Len(s) \in Nat /\ Len(s) <= AccessLimit /\ AccessLimit \in Nat
      /\ Paired(s)
  BY Constants DEF AccessesOK
<1>2. /\ r \in Seq(Nat) /\ Len(r) = IF Len(s) < AccessLimit THEN Len(s) + 1 ELSE AccessLimit
      /\ Len(r) > 0 => r[Len(r)] = now
      /\ \A i, j \in Nat : i = j + 1 /\ i < Len(r) => r[Len(r) - i] = s[Len(s) - j]
  BY <1>1, RecordAccessFacts
<1>. HIDE DEF r
<1>3. Len(r) \in Nat /\ Len(r) <= AccessLimit
  BY <1>1, <1>2
<1>4. /\ o \in Seq(Nat) /\ Len(o) = IF Len(r) < AccessLimit THEN Len(r) + 1 ELSE AccessLimit
      /\ Len(o) > 0 => o[Len(o)] = now
      /\ \A i, j \in Nat : i = j + 1 /\ i < Len(o) => o[Len(o) - i] = r[Len(r) - j]
  BY <1>2, <1>3, RecordAccessFacts
<1>. HIDE DEF o
<1>5. Len(o) \in Nat /\ Len(o) <= AccessLimit /\ Len(o) <= Len(r) + 1 /\ Len(r) <= Len(s) + 1
  BY <1>1, <1>2, <1>3, <1>4
<1>6. ASSUME NEW k \in Nat, 2 * k + 1 < Len(o)
      PROVE  o[Len(o) - 2 * k] = o[Len(o) - 2 * k - 1]
  <2>1. CASE k = 0
    <3>1. o[Len(o)] = now /\ o[Len(o) - 1] = r[Len(r)] /\ r[Len(r)] = now
      <4>1. Len(o) > 0 /\ 1 < Len(o) /\ Len(r) > 0
        BY <1>3, <1>4, <1>5, <1>6, <2>1
      <4>2. o[Len(o) - 1] = r[Len(r) - 0]
        BY <1>4, <4>1
      <4>. QED BY <1>2, <1>3, <1>4, <4>1, <4>2
    <3>2. Len(o) - 2 * k = Len(o) /\ Len(o) - 2 * k - 1 = Len(o) - 1
      BY <1>5, <2>1
    <3>. QED BY <3>1, <3>2
  <2>2. CASE k > 0
    <3>1. PICK h \in Nat : k = h + 1
      <4>1. k - 1 \in Nat /\ k = (k - 1) + 1
        BY <2>2
      <4>. QED BY <4>1
    <3>. DEFINE i0 == 2 * h
                i1 == 2 * h + 1
                i2 == 2 * h + 2
                i3 == 2 * h + 3
    <3>2. /\ i0 \in Nat /\ i1 \in Nat /\ i2 \in Nat /\ i3 \in Nat
          /\ i1 = i0 + 1 /\ i2 = i1 + 1 /\ i3 = i2 + 1 /\ 2 * k = i2 /\ 2 * k + 1 = i3
      BY <3>1
    <3>3. s[Len(s) - i0] = s[Len(s) - i0 - 1]
      <4>1. 2 * h + 1 < Len(s)
        BY <1>1, <1>3, <1>5, <1>6, <3>1
      <4>. QED BY <1>1, <4>1 DEF Paired
    <3>. HIDE DEF i0, i1, i2, i3
    <3>4. i1 < Len(s) /\ i2 < Len(r) /\ i3 < Len(o) /\ i2 < Len(o) /\ i1 < Len(r)
      BY <1>1, <1>3, <1>5, <1>6, <3>2
    <3>5. o[Len(o) - i2] = r[Len(r) - i1] /\ o[Len(o) - i3] = r[Len(r) - i2]
      BY <1>4, <3>2, <3>4
    <3>6. r[Len(r) - i1] = s[Len(s) - i0] /\ r[Len(r) - i2] = s[Len(s) - i1]
      BY <1>2, <3>2, <3>4
    <3>7. /\ Len(o) - 2 * k = Len(o) - i2 /\ Len(o) - 2 * k - 1 = Len(o) - i3
          /\ Len(s) - i0 - 1 = Len(s) - i1
      BY <1>1, <1>5, <3>2
    <3>. QED BY <3>3, <3>5, <3>6, <3>7
  <2>. QED BY <2>1, <2>2
<1>7. Paired(o)
  BY <1>6 DEF Paired
<1>. QED BY <1>4, <1>5, <1>7 DEF AccessesOK, o, r

\* The close neighbours of a sequence are finitely many.
LEMMA PatternsFacts ==
  ASSUME NEW s \in Seq(Nat)
  PROVE  /\ IsFiniteSet({i \in 2 .. Len(s) : s[i] - s[i - 1] < BurstGap})
         /\ Patterns(s) \in Nat
<1>. DEFINE T == {i \in 2 .. Len(s) : s[i] - s[i - 1] < BurstGap}
<1>1. IsFiniteSet(2 .. Len(s)) /\ T \subseteq 2 .. Len(s)
  BY FS_Interval
<1>. HIDE DEF T
<1>2. IsFiniteSet(T) /\ Cardinality(T) \in Nat
  BY <1>1, FS_Subset, FS_CardinalityType
<1>. QED BY <1>2 DEF Patterns, T

\* Of paired accesses and one more, every second is a close neighbour.
LEMMA PairsAreClose ==
  ASSUME NEW s, AccessesOK(s), now \in Nat, NEW m \in Nat,
         2 * m + 1 <= Len(RecordAccess(s))
  PROVE  m <= Patterns(RecordAccess(s))
<1>. DEFINE r == RecordAccess(s)
            T == {i \in 2 .. Len(r) : r[i] - r[i - 1] < BurstGap}
            f == [k \in 1 .. m |-> Len(r) - 2 * k + 1]
<1>1. /\ s \in Seq(Nat) /\ Len(s) \in Nat /\ Len(s) <= AccessLimit /\ AccessLimit \in Nat
      /\ Paired(s) /\ BurstGap \in Nat /\ BurstGap >= 1
  BY Constants DEF AccessesOK
<1>2. /\ r \in Seq(Nat) /\ Len(r) = IF Len(s) < AccessLimit THEN Len(s) + 1 ELSE AccessLimit
      /\ \A i, j \in Nat : i = j + 1 /\ i < Len(r) => r[Len(r) - i] = s[Len(s) - j]
  BY <1>1, RecordAccessFacts
<1>3. 2 * m + 1 <= Len(r)
  OBVIOUS
<1>. HIDE DEF r
<1>4. Len(r) \in Nat /\ Len(r) <= Len(s) + 1
  BY <1>1, <1>2
<1>5. ASSUME NEW k \in 1 .. m
      PROVE  Len(r) - 2 * k + 1 \in T
  <2>1. PICK h \in Nat : k = h + 1
    <3>1. k - 1 \in Nat /\ k = (k - 1) + 1
      OBVIOUS
    <3>. QED BY <3>1
  <2>. DEFINE i0 == 2 * h
              i1 == 2 * h + 1
              i2 == 2 * h + 2
  <2>2. /\ i0 \in Nat /\ i1 \in Nat /\ i2 \in Nat /\ i1 = i0 + 1 /\ i2 = i1 + 1
        /\ 2 * k = i2 /\ i2 < Len(r) /\ i1 < Len(r) /\ i1 < Len(s)
    BY <1>1, <1>3, <1>4, <2>1
  <2>3. s[Len(s) - i0] = s[Len(s) - i0 - 1]
    BY <1>1, <2>2 DEF Paired
  <2>. HIDE DEF i0, i1, i2
  <2>4. r[Len(r) - i1] = s[Len(s) - i0] /\ r[Len(r) - i2] = s[Len(s) - i1]
    BY <1>2, <2>2
  <2>5. /\ Len(r) - 2 * k + 1 = Len(r) - i1 /\ Len(r) - 2 * k + 1 - 1 = Len(r) - i2
        /\ Len(s) - i0 - 1 = Len(s) - i1 /\ Len(s) - i0 \in 1 .. Len(s)
        /\ Len(r) - 2 * k + 1 \in 2 .. Len(r)
    <3>1. Len(r) - 2 * k + 1 = Len(r) - i1 /\ Len(r) - 2 * k + 1 - 1 = Len(r) - i2
      BY <1>4, <2>2
    <3>2. Len(s) - i0 - 1 = Len(s) - i1 /\ Len(s) - i0 \in 1 .. Len(s)
      BY <1>1, <2>2
    <3>3. Len(r) - i1 \in 2 .. Len(r)
      BY <1>4, <2>2
    <3>. QED BY <3>1, <3>2, <3>3
  <2>6. s[Len(s) - i0] \in Nat
    BY <1>1, <2>5
  <2>7. r[Len(r) - 2 * k + 1] - r[Len(r) - 2 * k + 1 - 1] < BurstGap
    <3>1. r[Len(r) - i1] = r[Len(r) - i2] /\ r[Len(r) - i1] \in Nat
      BY <2>3, <2>4, <2>5, <2>6
    <3>2. r[Len(r) - i1] - r[Len(r) - i2] < BurstGap
      <4>1. BurstGap \in Nat /\ BurstGap >= 1
        BY <1>1
      <4>. QED BY ONLY <3>1, <4>1
    <3>. QED BY <2>5, <3>2
  <2>. QED BY <2>5, <2>7
<1>6. IsFiniteSet(T) /\ Patterns(r) = Cardinality(T)
  BY <1>2, PatternsFacts DEF Patterns
<1>. HIDE DEF T
<1>7. f \in Injection(1 .. m, T)
  <2>1. f \in [1 .. m -> T]
    BY <1>5
  <2>2. \A k, l \in 1 .. m : f[k] = f[l] => k = l
    BY <1>4
  <2>. QED BY <2>1, <2>2 DEF Injection, IsInjective
<1>. HIDE DEF f
<1>8. Cardinality(1 .. m) <= Cardinality(T) /\ Cardinality(1 .. m) = m
  BY <1>6, <1>7, FS_Injection, FS_Interval
<1>. QED BY <1>6, <1>8 DEF r

\* More patterns, a higher score.
LEMMA ScoreGrows ==
  ASSUME NEW m \in Int, NEW n \in Int, m <= n
  PROVE  PatternScore * m <= PatternScore * n
<1>1. PatternScore \in Nat /\ n - m \in Nat
  BY Constants
<1>2. PatternScore * (n - m) >= 0
  BY <1>1
<1>3. PatternScore * n - PatternScore * m = PatternScore * (n - m)
  BY <1>1
<1>4. PatternScore * n \in Int /\ PatternScore * m \in Int
  BY <1>1
<1>. HIDE DEF Patterns
<1>. QED BY <1>2, <1>3, <1>4

\* While nothing falls out, one more access takes no pattern away.
LEMMA PatternsGrow ==
  ASSUME NEW s \in Seq(Nat), NEW t \in Seq(Nat), Len(s) <= Len(t),
         \A i \in 1 .. Len(s) : t[i] = s[i]
  PROVE  Patterns(s) <= Patterns(t)
<1>. DEFINE S == {i \in 2 .. Len(s) : s[i] - s[i - 1] < BurstGap}
            T == {i \in 2 .. Len(t) : t[i] - t[i - 1] < BurstGap}
<1>1. S \subseteq T
  <2>. SUFFICES ASSUME NEW i \in 2 .. Len(s), s[i] - s[i - 1] < BurstGap PROVE i \in T
    OBVIOUS
  <2>1. i \in 1 .. Len(s) /\ i - 1 \in 1 .. Len(s) /\ i \in 2 .. Len(t)
    OBVIOUS
  <2>2. t[i] = s[i] /\ t[i - 1] = s[i - 1]
    BY <2>1
  <2>. QED BY <2>1, <2>2
<1>2. IsFiniteSet(T) /\ Patterns(s) = Cardinality(S) /\ Patterns(t) = Cardinality(T)
  BY PatternsFacts DEF Patterns
<1>. HIDE DEF S, T
<1>. QED BY <1>1, <1>2, FS_Subset

\* What is critical, in numbers.
LEMMA CriticalIsScore ==
  ASSUME NEW s
  PROVE  /\ CorrelationRisk(s) = "critical" <=> PatternScore * Patterns(s) >= CriticalScore
         /\ CorrelationRisk(s) \in {"low", "medium", "high", "critical"}
BY DEF CorrelationRisk

\* When as many accesses are kept as can be, the next request is refused.
LEMMA FullIsCritical ==
  ASSUME NEW s, AccessesOK(s), now \in Nat, Len(RecordAccess(s)) = AccessLimit
  PROVE  CorrelationRisk(RecordAccess(s)) = "critical"
<1>. DEFINE r == RecordAccess(s)
            m == (AccessLimit - 2) \div 2
<1>1. AccessLimit \in Nat /\ PatternScore \in Nat /\ CriticalScore \in Nat
  BY Constants
<1>2. PatternScore * m >= CriticalScore
  BY PrivacyAssumption
<1>3. m \in Int /\ 2 * m <= AccessLimit - 2
  BY <1>1
<1>4. s \in Seq(Nat) /\ Len(s) <= AccessLimit
  BY DEF AccessesOK
<1>5. r \in Seq(Nat) /\ Patterns(r) \in Nat
  BY <1>4, RecordAccessFacts, PatternsFacts
<1>. HIDE DEF m
<1>6. m <= Patterns(r)
  <2>1. CASE m < 0
    BY <1>3, <1>5, <2>1
  <2>2. CASE m >= 0
    <3>1. m \in Nat /\ 2 * m + 1 <= Len(RecordAccess(s))
      BY <1>1, <1>3, <2>2
    <3>. QED BY <3>1, PairsAreClose
  <2>. QED BY <1>3, <2>1, <2>2
<1>. HIDE DEF r
<1>7. PatternScore * m <= PatternScore * Patterns(r)
  BY <1>3, <1>5, <1>6, ScoreGrows
<1>8. PatternScore * m \in Int /\ PatternScore * Patterns(r) \in Int
  BY <1>1, <1>3, <1>5
<1>9. PatternScore * Patterns(r) >= CriticalScore
  BY ONLY <1>1, <1>2, <1>7, <1>8
<1>. QED BY <1>9, CriticalIsScore DEF r

\* An agent refused once is refused at its next request, whenever that comes.
LEMMA HotIsCritical ==
  ASSUME NEW s, AccessesOK(s), Hot(s), now \in Nat
  PROVE  CorrelationRisk(RecordAccess(s)) = "critical"
<1>. DEFINE r == RecordAccess(s)
<1>1. s \in Seq(Nat) /\ Len(s) \in Nat /\ Len(s) <= AccessLimit /\ AccessLimit \in Nat
  BY Constants DEF AccessesOK
<1>2. /\ r \in Seq(Nat)
      /\ Len(r) = IF Len(s) < AccessLimit THEN Len(s) + 1 ELSE AccessLimit
  BY <1>1, RecordAccessFacts
<1>3. CASE Len(s) = AccessLimit
  <2>1. Len(RecordAccess(s)) = AccessLimit
    BY <1>1, <1>2, <1>3
  <2>. QED BY <2>1, FullIsCritical
<1>4. CASE Len(s) < AccessLimit
  <2>1. r = Append(s, now)
    <3>1. Len(Append(s, now)) = Len(s) + 1
      BY <1>1
    <3>. QED BY <1>1, <1>4, <3>1 DEF RecordAccess, Latest
  <2>2. Len(s) <= Len(r) /\ \A i \in 1 .. Len(s) : r[i] = s[i]
    BY <1>1, <2>1
  <2>3. Patterns(s) <= Patterns(r) /\ Patterns(s) \in Nat /\ Patterns(r) \in Nat
    BY <1>1, <1>2, <2>2, PatternsGrow, PatternsFacts
  <2>. HIDE DEF r
  <2>4. PatternScore * Patterns(s) <= PatternScore * Patterns(r)
    BY <2>3, ScoreGrows
  <2>5. PatternScore * Patterns(s) >= CriticalScore
    BY <1>1, <1>4 DEF Hot
  <2>6. /\ PatternScore * Patterns(s) \in Int /\ PatternScore * Patterns(r) \in Int
        /\ CriticalScore \in Int
    BY <2>3, Constants
  <2>7. PatternScore * Patterns(r) >= CriticalScore
    BY ONLY <2>4, <2>5, <2>6
  <2>. QED BY <2>7, CriticalIsScore DEF r
<1>. QED BY <1>1, <1>3, <1>4

\* A refused request leaves the agent where its next one is refused as well.
LEMMA CriticalStaysHot ==
  ASSUME NEW s, AccessesOK(s), now \in Nat, CorrelationRisk(RecordAccess(s)) = "critical"
  PROVE  Hot(RecordAccess(RecordAccess(s)))
<1>. DEFINE r == RecordAccess(s)
            o == RecordAccess(r)
<1>1. s \in Seq(Nat) /\ Len(s) \in Nat /\ Len(s) <= AccessLimit /\ AccessLimit \in Nat
  BY Constants DEF AccessesOK
<1>2. /\ r \in Seq(Nat) /\ Len(r) \in Nat
      /\ Len(r) = IF Len(s) < AccessLimit THEN Len(s) + 1 ELSE AccessLimit
  BY <1>1, RecordAccessFacts
<1>3. PatternScore * Patterns(r) >= CriticalScore
  BY CriticalIsScore
<1>. HIDE DEF r
<1>4. /\ o \in Seq(Nat)
      /\ Len(o) = IF Len(r) < AccessLimit THEN Len(r) + 1 ELSE AccessLimit
  BY <1>1, <1>2, RecordAccessFacts
<1>5. CASE Len(o) = AccessLimit
  BY <1>5 DEF Hot, o, r
<1>6. CASE Len(o) # AccessLimit
  <2>1. o = Append(r, now) /\ Len(r) < AccessLimit
    <3>1. Len(r) < AccessLimit /\ Len(Append(r, now)) <= AccessLimit
      BY <1>1, <1>2, <1>4, <1>6
    <3>2. Latest(Append(r, now), AccessLimit) = Append(r, now)
      BY <3>1 DEF Latest
    <3>. QED BY <3>1, <3>2 DEF RecordAccess
  <2>2. Len(r) <= Len(o) /\ \A i \in 1 .. Len(r) : o[i] = r[i]
    BY <1>2, <2>1
  <2>. HIDE DEF o
  <2>3. Patterns(r) <= Patterns(o) /\ Patterns(r) \in Nat /\ Patterns(o) \in Nat
    BY <1>2, <1>4, <2>2, PatternsGrow, PatternsFacts
  <2>4. PatternScore * Patterns(r) <= PatternScore * Patterns(o)
    BY <2>3, ScoreGrows
  <2>5. /\ PatternScore * Patterns(r) \in Int /\ PatternScore * Patterns(o) \in Int
        /\ CriticalScore \in Int
    BY <2>3, Constants
  <2>6. PatternScore * Patterns(o) >= CriticalScore
    BY ONLY <1>3, <2>4, <2>5
  <2>. QED BY <2>6 DEF Hot, o, r
<1>. QED BY <1>5, <1>6

-----------------------------------------------------------------------------
(* Identity fragments. *)

\* Usable fragments, one at a time.
LEMMA UsableFacts ==
  ASSUME NEW fs, NEW i
  PROVE  i \in Usable(fs) <=>
           /\ i \in DOMAIN fs /\ fs[i].active /\ fs[i].expiresAt > now
           /\ fs[i].requests < MaxRequestsPerFragment
BY DEF Usable

\* The counter of a fragment.
LEMMA RequestsFacts ==
  ASSUME NEW f \in FragmentRecord
  PROVE  f.requests \in Nat /\ f.requests <= MaxRequestsPerFragment
BY Constants DEF FragmentRecord

\* A new fragment is usable.
LEMMA FragmentFacts ==
  ASSUME now \in Nat
  PROVE  /\ Fragment \in FragmentRecord /\ Fragment.requests = 0 /\ Fragment.active
         /\ Fragment.expiresAt > now
BY Constants DEF Fragment, FragmentRecord

\* Appending a fragment after fragments none of which is usable.
LEMMA AppendFragment ==
  ASSUME now \in Nat, NEW fs \in Seq(FragmentRecord),
         \A i \in 1 .. Len(fs) : i \notin Usable(fs)
  PROVE  /\ NewestOnly(Append(fs, Fragment)) /\ Len(Append(fs, Fragment)) = Len(fs) + 1
         /\ Usable(Append(fs, Fragment)) = {Len(fs) + 1}
         /\ \A i \in 1 .. Len(fs) : Append(fs, Fragment)[i] = fs[i]
         /\ Append(fs, Fragment)[Len(fs) + 1].requests = 0
<1>. DEFINE gs == Append(fs, Fragment)
<1>1. Len(fs) \in Nat /\ DOMAIN fs = 1 .. Len(fs)
  OBVIOUS
<1>2. /\ gs \in Seq(FragmentRecord) /\ Len(gs) = Len(fs) + 1 /\ DOMAIN gs = 1 .. Len(fs) + 1
      /\ gs[Len(fs) + 1] = Fragment /\ \A i \in 1 .. Len(fs) : gs[i] = fs[i]
  BY FragmentFacts
<1>. HIDE DEF gs
<1>3. \A i \in 1 .. Len(fs) : i \notin Usable(gs)
  BY <1>1, <1>2, UsableFacts
<1>4. Len(fs) + 1 \in Usable(gs)
  BY <1>1, <1>2, FragmentFacts, Constants, UsableFacts
<1>5. Usable(gs) \subseteq 1 .. Len(fs) + 1
  BY <1>2, UsableFacts
<1>6. Usable(gs) = {Len(fs) + 1}
  BY <1>1, <1>3, <1>4, <1>5
<1>7. NewestOnly(gs)
  BY <1>1, <1>2, <1>3 DEF NewestOnly
<1>8. gs[Len(fs) + 1].requests = 0
  BY <1>2, FragmentFacts
<1>. QED BY <1>2, <1>6, <1>7, <1>8 DEF gs

\* getActiveFragment returns the newest fragment, created if need be.
LEMMA ActiveFacts ==
  ASSUME now \in Nat, NEW fs, NewestOnly(fs)
  PROVE  /\ NewestOnly(WithActive(fs))
         /\ Len(WithActive(fs)) \in Nat /\ Len(WithActive(fs)) >= 1
         /\ Usable(WithActive(fs)) = {Len(WithActive(fs))}
         /\ ActiveFragment(fs) = Len(WithActive(fs))
         /\ \/ WithActive(fs) = fs
            \/ /\ Len(WithActive(fs)) = Len(fs) + 1
               /\ \A i \in 1 .. Len(fs) : WithActive(fs)[i] = fs[i]
               /\ WithActive(fs)[Len(fs) + 1].requests = 0
<1>. DEFINE gs == WithActive(fs)
<1>1. fs \in Seq(FragmentRecord) /\ Len(fs) \in Nat /\ DOMAIN fs = 1 .. Len(fs)
  BY DEF NewestOnly
<1>2. /\ NewestOnly(gs) /\ Len(gs) \in Nat /\ Len(gs) >= 1 /\ Usable(gs) = {Len(gs)}
      /\ \/ gs = fs
         \/ /\ Len(gs) = Len(fs) + 1 /\ \A i \in 1 .. Len(fs) : gs[i] = fs[i]
            /\ gs[Len(fs) + 1].requests = 0
  <2>1. CASE Usable(fs) = {}
    <3>1. gs = Append(fs, Fragment)
      BY <2>1 DEF WithActive
    <3>2. \A i \in 1 .. Len(fs) : i \notin Usable(fs)
      BY <2>1
    <3>. HIDE DEF gs
    <3>3. /\ NewestOnly(gs) /\ Len(gs) = Len(fs) + 1 /\ Usable(gs) = {Len(fs) + 1}
          /\ \A i \in 1 .. Len(fs) : gs[i] = fs[i]
          /\ gs[Len(fs) + 1].requests = 0
      BY ONLY now \in Nat, <1>1, <3>1, <3>2, AppendFragment
    <3>. QED BY ONLY <1>1, <3>3
  <2>2. CASE Usable(fs) # {}
    <3>1. gs = fs
      BY <2>2 DEF WithActive
    <3>2. Usable(fs) \subseteq 1 .. Len(fs)
      BY <1>1, UsableFacts
    <3>3. Usable(fs) \subseteq {Len(fs)}
      <4>1. ASSUME NEW i \in Usable(fs) PROVE i = Len(fs)
        BY <1>1, <3>2, <4>1 DEF NewestOnly
      <4>. QED BY <4>1
    <3>4. Usable(fs) = {Len(fs)} /\ Len(fs) >= 1
      BY <1>1, <2>2, <3>2, <3>3
    <3>. QED BY <1>1, <3>1, <3>4
  <2>. QED BY <2>1, <2>2
<1>3. ActiveFragment(fs) = Len(gs)
  BY <1>2, MinOfOne DEF ActiveFragment
<1>. HIDE DEF gs
<1>. QED BY <1>2, <1>3 DEF gs

\* How fragments change from fs to gs when a search is bound to fragment g: it is
\* bound to the newest, and that one has either counted it or is new.
Moves(fs, gs, g) ==
  /\ NewestOnly(gs) /\ g = Len(gs) /\ Len(fs) <= Len(gs) /\ g >= 1
  /\ \A i \in 1 .. Len(fs) : gs[i].requests >= fs[i].requests
  /\ g <= Len(fs) => /\ gs[g].requests = fs[g].requests + 1
                     /\ gs[g].requests < MaxRequestsPerFragment

\* A request that rotates the fragment is bound to the new one.
LEMMA RotationMoves ==
  ASSUME now \in Nat, NEW fs, NewestOnly(fs)
  PROVE  Moves(fs, WithActive(RotateFragment(fs)), ActiveFragment(RotateFragment(fs)))
<1>. DEFINE hs == [i \in DOMAIN fs |-> [fs[i] EXCEPT !.active = FALSE]]
            rs == RotateFragment(fs)
<1>1. fs \in Seq(FragmentRecord) /\ Len(fs) \in Nat /\ DOMAIN fs = 1 .. Len(fs)
  BY DEF NewestOnly
<1>2. ASSUME NEW i \in 1 .. Len(fs)
      PROVE  /\ hs[i] \in FragmentRecord /\ ~hs[i].active
             /\ hs[i].requests = fs[i].requests
  <2>1. fs[i] \in FragmentRecord /\ hs[i] = [fs[i] EXCEPT !.active = FALSE]
    BY <1>1
  <2>. HIDE DEF hs
  <2>. QED BY <2>1 DEF FragmentRecord
<1>3. hs \in Seq(FragmentRecord) /\ Len(hs) = Len(fs)
  BY <1>1, <1>2
<1>4. rs = Append(hs, Fragment)
  BY DEF RotateFragment
<1>. HIDE DEF hs, rs
<1>5. \A i \in 1 .. Len(hs) : i \notin Usable(hs)
  BY <1>2, <1>3, UsableFacts
<1>6. /\ NewestOnly(rs) /\ Len(rs) = Len(hs) + 1 /\ Usable(rs) = {Len(hs) + 1}
      /\ \A i \in 1 .. Len(hs) : rs[i] = hs[i]
  BY <1>3, <1>4, <1>5, AppendFragment
<1>7. WithActive(rs) = rs
  BY <1>6 DEF WithActive
<1>8. ActiveFragment(rs) = Len(rs)
  BY <1>6, <1>7, ActiveFacts
<1>9. \A i \in 1 .. Len(fs) : rs[i].requests >= fs[i].requests
  <2>1. \A i \in 1 .. Len(fs) : fs[i].requests \in Nat
    BY <1>1, RequestsFacts
  <2>. QED BY <1>2, <1>3, <1>6, <2>1
<1>. QED BY <1>1, <1>3, <1>6, <1>7, <1>8, <1>9 DEF Moves, rs

\* A request that is counted is bound to the fragment that counted it, or to a
\* new one when that one has reached its ceiling.
LEMMA RecordingMoves ==
  ASSUME now \in Nat, NEW fs, NewestOnly(fs)
  PROVE  Moves(fs, WithActive(RecordRequest(fs)), ActiveFragment(RecordRequest(fs)))
<1>. DEFINE ws == WithActive(fs)
            n == Len(ws)
            rs == RecordRequest(fs)
            gs == WithActive(rs)
<1>1. fs \in Seq(FragmentRecord) /\ Len(fs) \in Nat
  BY DEF NewestOnly
<1>2. /\ NewestOnly(ws) /\ n \in Nat /\ n >= 1 /\ Usable(ws) = {n}
      /\ ActiveFragment(fs) = n
      /\ \/ ws = fs
         \/ /\ n = Len(fs) + 1 /\ \A i \in 1 .. Len(fs) : ws[i] = fs[i]
            /\ ws[Len(fs) + 1].requests = 0
  BY ActiveFacts
<1>3. /\ ws \in Seq(FragmentRecord) /\ DOMAIN ws = 1 .. n
      /\ \A i \in 1 .. n : ws[i].requests \in Nat
  <2>1. ws \in Seq(FragmentRecord)
    BY <1>2 DEF NewestOnly
  <2>2. \A i \in 1 .. n : ws[i] \in FragmentRecord
    BY <2>1
  <2>. QED BY <2>1, <2>2, RequestsFacts
<1>4. rs = [ws EXCEPT ![n].requests = @ + 1]
  BY <1>2, Zenon DEF RecordRequest
<1>. HIDE DEF ws, rs
<1>5. /\ rs \in Seq(FragmentRecord) /\ Len(rs) = n
      /\ \A i \in 1 .. n : i # n => rs[i] = ws[i]
      /\ rs[n].requests = ws[n].requests + 1
  <2>1. /\ ws[n].requests < MaxRequestsPerFragment /\ ws[n] \in FragmentRecord
        /\ ws[n].requests + 1 \in 0 .. MaxRequestsPerFragment
    <3>1. n \in Usable(ws) /\ n \in 1 .. n
      BY <1>2
    <3>. QED BY <1>3, <3>1, UsableFacts, Constants
  <2>2. /\ [ws[n] EXCEPT !.requests = @ + 1] \in FragmentRecord
        /\ [ws[n] EXCEPT !.requests = @ + 1].requests = ws[n].requests + 1
    BY <2>1 DEF FragmentRecord
  <2>3. rs = [ws EXCEPT ![n] = [ws[n] EXCEPT !.requests = @ + 1]]
    BY <1>4
  <2>. QED BY <1>2, <1>3, <2>2, <2>3
<1>6. NewestOnly(rs)
  <2>1. ASSUME NEW i \in 1 .. n - 1 PROVE i \notin Usable(rs)
    <3>1. rs[i] = ws[i] /\ i \notin Usable(ws) /\ i \in 1 .. n
      BY <1>2, <1>5 DEF NewestOnly
    <3>. QED BY <1>3, <3>1, UsableFacts
  <2>. QED BY <1>5, <2>1 DEF NewestOnly
<1>7. /\ NewestOnly(gs) /\ Len(gs) \in Nat /\ Usable(gs) = {Len(gs)}
      /\ ActiveFragment(rs) = Len(gs)
      /\ \/ gs = rs
         \/ /\ Len(gs) = n + 1 /\ \A i \in 1 .. n : gs[i] = rs[i]
  BY <1>5, <1>6, ActiveFacts
<1>. HIDE DEF gs, n
<1>8. Len(fs) <= n /\ \A i \in 1 .. Len(fs) : ws[i] = fs[i] /\ i \in 1 .. n
  BY <1>1, <1>2 DEF n
<1>9. /\ Len(gs) >= n /\ \A i \in 1 .. n : gs[i] = rs[i]
  BY <1>2, <1>5, <1>7
<1>10. \A i \in 1 .. Len(fs) : gs[i].requests >= fs[i].requests
  <2>1. \A i \in 1 .. n : rs[i].requests >= ws[i].requests
    <3>. SUFFICES ASSUME NEW i \in 1 .. n PROVE rs[i].requests >= ws[i].requests
      OBVIOUS
    <3>1. CASE i = n
      BY <1>3, <1>5, <3>1
    <3>2. CASE i # n
      BY <1>3, <1>5, <3>2
    <3>. QED BY <3>1, <3>2
  <2>. QED BY <1>8, <1>9, <2>1
<1>11. ASSUME Len(gs) <= Len(fs)
       PROVE  /\ gs[Len(gs)].requests = fs[Len(gs)].requests + 1
              /\ gs[Len(gs)].requests < MaxRequestsPerFragment
  <2>1. gs = rs /\ Len(gs) = n /\ n = Len(fs)
    BY <1>1, <1>2, <1>5, <1>7, <1>8, <1>9, <1>11
  <2>2. n \in Usable(gs) /\ n \in 1 .. Len(fs)
    BY <1>2, <1>7, <2>1
  <2>3. gs[n].requests < MaxRequestsPerFragment
    BY <2>2, UsableFacts
  <2>. QED BY <1>5, <1>8, <2>1, <2>2, <2>3
<1>. QED BY <1>1, <1>2, <1>7, <1>8, <1>9, <1>10, <1>11 DEF Moves, gs, rs

\* One more search, and what it is bound to.
LEMMA BoundToAppend ==
  ASSUME NEW b \in Seq(Nat), NEW g \in Nat, NEW f
  PROVE  /\ IsFiniteSet(BoundTo(b, f)) /\ Cardinality(BoundTo(b, f)) \in Nat
         /\ Cardinality(BoundTo(Append(b, g), f)) =
              Cardinality(BoundTo(b, f)) + (IF f = g THEN 1 ELSE 0)
<1>1. Len(b) \in Nat /\ DOMAIN b = 1 .. Len(b)
  OBVIOUS
<1>2. IsFiniteSet(BoundTo(b, f)) /\ Cardinality(BoundTo(b, f)) \in Nat
  <2>1. BoundTo(b, f) \in SUBSET (1 .. Len(b)) /\ IsFiniteSet(1 .. Len(b))
    BY <1>1, FS_Interval DEF BoundTo
  <2>. QED BY <2>1, FS_Subset, FS_CardinalityType
<1>3. CASE f = g
  <2>1. BoundTo(Append(b, g), f) = BoundTo(b, f) \cup {Len(b) + 1}
    BY <1>1, <1>3 DEF BoundTo
  <2>2. Len(b) + 1 \notin BoundTo(b, f)
    BY <1>1 DEF BoundTo
  <2>. QED BY <1>2, <1>3, <2>1, <2>2, FS_AddElement
<1>4. CASE f # g
  <2>1. BoundTo(Append(b, g), f) = BoundTo(b, f)
    BY <1>1, <1>4 DEF BoundTo
  <2>. QED BY <1>2, <1>4, <2>1
<1>. QED BY <1>2, <1>3, <1>4

\* Binding a search to the newest fragment, which has counted it or is new.
LEMMA BindingsMove ==
  ASSUME NEW fs, NEW gs, NEW b, NEW g, NewestOnly(fs), BindingsOK(fs, b), Moves(fs, gs, g)
  PROVE  BindingsOK(gs, Append(b, g))
<1>1. /\ fs \in Seq(FragmentRecord) /\ gs \in Seq(FragmentRecord)
      /\ Len(fs) \in Nat /\ Len(gs) \in Nat /\ Len(fs) <= Len(gs) /\ g = Len(gs) /\ g >= 1
      /\ b \in Seq(Nat) /\ Len(b) \in Nat
  BY DEF NewestOnly, BindingsOK, Moves
<1>2. /\ \A i \in 1 .. Len(fs) : fs[i].requests \in Nat
      /\ \A i \in 1 .. Len(gs) : gs[i].requests \in Nat
  <2>1. /\ \A i \in 1 .. Len(fs) : fs[i] \in FragmentRecord
        /\ \A i \in 1 .. Len(gs) : gs[i] \in FragmentRecord
    BY <1>1
  <2>. QED BY <2>1, RequestsFacts
<1>. DEFINE c == Append(b, g)
<1>3. /\ c \in Seq(Nat) /\ Len(c) = Len(b) + 1 /\ c[Len(b) + 1] = g
      /\ \A i \in 1 .. Len(b) : c[i] = b[i]
  BY <1>1
<1>4. \A f : /\ Cardinality(BoundTo(b, f)) \in Nat
             /\ Cardinality(BoundTo(c, f)) =
                  Cardinality(BoundTo(b, f)) + (IF f = g THEN 1 ELSE 0)
  BY <1>1, BoundToAppend
<1>. HIDE DEF c
<1>5. \A i \in 1 .. Len(b) : b[i] \in 1 .. Len(fs)
  BY DEF BindingsOK
<1>6. \A i \in 1 .. Len(c) : c[i] \in 1 .. Len(gs)
  <2>. SUFFICES ASSUME NEW i \in 1 .. Len(c) PROVE c[i] \in 1 .. Len(gs)
    OBVIOUS
  <2>1. CASE i = Len(b) + 1
    BY <1>1, <1>3, <2>1
  <2>2. CASE i # Len(b) + 1
    <3>1. i \in 1 .. Len(b)
      BY <1>1, <1>3, <2>2
    <3>2. c[i] \in 1 .. Len(fs)
      BY <1>3, <1>5, <3>1
    <3>. QED BY <1>1, <3>2
  <2>. QED BY <2>1, <2>2
<1>7. \A i \in 2 .. Len(c) : c[i - 1] <= c[i]
  <2>. SUFFICES ASSUME NEW i \in 2 .. Len(c) PROVE c[i - 1] <= c[i]
    OBVIOUS
  <2>1. CASE i = Len(b) + 1
    <3>1. i - 1 \in 1 .. Len(b) /\ c[i - 1] = b[i - 1] /\ c[i] = g
      BY <1>1, <1>3, <2>1
    <3>. QED BY <1>1, <1>5, <3>1
  <2>2. CASE i # Len(b) + 1
    <3>1. i \in 2 .. Len(b) /\ i \in 1 .. Len(b) /\ i - 1 \in 1 .. Len(b)
      BY <1>1, <1>3, <2>2
    <3>2. c[i - 1] = b[i - 1] /\ c[i] = b[i]
      BY <1>3, <3>1
    <3>3. b[i - 1] <= b[i]
      BY <3>1 DEF BindingsOK
    <3>. QED BY <3>2, <3>3
  <2>. QED BY <2>1, <2>2
<1>8. ASSUME NEW f \in 1 .. Len(gs)
      PROVE  /\ Cardinality(BoundTo(c, f)) <= gs[f].requests + 1
             /\ Cardinality(BoundTo(c, f)) <= MaxRequestsPerFragment
  <2>1. CASE f <= Len(fs)
    <3>1. /\ f \in 1 .. Len(fs) /\ fs[f].requests \in Nat /\ gs[f].requests \in Nat
          /\ Cardinality(BoundTo(b, f)) <= fs[f].requests + 1
          /\ Cardinality(BoundTo(b, f)) <= MaxRequestsPerFragment
          /\ gs[f].requests >= fs[f].requests
      BY <1>1, <1>2, <2>1 DEF BindingsOK, Moves
    <3>2. CASE f = g
      <4>1. /\ gs[f].requests = fs[f].requests + 1
            /\ gs[f].requests < MaxRequestsPerFragment
        BY <2>1, <3>2 DEF Moves
      <4>. QED BY <1>4, <3>1, <3>2, <4>1, Constants
    <3>3. CASE f # g
      BY <1>4, <3>1, <3>3, Constants
    <3>. QED BY <3>2, <3>3
  <2>2. CASE f > Len(fs)
    <3>1. BoundTo(b, f) = {}
      <4>1. \A i \in DOMAIN b : i \in 1 .. Len(b)
        BY <1>1
      <4>. QED BY <1>1, <1>5, <2>2, <4>1 DEF BoundTo
    <3>2. Cardinality(BoundTo(b, f)) = 0
      BY <3>1, FS_EmptySet
    <3>3. Cardinality(BoundTo(c, f)) <= 1
      BY <1>4, <3>2
    <3>. QED BY <1>2, <1>4, <3>3, Constants
  <2>. QED BY <1>1, <2>1, <2>2
<1>. QED BY <1>3, <1>6, <1>7, <1>8 DEF BindingsOK, c

-----------------------------------------------------------------------------
(* Personas. *)

\* A topic has one active persona at most.
LEMMA OnePersona ==
  ASSUME NEW ps, NEW fs, PersonasOK(ps, fs), NEW topic
  PROVE  FindActive(ps, topic) = {} \/ \E k \in 1 .. Len(ps) : FindActive(ps, topic) = {k}
<1>1. DOMAIN ps = 1 .. Len(ps)
  BY DEF PersonasOK
<1>2. \A i, j \in FindActive(ps, topic) : i = j
  BY <1>1 DEF PersonasOK, FindActive
<1>3. FindActive(ps, topic) \subseteq 1 .. Len(ps)
  BY <1>1 DEF FindActive
<1>. QED BY <1>2, <1>3

\* The persona of a topic, where it is persona k.
LEMMA PersonaFound ==
  ASSUME NEW ps, NEW topic, NEW k \in Int, FindActive(ps, topic) = {k}
  PROVE  /\ Searches(ps, topic) = ps[k].searches
         /\ k \in DOMAIN ps /\ ps[k].active /\ ps[k].topic = topic
<1>1. k \in FindActive(ps, topic)
  OBVIOUS
<1>2. Min(FindActive(ps, topic)) = k
  BY MinOfOne
<1>. QED BY <1>1, <1>2 DEF Searches, FindActive

\* A persona on its way to its next search: at most one search short of a record.
Waiting(fs) ==
  [topic : Topics, active : BOOLEAN, searches : 0 .. MaxSearches,
   fragments : SUBSET (1 .. Len(fs))]

\* The personas once one of them, persona k, is ready for the search of a topic.
Ready(ps, fs, rs, k, topic) ==
  /\ rs \in Seq(Waiting(fs)) /\ k \in 1 .. Len(rs)
  /\ rs[k].active /\ rs[k].topic = topic
  /\ rs[k].searches < MaxSearches /\ rs[k].searches + 1 = Searched(Searches(ps, topic))
  /\ \A i \in 1 .. Len(rs) : i # k =>
       /\ rs[i].searches >= 1
       /\ rs[i].active => i \in 1 .. Len(ps) /\ rs[i] = ps[i] /\ rs[i].topic # topic
  /\ \A i \in 1 .. Len(ps) : ps[i].active /\ ps[i].topic # topic =>
       i \in 1 .. Len(rs) /\ i # k /\ rs[i] = ps[i]

\* Records of personas, field by field.
LEMMA PersonaFields ==
  ASSUME NEW fs, NEW p \in PersonaRecord(fs)
  PROVE  /\ p \in Waiting(fs) /\ p.searches \in Nat /\ p.searches >= 1
         /\ p.searches <= MaxSearches
         /\ [p EXCEPT !.active = FALSE] \in Waiting(fs)
         /\ ~[p EXCEPT !.active = FALSE].active
         /\ [p EXCEPT !.active = FALSE].searches = p.searches
<1>1. p \in Waiting(fs) /\ p.searches \in Nat /\ p.searches >= 1 /\ p.searches <= MaxSearches
  BY Constants DEF PersonaRecord, Waiting
<1>2. [p EXCEPT !.active = FALSE] \in Waiting(fs)
  BY <1>1 DEF Waiting
<1>3. /\ ~[p EXCEPT !.active = FALSE].active
      /\ [p EXCEPT !.active = FALSE].searches = p.searches
  BY DEF PersonaRecord
<1>. QED BY <1>1, <1>2, <1>3

\* A fresh persona appended to retired ones and to those of other topics.
LEMMA FreshIsReady ==
  ASSUME NEW ps, NEW fs, NEW hs \in Seq(Waiting(fs)), NEW topic \in Topics,
         ps \in Seq(PersonaRecord(fs)),
         Len(hs) = Len(ps), Searched(Searches(ps, topic)) = 1,
         \A i \in 1 .. Len(hs) : /\ hs[i].searches >= 1
                                 /\ hs[i].active => hs[i] = ps[i] /\ hs[i].topic # topic,
         \A i \in 1 .. Len(ps) : ps[i].active /\ ps[i].topic # topic => hs[i] = ps[i]
  PROVE  Ready(ps, fs, Append(hs, FreshPersona(topic)), Len(ps) + 1, topic)
<1>. DEFINE rs == Append(hs, FreshPersona(topic))
            k == Len(ps) + 1
<1>1. /\ FreshPersona(topic) \in Waiting(fs) /\ FreshPersona(topic).active
      /\ FreshPersona(topic).topic = topic /\ FreshPersona(topic).searches = 0
  BY Constants DEF FreshPersona, Waiting
<1>2. Len(ps) \in Nat /\ Len(hs) \in Nat
  OBVIOUS
<1>3. /\ rs \in Seq(Waiting(fs)) /\ Len(rs) = k /\ rs[k] = FreshPersona(topic)
      /\ \A i \in 1 .. Len(hs) : rs[i] = hs[i]
  BY <1>1
<1>4. k \in 1 .. k /\ \A i \in 1 .. k : i # k => i \in 1 .. Len(hs)
  BY <1>2
<1>5. \A i \in 1 .. Len(ps) : i \in 1 .. k /\ i # k /\ i \in 1 .. Len(hs)
  BY <1>2
<1>. HIDE DEF rs, k
<1>6. /\ rs[k].active /\ rs[k].topic = topic
      /\ rs[k].searches < MaxSearches /\ rs[k].searches + 1 = Searched(Searches(ps, topic))
  BY <1>1, <1>3, Constants
<1>7. \A i \in 1 .. Len(rs) : i # k =>
        /\ rs[i].searches >= 1
        /\ rs[i].active => i \in 1 .. Len(ps) /\ rs[i] = ps[i] /\ rs[i].topic # topic
  BY <1>3, <1>4
<1>8. \A i \in 1 .. Len(ps) : ps[i].active /\ ps[i].topic # topic =>
        i \in 1 .. Len(rs) /\ i # k /\ rs[i] = ps[i]
  BY <1>3, <1>5
<1>. QED BY <1>3, <1>4, <1>6, <1>7, <1>8 DEF Ready, rs, k

\* getOrCreatePersona makes one persona ready.
LEMMA PersonaReady ==
  ASSUME NEW ps, NEW fs, PersonasOK(ps, fs), NEW topic \in Topics
  PROVE  \E k \in Nat : Ready(ps, fs, GetOrCreatePersona(ps, topic), k, topic)
<1>. DEFINE rs == GetOrCreatePersona(ps, topic)
<1>1. /\ ps \in Seq(PersonaRecord(fs)) /\ Len(ps) \in Nat /\ DOMAIN ps = 1 .. Len(ps)
      /\ \A i \in 1 .. Len(ps) : ps[i] \in PersonaRecord(fs)
  BY DEF PersonasOK
<1>2. \A i \in 1 .. Len(ps) :
        /\ ps[i] \in Waiting(fs) /\ ps[i].searches \in Nat /\ ps[i].searches >= 1
        /\ ps[i].searches <= MaxSearches
  BY <1>1, PersonaFields
<1>3. ps \in Seq(Waiting(fs))
  BY <1>1, <1>2
<1>4. CASE FindActive(ps, topic) = {}
  <2>1. rs = Append(ps, FreshPersona(topic)) /\ Searched(Searches(ps, topic)) = 1
    BY <1>4, Constants DEF GetOrCreatePersona, Searches, Searched, Saturated, NoPersona
  <2>2. \A i \in 1 .. Len(ps) : ps[i].active => ps[i].topic # topic
    BY <1>1, <1>4 DEF FindActive
  <2>3. Ready(ps, fs, Append(ps, FreshPersona(topic)), Len(ps) + 1, topic)
    BY <1>1, <1>2, <1>3, <2>1, <2>2, FreshIsReady
  <2>. QED BY <1>1, <2>1, <2>3
<1>5. CASE \E k \in 1 .. Len(ps) : FindActive(ps, topic) = {k}
  <2>. PICK k \in 1 .. Len(ps) : FindActive(ps, topic) = {k}
    BY <1>5
  <2>1. /\ Searches(ps, topic) = ps[k].searches /\ ps[k].active /\ ps[k].topic = topic
        /\ Min(FindActive(ps, topic)) = k
    BY PersonaFound, MinOfOne
  <2>2. \A i \in 1 .. Len(ps) : ps[i].active /\ i # k => ps[i].topic # topic
    BY <1>1 DEF FindActive
  <2>3. CASE ps[k].searches < MaxSearches
    <3>1. rs = ps
      BY <2>1, <2>3 DEF GetOrCreatePersona
    <3>2. ps[k].searches + 1 = Searched(Searches(ps, topic))
      BY <1>2, <2>1, <2>3, Constants DEF Searched, Saturated
    <3>3. Ready(ps, fs, ps, k, topic)
      BY <1>2, <1>3, <2>1, <2>2, <2>3, <3>2 DEF Ready
    <3>. QED BY <3>1, <3>3
  <2>4. CASE ~(ps[k].searches < MaxSearches)
    <3>. DEFINE hs == [ps EXCEPT ![k].active = FALSE]
    <3>1. rs = Append(hs, FreshPersona(topic))
      BY <2>1, <2>4 DEF GetOrCreatePersona
    <3>2. Searched(Searches(ps, topic)) = 1
      BY <1>2, <2>1, <2>4, Constants DEF Searched, Saturated
    <3>3. /\ [ps[k] EXCEPT !.active = FALSE] \in Waiting(fs)
          /\ ~[ps[k] EXCEPT !.active = FALSE].active
          /\ [ps[k] EXCEPT !.active = FALSE].searches >= 1
      BY <1>1, <1>2, PersonaFields
    <3>4. /\ hs \in Seq(Waiting(fs)) /\ Len(hs) = Len(ps)
          /\ hs[k] = [ps[k] EXCEPT !.active = FALSE]
          /\ \A i \in 1 .. Len(ps) : i # k => hs[i] = ps[i]
      <4>. DEFINE old == [ps[k] EXCEPT !.active = FALSE]
      <4>1. hs = [ps EXCEPT ![k] = old] /\ old \in Waiting(fs)
        BY <3>3
      <4>. HIDE DEF old, hs
      <4>2. /\ hs \in Seq(Waiting(fs)) /\ Len(hs) = Len(ps) /\ hs[k] = old
            /\ \A i \in 1 .. Len(ps) : i # k => hs[i] = ps[i]
        BY <1>3, <4>1
      <4>. QED BY <4>2 DEF old
    <3>. HIDE DEF hs, rs
    <3>5. \A i \in 1 .. Len(hs) : /\ hs[i].searches >= 1
                                  /\ hs[i].active => hs[i] = ps[i] /\ hs[i].topic # topic
      BY <1>2, <2>2, <3>3, <3>4
    <3>6. \A i \in 1 .. Len(ps) : ps[i].active /\ ps[i].topic # topic => hs[i] = ps[i]
      BY <2>1, <3>4
    <3>7. Ready(ps, fs, Append(hs, FreshPersona(topic)), Len(ps) + 1, topic)
      BY <1>1, <3>2, <3>4, <3>5, <3>6, FreshIsReady
    <3>. QED BY <1>1, <3>1, <3>7 DEF rs
  <2>. QED BY <2>3, <2>4
<1>. QED BY <1>4, <1>5, OnePersona

\* Two states of the personas that agree on the active ones of a topic.
LEMMA SameSearches ==
  ASSUME NEW ps, NEW qs, NEW other,
         FindActive(qs, other) = FindActive(ps, other),
         \A i \in FindActive(ps, other) : qs[i].searches = ps[i].searches,
         FindActive(ps, other) = {} \/ \E k \in Int : FindActive(ps, other) = {k}
  PROVE  Searches(qs, other) = Searches(ps, other)
<1>1. CASE FindActive(ps, other) = {}
  BY <1>1 DEF Searches
<1>2. CASE \E k \in Int : FindActive(ps, other) = {k}
  <2>. PICK k \in Int : FindActive(ps, other) = {k}
    BY <1>2
  <2>1. Searches(ps, other) = ps[k].searches /\ Searches(qs, other) = qs[k].searches
    BY PersonaFound
  <2>. QED BY <2>1
<1>. QED BY <1>1, <1>2

\* What a search of a topic makes of personas ps, over the fragments gs.
Advances(ps, qs, gs, topic) ==
  /\ PersonasOK(qs, gs)
  /\ Searches(qs, topic) = Searched(Searches(ps, topic))
  /\ \A other \in Topics \ {topic} : Searches(qs, other) = Searches(ps, other)

\* A search advances the persona of its topic, as IdentityEngines says, and no
\* other; the personas of a topic stay one.
LEMMA SearchFacts ==
  ASSUME NEW ps, NEW fs, NEW gs, NEW g, NEW topic \in Topics, PersonasOK(ps, fs),
         Len(fs) \in Nat, Len(gs) \in Nat, Len(fs) <= Len(gs), g \in 1 .. Len(gs),
         NEW qs, qs = Search(GetOrCreatePersona(ps, topic), topic, g)
  PROVE  Advances(ps, qs, gs, topic)
<1>. DEFINE rs == GetOrCreatePersona(ps, topic)
<1>0. qs = Search(rs, topic, g)
  OBVIOUS
<1>. PICK k \in Nat : Ready(ps, fs, rs, k, topic)
  BY PersonaReady
<1>. HIDE DEF rs
<1>1. /\ rs \in Seq(Waiting(fs)) /\ k \in 1 .. Len(rs) /\ DOMAIN rs = 1 .. Len(rs)
      /\ Len(rs) \in Nat /\ rs[k].active /\ rs[k].topic = topic
      /\ rs[k].searches < MaxSearches /\ rs[k].searches + 1 = Searched(Searches(ps, topic))
  BY DEF Ready
<1>2. \A i \in 1 .. Len(rs) : i # k =>
        /\ rs[i].searches >= 1
        /\ rs[i].active => i \in 1 .. Len(ps) /\ rs[i] = ps[i] /\ rs[i].topic # topic
  BY DEF Ready
<1>3. \A i \in 1 .. Len(ps) : ps[i].active /\ ps[i].topic # topic =>
        i \in 1 .. Len(rs) /\ i # k /\ rs[i] = ps[i]
  BY DEF Ready
<1>4. FindActive(rs, topic) = {k}
  BY <1>1, <1>2 DEF FindActive
<1>5. Min(FindActive(rs, topic)) = k
  BY <1>4, MinOfOne
<1>. DEFINE next == [rs[k] EXCEPT !.fragments = @ \cup {g}, !.searches = @ + 1]
<1>6. \A i \in 1 .. Len(rs) : rs[i] \in Waiting(fs)
  BY <1>1
<1>7. \A p \in Waiting(fs) : /\ p.searches \in Nat /\ p.searches <= MaxSearches
                             /\ p.searches >= 1 => p \in PersonaRecord(gs)
  <2>. SUFFICES ASSUME NEW p \in Waiting(fs)
                PROVE  /\ p.searches \in Nat /\ p.searches <= MaxSearches
                       /\ p.searches >= 1 => p \in PersonaRecord(gs)
    OBVIOUS
  <2>1. p.searches \in Nat /\ p.searches <= MaxSearches
    BY Constants DEF Waiting
  <2>2. p.fragments \subseteq 1 .. Len(gs)
    BY DEF Waiting
  <2>3. p.searches >= 1 => p.searches \in 1 .. MaxSearches
    BY <2>1, Constants
  <2>4. p.searches >= 1 => p \in PersonaRecord(gs)
    BY <2>2, <2>3 DEF Waiting, PersonaRecord
  <2>. QED BY <2>1, <2>4
<1>8. /\ next \in PersonaRecord(gs) /\ next.active /\ next.topic = topic
      /\ next.searches = rs[k].searches + 1
  <2>1. rs[k] \in Waiting(fs)
    BY <1>1, <1>6
  <2>2. rs[k].searches + 1 \in 1 .. MaxSearches
    BY <1>1, <1>7, <2>1, Constants
  <2>3. rs[k].fragments \cup {g} \subseteq 1 .. Len(gs)
    BY <2>1 DEF Waiting
  <2>. QED BY <1>1, <2>1, <2>2, <2>3 DEF Waiting, PersonaRecord
<1>9. qs = [rs EXCEPT ![k] = next]
  <2>1. qs = [rs EXCEPT ![k].fragments = @ \cup {g}, ![k].searches = @ + 1]
    BY <1>0, <1>5 DEF Search
  <2>. QED BY <1>1, <2>1
<1>. HIDE DEF next
<1>10. /\ qs \in Seq(PersonaRecord(gs)) /\ Len(qs) = Len(rs) /\ qs[k] = next
       /\ \A i \in 1 .. Len(rs) : i # k => qs[i] = rs[i]
  <2>1. \A i \in 1 .. Len(rs) : i # k => rs[i] \in PersonaRecord(gs)
    BY <1>2, <1>6, <1>7
  <2>2. /\ DOMAIN qs = 1 .. Len(rs) /\ qs[k] = next
        /\ \A i \in 1 .. Len(rs) : i # k => qs[i] = rs[i]
        /\ qs = [i \in 1 .. Len(rs) |-> qs[i]]
    BY <1>1, <1>9
  <2>3. qs \in [1 .. Len(rs) -> PersonaRecord(gs)]
    BY <1>8, <2>1, <2>2
  <2>4. qs \in Seq(PersonaRecord(gs)) /\ Len(qs) = Len(rs)
    BY <1>1, <2>3
  <2>. QED BY <2>2, <2>4
<1>11. DOMAIN qs = 1 .. Len(rs)
  BY <1>10
<1>12. ASSUME NEW i \in 1 .. Len(qs), NEW j \in 1 .. Len(qs),
              qs[i].active, qs[j].active, qs[i].topic = qs[j].topic
       PROVE  i = j
  <2>1. CASE i = k /\ j = k
    BY <2>1
  <2>2. CASE i = k /\ j # k
    BY <1>2, <1>8, <1>10, <1>12, <2>2
  <2>3. CASE i # k /\ j = k
    BY <1>2, <1>8, <1>10, <1>12, <2>3
  <2>4. CASE i # k /\ j # k
    <3>1. /\ i \in 1 .. Len(ps) /\ j \in 1 .. Len(ps) /\ qs[i] = ps[i] /\ qs[j] = ps[j]
      BY <1>2, <1>10, <1>12, <2>4
    <3>. QED BY <1>12, <3>1 DEF PersonasOK
  <2>. QED BY <2>1, <2>2, <2>3, <2>4
<1>13. PersonasOK(qs, gs)
  BY <1>10, <1>12 DEF PersonasOK
<1>14. Searches(qs, topic) = Searched(Searches(ps, topic))
  <2>1. FindActive(qs, topic) = {k}
    BY <1>1, <1>2, <1>8, <1>10, <1>11 DEF FindActive
  <2>. QED BY <1>1, <1>8, <1>10, <2>1, PersonaFound
<1>15. ASSUME NEW other \in Topics \ {topic}
       PROVE  Searches(qs, other) = Searches(ps, other)
  <2>1. DOMAIN ps = 1 .. Len(ps)
    BY DEF PersonasOK
  <2>2. \A i \in FindActive(ps, other) : i \in FindActive(qs, other) /\ qs[i] = ps[i]
    BY <1>3, <1>10, <1>11, <1>15, <2>1 DEF FindActive
  <2>3. \A i \in FindActive(qs, other) : i \in FindActive(ps, other)
    BY <1>2, <1>8, <1>10, <1>11, <1>15, <2>1 DEF FindActive
  <2>4. FindActive(ps, other) = {} \/ \E l \in Int : FindActive(ps, other) = {l}
    BY OnePersona
  <2>5. FindActive(qs, other) = FindActive(ps, other)
    BY <2>2, <2>3
  <2>6. \A i \in FindActive(ps, other) : qs[i].searches = ps[i].searches
    BY <2>2
  <2>. QED BY ONLY <2>4, <2>5, <2>6, SameSearches
<1>. QED BY <1>13, <1>14, <1>15 DEF Advances

\* Decisions with the same three answers are the same.
LEMMA SameDecision ==
  ASSUME NEW a \in BOOLEAN, NEW b \in BOOLEAN, NEW c \in BOOLEAN,
         NEW x \in BOOLEAN, NEW y \in BOOLEAN, NEW z \in BOOLEAN,
         a <=> x, b <=> y, c <=> z
  PROVE  [newFragment |-> a, isolateSession |-> b, escalate |-> c] =
         [newFragment |-> x, isolateSession |-> y, escalate |-> z]
<1>1. a = x /\ b = y /\ c = z
  OBVIOUS
<1>. QED BY <1>1, Zenon

\* The decision about a persona is the abstract one.
LEMMA IsolationIsDecision ==
  ASSUME NEW ps, NEW fs, PersonasOK(ps, fs), NEW topic \in Topics
  PROVE  Isolation(ps, topic) = PersonaDecision(Searches(ps, topic), topic)
<1>. DEFINE n == Searches(ps, topic)
            x == n = NoPersona \/ n >= MaxSearches
            y == n >= MaxSearches \/ topic \in Sensitive
            z == n >= MaxSearches
            c == PersonaRisk(ps[Min(FindActive(ps, topic))]) = "critical"
            w == topic \in Sensitive
<1>1. PersonaDecision(n, topic) = [newFragment |-> x, isolateSession |-> y, escalate |-> z]
  BY DEF PersonaDecision, Saturated
<1>2. CASE FindActive(ps, topic) = {}
  <2>1. Isolation(ps, topic) = [newFragment |-> TRUE, isolateSession |-> w, escalate |-> FALSE]
    BY <1>2 DEF Isolation
  <2>2. (TRUE <=> x) /\ (w <=> y) /\ (FALSE <=> z)
    BY <1>2, Constants DEF Searches, NoPersona
  <2>3. w \in BOOLEAN /\ x \in BOOLEAN /\ y \in BOOLEAN /\ z \in BOOLEAN
    OBVIOUS
  <2>. HIDE DEF x, y, z, w
  <2>. QED BY <1>1, <2>1, <2>2, <2>3, SameDecision
<1>3. CASE \E k \in 1 .. Len(ps) : FindActive(ps, topic) = {k}
  <2>. PICK k \in 1 .. Len(ps) : FindActive(ps, topic) = {k}
    BY <1>3
  <2>1. ps[k] \in PersonaRecord(fs)
    BY DEF PersonasOK
  <2>2. ps[k].searches >= 1 /\ ps[k].searches \in Nat
    BY <2>1, PersonaFields
  <2>3. Min(FindActive(ps, topic)) = k /\ n = ps[k].searches
    BY PersonaFound, MinOfOne
  <2>4. FindActive(ps, topic) # {}
    OBVIOUS
  <2>5. Isolation(ps, topic) = [newFragment |-> z, isolateSession |-> y, escalate |-> c]
    BY <2>3, <2>4 DEF Isolation
  <2>6. (z <=> x) /\ (c <=> z)
    BY <2>2, <2>3 DEF PersonaRisk, NoPersona
  <2>7. c \in BOOLEAN /\ x \in BOOLEAN /\ y \in BOOLEAN /\ z \in BOOLEAN
    OBVIOUS
  <2>. HIDE DEF x, y, z, c, n
  <2>8. [newFragment |-> z, isolateSession |-> y, escalate |-> c] =
        [newFragment |-> x, isolateSession |-> y, escalate |-> z]
    BY <2>6, <2>7, SameDecision
  <2>. QED BY <1>1, <2>5, <2>8 DEF n
<1>. QED BY <1>2, <1>3, OnePersona


-----------------------------------------------------------------------------
(* Budgets. *)

\* What is let through in a stretch is finite.
LEMMA ThroughFacts ==
  ASSUME NEW u \in Seq(Nat), NEW from \in Int, NEW to \in Int
  PROVE  /\ Through(u, from, to) \subseteq 1 .. Len(u)
         /\ IsFiniteSet(Through(u, from, to))
         /\ Cardinality(Through(u, from, to)) \in Nat
<1>1. Through(u, from, to) \in SUBSET (1 .. Len(u)) /\ IsFiniteSet(1 .. Len(u))
  <2>1. DOMAIN u = 1 .. Len(u) /\ Len(u) \in Nat
    OBVIOUS
  <2>. QED BY <2>1, FS_Interval DEF Through
<1>. QED BY <1>1, FS_Subset, FS_CardinalityType

\* One more let through counts where it falls.
LEMMA ThroughAppend ==
  ASSUME NEW u \in Seq(Nat), NEW t \in Nat, NEW from \in Int, NEW to \in Int
  PROVE  Cardinality(Through(Append(u, t), from, to)) =
           Cardinality(Through(u, from, to)) + (IF t >= from /\ t < to THEN 1 ELSE 0)
<1>. DEFINE v == Append(u, t)
<1>1. Len(u) \in Nat /\ DOMAIN u = 1 .. Len(u)
  OBVIOUS
<1>2. /\ DOMAIN v = 1 .. Len(u) + 1 /\ v[Len(u) + 1] = t
      /\ \A i \in 1 .. Len(u) : v[i] = u[i]
  BY <1>1
<1>3. /\ Len(u) + 1 \notin Through(u, from, to) /\ IsFiniteSet(Through(u, from, to))
      /\ Cardinality(Through(u, from, to)) \in Nat
  BY <1>1, ThroughFacts
<1>. HIDE DEF v
<1>4. CASE t >= from /\ t < to
  <2>1. Through(v, from, to) = Through(u, from, to) \cup {Len(u) + 1}
    BY <1>1, <1>2, <1>4 DEF Through
  <2>2. Cardinality(Through(v, from, to)) = Cardinality(Through(u, from, to)) + 1
    BY <1>3, <2>1, FS_AddElement
  <2>. QED BY <1>4, <2>2 DEF v
<1>5. CASE ~(t >= from /\ t < to)
  <2>1. Through(v, from, to) = Through(u, from, to)
    BY <1>1, <1>2, <1>5 DEF Through
  <2>. QED BY <1>3, <1>5, <2>1 DEF v
<1>. QED BY <1>4, <1>5

\* When everything in one stretch falls in another, no more is let through in it.
LEMMA ThroughWithin ==
  ASSUME NEW u \in Seq(Nat), NEW from \in Int, NEW to \in Int, NEW lo \in Int, NEW hi \in Int,
         \A i \in 1 .. Len(u) : u[i] >= from /\ u[i] < to => u[i] >= lo /\ u[i] < hi
  PROVE  Cardinality(Through(u, from, to)) <= Cardinality(Through(u, lo, hi))
<1>1. DOMAIN u = 1 .. Len(u)
  OBVIOUS
<1>2. Through(u, from, to) \subseteq Through(u, lo, hi)
  BY <1>1 DEF Through
<1>. QED BY <1>2, ThroughFacts, FS_Subset

\* What two adjoining stretches let through is what their parts do.
LEMMA ThroughSplit ==
  ASSUME NEW u \in Seq(Nat), NEW from \in Int, NEW mid \in Int, NEW to \in Int
  PROVE  Cardinality(Through(u, from, to)) <=
           Cardinality(Through(u, from, mid)) + Cardinality(Through(u, mid, to))
<1>. DEFINE A == Through(u, from, mid)
            B == Through(u, mid, to)
            C == Through(u, from, to)
<1>1. /\ IsFiniteSet(A) /\ IsFiniteSet(B) /\ Cardinality(A) \in Nat /\ Cardinality(B) \in Nat
      /\ Cardinality(A \cap B) \in Nat
  BY ThroughFacts, FS_Intersection, FS_CardinalityType
<1>2. C \subseteq A \cup B
  <2>1. \A i \in DOMAIN u : u[i] \in Nat
    OBVIOUS
  <2>. QED BY <2>1 DEF Through
<1>. HIDE DEF A, B, C
<1>3. /\ IsFiniteSet(A \cup B)
      /\ Cardinality(A \cup B) = Cardinality(A) + Cardinality(B) - Cardinality(A \cap B)
  BY <1>1, FS_Union
<1>4. Cardinality(C) <= Cardinality(A \cup B) /\ Cardinality(C) \in Nat
  <2>1. IsFiniteSet(C)
    BY <1>2, <1>3, FS_Subset
  <2>. QED BY <1>2, <1>3, <2>1, FS_Subset, FS_CardinalityType
<1>5. Cardinality(C) <= Cardinality(A) + Cardinality(B)
  BY <1>1, <1>3, <1>4
<1>. QED BY <1>5 DEF A, B, C

\* A budget, field by field.
LEMMA BudgetFields ==
  ASSUME NEW b \in BudgetRecord
  PROVE  /\ b.resetsAt \in Nat /\ b.remaining \in Nat /\ b.remaining <= MaxRequestsPerWindow
         /\ b.remaining \in Int /\ b.resetsAt \in Int
BY Constants DEF BudgetRecord

\* A new budget is whole, and its window has begun.
LEMMA FullBudgetFields ==
  ASSUME now \in Nat
  PROVE  /\ FullBudget \in BudgetRecord /\ FullBudget.remaining = MaxRequestsPerWindow
         /\ FullBudget.resetsAt = now + BudgetWindow
BY Constants DEF FullBudget, BudgetRecord

\* Opening a window once the one before it is over.
LEMMA WindowOpens ==
  ASSUME now \in Nat, NEW b \in BudgetRecord, NEW u \in Seq(Nat), BudgetOK(b, u),
         now >= b.resetsAt
  PROVE  BudgetOK(FullBudget, u)
<1>. DEFINE R == b.resetsAt
            N == FullBudget.resetsAt
<1>1. /\ R \in Nat /\ b.remaining \in Nat /\ BudgetWindow \in Nat /\ BudgetWindow >= 1
      /\ MaxRequestsPerWindow \in Nat /\ now >= R
      /\ FullBudget.remaining = MaxRequestsPerWindow /\ N = now + BudgetWindow
  BY BudgetFields, FullBudgetFields, Constants
<1>2. /\ \A i \in 1 .. Len(u) : u[i] <= now /\ u[i] < R
      /\ Cardinality(Through(u, R - BudgetWindow, R)) <= MaxRequestsPerWindow - b.remaining
      /\ \A start \in Nat :
           Cardinality(Through(u, start, start + BudgetWindow)) <= 2 * MaxRequestsPerWindow
  BY DEF BudgetOK
<1>3. \A i \in 1 .. Len(u) : u[i] \in Nat
  OBVIOUS
<1>. HIDE DEF R, N
<1>4. ASSUME NEW i \in 1 .. Len(u)
      PROVE  u[i] <= now /\ u[i] < N /\ ~(u[i] >= N - BudgetWindow)
  <2>1. u[i] <= now /\ u[i] < R /\ u[i] \in Nat
    BY <1>2, <1>3
  <2>. QED BY ONLY now \in Nat, <1>1, <2>1
<1>5. Cardinality(Through(u, N - BudgetWindow, N)) <= MaxRequestsPerWindow - FullBudget.remaining
  <2>1. DOMAIN u = 1 .. Len(u)
    OBVIOUS
  <2>2. Through(u, N - BudgetWindow, N) = {}
    BY <1>4, <2>1 DEF Through
  <2>3. Cardinality(Through(u, N - BudgetWindow, N)) = 0
    BY <2>2, FS_EmptySet
  <2>. QED BY <1>1, <2>3
<1>6. Cardinality(Through(u, N - 2 * BudgetWindow, N - BudgetWindow)) <= MaxRequestsPerWindow
  <2>. DEFINE p == N - 2 * BudgetWindow
              q == N - BudgetWindow
              r == R - BudgetWindow
  <2>1. p \in Int /\ q \in Int /\ r \in Int /\ R \in Int /\ p = now - BudgetWindow /\ r <= p
    BY <1>1
  <2>. HIDE DEF p, q, r
  <2>2. \A i \in 1 .. Len(u) : u[i] >= p /\ u[i] < q => u[i] >= r /\ u[i] < R
    BY <1>2, <1>3, <2>1
  <2>3. /\ Cardinality(Through(u, p, q)) <= Cardinality(Through(u, r, R))
        /\ Cardinality(Through(u, p, q)) \in Nat /\ Cardinality(Through(u, r, R)) \in Nat
    BY <2>1, <2>2, ThroughWithin, ThroughFacts
  <2>4. Cardinality(Through(u, r, R)) <= MaxRequestsPerWindow - b.remaining
    BY <1>2 DEF r
  <2>5. Cardinality(Through(u, p, q)) <= MaxRequestsPerWindow
    BY <1>1, <2>3, <2>4
  <2>. QED BY <2>5 DEF p, q
<1>7. N <= now + BudgetWindow
  BY <1>1
<1>. QED BY <1>2, <1>4, <1>5, <1>6, <1>7 DEF BudgetOK, N


\* A search let through while its budget is not exhausted.
LEMMA BudgetSpends ==
  ASSUME now \in Nat, NEW b \in BudgetRecord, NEW d \in BudgetRecord, NEW u \in Seq(Nat),
         BudgetOK(b, u), now < b.resetsAt, b.remaining > 0,
         d.remaining = b.remaining - 1, d.resetsAt = b.resetsAt
  PROVE  BudgetOK(d, Append(u, now))
<1>. DEFINE R == b.resetsAt
            v == Append(u, now)
            lo == R - 2 * BudgetWindow
            mid == R - BudgetWindow
<1>1. /\ R \in Nat /\ R \in Int /\ b.remaining \in Nat /\ d.remaining \in Nat
      /\ d.remaining = b.remaining - 1 /\ d.resetsAt = R /\ now < R
      /\ BudgetWindow \in Nat /\ BudgetWindow >= 1 /\ MaxRequestsPerWindow \in Nat
  BY BudgetFields, Constants
<1>2. lo \in Int /\ mid \in Int /\ lo + BudgetWindow = mid /\ mid + BudgetWindow = R
  BY <1>1
<1>3. /\ \A i \in 1 .. Len(u) : u[i] <= now /\ u[i] < R
      /\ Cardinality(Through(u, mid, R)) <= MaxRequestsPerWindow - b.remaining
      /\ Cardinality(Through(u, lo, mid)) <= MaxRequestsPerWindow
      /\ R <= now + BudgetWindow
      /\ \A start \in Nat :
           Cardinality(Through(u, start, start + BudgetWindow)) <= 2 * MaxRequestsPerWindow
  BY DEF BudgetOK
<1>4. /\ v \in Seq(Nat) /\ Len(v) = Len(u) + 1 /\ v[Len(u) + 1] = now
      /\ \A i \in 1 .. Len(u) : v[i] = u[i]
      /\ Len(u) \in Nat
  OBVIOUS
<1>5. \A from, to \in Int :
        /\ Cardinality(Through(v, from, to)) =
             Cardinality(Through(u, from, to)) + (IF now >= from /\ now < to THEN 1 ELSE 0)
        /\ Cardinality(Through(v, from, to)) \in Nat
        /\ Cardinality(Through(u, from, to)) \in Nat
  BY <1>4, ThroughAppend, ThroughFacts
<1>. HIDE DEF R, v, lo, mid
<1>6. now >= mid /\ now \in Int
  BY <1>1, <1>2, <1>3
<1>7. \A i \in 1 .. Len(v) : v[i] <= now /\ v[i] < R
  <2>. SUFFICES ASSUME NEW i \in 1 .. Len(v) PROVE v[i] <= now /\ v[i] < R
    OBVIOUS
  <2>1. CASE i = Len(u) + 1
    BY <1>1, <1>4, <2>1
  <2>2. CASE i # Len(u) + 1
    <3>1. i \in 1 .. Len(u)
      BY <1>4, <2>2
    <3>. QED BY <1>3, <1>4, <3>1
  <2>. QED BY <2>1, <2>2
<1>8. Cardinality(Through(v, mid, R)) <= MaxRequestsPerWindow - d.remaining
  <2>1. Cardinality(Through(v, mid, R)) = Cardinality(Through(u, mid, R)) + 1
    BY <1>1, <1>2, <1>5, <1>6
  <2>2. Cardinality(Through(u, mid, R)) \in Nat
    BY <1>1, <1>2, <1>5
  <2>3. Cardinality(Through(u, mid, R)) <= MaxRequestsPerWindow - b.remaining
    BY <1>3
  <2>. QED BY ONLY <1>1, <2>1, <2>2, <2>3
<1>9. Cardinality(Through(v, lo, mid)) <= MaxRequestsPerWindow
  <2>1. Cardinality(Through(v, lo, mid)) = Cardinality(Through(u, lo, mid))
    BY <1>2, <1>5, <1>6
  <2>. QED BY <1>3, <2>1
<1>10. ASSUME NEW start \in Nat
       PROVE  Cardinality(Through(v, start, start + BudgetWindow)) <= 2 * MaxRequestsPerWindow
  <2>. DEFINE end == start + BudgetWindow
  <2>1. end \in Int /\ start \in Int
    BY <1>1
  <2>2. CASE now >= start /\ now < end
    <3>1. lo <= start
      BY <1>1, <1>2, <1>3, <2>2
    <3>2. \A i \in 1 .. Len(v) : v[i] \in Nat
      BY <1>4
    <3>. HIDE DEF end
    <3>3. \A i \in 1 .. Len(v) : v[i] >= start /\ v[i] < end => v[i] >= lo /\ v[i] < R
      BY <1>2, <1>7, <2>1, <3>1, <3>2
    <3>4. Cardinality(Through(v, start, end)) <= Cardinality(Through(v, lo, R))
      BY <1>1, <1>2, <1>4, <2>1, <3>3, ThroughWithin
    <3>5. Cardinality(Through(v, lo, R)) <=
            Cardinality(Through(v, lo, mid)) + Cardinality(Through(v, mid, R))
      BY <1>1, <1>2, <1>4, ThroughSplit
    <3>6. /\ Cardinality(Through(v, lo, R)) \in Nat /\ Cardinality(Through(v, lo, mid)) \in Nat
          /\ Cardinality(Through(v, mid, R)) \in Nat
          /\ Cardinality(Through(v, start, end)) \in Nat
      BY <1>1, <1>2, <1>5, <2>1
    <3>7. Cardinality(Through(v, start, end)) <= 2 * MaxRequestsPerWindow
      <4>1. MaxRequestsPerWindow \in Nat /\ d.remaining \in Nat
        BY <1>1
      <4>. DEFINE w == Cardinality(Through(v, start, end))
                  x == Cardinality(Through(v, lo, R))
                  y == Cardinality(Through(v, lo, mid))
                  z == Cardinality(Through(v, mid, R))
      <4>2. /\ w \in Nat /\ x \in Nat /\ y \in Nat /\ z \in Nat
            /\ w <= x /\ x <= y + z /\ y <= MaxRequestsPerWindow
            /\ z <= MaxRequestsPerWindow - d.remaining
        BY <1>8, <1>9, <3>4, <3>5, <3>6
      <4>. HIDE DEF w, x, y, z
      <4>3. w <= 2 * MaxRequestsPerWindow
        BY ONLY <4>1, <4>2
      <4>. QED BY <4>3 DEF w
    <3>. QED BY <3>7 DEF end
  <2>3. CASE ~(now >= start /\ now < end)
    <3>. HIDE DEF end
    <3>1. Cardinality(Through(v, start, end)) = Cardinality(Through(u, start, end))
      <4>1. /\ Cardinality(Through(v, start, end)) = Cardinality(Through(u, start, end)) + 0
            /\ Cardinality(Through(u, start, end)) \in Nat
        BY <1>5, <2>1, <2>3
      <4>. QED BY ONLY <4>1
    <3>2. Cardinality(Through(u, start, end)) <= 2 * MaxRequestsPerWindow
      BY <1>3 DEF end
    <3>3. Cardinality(Through(v, start, end)) <= 2 * MaxRequestsPerWindow
      BY <3>1, <3>2
    <3>. QED BY <3>3 DEF end
  <2>. QED BY <2>2, <2>3
<1>11. /\ d.resetsAt - BudgetWindow = mid /\ d.resetsAt - 2 * BudgetWindow = lo /\ d.resetsAt = R
  BY <1>1 DEF lo, mid
<1>. QED BY <1>3, <1>7, <1>8, <1>9, <1>10, <1>11 DEF BudgetOK, v

\* consumeBudget opens a window when the one before it is over, then spends.
LEMMA ConsumeFacts ==
  ASSUME now \in Nat, NEW b \in BudgetRecord
  PROVE  LET open == IF now >= b.resetsAt THEN FullBudget ELSE b IN
         /\ open \in BudgetRecord /\ now < open.resetsAt
         /\ Consume(b) \in BudgetRecord /\ Consume(b).resetsAt = open.resetsAt
         /\ Consume(b).remaining = IF open.remaining > 0 THEN open.remaining - 1 ELSE 0
<1>. DEFINE open == IF now >= b.resetsAt THEN FullBudget ELSE b
<1>1. open \in BudgetRecord /\ now < open.resetsAt
  BY FullBudgetFields, BudgetFields, Constants
<1>2. Consume(b) = [open EXCEPT !.remaining = Max({0, @ - 1})]
  BY DEF Consume
<1>. HIDE DEF open
<1>3. open.remaining \in Nat /\ open.remaining <= MaxRequestsPerWindow
  BY <1>1, BudgetFields
<1>4. Max({0, open.remaining - 1}) = IF open.remaining > 0 THEN open.remaining - 1 ELSE 0
  <2>1. Max({0, open.remaining - 1}) =
          IF open.remaining - 1 > 0 THEN open.remaining - 1 ELSE 0
    BY <1>3, MaxOfTwo
  <2>. QED BY <1>3, <2>1
<1>5. Max({0, open.remaining - 1}) \in 0 .. MaxRequestsPerWindow
  BY <1>3, <1>4, Constants
<1>6. /\ Consume(b) \in BudgetRecord /\ Consume(b).resetsAt = open.resetsAt
      /\ Consume(b).remaining = Max({0, open.remaining - 1})
  BY <1>1, <1>2, <1>5 DEF BudgetRecord
<1>. QED BY <1>1, <1>4, <1>6 DEF open

\* What becomes of a budget and of what it has let through, when every search is
\* let through but those that find it exhausted.
LEMMA BudgetMoves ==
  ASSUME now \in Nat, NEW b \in BudgetRecord, NEW u \in Seq(Nat), BudgetOK(b, u)
  PROVE  IF now < b.resetsAt /\ b.remaining = 0
         THEN BudgetOK(Consume(b), u) ELSE BudgetOK(Consume(b), Append(u, now))
<1>. DEFINE open == IF now >= b.resetsAt THEN FullBudget ELSE b
            c == Consume(b)
<1>1. /\ open \in BudgetRecord /\ now < open.resetsAt
      /\ c \in BudgetRecord /\ c.resetsAt = open.resetsAt
      /\ c.remaining = IF open.remaining > 0 THEN open.remaining - 1 ELSE 0
  BY ConsumeFacts
<1>2. BudgetOK(open, u)
  BY WindowOpens, BudgetFields
<1>3. CASE now < b.resetsAt /\ b.remaining = 0
  <2>1. c.resetsAt = b.resetsAt /\ c.remaining = b.remaining
    BY <1>1, <1>3, BudgetFields
  <2>. HIDE DEF c, open
  <2>2. BudgetOK(c, u)
    BY <2>1 DEF BudgetOK
  <2>. QED BY <1>3, <2>2 DEF c
<1>4. CASE ~(now < b.resetsAt /\ b.remaining = 0)
  <2>1. open.remaining > 0
    BY <1>4, FullBudgetFields, BudgetFields, Constants
  <2>. HIDE DEF c, open
  <2>2. c.remaining = open.remaining - 1
    BY <1>1, <2>1
  <2>3. BudgetOK(c, Append(u, now))
    BY <1>1, <1>2, <2>1, <2>2, BudgetSpends
  <2>. QED BY <1>4, <2>3 DEF c
<1>. QED BY <1>3, <1>4


-----------------------------------------------------------------------------
(* The invariant. *)

\* Time makes no fragment usable.
LEMMA NewestStays ==
  ASSUME NEW a, now \in Nat, now' \in Nat, now <= now', NewestOnly(fragments'[a])
  PROVE  NewestOnly(fragments[a])'
<1>. DEFINE fs == fragments'[a]
<1>1. fs \in Seq(FragmentRecord) /\ Len(fs) \in Nat /\ DOMAIN fs = 1 .. Len(fs)
  BY DEF NewestOnly
<1>2. \A i \in 1 .. Len(fs) : fs[i].expiresAt \in Nat
  <2>1. \A i \in 1 .. Len(fs) : fs[i] \in FragmentRecord
    BY <1>1
  <2>. HIDE DEF fs
  <2>. QED BY <2>1 DEF FragmentRecord
<1>3. \A i \in 1 .. Len(fs) - 1 :
        ~(fs[i].active /\ fs[i].expiresAt > now /\ fs[i].requests < MaxRequestsPerFragment)
  <2>1. \A i \in 1 .. Len(fs) - 1 : i \notin Usable(fs) /\ i \in DOMAIN fs
    BY <1>1 DEF NewestOnly
  <2>. HIDE DEF fs
  <2>. QED BY <2>1, UsableFacts
<1>4. \A i \in 1 .. Len(fs) - 1 :
        ~(fs[i].active /\ fs[i].expiresAt > now' /\ fs[i].requests < MaxRequestsPerFragment)
  <2>. SUFFICES ASSUME NEW i \in 1 .. Len(fs) - 1, fs[i].expiresAt > now'
                PROVE  fs[i].expiresAt > now
    BY <1>3
  <2>1. fs[i].expiresAt \in Nat
    BY <1>1, <1>2
  <2>. HIDE DEF fs
  <2>. QED BY <2>1
<1>5. fragments'[a] \in Seq(FragmentRecord) /\ \A i \in 1 .. Len(fragments'[a]) - 1 :
        ~(i \in {j \in DOMAIN fragments'[a] :
                   /\ fragments'[a][j].active /\ fragments'[a][j].expiresAt > now'
                   /\ fragments'[a][j].requests < MaxRequestsPerFragment})
  BY <1>1, <1>4
<1>. QED BY <1>5 DEF NewestOnly, Usable, FragmentRecord

\* Time asks nothing more of a budget.
LEMMA BudgetStays ==
  ASSUME NEW a, now \in Nat, now' \in Nat, now <= now',
         budget'[a] \in BudgetRecord, unblocked'[a] \in Seq(Nat),
         BudgetOK(budget'[a], unblocked'[a])
  PROVE  BudgetOK(budget[a], unblocked[a])'
<1>. DEFINE u == unblocked'[a]
            b == budget'[a]
<1>1. BudgetWindow \in Nat /\ b.resetsAt \in Nat
  BY BudgetFields, Constants
<1>2. /\ \A i \in 1 .. Len(u) : u[i] <= now /\ u[i] < b.resetsAt
      /\ Cardinality(Through(u, b.resetsAt - BudgetWindow, b.resetsAt))
           <= MaxRequestsPerWindow - b.remaining
      /\ Cardinality(Through(u, b.resetsAt - 2 * BudgetWindow, b.resetsAt - BudgetWindow))
           <= MaxRequestsPerWindow
      /\ b.resetsAt <= now + BudgetWindow
      /\ \A start \in Nat :
           Cardinality(Through(u, start, start + BudgetWindow)) <= 2 * MaxRequestsPerWindow
  BY DEF BudgetOK
<1>3. \A i \in 1 .. Len(u) : u[i] <= now'
  <2>. SUFFICES ASSUME NEW i \in 1 .. Len(u) PROVE u[i] <= now'
    OBVIOUS
  <2>1. u[i] \in Nat /\ u[i] <= now
    BY <1>2
  <2>. HIDE DEF u
  <2>. QED BY ONLY <2>1, now \in Nat, now' \in Nat, now <= now'
<1>4. b.resetsAt <= now' + BudgetWindow
  <2>1. b.resetsAt <= now + BudgetWindow
    BY <1>2
  <2>. HIDE DEF b
  <2>. QED BY ONLY <1>1, <2>1, now \in Nat, now' \in Nat, now <= now'
<1>. QED BY <1>2, <1>3, <1>4 DEF BudgetOK, Through

\* An agent nothing happens to, while time may pass.
LEMMA AgentKept ==
  ASSUME NEW a \in Agents, now \in Nat, now' \in Nat, now <= now',
         AgentOK(a), Budgeted(a),
         accesses'[a] = accesses[a], answer'[a] = answer[a], fragments'[a] = fragments[a],
         personas'[a] = personas[a], bound'[a] = bound[a], budget'[a] = budget[a],
         unblocked'[a] = unblocked[a]
  PROVE  AgentOK(a)' /\ Budgeted(a)'
<1>1. NewestOnly(fragments[a])'
  <2>1. NewestOnly(fragments'[a])
    BY DEF AgentOK
  <2>. QED BY <2>1, NewestStays
<1>2. Budgeted(a)'
  <2>1. budget'[a] \in BudgetRecord /\ unblocked'[a] \in Seq(Nat)
    BY DEF AgentOK
  <2>2. ForceDelayOnExhaustion => BudgetOK(budget'[a], unblocked'[a])
    BY DEF Budgeted
  <2>. QED BY <2>1, <2>2, BudgetStays DEF Budgeted
<1>3. /\ AccessesOK(accesses[a])' /\ (answer[a].behaviour = "deny" => Hot(accesses[a]))'
      /\ BindingsOK(fragments[a], bound[a])' /\ PersonasOK(personas[a], fragments[a])'
      /\ (budget[a] \in BudgetRecord)' /\ (unblocked[a] \in Seq(Nat))'
  <2>1. AccessesOK(accesses[a])' /\ (answer[a].behaviour = "deny" => Hot(accesses[a]))'
    BY DEF AgentOK, AccessesOK, Paired, Hot, Patterns
  <2>2. BindingsOK(fragments[a], bound[a])'
    BY DEF AgentOK, BindingsOK, BoundTo
  <2>3. PersonasOK(personas[a], fragments[a])'
    BY DEF AgentOK, PersonasOK, PersonaRecord
  <2>4. (budget[a] \in BudgetRecord)' /\ (unblocked[a] \in Seq(Nat))'
    BY DEF AgentOK, BudgetRecord
  <2>. QED BY <2>1, <2>2, <2>3, <2>4
<1>. QED BY <1>1, <1>2, <1>3 DEF AgentOK


\* What the initial state gives every agent.
LEMMA Initially == Init => PrivacyInv
<1>. SUFFICES ASSUME Init PROVE PrivacyInv
  OBVIOUS
<1>1. now = 0 /\ served = 0
  BY DEF Init
<1>2. Shapes
  <2>1. NoAnswer \in Answers
    BY DEF NoAnswer, Answers
  <2>2. << >> \in Seq(Nat) /\ Len(<< >>) = 0
    OBVIOUS
  <2>. QED BY <2>1, <2>2, Constants DEF Init, Shapes
<1>3. ASSUME NEW a \in Agents
      PROVE  AgentOK(a) /\ Budgeted(a)
  <2>1. /\ accesses[a] = << >> /\ fragments[a] = << >> /\ personas[a] = << >>
        /\ bound[a] = << >> /\ unblocked[a] = << >> /\ budget[a] = NoBudget
        /\ answer[a].behaviour = "none"
    BY DEF Init, NoAnswer
  <2>2. AccessesOK(<< >>)
    BY Constants DEF AccessesOK, Paired
  <2>3. NewestOnly(<< >>)
    BY DEF NewestOnly
  <2>4. BindingsOK(<< >>, << >>)
    BY DEF BindingsOK
  <2>5. PersonasOK(<< >>, << >>)
    BY DEF PersonasOK
  <2>6. NoBudget \in BudgetRecord /\ NoBudget.resetsAt = 0
        /\ NoBudget.remaining = MaxRequestsPerWindow
    BY Constants DEF NoBudget, BudgetRecord
  <2>7. << >> \in Seq(Nat)
    OBVIOUS
  <2>8. BudgetOK(NoBudget, << >>)
    <3>1. \A from, to \in Int : Through(<< >>, from, to) = {}
      BY DEF Through
    <3>2. \A from, to \in Int : Cardinality(Through(<< >>, from, to)) = 0
      BY <3>1, FS_EmptySet
    <3>. QED BY <1>1, <2>6, <3>2, Constants DEF BudgetOK
  <2>9. AgentOK(a)
    BY <2>1, <2>2, <2>3, <2>4, <2>5, <2>6, <2>7 DEF AgentOK
  <2>10. Budgeted(a)
    BY <2>1, <2>8 DEF Budgeted
  <2>. QED BY <2>9, <2>10
<1>. QED BY <1>2, <1>3 DEF PrivacyInv

\* A refused request: two accesses more, and the next one is refused as well.
LEMMA RefuseKeeps ==
  ASSUME PrivacyInv, NEW a \in Agents, Refuse(a)
  PROVE  PrivacyInv'
<1>1. /\ now \in Nat /\ now' = now /\ now' \in Nat /\ now <= now'
      /\ served \in Nat /\ served' \in Nat
  BY DEF PrivacyInv, Shapes, Refuse, Arrive
<1>2. AgentOK(a) /\ Budgeted(a)
  BY DEF PrivacyInv
<1>3. /\ AccessesOK(accesses[a]) /\ CorrelationRisk(RecordAccess(accesses[a])) = "critical"
  BY <1>2 DEF AgentOK, Refuse, RequestRisk
<1>4. /\ accesses' = [accesses EXCEPT ![a] = Observed(a)]
      /\ accesses'[a] = Observed(a) /\ DOMAIN accesses' = Agents
  BY DEF PrivacyInv, Shapes, Refuse, Arrive
<1>5. Hot(Observed(a)) /\ AccessesOK(Observed(a))
  BY <1>1, <1>3, CriticalStaysHot, ObservedFacts DEF Observed
<1>6. UNCHANGED <<fragments, personas, executions, cooldownUntil, budget, bound, unblocked>>
  BY DEF Refuse
<1>7. /\ answer' = [answer EXCEPT ![a] = [NoAnswer EXCEPT !.behaviour = "deny"]]
      /\ [NoAnswer EXCEPT !.behaviour = "deny"] \in Answers
  BY DEF Refuse, NoAnswer, Answers
<1>8. Shapes'
  <2>1. answer' \in [Agents -> Answers]
    BY <1>7 DEF PrivacyInv, Shapes
  <2>. QED BY <1>1, <1>4, <1>6, <2>1 DEF PrivacyInv, Shapes
<1>9. ASSUME NEW b \in Agents
      PROVE  AgentOK(b)' /\ Budgeted(b)'
  <2>1. CASE b # a
    <3>1. AgentOK(b) /\ Budgeted(b)
      BY DEF PrivacyInv
    <3>2. accesses'[b] = accesses[b] /\ answer'[b] = answer[b]
      BY <1>4, <1>7, <2>1 DEF PrivacyInv, Shapes
    <3>. QED BY <1>1, <1>6, <3>1, <3>2, AgentKept
  <2>2. CASE b = a
    <3>1. AccessesOK(accesses'[a]) /\ Hot(accesses'[a])
      BY <1>4, <1>5
    <3>2. AccessesOK(accesses[a])' /\ Hot(accesses[a])'
      BY <3>1 DEF AccessesOK, Paired, Hot, Patterns
    <3>3. NewestOnly(fragments[a])'
      <4>1. NewestOnly(fragments'[a])
        BY <1>2, <1>6 DEF AgentOK
      <4>. QED BY <1>1, <4>1, NewestStays
    <3>4. Budgeted(a)'
      <4>1. budget'[a] \in BudgetRecord /\ unblocked'[a] \in Seq(Nat)
        BY <1>2, <1>6 DEF AgentOK
      <4>2. ForceDelayOnExhaustion => BudgetOK(budget'[a], unblocked'[a])
        BY <1>2, <1>6 DEF Budgeted
      <4>. QED BY <1>1, <4>1, <4>2, BudgetStays DEF Budgeted
    <3>5. /\ BindingsOK(fragments[a], bound[a])' /\ PersonasOK(personas[a], fragments[a])'
          /\ (budget[a] \in BudgetRecord)' /\ (unblocked[a] \in Seq(Nat))'
      BY <1>2, <1>6 DEF AgentOK, BindingsOK, BoundTo, PersonasOK, PersonaRecord, BudgetRecord
    <3>. QED BY <2>2, <3>2, <3>3, <3>4, <3>5 DEF AgentOK
  <2>. QED BY <2>1, <2>2
<1>. QED BY <1>8, <1>9 DEF PrivacyInv


\* The end of a cooldown is a time.
LEMMA CooldownFacts ==
  ASSUME NEW a \in Agents, now \in Nat, cooldownUntil \in [Agents -> Nat]
  PROVE  CooldownAfter(a) \in Nat
BY Constants DEF CooldownAfter

\* The agent whose request goes through the pipeline.
LEMMA ContinueAgent ==
  ASSUME PrivacyInv, NEW a \in Agents, NEW topic \in Topics, Continue(a, topic)
  PROVE  AgentOK(a)' /\ Budgeted(a)'
<1>1. now \in Nat /\ now' = now /\ now' \in Nat /\ now <= now'
  BY DEF PrivacyInv, Shapes, Continue, Arrive
<1>2. AgentOK(a) /\ Budgeted(a)
  BY DEF PrivacyInv
<1>3. /\ DOMAIN accesses = Agents /\ DOMAIN fragments = Agents /\ DOMAIN personas = Agents
      /\ DOMAIN budget = Agents /\ DOMAIN bound = Agents /\ DOMAIN unblocked = Agents
      /\ DOMAIN answer = Agents
  BY DEF PrivacyInv, Shapes
<1>. DEFINE fs == fragments[a]
            gs == WithActive(Fragmented(a))
            g == ActiveFragment(Fragmented(a))
            ps == personas[a]
<1>4. accesses'[a] = Observed(a)
  BY <1>3 DEF Continue, Arrive
<1>5. /\ fragments'[a] = gs /\ bound'[a] = Append(bound[a], g)
      /\ personas'[a] = Search(GetOrCreatePersona(ps, topic), topic, g)
  BY <1>3 DEF Continue
<1>6. budget'[a] = Consume(budget[a])
  BY <1>3 DEF Continue
<1>7. unblocked'[a] = IF TemporalAction(a) = "temporary_block" THEN unblocked[a]
                      ELSE Append(unblocked[a], now)
  BY <1>3 DEF Continue
<1>8. answer'[a].behaviour # "deny"
  <2>1. RequestRisk(a) # "critical"
    BY DEF Continue
  <2>2. answer'[a].behaviour = BehaviouralAction(RequestRisk(a))
    BY <1>3 DEF Continue
  <2>3. RequestRisk(a) \in {"low", "medium", "high"}
    BY <2>1, CriticalIsScore DEF RequestRisk
  <2>. QED BY <2>2, <2>3 DEF BehaviouralAction
<1>9. AccessesOK(accesses[a])'
  <2>1. AccessesOK(accesses'[a])
    BY <1>1, <1>2, <1>4, ObservedFacts DEF AgentOK, Observed
  <2>. QED BY <2>1 DEF AccessesOK, Paired
<1>10. Moves(fs, gs, g)
  <2>1. NewestOnly(fs)
    BY <1>2 DEF AgentOK
  <2>2. CASE RequestRisk(a) = "high"
    <3>1. Fragmented(a) = RotateFragment(fs)
      BY <2>2 DEF Fragmented
    <3>. QED BY <1>1, <2>1, <3>1, RotationMoves
  <2>3. CASE RequestRisk(a) # "high"
    <3>1. Fragmented(a) = RecordRequest(fs)
      BY <2>3 DEF Fragmented
    <3>. QED BY <1>1, <2>1, <3>1, RecordingMoves
  <2>. QED BY <2>2, <2>3
<1>11. NewestOnly(fs) /\ BindingsOK(fs, bound[a]) /\ PersonasOK(ps, fs)
  BY <1>2 DEF AgentOK
<1>. HIDE DEF fs, gs, g, ps
<1>12. NewestOnly(fragments[a])'
  <2>1. NewestOnly(fragments'[a])
    BY <1>5, <1>10 DEF Moves
  <2>. QED BY <1>1, <2>1, NewestStays
<1>13. BindingsOK(fragments[a], bound[a])'
  <2>1. BindingsOK(gs, Append(bound[a], g))
    BY <1>10, <1>11, BindingsMove
  <2>2. BindingsOK(fragments'[a], bound'[a])
    BY <1>5, <2>1
  <2>. QED BY <2>2 DEF BindingsOK, BoundTo
<1>14. PersonasOK(personas[a], fragments[a])'
  <2>1. /\ Len(fs) \in Nat /\ Len(gs) \in Nat /\ Len(fs) <= Len(gs) /\ g \in 1 .. Len(gs)
    BY <1>10, <1>11 DEF Moves, NewestOnly
  <2>2. PersonasOK(Search(GetOrCreatePersona(ps, topic), topic, g), gs)
    BY <1>11, <2>1, SearchFacts DEF Advances
  <2>3. PersonasOK(personas'[a], fragments'[a])
    BY <1>5, <2>2
  <2>. QED BY <2>3 DEF PersonasOK, PersonaRecord
<1>15. budget[a] \in BudgetRecord /\ unblocked[a] \in Seq(Nat)
  BY <1>2 DEF AgentOK
<1>16. budget'[a] \in BudgetRecord /\ unblocked'[a] \in Seq(Nat)
  BY <1>1, <1>6, <1>7, <1>15, ConsumeFacts
<1>17. Budgeted(a)'
  <2>. SUFFICES ASSUME ForceDelayOnExhaustion PROVE BudgetOK(budget[a], unblocked[a])'
    BY DEF Budgeted
  <2>1. BudgetOK(budget[a], unblocked[a])
    BY <1>2 DEF Budgeted
  <2>2. TemporalAction(a) = "temporary_block" <=>
          now < budget[a].resetsAt /\ budget[a].remaining = 0
    BY DEF TemporalAction, Exhausted
  <2>3. BudgetOK(budget'[a], unblocked'[a])
    BY <1>1, <1>6, <1>7, <1>15, <2>1, <2>2, BudgetMoves
  <2>. QED BY <1>1, <1>16, <2>3, BudgetStays
<1>18. (budget[a] \in BudgetRecord)' /\ (unblocked[a] \in Seq(Nat))'
  BY <1>16 DEF BudgetRecord
<1>. QED BY <1>8, <1>9, <1>12, <1>13, <1>14, <1>17, <1>18 DEF AgentOK

\* A request that goes through the whole pipeline.
LEMMA ContinueKeeps ==
  ASSUME PrivacyInv, NEW a \in Agents, NEW topic \in Topics, Continue(a, topic)
  PROVE  PrivacyInv'
<1>1. /\ now \in Nat /\ now' = now /\ now' \in Nat /\ now <= now'
      /\ served \in Nat /\ served' \in Nat
  BY DEF PrivacyInv, Shapes, Continue, Arrive
<1>2. Shapes'
  <2>1. /\ DOMAIN accesses' = Agents /\ DOMAIN fragments' = Agents
        /\ DOMAIN personas' = Agents /\ DOMAIN budget' = Agents /\ DOMAIN bound' = Agents
        /\ DOMAIN unblocked' = Agents
    BY DEF PrivacyInv, Shapes, Continue, Arrive
  <2>2. answer' \in [Agents -> Answers]
    <3>. DEFINE n == Isolation(personas[a], topic).newFragment
                ans == [behaviour |-> BehaviouralAction(RequestRisk(a)),
                        temporal |-> TemporalAction(a),
                        persona |-> IF n THEN "rotate_fragment" ELSE "allow"]
    <3>1. answer' = [answer EXCEPT ![a] = ans]
      BY DEF Continue
    <3>2. ans \in Answers
      <4>1. RequestRisk(a) \in {"low", "medium", "high"}
        BY CriticalIsScore DEF Continue, RequestRisk
      <4>2. BehaviouralAction(RequestRisk(a)) \in {"allow", "delay", "rotate_fragment"}
        BY <4>1 DEF BehaviouralAction
      <4>3. TemporalAction(a) \in {"allow", "delay", "cooldown", "temporary_block"}
        BY DEF TemporalAction
      <4>. HIDE DEF n
      <4>. QED BY <4>2, <4>3 DEF Answers
    <3>. HIDE DEF ans
    <3>. QED BY <3>1, <3>2 DEF PrivacyInv, Shapes
  <2>3. /\ executions' \in [Agents -> Seq(Nat)]
        /\ \A b \in Agents : Len(executions'[b]) <= RecentLimit
    <3>. DEFINE s == Append(executions[a], now)
                r == Latest(s, RecentLimit)
    <3>1. /\ executions \in [Agents -> Seq(Nat)]
          /\ \A b \in Agents : Len(executions[b]) <= RecentLimit
      BY DEF PrivacyInv, Shapes
    <3>2. executions' = [executions EXCEPT ![a] = r]
      BY DEF Continue
    <3>3. s \in Seq(Nat) /\ Len(s) \in Nat /\ RecentLimit \in Nat
      BY <1>1, <3>1, Constants
    <3>. HIDE DEF s
    <3>4. r \in Seq(Nat) /\ Len(r) <= RecentLimit
      BY <3>3, LatestFacts
    <3>. HIDE DEF r
    <3>5. executions' \in [Agents -> Seq(Nat)]
      BY <3>1, <3>2, <3>4
    <3>6. \A b \in Agents : executions'[b] = IF b = a THEN r ELSE executions[b]
      BY <3>1, <3>2
    <3>. QED BY <3>1, <3>4, <3>5, <3>6
  <2>4. cooldownUntil' \in [Agents -> Nat]
    <3>1. cooldownUntil \in [Agents -> Nat]
      BY DEF PrivacyInv, Shapes
    <3>2. CooldownAfter(a) \in Nat
      BY <1>1, <3>1, CooldownFacts
    <3>3. cooldownUntil' = [cooldownUntil EXCEPT ![a] = CooldownAfter(a)]
      BY DEF Continue
    <3>. QED BY <3>1, <3>2, <3>3
  <2>. QED BY <1>1, <2>1, <2>2, <2>3, <2>4 DEF Shapes
<1>3. ASSUME NEW b \in Agents
      PROVE  AgentOK(b)' /\ Budgeted(b)'
  <2>1. CASE b # a
    <3>1. AgentOK(b) /\ Budgeted(b)
      BY DEF PrivacyInv
    <3>2. /\ accesses'[b] = accesses[b] /\ answer'[b] = answer[b]
          /\ fragments'[b] = fragments[b] /\ personas'[b] = personas[b]
      BY <2>1 DEF PrivacyInv, Shapes, Continue, Arrive
    <3>3. /\ bound'[b] = bound[b] /\ budget'[b] = budget[b] /\ unblocked'[b] = unblocked[b]
      BY <2>1 DEF PrivacyInv, Shapes, Continue
    <3>. QED BY <1>1, <3>1, <3>2, <3>3, AgentKept
  <2>2. CASE b = a
    BY <2>2, ContinueAgent
  <2>. QED BY <2>1, <2>2
<1>. QED BY <1>2, <1>3 DEF PrivacyInv


\* A step that does no more than open windows which are due.
LEMMA OpeningKeeps ==
  ASSUME PrivacyInv, DOMAIN budget' = Agents,
         \A a \in Agents : \/ budget'[a] = budget[a]
                           \/ now >= budget[a].resetsAt /\ budget'[a] = FullBudget,
         UNCHANGED <<accesses, fragments, personas, executions, cooldownUntil, answer,
                     bound, unblocked, served, now>>
  PROVE  PrivacyInv'
<1>1. now \in Nat /\ now' \in Nat /\ now <= now'
  BY DEF PrivacyInv, Shapes
<1>2. Shapes'
  BY DEF PrivacyInv, Shapes
<1>3. ASSUME NEW a \in Agents
      PROVE  AgentOK(a)' /\ Budgeted(a)'
  <2>1. AgentOK(a) /\ Budgeted(a)
    BY DEF PrivacyInv
  <2>2. CASE budget'[a] = budget[a]
    BY <1>1, <2>1, <2>2, AgentKept
  <2>3. CASE now >= budget[a].resetsAt /\ budget'[a] = FullBudget
    <3>1. budget[a] \in BudgetRecord /\ unblocked[a] \in Seq(Nat)
      BY <2>1 DEF AgentOK
    <3>2. budget'[a] \in BudgetRecord /\ unblocked'[a] \in Seq(Nat)
      BY <1>1, <2>3, <3>1, FullBudgetFields
    <3>3. ForceDelayOnExhaustion => BudgetOK(budget'[a], unblocked'[a])
      BY <1>1, <2>1, <2>3, <3>1, WindowOpens DEF Budgeted
    <3>4. Budgeted(a)'
      BY <1>1, <3>2, <3>3, BudgetStays DEF Budgeted
    <3>5. NewestOnly(fragments[a])'
      <4>1. NewestOnly(fragments'[a])
        BY <2>1 DEF AgentOK
      <4>. QED BY <1>1, <4>1, NewestStays
    <3>6. /\ AccessesOK(accesses[a])' /\ (answer[a].behaviour = "deny" => Hot(accesses[a]))'
          /\ BindingsOK(fragments[a], bound[a])' /\ PersonasOK(personas[a], fragments[a])'
      BY <2>1 DEF AgentOK, AccessesOK, Paired, Hot, Patterns, BindingsOK, BoundTo, PersonasOK,
                  PersonaRecord
    <3>7. (budget[a] \in BudgetRecord)' /\ (unblocked[a] \in Seq(Nat))'
      BY <3>2 DEF BudgetRecord
    <3>. QED BY <3>4, <3>5, <3>6, <3>7 DEF AgentOK
  <2>. QED BY <2>2, <2>3
<1>. QED BY <1>2, <1>3 DEF PrivacyInv

\* The clock moves, and a step that changes nothing.
LEMMA PassingKeeps ==
  ASSUME PrivacyInv, Tick \/ UNCHANGED vars
  PROVE  PrivacyInv'
<1>1. /\ now \in Nat /\ now' \in Nat /\ now <= now'
      /\ UNCHANGED <<accesses, fragments, personas, executions, cooldownUntil, budget,
                     answer, bound, unblocked, served>>
  BY DEF PrivacyInv, Shapes, Tick, vars
<1>2. Shapes'
  BY <1>1 DEF PrivacyInv, Shapes
<1>3. ASSUME NEW a \in Agents
      PROVE  AgentOK(a)' /\ Budgeted(a)'
  <2>1. AgentOK(a) /\ Budgeted(a)
    BY DEF PrivacyInv
  <2>. QED BY <1>1, <2>1, AgentKept
<1>. QED BY <1>2, <1>3 DEF PrivacyInv

\* Every step keeps the invariant.
LEMMA StepKeeps == PrivacyInv /\ [Next]_vars => PrivacyInv'
<1>. SUFFICES ASSUME PrivacyInv, [Next]_vars PROVE PrivacyInv'
  OBVIOUS
<1>1. ASSUME NEW a \in Agents, Refuse(a) PROVE PrivacyInv'
  BY <1>1, RefuseKeeps
<1>2. ASSUME NEW a \in Agents, NEW topic \in Topics, Continue(a, topic) PROVE PrivacyInv'
  BY <1>2, ContinueKeeps
<1>3. ASSUME NEW a \in Agents, GetBudget(a) PROVE PrivacyInv'
  <2>1. now \in Nat /\ DOMAIN budget = Agents
    BY DEF PrivacyInv, Shapes
  <2>2. now >= budget[a].resetsAt
    BY <1>3, <2>1 DEF GetBudget, NoBudget
  <2>3. /\ DOMAIN budget' = Agents
        /\ \A b \in Agents : \/ budget'[b] = budget[b]
                             \/ now >= budget[b].resetsAt /\ budget'[b] = FullBudget
    BY <1>3, <2>1, <2>2 DEF GetBudget
  <2>. QED BY <1>3, <2>3, OpeningKeeps DEF GetBudget
<1>4. ASSUME ListBudgets PROVE PrivacyInv'
  <2>1. /\ DOMAIN budget' = Agents
        /\ \A b \in Agents : \/ budget'[b] = budget[b]
                             \/ now >= budget[b].resetsAt /\ budget'[b] = FullBudget
    BY <1>4 DEF ListBudgets
  <2>. QED BY <1>4, <2>1, OpeningKeeps DEF ListBudgets
<1>5. CASE Tick \/ UNCHANGED vars
  BY <1>5, PassingKeeps
<1>. QED BY <1>1, <1>2, <1>3, <1>4, <1>5 DEF Next

-----------------------------------------------------------------------------
(* What it gives. *)

\* PrivacyInv holds in every reachable state.
THEOREM PrivacyInvariant == Spec => []PrivacyInv
<1>. QED BY Initially, StepKeeps, PTL DEF Spec

\* Every variable holds a value of its type: the accesses and executions kept are
\* bounded, no fragment counts more requests than it may, and personas and
\* bindings name fragments that exist.
THEOREM PrivacyTypes == Spec => []TypeOK
<1>1. PrivacyInv => TypeOK
  <2>. SUFFICES ASSUME PrivacyInv, NEW a \in Agents
                PROVE  /\ Len(accesses[a]) <= AccessLimit /\ Len(executions[a]) <= RecentLimit
                       /\ \A i \in DOMAIN fragments[a] :
                            fragments[a][i].requests \in 0 .. MaxRequestsPerFragment
                       /\ \A i \in DOMAIN personas[a] :
                            /\ personas[a][i].topic \in Topics
                            /\ personas[a][i].fragments \subseteq DOMAIN fragments[a]
                       /\ budget[a].remaining \in 0 .. MaxRequestsPerWindow
                       /\ \A i \in DOMAIN bound[a] : bound[a][i] \in DOMAIN fragments[a]
    BY DEF TypeOK
  <2>1. AgentOK(a)
    BY DEF PrivacyInv
  <2>2. Len(accesses[a]) <= AccessLimit /\ Len(executions[a]) <= RecentLimit
    BY <2>1 DEF AgentOK, AccessesOK, PrivacyInv, Shapes
  <2>3. /\ fragments[a] \in Seq(FragmentRecord)
        /\ DOMAIN fragments[a] = 1 .. Len(fragments[a])
    BY <2>1 DEF AgentOK, NewestOnly
  <2>4. \A i \in DOMAIN fragments[a] : fragments[a][i] \in FragmentRecord
    BY <2>3
  <2>5. \A f \in FragmentRecord : f.requests \in 0 .. MaxRequestsPerFragment
    BY DEF FragmentRecord
  <2>6. \A i \in DOMAIN personas[a] : personas[a][i] \in PersonaRecord(fragments[a])
    BY <2>1 DEF AgentOK, PersonasOK
  <2>7. \A p \in PersonaRecord(fragments[a]) :
          p.topic \in Topics /\ p.fragments \subseteq 1 .. Len(fragments[a])
    BY DEF PersonaRecord
  <2>8. budget[a].remaining \in 0 .. MaxRequestsPerWindow
    BY <2>1 DEF AgentOK, BudgetRecord
  <2>9. \A i \in DOMAIN bound[a] : bound[a][i] \in 1 .. Len(fragments[a])
    BY <2>1 DEF AgentOK, BindingsOK
  <2>. QED BY <2>2, <2>3, <2>4, <2>5, <2>6, <2>7, <2>8, <2>9
<1>. QED BY <1>1, PrivacyInvariant, PTL

\* An agent's identity only moves forward, and no fragment serves more searches
\* than it may, although a request can be counted on one and bound to the next.
THEOREM FragmentsMoveForward == Spec => []IdentityMovesForward
<1>1. PrivacyInv => IdentityMovesForward
  <2>. SUFFICES ASSUME PrivacyInv, NEW a \in Agents
                PROVE  /\ \A i \in 2 .. Len(bound[a]) : bound[a][i - 1] <= bound[a][i]
                       /\ \A f \in DOMAIN fragments[a] :
                            Cardinality({i \in DOMAIN bound[a] : bound[a][i] = f})
                              <= MaxRequestsPerFragment
    BY DEF IdentityMovesForward
  <2>1. BindingsOK(fragments[a], bound[a]) /\ DOMAIN fragments[a] = 1 .. Len(fragments[a])
    BY DEF PrivacyInv, AgentOK, NewestOnly
  <2>. QED BY <2>1 DEF BindingsOK, BoundTo
<1>. QED BY <1>1, PrivacyInvariant, PTL

\* Where an exhausted budget delays, as it does by default, no stretch of one
\* window lets through more than two budgets, however the windows are moved.
THEOREM DensityBounded == ForceDelayOnExhaustion => (Spec => []DensityIsBounded)
<1>. SUFFICES ASSUME ForceDelayOnExhaustion PROVE Spec => []DensityIsBounded
  OBVIOUS
<1>1. PrivacyInv => DensityIsBounded
  <2>. SUFFICES ASSUME PrivacyInv, NEW a \in Agents, NEW start \in 0 .. MaxTime
                PROVE  Cardinality({i \in DOMAIN unblocked[a] :
                         unblocked[a][i] >= start /\ unblocked[a][i] < start + BudgetWindow})
                           <= 2 * MaxRequestsPerWindow
    BY DEF DensityIsBounded
  <2>1. BudgetOK(budget[a], unblocked[a])
    BY DEF PrivacyInv, Budgeted
  <2>2. start \in Nat
    OBVIOUS
  <2>. QED BY <2>1, <2>2 DEF BudgetOK, Through
<1>. QED BY <1>1, PrivacyInvariant, PTL

\* A refusal for critical correlation is for ever: a refused request adds two
\* accesses, and those that fall out take two that were a pair with them.
THEOREM LockedOut == Spec => LockoutIsForever
<1>1. ASSUME PrivacyInv, [Next]_vars, NEW a \in Agents, answer[a].behaviour = "deny"
      PROVE  answer'[a].behaviour = "deny"
  <2>1. DOMAIN answer = Agents /\ now \in Nat
    BY <1>1 DEF PrivacyInv, Shapes
  <2>2. RequestRisk(a) = "critical"
    BY <1>1, <2>1, HotIsCritical DEF PrivacyInv, AgentOK, RequestRisk
  <2>3. ASSUME NEW b \in Agents, Refuse(b) PROVE answer'[a].behaviour = "deny"
    <3>1. answer' = [answer EXCEPT ![b] = [NoAnswer EXCEPT !.behaviour = "deny"]]
      BY <2>3 DEF Refuse
    <3>2. [NoAnswer EXCEPT !.behaviour = "deny"].behaviour = "deny"
      BY DEF NoAnswer
    <3>. QED BY <1>1, <2>1, <3>1, <3>2
  <2>4. ASSUME NEW b \in Agents, NEW topic \in Topics, Continue(b, topic)
        PROVE  answer'[a].behaviour = "deny"
    <3>1. a # b
      BY <2>2, <2>4 DEF Continue
    <3>2. answer'[a] = answer[a]
      BY <2>1, <2>4, <3>1 DEF Continue
    <3>. QED BY <1>1, <3>2
  <2>5. CASE UNCHANGED answer
    BY <1>1, <2>5
  <2>. QED BY <1>1, <2>3, <2>4, <2>5 DEF Next, GetBudget, ListBudgets, Tick, vars
<1>2. PrivacyInv /\ [Next]_vars =>
        [\A a \in Agents : answer[a].behaviour = "deny" => answer'[a].behaviour = "deny"]_vars
  BY <1>1
<1>. QED BY <1>2, PrivacyInvariant, PTL DEF Spec, LockoutIsForever

\* The personas implement the counts of IdentityEngines: the decision about a
\* topic is the abstract one, and a step advances its count as the abstract
\* search does or leaves it alone.
THEOREM PersonasAreCounts == Spec => PersonasImplementCounts
<1>1. ASSUME PrivacyInv, [Next]_vars, NEW a \in Agents, NEW topic \in Topics
      PROVE  /\ Isolation(personas[a], topic)
                  = PersonaDecision(Searches(personas[a], topic), topic)
             /\ Searches(personas'[a], topic) \in
                  {Searches(personas[a], topic), Searched(Searches(personas[a], topic))}
  <2>1. /\ PersonasOK(personas[a], fragments[a]) /\ NewestOnly(fragments[a])
        /\ now \in Nat /\ DOMAIN personas = Agents
    BY <1>1 DEF PrivacyInv, AgentOK, Shapes
  <2>2. Isolation(personas[a], topic) = PersonaDecision(Searches(personas[a], topic), topic)
    BY <2>1, IsolationIsDecision
  <2>3. ASSUME NEW b \in Agents, NEW t \in Topics, Continue(b, t)
        PROVE  Searches(personas'[a], topic) \in
                 {Searches(personas[a], topic), Searched(Searches(personas[a], topic))}
    <3>1. CASE a # b
      <4>1. personas'[a] = personas[a]
        BY <2>1, <2>3, <3>1 DEF Continue
      <4>. QED BY <4>1
    <3>2. CASE a = b
      <4>. DEFINE gs == WithActive(Fragmented(a))
                  g == ActiveFragment(Fragmented(a))
      <4>1. Moves(fragments[a], gs, g)
        BY <2>1, RotationMoves, RecordingMoves DEF Fragmented
      <4>2. personas'[a] = Search(GetOrCreatePersona(personas[a], t), t, g)
        BY <2>1, <2>3, <3>2 DEF Continue
      <4>. HIDE DEF gs, g
      <4>3. /\ Len(fragments[a]) \in Nat /\ Len(gs) \in Nat
            /\ Len(fragments[a]) <= Len(gs) /\ g \in 1 .. Len(gs)
        BY <2>1, <4>1 DEF Moves, NewestOnly
      <4>4. /\ Searches(personas'[a], t) = Searched(Searches(personas[a], t))
            /\ \A other \in Topics \ {t} :
                 Searches(personas'[a], other) = Searches(personas[a], other)
        <5>. DEFINE ps == personas[a]
                    fs == fragments[a]
        <5>1. /\ t \in Topics /\ PersonasOK(ps, fs) /\ Len(fs) \in Nat
              /\ Len(fs) <= Len(gs) /\ personas'[a] = Search(GetOrCreatePersona(ps, t), t, g)
          BY <2>1, <4>2, <4>3
        <5>. HIDE DEF ps, fs
        <5>2. Advances(ps, personas'[a], gs, t)
          BY ONLY <4>3, <5>1, SearchFacts
        <5>. QED BY <5>2 DEF Advances, ps
      <4>5. CASE topic = t
        BY <4>4, <4>5
      <4>6. CASE topic # t
        BY <4>4, <4>6
      <4>. QED BY <4>5, <4>6
    <3>. QED BY <3>1, <3>2
  <2>4. CASE UNCHANGED personas
    BY <2>2, <2>4
  <2>5. \/ \E b \in Agents, t \in Topics : Continue(b, t)
        \/ UNCHANGED personas
    BY <1>1 DEF Next, Refuse, GetBudget, ListBudgets, Tick, vars
  <2>6. Searches(personas'[a], topic) \in
          {Searches(personas[a], topic), Searched(Searches(personas[a], topic))}
    BY <2>3, <2>4, <2>5
  <2>. QED BY <2>2, <2>6
<1>2. PrivacyInv /\ [Next]_vars =>
        [\A a \in Agents, topic \in Topics :
           /\ Isolation(personas[a], topic)
                = PersonaDecision(Searches(personas[a], topic), topic)
           /\ Searches(personas'[a], topic) \in
                {Searches(personas[a], topic), Searched(Searches(personas[a], topic))}]_vars
  BY <1>1
<1>. QED BY <1>2, PrivacyInvariant, PTL DEF Spec, PersonasImplementCounts
==============================================================================
