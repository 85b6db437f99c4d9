---------------------------- MODULE MeasureProofs ----------------------------
(***************************************************************************)
(* For any browser, any cuts of its hello and any reads of it, the         *)
(* recorder has the hello that was sent and no byte more; whatever else is *)
(* kept, what a command saved last is what its names mean, and a family    *)
(* means its newest member that was measured.                              *)
(*                                                                         *)
(* The parser and the look-up of a family are folds, recursive functions   *)
(* over finite sets: FoldExists shows that there is a function with their  *)
(* equations, by induction over a set of naturals (AllNat).                *)
(***************************************************************************)
EXTENDS Measure, FiniteSetTheorems, SequenceTheorems, WellFoundedInduction, TLAPS

-----------------------------------------------------------------------------
(* Folds. *)

\* A set of naturals that is not empty has a least element, ...
LEMMA LeastNat ==
  ASSUME NEW T \in SUBSET Nat, T # {}
  PROVE  \E x \in T : \A y \in T : x <= y
<1>1. PICK R : IsWellFoundedOn(R, Nat) /\ \A x, y \in Nat : y < x => <<y, x>> \in R
  <2>1. \A x, y \in Nat : y < x => <<y, x>> \in OpToRel(<, Nat)
    BY DEF OpToRel
  <2> QED BY <2>1, NatLessThanWellFounded, Zenon
<1>2. PICK x \in T : \A y \in T : ~ (<<y, x>> \in R)
  BY <1>1, WFMin, Zenon
<1>3. \A y \in T : x <= y
  <2> SUFFICES ASSUME NEW y \in T PROVE x <= y
    OBVIOUS
  <2>1. x \in Nat /\ y \in Nat
    OBVIOUS
  <2>2. ~(y < x)
    BY <1>1, <1>2, <2>1
  <2> QED BY <2>1, <2>2
<1> QED BY <1>3

\* ... so that a set of them with 0 and with each one's successor has them all.
LEMMA AllNat ==
  ASSUME NEW T \in SUBSET Nat, 0 \in T, \A n \in T : n + 1 \in T
  PROVE  T = Nat
<1> SUFFICES ASSUME Nat \ T # {} PROVE FALSE
  OBVIOUS
<1>1. PICK x \in Nat \ T : \A y \in Nat \ T : x <= y
  <2> DEFINE U == Nat \ T
  <2>1. U \in SUBSET Nat /\ U # {}
    OBVIOUS
  <2> HIDE DEF U
  <2>2. PICK x \in U : \A y \in U : x <= y
    BY <2>1, LeastNat
  <2> QED BY <2>2 DEF U
<1>2. x # 0 /\ x - 1 \in Nat /\ x - 1 + 1 = x
  BY <1>1
<1>3. x - 1 \in T
  BY <1>1, <1>2
<1> QED BY <1>1, <1>2, <1>3

\* A fold as a function of what is left to go through: pick says which is next, act what
\* becomes of the result.
Goes(S, base, pick, act, f, s) ==
    f[s] = IF s = {} THEN base ELSE act[pick[s]][f[s \ {pick[s]}]]

LEMMA FoldExists ==
  ASSUME NEW S, IsFiniteSet(S), NEW A, NEW base \in A,
         NEW pick, \A s \in SUBSET S : s # {} => pick[s] \in s,
         NEW act, \A x \in S, a \in A : act[x][a] \in A
  PROVE  \E f \in [SUBSET S -> A] : \A s \in SUBSET S : Goes(S, base, pick, act, f, s)
<1> DEFINE Upto(n, f) == \A s \in SUBSET S : Cardinality(s) <= n => Goes(S, base, pick, act, f, s)
           T == {n \in Nat : \E f \in [SUBSET S -> A] : Upto(n, f)}
<1>1. \A s \in SUBSET S : IsFiniteSet(s) /\ Cardinality(s) \in Nat /\ Cardinality(s) <= Cardinality(S)
  BY FS_Subset, FS_CardinalityType
<1>2. 0 \in T
  <2> DEFINE f == [s \in SUBSET S |-> base]
  <2>1. ASSUME NEW s \in SUBSET S, Cardinality(s) <= 0 PROVE Goes(S, base, pick, act, f, s)
    <3>1. s = {}
      BY <1>1, <2>1, FS_EmptySet
    <3> QED BY <3>1 DEF Goes
  <2>2. f \in [SUBSET S -> A] /\ Upto(0, f)
    BY <2>1
  <2> QED BY <2>2
<1>3. ASSUME NEW n \in T PROVE n + 1 \in T
  <2>1. PICK f \in [SUBSET S -> A] : Upto(n, f)
    OBVIOUS
  <2> DEFINE g == [s \in SUBSET S |-> IF s = {} THEN base ELSE act[pick[s]][f[s \ {pick[s]}]]]
  <2>2. g \in [SUBSET S -> A]
    <3> SUFFICES ASSUME NEW s \in SUBSET S, s # {} PROVE act[pick[s]][f[s \ {pick[s]}]] \in A
      OBVIOUS
    <3>1. pick[s] \in S /\ s \ {pick[s]} \in SUBSET S
      OBVIOUS
    <3>2. f[s \ {pick[s]}] \in A
      BY <3>1
    <3> QED BY <3>1, <3>2
  <2>3. ASSUME NEW s \in SUBSET S, Cardinality(s) <= n + 1 PROVE Goes(S, base, pick, act, g, s)
    <3>1. CASE s = {}
      BY <3>1 DEF Goes
    <3>2. CASE s # {}
      <4> DEFINE x == pick[s]
                 r == s \ {pick[s]}
      <4>1. x \in s /\ r \in SUBSET S
        BY <3>2
      <4>2. Cardinality(r) = Cardinality(s) - 1
        BY <1>1, <4>1, FS_RemoveElement
      <4>3. Cardinality(r) <= n
        BY <1>1, <2>3, <4>2
      <4>4. f[r] = IF r = {} THEN base ELSE act[pick[r]][f[r \ {pick[r]}]]
        <5> HIDE DEF r
        <5> QED BY <2>1, <4>1, <4>3 DEF Goes
      <4>5. g[r] = f[r]
        <5> HIDE DEF r
        <5> QED BY <4>1, <4>4
      <4> HIDE DEF g
      <4>6. g[s] = act[x][f[r]]
        BY <3>2 DEF g
      <4> QED BY <3>2, <4>5, <4>6 DEF Goes
    <3> QED BY <3>1, <3>2
  <2> HIDE DEF g
  <2> QED BY <2>2, <2>3
<1>4. T = Nat
  <2>1. T \in SUBSET Nat /\ \A n \in T : n + 1 \in T
    BY <1>3
  <2> HIDE DEF T
  <2> QED BY <1>2, <2>1, AllNat
<1>5. PICK f \in [SUBSET S -> A] : Upto(Cardinality(S), f)
  BY <1>1, <1>4 DEF T
<1> QED BY <1>1, <1>5

-----------------------------------------------------------------------------
(* Families. *)

\* The fold of newestInFamily.
Starts == [name |-> None, profile |-> NotFound]
Found(a, d, n) == [name |-> n, profile |-> Resolve(a, d, n)]
Better(a, d, n, best) == IF Before(Resolve(a, d, n), n, best) THEN Found(a, d, n) ELSE best
SomeOf(s) == CHOOSE n \in s : TRUE
Newest(a, d, M, f) ==
    f = [s \in SUBSET M |-> IF s = {} THEN Starts ELSE Better(a, d, SomeOf(s), f[s \ {SomeOf(s)}])]

LEMMA NewestExists ==
  ASSUME NEW a, NEW d, NEW M, IsFiniteSet(M)
  PROVE  \E f : Newest(a, d, M, f)
<1> DEFINE A    == {Starts} \cup {Found(a, d, n) : n \in M}
           pick == [s \in SUBSET M |-> SomeOf(s)]
           act  == [n \in M |-> [best \in A |-> Better(a, d, n, best)]]
<1>1. \A s \in SUBSET M : s # {} => SomeOf(s) \in s
  BY DEF SomeOf
<1>2. \A s \in SUBSET M : s # {} => pick[s] \in s
  BY <1>1
<1>3. \A n \in M, best \in A : act[n][best] = Better(a, d, n, best) /\ act[n][best] \in A
  BY DEF Better
<1>4. Starts \in A
  OBVIOUS
<1>5. \A s \in SUBSET M : pick[s] = SomeOf(s)
  OBVIOUS
<1> HIDE DEF A, pick, act
<1>6. PICK f \in [SUBSET M -> A] : \A s \in SUBSET M : Goes(M, Starts, pick, act, f, s)
  BY <1>2, <1>3, <1>4, FoldExists
<1>7. ASSUME NEW s \in SUBSET M
      PROVE  f[s] = IF s = {} THEN Starts ELSE Better(a, d, SomeOf(s), f[s \ {SomeOf(s)}])
  <2>1. CASE s = {}
    BY <1>6, <2>1 DEF Goes
  <2>2. CASE s # {}
    <3>1. SomeOf(s) \in M /\ s \ {SomeOf(s)} \in SUBSET M
      BY <1>1, <2>2
    <3>2. f[s \ {SomeOf(s)}] \in A
      BY <3>1
    <3>3. f[s] = act[SomeOf(s)][f[s \ {SomeOf(s)}]]
      BY <1>5, <1>6, <2>2 DEF Goes
    <3> QED BY <1>3, <2>2, <3>1, <3>2, <3>3
  <2> QED BY <2>1, <2>2
<1>8. f = [s \in SUBSET M |-> f[s]]
  OBVIOUS
<1>9. Newest(a, d, M, f)
  BY <1>7, <1>8 DEF Newest
<1> QED BY <1>9

\* best is, of the names gone through, the newest that is measured, or the newest.
Leading(a, d, s, best) ==
    /\ best.name \in s /\ best.profile = Resolve(a, d, best.name)
    /\ \A n \in s :
         /\ IsMeasured(best.profile) \/ Number[Last(best.name)] >= Number[Last(n)]
         /\ HasHandshake(a, d, n) =>
              IsMeasured(best.profile) /\ Number[Last(best.name)] >= Number[Last(n)]

\* One more name.
LEMMA OneMoreName ==
  ASSUME NEW a, NEW d, NEW s, NEW n, n \notin s, n # None, None \notin s,
         \A m \in s \cup {n} : Number[Last(m)] \in Nat,
         NEW best, s = {} => best = Starts, s # {} => Leading(a, d, s, best)
  PROVE  Leading(a, d, s \cup {n}, Better(a, d, n, best))
<1> DEFINE new == Found(a, d, n)
<1>1. new.name = n /\ new.profile = Resolve(a, d, n)
  BY DEF Found
<1>2. HasHandshake(a, d, n) <=> IsMeasured(new.profile)
  BY <1>1 DEF HasHandshake
<1> HIDE DEF new
<1>3. CASE s = {}
  <2>1. Better(a, d, n, best) = new
    <3>1. Number[Last(n)] > -1 /\ best.name = None /\ ~IsMeasured(best.profile)
      BY <1>3 DEF Starts, IsMeasured, IsProfile
    <3> QED BY <1>1, <1>2, <3>1 DEF Better, Before, new
  <2>2. Leading(a, d, {n}, new)
    <3>1. Number[Last(n)] \in Nat
      OBVIOUS
    <3> QED BY <1>1, <1>2, <3>1 DEF Leading
  <2> QED BY <1>3, <2>1, <2>2
<1>4. CASE s # {}
  <2>1. best.name \in s /\ best.profile = Resolve(a, d, best.name) /\ best.name # None
    BY <1>4 DEF Leading
  <2>2. /\ Number[Last(n)] \in Nat /\ Number[Last(best.name)] \in Nat
        /\ \A m \in s : Number[Last(m)] \in Nat
    BY <2>1
  <2>3. \A m \in s : /\ IsMeasured(best.profile) \/ Number[Last(best.name)] >= Number[Last(m)]
                     /\ HasHandshake(a, d, m) =>
                          IsMeasured(best.profile) /\ Number[Last(best.name)] >= Number[Last(m)]
    BY <1>4 DEF Leading
  <2>4. Before(Resolve(a, d, n), n, best) <=>
          \/ IsMeasured(new.profile) /\ ~IsMeasured(best.profile)
          \/ (IsMeasured(new.profile) <=> IsMeasured(best.profile))
             /\ Number[Last(n)] > Number[Last(best.name)]
    BY <1>1, <2>1 DEF Before
  <2>5. CASE Before(Resolve(a, d, n), n, best)
    <3>1. Better(a, d, n, best) = new
      BY <2>5 DEF Better, new
    <3>2. \A m \in s \cup {n} :
             /\ IsMeasured(new.profile) \/ Number[Last(new.name)] >= Number[Last(m)]
             /\ HasHandshake(a, d, m) =>
                  IsMeasured(new.profile) /\ Number[Last(new.name)] >= Number[Last(m)]
      BY <1>1, <1>2, <2>2, <2>3, <2>4, <2>5
    <3> QED BY <1>1, <3>1, <3>2 DEF Leading
  <2>6. CASE ~Before(Resolve(a, d, n), n, best)
    <3>1. Better(a, d, n, best) = best
      BY <2>6 DEF Better
    <3>2. \A m \in s \cup {n} :
             /\ IsMeasured(best.profile) \/ Number[Last(best.name)] >= Number[Last(m)]
             /\ HasHandshake(a, d, m) =>
                  IsMeasured(best.profile) /\ Number[Last(best.name)] >= Number[Last(m)]
      BY <1>1, <1>2, <2>2, <2>3, <2>4, <2>6
    <3> QED BY <2>1, <3>1, <3>2 DEF Leading
  <2> QED BY <2>5, <2>6
<1> QED BY <1>3, <1>4

\* All of them.
LEMMA NewestLeads ==
  ASSUME NEW a, NEW d, NEW M, IsFiniteSet(M), None \notin M, \A n \in M : Number[Last(n)] \in Nat,
         NEW f, Newest(a, d, M, f)
  PROVE  M # {} => Leading(a, d, M, f[M])
<1> DEFINE Good(s) == /\ s = {} => f[s] = Starts
                      /\ s # {} => Leading(a, d, s, f[s])
           T == {k \in Nat : \A s \in SUBSET M : Cardinality(s) = k => Good(s)}
<1>1. \A s \in SUBSET M : IsFiniteSet(s) /\ Cardinality(s) \in Nat
  BY FS_Subset, FS_CardinalityType
<1>2. \A s \in SUBSET M : f[s] = IF s = {} THEN Starts ELSE Better(a, d, SomeOf(s), f[s \ {SomeOf(s)}])
  BY DEF Newest
<1>3. Good({})
  <2>1. f[{}] = Starts
    BY <1>2
  <2> QED BY <2>1
<1>4. 0 \in T
  <2>1. \A s \in SUBSET M : Cardinality(s) = 0 => s = {}
    BY <1>1, FS_EmptySet
  <2> HIDE DEF Good
  <2> QED BY <1>3, <2>1
<1>5. ASSUME NEW k \in T PROVE k + 1 \in T
  <2> SUFFICES ASSUME NEW s \in SUBSET M, Cardinality(s) = k + 1 PROVE Good(s)
    OBVIOUS
  <2> DEFINE n == SomeOf(s)
             r == s \ {n}
  <2>0. k \in Nat
    OBVIOUS
  <2>1. s # {}
    <3> SUFFICES ASSUME s = {} PROVE FALSE
      OBVIOUS
    <3>1. Cardinality({}) = 0
      BY FS_EmptySet
    <3> HIDE DEF T
    <3> QED BY <2>0, <3>1
  <2>2. n \in s /\ r \in SUBSET M
    BY <2>1 DEF SomeOf
  <2>3. Cardinality(r) = k
    <3>1. Cardinality(r) = Cardinality(s) - 1
      BY <1>1, <2>2, FS_RemoveElement
    <3> HIDE DEF r, T
    <3> QED BY <2>0, <3>1
  <2>4. Good(r)
    BY <2>2, <2>3
  <2>5. f[s] = Better(a, d, n, f[r])
    BY <1>2, <2>1
  <2>6. s = r \cup {n} /\ n \notin r /\ n # None /\ None \notin r
        /\ \A m \in r \cup {n} : Number[Last(m)] \in Nat
    BY <2>2
  <2> HIDE DEF n, r
  <2>7. Leading(a, d, r \cup {n}, Better(a, d, n, f[r]))
    BY <2>4, <2>6, OneMoreName
  <2> QED BY <2>1, <2>5, <2>6, <2>7
<1> HIDE DEF T
<1>6. T = Nat
  BY <1>4, <1>5, AllNat DEF T
<1>7. Good(M)
  BY <1>1, <1>6 DEF T
<1> QED BY <1>7

\* newestInFamily, of finitely many names.
LEMMA NewestFound ==
  ASSUME NEW a, NEW d, NEW family, IsFiniteSet(AllNames(a, d)), None \notin AllNames(a, d)
  PROVE  LET M == Members(a, d, family)
         IN M # {} => Leading(a, d, M, NewestInFamily(a, d, family))
<1> DEFINE M == Members(a, d, family)
           f == CHOOSE f : Newest(a, d, M, f)
<1>1. NewestInFamily(a, d, family) = f[M]
  BY DEF NewestInFamily, FoldSet, MapThenFoldSet, Newest, Starts, Found, Better, SomeOf
<1>2. M \subseteq AllNames(a, d) /\ \A n \in M : Last(n) \in DOMAIN Number
  BY DEF Members, InFamily
<1> HIDE DEF M
<1>3. IsFiniteSet(M) /\ None \notin M /\ \A n \in M : Number[Last(n)] \in Nat
  BY <1>2, FS_Subset, FamiliesAssumption
<1>4. Newest(a, d, M, f)
  BY <1>3, NewestExists
<1> HIDE DEF f
<1>5. M # {} => Leading(a, d, M, f[M])
  BY <1>3, <1>4, NewestLeads
<1> QED BY <1>1, <1>5 DEF M

-----------------------------------------------------------------------------
(* What is on the wire. *)

\* A stream of two records and what follows it.
LEMMA StreamIs ==
  ASSUME NEW h, NEW v
  PROVE  /\ DOMAIN Stream(h, v) = 1..3 /\ Len(Stream(h, v)) = 3
         /\ Stream(h, v)[1] = HelloRecords(h, v)[1] /\ Stream(h, v)[2] = HelloRecords(h, v)[2]
         /\ Stream(h, v)[3] = After[1]
         /\ SubSeq(Stream(h, v), 1, 2) = HelloRecords(h, v)
         /\ \A i \in 1..3 : \A k \in 1..i : SubSeq(Stream(h, v), 1, i)[k] = Stream(h, v)[k]
         /\ \A i \in 1..3 : DOMAIN SubSeq(Stream(h, v), 1, i) = 1..i
<1> DEFINE r == HelloRecords(h, v)
           S == {r[1], r[2], After[1]}
           st == Stream(h, v)
<1>1. \E a, b : r = <<a, b>>
  BY DEF HelloRecords
<1>2. \E c : After = <<c>>
  BY DEF After
<1>3. r \in Seq(S) /\ Len(r) = 2 /\ After \in Seq(S) /\ Len(After) = 1
  <2> HIDE DEF r
  <2> QED BY <1>1, <1>2
<1>4. st = r \o After
  BY DEF Stream
<1> HIDE DEF S, r, st
<1>5. /\ st \in Seq(S) /\ Len(st) = 3
      /\ \A i \in 1..3 : st[i] = IF i <= 2 THEN r[i] ELSE After[i - 2]
  <2>1. /\ st \in Seq(S) /\ Len(st) = Len(r) + Len(After)
        /\ \A i \in 1..(Len(r) + Len(After)) : st[i] = IF i <= Len(r) THEN r[i] ELSE After[i - Len(r)]
    BY <1>3, <1>4, ConcatProperties
  <2> QED BY <1>3, <2>1
<1>6. DOMAIN st = 1..3
  BY <1>5, LenProperties
<1>7. \A i \in 1..3 : /\ SubSeq(st, 1, i) \in Seq(S) /\ Len(SubSeq(st, 1, i)) = i
                      /\ DOMAIN SubSeq(st, 1, i) = 1..i
                      /\ \A k \in 1..i : SubSeq(st, 1, i)[k] = st[k]
  <2> SUFFICES ASSUME NEW i \in 1..3
               PROVE  /\ SubSeq(st, 1, i) \in Seq(S) /\ Len(SubSeq(st, 1, i)) = i
                      /\ DOMAIN SubSeq(st, 1, i) = 1..i
                      /\ \A k \in 1..i : SubSeq(st, 1, i)[k] = st[k]
    OBVIOUS
  <2>1. \A k \in 1..i : st[k] \in S
    BY <1>5, ElementOfSeq
  <2>2. /\ SubSeq(st, 1, i) \in Seq(S) /\ Len(SubSeq(st, 1, i)) = IF 1 <= i THEN i - 1 + 1 ELSE 0
        /\ \A k \in 1..(i - 1 + 1) : SubSeq(st, 1, i)[k] = st[1 + k - 1]
    BY <2>1, SubSeqProperties
  <2>3. Len(SubSeq(st, 1, i)) = i /\ \A k \in 1..i : SubSeq(st, 1, i)[k] = st[k]
    BY <2>2
  <2> QED BY <2>2, <2>3, LenProperties
<1>8. SubSeq(st, 1, 2) = r
  <2>1. Len(SubSeq(st, 1, 2)) = Len(r) /\ SubSeq(st, 1, 2) \in Seq(S)
    BY <1>3, <1>7
  <2>2. \A k \in 1..2 : SubSeq(st, 1, 2)[k] = r[k]
    BY <1>5, <1>7
  <2> QED BY <1>3, <2>1, <2>2, SeqEqual
<1>9. st[1] = r[1] /\ st[2] = r[2] /\ st[3] = After[1]
  BY <1>5
<1> QED BY <1>5, <1>6, <1>7, <1>8, <1>9 DEF st, r

\* The fold of End.
Sizes(s, f) ==
    f = [S \in SUBSET DOMAIN s |->
           IF S = {} THEN 0 ELSE f[S \ {Max(S)}] + 1 + Len(s[Max(S)].payload)]

LEMMA MaxOf ==
  ASSUME NEW S \in SUBSET (1..3), S # {}
  PROVE  Max(S) \in S /\ \A x \in S : x <= Max(S)
<1>1. \E x \in S : \A y \in S : x >= y
  <2>1. CASE 3 \in S
    BY <2>1
  <2>2. CASE 3 \notin S /\ 2 \in S
    BY <2>2
  <2>3. CASE 3 \notin S /\ 2 \notin S
    <3>1. \A y \in 1..3 : y = 1 \/ y = 2 \/ y = 3
      OBVIOUS
    <3>2. 1 \in S /\ \A y \in S : y = 1
      BY <2>3, <3>1
    <3> QED BY <3>2
  <2> QED BY <2>1, <2>2, <2>3
<1> DEFINE m == Max(S)
<1>2. m \in S /\ \A y \in S : m >= y
  BY <1>1 DEF Max
<1> HIDE DEF m
<1>3. \A y \in S : y <= m
  BY <1>2
<1> QED BY <1>2, <1>3 DEF m

LEMMA SizesExist ==
  ASSUME NEW s, NEW n \in 1..3, DOMAIN s = 1..n, \A i \in 1..n : Len(s[i].payload) \in Nat
  PROVE  \E f : Sizes(s, f)
<1> DEFINE D    == 1..n
           pick == [S \in SUBSET D |-> Max(S)]
           act  == [i \in D |-> [size \in Nat |-> size + 1 + Len(s[i].payload)]]
<1>0. n \in Int /\ \A i \in 1..n : i \in 1..3
  OBVIOUS
<1>1. D \in SUBSET (1..3) /\ IsFiniteSet(D)
  <2>1. IsFiniteSet(D)
    BY <1>0, FS_Interval
  <2> QED BY <1>0, <2>1
<1>2. \A S \in SUBSET D : S # {} => Max(S) \in S
  BY <1>1, MaxOf
<1>3. /\ \A S \in SUBSET D : pick[S] = Max(S)
      /\ \A S \in SUBSET D : S # {} => pick[S] \in S
  BY <1>2
<1>4. \A i \in D, size \in Nat :
         act[i][size] = size + 1 + Len(s[i].payload) /\ act[i][size] \in Nat
  <2> SUFFICES ASSUME NEW i \in D, NEW size \in Nat
               PROVE  act[i][size] = size + 1 + Len(s[i].payload) /\ act[i][size] \in Nat
    OBVIOUS
  <2>1. act[i][size] = size + 1 + Len(s[i].payload)
    OBVIOUS
  <2>2. \A x, y \in Nat : x + 1 + y \in Nat
    OBVIOUS
  <2>3. Len(s[i].payload) \in Nat
    OBVIOUS
  <2> HIDE DEF act
  <2> QED BY <2>1, <2>2, <2>3
<1>5. 0 \in Nat
  OBVIOUS
<1> HIDE DEF D, pick, act
<1>6. PICK f \in [SUBSET D -> Nat] : \A S \in SUBSET D : Goes(D, 0, pick, act, f, S)
  BY <1>1, <1>3, <1>4, <1>5, FoldExists
<1>7. ASSUME NEW S \in SUBSET D
      PROVE  f[S] = IF S = {} THEN 0 ELSE f[S \ {Max(S)}] + 1 + Len(s[Max(S)].payload)
  <2>1. CASE S = {}
    BY <1>6, <2>1 DEF Goes
  <2>2. CASE S # {}
    <3>1. Max(S) \in D /\ S \ {Max(S)} \in SUBSET D
      BY <1>2, <2>2
    <3>2. f[S \ {Max(S)}] \in Nat
      BY <3>1
    <3>3. f[S] = act[Max(S)][f[S \ {Max(S)}]]
      BY <1>3, <1>6, <2>2 DEF Goes
    <3> QED BY <1>4, <2>2, <3>1, <3>2, <3>3
  <2> QED BY <2>1, <2>2
<1>8. f = [S \in SUBSET D |-> f[S]]
  OBVIOUS
<1>9. Sizes(s, f)
  BY <1>7, <1>8 DEF Sizes, D
<1> QED BY <1>9

\* The size of a record, and where each of three ends.
Size(r) == 1 + Len(r.payload)

LEMMA SizesAre ==
  ASSUME NEW s, NEW n \in 1..3, DOMAIN s = 1..n, \A i \in 1..n : Len(s[i].payload) \in Nat,
         NEW f, Sizes(s, f)
  PROVE  f[1..n] = IF n = 1 THEN Size(s[1]) ELSE IF n = 2 THEN Size(s[1]) + Size(s[2])
                   ELSE Size(s[1]) + Size(s[2]) + Size(s[3])
<1>0. n \in Nat /\ 1 <= n /\ n <= 3
  OBVIOUS
<1>1. ASSUME NEW k \in 1..n
      PROVE  f[1..k] = f[1..(k - 1)] + 1 + Len(s[k].payload)
  <2>0. k \in Nat /\ n \in Nat /\ 1 <= k /\ k <= n /\ n <= 3
    OBVIOUS
  <2>1. 1..k \in SUBSET (1..n) /\ 1..k \in SUBSET (1..3) /\ 1..k # {}
    <3>1. \A x \in 1..k : x \in 1..n /\ x \in 1..3
      BY <2>0
    <3>2. k \in 1..k
      BY <2>0
    <3> QED BY <3>1, <3>2
  <2>2. Max(1..k) = k
    <3> DEFINE m == Max(1..k)
    <3>1. m \in 1..k /\ \A x \in 1..k : x <= m
      BY <2>1, MaxOf
    <3> HIDE DEF m
    <3>2. m = k
      BY <3>1
    <3> QED BY <3>2 DEF m
  <2>3. (1..k) \ {k} = 1..(k - 1)
    OBVIOUS
  <2>4. f[1..k] = f[(1..k) \ {Max(1..k)}] + 1 + Len(s[Max(1..k)].payload)
    BY <2>1 DEF Sizes
  <2> QED BY <2>2, <2>3, <2>4
<1>2. f[1..0] = 0
  <2>1. 1..0 = {}
    OBVIOUS
  <2>2. f[{}] = 0
    BY DEF Sizes
  <2> QED BY <2>1, <2>2
<1>3. f[1..1] = Size(s[1])
  <2>1. 1 \in 1..n /\ 1 - 1 = 0
    BY <1>0
  <2>2. f[1..1] = f[1..0] + 1 + Len(s[1].payload)
    BY <1>1, <2>1
  <2>3. Len(s[1].payload) \in Nat
    BY <2>1
  <2> QED BY <1>2, <2>2, <2>3 DEF Size
<1>7. \A i \in 1..n : Len(s[i].payload) = Size(s[i]) - 1 /\ Size(s[i]) \in Nat
  BY DEF Size
<1>4. n >= 2 => f[1..2] = Size(s[1]) + Size(s[2])
  <2> SUFFICES ASSUME n >= 2 PROVE f[1..2] = Size(s[1]) + Size(s[2])
    OBVIOUS
  <2>1. 1 \in 1..n /\ 2 \in 1..n /\ 2 - 1 = 1
    BY <1>0
  <2>2. f[1..2] = f[1..1] + 1 + Len(s[2].payload)
    BY <1>1, <2>1
  <2> QED BY <1>3, <1>7, <2>1, <2>2
<1>5. n = 3 => f[1..3] = Size(s[1]) + Size(s[2]) + Size(s[3])
  <2> SUFFICES ASSUME n = 3 PROVE f[1..3] = Size(s[1]) + Size(s[2]) + Size(s[3])
    OBVIOUS
  <2>1. 1 \in 1..n /\ 2 \in 1..n /\ 3 \in 1..n /\ 3 - 1 = 2
    BY <1>0
  <2>2. f[1..3] = f[1..2] + 1 + Len(s[3].payload)
    BY <1>1, <2>1
  <2>3. f[1..2] = Size(s[1]) + Size(s[2])
    BY <1>4
  <2> QED BY <1>7, <2>1, <2>2, <2>3
<1>6. n = 1 \/ n = 2 \/ n = 3
  BY <1>0
<1>8. CASE n = 1
  BY <1>3, <1>8
<1>9. CASE n = 2
  BY <1>4, <1>9
<1>10. CASE n = 3
  BY <1>5, <1>10
<1> QED BY <1>6, <1>8, <1>9, <1>10

LEMMA Ends ==
  ASSUME NEW st, NEW i \in 1..3, DOMAIN SubSeq(st, 1, i) = 1..i,
         \A k \in 1..i : SubSeq(st, 1, i)[k] = st[k] /\ Len(st[k].payload) \in Nat
  PROVE  End(st, i) = IF i = 1 THEN Size(st[1]) ELSE IF i = 2 THEN Size(st[1]) + Size(st[2])
                      ELSE Size(st[1]) + Size(st[2]) + Size(st[3])
<1> DEFINE s == SubSeq(st, 1, i)
           f == CHOOSE g : Sizes(s, g)
<1>1. End(st, i) = f[DOMAIN s]
  BY DEF End, FoldLeft, MapThenFoldSet, Sizes
<1>2. DOMAIN s = 1..i /\ \A k \in 1..i : s[k] = st[k] /\ Len(s[k].payload) \in Nat
  OBVIOUS
<1> HIDE DEF s
<1>3. Sizes(s, f)
  BY <1>2, SizesExist
<1> HIDE DEF f
<1>4. f[1..i] = IF i = 1 THEN Size(s[1]) ELSE IF i = 2 THEN Size(s[1]) + Size(s[2])
                ELSE Size(s[1]) + Size(s[2]) + Size(s[3])
  BY <1>2, <1>3, SizesAre
<1> QED BY <1>1, <1>2, <1>4

\* The handshake of one record, and of two.
Joins(ss, n, f) == f = [i \in 1..n |-> IF i = 1 THEN ss[i] ELSE f[i - 1] \o ss[i]]

LEMMA JoinedTo ==
  ASSUME NEW n \in 1..2, NEW ss, ss = [j \in 1..n |-> ss[j]]
  PROVE  FlattenSeq(ss) = IF n = 1 THEN ss[1] ELSE ss[1] \o ss[2]
<1> DEFINE f == CHOOSE f : Joins(ss, n, f)
           g == [j \in 1..n |-> IF j = 1 THEN ss[1] ELSE ss[1] \o ss[2]]
<1>0. n \in Nat /\ 1 <= n /\ n <= 2
  OBVIOUS
<1>1. FlattenSeq(ss) = f[n]
  <2>1. Len(ss) = n /\ n # 0
    OBVIOUS
  <2> QED BY <2>1 DEF FlattenSeq, Joins
<1>2. Joins(ss, n, g)
  <2>1. ASSUME NEW i \in 1..n PROVE g[i] = IF i = 1 THEN ss[i] ELSE g[i - 1] \o ss[i]
    <3>1. CASE i = 1
      BY <3>1
    <3>2. CASE i # 1
      <4>1. i = 2 /\ 1 \in 1..n /\ 2 \in 1..n /\ 2 - 1 = 1
        BY <1>0, <3>2
      <4>2. g[2] = ss[1] \o ss[2] /\ g[1] = ss[1]
        BY <4>1
      <4> HIDE DEF g
      <4> QED BY <3>2, <4>1, <4>2
    <3> QED BY <3>1, <3>2
  <2>2. g = [i \in 1..n |-> g[i]]
    OBVIOUS
  <2> HIDE DEF g
  <2> QED BY <2>1, <2>2 DEF Joins
<1>3. Joins(ss, n, f)
  BY <1>2
<1> HIDE DEF f, g
<1>4. \A i \in 1..n : f[i] = IF i = 1 THEN ss[i] ELSE f[i - 1] \o ss[i]
  BY <1>3 DEF Joins
<1>5. 1 \in 1..n
  BY <1>0
<1>6. f[1] = ss[1]
  BY <1>4, <1>5
<1>7. CASE n = 1
  BY <1>1, <1>6, <1>7
<1>8. CASE n = 2
  <2>1. 2 \in 1..n /\ 2 # 1 /\ 2 - 1 = 1
    BY <1>8
  <2>2. f[2] = IF 2 = 1 THEN ss[2] ELSE f[2 - 1] \o ss[2]
    BY <1>4, <2>1
  <2>3. f[2] = f[1] \o ss[2]
    BY <2>1, <2>2
  <2> QED BY <1>1, <1>6, <1>8, <2>3
<1> QED BY <1>0, <1>7, <1>8

LEMMA Handshakes ==
  ASSUME NEW st
  PROVE  /\ Handshake(st, 1) = st[1].payload
         /\ Handshake(st, 2) = st[1].payload \o st[2].payload
<1> DEFINE ss(n) == [j \in 1..n |-> st[j].payload]
<1>1. Handshake(st, 1) = FlattenSeq(ss(1)) /\ Handshake(st, 2) = FlattenSeq(ss(2))
  BY DEF Handshake
<1>2. \A n \in 1..2 : ss(n) = [j \in 1..n |-> ss(n)[j]] /\ \A j \in 1..n : ss(n)[j] = st[j].payload
  OBVIOUS
<1> HIDE DEF ss
<1>3. \A n \in 1..2 : FlattenSeq(ss(n)) = IF n = 1 THEN ss(n)[1] ELSE ss(n)[1] \o ss(n)[2]
  BY <1>2, JoinedTo
<1>4. 1 \in 1..1 /\ 1 \in 1..2 /\ 2 \in 1..2 /\ 2 # 1
  OBVIOUS
<1>5. FlattenSeq(ss(1)) = st[1].payload
  BY <1>2, <1>3, <1>4
<1>6. FlattenSeq(ss(2)) = st[1].payload \o st[2].payload
  BY <1>2, <1>3, <1>4
<1> QED BY <1>1, <1>5, <1>6

\* A hello in units: its body, and with it the type and the length of the message.
Body(h) == <<[field |-> "version", value |-> h.version], [field |-> "ciphers", value |-> h.ciphers]>>
           \o [i \in DOMAIN h.extensions |-> [field |-> "extension", value |-> h.extensions[i]]]
Units(h) == <<[field |-> "hello", value |-> None], [field |-> "length", value |-> Len(Body(h))]>> \o Body(h)

IsHello(h) ==
    /\ h = [version |-> h.version, ciphers |-> h.ciphers, extensions |-> h.extensions]
    /\ h.extensions \in Seq(ToSet(h.extensions))
    /\ h # None

\* Its last unit is at this place.
LastUnit(h) == Len(h.extensions) + 4

LEMMA BodyIs ==
  ASSUME NEW h, IsHello(h)
  PROVE  /\ \E S : Body(h) \in Seq(S)
         /\ Len(h.extensions) \in Nat /\ Len(Body(h)) = Len(h.extensions) + 2
         /\ HelloOf(Body(h)) = h
<1> DEFINE e == h.extensions
           n == Len(e)
           ex == [i \in DOMAIN e |-> [field |-> "extension", value |-> e[i]]]
           b1 == [field |-> "version", value |-> h.version]
           b2 == [field |-> "ciphers", value |-> h.ciphers]
           S == {b1, b2} \cup {[field |-> "extension", value |-> x] : x \in ToSet(e)}
<1>1. n \in Nat /\ DOMAIN e = 1..n /\ \A i \in 1..n : e[i] \in ToSet(e)
  BY LenProperties DEF IsHello, ToSet
<1>2. ex \in Seq(S) /\ Len(ex) = n /\ \A i \in 1..n : ex[i] = [field |-> "extension", value |-> e[i]]
  <2>1. DOMAIN ex = 1..n /\ \A i \in 1..n : ex[i] = [field |-> "extension", value |-> e[i]] /\ ex[i] \in S
    BY <1>1
  <2>2. ex = [i \in 1..n |-> ex[i]]
    BY <1>1
  <2> HIDE DEF ex, S
  <2>3. ex \in [1..n -> S]
    BY <2>1, <2>2
  <2>4. ex \in Seq(S)
    BY <1>1, <2>3, SeqDef
  <2> HIDE DEF n
  <2>5. Len(ex) = n
    BY <1>1, <2>1, <2>4, LenProperties
  <2> QED BY <2>1, <2>4, <2>5
<1>3. Body(h) = <<b1, b2>> \o ex
  BY DEF Body
<1>4. <<b1, b2>> \in Seq(S) /\ Len(<<b1, b2>>) = 2 /\ <<b1, b2>>[1] = b1 /\ <<b1, b2>>[2] = b2
  <2> HIDE DEF b1, b2
  <2> QED OBVIOUS
<1> DEFINE bb == <<b1, b2>>
<1> HIDE DEF S, ex, bb
<1>5. /\ Body(h) \in Seq(S) /\ Len(Body(h)) = Len(bb) + Len(ex)
      /\ \A i \in 1..(Len(bb) + Len(ex)) : Body(h)[i] = IF i <= Len(bb) THEN bb[i] ELSE ex[i - Len(bb)]
  BY <1>2, <1>3, <1>4, ConcatProperties DEF bb
<1>6. Len(bb) = 2 /\ bb[1] = b1 /\ bb[2] = b2
  BY <1>4 DEF bb
<1> DEFINE body == Body(h)
<1>7. Len(body) = n + 2
  BY <1>1, <1>2, <1>5, <1>6
<1>8. \A i \in 1..(n + 2) : body[i] = IF i <= 2 THEN bb[i] ELSE ex[i - 2]
  BY <1>2, <1>5, <1>6
<1> HIDE DEF body, n, bb
<1>9. body[1] = b1 /\ body[2] = b2
  <2>1. 1 \in 1..(n + 2) /\ 2 \in 1..(n + 2)
    BY <1>1
  <2> QED BY <1>6, <1>8, <2>1
<1>10. \A i \in 1..n : body[i + 2] = [field |-> "extension", value |-> e[i]]
  <2> SUFFICES ASSUME NEW i \in 1..n PROVE body[i + 2] = [field |-> "extension", value |-> e[i]]
    OBVIOUS
  <2>1. i + 2 \in 1..(n + 2) /\ ~(i + 2 <= 2) /\ i + 2 - 2 = i
    BY <1>1
  <2>2. body[i + 2] = ex[i]
    BY <1>8, <2>1
  <2> QED BY <1>2, <2>2
<1>11. \A i \in 3..(n + 2) : body[i].field = "extension"
  <2> SUFFICES ASSUME NEW i \in 3..(n + 2) PROVE body[i].field = "extension"
    OBVIOUS
  <2>1. i - 2 \in 1..n /\ i - 2 + 2 = i
    BY <1>1
  <2>2. body[i - 2 + 2] = [field |-> "extension", value |-> e[i - 2]]
    BY <1>10, <2>1
  <2> QED BY <2>1, <2>2
<1>12. HelloOf(body) = h
  <2>1. Len(body) >= 2 /\ Len(body) - 2 = n
    BY <1>1, <1>7
  <2>2. body[1].field = "version" /\ body[2].field = "ciphers"
        /\ body[1].value = h.version /\ body[2].value = h.ciphers
    BY <1>9
  <2>3. [i \in 1..(Len(body) - 2) |-> body[i + 2].value] = e
    <3>1. \A i \in 1..n : body[i + 2].value = e[i]
      <4> SUFFICES ASSUME NEW i \in 1..n PROVE body[i + 2].value = e[i]
        OBVIOUS
      <4>1. body[i + 2] = [field |-> "extension", value |-> e[i]]
        BY <1>10
      <4> HIDE DEF e
      <4> QED BY <4>1
    <3>2. e = [i \in 1..n |-> e[i]]
      <4>1. e \in [1..n -> ToSet(e)]
        BY LenProperties DEF IsHello, n
      <4> QED BY <4>1
    <3> HIDE DEF e
    <3> QED BY <2>1, <3>1, <3>2
  <2>4. HelloOf(body) = [version |-> h.version, ciphers |-> h.ciphers, extensions |-> e]
    BY <1>7, <1>11, <2>1, <2>2, <2>3 DEF HelloOf
  <2> QED BY <2>4 DEF IsHello
<1>13. \E X : body \in Seq(X)
  BY <1>5 DEF body
<1> QED BY <1>1, <1>7, <1>12, <1>13 DEF body, n

LEMMA UnitsAre ==
  ASSUME NEW h, IsHello(h)
  PROVE  /\ \E S : Units(h) \in Seq(S)
         /\ Len(h.extensions) \in Nat /\ Len(Units(h)) = LastUnit(h)
         /\ Units(h)[1].field = "hello" /\ Units(h)[2].value = Len(h.extensions) + 2
         /\ HelloOf(SubSeq(Units(h), 3, 2 + Units(h)[2].value)) = h
<1> DEFINE n == Len(h.extensions)
           u1 == [field |-> "hello", value |-> None]
           u2 == [field |-> "length", value |-> Len(Body(h))]
           uu == <<u1, u2>>
           body == Body(h)
           u == Units(h)
<1>1. n \in Nat /\ Len(body) = n + 2 /\ HelloOf(body) = h
  BY BodyIs
<1>2. PICK X : body \in Seq(X)
  BY BodyIs
<1> DEFINE S == X \cup {u1, u2}
<1>3. body \in Seq(S) /\ uu \in Seq(S) /\ Len(uu) = 2 /\ uu[1] = u1 /\ uu[2] = u2
  <2>1. X \subseteq S /\ u1 \in S /\ u2 \in S
    OBVIOUS
  <2> HIDE DEF u1, u2, S, body
  <2> QED BY <1>2, <2>1, SeqMonotonic
<1>4. u = uu \o body
  BY DEF Units
<1>5. u2.value = n + 2 /\ u1.field = "hello"
  BY <1>1
<1> HIDE DEF S, uu, body, u, u1, u2, n
<1>6. /\ u \in Seq(S) /\ Len(u) = Len(uu) + Len(body)
      /\ \A i \in 1..(Len(uu) + Len(body)) : u[i] = IF i <= Len(uu) THEN uu[i] ELSE body[i - Len(uu)]
  BY <1>3, <1>4, ConcatProperties
<1>7. Len(u) = n + 4
  BY <1>1, <1>3, <1>6
<1>8. u[1] = u1 /\ u[2] = u2
  <2>1. \A i \in 1..(n + 4) : u[i] = IF i <= 2 THEN uu[i] ELSE body[i - 2]
    BY <1>1, <1>3, <1>6
  <2>2. 1 \in 1..(n + 4) /\ 2 \in 1..(n + 4)
    BY <1>1
  <2> QED BY <1>3, <2>1, <2>2
<1>9. SubSeq(u, 3, n + 4) = body
  <2>1. 3 \in (Len(uu) + 1)..(Len(uu) + Len(body)) /\ n + 4 \in (Len(uu) + 1)..(Len(uu) + Len(body))
    BY <1>1, <1>3
  <2>2. \A i, j \in (Len(uu) + 1)..(Len(uu) + Len(body)) :
           SubSeq(uu \o body, i, j) = SubSeq(body, i - Len(uu), j - Len(uu))
    BY <1>3, SubSeqOfConcat2
  <2>3. PICK i, j : i = 3 /\ j = n + 4
    OBVIOUS
  <2>4. SubSeq(body, 1, Len(body)) = body
    BY <1>2, SubSeqFull
  <2>5. SubSeq(uu \o body, i, j) = SubSeq(body, i - Len(uu), j - Len(uu))
    BY <2>1, <2>2, <2>3
  <2>6. i - Len(uu) = 1 /\ j - Len(uu) = Len(body)
    BY <1>1, <1>3, <2>3
  <2>7. SubSeq(uu \o body, i, j) = SubSeq(body, 1, Len(body))
    BY <2>5, <2>6, Zenon
  <2> QED BY <1>4, <2>3, <2>4, <2>7, Zenon
<1>10. 2 + u2.value = n + 4
  BY <1>1, <1>5
<1>11. HelloOf(SubSeq(u, 3, 2 + u[2].value)) = h
  BY <1>1, <1>8, <1>9, <1>10
<1> QED BY <1>1, <1>5, <1>6, <1>7, <1>8, <1>11 DEF u, n, LastUnit

\* A hello, as the recorder may be given it: cut before its end.
CutInside(h, v) == v.cut \in 0..(LastUnit(h) - 1)

LEMMA PayloadsAre ==
  ASSUME NEW h, IsHello(h), NEW v, CutInside(h, v)
  PROVE  LET st == Stream(h, v)
             p  == st[1].payload
         IN /\ p \o st[2].payload = Units(h)
            /\ Len(p) = v.cut /\ v.cut \in Nat /\ LastUnit(h) \in Nat /\ LastUnit(h) >= 4
            /\ v.cut < LastUnit(h)
            /\ Len(st[2].payload) = LastUnit(h) - v.cut
            /\ p # <<>> => p[1] = Units(h)[1]
            /\ ~Complete(p)
            /\ \A i \in 1..2 : st[i].type = "handshake"
            /\ Len(st[3].payload) = 1
<1> DEFINE u == Units(h)
           n == LastUnit(h)
           st == Stream(h, v)
           p == st[1].payload
           q == st[2].payload
<1>1. PICK S : u \in Seq(S)
  BY UnitsAre
<1>2. Len(u) = n /\ n \in Nat /\ n >= 4
  BY UnitsAre DEF LastUnit
<1>3. st[1] = HelloRecords(h, v)[1] /\ st[2] = HelloRecords(h, v)[2] /\ st[3] = After[1]
  BY StreamIs
<1>4. /\ p = SubSeq(u, 1, v.cut) /\ q = SubSeq(u, v.cut + 1, Len(u))
      /\ st[1].type = "handshake" /\ st[2].type = "handshake"
  <2> DEFINE r1 == [type |-> "handshake", payload |-> SubSeq(u, 1, v.cut)]
             r2 == [type |-> "handshake", payload |-> SubSeq(u, v.cut + 1, Len(u))]
  <2>1. HelloRecords(h, v) = <<r1, r2>>
    BY DEF HelloRecords, Units, Body
  <2>2. <<r1, r2>>[1] = r1 /\ <<r1, r2>>[2] = r2
    OBVIOUS
  <2>3. st[1] = r1 /\ st[2] = r2
    BY <1>3, <2>1, <2>2, Zenon
  <2> HIDE DEF st, u
  <2>4. r1.payload = SubSeq(u, 1, v.cut) /\ r1.type = "handshake"
    OBVIOUS
  <2>5. r2.payload = SubSeq(u, v.cut + 1, Len(u)) /\ r2.type = "handshake"
    OBVIOUS
  <2> HIDE DEF r1, r2
  <2> QED BY <2>3, <2>4, <2>5, Zenon
<1>5. Len(st[3].payload) = 1
  <2>1. After[1].payload = <<[field |-> "one", value |-> None]>>
    BY DEF After
  <2>2. st[3].payload = <<[field |-> "one", value |-> None]>>
    BY <1>3, <2>1, Zenon
  <2> HIDE DEF st
  <2> QED BY <2>2
<1>6. v.cut \in Nat /\ v.cut <= n /\ v.cut < n
  BY <1>2 DEF CutInside
<1>7. \A i \in 1..n : u[i] \in S
  BY <1>1, <1>2, ElementOfSeq
<1>8. Len(p) = v.cut /\ \A i \in 1..v.cut : p[i] = u[i]
  <2> DEFINE c == v.cut
  <2>1. c \in Nat /\ c <= n
    BY <1>6
  <2>2. p = SubSeq(u, 1, c)
    BY <1>4
  <2> HIDE DEF c, p, u
  <2>3. \A i \in 1..c : u[i] \in S
    BY <1>2, <1>7, <2>1
  <2>4. Len(p) = (IF 1 <= c THEN c - 1 + 1 ELSE 0) /\ \A i \in 1..(c - 1 + 1) : p[i] = u[1 + i - 1]
    BY <2>1, <2>2, <2>3, SubSeqProperties
  <2>5. Len(p) = c /\ \A i \in 1..c : p[i] = u[i]
    BY <2>1, <2>4
  <2> QED BY <2>5 DEF c
<1>9. Len(q) = n - v.cut /\ p \o q = u
  <2> DEFINE c == v.cut
  <2>1. c \in Nat /\ c <= n /\ c < n
    BY <1>6
  <2>2. p = SubSeq(u, 1, c) /\ q = SubSeq(u, c + 1, n)
    BY <1>2, <1>4
  <2> HIDE DEF c, p, q, u
  <2>3. \A i \in (c + 1)..n : u[i] \in S
    BY <1>2, <1>7, <2>1
  <2>4. Len(q) = IF c + 1 <= n THEN n - (c + 1) + 1 ELSE 0
    BY <1>2, <2>1, <2>2, <2>3, SubSeqProperties
  <2>5. 1 \in 1..(Len(u) + 1) /\ c \in (1 - 1)..Len(u) /\ n \in c..Len(u)
    BY <1>2, <2>1
  <2>6. SubSeq(u, 1, c) \o SubSeq(u, c + 1, n) = SubSeq(u, 1, n)
    BY <1>1, <2>5, ConcatAdjacentSubSeq
  <2>7. SubSeq(u, 1, n) = u
    BY <1>1, <1>2, SubSeqFull
  <2>8. Len(q) = n - c
    BY <1>2, <2>1, <2>4
  <2> QED BY <2>2, <2>6, <2>7, <2>8 DEF c
<1>10. p # <<>> => p[1] = u[1]
  <2> SUFFICES ASSUME p # <<>> PROVE p[1] = u[1]
    OBVIOUS
  <2>1. v.cut # 0
    <3> SUFFICES ASSUME v.cut = 0 PROVE FALSE
      OBVIOUS
    <3> QED BY <1>4, SubSeqEmpty
  <2> QED BY <1>6, <1>8, <2>1
<1>11. ~Complete(p)
  <2>1. v.cut >= 2 => p[2] = u[2]
    BY <1>6, <1>8
  <2>2. u[2].value = n - 2
    <3>1. Len(h.extensions) \in Nat /\ u[2].value = Len(h.extensions) + 2
      BY UnitsAre
    <3> HIDE DEF u
    <3> QED BY <3>1 DEF LastUnit
  <2> HIDE DEF p, u, n
  <2> QED BY <1>2, <1>6, <1>8, <2>1, <2>2 DEF Complete
<1>12. \A i \in 1..2 : st[i].type = "handshake"
  BY <1>4
<1> HIDE DEF u, n, st
<1> QED BY <1>2, <1>5, <1>6, <1>8, <1>9, <1>10, <1>11, <1>12 DEF u, n, st

\* Where the records end.
LEMMA EndsAre ==
  ASSUME NEW h, IsHello(h), NEW v, CutInside(h, v)
  PROVE  LET st == Stream(h, v)
         IN /\ End(st, 1) = 1 + v.cut /\ End(st, 2) = LastUnit(h) + 2 /\ End(st, 3) = LastUnit(h) + 4
            /\ v.cut \in Nat /\ LastUnit(h) \in Nat
            /\ End(HelloRecords(h, v), Len(HelloRecords(h, v))) = LastUnit(h) + 2
            /\ End(st, Len(st)) = LastUnit(h) + 4
<1> DEFINE st == Stream(h, v)
           n == LastUnit(h)
           r == HelloRecords(h, v)
<1>1. /\ Len(st[1].payload) = v.cut /\ v.cut \in Nat /\ n \in Nat
      /\ Len(st[2].payload) = n - v.cut /\ Len(st[3].payload) = 1 /\ v.cut <= n
  <2>1. v.cut < n /\ n \in Nat /\ v.cut \in Nat
    BY PayloadsAre
  <2>2. v.cut <= n
    BY <2>1
  <2> QED BY <2>1, <2>2, PayloadsAre
<1>2. /\ Len(st) = 3 /\ SubSeq(st, 1, 2) = r
      /\ \A i \in 1..3 : \A k \in 1..i : SubSeq(st, 1, i)[k] = st[k]
      /\ \A i \in 1..3 : DOMAIN SubSeq(st, 1, i) = 1..i
  BY StreamIs
<1>3. Len(r) = 2 /\ SubSeq(r, 1, 2) = r
  <2>1. \E a, b : r = <<a, b>>
    BY DEF HelloRecords
  <2> HIDE DEF r
  <2>2. PICK a, b : r = <<a, b>>
    BY <2>1
  <2>3. r \in Seq({a, b}) /\ Len(r) = 2
    BY <2>2
  <2> QED BY <2>3, SubSeqFull
<1> HIDE DEF st, n, r
<1>4. \A k \in 1..3 : Len(st[k].payload) \in Nat
  <2>1. \A k \in 1..3 : k = 1 \/ k = 2 \/ k = 3
    OBVIOUS
  <2>2. n - v.cut \in Nat
    BY <1>1
  <2> QED BY <1>1, <2>1, <2>2
<1>5. ASSUME NEW i \in 1..3
      PROVE  End(st, i) = IF i = 1 THEN Size(st[1]) ELSE IF i = 2 THEN Size(st[1]) + Size(st[2])
                          ELSE Size(st[1]) + Size(st[2]) + Size(st[3])
  <2>1. DOMAIN SubSeq(st, 1, i) = 1..i
    BY <1>2
  <2>2. \A k \in 1..i : SubSeq(st, 1, i)[k] = st[k] /\ Len(st[k].payload) \in Nat
    <3>1. \A k \in 1..i : k \in 1..3
      OBVIOUS
    <3> QED BY <1>2, <1>4, <3>1
  <2> QED BY <2>1, <2>2, Ends
<1>6. Size(st[1]) = 1 + v.cut /\ Size(st[2]) = 1 + (n - v.cut) /\ Size(st[3]) = 2
  BY <1>1 DEF Size
<1>7. End(st, 1) = 1 + v.cut
  <2>1. 1 \in 1..3 /\ 1 = 1
    OBVIOUS
  <2> QED BY <1>5, <1>6, <2>1
<1>8. End(st, 2) = n + 2
  <2>1. 2 \in 1..3 /\ 2 # 1
    OBVIOUS
  <2>2. End(st, 2) = Size(st[1]) + Size(st[2])
    BY <1>5, <2>1
  <2> QED BY <1>1, <1>6, <2>2
<1>9. End(st, 3) = n + 4
  <2>1. 3 \in 1..3 /\ 3 # 1 /\ 3 # 2
    OBVIOUS
  <2>2. End(st, 3) = Size(st[1]) + Size(st[2]) + Size(st[3])
    BY <1>5, <2>1
  <2> QED BY <1>1, <1>6, <2>2
<1>10. End(r, Len(r)) = n + 2
  <2>1. End(r, 2) = End(st, 2)
    BY <1>2, <1>3 DEF End
  <2> QED BY <1>3, <1>8, <2>1
<1> QED BY <1>1, <1>2, <1>7, <1>8, <1>9, <1>10 DEF st, n, r

\* What is read is the hello once both of its records have arrived, and nothing before; a
\* hello that is too long is never read.
LEMMA ParseIs ==
  ASSUME NEW h, IsHello(h), NEW v, CutInside(h, v), NEW arrived \in Nat
  PROVE  Parse(Stream(h, v), arrived) =
           IF arrived < LastUnit(h) + 2 \/ LastUnit(h) > MaxHandshake THEN None
           ELSE [raw |-> HelloRecords(h, v), hello |-> h]
<1> DEFINE st == Stream(h, v)
           n == LastUnit(h)
           u == Units(h)
           whole == {i \in DOMAIN st : End(st, i) <= arrived}
           ends == {i \in whole : Refused(st, i) \/ Complete(Handshake(st, i))}
           m == Min(ends)
<1>0. MaxHandshake \in Nat
  BY RecorderAssumption
<1>1. DOMAIN st = 1..3 /\ SubSeq(st, 1, 2) = HelloRecords(h, v)
  BY StreamIs
<1>2. /\ End(st, 1) = 1 + v.cut /\ End(st, 2) = n + 2 /\ End(st, 3) = n + 4
      /\ v.cut \in Nat /\ n \in Nat
  BY EndsAre
<1>3. Handshake(st, 2) = u /\ Handshake(st, 1) = st[1].payload
  BY Handshakes, PayloadsAre
<1>4. /\ Len(u) = n /\ u[1].field = "hello" /\ 2 + u[2].value = n
      /\ HelloOf(SubSeq(u, 3, 2 + u[2].value)) = h /\ n >= 4
  <2>1. Len(h.extensions) \in Nat /\ u[2].value = Len(h.extensions) + 2
    BY UnitsAre
  <2>2. 2 + u[2].value = n /\ n >= 4
    BY <2>1 DEF LastUnit
  <2> QED BY <2>2, UnitsAre
<1>5. Complete(Handshake(st, 2)) /\ ~Complete(Handshake(st, 1))
  <2>1. Complete(u)
    BY <1>4 DEF Complete
  <2>2. ~Complete(st[1].payload)
    BY PayloadsAre
  <2> QED BY <1>3, <2>1, <2>2
<1>6. Refused(st, 2) <=> n > MaxHandshake
  <2>1. st[2].type = "handshake"
    <3>1. \A i \in 1..2 : st[i].type = "handshake"
      BY PayloadsAre
    <3> HIDE DEF st
    <3> QED BY <3>1
  <2> HIDE DEF u, n, st
  <2> QED BY <1>3, <1>4, <2>1 DEF Refused
<1>7. Refused(st, 1) => n > MaxHandshake
  <2> DEFINE p == st[1].payload
  <2>1. st[1].type = "handshake" /\ Len(p) = v.cut /\ v.cut < n /\ (p # <<>> => p[1].field = "hello")
    <3>1. /\ \A i \in 1..2 : st[i].type = "handshake"
          /\ Len(p) = v.cut /\ v.cut < n /\ (p # <<>> => p[1] = u[1])
      BY PayloadsAre
    <3> HIDE DEF st, p, u, n
    <3> QED BY <1>4, <3>1
  <2>2. Handshake(st, 1) = p
    BY <1>3
  <2> HIDE DEF u, n, st, p
  <2>3. Refused(st, 1) => v.cut > MaxHandshake
    BY <2>1, <2>2 DEF Refused
  <2> QED BY <1>0, <1>2, <2>1, <2>3
<1>8. /\ 1 \in ends => Refused(st, 1)
      /\ 2 \in ends <=> n + 2 <= arrived
      /\ 3 \in ends => n + 2 <= arrived
      /\ ends \in SUBSET (1..3)
  <2> HIDE DEF n, u, st
  <2> QED BY <1>1, <1>2, <1>5
<1>9. Parse(st, arrived) =
        IF ends = {} \/ Refused(st, m) THEN None
        ELSE LET hello == HelloOf(SubSeq(Handshake(st, m), 3, 2 + Handshake(st, m)[2].value))
             IN IF hello = None THEN None ELSE [raw |-> SubSeq(st, 1, m), hello |-> hello]
  BY DEF Parse
<1> HIDE DEF ends, st, n, u
<1>10. ends # {} => m \in ends /\ \A i \in ends : m <= i
  <2>1. ends \in SUBSET Nat
    BY <1>8
  <2> QED BY <2>1, LeastNat DEF Min
<1> HIDE DEF m
<1>11. CASE n > MaxHandshake
  <2>1. ends # {} => Refused(st, m)
    <3> SUFFICES ASSUME ends # {} PROVE Refused(st, m)
      OBVIOUS
    <3>1. m \in 1..3
      BY <1>8, <1>10
    <3>2. m # 3
      BY <1>2, <1>8, <1>10
    <3>3. m = 1 \/ m = 2
      BY <3>1, <3>2
    <3> QED BY <1>6, <1>8, <1>10, <1>11, <3>3
  <2> QED BY <1>9, <1>11, <2>1 DEF n, st
<1>12. CASE ~(n > MaxHandshake) /\ arrived < n + 2
  <2>1. 1 \notin ends /\ 2 \notin ends /\ 3 \notin ends
    BY <1>2, <1>7, <1>8, <1>12
  <2>2. ends = {}
    <3>1. \A i \in 1..3 : i = 1 \/ i = 2 \/ i = 3
      OBVIOUS
    <3> QED BY <1>8, <2>1, <3>1
  <2> QED BY <1>9, <1>12, <2>2 DEF n, st
<1>13. CASE ~(n > MaxHandshake) /\ ~(arrived < n + 2)
  <2>1. 1 \notin ends /\ 2 \in ends
    BY <1>2, <1>7, <1>8, <1>13
  <2>2. m = 2
    <3>1. m \in 1..3 /\ m <= 2 /\ m # 1
      BY <1>8, <1>10, <2>1
    <3> QED BY <3>1
  <2>3. ~Refused(st, m) /\ ends # {} /\ Handshake(st, m) = u
    BY <1>3, <1>6, <1>13, <2>1, <2>2
  <2>4. h # None
    BY DEF IsHello
  <2>5. Parse(st, arrived) = [raw |-> SubSeq(st, 1, 2), hello |-> h]
    BY <1>4, <1>9, <2>2, <2>3, <2>4
  <2> QED BY <1>1, <1>13, <2>5 DEF n, st
<1> QED BY <1>11, <1>12, <1>13

-----------------------------------------------------------------------------
(* A browser measured: whom, and what the recorder has. *)

Two == (1..Versions) \X (1..Versions)
SentBy(by, v) == Drawn(Sends[by[2]].hello, v)
WholeOf(h, v) == [raw |-> HelloRecords(h, v), hello |-> h]

\* The connection of a browser: its stream is of the hello sent on it, which the recorder
\* has, or is still waiting for, or was too long.
Recording(c, h, v) ==
    /\ c = [stream |-> Stream(h, v), arrived |-> c.arrived, hello |-> c.hello, done |-> c.done,
            sent |-> WholeOf(h, v)]
    /\ c.arrived \in Nat
    /\ c.hello \in {None, WholeOf(h, v)}
    /\ \/ c.hello = WholeOf(h, v)
       \/ LastUnit(h) + 2 > MaxRecorded
       \/ ~c.done /\ c.arrived < LastUnit(h) + 2

Running ==
    /\ browser \in 1..Versions
    /\ cmd.stage \in {"idle", "http1", "loading", "measured", "worn", "half", "both", "named", "runs"}
    /\ cmd.stage = "http1" => cmd.by \in 1..Versions
    /\ cmd.stage = "loading" =>
         cmd.by \in Two /\ \E v \in Variations : Recording(conn, SentBy(cmd.by, v), v)
    /\ cmd.stage # "loading" => conn = None
    /\ cmd.stage = "measured" =>
         \E by \in Two, v \in Variations :
           cmd.capture \in {Captured(by, None), Captured(by, HelloRecords(SentBy(by, v), v))}

\* What is drawn of a hello is a hello, of the length it had.
LEMMA DrawnIsHello ==
  ASSUME NEW b \in 1..Versions, NEW v \in Variations
  PROVE  IsHello(Drawn(Sends[b].hello, v)) /\ CutInside(Drawn(Sends[b].hello, v), v)
<1> DEFINE hello == Sends[b].hello
           e == hello.extensions
           n == Len(e)
           d == Drawn(hello, v)
           x == d.extensions
<1>1. e \in Seq(ToSet(e)) /\ v.cut \in 0..(n + 3) /\ d # None
  BY RecorderAssumption
<1>2. n \in Nat /\ DOMAIN e = 1..n
  BY <1>1, LenProperties
<1>3. /\ d = [version |-> d.version, ciphers |-> d.ciphers, extensions |-> x]
      /\ \E filled : filled = [i \in DOMAIN e |-> filled[i]]
                     /\ x = IF v.reversed THEN Reverse(filled) ELSE filled
  <2> DEFINE Fill(values) == [i \in DOMAIN values |-> IF values[i] = Slot THEN v.grease ELSE values[i]]
             filled == [i \in DOMAIN e |->
                          [type |-> IF e[i].type = Slot THEN v.grease ELSE e[i].type,
                           data |-> IF e[i].type \in Greased THEN Fill(e[i].data) ELSE e[i].data]]
             new == IF v.reversed THEN Reverse(filled) ELSE filled
  <2>1. d = [version |-> hello.version, ciphers |-> Fill(hello.ciphers), extensions |-> new]
    BY DEF Drawn
  <2>2. filled = [i \in DOMAIN e |-> filled[i]]
    OBVIOUS
  <2> HIDE DEF filled, Fill, d
  <2> QED BY <2>1, <2>2
<1>4. PICK filled : filled = [i \in DOMAIN e |-> filled[i]]
                    /\ x = IF v.reversed THEN Reverse(filled) ELSE filled
  BY <1>3
<1> HIDE DEF x, e, n, d, hello
<1>5. Len(filled) = n
  BY <1>2, <1>4
<1>6. x = [i \in 1..n |-> x[i]]
  <2>1. CASE v.reversed
    BY <1>2, <1>4, <1>5, <2>1 DEF Reverse
  <2>2. CASE ~v.reversed
    BY <1>2, <1>4, <2>2
  <2> QED BY <2>1, <2>2
<1>7. x \in Seq(ToSet(x)) /\ Len(x) = n
  BY <1>2, <1>6 DEF ToSet
<1> QED BY <1>1, <1>2, <1>3, <1>7 DEF IsHello, CutInside, LastUnit, x, d, hello, n, e

\* recordingConn.Read, of any part of what is left.
LEMMA RecordKeeps ==
  ASSUME NEW h, NEW v, IsHello(h), CutInside(h, v), NEW c, Recording(c, h, v),
         NEW arrived \in Nat, arrived > c.arrived
  PROVE  Recording(Record(c, arrived), h, v)
<1> DEFINE whole == WholeOf(h, v)
           n == LastUnit(h) + 2
           parsed == Parse(c.stream, arrived)
           r == Record(c, arrived)
           done == parsed # None \/ arrived > MaxRecorded
<1>1. n \in Nat /\ MaxRecorded \in Nat /\ MaxHandshake \in Nat /\ MaxRecorded <= MaxHandshake + 2
  BY EndsAre, RecorderAssumption
<1>2. parsed = IF arrived < n \/ n - 2 > MaxHandshake THEN None ELSE whole
  <2>1. c.stream = Stream(h, v)
    BY DEF Recording
  <2>2. n - 2 = LastUnit(h)
    BY EndsAre
  <2> QED BY <2>1, <2>2, ParseIs DEF WholeOf
<1>3. /\ c = [stream |-> Stream(h, v), arrived |-> c.arrived, hello |-> c.hello, done |-> c.done,
              sent |-> whole]
      /\ c.arrived \in Nat /\ c.hello \in {None, whole}
      /\ c.hello = whole \/ n > MaxRecorded \/ (~c.done /\ c.arrived < n)
  BY DEF Recording
<1> HIDE DEF whole, n, parsed
<1>4. CASE c.done
  <2>1. r = [c EXCEPT !.arrived = arrived]
    BY <1>4 DEF Record
  <2>2. /\ r.arrived = arrived /\ r.hello = c.hello /\ r.done = c.done
        /\ r = [stream |-> Stream(h, v), arrived |-> arrived, hello |-> c.hello, done |-> c.done,
                sent |-> whole]
    BY <1>3, <2>1
  <2> HIDE DEF r
  <2> QED BY <1>3, <1>4, <2>2 DEF Recording, whole, n, r
<1>5. CASE ~c.done
  <2>1. r = [c EXCEPT !.arrived = arrived, !.hello = parsed, !.done = done]
    BY <1>5 DEF Record, parsed
  <2> HIDE DEF done
  <2> DEFINE st == Stream(h, v)
  <2> HIDE DEF r, st
  <2>0. c = [stream |-> st, arrived |-> c.arrived, hello |-> c.hello, done |-> c.done, sent |-> whole]
    BY <1>3 DEF st
  <2>5. r = [stream |-> st, arrived |-> arrived, hello |-> parsed, done |-> done, sent |-> whole]
    <3> DEFINE c1 == [c EXCEPT !.arrived = arrived]
               c2 == [c1 EXCEPT !.hello = parsed]
               c3 == [c2 EXCEPT !.done = done]
    <3>1. c1 = [stream |-> st, arrived |-> arrived, hello |-> c.hello, done |-> c.done, sent |-> whole]
      BY <2>0
    <3>2. r = c3
      BY <2>1
    <3> HIDE DEF c1
    <3>3. c2 = [stream |-> st, arrived |-> arrived, hello |-> parsed, done |-> c.done, sent |-> whole]
      BY <3>1
    <3> HIDE DEF c2
    <3>4. c3 = [stream |-> st, arrived |-> arrived, hello |-> parsed, done |-> done, sent |-> whole]
      BY <3>3
    <3> HIDE DEF c3
    <3> QED BY <3>2, <3>4
  <2>2. /\ r.arrived = arrived /\ r.hello = parsed /\ r.done = done
        /\ r = [stream |-> Stream(h, v), arrived |-> r.arrived, hello |-> r.hello, done |-> r.done,
                sent |-> whole]
    BY <2>5 DEF st
  <2>3. parsed \in {None, whole}
    BY <1>2
  <2>4. r.hello = whole \/ n > MaxRecorded \/ (~r.done /\ r.arrived < n)
    <3> SUFFICES ASSUME parsed # whole, ~(n > MaxRecorded) PROVE ~r.done /\ r.arrived < n
      BY <2>2
    <3>1. parsed = None /\ (arrived < n \/ n - 2 > MaxHandshake)
      BY <1>2
    <3>2. arrived < n
      BY <1>1, <3>1
    <3>3. ~(arrived > MaxRecorded)
      BY <1>1, <3>2
    <3>4. ~done
      BY <3>1, <3>3 DEF done
    <3> QED BY <2>2, <3>2, <3>4
  <2> QED BY <2>2, <2>3, <2>4 DEF Recording, whole, n, r
<1> QED BY <1>4, <1>5

\* A step of the command that leaves it at no recording.
LEMMA Elsewhere ==
  ASSUME Running, browser' = browser, conn' = conn,
         \/ cmd' = cmd
         \/ cmd.stage # "loading" /\ cmd'.stage \in {"idle", "worn", "half", "both", "named", "runs"}
  PROVE  Running'
<1>1. CASE cmd' = cmd
  BY <1>1 DEF Running
<1>2. CASE cmd.stage # "loading" /\ cmd'.stage \in {"idle", "worn", "half", "both", "named", "runs"}
  BY <1>2 DEF Running
<1> QED BY <1>1, <1>2

LEMMA IdleIs == Idle.stage = "idle"
BY DEF Idle

LEMMA RunningNext ==
  ASSUME Running, [Next]_vars
  PROVE  Running'
<1>1. CASE Update
  <2>1. browser' \in 1..Versions
    BY <1>1, RecorderAssumption DEF Update, Running
  <2>2. conn' = conn /\ cmd' = cmd
    BY <1>1 DEF Update
  <2> QED BY <2>1, <2>2 DEF Running
<1>2. CASE MeasureHTTP1
  <2>1. cmd.stage # "loading" /\ browser' = browser /\ conn' = conn /\ browser \in 1..Versions
    BY <1>2, IdleIs DEF MeasureHTTP1, Running
  <2>2. CASE Cold(Sends[browser].http1)
    <3>1. cmd' = [stage |-> "http1", by |-> browser]
      BY <1>2, <2>2 DEF MeasureHTTP1
    <3>2. cmd'.stage = "http1" /\ cmd'.by = browser
      BY <3>1
    <3> QED BY <2>1, <3>2 DEF Running
  <2>3. CASE ~Cold(Sends[browser].http1)
    <3>1. cmd' = Idle
      BY <1>2, <2>3 DEF MeasureHTTP1
    <3> QED BY <2>1, <3>1, IdleIs, Elsewhere
  <2> QED BY <2>2, <2>3
<1>3. CASE \E v \in Variations : Open(v)
  <2> PICK v \in Variations : Open(v)
    BY <1>3
  <2> DEFINE by == <<cmd.by, browser>>
             h == SentBy(by, v)
  <2>1. cmd.by \in 1..Versions /\ browser \in 1..Versions
    BY DEF Open, Running
  <2>2. by \in Two /\ by[2] = browser
    BY <2>1 DEF Two
  <2>3. cmd' = [stage |-> "loading", by |-> by] /\ browser' = browser
    BY DEF Open
  <2>4. conn' = [stream |-> Stream(h, v), arrived |-> 0, hello |-> None, done |-> FALSE,
                 sent |-> WholeOf(h, v)]
    BY <2>2 DEF Open, SentBy, WholeOf
  <2>5. IsHello(h) /\ CutInside(h, v)
    BY <2>1, <2>2, DrawnIsHello DEF SentBy
  <2>6. 0 < LastUnit(h) + 2
    <3>1. LastUnit(h) \in Nat
      BY <2>5, EndsAre
    <3> QED BY <3>1
  <2> HIDE DEF h, by
  <2>7. Recording(conn', h, v)
    BY <2>4, <2>6 DEF Recording
  <2>8. cmd'.stage = "loading" /\ cmd'.by = by
    BY <2>3
  <2>9. Recording(conn', SentBy(cmd'.by, v), v)
    BY <2>7, <2>8 DEF h
  <2> QED BY <2>1, <2>2, <2>3, <2>8, <2>9 DEF Running
<1>4. CASE Read
  <2>1. cmd.stage = "loading" /\ cmd' = cmd /\ browser' = browser
    BY <1>4 DEF Read
  <2>2. PICK v \in Variations : Recording(conn, SentBy(cmd.by, v), v)
    BY <2>1 DEF Running
  <2> DEFINE h == SentBy(cmd.by, v)
  <2>3. cmd.by \in Two
    BY <2>1 DEF Running
  <2>4. IsHello(h) /\ CutInside(h, v)
    <3>1. cmd.by[2] \in 1..Versions
      BY <2>3 DEF Two
    <3> QED BY <3>1, DrawnIsHello DEF SentBy
  <2> HIDE DEF h
  <2>5. Recording(conn, h, v)
    BY <2>2 DEF h
  <2>6. PICK arrived \in (conn.arrived + 1)..End(conn.stream, Len(conn.stream)) :
          conn' = Record(conn, arrived)
    BY <1>4 DEF Read
  <2>7. arrived \in Nat /\ arrived > conn.arrived
    <3>1. conn.arrived \in Nat
      BY <2>5 DEF Recording
    <3>2. arrived \in Int /\ conn.arrived + 1 <= arrived
      BY <2>6, <3>1
    <3> QED BY <3>1, <3>2
  <2>8. Recording(conn', h, v)
    BY <2>4, <2>5, <2>6, <2>7, RecordKeeps
  <2>9. Recording(conn', SentBy(cmd'.by, v), v)
    BY <2>1, <2>8 DEF h
  <2> QED BY <2>1, <2>3, <2>9 DEF Running
<1>5. CASE Loaded
  <2>1. cmd.stage = "loading" /\ browser' = browser /\ conn' = None
        /\ cmd' = [stage |-> "measured", capture |-> Captured(cmd.by, RawOf(conn.hello))]
    BY <1>5 DEF Loaded
  <2>2. PICK v \in Variations : Recording(conn, SentBy(cmd.by, v), v)
    BY <2>1 DEF Running
  <2> DEFINE by == cmd.by
             h == SentBy(by, v)
             raw == RawOf(conn.hello)
  <2>3. by \in Two
    BY <2>1 DEF Running
  <2>4. raw \in {None, HelloRecords(h, v)}
    <3>1. conn.hello \in {None, WholeOf(h, v)}
      BY <2>2 DEF Recording
    <3>2. WholeOf(h, v).raw = HelloRecords(h, v)
      BY DEF WholeOf
    <3> QED BY <3>1, <3>2 DEF RawOf
  <2>5. cmd' = [stage |-> "measured", capture |-> Captured(by, raw)]
    BY <2>1
  <2> HIDE DEF by, raw
  <2>6. cmd'.stage = "measured" /\ cmd'.capture = Captured(by, raw)
    BY <2>5
  <2>7. cmd'.capture \in {Captured(by, None), Captured(by, HelloRecords(SentBy(by, v), v))}
    BY <2>4, <2>6
  <2> QED BY <2>1, <2>3, <2>6, <2>7 DEF Running
<1>6. CASE GiveUp
  BY <1>6, IdleIs DEF GiveUp, Running
<1>7. ASSUME NEW name, Save(name) PROVE Running'
  <2>1. cmd.stage = "measured" /\ cmd' = Idle /\ browser' = browser /\ conn' = conn
    BY <1>7 DEF Save
  <2> QED BY <2>1, IdleIs, Elsewhere
<1>8. CASE \E n \in Given : Install(n) \/ SaveAs(n)
  BY <1>7, <1>8 DEF Install, SaveAs
<1>9. CASE \E f \in ByHand : PutFile(f)
  BY <1>9, Elsewhere DEF PutFile
<1>10. CASE \E p \in Added : Register(p)
  BY <1>10, Elsewhere DEF Register
<1>11. ASSUME NEW name, Wear(name) PROVE Running'
  <2>1. cmd.stage = "measured" /\ browser' = browser /\ conn' = conn
    BY <1>11 DEF Wear
  <2>2. PICK p : cmd' = IF IsProfile(p) /\ Wearable(p)
                        THEN [stage |-> "worn", browser |-> cmd.capture, profile |-> p] ELSE Idle
    BY <1>11 DEF Wear
  <2>3. cmd'.stage \in {"idle", "worn"}
    BY <2>2, IdleIs
  <2> QED BY <2>1, <2>3, Elsewhere
<1>12. ASSUME NEW v, MeasureSelf(v) PROVE Running'
  <2>1. cmd.stage = "half" /\ browser' = browser /\ conn' = conn
    BY <1>12 DEF MeasureSelf
  <2>2. \E client : cmd' = [stage |-> "both", browser |-> cmd.browser, client |-> client]
    BY <1>12 DEF MeasureSelf
  <2>3. cmd'.stage = "both"
    BY <2>2
  <2> QED BY <2>1, <2>3, Elsewhere
<1>13. CASE Judge
  <2>1. cmd.stage = "both" /\ cmd' = Idle /\ browser' = browser /\ conn' = conn
    BY <1>13 DEF Judge
  <2> QED BY <2>1, IdleIs, Elsewhere
<1>14. CASE UNCHANGED vars
  BY <1>14, Elsewhere DEF vars
<1>15. ASSUME NEW name, Settle(name) PROVE Running'
  <2>1. cmd = Idle /\ browser' = browser /\ conn' = conn
    BY <1>15 DEF Settle
  <2>2. \E worn : cmd' = [stage |-> "named", asked |-> name, name |-> worn]
    BY <1>15 DEF Settle
  <2>3. cmd'.stage = "named"
    BY <2>2
  <2> QED BY <2>1, <2>3, IdleIs, Elsewhere
<1>16. CASE Run
  <2>1. cmd.stage = "named" /\ browser' = browser /\ conn' = conn
    BY <1>16 DEF Run
  <2>2. PICK p : cmd' = IF IsProfile(p) /\ Wearable(p)
                        THEN [stage |-> "runs", asked |-> cmd.asked, profile |-> p] ELSE Idle
    BY <1>16 DEF Run
  <2>3. cmd'.stage \in {"idle", "runs"}
    BY <2>2, IdleIs
  <2> QED BY <2>1, <2>3, Elsewhere
<1>17. CASE MeasureSelfHTTP1
  <2>1. cmd.stage = "worn" /\ browser' = browser /\ conn' = conn
    BY <1>17 DEF MeasureSelfHTTP1
  <2>2. \E half : cmd' = [stage |-> "half", browser |-> cmd.browser, profile |-> cmd.profile, http1 |-> half]
    BY <1>17 DEF MeasureSelfHTTP1
  <2>3. cmd'.stage = "half"
    BY <2>2
  <2> QED BY <2>1, <2>3, Elsewhere
<1> QED
  BY <1>1, <1>2, <1>3, <1>4, <1>5, <1>6, <1>8, <1>9, <1>10, <1>11, <1>12, <1>13, <1>14, <1>15, <1>16,
     <1>17 DEF Next

LEMMA RunningFirst ==
  ASSUME Init
  PROVE  Running
BY IdleIs, RecorderAssumption DEF Init, Running

LEMMA RunningAlways == Spec => []Running
<1>1. Running /\ [Next]_vars => Running'
  BY RunningNext
<1> QED BY <1>1, RunningFirst, PTL DEF Spec

\* recordingConn: the recorder never has anything but the hello that was sent and the
\* records it took, however they arrive, and has it once all of it was read, unless it is
\* longer than maxRecordedHello.
THEOREM RecorderReadsHello == Spec => []RecorderBlindToSplit
<1>1. Running => RecorderBlindToSplit
  <2> SUFFICES ASSUME Running, conn # None
               PROVE  /\ conn.hello \in {None, conn.sent}
                      /\ (conn.arrived = End(conn.stream, Len(conn.stream))
                          /\ End(conn.sent.raw, Len(conn.sent.raw)) <= MaxRecorded)
                            => conn.hello = conn.sent
    BY DEF RecorderBlindToSplit
  <2>1. cmd.stage = "loading"
    BY DEF Running
  <2>2. PICK v \in Variations : Recording(conn, SentBy(cmd.by, v), v)
    BY <2>1 DEF Running
  <2> DEFINE h == SentBy(cmd.by, v)
  <2>3. IsHello(h) /\ CutInside(h, v)
    <3>1. cmd.by[2] \in 1..Versions
      BY <2>1 DEF Running, Two
    <3> QED BY <3>1, DrawnIsHello DEF SentBy
  <2> HIDE DEF h
  <2>4. Recording(conn, h, v)
    BY <2>2 DEF h
  <2>5. /\ LastUnit(h) \in Nat /\ MaxRecorded \in Nat
        /\ End(HelloRecords(h, v), Len(HelloRecords(h, v))) = LastUnit(h) + 2
        /\ End(Stream(h, v), Len(Stream(h, v))) = LastUnit(h) + 4
    BY <2>3, EndsAre, RecorderAssumption
  <2>6. /\ conn.stream = Stream(h, v) /\ conn.sent = WholeOf(h, v)
        /\ conn.sent.raw = HelloRecords(h, v)
    BY <2>4 DEF Recording, WholeOf
  <2>7. /\ conn.hello \in {None, conn.sent} /\ conn.arrived \in Nat
        /\ conn.hello = conn.sent \/ LastUnit(h) + 2 > MaxRecorded
           \/ conn.arrived < LastUnit(h) + 2
    BY <2>4, <2>6 DEF Recording
  <2>8. ASSUME conn.arrived = End(conn.stream, Len(conn.stream)),
               End(conn.sent.raw, Len(conn.sent.raw)) <= MaxRecorded
        PROVE  conn.hello = conn.sent
    <3>1. conn.arrived = LastUnit(h) + 4 /\ LastUnit(h) + 2 <= MaxRecorded
      BY <2>5, <2>6, <2>8
    <3>2. ~(conn.arrived < LastUnit(h) + 2) /\ ~(LastUnit(h) + 2 > MaxRecorded)
      BY <2>5, <3>1
    <3> QED BY <2>7, <3>2
  <2> QED BY <2>7, <2>8
<1> QED BY <1>1, RunningAlways, PTL

-----------------------------------------------------------------------------
(* Kept. *)

LEMMA LocalIsSaved == Local \in SavedAs
BY DEF SavedAs

\* A word put after others.
LEMMA WordAppended ==
  ASSUME NEW s \in Seq(STRING), Len(s) > 0, NEW w \in STRING
  PROVE  /\ Len(Append(s, w)) > 1
         /\ Front(Append(s, w)) = s /\ Last(Append(s, w)) = w
<1> DEFINE full == Append(s, w)
           k == Len(s)
<1>1. /\ full \in Seq(STRING) /\ Len(full) = k + 1 /\ full[k + 1] = w
      /\ \A i \in 1..k : full[i] = s[i]
  <2>1. full \in Seq(STRING)
    BY AppendProperties, Zenon
  <2>2. Len(full) = k + 1
    OBVIOUS
  <2>3. full[k + 1] = w
    BY AppendProperties
  <2>4. \A i \in 1..k : full[i] = s[i]
    BY AppendProperties
  <2> QED BY <2>1, <2>2, <2>3, <2>4
<1>2. k \in Nat /\ k >= 1 /\ \A i \in 1..k : full[i] \in STRING
  BY <1>1, ElementOfSeq
<1> HIDE DEF full, k
<1>3. /\ SubSeq(full, 1, k) \in Seq(STRING)
      /\ Len(SubSeq(full, 1, k)) = IF 1 <= k THEN k - 1 + 1 ELSE 0
      /\ \A i \in 1..(k - 1 + 1) : SubSeq(full, 1, k)[i] = full[1 + i - 1]
  BY <1>2, SubSeqProperties
<1>4. Len(SubSeq(full, 1, k)) = k /\ \A i \in 1..k : SubSeq(full, 1, k)[i] = s[i]
  BY <1>1, <1>2, <1>3
<1>5. SubSeq(full, 1, k) = s
  BY <1>3, <1>4, SeqEqual DEF k
<1>6. Len(full) - 1 = k
  BY <1>1, <1>2
<1>7. Front(full) = s
  BY <1>5, <1>6 DEF Front
<1>8. Last(full) = w /\ Len(full) > 1
  BY <1>1, <1>2 DEF Last
<1> QED BY <1>7, <1>8 DEF full

\* A name a profile is saved under, taken apart.
LEMMA SplitIs ==
  ASSUME NEW n \in SavedAs
  PROVE  LET version == Split(n).version
             platform == Split(n).platform
         IN /\ Full(n) = Append(version, platform)
            /\ Len(Full(n)) > 1 /\ Front(Full(n)) = version /\ Last(Full(n)) = platform
<1> DEFINE version == Split(n).version
           platform == Split(n).platform
<1>1. n \in Seq(STRING) /\ n # <<>> /\ HostPlatform \in STRING
  BY NamesAssumption
<1>2. Len(n) \in Nat /\ Len(n) > 0 /\ n[Len(n)] \in STRING
  BY <1>1
<1>3. version \in Seq(STRING) /\ Len(version) > 0 /\ platform \in STRING
  <2>1. CASE Len(n) > 1 /\ Last(n) \in ToSet(Platforms)
    <3>1. version = Front(n) /\ platform = Last(n)
      BY <2>1 DEF Split
    <3>2. \A i \in 1..(Len(n) - 1) : n[i] \in STRING
      BY <1>1, ElementOfSeq
    <3>3. Len(n) - 1 \in Nat /\ 1 <= Len(n) - 1
      BY <1>2, <2>1
    <3>4. Front(n) \in Seq(STRING) /\ Len(Front(n)) = Len(n) - 1
      BY <3>2, <3>3, SubSeqProperties DEF Front
    <3> HIDE DEF version, platform
    <3> QED BY <1>2, <3>1, <3>3, <3>4 DEF Last
  <2>2. CASE ~(Len(n) > 1 /\ Last(n) \in ToSet(Platforms))
    <3>1. version = n /\ platform = HostPlatform
      BY <2>2 DEF Split
    <3> HIDE DEF version, platform
    <3> QED BY <1>1, <1>2, <3>1
  <2> QED BY <2>1, <2>2
<1>4. Full(n) = Append(version, platform)
  BY DEF Full
<1> HIDE DEF version, platform
<1>5. /\ Len(Append(version, platform)) > 1
      /\ Front(Append(version, platform)) = version /\ Last(Append(version, platform)) = platform
  BY <1>3, WordAppended
<1> QED BY <1>4, <1>5 DEF version, platform

\* What a save does: it puts a profile that loads, and has a hello, where its names say.
Saves(n, p) ==
    LET version == Split(n).version
        there   == IF version \in DOMAIN dir.dirs THEN dir.dirs[version] ELSE <<>>
    IN /\ dir' = [dir EXCEPT !.dirs = With(@, version, With(there, Split(n).platform, p))]
       /\ saved' = [version |-> version, platform |-> Split(n).platform, profile |-> p]
       /\ p \notin {Broken, NotFound} /\ p.raw # None

LEMMA FromCaptureIs ==
  ASSUME NEW name, NEW capture, FromCapture(name, capture) # None
  PROVE  FromCapture(name, capture).raw = capture.raw /\ capture.raw # None
BY DEF FromCapture

LEMMA SaveIs ==
  ASSUME Running, NEW n \in SavedAs, Save(n)
  PROVE  \E p : Saves(n, p)
<1> DEFINE at == Split(n)
<1>1. cmd.stage = "measured"
  BY DEF Save
<1>2. PICK by \in Two, v \in Variations :
        cmd.capture \in {Captured(by, None), Captured(by, HelloRecords(SentBy(by, v), v))}
  BY <1>1 DEF Running
<1>3. PICK p \in {FromCapture(Full(n), cmd.capture)} \ {None} :
        /\ dir' = [dir EXCEPT !.dirs =
                     With(@, at.version,
                          With(IF at.version \in DOMAIN dir.dirs THEN dir.dirs[at.version] ELSE <<>>,
                               at.platform, Stored(p)))]
        /\ saved' = [version |-> at.version, platform |-> at.platform, profile |-> p]
  BY DEF Save, Full
<1>4. p = FromCapture(Full(n), cmd.capture) /\ p # None
  BY <1>3
<1>5. p.raw = cmd.capture.raw /\ cmd.capture.raw # None
  BY <1>4, FromCaptureIs
<1>6. cmd.capture = Captured(by, HelloRecords(SentBy(by, v), v))
  <2>1. Captured(by, None).raw = None
    BY DEF Captured
  <2> QED BY <1>2, <1>5, <2>1
<1>7. Loads(p) /\ p \notin {Broken, NotFound}
  BY <1>4, <1>6, ProfilesAssumption DEF Two, SentBy
<1>8. Stored(p) = p
  BY <1>7 DEF Stored
<1> QED BY <1>3, <1>5, <1>7, <1>8 DEF Saves

\* Every save is under one of the names.
LEMMA SavedUnder ==
  ASSUME Running, NEW g \in Given, Install(g) \/ SaveAs(g)
  PROVE  \E n \in SavedAs : Save(n)
<1>1. CASE Install(g)
  <2>1. (IF g = None THEN Local ELSE g) \in SavedAs
    BY DEF SavedAs
  <2> QED BY <1>1, <2>1 DEF Install
<1>2. CASE SaveAs(g)
  <2>1. cmd.stage = "measured" /\ Save(IF g = None THEN NameFor[cmd.capture.agent] ELSE g)
    BY <1>2 DEF SaveAs
  <2>2. PICK by \in Two, v \in Variations :
          cmd.capture \in {Captured(by, None), Captured(by, HelloRecords(SentBy(by, v), v))}
    BY <2>1 DEF Running
  <2>3. cmd.capture.agent = Sends[by[2]].agent /\ by[2] \in 1..Versions
    <3>1. \A raw : Captured(by, raw).agent = Sends[by[2]].agent
      BY DEF Captured
    <3> QED BY <2>2, <3>1 DEF Two
  <2>4. (IF g = None THEN NameFor[cmd.capture.agent] ELSE g) \in SavedAs
    BY <2>3 DEF SavedAs
  <2> QED BY <2>1, <2>4
<1> QED BY <1>1, <1>2

\* The directory: what was saved last is at its place.
Kept ==
    /\ dir = [flat |-> dir.flat, dirs |-> dir.dirs]
    /\ DOMAIN dir.dirs \subseteq {Split(n).version : n \in SavedAs}
    /\ saved # None =>
         \E n \in SavedAs :
           LET version == Split(n).version
               platform == Split(n).platform
           IN /\ saved.version = version /\ saved.platform = platform
              /\ version \in DOMAIN dir.dirs /\ platform \in DOMAIN dir.dirs[version]
              /\ dir.dirs[version][platform] = saved.profile
              /\ saved.profile \notin {Broken, NotFound} /\ saved.profile.raw # None

LEMMA KeptNext ==
  ASSUME Running, Kept, [Next]_vars
  PROVE  Kept'
<1>1. ASSUME NEW n \in SavedAs, Save(n) PROVE Kept'
  <2>1. PICK p : Saves(n, p)
    BY <1>1, SaveIs
  <2> DEFINE version == Split(n).version
             platform == Split(n).platform
             there == IF version \in DOMAIN dir.dirs THEN dir.dirs[version] ELSE <<>>
             files == With(there, platform, p)
             dirs == With(dir.dirs, version, files)
  <2>2. dir' = [dir EXCEPT !.dirs = dirs] /\ saved' = [version |-> version, platform |-> platform, profile |-> p]
        /\ p \notin {Broken, NotFound} /\ p.raw # None
    BY <2>1 DEF Saves
  <2>3. DOMAIN files = DOMAIN there \cup {platform} /\ files[platform] = p
    BY DEF With
  <2>4. DOMAIN dirs = DOMAIN dir.dirs \cup {version} /\ dirs[version] = files
    BY DEF With
  <2>5. version \in {Split(m).version : m \in SavedAs}
    OBVIOUS
  <2> HIDE DEF version, platform, files, dirs
  <2>6. dir' = [flat |-> dir.flat, dirs |-> dirs]
    BY <2>2 DEF Kept
  <2>7. dir'.flat = dir.flat /\ dir'.dirs = dirs /\ dir' = [flat |-> dir'.flat, dirs |-> dir'.dirs]
    BY <2>6
  <2>8. DOMAIN dir'.dirs \subseteq {Split(m).version : m \in SavedAs}
    BY <2>4, <2>5, <2>7 DEF Kept
  <2>9. saved'.version = version /\ saved'.platform = platform /\ saved'.profile = p
    BY <2>2
  <2>10. /\ version \in DOMAIN dir'.dirs /\ platform \in DOMAIN dir'.dirs[version]
         /\ dir'.dirs[version][platform] = p
    BY <2>3, <2>4, <2>7
  <2> QED BY <2>2, <2>7, <2>8, <2>9, <2>10 DEF Kept, version, platform
<1>2. CASE \E g \in Given : Install(g) \/ SaveAs(g)
  BY <1>1, <1>2, SavedUnder
<1>3. ASSUME NEW f, PutFile(f) PROVE Kept'
  <2>1. saved' = saved /\ dir' = [dir EXCEPT !.flat = With(@, f.name, f.content)]
    BY <1>3 DEF PutFile
  <2>2. dir' = [flat |-> With(dir.flat, f.name, f.content), dirs |-> dir.dirs]
    BY <2>1 DEF Kept
  <2>3. dir'.dirs = dir.dirs /\ dir' = [flat |-> dir'.flat, dirs |-> dir'.dirs]
    BY <2>2
  <2> QED BY <2>1, <2>3 DEF Kept
<1>4. ASSUME dir' = dir, saved' = saved PROVE Kept'
  BY <1>4 DEF Kept
<1>5. CASE Update
  BY <1>4, <1>5 DEF Update
<1>6. CASE MeasureHTTP1
  BY <1>4, <1>6 DEF MeasureHTTP1
<1>7. ASSUME NEW v, Open(v) PROVE Kept'
  BY <1>4, <1>7 DEF Open
<1>8. CASE Read
  BY <1>4, <1>8 DEF Read
<1>9. CASE Loaded
  BY <1>4, <1>9 DEF Loaded
<1>10. CASE GiveUp
  BY <1>4, <1>10 DEF GiveUp
<1>11. ASSUME NEW p, Register(p) PROVE Kept'
  BY <1>4, <1>11 DEF Register
<1>12. ASSUME NEW name, Wear(name) PROVE Kept'
  BY <1>4, <1>12 DEF Wear
<1>13. ASSUME NEW v, MeasureSelf(v) PROVE Kept'
  BY <1>4, <1>13 DEF MeasureSelf
<1>14. CASE Judge
  BY <1>4, <1>14 DEF Judge
<1>15. CASE UNCHANGED vars
  BY <1>4, <1>15 DEF vars
<1>16. ASSUME NEW name, Settle(name) PROVE Kept'
  BY <1>4, <1>16 DEF Settle
<1>17. CASE Run \/ MeasureSelfHTTP1
  BY <1>4, <1>17 DEF Run, MeasureSelfHTTP1
<1> QED
  BY <1>2, <1>3, <1>5, <1>6, <1>7, <1>8, <1>9, <1>10, <1>11, <1>12, <1>13, <1>14, <1>15,
     <1>16, <1>17 DEF Next

LEMMA KeptFirst ==
  ASSUME Init
  PROVE  Kept
<1>1. dir = [flat |-> <<>>, dirs |-> <<>>] /\ saved = None
  BY DEF Init
<1>2. dir.dirs = <<>> /\ dir.flat = <<>>
  BY <1>1
<1> QED BY <1>1, <1>2 DEF Kept

LEMMA KeptAlways == Spec => []Kept
<1>1. Kept /\ Running /\ [Next]_vars => Kept'
  BY KeptNext
<1> QED BY <1>1, KeptFirst, RunningAlways, PTL DEF Spec

\* saveProfile and lookup: what was saved last is what its names mean, and it is listed.
NamesMean ==
    LET version == saved.version
        full    == Append(version, saved.platform)
        Free(n) == n \notin DOMAIN added \cup DOMAIN dir.flat
    IN /\ Free(full) => Resolve(added, dir, full) = saved.profile
       /\ Free(version) /\ saved.platform = HostPlatform => Resolve(added, dir, version) = saved.profile
       /\ Free(version) => saved.platform \in Measured(dir)[version]
       /\ IsMeasured(saved.profile)

LEMMA KeptMeans ==
  ASSUME Kept, saved # None
  PROVE  NamesMean
<1> DEFINE version == saved.version
           platform == saved.platform
           profile == saved.profile
           full == Append(version, platform)
           files == dir.dirs[version]
<1>1. PICK n \in SavedAs :
        /\ version = Split(n).version /\ platform = Split(n).platform
        /\ version \in DOMAIN dir.dirs /\ platform \in DOMAIN files
        /\ files[platform] = profile
        /\ profile \notin {Broken, NotFound} /\ profile.raw # None
  BY DEF Kept
<1>2. /\ full = Full(n) /\ Len(full) > 1 /\ Front(full) = version /\ Last(full) = platform
      /\ full \notin DOMAIN Files /\ version \notin DOMAIN Files
  <2>1. full = Full(n)
    BY <1>1, SplitIs
  <2> QED BY <1>1, <2>1, SplitIs, NamesAssumption
<1>3. full \notin DOMAIN dir.dirs
  <2>1. \A m \in SavedAs : full # Split(m).version
    BY <1>2, NamesAssumption
  <2> QED BY <2>1 DEF Kept
<1> HIDE DEF version, platform, profile, full, files
<1>4. ASSUME full \notin DOMAIN added \cup DOMAIN dir.flat
      PROVE  Resolve(added, dir, full) = profile
  <2>1. Lookup(dir, full) = profile
    BY <1>1, <1>2, <1>3, <1>4 DEF Lookup, files
  <2> QED BY <1>1, <1>2, <1>4, <2>1 DEF Resolve
<1>5. ASSUME version \notin DOMAIN added \cup DOMAIN dir.flat, platform = HostPlatform
      PROVE  Resolve(added, dir, version) = profile
  <2>1. Lookup(dir, version) = profile
    BY <1>1, <1>5 DEF Lookup, files
  <2> QED BY <1>1, <1>2, <1>5, <2>1 DEF Resolve
<1>6. ASSUME version \notin DOMAIN added \cup DOMAIN dir.flat
      PROVE  platform \in Measured(dir)[version]
  <2>1. version \in DOMAIN GroupsIn(dir) /\ GroupsIn(dir)[version] = DOMAIN files
    BY <1>1, <1>6 DEF GroupsIn, files
  <2>2. platform \in GroupsIn(dir)[version]
    BY <1>1, <2>1
  <2> QED BY <2>1, <2>2 DEF Measured
<1>7. IsMeasured(profile)
  BY <1>1 DEF IsMeasured, IsProfile
<1> QED BY <1>4, <1>5, <1>6, <1>7 DEF NamesMean, version, platform, profile, full

\* The measurement of this machine was saved last, and nothing stands before it.
LocalKept ==
    /\ saved # None /\ saved.version = Local /\ saved.platform = HostPlatform
    /\ Local \notin DOMAIN added \cup DOMAIN dir.flat

LEMMA LocalMeans ==
  ASSUME Kept, LocalKept
  PROVE  Get(added, dir, Local) = saved.profile /\ DefaultName = Local
<1>1. Resolve(added, dir, Local) = saved.profile /\ IsMeasured(saved.profile)
  BY KeptMeans DEF LocalKept, NamesMean
<1>2. Get(added, dir, Local) = saved.profile
  BY <1>1 DEF Get, IsMeasured, IsProfile
<1> QED BY <1>1, <1>2 DEF DefaultName

\* clientFlags.wear and New: a command without a name goes by it, from the one to the other.
Nameless ==
    LocalKept /\ cmd.stage \in {"named", "runs"} =>
      /\ cmd.stage = "named" /\ cmd.asked = None => cmd.name = Local
      /\ cmd.stage = "runs" /\ cmd.asked = None => cmd.profile = saved.profile

LEMMA NamelessNext ==
  ASSUME Kept, Nameless, [Next]_vars
  PROVE  Nameless'
<1>1. ASSUME cmd'.stage \notin {"named", "runs"} PROVE Nameless'
  BY <1>1 DEF Nameless
<1>2. ASSUME cmd' = cmd, saved' = saved, LocalKept' => LocalKept PROVE Nameless'
  BY <1>2 DEF Nameless
<1>3. ASSUME added' = added, dir' = dir, saved' = saved PROVE LocalKept' => LocalKept
  BY <1>3 DEF LocalKept
<1>4. ASSUME NEW name, Settle(name) PROVE Nameless'
  <2>1. /\ cmd' = [stage |-> "named", asked |-> name, name |-> IF name = None THEN DefaultName ELSE name]
        /\ added' = added /\ dir' = dir /\ saved' = saved
    BY <1>4 DEF Settle
  <2>2. cmd'.stage = "named" /\ cmd'.asked = name /\ (name = None => cmd'.name = DefaultName)
    BY <2>1
  <2>3. LocalKept' => DefaultName = Local
    BY <1>3, <2>1, LocalMeans
  <2> QED BY <2>2, <2>3 DEF Nameless
<1>5. CASE Run
  <2>1. /\ cmd.stage = "named" /\ added' = added /\ dir' = dir /\ saved' = saved
        /\ \/ cmd' = [stage |-> "runs", asked |-> cmd.asked, profile |-> Get(added, dir, cmd.name)]
           \/ cmd' = Idle
    BY <1>5 DEF Run
  <2>2. CASE cmd' = Idle
    BY <1>1, <2>2, IdleIs
  <2>3. CASE cmd' = [stage |-> "runs", asked |-> cmd.asked, profile |-> Get(added, dir, cmd.name)]
    <3>1. /\ cmd'.stage = "runs" /\ cmd'.asked = cmd.asked
          /\ cmd'.profile = Get(added, dir, cmd.name)
      BY <2>3
    <3>2. LocalKept' /\ cmd.asked = None => cmd'.profile = saved'.profile
      BY <1>3, <2>1, <3>1, LocalMeans DEF Nameless
    <3> QED BY <3>1, <3>2 DEF Nameless
  <2> QED BY <2>1, <2>2, <2>3
<1>6. ASSUME NEW f \in ByHand, PutFile(f) PROVE Nameless'
  <2>1. /\ cmd' = cmd /\ saved' = saved /\ added' = added
        /\ dir' = [dir EXCEPT !.flat = With(@, f.name, f.content)]
    BY <1>6 DEF PutFile
  <2>2. dir' = [flat |-> With(dir.flat, f.name, f.content), dirs |-> dir.dirs]
    BY <2>1 DEF Kept
  <2>3. DOMAIN dir.flat \subseteq DOMAIN dir'.flat
    BY <2>2 DEF With
  <2> QED BY <1>2, <2>1, <2>3 DEF LocalKept
<1>7. ASSUME NEW p \in Added, Register(p) PROVE Nameless'
  <2>1. cmd' = cmd /\ saved' = saved /\ dir' = dir /\ added' = With(added, p.name, p)
    BY <1>7 DEF Register
  <2>2. DOMAIN added \subseteq DOMAIN added'
    BY <2>1 DEF With
  <2> QED BY <1>2, <2>1, <2>2 DEF LocalKept
<1>8. CASE Update \/ Read \/ UNCHANGED vars
  BY <1>2, <1>3, <1>8 DEF Update, Read, vars
<1>9. CASE MeasureHTTP1
  <2>1. cmd' = [stage |-> "http1", by |-> browser] \/ cmd' = Idle
    BY <1>9 DEF MeasureHTTP1
  <2> QED BY <1>1, <2>1, IdleIs
<1>10. ASSUME NEW v, Open(v) PROVE Nameless'
  <2>1. cmd' = [stage |-> "loading", by |-> <<cmd.by, browser>>]
    BY <1>10 DEF Open
  <2> QED BY <1>1, <2>1
<1>11. CASE Loaded
  <2>1. cmd' = [stage |-> "measured", capture |-> Captured(cmd.by, RawOf(conn.hello))]
    BY <1>11 DEF Loaded
  <2> QED BY <1>1, <2>1
<1>12. ASSUME cmd' = Idle PROVE Nameless'
  BY <1>1, <1>12, IdleIs
<1>13. CASE GiveUp \/ Judge \/ \E g \in Given : Install(g) \/ SaveAs(g)
  BY <1>12, <1>13 DEF GiveUp, Judge, Install, SaveAs, Save
<1>14. ASSUME NEW name, Wear(name) PROVE Nameless'
  <2>1. PICK p : cmd' = IF IsProfile(p) /\ Wearable(p)
                        THEN [stage |-> "worn", browser |-> cmd.capture, profile |-> p] ELSE Idle
    BY <1>14 DEF Wear
  <2>2. cmd'.stage \in {"idle", "worn"}
    BY <2>1, IdleIs
  <2> QED BY <1>1, <2>2
<1>15. CASE MeasureSelfHTTP1
  <2>1. \E half : cmd' = [stage |-> "half", browser |-> cmd.browser, profile |-> cmd.profile, http1 |-> half]
    BY <1>15 DEF MeasureSelfHTTP1
  <2>2. cmd'.stage = "half"
    BY <2>1
  <2> QED BY <1>1, <2>2
<1>16. ASSUME NEW v, MeasureSelf(v) PROVE Nameless'
  <2>1. \E client : cmd' = [stage |-> "both", browser |-> cmd.browser, client |-> client]
    BY <1>16 DEF MeasureSelf
  <2>2. cmd'.stage = "both"
    BY <2>1
  <2> QED BY <1>1, <2>2
<1> QED
  BY <1>4, <1>5, <1>6, <1>7, <1>8, <1>9, <1>10, <1>11, <1>13, <1>14, <1>15, <1>16 DEF Next

LEMMA NamelessAlways == Spec => []Nameless
<1>1. Init => Nameless
  BY IdleIs DEF Init, Nameless
<1>2. Kept /\ Nameless /\ [Next]_vars => Nameless'
  BY NamelessNext
<1> QED BY <1>1, <1>2, KeptAlways, PTL DEF Spec

\* What was saved last is what its names mean, it is listed, and a command on the network
\* that is given no name wears the measurement of this machine.
THEOREM SavedNameIsWorn == Spec => []SavedIsWorn
<1>1. Kept /\ Nameless => SavedIsWorn
  BY KeptMeans DEF NamesMean, Nameless, LocalKept, SavedIsWorn
<1> QED BY <1>1, KeptAlways, NamelessAlways, PTL

-----------------------------------------------------------------------------
(* The names there are. *)

Named == IsFiniteSet(AllNames(added, dir)) /\ None \notin AllNames(added, dir)

\* A step that brings up to two names in.
LEMMA NamedStill ==
  ASSUME Named, NEW n, NEW m, n # None, m # None,
         AllNames(added', dir') \subseteq AllNames(added, dir) \cup {n, m}
  PROVE  Named'
<1>1. IsFiniteSet(AllNames(added, dir) \cup {n} \cup {m})
  BY FS_AddElement DEF Named
<1>2. AllNames(added, dir) \cup {n, m} = AllNames(added, dir) \cup {n} \cup {m}
  OBVIOUS
<1>3. IsFiniteSet(AllNames(added', dir'))
  BY <1>1, <1>2, FS_Subset
<1> QED BY <1>3 DEF Named

\* The names of a tree in which a platform of a version was kept.
LEMMA NamesWith ==
  ASSUME NEW flat, NEW dirs, NEW version, NEW platform, NEW p
  PROVE  LET there == IF version \in DOMAIN dirs THEN dirs[version] ELSE <<>>
             new == With(dirs, version, With(there, platform, p))
         IN NamesIn([flat |-> flat, dirs |-> new])
              \subseteq NamesIn([flat |-> flat, dirs |-> dirs])
                          \cup {version, Append(version, platform)}
<1> DEFINE there == IF version \in DOMAIN dirs THEN dirs[version] ELSE <<>>
           files == With(there, platform, p)
           new == With(dirs, version, files)
           Listed(ds) == {d \in DOMAIN ds : DOMAIN ds[d] # {}}
           Under(ds, d) == {d} \cup {Append(d, q) : q \in DOMAIN ds[d]}
           added2 == {version, Append(version, platform)}
<1>1. \A ds : NamesIn([flat |-> flat, dirs |-> ds])
                = DOMAIN flat \cup UNION {Under(ds, d) : d \in Listed(ds)}
  BY DEF NamesIn
<1>2. /\ DOMAIN new = DOMAIN dirs \cup {version} /\ new[version] = files
      /\ \A d \in DOMAIN dirs : d # version => new[d] = dirs[d]
  BY DEF With
<1>3. DOMAIN files = DOMAIN there \cup {platform}
  BY DEF With
<1>4. DOMAIN there # {} => version \in DOMAIN dirs /\ there = dirs[version]
  OBVIOUS
<1> HIDE DEF new, files, there
<1>5. ASSUME NEW d \in Listed(new), NEW x \in Under(new, d)
      PROVE  x \in (UNION {Under(dirs, e) : e \in Listed(dirs)}) \cup added2
  <2>1. CASE d # version
    <3>1. d \in Listed(dirs) /\ new[d] = dirs[d]
      BY <1>2, <2>1
    <3>2. x \in Under(dirs, d)
      BY <3>1
    <3> QED BY <3>1, <3>2
  <2>2. CASE d = version
    <3>1. CASE x = version \/ x = Append(version, platform)
      BY <3>1
    <3>2. CASE \E q \in DOMAIN there : x = Append(version, q)
      <4>1. version \in Listed(dirs) /\ there = dirs[version]
        BY <1>4, <3>2
      <4>2. x \in Under(dirs, version)
        BY <3>2, <4>1
      <4> QED BY <4>1, <4>2
    <3> QED BY <1>2, <1>3, <2>2, <3>1, <3>2
  <2> QED BY <2>1, <2>2
<1>6. UNION {Under(new, d) : d \in Listed(new)}
        \subseteq (UNION {Under(dirs, d) : d \in Listed(dirs)}) \cup added2
  BY <1>5
<1> HIDE DEF Under, Listed, added2
<1>7. NamesIn([flat |-> flat, dirs |-> new]) \subseteq NamesIn([flat |-> flat, dirs |-> dirs]) \cup added2
  BY <1>1, <1>6
<1> QED BY <1>7 DEF new, files, there, added2

LEMMA NamedNext ==
  ASSUME Running, Kept, Named, [Next]_vars
  PROVE  Named'
<1>1. ASSUME NEW n \in SavedAs, Save(n) PROVE Named'
  <2>1. PICK p : Saves(n, p)
    BY <1>1, SaveIs
  <2> DEFINE version == Split(n).version
             platform == Split(n).platform
             there == IF version \in DOMAIN dir.dirs THEN dir.dirs[version] ELSE <<>>
             new == With(dir.dirs, version, With(there, platform, p))
  <2>2. added' = added /\ dir' = [dir EXCEPT !.dirs = new]
    BY <1>1, <2>1 DEF Save, Saves
  <2>3. NamesIn([flat |-> dir.flat, dirs |-> new])
          \subseteq NamesIn([flat |-> dir.flat, dirs |-> dir.dirs]) \cup {version, Append(version, platform)}
    BY NamesWith, Zenon
  <2>4. version # None /\ Append(version, platform) # None
    BY SplitIs, FamiliesAssumption
  <2> HIDE DEF new, version, platform
  <2>5. dir' = [flat |-> dir.flat, dirs |-> new] /\ dir = [flat |-> dir.flat, dirs |-> dir.dirs]
    BY <2>2 DEF Kept
  <2>6. NamesIn(dir') \subseteq NamesIn(dir) \cup {version, Append(version, platform)}
    BY <2>3, <2>5, Zenon
  <2>7. AllNames(added', dir') \subseteq AllNames(added, dir) \cup {version, Append(version, platform)}
    BY <2>2, <2>6 DEF AllNames
  <2> QED BY <2>4, <2>7, NamedStill
<1>2. CASE \E g \in Given : Install(g) \/ SaveAs(g)
  BY <1>1, <1>2, SavedUnder
<1>3. ASSUME NEW f \in ByHand, PutFile(f) PROVE Named'
  <2>1. added' = added /\ dir' = [dir EXCEPT !.flat = With(@, f.name, f.content)]
    BY <1>3 DEF PutFile
  <2>2. dir' = [flat |-> With(dir.flat, f.name, f.content), dirs |-> dir.dirs]
    BY <2>1 DEF Kept
  <2>3. dir'.dirs = dir.dirs /\ DOMAIN dir'.flat = DOMAIN dir.flat \cup {f.name}
    BY <2>2 DEF With
  <2>4. NamesIn(dir') = NamesIn(dir) \cup {f.name}
    BY <2>3 DEF NamesIn
  <2>5. AllNames(added', dir') \subseteq AllNames(added, dir) \cup {f.name, f.name}
    BY <2>1, <2>4 DEF AllNames
  <2>6. f.name # None
    BY FamiliesAssumption
  <2> QED BY <2>5, <2>6, NamedStill
<1>4. ASSUME NEW p \in Added, Register(p) PROVE Named'
  <2>1. dir' = dir /\ DOMAIN added' = DOMAIN added \cup {p.name}
    BY <1>4 DEF Register, With
  <2>2. AllNames(added', dir') \subseteq AllNames(added, dir) \cup {p.name, p.name}
    BY <2>1 DEF AllNames
  <2>3. p.name # None
    BY FamiliesAssumption
  <2> QED BY <2>2, <2>3, NamedStill
<1>5. ASSUME dir' = dir, added' = added PROVE Named'
  BY <1>5 DEF Named
<1>6. CASE Update
  BY <1>5, <1>6 DEF Update
<1>7. CASE MeasureHTTP1
  BY <1>5, <1>7 DEF MeasureHTTP1
<1>8. ASSUME NEW v, Open(v) PROVE Named'
  BY <1>5, <1>8 DEF Open
<1>9. CASE Read
  BY <1>5, <1>9 DEF Read
<1>10. CASE Loaded
  BY <1>5, <1>10 DEF Loaded
<1>11. CASE GiveUp
  BY <1>5, <1>11 DEF GiveUp
<1>12. ASSUME NEW name, Wear(name) PROVE Named'
  BY <1>5, <1>12 DEF Wear
<1>13. ASSUME NEW v, MeasureSelf(v) PROVE Named'
  BY <1>5, <1>13 DEF MeasureSelf
<1>14. CASE Judge
  BY <1>5, <1>14 DEF Judge
<1>15. CASE UNCHANGED vars
  BY <1>5, <1>15 DEF vars
<1>16. ASSUME NEW name, Settle(name) PROVE Named'
  BY <1>5, <1>16 DEF Settle
<1>17. CASE Run \/ MeasureSelfHTTP1
  BY <1>5, <1>17 DEF Run, MeasureSelfHTTP1
<1> QED
  BY <1>2, <1>3, <1>4, <1>6, <1>7, <1>8, <1>9, <1>10, <1>11, <1>12, <1>13, <1>14, <1>15,
     <1>16, <1>17 DEF Next

LEMMA NamedFirst ==
  ASSUME Init
  PROVE  Named
<1>1. dir = [flat |-> <<>>, dirs |-> <<>>] /\ added = <<>>
  BY DEF Init
<1>2. dir.dirs = <<>> /\ dir.flat = <<>> /\ DOMAIN <<>> = {}
  BY <1>1
<1>3. NamesIn(dir) = {}
  BY <1>2 DEF NamesIn
<1>4. AllNames(added, dir) = NamesThere
  BY <1>1, <1>2, <1>3 DEF AllNames, NamesThere
<1> QED BY <1>4, FamiliesAssumption DEF Named

LEMMA NamedAlways == Spec => []Named
<1>1. Named /\ Kept /\ Running /\ [Next]_vars => Named'
  BY NamedNext
<1> QED BY <1>1, NamedFirst, KeptAlways, RunningAlways, PTL DEF Spec

\* newestInFamily: a family means the newest of its members that was measured, and of those
\* that were not only when none was.
THEOREM FamilyMeansNewest == Spec => []NewestMeasured
<1>1. Named => NewestMeasured
  BY NewestFound DEF Named, NewestMeasured, Leading
<1> QED BY <1>1, NamedAlways, PTL
=============================================================================
