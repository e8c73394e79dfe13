---------------------------- MODULE ScopesProofs ----------------------------
(***************************************************************************)
(* Theorems about Scopes, for every program: every set of names and tables *)
(* and every number of steps, declarations and environments.               *)
(***************************************************************************)
EXTENDS Scopes, WellFoundedInduction, SequenceTheorems, TLAPS

(* A set of numbers up to n has a greatest element. *)
LEMMA Greatest ==
  ASSUME NEW n \in Nat, NEW S \in SUBSET (1 .. n), S # {}
  PROVE  Innermost(S) \in S /\ \A j \in S : j <= Innermost(S)
<1> DEFINE R == {p \in Nat \X Nat : p[1] < p[2]}
           T == {k \in 0 .. n : n - k \in S}
<1>1. IsWellFoundedOn(R, Nat)
  BY NatLessThanWellFounded DEF OpToRel
<1>2. T \subseteq Nat OBVIOUS
<1>3. T # {}
  <2>1. PICK i \in S : TRUE OBVIOUS
  <2>2. n - i \in 0 .. n /\ n - (n - i) = i BY <2>1
  <2> QED BY <2>1, <2>2
<1> HIDE DEF R, T
<1>4. PICK k \in T : \A y \in T : ~(<<y, k>> \in R) BY <1>1, <1>2, <1>3, WFMin
<1> USE DEF R, T
<1>5. ASSUME NEW j \in S PROVE j <= n - k
  <2>1. n - j \in T BY <1>5
  <2>2. ~(n - j < k) BY <2>1, <1>4, <1>2
  <2> QED BY <2>2, <1>4
<1>6. n - k \in S BY <1>4
<1> QED BY <1>5, <1>6 DEF Innermost

-----------------------------------------------------------------------------
(* The environments around an environment, as a function of all of them.    *)

Ancestors(E, e) ==
  {i \in DOMAIN E : \A S \in SUBSET DOMAIN E :
     e \in S /\ (\A j \in S : E[j].parent \in S \cup {0}) => i \in S}

Rooted(E) ==
  /\ Len(E) \in Nat /\ DOMAIN E = 1 .. Len(E)
  /\ \A i \in 1 .. Len(E) : E[i].parent \in Nat /\ E[i].parent < i

LEMMA AncestorsOlder ==
  ASSUME NEW E, Rooted(E), NEW e \in 1 .. Len(E)
  PROVE  /\ Ancestors(E, e) \subseteq 1 .. e /\ e \in Ancestors(E, e)
         /\ \A j \in Ancestors(E, e) : E[j].parent \in Ancestors(E, e) \cup {0}
<1> USE DEF Rooted
<1>1. e \in Ancestors(E, e) BY DEF Ancestors
<1>2. ASSUME NEW j \in Ancestors(E, e) PROVE E[j].parent \in Ancestors(E, e) \cup {0}
  <2>1. j \in 1 .. Len(E) BY DEF Ancestors
  <2>2. CASE E[j].parent = 0 BY <2>2
  <2>3. CASE E[j].parent # 0
    <3>1. E[j].parent \in 1 .. Len(E) BY <2>1, <2>3
    <3>2. ASSUME NEW S \in SUBSET DOMAIN E, e \in S, \A k \in S : E[k].parent \in S \cup {0}
          PROVE  E[j].parent \in S
      <4>1. j \in S BY <3>2 DEF Ancestors
      <4> QED BY <4>1, <3>2, <2>3
    <3> QED BY <3>1, <3>2 DEF Ancestors
  <2> QED BY <2>2, <2>3
<1>3. Ancestors(E, e) \subseteq 1 .. e
  <2>1. 1 .. e \in SUBSET DOMAIN E /\ e \in 1 .. e OBVIOUS
  <2>2. \A j \in 1 .. e : E[j].parent \in 1 .. e \cup {0} OBVIOUS
  <2> QED BY <2>1, <2>2 DEF Ancestors
<1> QED BY <1>1, <1>2, <1>3

(* They depend on nothing but the parents of older environments. *)
LEMMA AncestorsWithin ==
  ASSUME NEW E, NEW F, Rooted(E), Rooted(F), NEW e \in 1 .. Len(E), Len(E) <= Len(F),
         \A i \in 1 .. Len(E) : F[i].parent = E[i].parent
  PROVE  Ancestors(F, e) = Ancestors(E, e)
<1> USE DEF Rooted
<1>0. e \in 1 .. Len(F) OBVIOUS
<1>1. Ancestors(E, e) \subseteq 1 .. e /\ e \in Ancestors(E, e)
      /\ \A j \in Ancestors(E, e) : E[j].parent \in Ancestors(E, e) \cup {0}
  BY AncestorsOlder
<1>2. Ancestors(F, e) \subseteq 1 .. e /\ e \in Ancestors(F, e)
      /\ \A j \in Ancestors(F, e) : F[j].parent \in Ancestors(F, e) \cup {0}
  BY <1>0, AncestorsOlder
<1>3. Ancestors(F, e) \subseteq Ancestors(E, e)
  <2>1. Ancestors(E, e) \in SUBSET DOMAIN F BY <1>1
  <2>2. \A j \in Ancestors(E, e) : F[j].parent \in Ancestors(E, e) \cup {0} BY <1>1
  <2> QED BY <1>1, <2>1, <2>2 DEF Ancestors
<1>4. Ancestors(E, e) \subseteq Ancestors(F, e)
  <2>1. Ancestors(F, e) \in SUBSET DOMAIN E BY <1>2
  <2>2. \A j \in Ancestors(F, e) : E[j].parent \in Ancestors(F, e) \cup {0} BY <1>2
  <2> QED BY <1>2, <2>1, <2>2 DEF Ancestors
<1> QED BY <1>3, <1>4

(* Those of a new environment are itself and those of its parent. *)
LEMMA AncestorsOfNew ==
  ASSUME NEW E, NEW F, Rooted(E), Rooted(F), Len(F) = Len(E) + 1,
         \A i \in 1 .. Len(E) : F[i].parent = E[i].parent,
         F[Len(F)].parent # 0
  PROVE  Ancestors(F, Len(F)) = {Len(F)} \cup Ancestors(E, F[Len(F)].parent)
<1> USE DEF Rooted
<1> DEFINE n == Len(F)
           p == F[n].parent
<1>0. n \in 1 .. n /\ p \in 1 .. Len(E) OBVIOUS
<1>1. /\ Ancestors(E, p) \subseteq 1 .. p /\ p \in Ancestors(E, p)
      /\ \A j \in Ancestors(E, p) : E[j].parent \in Ancestors(E, p) \cup {0}
  BY <1>0, AncestorsOlder
<1>2. /\ Ancestors(F, n) \subseteq 1 .. n /\ n \in Ancestors(F, n)
      /\ \A j \in Ancestors(F, n) : F[j].parent \in Ancestors(F, n) \cup {0}
  BY <1>0, AncestorsOlder
<1>3. Ancestors(F, n) \subseteq {n} \cup Ancestors(E, p)
  <2> DEFINE S == {n} \cup Ancestors(E, p)
  <2>1. S \in SUBSET DOMAIN F /\ n \in S BY <1>0, <1>1
  <2>2. \A j \in S : F[j].parent \in S \cup {0} BY <1>0, <1>1
  <2> HIDE DEF S
  <2>3. Ancestors(F, n) \subseteq S BY <2>1, <2>2 DEF Ancestors
  <2> QED BY <2>3 DEF S
<1>4. Ancestors(E, p) \subseteq Ancestors(F, n)
  <2> DEFINE S == Ancestors(F, n) \cap 1 .. Len(E)
  <2>1. S \in SUBSET DOMAIN E /\ p \in S BY <1>0, <1>2
  <2>2. \A j \in S : E[j].parent \in S \cup {0}
    <3> SUFFICES ASSUME NEW j \in S PROVE E[j].parent \in S \cup {0} OBVIOUS
    <3>1. F[j].parent \in Ancestors(F, n) \cup {0} /\ F[j].parent = E[j].parent BY <1>2
    <3>2. E[j].parent \in Nat /\ E[j].parent < j /\ j <= Len(E) OBVIOUS
    <3> QED BY <3>1, <3>2
  <2> HIDE DEF S
  <2>3. Ancestors(E, p) \subseteq S BY <2>1, <2>2 DEF Ancestors
  <2> QED BY <2>3 DEF S
<1> QED BY <1>2, <1>3, <1>4

-----------------------------------------------------------------------------
(* What a name finds, as a function of the environments. *)

BoundIn(E, e, x) ==
  LET B == {i \in Ancestors(E, e) : E[i].vars[x] # 0} IN IF B = {} THEN 0 ELSE Innermost(B)
FoundIn(E, e, x) ==
  IF BoundIn(E, e, x) # 0 THEN E[BoundIn(E, e, x)].vars[x] ELSE IF x = "_ENV" THEN 1 ELSE 0
LateIn(E, e, x) ==
  \E i \in Ancestors(E, e) : i > BoundIn(E, e, x) /\ E[i].born < FoundIn(E, e, x)

LEMMA LookupIn ==
  \A e, x : /\ Binding(e, x) = BoundIn(env, e, x) /\ Binding(e, x)' = BoundIn(env', e, x)
            /\ Found(e, x) = FoundIn(env, e, x) /\ Found(e, x)' = FoundIn(env', e, x)
            /\ Late(e, x) = LateIn(env, e, x) /\ Late(e, x)' = LateIn(env', e, x)
<1> SUFFICES ASSUME NEW e, NEW x
             PROVE  /\ Binding(e, x) = BoundIn(env, e, x) /\ Binding(e, x)' = BoundIn(env', e, x)
                    /\ Found(e, x) = FoundIn(env, e, x) /\ Found(e, x)' = FoundIn(env', e, x)
                    /\ Late(e, x) = LateIn(env, e, x) /\ Late(e, x)' = LateIn(env', e, x)
  OBVIOUS
<1>1. Outwards(e) = Ancestors(env, e) BY DEF Outwards, Ancestors
<1>2. Outwards(e)' = Ancestors(env', e) BY DEF Outwards, Ancestors
<1>3. Binding(e, x) = BoundIn(env, e, x) BY <1>1 DEF Binding, Binders, BoundIn, Innermost
<1>4. Binding(e, x)' = BoundIn(env', e, x) BY <1>2 DEF Binding, Binders, BoundIn, Innermost
<1>5. Found(e, x) = FoundIn(env, e, x) BY <1>3 DEF Found, FoundIn
<1>6. Found(e, x)' = FoundIn(env', e, x) BY <1>4 DEF Found, FoundIn
<1>7. Late(e, x) = LateIn(env, e, x) BY <1>1, <1>3, <1>5 DEF Late, LateIn
<1>8. Late(e, x)' = LateIn(env', e, x) BY <1>2, <1>4, <1>6 DEF Late, LateIn
<1> QED BY <1>3, <1>4, <1>5, <1>6, <1>7, <1>8

(* The binding is the first environment outwards that has the name. *)
LEMMA BoundFacts ==
  ASSUME NEW E, Rooted(E), NEW e \in 1 .. Len(E), NEW x
  PROVE  /\ BoundIn(E, e, x) \in 0 .. e
         /\ BoundIn(E, e, x) # 0 =>
              BoundIn(E, e, x) \in Ancestors(E, e) /\ E[BoundIn(E, e, x)].vars[x] # 0
         /\ \A j \in Ancestors(E, e) : j > BoundIn(E, e, x) => E[j].vars[x] = 0
<1> DEFINE B == {i \in Ancestors(E, e) : E[i].vars[x] # 0}
<1>1. Ancestors(E, e) \subseteq 1 .. e /\ e \in Nat BY AncestorsOlder DEF Rooted
<1>2. CASE B = {}
  <2>1. BoundIn(E, e, x) = 0 BY <1>2 DEF BoundIn
  <2> QED BY <2>1, <1>1, <1>2
<1>3. CASE B # {}
  <2>1. BoundIn(E, e, x) = Innermost(B) BY <1>3 DEF BoundIn
  <2>2. B \in SUBSET (1 .. e) BY <1>1
  <2> HIDE DEF B
  <2>3. Innermost(B) \in B /\ \A j \in B : j <= Innermost(B) BY <1>1, <1>3, <2>2, Greatest
  <2>4. BoundIn(E, e, x) \in B /\ \A j \in B : j <= BoundIn(E, e, x) BY <2>1, <2>3
  <2> USE DEF B
  <2>5. BoundIn(E, e, x) \in Ancestors(E, e) /\ E[BoundIn(E, e, x)].vars[x] # 0 BY <2>4
  <2>6. BoundIn(E, e, x) \in 1 .. e BY <1>1, <2>5
  <2>7. ASSUME NEW j \in Ancestors(E, e), j > BoundIn(E, e, x) PROVE E[j].vars[x] = 0
    <3>1. j \in Nat /\ ~(j <= BoundIn(E, e, x)) BY <1>1, <2>6, <2>7
    <3>2. j \notin B BY <3>1, <2>4
    <3> QED BY <3>2
  <2>8. BoundIn(E, e, x) \in 0 .. e BY <1>1, <2>6
  <2> QED BY <2>5, <2>7, <2>8
<1> QED BY <1>2, <1>3

LEMMA BoundUnique ==
  ASSUME NEW E, Rooted(E), NEW e \in 1 .. Len(E), NEW x, NEW b \in Nat,
         b # 0 => b \in Ancestors(E, e) /\ E[b].vars[x] # 0,
         \A j \in Ancestors(E, e) : j > b => E[j].vars[x] = 0
  PROVE  BoundIn(E, e, x) = b
<1>1. Ancestors(E, e) \subseteq 1 .. e /\ e \in Nat BY AncestorsOlder DEF Rooted
<1>2. /\ BoundIn(E, e, x) \in 0 .. e
      /\ BoundIn(E, e, x) # 0 =>
           BoundIn(E, e, x) \in Ancestors(E, e) /\ E[BoundIn(E, e, x)].vars[x] # 0
      /\ \A j \in Ancestors(E, e) : j > BoundIn(E, e, x) => E[j].vars[x] = 0
  BY BoundFacts
<1> QED BY <1>1, <1>2

(* Nothing changes for a search that ends before the first change. *)
LEMMA BoundKept ==
  ASSUME NEW E, NEW F, Rooted(E), Rooted(F), NEW e \in 1 .. Len(E), e \in 1 .. Len(F), NEW x,
         Ancestors(F, e) = Ancestors(E, e),
         \A j \in Ancestors(E, e) : j >= BoundIn(E, e, x) => F[j].vars[x] = E[j].vars[x]
  PROVE  BoundIn(F, e, x) = BoundIn(E, e, x)
<1> DEFINE b == BoundIn(E, e, x)
<1>1. /\ b \in 0 .. e /\ b \in Nat
      /\ b # 0 => b \in Ancestors(E, e) /\ E[b].vars[x] # 0
      /\ \A j \in Ancestors(E, e) : j > b => E[j].vars[x] = 0
  BY BoundFacts DEF Rooted
<1>2. Ancestors(E, e) \subseteq 1 .. e BY AncestorsOlder
<1>3. b # 0 => b \in Ancestors(F, e) /\ F[b].vars[x] # 0 BY <1>1
<1>4. \A j \in Ancestors(F, e) : j > b => F[j].vars[x] = 0 BY <1>1, <1>2
<1> HIDE DEF b
<1>5. BoundIn(F, e, x) = b BY <1>1, <1>3, <1>4, BoundUnique
<1> QED BY <1>5 DEF b

(* Environments that go on or are added change nothing further out. *)
SameSearch(E, F, e, x) ==
  /\ BoundIn(F, e, x) = BoundIn(E, e, x) /\ FoundIn(F, e, x) = FoundIn(E, e, x)
  /\ LateIn(F, e, x) = LateIn(E, e, x)

LEMMA SearchKept ==
  ASSUME NEW E, NEW F, Rooted(E), Rooted(F), Len(E) <= Len(F), NEW e \in 1 .. Len(E), NEW x,
         \A i \in 1 .. Len(E) : F[i].parent = E[i].parent,
         \A i \in 1 .. e : F[i].born = E[i].born /\ F[i].vars[x] = E[i].vars[x]
  PROVE  SameSearch(E, F, e, x)
<1>1. Ancestors(F, e) = Ancestors(E, e) BY AncestorsWithin
<1>2. Ancestors(E, e) \subseteq 1 .. e BY AncestorsOlder
<1>3. \A i \in Ancestors(E, e) : F[i].vars[x] = E[i].vars[x] /\ F[i].born = E[i].born BY <1>2
<1>4. BoundIn(F, e, x) = BoundIn(E, e, x)
  <2>1. {i \in Ancestors(F, e) : F[i].vars[x] # 0} = {i \in Ancestors(E, e) : E[i].vars[x] # 0}
    BY <1>1, <1>3
  <2> QED BY <2>1 DEF BoundIn
<1>5. FoundIn(F, e, x) = FoundIn(E, e, x)
  <2>1. BoundIn(E, e, x) # 0 => BoundIn(E, e, x) \in Ancestors(E, e) BY BoundFacts
  <2> QED BY <2>1, <1>3, <1>4 DEF FoundIn
<1>6. LateIn(F, e, x) = LateIn(E, e, x) BY <1>1, <1>3, <1>4, <1>5 DEF LateIn
<1> QED BY <1>4, <1>5, <1>6 DEF SameSearch

(* From a new environment a search goes on in its parent. *)
LEMMA SearchFromNew ==
  ASSUME NEW E, NEW F, Rooted(E), Rooted(F), Len(F) = Len(E) + 1, NEW x,
         \A i \in 1 .. Len(E) : F[i] = E[i],
         F[Len(F)].parent # 0
  PROVE  /\ F[Len(F)].vars[x] # 0 => FoundIn(F, Len(F), x) = F[Len(F)].vars[x]
         /\ F[Len(F)].vars[x] = 0 =>
              /\ FoundIn(F, Len(F), x) = FoundIn(E, F[Len(F)].parent, x)
              /\ LateIn(E, F[Len(F)].parent, x) => LateIn(F, Len(F), x)
              /\ F[Len(F)].born < FoundIn(F, Len(F), x) => LateIn(F, Len(F), x)
<1> DEFINE n == Len(F)
           p == F[n].parent
<1>0. n \in 1 .. Len(F) /\ p \in 1 .. Len(E) /\ n \in Nat /\ Len(E) = n - 1 BY DEF Rooted
<1>1. Ancestors(F, n) = {n} \cup Ancestors(E, p) BY AncestorsOfNew
<1>2. Ancestors(E, p) \subseteq 1 .. Len(E) BY <1>0, AncestorsOlder
<1>3. Ancestors(F, n) \subseteq 1 .. n BY <1>0, AncestorsOlder
<1>4. CASE F[n].vars[x] # 0
  <2>1. BoundIn(F, n, x) = n BY <1>0, <1>1, <1>3, <1>4, BoundUnique
  <2> QED BY <2>1, <1>0, <1>4 DEF FoundIn
<1>5. CASE F[n].vars[x] = 0
  <2> DEFINE b == BoundIn(E, p, x)
  <2>1. /\ b \in 0 .. p
        /\ b # 0 => b \in Ancestors(E, p) /\ E[b].vars[x] # 0
        /\ \A j \in Ancestors(E, p) : j > b => E[j].vars[x] = 0
    BY <1>0, BoundFacts
  <2>2. b \in Nat /\ b < n BY <2>1, <1>0
  <2>3. b # 0 => b \in Ancestors(F, n) /\ F[b].vars[x] # 0 BY <2>1, <1>1, <1>2
  <2>4. \A j \in Ancestors(F, n) : j > b => F[j].vars[x] = 0 BY <2>1, <1>1, <1>2, <1>5
  <2> HIDE DEF b
  <2>5. BoundIn(F, n, x) = b BY <1>0, <2>2, <2>3, <2>4, BoundUnique
  <2> USE DEF b
  <2>6. FoundIn(F, n, x) = FoundIn(E, p, x) BY <2>1, <2>5, <1>2 DEF FoundIn
  <2>7. LateIn(E, p, x) => LateIn(F, n, x) BY <2>5, <2>6, <1>1, <1>2 DEF LateIn
  <2>8. F[n].born < FoundIn(F, n, x) => LateIn(F, n, x) BY <2>2, <2>5, <1>0, <1>1 DEF LateIn
  <2> QED BY <2>6, <2>7, <2>8, <1>5
<1> QED BY <1>4, <1>5

(* Declaration d of x in environment e0. *)
Rebound(E, F, e0, x, d) ==
  /\ Len(F) = Len(E) /\ e0 \in 1 .. Len(E) /\ d \in Nat \ {0}
  /\ \A i \in 1 .. Len(E) : F[i].parent = E[i].parent /\ F[i].born = E[i].born
  /\ \A i \in 1 .. Len(E) : i # e0 => F[i].vars = E[i].vars
  /\ F[e0].vars[x] = d
  /\ \A y \in Names : y # x => F[e0].vars[y] = E[e0].vars[y]

(* It is found wherever a search gets to it. *)
LEMMA SearchRebound ==
  ASSUME NEW E, NEW F, Rooted(E), Rooted(F), NEW e0, NEW x, NEW d, Rebound(E, F, e0, x, d)
  PROVE  /\ FoundIn(F, e0, x) = d
         /\ \A e \in 1 .. Len(E) : FoundIn(F, e, x) = d \/ SameSearch(E, F, e, x)
<1>h. /\ Len(F) = Len(E) /\ e0 \in 1 .. Len(E) /\ d \in Nat \ {0}
      /\ \A i \in 1 .. Len(E) : F[i].parent = E[i].parent /\ F[i].born = E[i].born
      /\ \A i \in 1 .. Len(E) : i # e0 => F[i].vars[x] = E[i].vars[x]
      /\ F[e0].vars[x] = d
  BY DEF Rebound
<1>0. Len(E) <= Len(F) BY <1>h DEF Rooted
<1>1. ASSUME NEW e \in 1 .. Len(E), e0 \in Ancestors(E, e), BoundIn(E, e, x) <= e0
      PROVE  FoundIn(F, e, x) = d
  <2>1. Ancestors(F, e) = Ancestors(E, e) BY <1>0, <1>h, AncestorsWithin
  <2>2. Ancestors(E, e) \subseteq 1 .. e /\ Len(E) \in Nat BY AncestorsOlder DEF Rooted
  <2>3. BoundIn(E, e, x) \in 0 .. e /\ \A j \in Ancestors(E, e) : j > BoundIn(E, e, x) => E[j].vars[x] = 0
    BY BoundFacts
  <2>4. \A j \in Ancestors(F, e) : j > e0 => F[j].vars[x] = 0 BY <1>1, <1>h, <2>1, <2>2, <2>3
  <2>5. e \in 1 .. Len(F) /\ e0 \in Nat /\ F[e0].vars[x] # 0 BY <1>h, <2>2
  <2>6. BoundIn(F, e, x) = e0 BY <1>1, <2>1, <2>4, <2>5, BoundUnique
  <2> QED BY <1>h, <2>6, <2>5 DEF FoundIn
<1>2. ASSUME NEW e \in 1 .. Len(E), e0 \notin Ancestors(E, e) \/ ~(BoundIn(E, e, x) <= e0)
      PROVE  SameSearch(E, F, e, x)
  <2>1. Ancestors(F, e) = Ancestors(E, e) BY <1>0, <1>h, AncestorsWithin
  <2>2. Ancestors(E, e) \subseteq 1 .. e /\ Len(E) \in Nat BY AncestorsOlder DEF Rooted
  <2> DEFINE b == BoundIn(E, e, x)
  <2>3. /\ b \in 0 .. e
        /\ b # 0 => b \in Ancestors(E, e) /\ E[b].vars[x] # 0
        /\ \A j \in Ancestors(E, e) : j > b => E[j].vars[x] = 0
    BY BoundFacts
  <2>4. e \in 1 .. Len(F) BY <1>h, <2>2
  <2>5. b # e0 BY <1>h, <1>2, <2>2, <2>3
  <2>6. \A j \in Ancestors(E, e) : j >= b => F[j].vars[x] = E[j].vars[x] BY <1>h, <1>2, <2>2, <2>3
  <2>8. BoundIn(F, e, x) = b BY <2>1, <2>4, <2>6, BoundKept
  <2>9. FoundIn(F, e, x) = FoundIn(E, e, x) BY <1>h, <2>2, <2>3, <2>5, <2>8 DEF FoundIn
  <2>10. LateIn(F, e, x) = LateIn(E, e, x) BY <1>h, <2>1, <2>2, <2>8, <2>9 DEF LateIn
  <2> QED BY <2>8, <2>9, <2>10 DEF SameSearch
<1>3. FoundIn(F, e0, x) = d
  <2>1. e0 \in Ancestors(E, e0) /\ BoundIn(E, e0, x) <= e0 BY <1>h, AncestorsOlder, BoundFacts
  <2> QED BY <1>h, <1>1, <2>1
<1> QED BY <1>1, <1>2, <1>3

-----------------------------------------------------------------------------
(* What a scope sees, as a function of environments and declarations.       *)

LeftIn(D, d) == d # 0 /\ D[d].over
SeesIn(E, D, e, l, s, x) ==
  FoundIn(E, e, x) = l[x] \/ LateIn(E, e, x) \/ LeftIn(D, FoundIn(E, e, x)) \/ E[e].vars[x] > s
EnvLeftIn(D) == \E d \in 1 .. Len(D) : D[d].name = "_ENV" /\ D[d].over
FollowsIn(D, t, l) ==
  \/ t = D[l["_ENV"]].table
  \/ D[l["_ENV"]].assigned \/ D[l["_ENV"]].meant \/ EnvLeftIn(D)
GoodIn(E, D, e, l, s) ==
  /\ l["_ENV"] # 0
  /\ \A x \in Names : SeesIn(E, D, e, l, s, x)
  /\ FollowsIn(D, E[e].env_table, l) \/ E[e].vars["_ENV"] > s

BlockGoodIn(E, D, b, s) ==
  /\ GoodIn(E, D, b.env, b.lex, s)
  /\ b.label.passed => GoodIn(E, D, b.env, b.label.lex, b.label.at)

ClosureGoodIn(E, D, c) ==
  /\ c.lex["_ENV"] # 0
  /\ \A x \in Names : SeesIn(E, D, c.env, c.lex, Forever, x) \/ FoundIn(E, c.env, x) > c.born
  /\ FollowsIn(D, c.env_table, c.lex)

LexIn(D, l) == \A x \in Names : l[x] \in 0 .. Len(D)

(* Environments and declarations fit each other. *)
World(E, D) ==
  /\ Rooted(E) /\ Len(D) \in Nat \ {0} /\ Len(D) < Forever
  /\ \A i \in 1 .. Len(E) : LexIn(D, E[i].vars)
  /\ \A i \in 1 .. Len(E), x \in Names : E[i].vars[x] # 0 => D[E[i].vars[x]].name = x
  /\ D[1].name = "_ENV"

LEMMA NamesFact == "_ENV" \in Names /\ Var \subseteq Names BY DEF Names
LEMMA ForeverFact == Forever \in Nat BY ScopeBounds DEF Forever

(* What a search finds exists, and has the name that was searched for.      *)
LEMMA FoundExists ==
  ASSUME NEW E, NEW D, World(E, D), NEW e \in 1 .. Len(E), NEW x \in Names
  PROVE  /\ FoundIn(E, e, x) \in 0 .. Len(D)
         /\ FoundIn(E, e, x) # 0 => D[FoundIn(E, e, x)].name = x
         /\ x = "_ENV" => FoundIn(E, e, x) # 0
<1>1. Rooted(E) /\ Len(E) \in Nat /\ Len(D) \in Nat \ {0} BY DEF World, Rooted
<1>2. BoundIn(E, e, x) \in 0 .. e BY <1>1, BoundFacts
<1>3. CASE BoundIn(E, e, x) = 0
  BY <1>1, <1>3 DEF FoundIn, World
<1>4. CASE BoundIn(E, e, x) # 0
  <2>1. BoundIn(E, e, x) \in 1 .. Len(E) /\ E[BoundIn(E, e, x)].vars[x] # 0
    BY <1>1, <1>2, <1>4, BoundFacts
  <2> QED BY <2>1, <1>4 DEF FoundIn, World, LexIn
<1> QED BY <1>3, <1>4

(* Declarations are added, their marks are never taken back.                *)
Grown(D, C) ==
  /\ Len(D) <= Len(C)
  /\ \A d \in 1 .. Len(D) :
       /\ C[d].name = D[d].name /\ C[d].const = D[d].const /\ C[d].table = D[d].table
       /\ D[d].assigned => C[d].assigned
       /\ D[d].meant => C[d].meant
       /\ D[d].over => C[d].over

LEMMA FollowsGrown ==
  ASSUME NEW D, NEW C, Grown(D, C), Len(D) \in Nat, Len(C) \in Nat,
         NEW t, NEW l, LexIn(D, l), l["_ENV"] # 0, FollowsIn(D, t, l)
  PROVE  FollowsIn(C, t, l)
<1>1. l["_ENV"] \in 1 .. Len(D) BY NamesFact DEF LexIn
<1>2. EnvLeftIn(D) => EnvLeftIn(C) BY DEF EnvLeftIn, Grown
<1> QED BY <1>1, <1>2 DEF FollowsIn, Grown

(* A search that goes on as it did sees what it saw. *)
LEMMA SeesGrown ==
  ASSUME NEW E, NEW D, NEW F, NEW C, World(E, D), Grown(D, C), NEW e \in 1 .. Len(E),
         NEW x \in Names, SameSearch(E, F, e, x), F[e].vars[x] = E[e].vars[x],
         NEW l, NEW s \in Nat, NEW r \in Nat, r <= s, SeesIn(E, D, e, l, s, x)
  PROVE  SeesIn(F, C, e, l, r, x)
<1>1. FoundIn(E, e, x) \in 0 .. Len(D) BY FoundExists
<1>2. LeftIn(D, FoundIn(E, e, x)) => LeftIn(C, FoundIn(E, e, x)) BY <1>1 DEF LeftIn, Grown, World
<1>3. E[e].vars[x] \in Nat BY DEF World, LexIn
<1>4. E[e].vars[x] > s => E[e].vars[x] > r BY <1>3
<1> QED BY <1>2, <1>4 DEF SeesIn, SameSearch

(* Environments that go on or are added. *)
Added(E, F) ==
  /\ Len(E) <= Len(F)
  /\ \A i \in 1 .. Len(E) :
       F[i].parent = E[i].parent /\ F[i].born = E[i].born /\ F[i].vars = E[i].vars

LEMMA SearchAdded ==
  ASSUME NEW E, NEW F, Rooted(E), Rooted(F), Added(E, F), NEW e \in 1 .. Len(E), NEW x
  PROVE  SameSearch(E, F, e, x)
<1>1. \A i \in 1 .. e : i \in 1 .. Len(E) BY DEF Rooted
<1> QED BY <1>1, SearchKept DEF Added

LEMMA GoodKept ==
  ASSUME NEW E, NEW D, NEW F, NEW C, World(E, D), World(F, C), Added(E, F), Grown(D, C),
         NEW e \in 1 .. Len(E), F[e].env_table = E[e].env_table,
         NEW l, LexIn(D, l), NEW s \in Nat, NEW r \in Nat, r <= s, GoodIn(E, D, e, l, s)
  PROVE  GoodIn(F, C, e, l, r)
<1>1. F[e].vars = E[e].vars BY DEF Added
<1>2. ASSUME NEW x \in Names PROVE SeesIn(F, C, e, l, r, x)
  <2>1. SameSearch(E, F, e, x) BY SearchAdded DEF World
  <2> QED BY <1>1, <2>1, SeesGrown DEF GoodIn
<1>3. FollowsIn(D, E[e].env_table, l) => FollowsIn(C, E[e].env_table, l)
  BY FollowsGrown DEF World, GoodIn
<1>4. E[e].vars["_ENV"] \in Nat BY NamesFact DEF World, LexIn
<1> QED BY <1>1, <1>2, <1>3, <1>4 DEF GoodIn

LEMMA ClosureKept ==
  ASSUME NEW E, NEW D, NEW F, NEW C, World(E, D), World(F, C), Added(E, F), Grown(D, C),
         NEW c, c.env \in 1 .. Len(E), LexIn(D, c.lex), ClosureGoodIn(E, D, c)
  PROVE  ClosureGoodIn(F, C, c)
<1>1. F[c.env].vars = E[c.env].vars BY DEF Added
<1>2. ASSUME NEW x \in Names
      PROVE  SeesIn(F, C, c.env, c.lex, Forever, x) \/ FoundIn(F, c.env, x) > c.born
  <2>1. SameSearch(E, F, c.env, x) BY SearchAdded DEF World
  <2>2. SeesIn(E, D, c.env, c.lex, Forever, x) => SeesIn(F, C, c.env, c.lex, Forever, x)
    BY <1>1, <2>1, SeesGrown, ForeverFact
  <2> QED BY <2>1, <2>2 DEF ClosureGoodIn, SameSearch
<1>3. FollowsIn(C, c.env_table, c.lex) BY FollowsGrown DEF World, ClosureGoodIn
<1> QED BY <1>2, <1>3 DEF ClosureGoodIn

LEMMA ReboundSearch ==
  ASSUME NEW E, NEW F, Rooted(E), Rooted(F), NEW e0, NEW x \in Names, NEW d, Rebound(E, F, e0, x, d),
         NEW e \in 1 .. Len(E)
  PROVE  /\ FoundIn(F, e0, x) = d
         /\ FoundIn(F, e, x) = d \/ SameSearch(E, F, e, x)
         /\ \A y \in Names : y # x \/ e < e0 => SameSearch(E, F, e, y)
<1>1. ASSUME NEW y \in Names, y # x \/ e < e0 PROVE SameSearch(E, F, e, y)
  <2>1. \A i \in 1 .. e : i \in 1 .. Len(E) /\ (e < e0 => i # e0) BY DEF Rooted, Rebound
  <2>2. \A i \in 1 .. e : F[i].born = E[i].born /\ F[i].vars[y] = E[i].vars[y]
    BY <1>1, <2>1 DEF Rebound
  <2>3. Len(E) <= Len(F) /\ \A i \in 1 .. Len(E) : F[i].parent = E[i].parent BY DEF Rooted, Rebound
  <2> QED BY <2>2, <2>3, SearchKept
<1>2. FoundIn(F, e0, x) = d /\ (FoundIn(F, e, x) = d \/ SameSearch(E, F, e, x))
  BY SearchRebound
<1> QED BY <1>1, <1>2

(* Scopes further out do not see it; one in the same environment, only as   *)
(* something declared later.                                                *)
LEMMA GoodRebound ==
  ASSUME NEW E, NEW D, NEW F, NEW C, World(E, D), World(F, C), Grown(D, C),
         NEW e0, NEW x \in Names, NEW d, Rebound(E, F, e0, x, d),
         NEW e \in 1 .. e0, F[e].env_table = E[e].env_table \/ (e = e0 /\ x = "_ENV"),
         NEW l, LexIn(D, l), NEW s \in Nat, e < e0 \/ s < d, GoodIn(E, D, e, l, s)
  PROVE  GoodIn(F, C, e, l, s)
<1>0. e \in 1 .. Len(E) /\ Rooted(E) /\ Rooted(F) BY DEF World, Rooted, Rebound
<1>1. \A y \in Names : y # x \/ e < e0 => SameSearch(E, F, e, y) /\ F[e].vars[y] = E[e].vars[y]
  <2>1. \A y \in Names : y # x \/ e < e0 => SameSearch(E, F, e, y) BY <1>0, ReboundSearch
  <2>2. e < e0 => e # e0 BY <1>0 DEF Rooted
  <2> QED BY <1>0, <2>1, <2>2 DEF Rebound
<1>2. ASSUME NEW y \in Names PROVE SeesIn(F, C, e, l, s, y)
  <2>1. CASE y # x \/ e < e0
    BY <1>0, <1>1, <2>1, SeesGrown DEF GoodIn
  <2>2. CASE y = x /\ ~(e < e0)
    <3>1. e = e0 /\ s < d BY <2>2 DEF Rebound
    <3> QED BY <2>2, <3>1 DEF SeesIn, Rebound
  <2> QED BY <2>1, <2>2
<1>3. CASE x = "_ENV" /\ e = e0
  <2>1. F[e].vars["_ENV"] > s BY <1>3 DEF Rebound
  <2> QED BY <1>2, <2>1 DEF GoodIn
<1>4. CASE ~(x = "_ENV" /\ e = e0)
  <2>1. F[e].env_table = E[e].env_table /\ F[e].vars["_ENV"] = E[e].vars["_ENV"]
    BY <1>1, <1>4, NamesFact DEF Rebound
  <2>2. FollowsIn(D, E[e].env_table, l) => FollowsIn(C, E[e].env_table, l)
    BY FollowsGrown DEF World, GoodIn
  <2> QED BY <1>2, <2>1, <2>2 DEF GoodIn
<1> QED BY <1>3, <1>4

(* The scope it is declared in sees it. *)
LEMMA GoodDeclared ==
  ASSUME NEW E, NEW D, NEW F, NEW C, World(E, D), World(F, C), Grown(D, C),
         NEW e0, NEW x \in Names, NEW d, Rebound(E, F, e0, x, d),
         NEW l, l \in Lex, LexIn(D, l), NEW s \in Nat, GoodIn(E, D, e0, l, s),
         FollowsIn(C, F[e0].env_table, [l EXCEPT ![x] = d])
  PROVE  GoodIn(F, C, e0, [l EXCEPT ![x] = d], s)
<1> DEFINE m == [l EXCEPT ![x] = d]
<1>0. e0 \in 1 .. Len(E) /\ Rooted(E) /\ Rooted(F) BY DEF World, Rebound
<1>1. \A y \in Names : m[y] = IF y = x THEN d ELSE l[y] BY DEF Lex
<1>2. \A y \in Names : y # x => SameSearch(E, F, e0, y) /\ F[e0].vars[y] = E[e0].vars[y]
  BY <1>0, ReboundSearch DEF Rebound
<1>3. ASSUME NEW y \in Names PROVE SeesIn(F, C, e0, m, s, y)
  <2>1. CASE y # x
    <3>1. SeesIn(F, C, e0, l, s, y) BY <1>0, <1>2, <2>1, SeesGrown DEF GoodIn
    <3> QED BY <3>1, <1>1, <2>1 DEF SeesIn
  <2>2. CASE y = x
    <3>1. FoundIn(F, e0, x) = d BY <1>0, ReboundSearch
    <3> QED BY <1>1, <2>2, <3>1 DEF SeesIn
  <2> QED BY <2>1, <2>2
<1>4. m["_ENV"] # 0 BY <1>1, NamesFact DEF GoodIn, Rebound
<1> QED BY <1>3, <1>4 DEF GoodIn

(* A closure made before sees it as a late declaration. *)
LEMMA ClosureRebound ==
  ASSUME NEW E, NEW D, NEW F, NEW C, World(E, D), World(F, C), Grown(D, C),
         NEW e0, NEW x \in Names, NEW d, Rebound(E, F, e0, x, d),
         NEW c, c.env \in 1 .. Len(E), LexIn(D, c.lex), c.born < d, ClosureGoodIn(E, D, c)
  PROVE  ClosureGoodIn(F, C, c)
<1>0. e0 \in 1 .. Len(E) /\ Rooted(E) /\ Rooted(F) BY DEF World, Rebound
<1>1. ASSUME NEW y \in Names
      PROVE  SeesIn(F, C, c.env, c.lex, Forever, y) \/ FoundIn(F, c.env, y) > c.born
  <2>1. CASE FoundIn(F, c.env, y) = d BY <2>1
  <2>2. CASE FoundIn(F, c.env, y) # d
    <3>1. SameSearch(E, F, c.env, y)
      <4>1. y # x => SameSearch(E, F, c.env, y) BY <1>0, ReboundSearch
      <4>2. FoundIn(F, c.env, x) = d \/ SameSearch(E, F, c.env, x) BY <1>0, ReboundSearch
      <4> QED BY <2>2, <4>1, <4>2
    <3>2. c.env = e0 => y # x BY <1>0, <2>2, ReboundSearch
    <3>3. F[c.env].vars[y] = E[c.env].vars[y] BY <3>2 DEF Rebound
    <3>4. SeesIn(E, D, c.env, c.lex, Forever, y) => SeesIn(F, C, c.env, c.lex, Forever, y)
      BY <3>1, <3>3, SeesGrown, ForeverFact
    <3> QED BY <3>1, <3>4 DEF ClosureGoodIn, SameSearch
  <2> QED BY <2>1, <2>2
<1>2. FollowsIn(C, c.env_table, c.lex) BY FollowsGrown DEF World, ClosureGoodIn
<1> QED BY <1>1, <1>2 DEF ClosureGoodIn

(* A new environment sees what its parent sees, and what it binds itself.   *)
LEMMA GoodNew ==
  ASSUME NEW E, NEW D, NEW F, NEW C, World(E, D), World(F, C), Grown(D, C),
         Len(F) = Len(E) + 1, \A i \in 1 .. Len(E) : F[i] = E[i], F[Len(F)].parent # 0,
         NEW l, l["_ENV"] # 0, FollowsIn(C, F[Len(F)].env_table, l),
         \A x \in Names :
            IF F[Len(F)].vars[x] # 0 THEN l[x] = F[Len(F)].vars[x]
            ELSE \/ SeesIn(E, D, F[Len(F)].parent, l, Forever, x)
                 \/ FoundIn(E, F[Len(F)].parent, x) > F[Len(F)].born
  PROVE  GoodIn(F, C, Len(F), l, Forever)
<1> DEFINE n == Len(F)
           p == F[n].parent
<1>0. Rooted(E) /\ Rooted(F) /\ p \in 1 .. Len(E) /\ n \in 1 .. Len(F) BY DEF World, Rooted
<1>1. ASSUME NEW x \in Names PROVE SeesIn(F, C, n, l, Forever, x)
  <2>1. CASE F[n].vars[x] # 0
    <3>1. FoundIn(F, n, x) = F[n].vars[x] BY <1>0, <2>1, SearchFromNew
    <3> QED BY <2>1, <3>1 DEF SeesIn
  <2>2. CASE F[n].vars[x] = 0
    <3>1. /\ FoundIn(F, n, x) = FoundIn(E, p, x)
          /\ LateIn(E, p, x) => LateIn(F, n, x)
          /\ F[n].born < FoundIn(F, n, x) => LateIn(F, n, x)
      BY <1>0, <2>2, SearchFromNew
    <3>2. FoundIn(E, p, x) \in 0 .. Len(D) BY <1>0, FoundExists
    <3>3. LeftIn(D, FoundIn(E, p, x)) => LeftIn(C, FoundIn(E, p, x)) BY <3>2 DEF LeftIn, Grown, World
    <3>4. ~(E[p].vars[x] > Forever) BY <1>0, ForeverFact DEF World, LexIn
    <3> QED BY <2>2, <3>1, <3>3, <3>4 DEF SeesIn
  <2> QED BY <2>1, <2>2
<1> QED BY <1>1 DEF GoodIn

(* The declarations of environment e after number s are marked as left      *)
(* behind: what is left of a scope that has waited since sees them as such. *)
MarkedLeft(E, D, C, e, s) ==
  /\ Len(C) = Len(D)
  /\ \A d \in 1 .. Len(D) :
       C[d].over <=> D[d].over \/ (d > s /\ \E x \in Names : E[e].vars[x] = d)

LEMMA FoundHere ==
  ASSUME NEW E, Rooted(E), NEW e \in 1 .. Len(E), NEW x, E[e].vars[x] # 0
  PROVE  FoundIn(E, e, x) = E[e].vars[x]
<1>1. e \in Ancestors(E, e) /\ Ancestors(E, e) \subseteq 1 .. e /\ e \in Nat
  BY AncestorsOlder DEF Rooted
<1>2. \A j \in Ancestors(E, e) : j > e => E[j].vars[x] = 0 BY <1>1
<1>3. BoundIn(E, e, x) = e BY <1>1, <1>2, BoundUnique
<1> QED BY <1>1, <1>3 DEF FoundIn

LEMMA GoodLeft ==
  ASSUME NEW E, NEW D, NEW C, World(E, D), World(E, C), Grown(D, C),
         NEW e \in 1 .. Len(E), NEW s \in Nat, MarkedLeft(E, D, C, e, s),
         NEW l, LexIn(D, l), GoodIn(E, D, e, l, s), NEW r \in Nat
  PROVE  GoodIn(E, C, e, l, r)
<1>0. Rooted(E) BY DEF World
<1>1. ASSUME NEW x \in Names, E[e].vars[x] > s
      PROVE  E[e].vars[x] \in 1 .. Len(D) /\ C[E[e].vars[x]].over /\ C[E[e].vars[x]].name = x
             /\ FoundIn(E, e, x) = E[e].vars[x]
  <2>1. E[e].vars[x] \in 1 .. Len(D) BY <1>1 DEF World, LexIn
  <2>2. C[E[e].vars[x]].over BY <1>1, <2>1 DEF MarkedLeft
  <2>3. C[E[e].vars[x]].name = x BY <2>1 DEF World
  <2> QED BY <1>0, <2>1, <2>2, <2>3, FoundHere
<1>2. ASSUME NEW x \in Names PROVE SeesIn(E, C, e, l, r, x)
  <2>1. CASE E[e].vars[x] > s BY <1>1, <2>1 DEF SeesIn, LeftIn
  <2>2. CASE ~(E[e].vars[x] > s)
    <3>1. FoundIn(E, e, x) \in 0 .. Len(D) BY FoundExists
    <3>2. LeftIn(D, FoundIn(E, e, x)) => LeftIn(C, FoundIn(E, e, x)) BY <3>1 DEF LeftIn, Grown, World
    <3> QED BY <2>2, <3>2 DEF SeesIn, GoodIn
  <2> QED BY <2>1, <2>2
<1>3. FollowsIn(C, E[e].env_table, l)
  <2>1. CASE E[e].vars["_ENV"] > s
    BY <1>1, <2>1, NamesFact DEF FollowsIn, EnvLeftIn, MarkedLeft
  <2>2. CASE ~(E[e].vars["_ENV"] > s) BY <2>2, FollowsGrown DEF World, GoodIn
  <2> QED BY <2>1, <2>2
<1> QED BY <1>2, <1>3 DEF GoodIn

-----------------------------------------------------------------------------
(* The invariant, in terms of these. *)

BlockIn(E, D, b) ==
  /\ b \in BlockType /\ b.env \in 1 .. Len(E)
  /\ b.start \in 1 .. Len(D) /\ b.label.at \in 1 .. Len(D)
  /\ LexIn(D, b.lex) /\ LexIn(D, b.label.lex)
ClosureIn(E, D, c) ==
  c \in ClosureType /\ c.env \in 1 .. Len(E) /\ c.born \in 1 .. Len(D) /\ LexIn(D, c.lex)

EnvsOK ==
  /\ env \in Seq(EnvironmentType) /\ decl \in Seq(DeclarationType)
  /\ steps \in 0 .. MaxSteps /\ Len(decl) \in 1 .. steps + 1
  /\ \A i \in 1 .. Len(env) :
       env[i].parent < i /\ env[i].born \in 1 .. Forever /\ LexIn(decl, env[i].vars)
  /\ VariablesKnown /\ ConstNeverWritten
BlocksOK ==
  stack \in Seq(BlockType) /\ \A i \in 1 .. Len(stack) : BlockIn(env, decl, stack[i])
ClosuresOK == \A c \in closures : ClosureIn(env, decl, c)
ControlOK == flow \in {"normal", "break", "return", "goto"} /\ aim \in Nat /\ Aimed

LEMMA EnvsAsWorld == EnvsOK => World(env, decl)
<1> SUFFICES ASSUME EnvsOK PROVE World(env, decl) OBVIOUS
<1>1. env \in Seq(EnvironmentType) /\ steps \in Nat /\ steps <= MaxSteps BY ScopeBounds DEF EnvsOK
<1>2. Len(env) \in Nat /\ DOMAIN env = 1 .. Len(env) /\ \A i \in 1 .. Len(env) : env[i] \in EnvironmentType
  BY <1>1
<1>3. Rooted(env) BY <1>2 DEF Rooted, EnvsOK, EnvironmentType
<1>4. Len(decl) \in Nat \ {0} /\ Len(decl) < Forever BY <1>1, ScopeBounds DEF EnvsOK, Forever
<1> QED BY <1>2, <1>3, <1>4 DEF World, EnvsOK, VariablesKnown

LEMMA EnvsAsWorldNext == EnvsOK' => World(env', decl')
<1> SUFFICES ASSUME EnvsOK' PROVE World(env', decl') OBVIOUS
<1>1. env' \in Seq(EnvironmentType) /\ steps' \in Nat /\ steps' <= MaxSteps BY ScopeBounds DEF EnvsOK
<1>2. Len(env') \in Nat /\ DOMAIN env' = 1 .. Len(env') /\ \A i \in 1 .. Len(env') : env'[i] \in EnvironmentType
  BY <1>1
<1>3. Rooted(env') BY <1>2 DEF Rooted, EnvsOK, EnvironmentType
<1>4. Len(decl') \in Nat \ {0} /\ Len(decl') < Forever BY <1>1, ScopeBounds DEF EnvsOK, Forever
<1> QED BY <1>2, <1>3, <1>4 DEF World, EnvsOK, VariablesKnown

LEMMA GoodMeans ==
  ASSUME decl \in Seq(DeclarationType)
  PROVE  \A e, l, s : Good(e, l, s) <=> GoodIn(env, decl, e, l, s)
<1>1. DOMAIN decl = 1 .. Len(decl) OBVIOUS
<1>2. \A e, l, s, x : Sees(e, l, s, x) <=> SeesIn(env, decl, e, l, s, x)
  BY LookupIn DEF Sees, SeesIn, LeftBehind, LeftIn
<1>3. \A t, l : Follows(t, l) <=> FollowsIn(decl, t, l)
  BY <1>1 DEF Follows, FollowsIn, EnvLeftBehind, EnvLeftIn
<1> QED BY <1>2, <1>3 DEF Good, GoodIn

LEMMA BlocksMean ==
  ASSUME decl \in Seq(DeclarationType)
  PROVE  BlocksGood <=> \A i \in DOMAIN stack : BlockGoodIn(env, decl, stack[i], Since(i))
BY GoodMeans DEF BlocksGood, BlockGoodIn

LEMMA ClosuresMean ==
  ASSUME decl \in Seq(DeclarationType)
  PROVE  ClosuresGood <=> \A c \in closures : ClosureGoodIn(env, decl, c)
<1>1. DOMAIN decl = 1 .. Len(decl) OBVIOUS
<1>2. \A e, l, s, x : Sees(e, l, s, x) <=> SeesIn(env, decl, e, l, s, x)
  BY LookupIn DEF Sees, SeesIn, LeftBehind, LeftIn
<1>3. \A t, l : Follows(t, l) <=> FollowsIn(decl, t, l)
  BY <1>1 DEF Follows, FollowsIn, EnvLeftBehind, EnvLeftIn
<1> QED BY <1>2, <1>3, LookupIn DEF ClosuresGood, ClosureGoodIn

StateOK ==
  /\ EnvsOK /\ BlocksOK /\ ClosuresOK /\ ControlOK /\ StackNests /\ EnvShared
  /\ \A i \in DOMAIN stack : BlockGoodIn(env, decl, stack[i], Since(i))
  /\ \A c \in closures : ClosureGoodIn(env, decl, c)

LEMMA InvMeans == IInv <=> StateOK
<1>1. ASSUME IInv
      PROVE  EnvsOK /\ BlocksOK /\ ClosuresOK /\ ControlOK
  <2>1. /\ env \in Seq(EnvironmentType) /\ decl \in Seq(DeclarationType)
        /\ stack \in Seq(BlockType) /\ closures \subseteq ClosureType
    BY <1>1 DEF IInv, TypeOK, Types
  <2>2. /\ DOMAIN env = 1 .. Len(env) /\ DOMAIN decl = 1 .. Len(decl) /\ Len(decl) \in Nat
        /\ DOMAIN stack = 1 .. Len(stack)
        /\ \A i \in 1 .. Len(env) : env[i] \in EnvironmentType
        /\ \A i \in 1 .. Len(stack) : stack[i] \in BlockType
    BY <2>1
  <2>3. ASSUME NEW l \in Lex, Declared(l) PROVE LexIn(decl, l)
    BY <2>2, <2>3 DEF Lex, Declared, LexIn
  <2>4. EnvsOK
    <3>1. ASSUME NEW i \in 1 .. Len(env) PROVE LexIn(decl, env[i].vars)
      <4>1. env[i].vars \in Lex BY <2>2 DEF EnvironmentType
      <4> QED BY <1>1, <2>2, <2>3, <4>1 DEF IInv, TypeOK
    <3> QED BY <1>1, <2>1, <2>2, <3>1 DEF IInv, TypeOK, Types, EnvsOK
  <2>5. BlocksOK
    <3>1. ASSUME NEW i \in 1 .. Len(stack) PROVE BlockIn(env, decl, stack[i])
      <4>1. stack[i] \in BlockType /\ stack[i].lex \in Lex /\ stack[i].label.lex \in Lex
        BY <2>2 DEF BlockType
      <4>2. /\ stack[i].env \in DOMAIN env /\ stack[i].start \in DOMAIN decl
            /\ stack[i].label.at \in DOMAIN decl
            /\ Declared(stack[i].lex) /\ Declared(stack[i].label.lex)
        BY <1>1, <2>2 DEF IInv, TypeOK
      <4> QED BY <2>2, <2>3, <4>1, <4>2 DEF BlockIn
    <3> QED BY <2>1, <3>1 DEF BlocksOK
  <2>6. ClosuresOK
    <3>1. ASSUME NEW c \in closures PROVE ClosureIn(env, decl, c)
      <4>1. c \in ClosureType /\ c.lex \in Lex BY <2>1 DEF ClosureType
      <4>2. c.env \in DOMAIN env /\ c.born \in DOMAIN decl /\ Declared(c.lex) BY <1>1 DEF IInv, TypeOK
      <4> QED BY <2>2, <2>3, <4>1, <4>2 DEF ClosureIn
    <3> QED BY <3>1 DEF ClosuresOK
  <2>7. ControlOK BY <1>1 DEF IInv, TypeOK, Types, ControlOK
  <2> QED BY <2>4, <2>5, <2>6, <2>7
<1>2. ASSUME EnvsOK, BlocksOK, ClosuresOK, ControlOK
      PROVE  TypeOK /\ VariablesKnown /\ ConstNeverWritten /\ Aimed
  <2>1. /\ env \in Seq(EnvironmentType) /\ decl \in Seq(DeclarationType) /\ stack \in Seq(BlockType)
        /\ closures \subseteq ClosureType
    BY <1>2 DEF EnvsOK, BlocksOK, ClosuresOK, ClosureIn
  <2>2. /\ DOMAIN env = 1 .. Len(env) /\ DOMAIN decl = 1 .. Len(decl) /\ Len(decl) \in Nat
        /\ DOMAIN stack = 1 .. Len(stack)
    BY <2>1
  <2>3. ASSUME NEW l, LexIn(decl, l) PROVE Declared(l) BY <2>2, <2>3 DEF Declared, LexIn
  <2>4. Types BY <1>2, <2>1 DEF Types, EnvsOK, ControlOK
  <2>5. \A i \in DOMAIN env :
          env[i].parent < i /\ env[i].born \in 1 .. Forever /\ Declared(env[i].vars)
    BY <1>2, <2>2, <2>3 DEF EnvsOK
  <2>6. \A i \in DOMAIN stack : LET b == stack[i] IN
          /\ b.env \in DOMAIN env /\ b.start \in DOMAIN decl /\ b.label.at \in DOMAIN decl
          /\ Declared(b.lex) /\ Declared(b.label.lex)
    BY <1>2, <2>2, <2>3 DEF BlocksOK, BlockIn
  <2>7. \A c \in closures : c.env \in DOMAIN env /\ c.born \in DOMAIN decl /\ Declared(c.lex)
    BY <1>2, <2>2, <2>3 DEF ClosuresOK, ClosureIn
  <2>8. TypeOK BY <2>4, <2>5, <2>6, <2>7 DEF TypeOK
  <2> QED BY <1>2, <2>8 DEF EnvsOK, ControlOK
<1>3. IInv => decl \in Seq(DeclarationType) BY DEF IInv, TypeOK, Types
<1>4. EnvsOK => decl \in Seq(DeclarationType) BY DEF EnvsOK
<1> QED BY <1>1, <1>2, <1>3, <1>4, BlocksMean, ClosuresMean DEF IInv, StateOK

-----------------------------------------------------------------------------
(* What the steps do to environments and declarations. *)

LEMMA EnvFacts ==
  ASSUME EnvsOK
  PROVE  /\ Len(env) \in Nat /\ DOMAIN env = 1 .. Len(env)
         /\ Len(decl) \in Nat \ {0} /\ DOMAIN decl = 1 .. Len(decl) /\ Len(decl) < Forever
         /\ \A i \in 1 .. Len(env) : env[i] \in EnvironmentType
         /\ \A d \in 1 .. Len(decl) : decl[d] \in DeclarationType
         /\ steps \in Nat /\ MaxSteps \in Nat
<1>1. env \in Seq(EnvironmentType) /\ decl \in Seq(DeclarationType) BY DEF EnvsOK
<1> QED BY <1>1, EnvsAsWorld, ScopeBounds DEF EnvsOK, World

StepTaken == steps < MaxSteps /\ steps' = steps + 1

LEMMA EnvsKept ==
  ASSUME EnvsOK, StepTaken, UNCHANGED <<env, decl>>
  PROVE  EnvsOK' /\ Grown(decl, decl')
<1>1. steps' \in 0 .. MaxSteps /\ Len(decl') \in 1 .. steps' + 1 BY EnvFacts DEF EnvsOK, StepTaken
<1>2. VariablesKnown' /\ ConstNeverWritten' BY DEF EnvsOK, VariablesKnown, ConstNeverWritten
<1> QED BY <1>1, <1>2, EnvFacts DEF EnvsOK, Grown

(* Marks on declarations. *)
LEMMA DeclsMarked ==
  ASSUME EnvsOK, StepTaken, decl' \in Seq(DeclarationType), Len(decl') = Len(decl), Grown(decl, decl'),
         Len(env') = Len(env), env' \in Seq(EnvironmentType),
         \A i \in 1 .. Len(env) : /\ env'[i].parent = env[i].parent /\ env'[i].born = env[i].born
                                  /\ env'[i].vars = env[i].vars /\ env'[i].consts = env[i].consts,
         \A d \in 1 .. Len(decl) : decl[d].const => decl'[d].assigned = decl[d].assigned
  PROVE  EnvsOK'
<1> USE EnvFacts
<1>1. steps' \in 0 .. MaxSteps /\ Len(decl') \in 1 .. steps' + 1 BY DEF EnvsOK, StepTaken
<1>2. /\ DOMAIN env' = 1 .. Len(env) /\ DOMAIN decl' = 1 .. Len(decl)
      /\ \A i \in 1 .. Len(env), x \in Names : env[i].vars[x] # 0 => env[i].vars[x] \in 1 .. Len(decl)
  BY DEF EnvsOK, LexIn
<1>3. VariablesKnown'
  <2>1. ASSUME NEW i \in 1 .. Len(env), NEW x \in Names, env'[i].vars[x] # 0
        PROVE  /\ decl'[env'[i].vars[x]].name = x
               /\ decl'[env'[i].vars[x]].const => x \in env'[i].consts
    <3>1. env'[i].vars[x] = env[i].vars[x] /\ env[i].vars[x] \in 1 .. Len(decl)
          /\ env'[i].consts = env[i].consts
      BY <1>2, <2>1
    <3>2. /\ decl'[env[i].vars[x]].name = decl[env[i].vars[x]].name
          /\ decl'[env[i].vars[x]].const = decl[env[i].vars[x]].const
      BY <3>1 DEF Grown
    <3> QED BY <2>1, <3>1, <3>2 DEF EnvsOK, VariablesKnown
  <2>2. decl'[1].name = "_ENV" /\ ~decl'[1].const BY DEF Grown, EnvsOK, VariablesKnown
  <2> QED BY <1>2, <2>1, <2>2 DEF VariablesKnown
<1>4. ConstNeverWritten' BY <1>2 DEF EnvsOK, ConstNeverWritten, Grown
<1>5. \A i \in 1 .. Len(env') :
        env'[i].parent < i /\ env'[i].born \in 1 .. Forever /\ LexIn(decl', env'[i].vars)
  BY DEF EnvsOK, LexIn
<1> QED BY <1>1, <1>3, <1>4, <1>5 DEF EnvsOK

LEMMA LeftMarks ==
  ASSUME EnvsOK, StepTaken, NEW e \in 1 .. Len(env), NEW b, b.env = e, NEW s,
         env' = env, decl' = OutOfScope(b, s)
  PROVE  EnvsOK' /\ Grown(decl, decl') /\ MarkedLeft(env, decl, decl', e, s)
<1> USE EnvFacts
<1>1. decl' = [d \in 1 .. Len(decl) |->
                 IF d > s /\ \E x \in Names : env[e].vars[x] = d THEN [decl[d] EXCEPT !.over = TRUE]
                 ELSE decl[d]]
  BY DEF OutOfScope
<1>2. ASSUME NEW d \in 1 .. Len(decl) PROVE decl'[d] \in DeclarationType
  <2>1. decl[d] \in DeclarationType OBVIOUS
  <2>2. [decl[d] EXCEPT !.over = TRUE] \in DeclarationType BY <2>1 DEF DeclarationType
  <2>3. decl'[d] \in {decl[d], [decl[d] EXCEPT !.over = TRUE]} BY <1>1
  <2> QED BY <2>1, <2>2, <2>3
<1>3. decl' \in Seq(DeclarationType) /\ Len(decl') = Len(decl)
  <2>1. decl' \in [1 .. Len(decl) -> DeclarationType] BY <1>1, <1>2
  <2> QED BY <2>1
<1>4. \A d \in 1 .. Len(decl) :
        /\ decl'[d].name = decl[d].name /\ decl'[d].const = decl[d].const /\ decl'[d].table = decl[d].table
        /\ decl'[d].assigned = decl[d].assigned /\ decl'[d].meant = decl[d].meant
        /\ decl'[d].over <=> decl[d].over \/ (d > s /\ \E x \in Names : env[e].vars[x] = d)
  BY <1>1 DEF DeclarationType
<1>5. Grown(decl, decl') BY <1>3, <1>4 DEF Grown
<1>6. MarkedLeft(env, decl, decl', e, s) BY <1>3, <1>4 DEF MarkedLeft
<1>7. EnvsOK' BY <1>3, <1>4, <1>5, DeclsMarked DEF EnvsOK
<1> QED BY <1>5, <1>6, <1>7

(* Declarations that are kept or added to. *)
DeclsMore ==
  /\ decl' \in Seq(DeclarationType) /\ Len(decl') \in Len(decl) .. Len(decl) + 1
  /\ Grown(decl, decl')
  /\ \A d \in 1 .. Len(decl') : decl'[d].const => ~decl'[d].assigned

LEMMA DeclsSame ==
  ASSUME EnvsOK, UNCHANGED decl
  PROVE  DeclsMore
BY EnvFacts DEF DeclsMore, Grown, EnvsOK, VariablesKnown, ConstNeverWritten

(* The scope after a declaration of x. *)
LexWith(l, x) == [l EXCEPT ![x] = Id]

LEMMA DeclAdded ==
  ASSUME EnvsOK, NEW x \in Names, NEW c \in BOOLEAN, NEW t \in Tables,
         NEW l, l["_ENV"] \in 1 .. Len(decl), decl' = Append(decl, Declaration(x, c, t, l))
  PROVE  /\ DeclsMore /\ Len(decl') = Id /\ decl'[Id] = Declaration(x, c, t, l)
         /\ Id \in 1 .. Len(decl') /\ Id \in Nat /\ Id > Len(decl)
<1> USE EnvFacts
<1>1. Declaration(x, c, t, l) \in DeclarationType
  <2>1. decl[l["_ENV"]] \in DeclarationType OBVIOUS
  <2> QED BY <2>1 DEF Declaration, DeclarationType
<1>2. decl \in Seq(DeclarationType) BY DEF EnvsOK
<1>3. decl' \in Seq(DeclarationType) /\ Len(decl') = Len(decl) + 1 BY <1>1, <1>2
<1>4. decl'[Len(decl) + 1] = Declaration(x, c, t, l) /\ \A d \in 1 .. Len(decl) : decl'[d] = decl[d]
  BY <1>1, <1>2
<1>5. Grown(decl, decl') BY <1>3, <1>4 DEF Grown
<1>6. ASSUME NEW d \in 1 .. Len(decl') PROVE decl'[d].const => ~decl'[d].assigned
  <2>1. CASE d = Len(decl) + 1 BY <2>1, <1>4 DEF Declaration
  <2>2. CASE d # Len(decl) + 1
    <3>1. d \in 1 .. Len(decl) /\ decl'[d] = decl[d] BY <2>2, <1>3, <1>4
    <3> QED BY <3>1 DEF EnvsOK, ConstNeverWritten
  <2> QED BY <2>1, <2>2
<1>7. Id = Len(decl) + 1 BY DEF Id
<1> QED BY <1>3, <1>4, <1>5, <1>6, <1>7 DEF DeclsMore

(* A declaration leaves the globals as they are, but for a local _ENV that  *)
(* is given a table; its record says which they are.                        *)
LEMMA FollowsDeclared ==
  ASSUME EnvsOK, NEW x \in Names, NEW c \in BOOLEAN, NEW t \in Tables,
         NEW l \in Lex, LexIn(decl, l), l["_ENV"] \in 1 .. Len(decl),
         decl' = Append(decl, Declaration(x, c, t, l)), NEW u, FollowsIn(decl, u, l)
  PROVE  FollowsIn(decl', IF x = "_ENV" /\ t # NoTable THEN t ELSE u, LexWith(l, x))
<1>1. /\ Grown(decl, decl') /\ Len(decl') = Id /\ decl'[Id] = Declaration(x, c, t, l)
      /\ Len(decl) \in Nat /\ Len(decl') \in Nat /\ l["_ENV"] # 0
  BY DeclAdded, EnvFacts DEF DeclsMore
<1>2. FollowsIn(decl', u, l) BY <1>1, FollowsGrown
<1>3. CASE x # "_ENV"
  <2>1. LexWith(l, x)["_ENV"] = l["_ENV"] BY <1>3, NamesFact DEF LexWith, Lex
  <2> QED BY <1>2, <1>3, <2>1 DEF FollowsIn
<1>4. CASE x = "_ENV"
  <2>1. LexWith(l, x)["_ENV"] = Id BY <1>4, NamesFact DEF LexWith, Lex
  <2>2. CASE t # NoTable
    <3>1. decl'[Id].table = t BY <1>1, <2>2 DEF Declaration
    <3> QED BY <1>4, <2>1, <2>2, <3>1 DEF FollowsIn
  <2>3. CASE t = NoTable
    <3>1. /\ decl'[Id].table = decl[l["_ENV"]].table
          /\ decl'[Id].meant = (decl[l["_ENV"]].assigned \/ decl[l["_ENV"]].meant)
      BY <1>1, <2>3 DEF Declaration
    <3>2. EnvLeftIn(decl) => EnvLeftIn(decl') BY <1>1 DEF EnvLeftIn, Grown
    <3>3. FollowsIn(decl', u, LexWith(l, x)) BY <2>1, <3>1, <3>2 DEF FollowsIn
    <3> QED BY <2>3, <3>3
  <2> QED BY <2>2, <2>3
<1> QED BY <1>3, <1>4

(* An environment that can be number i. *)
EnvIn(D, e, i) ==
  /\ e.parent < i /\ e.born \in 1 .. Forever /\ LexIn(D, e.vars)
  /\ \A x \in Names : e.vars[x] # 0 =>
        D[e.vars[x]].name = x /\ (D[e.vars[x]].const => x \in e.consts)

LEMMA EnvInGrown ==
  ASSUME EnvsOK, DeclsMore, NEW i \in 1 .. Len(env)
  PROVE  EnvIn(decl', env[i], i)
<1> USE EnvFacts
<1>1. EnvIn(decl, env[i], i) BY DEF EnvsOK, VariablesKnown, EnvIn
<1>2. Len(decl') \in Nat /\ Len(decl) <= Len(decl') BY DEF DeclsMore
<1>3. LexIn(decl', env[i].vars) BY <1>1, <1>2 DEF EnvIn, LexIn
<1>4. ASSUME NEW x \in Names, env[i].vars[x] # 0
      PROVE  /\ decl'[env[i].vars[x]].name = x
             /\ decl'[env[i].vars[x]].const => x \in env[i].consts
  <2>1. env[i].vars[x] \in 1 .. Len(decl) BY <1>1, <1>4 DEF EnvIn, LexIn
  <2>2. /\ decl'[env[i].vars[x]].name = decl[env[i].vars[x]].name
        /\ decl'[env[i].vars[x]].const = decl[env[i].vars[x]].const
    BY <2>1 DEF DeclsMore, Grown
  <2> QED BY <1>1, <1>4, <2>2 DEF EnvIn
<1> QED BY <1>1, <1>3, <1>4 DEF EnvIn

LEMMA EnvsMade ==
  ASSUME EnvsOK, StepTaken, DeclsMore, env' \in Seq(EnvironmentType),
         \A i \in 1 .. Len(env') : EnvIn(decl', env'[i], i)
  PROVE  EnvsOK' /\ Grown(decl, decl')
<1>1. Len(decl') \in 1 .. steps' + 1 /\ steps' \in 0 .. MaxSteps
  BY EnvFacts DEF EnvsOK, StepTaken, DeclsMore
<1>2. DOMAIN env' = 1 .. Len(env') /\ DOMAIN decl' = 1 .. Len(decl') BY DEF DeclsMore
<1>3. ConstNeverWritten' BY <1>2 DEF DeclsMore, ConstNeverWritten
<1>4. decl'[1].name = "_ENV" /\ ~decl'[1].const BY EnvFacts DEF EnvsOK, VariablesKnown, DeclsMore, Grown
<1>5. VariablesKnown' BY <1>2, <1>4 DEF VariablesKnown, DeclsMore, EnvIn
<1>6. \A i \in 1 .. Len(env') :
        env'[i].parent < i /\ env'[i].born \in 1 .. Forever /\ LexIn(decl', env'[i].vars)
  BY DEF EnvIn
<1> QED BY <1>1, <1>3, <1>5, <1>6 DEF EnvsOK, DeclsMore

(* A new environment e. *)
LEMMA EnvAdded ==
  ASSUME EnvsOK, StepTaken, DeclsMore, NEW e, e \in EnvironmentType, env' = Append(env, e),
         EnvIn(decl', e, Len(env) + 1)
  PROVE  /\ EnvsOK' /\ Grown(decl, decl') /\ Added(env, env')
         /\ Len(env') = Len(env) + 1 /\ env'[Len(env')] = e
         /\ \A i \in 1 .. Len(env) : env'[i] = env[i]
<1> USE EnvFacts
<1>1. env \in Seq(EnvironmentType) BY DEF EnvsOK
<1>2. env' \in Seq(EnvironmentType) /\ Len(env') = Len(env) + 1 BY <1>1
<1>3. env'[Len(env')] = e /\ \A i \in 1 .. Len(env) : env'[i] = env[i] BY <1>1
<1>4. ASSUME NEW i \in 1 .. Len(env') PROVE EnvIn(decl', env'[i], i)
  <2>1. CASE i = Len(env') BY <1>2, <1>3, <2>1
  <2>2. CASE i # Len(env')
    <3>1. i \in 1 .. Len(env) BY <1>2, <2>2
    <3> QED BY <1>3, <3>1, EnvInGrown
  <2> QED BY <2>1, <2>2
<1>5. Added(env, env') BY <1>2, <1>3 DEF Added
<1> QED BY <1>2, <1>3, <1>4, <1>5, EnvsMade

(* What is found there by name and table. *)
LEMMA InnerOK ==
  ASSUME EnvsOK, NEW p \in 1 .. Len(env), NEW t \in Tables, NEW b \in 1 .. Forever
  PROVE  /\ Environment(p, t, b) \in EnvironmentType
         /\ DeclsMore => EnvIn(decl', Environment(p, t, b), Len(env) + 1)
         /\ Environment(p, t, b).parent = p /\ Environment(p, t, b).env_table = t
         /\ Environment(p, t, b).born = b
         /\ \A x \in Names : Environment(p, t, b).vars[x] = 0
<1> USE EnvFacts
<1>1. Environment(p, t, b) \in EnvironmentType
  BY ForeverFact DEF Environment, EnvironmentType, Lex
<1>2. \A x \in Names : Environment(p, t, b).vars[x] = 0 BY DEF Environment
<1>3. Environment(p, t, b).parent = p /\ Environment(p, t, b).env_table = t /\ Environment(p, t, b).born = b
  BY DEF Environment
<1>4. DeclsMore => LexIn(decl', Environment(p, t, b).vars) BY <1>2 DEF LexIn, DeclsMore
<1> QED BY <1>1, <1>2, <1>3, <1>4 DEF EnvIn

LEMMA EnvironmentMade ==
  ASSUME NEW p \in Nat, NEW v \in Lex, NEW t \in Tables, NEW b \in Nat
  PROVE  [parent |-> p, vars |-> v, consts |-> {}, env_table |-> t, born |-> b] \in EnvironmentType
BY DEF EnvironmentType

(* The environment of a for loop or a call binds nothing but its variable.  *)
OnlyVariable(v, x) == \A y \in Names : v[y] = IF y = x THEN Id ELSE 0
VariableEnvironment(p, t, b, x) == [Environment(p, t, b) EXCEPT !.vars[x] = Id]
VariableMade(e, p, t, b, x) ==
  /\ e \in EnvironmentType /\ EnvIn(decl', e, Len(env) + 1)
  /\ e.parent = p /\ e.env_table = t /\ e.born = b /\ OnlyVariable(e.vars, x)

LEMMA VariableOK ==
  ASSUME EnvsOK, NEW p \in 1 .. Len(env), NEW t \in Tables, NEW b \in 1 .. Forever, NEW x \in Names,
         NEW l, l["_ENV"] \in 1 .. Len(decl),
         decl' = Append(decl, Declaration(x, FALSE, NoTable, l))
  PROVE  VariableMade(VariableEnvironment(p, t, b, x), p, t, b, x)
<1> DEFINE e == VariableEnvironment(p, t, b, x)
<1> USE EnvFacts
<1>1. /\ DeclsMore /\ Len(decl') = Id /\ decl'[Id] = Declaration(x, FALSE, NoTable, l)
      /\ Id \in 1 .. Len(decl') /\ Id \in Nat
  BY DeclAdded DEF Tables
<1> DEFINE v == [y \in Names |-> IF y = x THEN Id ELSE 0]
<1>2. e = [parent |-> p, vars |-> v, consts |-> {}, env_table |-> t, born |-> b]
  <2> DEFINE z == [y \in Names |-> 0]
  <2>1. [z EXCEPT ![x] = Id] = v OBVIOUS
  <2> HIDE DEF z, v
  <2> DEFINE r == Environment(p, t, b)
  <2>2. r = [parent |-> p, vars |-> z, consts |-> {}, env_table |-> t, born |-> b]
    BY DEF Environment, z
  <2>3. e = [r EXCEPT !.vars = [r.vars EXCEPT ![x] = Id]] BY DEF VariableEnvironment
  <2> HIDE DEF r, e
  <2>4. r.vars = z BY <2>2
  <2>5. e = [r EXCEPT !.vars = v] BY <2>1, <2>3, <2>4
  <2> QED BY <2>2, <2>5
<1> HIDE DEF e
<1>3. e \in EnvironmentType
  <2>1. v \in Lex BY <1>1 DEF Lex
  <2>2. p \in Nat OBVIOUS
  <2> HIDE EnvFacts DEF v
  <2>3. [parent |-> p, vars |-> v, consts |-> {}, env_table |-> t, born |-> b] \in EnvironmentType
    BY <2>1, <2>2, ForeverFact, EnvironmentMade
  <2> QED BY <1>2, <2>3
<1>4. e.parent = p /\ e.env_table = t /\ e.born = b BY <1>2
<1>5. OnlyVariable(e.vars, x) BY <1>2 DEF OnlyVariable
<1>6. LexIn(decl', e.vars) BY <1>1, <1>5 DEF LexIn, OnlyVariable
<1>8. \A y \in Names : e.vars[y] # 0 => decl'[e.vars[y]].name = y /\ ~decl'[e.vars[y]].const
  BY <1>1, <1>5 DEF Declaration, OnlyVariable
<1>9. p < Len(env) + 1 OBVIOUS
<1> HIDE EnvFacts
<1>10. EnvIn(decl', e, Len(env) + 1) BY <1>4, <1>6, <1>8, <1>9 DEF EnvIn
<1> QED BY <1>3, <1>4, <1>5, <1>10 DEF e, VariableMade

LEMMA VariableAdded ==
  ASSUME EnvsOK, StepTaken, NEW p \in 1 .. Len(env), NEW t \in Tables, NEW b \in 1 .. Forever, NEW x \in Names,
         NEW l, l["_ENV"] \in 1 .. Len(decl),
         env' = Append(env, VariableEnvironment(p, t, b, x)),
         decl' = Append(decl, Declaration(x, FALSE, NoTable, l))
  PROVE  /\ EnvsOK' /\ Grown(decl, decl') /\ Added(env, env') /\ Len(env') = Len(env) + 1
         /\ \A i \in 1 .. Len(env) : env'[i] = env[i]
         /\ env'[Len(env')].parent = p /\ env'[Len(env')].env_table = t /\ env'[Len(env')].born = b
         /\ OnlyVariable(env'[Len(env')].vars, x)
<1> DEFINE e == VariableEnvironment(p, t, b, x)
<1>1. DeclsMore BY DeclAdded DEF Tables
<1>2. /\ e \in EnvironmentType /\ EnvIn(decl', e, Len(env) + 1)
      /\ e.parent = p /\ e.env_table = t /\ e.born = b
      /\ OnlyVariable(e.vars, x)
  <2>1. VariableMade(e, p, t, b, x) BY VariableOK
  <2> HIDE DEF e
  <2> QED BY <2>1 DEF VariableMade
<1> HIDE DEF e
<1>3. env' = Append(env, e) BY DEF e
<1>4. /\ EnvsOK' /\ Grown(decl, decl') /\ Added(env, env') /\ Len(env') = Len(env) + 1
      /\ env'[Len(env')] = e /\ \A i \in 1 .. Len(env) : env'[i] = env[i]
  BY <1>1, <1>2, <1>3, EnvAdded
<1> QED BY <1>2, <1>4

(* A declaration in environment e. *)
LEMMA BindOK ==
  ASSUME EnvsOK, StepTaken, NEW e \in 1 .. Len(env), NEW x \in Names, NEW c \in BOOLEAN,
         NEW t \in Tables, NEW l, l["_ENV"] \in 1 .. Len(decl),
         env' = Bind(e, x, c, t), decl' = Append(decl, Declaration(x, c, t, l))
  PROVE  /\ EnvsOK' /\ Grown(decl, decl') /\ Rebound(env, env', e, x, Id)
         /\ Len(decl') = Id /\ decl'[Id] = Declaration(x, c, t, l) /\ Id \in Nat /\ Id > Len(decl)
         /\ \A i \in 1 .. Len(env) : i # e \/ x # "_ENV" => env'[i].env_table = env[i].env_table
         /\ env'[e].env_table = IF x = "_ENV" /\ t # NoTable THEN t ELSE env[e].env_table
         /\ Len(env') = Len(env)
<1> USE EnvFacts
<1>1. /\ DeclsMore /\ Len(decl') = Id /\ decl'[Id] = Declaration(x, c, t, l)
      /\ Id \in 1 .. Len(decl') /\ Id \in Nat /\ Id > Len(decl) /\ Id # 0
  BY DeclAdded
<1> DEFINE f == [env[e] EXCEPT !.vars[x] = Id,
                               !.consts = IF c THEN @ \cup {x} ELSE @,
                               !.env_table = IF x = "_ENV" /\ t # NoTable THEN t ELSE @]
<1>2. env[e] \in EnvironmentType OBVIOUS
<1>3. /\ f.parent = env[e].parent /\ f.born = env[e].born
      /\ f.consts = (IF c THEN env[e].consts \cup {x} ELSE env[e].consts)
      /\ f.env_table = (IF x = "_ENV" /\ t # NoTable THEN t ELSE env[e].env_table)
      /\ f.vars = [env[e].vars EXCEPT ![x] = Id]
  BY <1>2 DEF EnvironmentType
<1>4. \A y \in Names : f.vars[y] = IF y = x THEN Id ELSE env[e].vars[y]
  BY <1>2, <1>3 DEF EnvironmentType, Lex
<1>5. f \in EnvironmentType
  <2>1. [env[e].vars EXCEPT ![x] = Id] \in Lex BY <1>1, <1>2 DEF EnvironmentType, Lex
  <2> QED BY <1>2, <1>3, <2>1 DEF EnvironmentType
<1>6. env' = [env EXCEPT ![e] = f] BY <1>2 DEF Bind
<1> HIDE DEF f
<1>7. env \in Seq(EnvironmentType) BY DEF EnvsOK
<1>8. /\ env' \in Seq(EnvironmentType) /\ Len(env') = Len(env) /\ env'[e] = f
      /\ \A i \in 1 .. Len(env) : i # e => env'[i] = env[i]
  BY <1>5, <1>6, <1>7, ExceptSeq
<1>9. ASSUME NEW i \in 1 .. Len(env') PROVE EnvIn(decl', env'[i], i)
  <2>1. EnvIn(decl', env[i], i) BY <1>1, <1>8, EnvInGrown
  <2>2. CASE i = e
    <3>1. LexIn(decl', f.vars) BY <1>1, <1>4, <2>1, <2>2 DEF EnvIn, LexIn
    <3>2. ASSUME NEW y \in Names, f.vars[y] # 0
          PROVE  /\ decl'[f.vars[y]].name = y
                 /\ decl'[f.vars[y]].const => y \in f.consts
      <4>1. CASE y = x
        <5>1. f.vars[y] = Id BY <1>4, <4>1
        <5>2. decl'[Id].name = x /\ decl'[Id].const = c BY <1>1 DEF Declaration
        <5>3. c => x \in f.consts BY <1>3
        <5> QED BY <4>1, <5>1, <5>2, <5>3
      <4>2. CASE y # x
        <5>1. f.vars[y] = env[e].vars[y] BY <1>4, <4>2
        <5>2. env[e].consts \subseteq f.consts BY <1>3
        <5> QED BY <2>1, <2>2, <3>2, <5>1, <5>2 DEF EnvIn
      <4> QED BY <4>1, <4>2
    <3> QED BY <1>3, <1>8, <2>1, <2>2, <3>1, <3>2 DEF EnvIn
  <2>3. CASE i # e BY <1>8, <2>1, <2>3
  <2> QED BY <2>2, <2>3
<1>10. EnvsOK' /\ Grown(decl, decl') BY <1>1, <1>8, <1>9, EnvsMade
<1>11. Rebound(env, env', e, x, Id) BY <1>1, <1>3, <1>4, <1>8 DEF Rebound
<1> QED BY <1>1, <1>3, <1>8, <1>10, <1>11

(* x = v for a local: its variable is not const. *)
LEMMA LocalAssigned ==
  ASSUME EnvsOK, StepTaken, NEW x \in Names, Top.env \in 1 .. Len(env), AssignLocal(x)
  PROVE  EnvsOK' /\ Grown(decl, decl')
<1> USE EnvFacts
<1> DEFINE e == Binding(Top.env, x)
           d == env[e].vars[x]
<1>1. env' = env /\ e # 0 /\ x \notin env[e].consts
      /\ decl' = [decl EXCEPT ![d].assigned = @ \/ decl[d].const]
  BY DEF AssignLocal
<1>2. e = BoundIn(env, Top.env, x) BY LookupIn
<1>3. e \in 1 .. Len(env) /\ d # 0
  <2>1. Rooted(env) BY EnvsAsWorld DEF World
  <2> QED BY <1>1, <1>2, <2>1, BoundFacts
<1> HIDE DEF e
<1>4. d \in 1 .. Len(decl) /\ ~decl[d].const
  BY <1>1, <1>3 DEF EnvsOK, LexIn, VariablesKnown
<1> HIDE DEF d
<1>5. decl[d] \in DeclarationType BY <1>4
<1> DEFINE m == [decl[d] EXCEPT !.assigned = @ \/ decl[d].const]
<1>6. m = decl[d] BY <1>4, <1>5 DEF DeclarationType
<1>7. decl' = decl
  <2>1. decl \in Seq(DeclarationType) BY DEF EnvsOK
  <2>2. decl' = [decl EXCEPT ![d] = m] BY <1>1
  <2>3. decl' = [decl EXCEPT ![d] = decl[d]] BY <1>6, <2>2
  <2> QED BY <1>4, <2>1, <2>3
<1> QED BY <1>1, <1>7, EnvsKept

(* _ENV = t: the _ENV that is found is not const. *)
LEMMA EnvAssigned ==
  ASSUME EnvsOK, StepTaken, NEW t \in Tables, Top.env \in 1 .. Len(env),
         Top.lex["_ENV"] \in 1 .. Len(decl), AssignEnv(t)
  PROVE  /\ EnvsOK' /\ Grown(decl, decl') /\ Added(env, env') /\ Len(env') = Len(env)
         /\ \A i \in 1 .. Len(env) : i \notin {Binding(Top.env, "_ENV"), Top.env} =>
              env'[i].env_table = env[i].env_table
         /\ decl'[FoundIn(env, Top.env, "_ENV")].assigned
         /\ decl'[Top.lex["_ENV"]].meant
<1> USE EnvFacts
<1> DEFINE e == Binding(Top.env, "_ENV")
           d == Found(Top.env, "_ENV")
           m == Top.lex["_ENV"]
<1>1. /\ env' = [i \in DOMAIN env |->
                   IF i \in {e, Top.env} THEN [env[i] EXCEPT !.env_table = t] ELSE env[i]]
      /\ decl' = [decl EXCEPT ![d].assigned = TRUE, ![m].meant = TRUE]
  BY DEF AssignEnv
<1>2. d = FoundIn(env, Top.env, "_ENV") BY LookupIn
<1>3. d \in 1 .. Len(decl) /\ decl[d].name = "_ENV"
  <2>1. World(env, decl) BY EnvsAsWorld
  <2> QED BY <1>2, <2>1, FoundExists, NamesFact
<1>4. ~decl[d].const
  <2>1. CASE e = 0
    <3>1. d = 1 BY <2>1 DEF Found
    <3> QED BY <3>1 DEF EnvsOK, VariablesKnown
  <2>2. CASE e # 0
    <3>1. d = env[e].vars["_ENV"] /\ "_ENV" \notin env[e].consts BY <2>2 DEF Found, AssignEnv
    <3>2. e = BoundIn(env, Top.env, "_ENV") /\ Rooted(env) BY LookupIn, EnvsAsWorld DEF World
    <3>3. e \in 1 .. Len(env) BY <2>2, <3>2, BoundFacts
    <3> QED BY <1>3, <3>1, <3>3, NamesFact DEF EnvsOK, VariablesKnown
  <2> QED BY <2>1, <2>2
<1> HIDE DEF e, d, m
<1>5. ASSUME NEW i \in 1 .. Len(env)
      PROVE  /\ env'[i] \in EnvironmentType
             /\ env'[i].parent = env[i].parent /\ env'[i].born = env[i].born
             /\ env'[i].vars = env[i].vars /\ env'[i].consts = env[i].consts
             /\ i \notin {e, Top.env} => env'[i].env_table = env[i].env_table
  <2>1. env[i] \in EnvironmentType OBVIOUS
  <2>2. /\ [env[i] EXCEPT !.env_table = t] \in EnvironmentType
        /\ [env[i] EXCEPT !.env_table = t].parent = env[i].parent
        /\ [env[i] EXCEPT !.env_table = t].born = env[i].born
        /\ [env[i] EXCEPT !.env_table = t].vars = env[i].vars
        /\ [env[i] EXCEPT !.env_table = t].consts = env[i].consts
    BY <2>1 DEF EnvironmentType
  <2>3. env'[i] = IF i \in {e, Top.env} THEN [env[i] EXCEPT !.env_table = t] ELSE env[i]
    BY <1>1
  <2>4. CASE i \in {e, Top.env} BY <2>2, <2>3, <2>4
  <2>5. CASE i \notin {e, Top.env} BY <2>1, <2>3, <2>5
  <2> QED BY <2>4, <2>5
<1>6. env' \in Seq(EnvironmentType) /\ Len(env') = Len(env)
  <2>1. env' \in [1 .. Len(env) -> EnvironmentType]
    <3>1. DOMAIN env' = 1 .. Len(env) /\ env' = [i \in 1 .. Len(env) |-> env'[i]] BY <1>1
    <3> QED BY <1>5, <3>1
  <2> QED BY <2>1
<1> DEFINE f == [decl EXCEPT ![d].assigned = TRUE]
<1>7. m \in 1 .. Len(decl) BY DEF m
<1>8. ASSUME NEW i \in 1 .. Len(decl)
      PROVE  /\ decl'[i] \in DeclarationType
             /\ decl'[i].name = decl[i].name /\ decl'[i].const = decl[i].const
             /\ decl'[i].table = decl[i].table /\ decl'[i].over = decl[i].over
             /\ decl[i].assigned => decl'[i].assigned
             /\ decl[i].meant => decl'[i].meant
             /\ i # d => decl'[i].assigned = decl[i].assigned
             /\ i = d => decl'[i].assigned
             /\ i = m => decl'[i].meant
  <2>1. decl[i] \in DeclarationType OBVIOUS
  <2>2. f[i] = IF i = d THEN [decl[i] EXCEPT !.assigned = TRUE] ELSE decl[i] BY <1>3
  <2>3. /\ f[i] \in DeclarationType /\ f[i].name = decl[i].name /\ f[i].const = decl[i].const
        /\ f[i].table = decl[i].table /\ f[i].over = decl[i].over /\ f[i].meant = decl[i].meant
        /\ decl[i].assigned => f[i].assigned
        /\ i # d => f[i].assigned = decl[i].assigned
        /\ i = d => f[i].assigned
    BY <2>1, <2>2 DEF DeclarationType
  <2>4. DOMAIN f = 1 .. Len(decl) BY <1>3
  <2>5. decl' = [f EXCEPT ![m].meant = TRUE] BY <1>1
  <2> HIDE DEF f
  <2>6. decl'[i] = IF i = m THEN [f[i] EXCEPT !.meant = TRUE] ELSE f[i] BY <2>4, <2>5
  <2> QED BY <2>3, <2>6 DEF DeclarationType
<1>9. decl' \in Seq(DeclarationType) /\ Len(decl') = Len(decl)
  <2>1. DOMAIN f = 1 .. Len(decl) BY <1>3
  <2>2. decl' = [f EXCEPT ![m].meant = TRUE] BY <1>1
  <2> HIDE DEF f
  <2>3. DOMAIN decl' = 1 .. Len(decl) /\ decl' = [i \in 1 .. Len(decl) |-> decl'[i]] BY <2>1, <2>2
  <2>4. decl' \in [1 .. Len(decl) -> DeclarationType] BY <1>8, <2>3
  <2> QED BY <2>4
<1>10. Grown(decl, decl') BY <1>8, <1>9 DEF Grown
<1>11. \A i \in 1 .. Len(decl) : decl[i].const => decl'[i].assigned = decl[i].assigned
  BY <1>4, <1>8
<1>12. EnvsOK' BY <1>5, <1>6, <1>9, <1>10, <1>11, DeclsMarked
<1>13. Added(env, env') BY <1>5, <1>6 DEF Added
<1> QED BY <1>2, <1>3, <1>5, <1>6, <1>7, <1>8, <1>10, <1>12, <1>13 DEF e, m

-----------------------------------------------------------------------------
(* What the steps do to the stack. *)

LEMMA StackFacts ==
  ASSUME BlocksOK
  PROVE  /\ Len(stack) \in Nat /\ DOMAIN stack = 1 .. Len(stack)
         /\ \A i \in 1 .. Len(stack) : stack[i] \in BlockType /\ BlockIn(env, decl, stack[i])
         /\ stack # <<>> => Len(stack) \in 1 .. Len(stack) /\ Top = stack[Len(stack)]
         /\ Len(stack) = 0 => stack = <<>>
<1>1. stack \in Seq(BlockType) BY DEF BlocksOK
<1> QED BY <1>1 DEF BlocksOK, Top

(* The k outermost blocks stay, and there may be one more. *)
StackKept(k) ==
  /\ k \in 0 .. Len(stack) /\ stack' \in Seq(BlockType) /\ Len(stack') \in {k, k + 1}
  /\ \A i \in 1 .. k : stack'[i] = stack[i]

LEMMA PopFacts ==
  ASSUME BlocksOK, stack # <<>>
  PROVE  /\ Pop \in Seq(BlockType) /\ Len(Pop) = Len(stack) - 1
         /\ \A i \in 1 .. Len(stack) - 1 : Pop[i] = stack[i]
<1> DEFINE n == Len(stack) - 1
<1>1. Len(stack) \in Nat /\ Len(stack) >= 1 /\ \A i \in 1 .. n : stack[i] \in BlockType BY StackFacts
<1>2. n \in Nat /\ n \in Int BY <1>1
<1>3. Pop = SubSeq(stack, 1, n) BY DEF Pop
<1> HIDE DEF n
<1>4. /\ Pop \in Seq(BlockType) /\ Len(Pop) = IF 1 <= n THEN n - 1 + 1 ELSE 0
      /\ \A i \in 1 .. n - 1 + 1 : Pop[i] = stack[1 + i - 1]
  BY <1>1, <1>2, <1>3, SubSeqProperties
<1>5. Len(Pop) = n BY <1>2, <1>4
<1>6. \A i \in 1 .. n : Pop[i] = stack[i] BY <1>2, <1>4
<1> QED BY <1>4, <1>5, <1>6 DEF n

LEMMA OneLess ==
  ASSUME BlocksOK, stack # <<>>
  PROVE  \E k \in Nat : Len(stack) = k + 1 /\ Len(stack) - 1 = k
<1>1. Len(stack) \in Nat /\ Len(stack) >= 1 BY StackFacts
<1>2. Len(stack) - 1 \in Nat /\ Len(stack) = (Len(stack) - 1) + 1 BY <1>1
<1> QED BY <1>2

LEMMA Popped ==
  ASSUME BlocksOK, stack # <<>>, stack' = Pop
  PROVE  StackKept(Len(stack) - 1) /\ Len(stack') = Len(stack) - 1
<1>1. PICK k \in Nat : Len(stack) = k + 1 /\ Len(stack) - 1 = k BY OneLess
<1>2. stack' \in Seq(BlockType) /\ Len(stack') = k /\ \A i \in 1 .. k : stack'[i] = stack[i]
  BY <1>1, PopFacts
<1>3. k \in 0 .. Len(stack) BY <1>1
<1> QED BY <1>1, <1>2, <1>3 DEF StackKept

LEMMA Pushed ==
  ASSUME BlocksOK, NEW b, b \in BlockType, stack' = Append(stack, b)
  PROVE  StackKept(Len(stack)) /\ Len(stack') = Len(stack) + 1 /\ stack'[Len(stack')] = b
<1>1. stack \in Seq(BlockType) BY DEF BlocksOK
<1> QED BY <1>1, StackFacts, AppendProperties DEF StackKept

LEMMA Swapped ==
  ASSUME BlocksOK, stack # <<>>, NEW b, b \in BlockType, stack' = Append(Pop, b)
  PROVE  StackKept(Len(stack) - 1) /\ Len(stack') = Len(stack) /\ stack'[Len(stack')] = b
<1>1. /\ stack' \in Seq(BlockType) /\ Len(stack') = Len(Pop) + 1 /\ stack'[Len(Pop) + 1] = b
      /\ \A i \in 1 .. Len(Pop) : stack'[i] = Pop[i]
  BY PopFacts, AppendProperties
<1>2. PICK k \in Nat : Len(stack) = k + 1 /\ Len(stack) - 1 = k BY OneLess
<1>3. /\ stack' \in Seq(BlockType) /\ Len(stack') = k + 1 /\ stack'[k + 1] = b
      /\ \A i \in 1 .. k : stack'[i] = stack[i]
  BY <1>1, <1>2, PopFacts
<1>4. k \in 0 .. Len(stack) BY <1>2
<1> QED BY <1>2, <1>3, <1>4 DEF StackKept

LEMMA Replaced ==
  ASSUME BlocksOK, stack # <<>>, NEW b, b \in BlockType, stack' = [stack EXCEPT ![Len(stack)] = b]
  PROVE  StackKept(Len(stack) - 1) /\ Len(stack') = Len(stack) /\ stack'[Len(stack')] = b
<1>1. stack \in Seq(BlockType) /\ Len(stack) \in 1 .. Len(stack) /\ Len(stack) \in Nat
  BY StackFacts DEF BlocksOK
<1>2. /\ stack' \in Seq(BlockType) /\ Len(stack') = Len(stack)
      /\ \A i \in 1 .. Len(stack) : stack'[i] = IF i = Len(stack) THEN b ELSE stack[i]
  BY <1>1, ExceptSeq
<1>3. PICK k \in Nat : Len(stack) = k + 1 /\ Len(stack) - 1 = k BY OneLess
<1>4. /\ stack' \in Seq(BlockType) /\ Len(stack') = k + 1 /\ stack'[k + 1] = b
      /\ \A i \in 1 .. k : stack'[i] = stack[i]
  BY <1>2, <1>3
<1>5. k \in 0 .. Len(stack) BY <1>3
<1> QED BY <1>3, <1>4, <1>5 DEF StackKept

-----------------------------------------------------------------------------
(* The blocks, after a step. *)

SameEnvIn(E, e, later, earlier, since) ==
  later["_ENV"] = earlier["_ENV"] \/ E[e].vars["_ENV"] > since

(* A scope further in that means l, and the block b around it, which waits  *)
(* since s.                                                                 *)
SharedIn(E, b, s, l) == SameEnvIn(E, b.env, l, b.lex, s)
LabelShared(E, b, l) == b.label.passed => SameEnvIn(E, b.env, l, b.label.lex, b.label.at)

LEMMA SharedMeans ==
  ASSUME BlocksOK
  PROVE  EnvShared <=>
           \A i, j \in 1 .. Len(stack) : stack[i].env = stack[j].env =>
             \A l \in Lexes(stack[j]) : /\ i < j => SharedIn(env, stack[i], Since(i), l)
                                        /\ i <= j => LabelShared(env, stack[i], l)
<1>1. DOMAIN stack = 1 .. Len(stack) BY StackFacts
<1>2. \A e, l, m, s : SameEnv(e, l, m, s) <=> SameEnvIn(env, e, l, m, s) BY DEF SameEnv, SameEnvIn
<1> QED BY <1>1, <1>2 DEF EnvShared, SharedIn, LabelShared

LEMMA SharedMeansNext ==
  ASSUME BlocksOK'
  PROVE  EnvShared' <=>
           \A i, j \in 1 .. Len(stack') : stack'[i].env = stack'[j].env =>
             \A l \in Lexes(stack'[j]) : /\ i < j => SharedIn(env', stack'[i], Since(i)', l)
                                         /\ i <= j => LabelShared(env', stack'[i], l)
<1>1. DOMAIN stack' = 1 .. Len(stack')
  <2>1. stack' \in Seq(BlockType) BY DEF BlocksOK
  <2> QED BY <2>1
<1>2. \A e, l, m, s : SameEnv(e, l, m, s)' <=> SameEnvIn(env', e, l, m, s) BY DEF SameEnv, SameEnvIn
<1>3. \A b : Lexes(b)' = Lexes(b) BY DEF Lexes
<1> QED BY <1>1, <1>2, <1>3 DEF EnvShared, SharedIn, LabelShared

(* How long the blocks that stay have waited. *)
LEMMA SinceFacts ==
  ASSUME BlocksOK, EnvsOK
  PROVE  /\ \A i \in 1 .. Len(stack) : Since(i) \in Nat
         /\ \A i \in 1 .. Len(stack) : Since(i) # Forever =>
              i + 1 \in 1 .. Len(stack) /\ stack[i + 1].kind = "while" /\ Since(i) = stack[i + 1].start
                                        /\ Since(i) \in 1 .. Len(decl)
         /\ Since(Len(stack)) = Forever
<1>1. ASSUME NEW i \in 1 .. Len(stack) PROVE Since(i) \in Nat
  BY StackFacts, ForeverFact DEF Since, BlockIn
<1>2. ASSUME NEW i \in 1 .. Len(stack), Since(i) # Forever
      PROVE  i + 1 \in 1 .. Len(stack) /\ stack[i + 1].kind = "while" /\ Since(i) = stack[i + 1].start
                                       /\ Since(i) \in 1 .. Len(decl)
  BY <1>2, StackFacts DEF Since, BlockIn
<1>3. Since(Len(stack)) = Forever BY StackFacts DEF Since
<1> QED BY <1>1, <1>2, <1>3

LEMMA SinceKept ==
  ASSUME BlocksOK, NEW k, StackKept(k)
  PROVE  /\ \A i \in 1 .. k - 1 : Since(i)' = Since(i)
         /\ Len(stack') = k => Since(k)' = Forever
         /\ Len(stack') = k + 1 =>
              Since(k)' = IF stack'[k + 1].kind = "while" THEN stack'[k + 1].start ELSE Forever
<1>1. Len(stack) \in Nat /\ k \in Nat /\ k <= Len(stack) BY StackFacts DEF StackKept
<1>2. ASSUME NEW i \in 1 .. k - 1 PROVE Since(i)' = Since(i)
  <2>1. i + 1 \in 1 .. k /\ i < Len(stack) /\ i < Len(stack') /\ i \in Nat BY <1>1 DEF StackKept
  <2>2. stack'[i + 1] = stack[i + 1] BY <2>1 DEF StackKept
  <2> QED BY <2>1, <2>2 DEF Since, Forever
<1>3. Len(stack') = k => Since(k)' = Forever BY <1>1 DEF Since, Forever
<1>4. Len(stack') = k + 1 =>
        Since(k)' = IF stack'[k + 1].kind = "while" THEN stack'[k + 1].start ELSE Forever
  BY <1>1 DEF Since, Forever
<1> QED BY <1>2, <1>3, <1>4

(* What is asked of a block b that comes to stand on the k outermost ones.  *)
Fits(k, b) ==
  /\ BlockIn(env', decl', b)
  /\ k = 0 => b.kind = "chunk"
  /\ k > 0 => /\ b.kind = "while" => b.env = stack[k].env
              /\ b.kind # "while" => b.env > stack[k].env

FitsEnv(k, b) ==
  /\ \A l \in Lexes(b) : LabelShared(env', b, l)
  /\ \A i \in 1 .. k : stack[i].env = b.env => \A l \in Lexes(b) :
        SharedIn(env', stack[i], Since(i)', l) /\ LabelShared(env', stack[i], l)

NoEnvLost ==
  /\ Len(env) <= Len(env') /\ Len(decl) <= Len(decl')
  /\ \A e \in 1 .. Len(env) : env'[e].vars["_ENV"] >= env[e].vars["_ENV"]

LEMMA NestsAfter ==
  ASSUME EnvsOK, EnvsOK', BlocksOK, StackNests, NoEnvLost, NEW k, StackKept(k),
         Len(stack') = k + 1 => Fits(k, stack'[k + 1])
  PROVE  BlocksOK' /\ StackNests'
<1>1. /\ Len(stack) \in Nat /\ k \in Nat /\ k <= Len(stack) /\ Len(stack') \in {k, k + 1}
      /\ \A i \in 1 .. k : stack'[i] = stack[i] /\ i \in 1 .. Len(stack)
  BY StackFacts DEF StackKept
<1>s. stack' \in Seq(BlockType) BY DEF StackKept
<1>d. /\ DOMAIN stack' = 1 .. Len(stack') /\ DOMAIN stack = 1 .. Len(stack)
      /\ stack # <<>> <=> Len(stack) # 0
      /\ stack' # <<>> <=> Len(stack') # 0
  BY <1>s, StackFacts
<1>2. Len(env) \in Nat /\ Len(env') \in Nat /\ Len(decl) \in Nat /\ Len(decl') \in Nat BY DEF EnvsOK
<1>3. ASSUME NEW i \in 1 .. Len(stack') PROVE BlockIn(env', decl', stack'[i])
  <2>1. CASE i \in 1 .. k
    <3>1. BlockIn(env, decl, stack[i]) BY <1>1, <2>1, StackFacts
    <3>2. BlockIn(env', decl', stack[i]) BY <1>2, <3>1 DEF BlockIn, LexIn, NoEnvLost
    <3> QED BY <1>1, <2>1, <3>2
  <2>2. CASE i \notin 1 .. k
    <3>1. i = k + 1 /\ Len(stack') = k + 1 BY <1>1, <2>2
    <3> QED BY <3>1 DEF Fits
  <2> QED BY <2>1, <2>2
<1>4. BlocksOK' BY <1>s, <1>3 DEF BlocksOK
<1>5. \A i \in 1 .. Len(stack') : stack'[i].env \in Nat BY <1>3 DEF BlockIn
<1>6. stack' # <<>> => stack'[1].kind = "chunk"
  <2>1. ASSUME stack' # <<>> PROVE stack'[1].kind = "chunk"
    <3>1. Len(stack') # 0 BY <1>d, <2>1
    <3>2. CASE k = 0 BY <1>1, <3>1, <3>2 DEF Fits
    <3>3. CASE k # 0
      <4>1. stack[1].kind = "chunk"
        <5>1. Len(stack) # 0 BY <1>1, <3>3
        <5>2. stack # <<>> BY <1>d, <5>1
        <5> QED BY <5>2 DEF StackNests
      <4> QED BY <1>1, <3>3, <4>1
    <3> QED BY <3>2, <3>3
  <2> QED BY <2>1
<1>7. ASSUME NEW i \in 1 .. Len(stack'), NEW j \in 1 .. Len(stack'), i < j
      PROVE  stack'[i].env <= stack'[j].env
  <2>1. i \in 1 .. k BY <1>1, <1>7
  <2>2. CASE j \in 1 .. k
    <3>1. i \in 1 .. Len(stack) /\ j \in 1 .. Len(stack) BY <1>1, <2>1, <2>2
    <3>2. stack[i].env <= stack[j].env BY <1>d, <1>7, <3>1 DEF StackNests
    <3> QED BY <1>1, <2>1, <2>2, <3>2
  <2>3. CASE j \notin 1 .. k
    <3>1. j = k + 1 /\ Len(stack') = k + 1 /\ k > 0 BY <1>1, <2>1, <2>3
    <3>2. stack[k].env <= stack'[j].env
      <4>1. stack[k].env \in Nat /\ stack'[j].env \in Nat BY <1>1, <1>5, <3>1
      <4> QED BY <3>1, <4>1 DEF Fits
    <3>3. stack[i].env <= stack[k].env
      <4>1. CASE i = k
        <5>1. stack[k].env \in Nat BY <1>1, <1>5, <3>1
        <5> QED BY <4>1, <5>1
      <4>2. CASE i # k BY <1>1, <1>d, <2>1, <3>1, <4>2 DEF StackNests
      <4> QED BY <4>1, <4>2
    <3>4. stack[i].env \in Nat /\ stack[k].env \in Nat /\ stack'[j].env \in Nat BY <1>1, <1>5, <2>1, <3>1
    <3>5. stack'[i].env = stack[i].env BY <1>1, <2>1
    <3> QED BY <3>2, <3>3, <3>4, <3>5
  <2> QED BY <2>2, <2>3
<1>8. ASSUME NEW i \in 1 .. Len(stack') - 1
      PROVE  stack'[i].env = stack'[i + 1].env <=> stack'[i + 1].kind = "while"
  <2>0. i \in 1 .. k /\ i + 1 \in 1 .. k + 1 BY <1>1
  <2>1. CASE i + 1 \in 1 .. k
    <3>1. i \in 1 .. Len(stack) - 1 BY <1>1, <2>1
    <3> QED BY <1>1, <2>0, <2>1, <3>1 DEF StackNests
  <2>2. CASE i + 1 \notin 1 .. k
    <3>1. i = k /\ Len(stack') = k + 1 /\ k > 0 BY <1>1, <2>0, <2>2
    <3>2. stack[k].env \in Nat /\ stack'[k + 1].env \in Nat BY <1>1, <1>5, <3>1
    <3> QED BY <1>1, <2>0, <3>1, <3>2 DEF Fits
  <2> QED BY <2>1, <2>2
<1>9. StackNests' BY <1>d, <1>6, <1>7, <1>8 DEF StackNests
<1> QED BY <1>4, <1>9

LEMMA EnvVariable ==
  ASSUME EnvsOK, EnvsOK', NoEnvLost
  PROVE  \A e \in 1 .. Len(env) : /\ env[e].vars["_ENV"] \in Nat /\ env'[e].vars["_ENV"] \in Nat
                                  /\ env'[e].vars["_ENV"] >= env[e].vars["_ENV"]
<1>1. World(env, decl) /\ World(env', decl') BY EnvsAsWorld, EnvsAsWorldNext
<1>2. \A e \in 1 .. Len(env) : env[e].vars["_ENV"] \in Nat BY <1>1, NamesFact DEF World, LexIn
<1>3. \A e \in 1 .. Len(env') : env'[e].vars["_ENV"] \in Nat BY <1>1, NamesFact DEF World, LexIn
<1>4. Len(env) \in Nat /\ Len(env') \in Nat /\ Len(env) <= Len(env')
  BY <1>1 DEF World, Rooted, NoEnvLost
<1> QED BY <1>2, <1>3, <1>4 DEF NoEnvLost

LEMMA SharedKept ==
  ASSUME EnvsOK, EnvsOK', BlocksOK, EnvShared, NoEnvLost, NEW k, StackKept(k),
         NEW i \in 1 .. k, NEW j \in 1 .. k, stack[i].env = stack[j].env, NEW l \in Lexes(stack[j])
  PROVE  /\ i < j => SharedIn(env', stack[i], Since(i)', l)
         /\ i <= j => LabelShared(env', stack[i], l)
<1>1. Len(stack) \in Nat /\ k \in Nat /\ k <= Len(stack) BY StackFacts DEF StackKept
<1>2. i \in 1 .. Len(stack) /\ j \in 1 .. Len(stack) BY <1>1
<1>3. /\ i < j => SharedIn(env, stack[i], Since(i), l)
      /\ i <= j => LabelShared(env, stack[i], l)
  BY <1>2, SharedMeans
<1>4. BlockIn(env, decl, stack[i]) BY <1>2, StackFacts
<1> DEFINE e == stack[i].env
<1>5. e \in 1 .. Len(env) /\ stack[i].label.at \in Nat BY <1>4, EnvFacts DEF BlockIn
<1>6. /\ env[e].vars["_ENV"] \in Nat /\ env'[e].vars["_ENV"] \in Nat
      /\ env'[e].vars["_ENV"] >= env[e].vars["_ENV"]
  BY <1>5, EnvVariable
<1>8. ASSUME NEW m, NEW s \in Nat, SameEnvIn(env, e, l, m, s) PROVE SameEnvIn(env', e, l, m, s)
  <2>1. env[e].vars["_ENV"] > s => env'[e].vars["_ENV"] > s BY <1>6
  <2> QED BY <1>8, <2>1 DEF SameEnvIn
<1>9. Since(i) \in Nat BY <1>2, SinceFacts
<1>10. i < j => Since(i)' = Since(i) /\ SharedIn(env, stack[i], Since(i), l)
  <2>1. i < j => i \in 1 .. k - 1 BY <1>1
  <2> QED BY <1>3, <2>1, SinceKept
<1>11. i < j => SharedIn(env', stack[i], Since(i)', l) BY <1>8, <1>9, <1>10 DEF SharedIn
<1>12. i <= j => LabelShared(env', stack[i], l) BY <1>3, <1>5, <1>8 DEF LabelShared
<1> QED BY <1>11, <1>12

LEMMA SharedAfter ==
  ASSUME EnvsOK, EnvsOK', BlocksOK, BlocksOK', EnvShared, NoEnvLost, NEW k, StackKept(k),
         Len(stack') = k + 1 => FitsEnv(k, stack'[k + 1])
  PROVE  EnvShared'
<1>1. Len(stack) \in Nat /\ k \in Nat /\ k <= Len(stack) /\ Len(stack') \in {k, k + 1}
      /\ \A i \in 1 .. k : stack'[i] = stack[i]
  BY StackFacts DEF StackKept
<1>2. ASSUME NEW i \in 1 .. Len(stack'), NEW j \in 1 .. Len(stack'),
             stack'[i].env = stack'[j].env, NEW l \in Lexes(stack'[j])
      PROVE  /\ i < j => SharedIn(env', stack'[i], Since(i)', l)
             /\ i <= j => LabelShared(env', stack'[i], l)
  <2>1. CASE i \in 1 .. k /\ j \in 1 .. k
    <3>1. stack'[i] = stack[i] /\ stack'[j] = stack[j] BY <1>1, <2>1
    <3> QED BY <1>2, <2>1, <3>1, SharedKept
  <2>2. CASE i \in 1 .. k /\ j \notin 1 .. k
    <3>1. j = k + 1 /\ Len(stack') = k + 1 BY <1>1, <2>2
    <3>2. stack'[i] = stack[i] BY <1>1, <2>2
    <3> QED BY <1>2, <2>2, <3>1, <3>2 DEF FitsEnv
  <2>3. CASE i \notin 1 .. k
    <3>1. i = k + 1 /\ Len(stack') = k + 1 BY <1>1, <2>3
    <3>2. ~(i < j) BY <1>1, <3>1
    <3>3. i <= j => i = j BY <1>1, <3>1
    <3>4. i = j => LabelShared(env', stack'[i], l) BY <1>2, <3>1 DEF FitsEnv
    <3> QED BY <3>2, <3>3, <3>4
  <2> QED BY <2>1, <2>2, <2>3
<1> QED BY <1>2, SharedMeansNext

(* Steps that change no block but the innermost. *)
BlocksGoodTo(k) == \A i \in 1 .. k : BlockGoodIn(env', decl', stack[i], Since(i)')

LEMMA BlocksAfter ==
  ASSUME NEW k, StackKept(k), BlocksOK, BlocksOK', BlocksGoodTo(k),
         Len(stack') = k + 1 => BlockGoodIn(env', decl', stack'[k + 1], Forever)
  PROVE  \A i \in DOMAIN stack' : BlockGoodIn(env', decl', stack'[i], Since(i)')
<1>1. Len(stack) \in Nat /\ k \in Nat /\ k <= Len(stack) /\ Len(stack') \in {k, k + 1}
      /\ \A i \in 1 .. k : stack'[i] = stack[i]
  BY StackFacts DEF StackKept
<1>2. DOMAIN stack' = 1 .. Len(stack')
  <2>1. stack' \in Seq(BlockType) BY DEF BlocksOK
  <2> QED BY <2>1
<1>3. ASSUME NEW i \in 1 .. Len(stack') PROVE BlockGoodIn(env', decl', stack'[i], Since(i)')
  <2>1. CASE i \in 1 .. k BY <1>1, <2>1 DEF BlocksGoodTo
  <2>2. CASE i \notin 1 .. k
    <3>1. i = k + 1 /\ Len(stack') = k + 1 BY <1>1, <2>2
    <3>2. Since(i)' = Forever BY <3>1, <1>1 DEF Since, Forever
    <3> QED BY <3>1, <3>2
  <2> QED BY <2>1, <2>2
<1> QED BY <1>2, <1>3

LEMMA BlockKept ==
  ASSUME EnvsOK, EnvsOK', Added(env, env'), Grown(decl, decl'), NEW b, BlockIn(env, decl, b),
         env'[b.env].env_table = env[b.env].env_table,
         NEW s \in Nat, NEW r \in Nat, r <= s, BlockGoodIn(env, decl, b, s)
  PROVE  BlockGoodIn(env', decl', b, r)
<1>1. World(env, decl) /\ World(env', decl') BY EnvsAsWorld, EnvsAsWorldNext
<1>2. b.env \in 1 .. Len(env) /\ LexIn(decl, b.lex) /\ LexIn(decl, b.label.lex) /\ b.label.at \in Nat
      /\ b.label.at <= b.label.at
  BY EnvFacts DEF BlockIn
<1>3. GoodIn(env', decl', b.env, b.lex, r) BY <1>1, <1>2, GoodKept DEF BlockGoodIn
<1>4. b.label.passed => GoodIn(env', decl', b.env, b.label.lex, b.label.at)
  <2>1. ASSUME b.label.passed PROVE GoodIn(env', decl', b.env, b.label.lex, b.label.at)
    <3>1. GoodIn(env, decl, b.env, b.label.lex, b.label.at) BY <2>1 DEF BlockGoodIn
    <3> QED BY <1>1, <1>2, <3>1, GoodKept
  <2> QED BY <2>1
<1> QED BY <1>3, <1>4 DEF BlockGoodIn

LEMMA ClosureStays ==
  ASSUME EnvsOK, EnvsOK', Grown(decl, decl'), Len(env) <= Len(env'), NEW c, ClosureIn(env, decl, c)
  PROVE  ClosureIn(env', decl', c)
<1>1. Len(env) \in Nat /\ Len(env') \in Nat /\ Len(decl) \in Nat /\ Len(decl') \in Nat
      /\ Len(decl) <= Len(decl')
  BY DEF EnvsOK, Grown
<1> QED BY <1>1 DEF ClosureIn, LexIn

LEMMA ClosuresSame ==
  ASSUME StateOK, EnvsOK', Added(env, env'), Grown(decl, decl')
  PROVE  \A c \in closures : ClosureIn(env', decl', c) /\ ClosureGoodIn(env', decl', c)
<1>1. World(env, decl) /\ World(env', decl') BY EnvsAsWorld, EnvsAsWorldNext DEF StateOK
<1>2. ASSUME NEW c \in closures PROVE ClosureIn(env', decl', c) /\ ClosureGoodIn(env', decl', c)
  <2>1. ClosureIn(env, decl, c) /\ ClosureGoodIn(env, decl, c) BY DEF StateOK, ClosuresOK
  <2>2. c.env \in 1 .. Len(env) /\ LexIn(decl, c.lex) BY <2>1 DEF ClosureIn
  <2>3. ClosureGoodIn(env', decl', c) BY <1>1, <2>1, <2>2, ClosureKept
  <2>4. ClosureIn(env', decl', c) BY <2>1, ClosureStays DEF StateOK, Added
  <2> QED BY <2>3, <2>4
<1> QED BY <1>2

LEMMA NormalControl ==
  ASSUME flow' = "normal", aim' \in Nat
  PROVE  ControlOK'
BY DEF ControlOK, Aimed

LEMMA NoneLost ==
  ASSUME EnvsOK, Added(env, env'), Grown(decl, decl')
  PROVE  NoEnvLost
<1>1. \A e \in 1 .. Len(env) : env[e].vars["_ENV"] \in Nat
  BY EnvsAsWorld, NamesFact DEF World, LexIn
<1> QED BY <1>1 DEF NoEnvLost, Added, Grown

(* A step that keeps what environments hold and the k outermost blocks.     *)
Settled(k) ==
  Len(stack') = k + 1 => /\ Fits(k, stack'[k + 1]) /\ FitsEnv(k, stack'[k + 1])
                         /\ BlockGoodIn(env', decl', stack'[k + 1], Forever)

LEMMA StepAdded ==
  ASSUME StateOK, EnvsOK', Added(env, env'), Grown(decl, decl'),
         \A e \in 1 .. Len(env) : env'[e].env_table = env[e].env_table,
         NEW k, StackKept(k), Settled(k),
         k > 0 => Since(k)' <= Since(k) \/ BlockGoodIn(env', decl', stack[k], Since(k)'),
         closures' = closures, ControlOK'
  PROVE  StateOK'
<1> USE DEF StateOK
<1>1. NoEnvLost BY NoneLost
<1>2. BlocksOK' /\ StackNests' BY <1>1, NestsAfter DEF Settled
<1>3. EnvShared' BY <1>1, <1>2, SharedAfter DEF Settled
<1>4. Len(stack) \in Nat /\ k \in Nat /\ k <= Len(stack) /\ DOMAIN stack = 1 .. Len(stack)
  BY StackFacts DEF StackKept
<1>5. ASSUME NEW i \in 1 .. k PROVE BlockGoodIn(env', decl', stack[i], Since(i)')
  <2>1. i \in 1 .. Len(stack) /\ Since(i) \in Nat BY <1>4, SinceFacts
  <2>2. BlockIn(env, decl, stack[i]) /\ BlockGoodIn(env, decl, stack[i], Since(i))
    BY <1>4, <2>1, StackFacts
  <2>3. env'[stack[i].env].env_table = env[stack[i].env].env_table BY <2>2 DEF BlockIn
  <2>4. Since(i)' \in Nat
    <3>1. i \in 1 .. Len(stack') /\ DOMAIN stack' = 1 .. Len(stack')
      <4>1. stack' \in Seq(BlockType) BY <1>2 DEF BlocksOK
      <4>2. i \in 1 .. Len(stack') BY <1>4 DEF StackKept
      <4> QED BY <4>1, <4>2
    <3> QED BY <1>2, <3>1, ForeverFact DEF Since, BlocksOK, BlockIn, BlockType, Forever
  <2>5. CASE i # k
    <3>1. i \in 1 .. k - 1 BY <1>4, <2>5
    <3>2. Since(i)' = Since(i) BY <3>1, SinceKept
    <3> QED BY <2>1, <2>2, <2>3, <3>2, BlockKept
  <2>6. CASE i = k
    <3>1. Since(k)' <= Since(k) \/ BlockGoodIn(env', decl', stack[k], Since(k)') BY <2>6, <1>4
    <3> QED BY <2>1, <2>2, <2>3, <2>4, <2>6, <3>1, BlockKept
  <2> QED BY <2>5, <2>6
<1>6. BlocksGoodTo(k) BY <1>5 DEF BlocksGoodTo
<1>7. \A i \in DOMAIN stack' : BlockGoodIn(env', decl', stack'[i], Since(i)')
  BY <1>2, <1>6, BlocksAfter DEF Settled
<1>8. ClosuresOK' /\ \A c \in closures' : ClosureGoodIn(env', decl', c)
  BY ClosuresSame DEF ClosuresOK
<1> QED BY <1>2, <1>3, <1>7, <1>8

(* A block on a new environment. *)
LEMMA FreshTop ==
  ASSUME BlocksOK, EnvsOK, NEW k \in 1 .. Len(stack), NEW b, BlockIn(env', decl', b),
         b.env = Len(env) + 1, ~b.label.passed, b.kind # "while"
  PROVE  Fits(k, b) /\ FitsEnv(k, b)
<1>1. Len(env) \in Nat /\ k \in Nat /\ k > 0 /\ \A i \in 1 .. k : i \in 1 .. Len(stack)
  BY StackFacts DEF EnvsOK
<1>2. \A i \in 1 .. k : stack[i].env \in 1 .. Len(env) BY <1>1, StackFacts DEF BlockIn
<1>3. \A i \in 1 .. k : stack[i].env # b.env /\ b.env > stack[i].env BY <1>1, <1>2
<1>4. Fits(k, b) BY <1>1, <1>3 DEF Fits
<1>5. FitsEnv(k, b) BY <1>3 DEF FitsEnv, LabelShared
<1> QED BY <1>4, <1>5

-----------------------------------------------------------------------------
(* Each step keeps the invariant. *)

LEMMA TopFacts ==
  ASSUME StateOK, stack # <<>>
  PROVE  /\ Len(stack) \in Nat /\ Len(stack) \in 1 .. Len(stack) /\ Top = stack[Len(stack)]
         /\ Top \in BlockType /\ BlockIn(env, decl, Top) /\ Top.env \in 1 .. Len(env)
         /\ Top.lex \in Lex /\ LexIn(decl, Top.lex) /\ Top.lex["_ENV"] \in 1 .. Len(decl)
         /\ BlockGoodIn(env, decl, Top, Forever)
         /\ Env \in EnvironmentType /\ Env.env_table \in Tables /\ Env = env[Top.env]
         /\ FollowsIn(decl, Env.env_table, Top.lex)
<1>1. /\ Len(stack) \in Nat /\ Len(stack) \in 1 .. Len(stack) /\ Top = stack[Len(stack)]
      /\ DOMAIN stack = 1 .. Len(stack)
  BY StackFacts DEF StateOK
<1>2. Top \in BlockType /\ BlockIn(env, decl, Top) BY <1>1, StackFacts DEF StateOK
<1>3. Top.env \in 1 .. Len(env) /\ Top.lex \in Lex /\ LexIn(decl, Top.lex)
  BY <1>2 DEF BlockIn, BlockType
<1>4. Since(Len(stack)) = Forever BY SinceFacts DEF StateOK
<1>5. BlockGoodIn(env, decl, Top, Forever) BY <1>1, <1>4 DEF StateOK
<1>6. Env \in EnvironmentType /\ Env.env_table \in Tables /\ Env = env[Top.env]
  BY <1>3, EnvFacts DEF StateOK, Env, EnvironmentType
<1>7. Top.lex["_ENV"] \in 1 .. Len(decl)
  BY <1>3, <1>5, EnvFacts, NamesFact DEF LexIn, BlockGoodIn, GoodIn, StateOK
<1>8. ~(env[Top.env].vars["_ENV"] > Forever)
  <2>1. World(env, decl) BY EnvsAsWorld DEF StateOK
  <2> QED BY <1>3, <2>1, NamesFact, ForeverFact DEF World, LexIn
<1>9. FollowsIn(decl, Env.env_table, Top.lex) BY <1>5, <1>6, <1>8 DEF BlockGoodIn, GoodIn
<1> QED BY <1>1, <1>2, <1>3, <1>5, <1>6, <1>7, <1>9

LEMMA CalmControl ==
  ASSUME StateOK, flow = "normal", Calm
  PROVE  ControlOK'
BY NormalControl DEF StateOK, ControlOK, Calm

LEMMA KeepingEnvs ==
  ASSUME EnvsOK, StepTaken, UNCHANGED <<env, decl>>
  PROVE  /\ EnvsOK' /\ Grown(decl, decl') /\ Added(env, env')
         /\ \A e \in 1 .. Len(env) : env'[e].env_table = env[e].env_table
<1>1. Len(env) \in Nat BY EnvFacts
<1> QED BY <1>1, EnvsKept DEF Added

LEMMA BlockMade ==
  ASSUME EnvsOK, EnvsOK', Len(decl) <= Len(decl'), NEW k \in Kinds, NEW e \in 1 .. Len(env'),
         NEW l \in Lex, LexIn(decl', l)
  PROVE  /\ BlockIn(env', decl', Block(k, e, l))
         /\ Block(k, e, l).kind = k /\ Block(k, e, l).env = e /\ Block(k, e, l).lex = l
         /\ ~Block(k, e, l).label.passed /\ Block(k, e, l).start = Len(decl)
<1>1. Len(env') \in Nat /\ Len(decl') \in Nat /\ Len(decl) \in 1 .. Len(decl')
  BY EnvFacts DEF EnvsOK
<1>2. Label(FALSE, l) = [passed |-> FALSE, at |-> Len(decl), lex |-> l] BY DEF Label
<1>3. Block(k, e, l) = [kind |-> k, env |-> e, lex |-> l, start |-> Len(decl),
                        label |-> [passed |-> FALSE, at |-> Len(decl), lex |-> l]]
  BY <1>2 DEF Block
<1>4. Block(k, e, l) \in BlockType BY <1>1, <1>3 DEF BlockType
<1> QED BY <1>1, <1>3, <1>4 DEF BlockIn

(* A new environment for a new block: do, repeat, a function called.        *)
LEMMA FreshBlock ==
  ASSUME StateOK, StepTaken, Running, NEW p \in 1 .. Len(env), NEW t \in Tables, NEW b \in 1 .. Forever,
         env' = Append(env, Environment(p, t, b)), UNCHANGED <<decl, closures>>, Calm,
         NEW m \in 1 .. Len(stack), StackKept(m), Len(stack') = m + 1, Since(m) = Forever,
         NEW k \in Kinds, k # "while", NEW l \in Lex, LexIn(decl, l), l["_ENV"] # 0,
         stack'[m + 1] = Block(k, Len(env'), l), FollowsIn(decl, t, l),
         \A x \in Names : SeesIn(env, decl, p, l, Forever, x) \/ FoundIn(env, p, x) > b
  PROVE  StateOK'
<1> DEFINE e == Environment(p, t, b)
<1>1. EnvsOK /\ DeclsMore /\ World(env, decl) BY DeclsSame, EnvsAsWorld DEF StateOK
<1>2. /\ e \in EnvironmentType /\ EnvIn(decl', e, Len(env) + 1)
      /\ e.parent = p /\ e.env_table = t /\ e.born = b /\ \A x \in Names : e.vars[x] = 0
  BY <1>1, InnerOK
<1> HIDE DEF e
<1>3. /\ EnvsOK' /\ Grown(decl, decl') /\ Added(env, env') /\ Len(env') = Len(env) + 1
      /\ env'[Len(env')] = e /\ \A i \in 1 .. Len(env) : env'[i] = env[i]
  BY <1>1, <1>2, EnvAdded DEF e
<1>4. World(env', decl') BY <1>3, EnvsAsWorldNext
<1>5. Len(env') \in 1 .. Len(env') /\ Len(decl) <= Len(decl') /\ LexIn(decl', l) /\ p # 0
  BY <1>1, <1>3, EnvFacts
<1>6. GoodIn(env', decl', Len(env'), l, Forever)
  <2>1. env'[Len(env')].parent = p /\ env'[Len(env')].env_table = t /\ env'[Len(env')].born = b
        /\ \A x \in Names : env'[Len(env')].vars[x] = 0
    BY <1>2, <1>3
  <2>2. FollowsIn(decl', env'[Len(env')].env_table, l) BY <2>1
  <2>3. \A x \in Names :
            IF env'[Len(env')].vars[x] # 0 THEN l[x] = env'[Len(env')].vars[x]
            ELSE \/ SeesIn(env, decl, env'[Len(env')].parent, l, Forever, x)
                 \/ FoundIn(env, env'[Len(env')].parent, x) > env'[Len(env')].born
    BY <2>1
  <2>4. env'[Len(env')].parent # 0 BY <1>5, <2>1
  <2> QED BY <1>1, <1>3, <1>4, <2>2, <2>3, <2>4, GoodNew
<1> DEFINE f == Block(k, Len(env'), l)
<1>7. BlockIn(env', decl', f) /\ f.kind = k /\ f.env = Len(env) + 1 /\ f.lex = l /\ ~f.label.passed
  BY <1>1, <1>3, <1>5, BlockMade
<1>8. BlockGoodIn(env', decl', f, Forever) BY <1>3, <1>6, <1>7 DEF BlockGoodIn
<1> HIDE DEF f
<1>9. Fits(m, f) /\ FitsEnv(m, f) BY <1>7, FreshTop DEF StateOK
<1>10. Settled(m) BY <1>8, <1>9 DEF Settled, f
<1>11. Since(m)' = Forever
  <2>1. Since(m)' = IF stack'[m + 1].kind = "while" THEN stack'[m + 1].start ELSE Forever
    BY SinceKept DEF StateOK
  <2> QED BY <1>7, <2>1 DEF f
<1>12. \A i \in 1 .. Len(env) : env'[i].env_table = env[i].env_table BY <1>3
<1>13. Since(m)' <= Since(m) BY <1>11, ForeverFact
<1> QED BY <1>3, <1>10, <1>12, <1>13, StepAdded, CalmControl DEF Running

LEMMA BlockTyped ==
  ASSUME EnvsOK, NEW k \in Kinds, NEW e \in Nat, NEW l \in Lex
  PROVE  Block(k, e, l) \in BlockType
BY EnvFacts DEF Block, Label, BlockType

LEMMA KindFacts == {"do", "repeat", "function", "while", "for", "chunk"} \subseteq Kinds BY DEF Kinds, Loops

LEMMA SinceTop ==
  ASSUME StateOK, stack # <<>>, Top.kind # "while", Len(stack) > 1
  PROVE  Since(Len(stack) - 1) = Forever /\ Since(Len(stack)) = Forever
<1>1. PICK k \in Nat : Len(stack) = k + 1 /\ Len(stack) - 1 = k BY OneLess DEF StateOK
<1>2. k < Len(stack) BY <1>1
<1> QED BY <1>1, <1>2, TopFacts DEF Since

LEMMA LoopsAreInside ==
  ASSUME StateOK, stack # <<>>, Top.kind # "chunk"
  PROVE  Len(stack) > 1
<1>1. stack[1].kind = "chunk" BY DEF StateOK, StackNests
<1>2. Len(stack) # 1 BY <1>1, TopFacts
<1>3. PICK k \in Nat : Len(stack) = k + 1 /\ Len(stack) - 1 = k BY OneLess DEF StateOK
<1> QED BY <1>2, <1>3

(* What the block around the innermost one sees. *)
LEMMA OuterFacts ==
  ASSUME StateOK, stack # <<>>, Len(stack) > 1
  PROVE  /\ Len(stack) - 1 \in 1 .. Len(stack) /\ Outer = stack[Len(stack) - 1]
         /\ Outer \in BlockType /\ BlockIn(env, decl, Outer) /\ Outer.env \in 1 .. Len(env)
         /\ Outer.lex \in Lex /\ LexIn(decl, Outer.lex) /\ Outer.lex["_ENV"] \in 1 .. Len(decl)
         /\ BlockGoodIn(env, decl, Outer, Since(Len(stack) - 1))
         /\ Top.kind = "while" <=> Outer.env = Top.env
         /\ Top.kind = "while" => Since(Len(stack) - 1) = Top.start
         /\ Top.kind # "while" => FollowsIn(decl, env[Outer.env].env_table, Outer.lex)
<1>1. PICK k \in Nat : Len(stack) = k + 1 /\ Len(stack) - 1 = k BY OneLess DEF StateOK
<1>2. k \in 1 .. Len(stack) /\ DOMAIN stack = 1 .. Len(stack) /\ k \in 1 .. Len(stack) - 1
  BY <1>1, StackFacts DEF StateOK
<1>3. Outer = stack[k] /\ Top = stack[k + 1] BY <1>1 DEF Outer, Top
<1>4. Outer \in BlockType /\ BlockIn(env, decl, Outer) BY <1>2, <1>3, StackFacts DEF StateOK
<1>5. Outer.env \in 1 .. Len(env) /\ Outer.lex \in Lex /\ LexIn(decl, Outer.lex)
  BY <1>4 DEF BlockIn, BlockType
<1>6. BlockGoodIn(env, decl, Outer, Since(k)) BY <1>2, <1>3 DEF StateOK
<1>7. Top.kind = "while" <=> Outer.env = Top.env BY <1>2, <1>3 DEF StateOK, StackNests
<1>8. Top.kind = "while" => Since(k) = Top.start BY <1>1, <1>3 DEF Since
<1>9. Outer.lex["_ENV"] \in 1 .. Len(decl)
  BY <1>5, <1>6, EnvFacts, NamesFact DEF LexIn, BlockGoodIn, GoodIn, StateOK
<1>10. ASSUME Top.kind # "while" PROVE FollowsIn(decl, env[Outer.env].env_table, Outer.lex)
  <2>1. Since(k) = Forever BY <1>1, <1>10, SinceTop
  <2>2. ~(env[Outer.env].vars["_ENV"] > Forever)
    <3>1. World(env, decl) BY EnvsAsWorld DEF StateOK
    <3> QED BY <1>5, <3>1, NamesFact, ForeverFact DEF World, LexIn
  <2> QED BY <1>6, <2>1, <2>2 DEF BlockGoodIn, GoodIn
<1> QED BY <1>1, <1>2, <1>3, <1>4, <1>5, <1>6, <1>7, <1>8, <1>9, <1>10

LEMMA OpenBlockKeeps ==
  ASSUME StateOK, StepTaken, NEW k \in {"do", "repeat"}, OpenBlock(k)
  PROVE  StateOK'
<1>1. /\ Running /\ env' = Append(env, Environment(Top.env, Env.env_table, Forever))
      /\ stack' = Append(stack, Block(k, Len(env'), Top.lex))
      /\ UNCHANGED <<decl, closures>> /\ Calm
  BY DEF OpenBlock, Inner
<1>2. stack # <<>> /\ EnvsOK /\ BlocksOK BY <1>1 DEF Running, StateOK
<1> DEFINE n == Len(stack)
<1>3. /\ n \in Nat /\ n \in 1 .. n /\ Top.env \in 1 .. Len(env)
      /\ Top.lex \in Lex /\ LexIn(decl, Top.lex) /\ Top.lex["_ENV"] \in 1 .. Len(decl)
      /\ BlockGoodIn(env, decl, Top, Forever)
      /\ Env.env_table \in Tables /\ FollowsIn(decl, Env.env_table, Top.lex)
  BY <1>2, TopFacts
<1>4. Len(env') \in Nat
  <2>1. env \in Seq(EnvironmentType) /\ Len(env) \in Nat BY <1>2 DEF EnvsOK
  <2>2. Forever \in 1 .. Forever BY ForeverFact, ScopeBounds DEF Forever
  <2>3. Environment(Top.env, Env.env_table, Forever) \in EnvironmentType
    BY <1>2, <1>3, <2>2, InnerOK
  <2> QED BY <1>1, <2>1, <2>3, AppendProperties
<1>5. k \in Kinds /\ k # "while" BY KindFacts
<1>6. StackKept(n) /\ Len(stack') = n + 1 /\ stack'[n + 1] = Block(k, Len(env'), Top.lex)
  BY <1>1, <1>2, <1>3, <1>4, <1>5, BlockTyped, Pushed
<1>7. Since(n) = Forever BY <1>2, SinceFacts
<1>8. \A x \in Names : SeesIn(env, decl, Top.env, Top.lex, Forever, x)
  BY <1>3 DEF BlockGoodIn, GoodIn
<1>9. Forever \in 1 .. Forever BY ForeverFact, ScopeBounds DEF Forever
<1>10. Top.lex["_ENV"] # 0 BY <1>3
<1> QED BY <1>1, <1>3, <1>5, <1>6, <1>7, <1>8, <1>9, <1>10, FreshBlock

LEMMA RepeatAgainKeeps ==
  ASSUME StateOK, StepTaken, RepeatAgain
  PROVE  StateOK'
<1>1. /\ Running /\ Top.kind = "repeat"
      /\ env' = Append(env, Environment(Outer.env, env[Outer.env].env_table, Forever))
      /\ stack' = Append(Pop, Block("repeat", Len(env'), Outer.lex))
      /\ UNCHANGED <<decl, closures>> /\ Calm
  BY DEF RepeatAgain
<1>2. stack # <<>> /\ EnvsOK /\ BlocksOK /\ Len(stack) > 1
  BY <1>1, LoopsAreInside DEF Running, StateOK
<1>3. PICK n \in Nat : Len(stack) = n + 1 /\ Len(stack) - 1 = n BY <1>2, OneLess
<1>4. Since(n) = Forever BY <1>1, <1>2, <1>3, SinceTop
<1>5. /\ n \in 1 .. Len(stack) /\ Outer.env \in 1 .. Len(env)
      /\ Outer.lex \in Lex /\ LexIn(decl, Outer.lex) /\ Outer.lex["_ENV"] \in 1 .. Len(decl)
      /\ BlockGoodIn(env, decl, Outer, Forever)
      /\ FollowsIn(decl, env[Outer.env].env_table, Outer.lex)
  BY <1>1, <1>2, <1>3, <1>4, OuterFacts
<1>6. env[Outer.env].env_table \in Tables BY <1>2, <1>5, EnvFacts DEF EnvironmentType
<1>7. Forever \in 1 .. Forever BY ForeverFact, ScopeBounds DEF Forever
<1>8. Len(env') \in Nat
  <2>1. env \in Seq(EnvironmentType) /\ Len(env) \in Nat BY <1>2 DEF EnvsOK
  <2>2. Environment(Outer.env, env[Outer.env].env_table, Forever) \in EnvironmentType
    BY <1>2, <1>5, <1>6, <1>7, InnerOK
  <2> QED BY <1>1, <2>1, <2>2, AppendProperties
<1>9. "repeat" \in Kinds BY KindFacts
<1>10. StackKept(n) /\ Len(stack') = n + 1 /\ stack'[n + 1] = Block("repeat", Len(env'), Outer.lex)
  BY <1>1, <1>2, <1>3, <1>5, <1>8, <1>9, BlockTyped, Swapped
<1>11. \A x \in Names : SeesIn(env, decl, Outer.env, Outer.lex, Forever, x)
  BY <1>5 DEF BlockGoodIn, GoodIn
<1>12. Outer.lex["_ENV"] # 0 BY <1>5
<1> QED BY <1>1, <1>4, <1>5, <1>6, <1>7, <1>9, <1>10, <1>11, <1>12, FreshBlock

(* The body of a for loop with variable x or of a function with parameter x,*)
(* in place of what stands on the m outermost blocks.                       *)
LEMMA FreshVariable ==
  ASSUME StateOK, StepTaken, Running, NEW p \in 1 .. Len(env), NEW t \in Tables,
         NEW b \in 1 .. Forever, NEW x \in Names, NEW l \in Lex, LexIn(decl, l),
         env' = Append(env, VariableEnvironment(p, t, b, x)),
         decl' = Append(decl, Declaration(x, FALSE, NoTable, l)), UNCHANGED closures, Calm,
         NEW m \in 1 .. Len(stack), StackKept(m), Len(stack') = m + 1, Since(m) = Forever,
         l["_ENV"] \in 1 .. Len(decl), FollowsIn(decl, t, l),
         NEW f, f = stack'[m + 1], f.kind # "while", f.env = Len(env) + 1, f.lex = LexWith(l, x),
         ~f.label.passed, DeclsMore => BlockIn(env', decl', f),
         \A y \in Names : SeesIn(env, decl, p, l, Forever, y) \/ FoundIn(env, p, y) > b
  PROVE  StateOK'
<1>0. EnvsOK /\ BlocksOK /\ World(env, decl) BY EnvsAsWorld DEF StateOK
<1>1. /\ DeclsMore /\ Len(decl') = Id /\ decl'[Id] = Declaration(x, FALSE, NoTable, l)
      /\ Id \in 1 .. Len(decl') /\ Id \in Nat /\ Id > Len(decl) /\ Grown(decl, decl')
  BY <1>0, DeclAdded DEF Tables, DeclsMore
<1>2. /\ EnvsOK' /\ Added(env, env') /\ Len(env') = Len(env) + 1
      /\ \A i \in 1 .. Len(env) : env'[i] = env[i]
  BY <1>0, VariableAdded
<1>3. /\ env'[Len(env')].parent = p /\ env'[Len(env')].env_table = t /\ env'[Len(env')].born = b
      /\ OnlyVariable(env'[Len(env')].vars, x)
  BY <1>0, VariableAdded
<1>4. World(env', decl') BY <1>2, EnvsAsWorldNext
<1>5. \A y \in Names : f.lex[y] = IF y = x THEN Id ELSE l[y] BY DEF Lex, LexWith
<1>6. p # 0 /\ Id # 0 /\ Len(decl) \in Nat /\ Len(decl') \in Nat BY <1>0, <1>1, EnvFacts
<1>7. GoodIn(env', decl', Len(env'), f.lex, Forever)
  <2>2. f.lex["_ENV"] # 0 BY <1>5, <1>6, NamesFact
  <2>3. FollowsIn(decl', t, f.lex)
    <3>1. FollowsIn(decl', IF x = "_ENV" /\ NoTable # NoTable THEN NoTable ELSE t, LexWith(l, x))
      BY <1>0, FollowsDeclared DEF Tables
    <3> QED BY <3>1
  <2>4. ASSUME NEW y \in Names
        PROVE  IF env'[Len(env')].vars[y] # 0 THEN f.lex[y] = env'[Len(env')].vars[y]
               ELSE SeesIn(env, decl, p, f.lex, Forever, y) \/ FoundIn(env, p, y) > b
    <3>1. CASE y = x BY <1>3, <1>5, <1>6, <3>1 DEF OnlyVariable
    <3>2. CASE y # x
      <4>1. f.lex[y] = l[y] /\ env'[Len(env')].vars[y] = 0 BY <1>3, <1>5, <3>2 DEF OnlyVariable
      <4>2. SeesIn(env, decl, p, l, Forever, y) \/ FoundIn(env, p, y) > b OBVIOUS
      <4> QED BY <4>1, <4>2 DEF SeesIn
    <3> QED BY <3>1, <3>2
  <2>5. env'[Len(env')].parent # 0 /\ FollowsIn(decl', env'[Len(env')].env_table, f.lex)
    BY <1>3, <1>6, <2>3
  <2>6. \A y \in Names :
          IF env'[Len(env')].vars[y] # 0 THEN f.lex[y] = env'[Len(env')].vars[y]
          ELSE \/ SeesIn(env, decl, env'[Len(env')].parent, f.lex, Forever, y)
               \/ FoundIn(env, env'[Len(env')].parent, y) > env'[Len(env')].born
    BY <1>3, <2>4
  <2> QED BY <1>0, <1>1, <1>2, <1>4, <2>2, <2>5, <2>6, GoodNew
<1>8. BlockIn(env', decl', f) BY <1>1
<1>9. BlockGoodIn(env', decl', f, Forever) BY <1>2, <1>7 DEF BlockGoodIn
<1>10. Fits(m, f) /\ FitsEnv(m, f) BY <1>0, <1>8, FreshTop
<1>11. Settled(m) BY <1>9, <1>10 DEF Settled
<1>12. Since(m)' = Forever
  <2>1. Since(m)' = IF f.kind = "while" THEN f.start ELSE Forever BY <1>0, SinceKept
  <2> QED BY <2>1
<1>13. \A i \in 1 .. Len(env) : env'[i].env_table = env[i].env_table BY <1>2
<1>14. Since(m)' <= Since(m) BY <1>12, ForeverFact
<1> QED BY <1>1, <1>2, <1>11, <1>13, <1>14, StepAdded, CalmControl DEF Running

LEMMA CallPlainKeeps ==
  ASSUME StateOK, StepTaken, NEW c \in closures, CallClosure(c, NoName)
  PROVE  StateOK'
<1>1. /\ Running /\ env' = Append(env, Environment(c.env, c.env_table, c.born))
      /\ stack' = Append(stack, Block("function", Len(env'), c.lex))
      /\ UNCHANGED <<decl, closures>> /\ Calm
  BY DEF CallClosure, FrameParent
<1>2. stack # <<>> /\ EnvsOK /\ BlocksOK BY <1>1 DEF Running, StateOK
<1> DEFINE n == Len(stack)
<1>3. ClosureIn(env, decl, c) /\ ClosureGoodIn(env, decl, c) BY DEF StateOK, ClosuresOK
<1>4. /\ c.env \in 1 .. Len(env) /\ c.env_table \in Tables /\ c.lex \in Lex /\ LexIn(decl, c.lex)
      /\ c.born \in 1 .. Len(decl)
  BY <1>3 DEF ClosureIn, ClosureType
<1>5. c.born \in 1 .. Forever /\ c.born \in Nat BY <1>2, <1>4, EnvFacts, ForeverFact
<1>6. /\ c.lex["_ENV"] # 0 /\ FollowsIn(decl, c.env_table, c.lex)
      /\ \A x \in Names : SeesIn(env, decl, c.env, c.lex, Forever, x) \/ FoundIn(env, c.env, x) > c.born
  BY <1>3 DEF ClosureGoodIn
<1>7. Len(env') \in Nat
  <2>1. env \in Seq(EnvironmentType) /\ Len(env) \in Nat BY <1>2 DEF EnvsOK
  <2>2. Environment(c.env, c.env_table, c.born) \in EnvironmentType BY <1>2, <1>4, <1>5, InnerOK
  <2> QED BY <1>1, <2>1, <2>2, AppendProperties
<1>8. "function" \in Kinds BY KindFacts
<1>9. n \in Nat /\ n \in 1 .. n BY <1>2, TopFacts
<1>10. StackKept(n) /\ Len(stack') = n + 1 /\ stack'[n + 1] = Block("function", Len(env'), c.lex)
  BY <1>1, <1>2, <1>4, <1>7, <1>8, <1>9, BlockTyped, Pushed
<1>11. Since(n) = Forever BY <1>2, SinceFacts
<1> QED BY <1>1, <1>4, <1>5, <1>6, <1>8, <1>9, <1>10, <1>11, FreshBlock

LEMMA CallBindingKeeps ==
  ASSUME StateOK, StepTaken, NEW c \in closures, NEW x \in Names, CallClosure(c, x)
  PROVE  StateOK'
<1> DEFINE e == VariableEnvironment(c.env, c.env_table, c.born, x)
           n == Len(stack)
           m == LexWith(c.lex, x)
           f == Block("function", Len(env'), m)
<1>0. x # NoName BY NoNameIsNone DEF Names
<1>1. /\ Running /\ env' = Append(env, e) /\ stack' = Append(stack, f)
      /\ decl' = Append(decl, Declaration(x, FALSE, NoTable, c.lex)) /\ UNCHANGED closures /\ Calm
  BY <1>0 DEF CallClosure, FrameParent, VariableEnvironment, LexWith
<1>2. stack # <<>> /\ EnvsOK /\ BlocksOK BY <1>1 DEF Running, StateOK
<1>3. ClosureIn(env, decl, c) /\ ClosureGoodIn(env, decl, c) BY DEF StateOK, ClosuresOK
<1>4. /\ c.env \in 1 .. Len(env) /\ c.env_table \in Tables /\ c.lex \in Lex /\ LexIn(decl, c.lex)
      /\ c.born \in 1 .. Len(decl)
  BY <1>3 DEF ClosureIn, ClosureType
<1>5. c.born \in 1 .. Forever BY <1>2, <1>4, EnvFacts, ForeverFact
<1>6. /\ c.lex["_ENV"] # 0 /\ FollowsIn(decl, c.env_table, c.lex)
      /\ \A y \in Names : SeesIn(env, decl, c.env, c.lex, Forever, y) \/ FoundIn(env, c.env, y) > c.born
  BY <1>3 DEF ClosureGoodIn
<1>7. c.lex["_ENV"] \in 1 .. Len(decl) BY <1>2, <1>4, <1>6, EnvFacts, NamesFact DEF LexIn
<1>8. DeclsMore /\ Len(decl') = Id /\ Id \in Nat /\ Id > Len(decl)
  BY <1>1, <1>2, <1>7, DeclAdded DEF Tables
<1>9. /\ e \in EnvironmentType /\ EnvsOK'
  <2>1. VariableMade(e, c.env, c.env_table, c.born, x) BY <1>1, <1>2, <1>4, <1>5, <1>7, VariableOK
  <2>2. EnvsOK' BY <1>1, <1>2, <1>4, <1>5, <1>7, VariableAdded
  <2> QED BY <2>1, <2>2 DEF VariableMade
<1> HIDE DEF e
<1>10. Len(env') = Len(env) + 1 /\ Len(env') \in Nat /\ Len(env') \in 1 .. Len(env')
  <2>1. env \in Seq(EnvironmentType) /\ Len(env) \in Nat BY <1>2 DEF EnvsOK
  <2> QED BY <1>1, <1>9, <2>1, AppendProperties
<1>11. m \in Lex /\ LexIn(decl', m)
  <2>1. m \in Lex /\ \A y \in Names : m[y] = IF y = x THEN Id ELSE c.lex[y]
    BY <1>4, <1>8 DEF Lex, LexWith
  <2>2. Len(decl) \in Nat BY <1>2, EnvFacts
  <2> QED BY <1>4, <1>8, <2>1, <2>2 DEF LexIn
<1> HIDE DEF m
<1>12. "function" \in Kinds /\ "function" # "while" BY KindFacts
<1>13. /\ BlockIn(env', decl', f) /\ f.kind = "function" /\ f.env = Len(env') /\ f.lex = m
       /\ ~f.label.passed
  <2>1. Len(decl) <= Len(decl') BY <1>2, <1>8, EnvFacts
  <2> QED BY <1>2, <1>9, <1>10, <1>11, <1>12, <2>1, BlockMade
<1>14. f \in BlockType BY <1>13 DEF BlockIn
<1> HIDE DEF f
<1>15. n \in Nat /\ n \in 1 .. n BY <1>2, TopFacts
<1>16. StackKept(n) /\ Len(stack') = n + 1 /\ stack'[n + 1] = f BY <1>1, <1>2, <1>14, <1>15, Pushed
<1>17. Since(n) = Forever BY <1>2, SinceFacts
<1>18. e = VariableEnvironment(c.env, c.env_table, c.born, x) /\ m = LexWith(c.lex, x) BY DEF e, m
<1> QED BY <1>1, <1>4, <1>5, <1>6, <1>7, <1>10, <1>12, <1>13, <1>15, <1>16, <1>17, <1>18, FreshVariable

LEMMA CallClosureKeeps ==
  ASSUME StateOK, StepTaken, NEW c \in closures, NEW p \in Names \cup {NoName}, CallClosure(c, p)
  PROVE  StateOK'
BY CallPlainKeeps, CallBindingKeeps

(* The block that OpenFor and ForAgain push. *)
LoopBlock(e, l, x) == [Block("for", e, LexWith(l, x)) EXCEPT !.start = Id]

LEMMA LoopBlockMade ==
  ASSUME EnvsOK, NEW e \in 1 .. Len(env'), Len(env') \in Nat, NEW l \in Lex, LexIn(decl, l), NEW x \in Names,
         Len(decl') = Id, Id \in Nat, Id > Len(decl)
  PROVE  /\ LoopBlock(e, l, x) \in BlockType /\ BlockIn(env', decl', LoopBlock(e, l, x))
         /\ LoopBlock(e, l, x).kind = "for" /\ LoopBlock(e, l, x).env = e
         /\ LoopBlock(e, l, x).lex = LexWith(l, x) /\ ~LoopBlock(e, l, x).label.passed
<1> DEFINE m == LexWith(l, x)
<1>1. m \in Lex /\ \A y \in Names : m[y] = IF y = x THEN Id ELSE l[y] BY DEF Lex, LexWith
<1>2. Len(decl) \in Nat /\ Len(decl) > 0 BY EnvFacts
<1>3. LexIn(decl', m) BY <1>1, <1>2 DEF LexIn
<1> HIDE DEF m
<1>4. "for" \in Kinds BY KindFacts
<1>5. LoopBlock(e, l, x) = [kind |-> "for", env |-> e, lex |-> m, start |-> Id,
                            label |-> [passed |-> FALSE, at |-> Len(decl), lex |-> m]]
  <2> DEFINE c == [passed |-> FALSE, at |-> Len(decl), lex |-> m]
  <2>1. Block("for", e, m) = [kind |-> "for", env |-> e, lex |-> m, start |-> Len(decl), label |-> c]
    BY DEF Block, Label
  <2> HIDE DEF c
  <2>2. LoopBlock(e, l, x) = [kind |-> "for", env |-> e, lex |-> m, start |-> Id, label |-> c]
    BY <2>1 DEF LoopBlock, m
  <2> QED BY <2>2 DEF c
<1>6. LoopBlock(e, l, x) \in BlockType
  <2>1. [passed |-> FALSE, at |-> Len(decl), lex |-> m] \in [passed : BOOLEAN, at : Nat, lex : Lex]
    BY <1>1, <1>2
  <2> QED BY <1>1, <1>4, <1>5, <2>1 DEF BlockType
<1>7. BlockIn(env', decl', LoopBlock(e, l, x))
  <2>1. Len(decl) \in 1 .. Len(decl') /\ Id \in 1 .. Len(decl') BY <1>2
  <2> QED BY <1>3, <1>5, <1>6, <2>1 DEF BlockIn
<1> QED BY <1>5, <1>6, <1>7 DEF m

LEMMA OpenForKeeps ==
  ASSUME StateOK, StepTaken, NEW x \in Names, OpenFor(x)
  PROVE  StateOK'
<1> DEFINE e == VariableEnvironment(Top.env, Env.env_table, Forever, x)
           n == Len(stack)
           f == LoopBlock(Len(env'), Top.lex, x)
<1>1. /\ Running /\ env' = Append(env, e) /\ stack' = Append(stack, f)
      /\ decl' = Append(decl, Declaration(x, FALSE, NoTable, Top.lex)) /\ UNCHANGED closures /\ Calm
  BY DEF OpenFor, Inner, LoopBlock, VariableEnvironment, LexWith
<1>2. stack # <<>> /\ EnvsOK /\ BlocksOK BY <1>1 DEF Running, StateOK
<1>3. /\ n \in Nat /\ n \in 1 .. n /\ Top.env \in 1 .. Len(env)
      /\ Top.lex \in Lex /\ LexIn(decl, Top.lex) /\ Top.lex["_ENV"] \in 1 .. Len(decl)
      /\ BlockGoodIn(env, decl, Top, Forever)
      /\ Env.env_table \in Tables /\ FollowsIn(decl, Env.env_table, Top.lex)
  BY <1>2, TopFacts
<1>0. Forever \in 1 .. Forever BY ForeverFact, ScopeBounds DEF Forever
<1>4. DeclsMore /\ Len(decl') = Id /\ Id \in Nat /\ Id > Len(decl) 
  BY <1>1, <1>2, <1>3, DeclAdded DEF Tables
<1>5. e \in EnvironmentType
  <2>1. VariableMade(e, Top.env, Env.env_table, Forever, x) BY <1>0, <1>1, <1>2, <1>3, VariableOK
  <2> QED BY <2>1 DEF VariableMade
<1> HIDE DEF e
<1>6. Len(env') = Len(env) + 1 /\ Len(env') \in Nat /\ Len(env') \in 1 .. Len(env')
  <2>1. env \in Seq(EnvironmentType) /\ Len(env) \in Nat BY <1>2 DEF EnvsOK
  <2> QED BY <1>1, <1>5, <2>1, AppendProperties
<1>7. /\ f \in BlockType /\ BlockIn(env', decl', f) /\ f.kind = "for" /\ f.env = Len(env')
      /\ f.lex = LexWith(Top.lex, x) /\ ~f.label.passed
  BY <1>2, <1>3, <1>4, <1>6, LoopBlockMade
<1> HIDE DEF f
<1>8. StackKept(n) /\ Len(stack') = n + 1 /\ stack'[n + 1] = f BY <1>1, <1>2, <1>7, Pushed
<1>9. Since(n) = Forever BY <1>2, SinceFacts
<1>10. \A y \in Names : SeesIn(env, decl, Top.env, Top.lex, Forever, y)
  BY <1>3 DEF BlockGoodIn, GoodIn
<1>11. e = VariableEnvironment(Top.env, Env.env_table, Forever, x) BY DEF e
<1> QED BY <1>0, <1>1, <1>3, <1>6, <1>7, <1>8, <1>9, <1>10, <1>11, FreshVariable

LEMMA ForAgainKeeps ==
  ASSUME StateOK, StepTaken, NEW x \in Names, ForAgain(x)
  PROVE  StateOK'
<1> DEFINE t == env[Outer.env].env_table
           e == VariableEnvironment(Outer.env, t, Forever, x)
           f == LoopBlock(Len(env'), Outer.lex, x)
<1>1. /\ Running /\ Top.kind = "for" /\ env' = Append(env, e) /\ stack' = Append(Pop, f)
      /\ decl' = Append(decl, Declaration(x, FALSE, NoTable, Outer.lex)) /\ UNCHANGED closures /\ Calm
  BY DEF ForAgain, LoopBlock, VariableEnvironment, LexWith
<1>2. stack # <<>> /\ EnvsOK /\ BlocksOK /\ Len(stack) > 1
  BY <1>1, LoopsAreInside DEF Running, StateOK
<1>3. PICK n \in Nat : Len(stack) = n + 1 /\ Len(stack) - 1 = n BY <1>2, OneLess
<1>4. Since(n) = Forever BY <1>1, <1>2, <1>3, SinceTop
<1>5. /\ n \in 1 .. Len(stack) /\ Outer.env \in 1 .. Len(env)
      /\ Outer.lex \in Lex /\ LexIn(decl, Outer.lex) /\ Outer.lex["_ENV"] \in 1 .. Len(decl)
      /\ BlockGoodIn(env, decl, Outer, Forever) /\ FollowsIn(decl, t, Outer.lex)
  BY <1>1, <1>2, <1>3, <1>4, OuterFacts
<1>6. t \in Tables BY <1>2, <1>5, EnvFacts DEF EnvironmentType
<1> HIDE DEF t
<1>0. Forever \in 1 .. Forever BY ForeverFact, ScopeBounds DEF Forever
<1>7. DeclsMore /\ Len(decl') = Id /\ Id \in Nat /\ Id > Len(decl) 
  BY <1>1, <1>2, <1>5, DeclAdded DEF Tables
<1>8. e \in EnvironmentType
  <2>1. VariableMade(e, Outer.env, t, Forever, x) BY <1>0, <1>1, <1>2, <1>5, <1>6, VariableOK
  <2> QED BY <2>1 DEF VariableMade
<1> HIDE DEF e
<1>9. Len(env') = Len(env) + 1 /\ Len(env') \in Nat /\ Len(env') \in 1 .. Len(env')
  <2>1. env \in Seq(EnvironmentType) /\ Len(env) \in Nat BY <1>2 DEF EnvsOK
  <2> QED BY <1>1, <1>8, <2>1, AppendProperties
<1>10. /\ f \in BlockType /\ BlockIn(env', decl', f) /\ f.kind = "for" /\ f.env = Len(env')
       /\ f.lex = LexWith(Outer.lex, x) /\ ~f.label.passed
  BY <1>2, <1>5, <1>7, <1>9, LoopBlockMade
<1> HIDE DEF f
<1>11. StackKept(n) /\ Len(stack') = n + 1 /\ stack'[n + 1] = f BY <1>1, <1>2, <1>3, <1>10, Swapped
<1>12. \A y \in Names : SeesIn(env, decl, Outer.env, Outer.lex, Forever, y)
  BY <1>5 DEF BlockGoodIn, GoodIn
<1>13. e = VariableEnvironment(Outer.env, t, Forever, x) BY DEF e
<1> QED BY <1>0, <1>1, <1>4, <1>5, <1>6, <1>9, <1>10, <1>11, <1>12, <1>13, FreshVariable

(* The body of a while, on the block with the same environment.             *)
LEMMA WhileFits ==
  ASSUME StateOK, EnvsOK', NoEnvLost, NEW k \in 1 .. Len(stack), StackKept(k),
         NEW b, BlockIn(env', decl', b), b.kind = "while", b.env = stack[k].env, b.lex = stack[k].lex,
         ~b.label.passed
  PROVE  Fits(k, b) /\ FitsEnv(k, b)
<1>1. k \in Nat /\ k > 0 /\ k \in 1 .. k BY StackFacts DEF StateOK
<1>2. Lexes(b) = {stack[k].lex} /\ stack[k].lex \in Lexes(stack[k]) BY DEF Lexes
<1>3. ASSUME NEW i \in 1 .. k, stack[i].env = b.env, NEW l \in Lexes(b)
      PROVE  SharedIn(env', stack[i], Since(i)', l) /\ LabelShared(env', stack[i], l)
  <2>1. l = stack[k].lex /\ l \in Lexes(stack[k]) BY <1>2
  <2>2. /\ i < k => SharedIn(env', stack[i], Since(i)', l)
        /\ i <= k => LabelShared(env', stack[i], l)
    BY <1>1, <1>3, <2>1, SharedKept DEF StateOK
  <2>3. i = k => SharedIn(env', stack[i], Since(i)', l) BY <2>1 DEF SharedIn, SameEnvIn
  <2>4. i <= k /\ (i < k \/ i = k) BY <1>1
  <2> QED BY <2>2, <2>3, <2>4
<1>4. \A l \in Lexes(b) : LabelShared(env', b, l) BY DEF LabelShared
<1>5. Fits(k, b) BY <1>1 DEF Fits
<1> QED BY <1>3, <1>4, <1>5 DEF FitsEnv

LEMMA OpenWhileKeeps ==
  ASSUME StateOK, StepTaken, OpenWhile
  PROVE  StateOK'
<1> DEFINE b == Block("while", Top.env, Top.lex)
<1>1. /\ Running /\ stack' = Append(stack, b) /\ UNCHANGED <<env, closures, decl>> /\ Calm
  BY DEF OpenWhile
<1>2. stack # <<>> /\ EnvsOK /\ BlocksOK BY <1>1 DEF Running, StateOK
<1>n. PICK n \in Nat : n = Len(stack) BY <1>2, TopFacts
<1>3. /\ EnvsOK' /\ Grown(decl, decl') /\ Added(env, env')
      /\ \A e \in 1 .. Len(env) : env'[e].env_table = env[e].env_table
  BY <1>1, <1>2, KeepingEnvs
<1>4. NoEnvLost BY <1>2, <1>3, NoneLost
<1>5. /\ n \in Nat /\ n \in 1 .. n /\ Top.env \in 1 .. Len(env) /\ Top = stack[n]
      /\ Top.lex \in Lex /\ LexIn(decl, Top.lex) /\ BlockGoodIn(env, decl, Top, Forever)
  BY <1>2, <1>n, TopFacts
<1>6. /\ BlockIn(env', decl', b) /\ b.kind = "while" /\ b.env = Top.env /\ b.lex = Top.lex
      /\ ~b.label.passed /\ b.start = Len(decl)
  <2>1. "while" \in Kinds /\ Len(decl) <= Len(decl') BY KindFacts, <1>3 DEF Grown
  <2>2. Top.env \in 1 .. Len(env') /\ LexIn(decl', Top.lex) BY <1>1, <1>5
  <2> QED BY <1>2, <1>3, <1>5, <2>1, <2>2, BlockMade
<1> HIDE DEF b
<1>7. StackKept(n) /\ Len(stack') = n + 1 /\ stack'[n + 1] = b
  BY <1>1, <1>2, <1>n, <1>5, <1>6, Pushed DEF BlockIn
<1>8. Fits(n, b) /\ FitsEnv(n, b) BY <1>n, <1>3, <1>4, <1>5, <1>6, <1>7, WhileFits
<1>9. BlockGoodIn(env', decl', b, Forever)
  <2>1. GoodIn(env, decl, b.env, b.lex, Forever) BY <1>5, <1>6 DEF BlockGoodIn
  <2> QED BY <1>1, <1>6, <2>1 DEF BlockGoodIn
<1>10. Settled(n) BY <1>7, <1>8, <1>9 DEF Settled
<1>11. Since(n)' <= Since(n)
  <2>1. Since(n) = Forever BY <1>2, <1>n, SinceFacts
  <2>2. Since(n)' = IF b.kind = "while" THEN b.start ELSE Forever BY <1>2, <1>7, SinceKept
  <2>3. Len(decl) \in Nat /\ Len(decl) < Forever BY <1>2, EnvFacts
  <2> QED BY <1>6, <2>1, <2>2, <2>3, ForeverFact
<1>12. closures' = closures /\ ControlOK' BY <1>1, CalmControl DEF Running
<1> QED BY <1>3, <1>7, <1>10, <1>11, <1>12, StepAdded

(* The declarations that the end of a while leaves behind. *)
LEMMA LeftKeeps ==
  ASSUME StateOK, StepTaken, stack # <<>>, env' = env, decl' = Left(Top)
  PROVE  /\ EnvsOK' /\ Grown(decl, decl') /\ Added(env, env')
         /\ \A e \in 1 .. Len(env) : env'[e].env_table = env[e].env_table
         /\ Top.kind = "while" =>
              MarkedLeft(env, decl, decl', Top.env, Top.start) /\ Len(decl') = Len(decl)
<1>0. EnvsOK /\ Top.env \in 1 .. Len(env) BY TopFacts DEF StateOK
<1>1. CASE Top.kind = "while"
  <2>1. decl' = OutOfScope(Top, Top.start) BY <1>1 DEF Left
  <2>2. EnvsOK' /\ Grown(decl, decl') /\ MarkedLeft(env, decl, decl', Top.env, Top.start)
    BY <1>0, <2>1, LeftMarks
  <2>3. Len(decl') = Len(decl) BY <2>2 DEF MarkedLeft
  <2>4. Added(env, env') BY <1>0, EnvFacts DEF Added
  <2> QED BY <2>2, <2>3, <2>4
<1>2. CASE Top.kind # "while"
  <2>1. decl' = decl BY <1>2 DEF Left
  <2> QED BY <1>0, <1>2, <2>1, KeepingEnvs
<1> QED BY <1>1, <1>2

(* The block around a while then goes on. *)
LEMMA OuterGoesOn ==
  ASSUME StateOK, StepTaken, stack # <<>>, Len(stack) > 1, Top.kind = "while",
         env' = env, decl' = Left(Top), NEW r \in Nat
  PROVE  BlockGoodIn(env', decl', Outer, r)
<1>1. /\ EnvsOK /\ EnvsOK' /\ Grown(decl, decl') /\ MarkedLeft(env, decl, decl', Top.env, Top.start)
      /\ Added(env, env') /\ \A e \in 1 .. Len(env) : env'[e].env_table = env[e].env_table
  BY LeftKeeps DEF StateOK
<1>2. World(env, decl) /\ World(env, decl') BY <1>1, EnvsAsWorld, EnvsAsWorldNext
<1>3. /\ BlockIn(env, decl, Outer) /\ Outer.env = Top.env /\ Outer.env \in 1 .. Len(env)
      /\ BlockGoodIn(env, decl, Outer, Top.start) /\ LexIn(decl, Outer.lex) /\ Outer \in BlockType
  BY OuterFacts
<1>4. Top.start \in Nat BY TopFacts DEF BlockType
<1>5. GoodIn(env, decl', Outer.env, Outer.lex, r)
  <2>1. GoodIn(env, decl, Outer.env, Outer.lex, Top.start) BY <1>3 DEF BlockGoodIn
  <2>2. MarkedLeft(env, decl, decl', Outer.env, Top.start) BY <1>1, <1>3
  <2> QED BY <1>1, <1>2, <1>3, <1>4, <2>1, <2>2, GoodLeft
<1>6. ASSUME Outer.label.passed PROVE GoodIn(env, decl', Outer.env, Outer.label.lex, Outer.label.at)
  <2>1. GoodIn(env, decl, Outer.env, Outer.label.lex, Outer.label.at) BY <1>3, <1>6 DEF BlockGoodIn
  <2>2. LexIn(decl, Outer.label.lex) /\ Outer.label.at \in Nat /\ Outer.label.at <= Outer.label.at
    BY <1>1, <1>3, EnvFacts DEF BlockIn
  <2>3. Added(env, env) BY <1>1
  <2> QED BY <1>1, <1>2, <1>3, <2>1, <2>2, <2>3, GoodKept
<1> QED BY <1>5, <1>6 DEF BlockGoodIn

LEMMA PopKeeps ==
  ASSUME StateOK, StepTaken, stack # <<>>, stack' = Pop, env' = env, decl' = Left(Top),
         closures' = closures, ControlOK'
  PROVE  StateOK'
<1>1. EnvsOK /\ BlocksOK BY DEF StateOK
<1>2. /\ EnvsOK' /\ Grown(decl, decl') /\ Added(env, env')
      /\ \A e \in 1 .. Len(env) : env'[e].env_table = env[e].env_table
  BY LeftKeeps
<1>3. PICK n \in Nat : Len(stack) = n + 1 /\ Len(stack) - 1 = n BY <1>1, OneLess
<1>4. StackKept(n) /\ Len(stack') = n BY <1>1, <1>3, Popped
<1>5. Settled(n) BY <1>3, <1>4 DEF Settled
<1>6. ASSUME n > 0 PROVE Since(n)' <= Since(n) \/ BlockGoodIn(env', decl', stack[n], Since(n)')
  <2>1. Since(n)' = Forever BY <1>1, <1>4, SinceKept
  <2>2. Len(stack) > 1 BY <1>3, <1>6
  <2>3. CASE Top.kind = "while"
    <3>1. BlockGoodIn(env', decl', Outer, Forever) BY <2>2, <2>3, OuterGoesOn, ForeverFact
    <3>2. Outer = stack[n] BY <1>3 DEF Outer
    <3> QED BY <2>1, <3>1, <3>2
  <2>4. CASE Top.kind # "while"
    <3>1. Since(n) = Forever BY <1>3, <2>2, <2>4, SinceTop
    <3> QED BY <2>1, <3>1, ForeverFact
  <2> QED BY <2>3, <2>4
<1> QED BY <1>2, <1>4, <1>5, <1>6, StepAdded

LEMMA CloseBlockKeeps ==
  ASSUME StateOK, StepTaken, CloseBlock
  PROVE  StateOK'
<1>1. stack # <<>> /\ decl' = Left(Top) BY DEF CloseBlock, Running, Left, Loops
<1>2. ControlOK' BY CalmControl DEF CloseBlock, Running
<1> QED BY <1>1, <1>2, PopKeeps DEF CloseBlock

LEMMA LoopEndsKeeps ==
  ASSUME StateOK, StepTaken, LoopEnds
  PROVE  StateOK'
<1>1. ControlOK' BY CalmControl DEF LoopEnds, Running
<1> QED BY <1>1, PopKeeps DEF LoopEnds, Running

LEMMA WhileAgainKeeps ==
  ASSUME StateOK, StepTaken, WhileAgain
  PROVE  StateOK'
<1> DEFINE b == Block("while", Top.env, Outer.lex)
<1>1. /\ Running /\ Top.kind = "while" /\ stack' = Append(Pop, b) /\ decl' = Left(Top)
      /\ UNCHANGED <<env, closures>> /\ Calm
  BY DEF WhileAgain
<1>2. stack # <<>> /\ EnvsOK /\ BlocksOK /\ Len(stack) > 1
  BY <1>1, LoopsAreInside DEF Running, StateOK
<1>3. /\ EnvsOK' /\ Grown(decl, decl') /\ Added(env, env') /\ Len(decl') = Len(decl)
      /\ \A e \in 1 .. Len(env) : env'[e].env_table = env[e].env_table
  BY <1>1, <1>2, LeftKeeps
<1>4. NoEnvLost BY <1>2, <1>3, NoneLost
<1>5. PICK n \in Nat : Len(stack) = n + 1 /\ Len(stack) - 1 = n BY <1>2, OneLess
<1>6. /\ n \in 1 .. Len(stack) /\ Outer = stack[n] /\ Outer.env = Top.env /\ Outer.env \in 1 .. Len(env)
      /\ Outer.lex \in Lex /\ LexIn(decl, Outer.lex)
  BY <1>1, <1>2, <1>5, OuterFacts
<1>7. /\ BlockIn(env', decl', b) /\ b.kind = "while" /\ b.env = Top.env /\ b.lex = Outer.lex
      /\ ~b.label.passed /\ b.start = Len(decl)
  <2>1. "while" \in Kinds /\ Len(decl) <= Len(decl') BY KindFacts, <1>3 DEF Grown
  <2>2. Top.env \in 1 .. Len(env') /\ LexIn(decl', Outer.lex) BY <1>1, <1>3, <1>6 DEF LexIn
  <2> QED BY <1>2, <1>3, <1>6, <2>1, <2>2, BlockMade
<1> HIDE DEF b
<1>8. StackKept(n) /\ Len(stack') = n + 1 /\ stack'[n + 1] = b
  BY <1>1, <1>2, <1>5, <1>7, Swapped DEF BlockIn
<1>9. Fits(n, b) /\ FitsEnv(n, b) BY <1>3, <1>4, <1>6, <1>7, <1>8, WhileFits
<1>10. Len(decl) \in Nat BY <1>2, EnvFacts
<1>11. \A r \in Nat : BlockGoodIn(env', decl', Outer, r) BY <1>1, <1>2, OuterGoesOn
<1>12. BlockGoodIn(env', decl', b, Forever)
  <2>1. GoodIn(env', decl', Outer.env, Outer.lex, Forever) BY <1>11, ForeverFact DEF BlockGoodIn
  <2> QED BY <1>6, <1>7, <2>1 DEF BlockGoodIn
<1>13. Settled(n) BY <1>8, <1>9, <1>12 DEF Settled
<1>14. BlockGoodIn(env', decl', stack[n], Since(n)')
  <2>1. Since(n)' = IF b.kind = "while" THEN b.start ELSE Forever BY <1>2, <1>8, SinceKept
  <2> QED BY <1>6, <1>7, <1>10, <1>11, <2>1
<1>15. closures' = closures /\ ControlOK' BY <1>1, CalmControl DEF Running
<1> QED BY <1>3, <1>8, <1>13, <1>14, <1>15, StepAdded

(* Steps that leave the stack alone. *)
LEMMA SameStack ==
  ASSUME StateOK, EnvsOK', Added(env, env'), Grown(decl, decl'),
         \A e \in 1 .. Len(env) : env'[e].env_table = env[e].env_table,
         stack' = stack, closures' = closures, ControlOK'
  PROVE  StateOK'
<1>1. EnvsOK /\ BlocksOK BY DEF StateOK
<1>0. Len(stack) \in Nat BY <1>1, StackFacts
<1>2. PICK n \in Nat : n = Len(stack) BY <1>0
<1>3. StackKept(n) /\ Len(stack') = n BY <1>1, <1>2 DEF StackKept, BlocksOK
<1>4. Settled(n) BY <1>2, <1>3 DEF Settled
<1>5. Since(n)' <= Since(n)
  <2>1. Since(n) = Forever BY <1>1, <1>2, SinceFacts
  <2>2. Since(n)' = Forever BY <1>1, <1>3, SinceKept
  <2> QED BY <2>1, <2>2, ForeverFact
<1> QED BY <1>3, <1>4, <1>5, StepAdded

LEMMA AssignLocalKeeps ==
  ASSUME StateOK, StepTaken, NEW x \in Names, AssignLocal(x)
  PROVE  StateOK'
<1>1. stack # <<>> /\ env' = env /\ stack' = stack /\ closures' = closures /\ EnvsOK
  BY DEF AssignLocal, Running, StateOK
<1>2. EnvsOK' /\ Grown(decl, decl') BY <1>1, TopFacts, LocalAssigned
<1>3. Added(env, env') BY <1>1, EnvFacts DEF Added
<1>4. ControlOK' BY CalmControl DEF AssignLocal, Running
<1> QED BY <1>1, <1>2, <1>3, <1>4, SameStack

LEMMA MakeClosureKeeps ==
  ASSUME StateOK, StepTaken, MakeClosure
  PROVE  StateOK'
<1> DEFINE f == ClosureHere(Top.lex, Len(decl))
<1>1. /\ Running /\ closures' = closures \cup {f} /\ UNCHANGED <<env, stack, decl>> /\ Calm
  BY DEF MakeClosure
<1>2. stack # <<>> /\ EnvsOK /\ BlocksOK BY <1>1 DEF Running, StateOK
<1>3. EnvsOK' BY <1>1, <1>2, KeepingEnvs
<1>4. f = [env |-> Top.env, env_table |-> Env.env_table, lex |-> Top.lex, born |-> Len(decl)]
  BY DEF ClosureHere
<1> HIDE DEF f
<1>5. ClosureIn(env, decl, f)
  <2>1. Top.env \in Nat /\ Len(decl) \in Nat /\ Len(decl) \in 1 .. Len(decl)
    BY <1>2, TopFacts, EnvFacts
  <2> QED BY <1>2, <1>4, <2>1, TopFacts DEF ClosureIn, ClosureType
<1>6. ClosureGoodIn(env, decl, f)
  <2>1. /\ GoodIn(env, decl, Top.env, Top.lex, Forever)
        /\ FollowsIn(decl, Env.env_table, Top.lex)
    BY <1>2, TopFacts DEF BlockGoodIn
  <2> QED BY <1>4, <2>1 DEF ClosureGoodIn, GoodIn
<1>7. ClosuresOK' BY <1>1, <1>5 DEF StateOK, ClosuresOK
<1>8. \A c \in closures' : ClosureGoodIn(env', decl', c) BY <1>1, <1>6 DEF StateOK
<1>9. BlocksOK' BY <1>1, <1>2 DEF BlocksOK
<1>10. StackNests' BY <1>1 DEF StateOK, StackNests
<1>11. \A i : Since(i)' = Since(i) BY <1>1 DEF Since, Forever
<1>12. EnvShared' BY <1>1, <1>2, <1>9, <1>11, SharedMeans, SharedMeansNext DEF StateOK
<1>13. \A i \in DOMAIN stack' : BlockGoodIn(env', decl', stack'[i], Since(i)')
  BY <1>1, <1>11 DEF StateOK
<1>14. ControlOK' BY <1>1, CalmControl DEF Running
<1> QED BY <1>3, <1>7, <1>8, <1>9, <1>10, <1>12, <1>13, <1>14 DEF StateOK

-----------------------------------------------------------------------------
(* Signals. *)

LEMMA AimedAt ==
  ASSUME BlocksOK, stack # <<>>, NEW K, NEW S, S = {i \in InFunction : stack[i].kind \in K}, S # {}
  PROVE  /\ Innermost(S) \in 1 .. Len(stack) /\ stack[Innermost(S)].kind \in K
         /\ \A j \in Innermost(S) + 1 .. Len(stack) : stack[j].kind \notin K
<1>1. Len(stack) \in Nat /\ DOMAIN stack = 1 .. Len(stack) BY StackFacts
<1>2. S \in SUBSET (1 .. Len(stack)) BY <1>1 DEF InFunction
<1>3. Innermost(S) \in S /\ \A j \in S : j <= Innermost(S) BY <1>1, <1>2, Greatest
<1> DEFINE a == Innermost(S)
<1>4. a \in InFunction /\ stack[a].kind \in K /\ a \in 1 .. Len(stack) BY <1>2, <1>3
<1> HIDE DEF a
<1>5. ASSUME NEW j \in a + 1 .. Len(stack), stack[j].kind \in K PROVE FALSE
  <2>1. j \in 1 .. Len(stack) /\ j > a BY <1>1, <1>4
  <2>2. \A i \in j + 1 .. Len(stack) : i \in a + 1 .. Len(stack) BY <1>1, <1>4, <2>1
  <2>3. j \in InFunction BY <1>1, <1>4, <2>1, <2>2 DEF InFunction
  <2>4. j \in S BY <1>5, <2>3
  <2>5. j <= a BY <1>3, <2>4 DEF a
  <2> QED BY <1>4, <2>1, <2>5
<1> QED BY <1>4, <1>5 DEF a

LEMMA SignalKeeps ==
  ASSUME StateOK, StepTaken, BreakStatement \/ ReturnStatement \/ GotoStatement
  PROVE  StateOK'
<1> USE DEF TakesSignal
<1>1. stack # <<>> /\ UNCHANGED <<env, stack, closures, decl>> /\ EnvsOK /\ BlocksOK
  BY DEF BreakStatement, ReturnStatement, GotoStatement, Signal, Running, StateOK
<1>2. Len(stack) \in Nat /\ DOMAIN stack = 1 .. Len(stack) BY <1>1, StackFacts
<1>3. ControlOK'
  <2>1. CASE BreakStatement
    <3> DEFINE S == {i \in InFunction : stack[i].kind \in Loops}
    <3>1. S # {} /\ flow' = "break" /\ aim' = Innermost(S) BY <2>1 DEF BreakStatement, Signal
    <3> HIDE DEF S
    <3>2. /\ Innermost(S) \in 1 .. Len(stack) /\ stack[Innermost(S)].kind \in Loops
          /\ \A j \in Innermost(S) + 1 .. Len(stack) : stack[j].kind \notin Loops
      BY <1>1, <3>1, AimedAt DEF S
    <3> QED BY <1>1, <1>2, <3>1, <3>2 DEF ControlOK, Aimed
  <2>2. CASE ReturnStatement
    <3> DEFINE S == {i \in InFunction : stack[i].kind \in {"chunk", "function"}}
    <3>1. S # {} /\ flow' = "return" /\ aim' = Innermost(S) BY <2>2 DEF ReturnStatement, Signal
    <3> HIDE DEF S
    <3>2. /\ Innermost(S) \in 1 .. Len(stack) /\ stack[Innermost(S)].kind \in {"chunk", "function"}
          /\ \A j \in Innermost(S) + 1 .. Len(stack) : stack[j].kind \notin {"chunk", "function"}
      BY <1>1, <3>1, AimedAt DEF S
    <3> QED BY <1>1, <1>2, <3>1, <3>2 DEF ControlOK, Aimed
  <2>3. CASE GotoStatement
    <3> DEFINE S == {i \in InFunction : stack[i].kind \in Labelled}
    <3>1. S # {} /\ flow' = "goto" /\ aim' = Innermost(S) BY <2>3 DEF GotoStatement, Signal
    <3> HIDE DEF S
    <3>2. /\ Innermost(S) \in 1 .. Len(stack) /\ stack[Innermost(S)].kind \in Labelled
          /\ \A j \in Innermost(S) + 1 .. Len(stack) : stack[j].kind \notin Labelled
      BY <1>1, <3>1, AimedAt DEF S
    <3> QED BY <1>1, <1>2, <3>1, <3>2 DEF ControlOK, Aimed
  <2> QED BY <2>1, <2>2, <2>3
<1> QED BY <1>1, <1>3, KeepingEnvs, SameStack

(* A block on which a signal is out takes it when it is the aim, and only   *)
(* then.                                                                    *)
LEMMA TopTakes ==
  ASSUME StateOK, flow # "normal"
  PROVE  /\ stack # <<>> /\ Len(stack) \in Nat /\ aim \in 1 .. Len(stack)
         /\ aim = Len(stack) <=> LandInBlock(Top) \/ Takes(Top)
<1>1. BlocksOK /\ Aimed /\ flow \in {"break", "return", "goto"} BY DEF StateOK, ControlOK
<1>2. Len(stack) \in Nat /\ DOMAIN stack = 1 .. Len(stack) BY <1>1, StackFacts
<1>3. aim \in 1 .. Len(stack) BY <1>1, <1>2 DEF Aimed
<1>4. stack # <<>> BY <1>2, <1>3
<1>5. Top = stack[Len(stack)] /\ Len(stack) \in 1 .. Len(stack) BY <1>1, <1>4, StackFacts
<1>6. TakesSignal(Top) <=> LandInBlock(Top) \/ Takes(Top)
  BY <1>1 DEF TakesSignal, LandInBlock, Takes
<1>7. aim = Len(stack) => TakesSignal(Top) BY <1>1, <1>5 DEF Aimed
<1>8. aim # Len(stack) => ~TakesSignal(Top)
  <2>1. PICK n \in Nat : n = Len(stack) BY <1>2
  <2>2. aim \in 1 .. n BY <1>3, <2>1
  <2>3. aim # n => n \in aim + 1 .. n BY <2>2
  <2> QED BY <1>1, <1>5, <2>1, <2>3 DEF Aimed
<1>9. aim = Len(stack) <=> LandInBlock(Top) \/ Takes(Top) BY <1>6, <1>7, <1>8
<1> QED BY <1>2, <1>3, <1>4, <1>9

LEMMA LeaveBlockKeeps ==
  ASSUME StateOK, StepTaken, LeaveBlock
  PROVE  StateOK'
<1>1. /\ flow # "normal" /\ ~LandInBlock(Top) /\ stack' = Pop /\ decl' = Left(Top)
      /\ IF Takes(Top) THEN flow' = "normal" /\ aim' = 0 ELSE UNCHANGED <<flow, aim>>
      /\ UNCHANGED <<env, closures>>
  BY DEF LeaveBlock
<1>2. stack # <<>> /\ BlocksOK /\ Aimed /\ ControlOK /\ aim \in 1 .. Len(stack)
  BY <1>1, TopTakes DEF StateOK, ControlOK
<1>3. ControlOK'
  <2>1. CASE Takes(Top) BY <1>1, <2>1, NormalControl
  <2>2. CASE ~Takes(Top)
    <3>1. aim # Len(stack) /\ UNCHANGED <<flow, aim>> BY <1>1, <2>2, TopTakes
    <3>2. PICK n \in Nat : Len(stack) = n + 1 /\ Len(stack) - 1 = n BY <1>2, OneLess
    <3>3. aim \in 1 .. n BY <1>2, <3>1, <3>2
    <3>4. StackKept(n) /\ Len(stack') = n BY <1>1, <1>2, <3>2, Popped
    <3>5. DOMAIN stack' = 1 .. n /\ \A i \in 1 .. n : stack'[i] = stack[i]
      <4>1. stack' \in Seq(BlockType) BY <3>4 DEF StackKept
      <4> QED BY <3>4, <4>1 DEF StackKept
    <3>6. \A b : TakesSignal(b)' <=> TakesSignal(b) BY <3>1 DEF TakesSignal
    <3>7. TakesSignal(stack[aim]) /\ \A i \in aim + 1 .. n : ~TakesSignal(stack[i])
      BY <1>1, <1>2, <3>2 DEF Aimed
    <3>8. \A i \in aim + 1 .. n : i \in 1 .. n BY <3>3
    <3>9. Aimed'
      <4>1. aim' \in DOMAIN stack' BY <3>1, <3>3, <3>5
      <4> QED BY <3>1, <3>3, <3>4, <3>5, <3>6, <3>7, <3>8, <4>1 DEF Aimed
    <3> QED BY <1>2, <3>1, <3>9 DEF ControlOK
  <2> QED BY <2>1, <2>2
<1> QED BY <1>1, <1>2, <1>3, PopKeeps

-----------------------------------------------------------------------------
(* Steps of the innermost block. *)

(* A block waits since a declaration, if one further in has its environment. *)
LEMMA SharedSince ==
  ASSUME StateOK, NEW n \in Nat, Len(stack) = n + 1, NEW i \in 1 .. n, stack[i].env = Top.env
  PROVE  Since(i) \in 1 .. Len(decl) /\ stack[i].label.at \in 1 .. Len(decl)
<1>1. BlocksOK /\ EnvsOK /\ StackNests BY DEF StateOK
<1>2. stack # <<>> /\ Top = stack[n + 1] BY <1>1, StackFacts
<1>3. i \in DOMAIN stack /\ i + 1 \in DOMAIN stack /\ n + 1 \in DOMAIN stack
  BY <1>1, StackFacts
<1>4. \A j \in 1 .. n + 1 : stack[j].env \in Nat BY <1>1, StackFacts DEF BlockType
<1>5. stack[i].env <= stack[i + 1].env BY <1>1, <1>3 DEF StackNests
<1>6. stack[i + 1].env <= stack[n + 1].env
  <2>1. CASE i = n BY <2>1, <1>4
  <2>2. CASE i # n
    <3>1. i + 1 < n + 1 BY <2>2
    <3> QED BY <3>1, <1>1, <1>3 DEF StackNests
  <2> QED BY <2>1, <2>2
<1>7. stack[i].env = stack[i + 1].env
  <2>1. i + 1 \in 1 .. n + 1 /\ i \in 1 .. n + 1 /\ n + 1 \in 1 .. n + 1 OBVIOUS
  <2> QED BY <2>1, <1>2, <1>4, <1>5, <1>6
<1>8. stack[i + 1].kind = "while"
  <2>1. i \in 1 .. Len(stack) - 1 OBVIOUS
  <2> QED BY <2>1, <1>1, <1>7 DEF StackNests
<1>9. Since(i) = stack[i + 1].start
  <2>1. i < Len(stack) OBVIOUS
  <2> QED BY <2>1, <1>8 DEF Since
<1> QED BY <1>1, <1>3, <1>9, StackFacts DEF BlockIn

(* Its scope changes: into one it had, or with an _ENV just declared.       *)
LEMMA TopFits ==
  ASSUME StateOK, EnvsOK', NoEnvLost, NEW n \in Nat, Len(stack) = n + 1, StackKept(n),
         NEW b, BlockIn(env', decl', b), b.kind = Top.kind, b.env = Top.env, b.start = Top.start,
         Len(stack') = n + 1, stack'[n + 1] = b,
         \A l \in Lexes(b) : /\ LabelShared(env', b, l)
                             /\ \/ \E m \in Lexes(Top) : l["_ENV"] = m["_ENV"]
                                \/ env'[Top.env].vars["_ENV"] > Len(decl)
  PROVE  Fits(n, b) /\ FitsEnv(n, b) /\ \A i \in 1 .. n : Since(i)' = Since(i)
<1>1. BlocksOK /\ EnvsOK /\ StackNests /\ EnvShared BY DEF StateOK
<1>2. stack # <<>> /\ Top = stack[n + 1] BY <1>1, StackFacts
<1>3. n + 1 \in 1 .. Len(stack) /\ n + 1 \in DOMAIN stack /\ \A i \in 1 .. n : i \in DOMAIN stack
  BY <1>1, StackFacts
<1>4. \A i \in 1 .. n : Since(i)' = Since(i)
  <2>1. \A i \in 1 .. n - 1 : Since(i)' = Since(i) BY <1>1, SinceKept
  <2>2. Since(n)' = IF b.kind = "while" THEN b.start ELSE Forever BY <1>1, SinceKept
  <2>3. Since(n) = IF Top.kind = "while" THEN Top.start ELSE Forever
    <3>1. n < Len(stack) OBVIOUS
    <3> QED BY <3>1, <1>2 DEF Since
  <2>4. Since(n)' = Since(n) BY <2>2, <2>3
  <2> QED BY <2>1, <2>4
<1>5. Fits(n, b)
  <2>1. n = 0 => Top.kind = "chunk" BY <1>1, <1>2 DEF StackNests
  <2>2. ASSUME n > 0 PROVE /\ Top.kind = "while" => Top.env = stack[n].env
                           /\ Top.kind # "while" => Top.env > stack[n].env
    <3>1. n \in 1 .. Len(stack) - 1 /\ n \in 1 .. n /\ n < n + 1 BY <2>2
    <3>2. stack[n].env = stack[n + 1].env <=> stack[n + 1].kind = "while" BY <1>1, <3>1 DEF StackNests
    <3>3. stack[n].env <= stack[n + 1].env BY <1>1, <1>3, <3>1 DEF StackNests
    <3>4. stack[n].env \in Nat /\ stack[n + 1].env \in Nat
      <4>1. n \in 1 .. Len(stack) BY <3>1
      <4> QED BY <4>1, <1>1, <1>3, StackFacts DEF BlockType
    <3> QED BY <1>2, <3>2, <3>3, <3>4
  <2> QED BY <2>1, <2>2 DEF Fits
<1>6. ASSUME NEW i \in 1 .. n, stack[i].env = b.env, NEW l \in Lexes(b)
      PROVE  SharedIn(env', stack[i], Since(i)', l) /\ LabelShared(env', stack[i], l)
  <2>1. /\ Since(i) \in 1 .. Len(decl) /\ stack[i].label.at \in 1 .. Len(decl)
        /\ stack[i].env = Top.env /\ Since(i)' = Since(i) /\ Top.env \in 1 .. Len(env)
    BY <1>2, <1>4, <1>6, SharedSince, TopFacts
  <2>2. /\ env[Top.env].vars["_ENV"] \in Nat /\ env'[Top.env].vars["_ENV"] \in Nat
        /\ env'[Top.env].vars["_ENV"] >= env[Top.env].vars["_ENV"] /\ Len(decl) \in Nat
    BY <1>1, <2>1, EnvVariable, EnvFacts
  <2>s. \A v, w, s, r : v \in Nat /\ w \in Nat /\ w >= v /\ r \in Nat /\ s \in 1 .. r =>
          (v > s => w > s) /\ (w > r => w > s)
    OBVIOUS
  <2>w. /\ env[Top.env].vars["_ENV"] > Since(i) => env'[Top.env].vars["_ENV"] > Since(i)
        /\ env'[Top.env].vars["_ENV"] > Len(decl) => env'[Top.env].vars["_ENV"] > Since(i)
    BY <2>1, <2>2, <2>s
  <2>r. /\ env[Top.env].vars["_ENV"] > stack[i].label.at => env'[Top.env].vars["_ENV"] > stack[i].label.at
        /\ env'[Top.env].vars["_ENV"] > Len(decl) => env'[Top.env].vars["_ENV"] > stack[i].label.at
    BY <2>1, <2>2, <2>s
  <2>3. CASE \E m \in Lexes(Top) : l["_ENV"] = m["_ENV"]
    <3>1. PICK m \in Lexes(stack[n + 1]) : l["_ENV"] = m["_ENV"] BY <1>2, <2>3
    <3>2. i \in 1 .. Len(stack) /\ i < n + 1 /\ i <= n + 1 OBVIOUS
    <3>3. SharedIn(env, stack[i], Since(i), m) /\ LabelShared(env, stack[i], m)
      BY <1>1, <1>2, <1>3, <2>1, <3>2, SharedMeans
    <3>4. SharedIn(env', stack[i], Since(i), l) BY <2>1, <2>w, <3>1, <3>3 DEF SharedIn, SameEnvIn
    <3>5. LabelShared(env', stack[i], l) BY <2>1, <2>r, <3>1, <3>3 DEF LabelShared, SameEnvIn
    <3> QED BY <2>1, <3>4, <3>5
  <2>4. CASE env'[Top.env].vars["_ENV"] > Len(decl)
    <3>1. env'[Top.env].vars["_ENV"] > Since(i) /\ env'[Top.env].vars["_ENV"] > stack[i].label.at
      BY <2>w, <2>r, <2>4
    <3> QED BY <2>1, <3>1 DEF SharedIn, LabelShared, SameEnvIn
  <2> QED BY <2>3, <2>4
<1>7. FitsEnv(n, b) BY <1>6 DEF FitsEnv
<1> QED BY <1>4, <1>5, <1>7

LabelPassed(b) == [b EXCEPT !.label = Label(TRUE, b.lex)]

LEMMA LabelPassedOK ==
  ASSUME EnvsOK, NEW b, BlockIn(env, decl, b)
  PROVE  /\ BlockIn(env, decl, LabelPassed(b)) /\ LabelPassed(b).kind = b.kind /\ LabelPassed(b).env = b.env
         /\ LabelPassed(b).start = b.start /\ LabelPassed(b).lex = b.lex /\ LabelPassed(b).label.passed
         /\ LabelPassed(b).label.at = Len(decl) /\ LabelPassed(b).label.lex = b.lex
<1>1. Len(decl) \in Nat /\ Len(decl) \in 1 .. Len(decl) BY EnvFacts
<1>2. /\ LabelPassed(b).kind = b.kind /\ LabelPassed(b).env = b.env
      /\ LabelPassed(b).start = b.start /\ LabelPassed(b).lex = b.lex
      /\ LabelPassed(b).label = [passed |-> TRUE, at |-> Len(decl), lex |-> b.lex]
  BY DEF LabelPassed, Label, BlockIn, BlockType
<1>3. LabelPassed(b) \in BlockType BY <1>1 DEF LabelPassed, Label, BlockIn, BlockType
<1> QED BY <1>1, <1>2, <1>3 DEF BlockIn

LEMMA LabelIsPassed ==
  ASSUME StateOK, StepTaken, stack # <<>>,
         stack' = [stack EXCEPT ![Len(stack)].label = Label(TRUE, Top.lex)],
         UNCHANGED <<env, decl, closures>>, ControlOK'
  PROVE  StateOK'
<1> DEFINE b == LabelPassed(Top)
<1>1. EnvsOK /\ BlocksOK BY DEF StateOK
<1>2. /\ EnvsOK' /\ Grown(decl, decl') /\ Added(env, env')
      /\ \A e \in 1 .. Len(env) : env'[e].env_table = env[e].env_table
  BY <1>1, KeepingEnvs
<1>3. NoEnvLost BY <1>1, <1>2, NoneLost
<1>4. PICK n \in Nat : Len(stack) = n + 1 /\ Len(stack) - 1 = n BY <1>1, OneLess
<1>5. Top = stack[n + 1] /\ BlockIn(env, decl, Top) /\ BlockGoodIn(env, decl, Top, Forever)
  BY <1>4, TopFacts
<1>6. stack' = [stack EXCEPT ![Len(stack)] = b]
  <2>1. stack' = [stack EXCEPT ![Len(stack)] = [stack[Len(stack)] EXCEPT !.label = Label(TRUE, Top.lex)]]
    OBVIOUS
  <2> QED BY <2>1, <1>4, <1>5 DEF LabelPassed
<1>7. /\ BlockIn(env, decl, b) /\ b.kind = Top.kind /\ b.env = Top.env /\ b.start = Top.start
      /\ b.lex = Top.lex /\ b.label.passed /\ b.label.at = Len(decl) /\ b.label.lex = Top.lex
  BY <1>1, <1>5, LabelPassedOK
<1> HIDE DEF b
<1>8. StackKept(n) /\ Len(stack') = n + 1 /\ stack'[n + 1] = b
  <2>1. b \in BlockType BY <1>7 DEF BlockIn
  <2> QED BY <1>1, <1>4, <1>6, <2>1, Replaced
<1>9. BlockIn(env', decl', b) BY <1>7
<1>10. \A l \in Lexes(b) : l = Top.lex /\ Top.lex \in Lexes(Top) BY <1>7 DEF Lexes
<1>11. \A l \in Lexes(b) : LabelShared(env', b, l) BY <1>7, <1>10 DEF LabelShared, SameEnvIn
<1>12. Fits(n, b) /\ FitsEnv(n, b) /\ \A i \in 1 .. n : Since(i)' = Since(i)
  BY <1>2, <1>3, <1>4, <1>7, <1>8, <1>9, <1>10, <1>11, TopFits
<1>13. BlockGoodIn(env', decl', b, Forever)
  <2>1. GoodIn(env, decl, Top.env, Top.lex, Forever) BY <1>5 DEF BlockGoodIn
  <2>2. World(env, decl) /\ Len(decl) \in Nat /\ Len(decl) <= Forever
    BY <1>1, EnvsAsWorld, EnvFacts, ForeverFact
  <2>3. /\ Top.env \in 1 .. Len(env) /\ LexIn(decl, Top.lex) /\ Added(env, env) /\ Grown(decl, decl)
        /\ env' = env /\ decl' = decl
    BY <1>2, <1>5 DEF BlockIn
  <2>4. GoodIn(env, decl, Top.env, Top.lex, Len(decl))
    BY <2>1, <2>2, <2>3, ForeverFact, GoodKept
  <2> QED BY <1>7, <2>1, <2>3, <2>4 DEF BlockGoodIn
<1>14. Settled(n) BY <1>8, <1>12, <1>13 DEF Settled
<1>15. n > 0 => Since(n)' <= Since(n)
  <2>1. n > 0 => n \in 1 .. Len(stack) /\ n \in 1 .. n BY <1>4
  <2>2. n > 0 => Since(n) \in Nat /\ Since(n)' = Since(n) BY <2>1, <1>1, <1>12, SinceFacts
  <2> QED BY <2>2
<1> QED BY <1>2, <1>8, <1>14, <1>15, StepAdded

LEMMA PassLabelKeeps ==
  ASSUME StateOK, StepTaken, PassLabel
  PROVE  StateOK'
<1>1. ControlOK' BY CalmControl DEF PassLabel, Running
<1> QED BY <1>1, LabelIsPassed DEF PassLabel, Running

(* A jump back: the scope of the label, with what was declared since left   *)
(* behind.                                                                  *)
BackAtLabel(b) == [b EXCEPT !.lex = b.label.lex]

LEMMA BackAtLabelOK ==
  ASSUME EnvsOK, NEW b, BlockIn(env, decl, b)
  PROVE  /\ BlockIn(env, decl, BackAtLabel(b)) /\ BackAtLabel(b).kind = b.kind /\ BackAtLabel(b).env = b.env
         /\ BackAtLabel(b).start = b.start /\ BackAtLabel(b).label = b.label
         /\ BackAtLabel(b).lex = b.label.lex
<1>1. /\ BackAtLabel(b).kind = b.kind /\ BackAtLabel(b).env = b.env /\ BackAtLabel(b) \in BlockType
      /\ BackAtLabel(b).start = b.start /\ BackAtLabel(b).lex = b.label.lex
      /\ BackAtLabel(b).label = b.label
  BY DEF BackAtLabel, BlockIn, BlockType
<1> QED BY <1>1 DEF BlockIn

LEMMA JumpedBack ==
  ASSUME StateOK, StepTaken, stack # <<>>, Top.label.passed,
         stack' = [stack EXCEPT ![Len(stack)].lex = Top.label.lex],
         decl' = OutOfScope(Top, Top.label.at),
         UNCHANGED <<env, closures>>, ControlOK'
  PROVE  StateOK'
<1> DEFINE b == BackAtLabel(Top)
<1>1. EnvsOK /\ BlocksOK BY DEF StateOK
<1>4. PICK n \in Nat : Len(stack) = n + 1 /\ Len(stack) - 1 = n BY <1>1, OneLess
<1>5. /\ Top = stack[n + 1] /\ BlockIn(env, decl, Top) /\ BlockGoodIn(env, decl, Top, Forever)
      /\ Top.env \in 1 .. Len(env)
  BY <1>4, TopFacts
<1>2. EnvsOK' /\ Grown(decl, decl') /\ MarkedLeft(env, decl, decl', Top.env, Top.label.at)
  BY <1>1, <1>5, LeftMarks
<1>3. /\ Added(env, env') /\ \A e \in 1 .. Len(env) : env'[e].env_table = env[e].env_table
      /\ Len(decl') = Len(decl)
  BY <1>1, <1>2, EnvFacts DEF Added, MarkedLeft
<1>n. NoEnvLost BY <1>1, <1>2, <1>3, NoneLost
<1>6. stack' = [stack EXCEPT ![Len(stack)] = b]
  <2>1. stack' = [stack EXCEPT ![Len(stack)] = [stack[Len(stack)] EXCEPT !.lex = Top.label.lex]]
    OBVIOUS
  <2> QED BY <2>1, <1>4, <1>5 DEF BackAtLabel
<1>7. /\ BlockIn(env, decl, b) /\ b.kind = Top.kind /\ b.env = Top.env /\ b.start = Top.start
      /\ b.lex = Top.label.lex /\ b.label = Top.label
  BY <1>1, <1>5, BackAtLabelOK
<1> HIDE DEF b
<1>8. StackKept(n) /\ Len(stack') = n + 1 /\ stack'[n + 1] = b
  <2>1. b \in BlockType BY <1>7 DEF BlockIn
  <2> QED BY <1>1, <1>4, <1>6, <2>1, Replaced
<1>9. BlockIn(env', decl', b) BY <1>3, <1>7 DEF BlockIn, LexIn
<1>10. \A l \in Lexes(b) : l = Top.label.lex /\ Top.label.lex \in Lexes(Top) BY <1>7 DEF Lexes
<1>11. \A l \in Lexes(b) : LabelShared(env', b, l) BY <1>7, <1>10 DEF LabelShared, SameEnvIn
<1>12. Fits(n, b) /\ FitsEnv(n, b) /\ \A i \in 1 .. n : Since(i)' = Since(i)
  BY <1>2, <1>n, <1>4, <1>7, <1>8, <1>9, <1>10, <1>11, TopFits
<1>13. BlockGoodIn(env', decl', b, Forever)
  <2>1. GoodIn(env, decl, Top.env, Top.label.lex, Top.label.at) BY <1>5 DEF BlockGoodIn
  <2>2. World(env, decl) /\ World(env, decl') BY <1>1, <1>2, EnvsAsWorld, EnvsAsWorldNext
  <2>3. Top.label.at \in Nat /\ LexIn(decl, Top.label.lex) BY <1>5 DEF BlockIn, BlockType
  <2>4. \A r \in Nat : GoodIn(env, decl', Top.env, Top.label.lex, r)
    BY <1>2, <1>5, <2>1, <2>2, <2>3, GoodLeft
  <2> QED BY <1>7, <2>3, <2>4, ForeverFact DEF BlockGoodIn
<1>14. Settled(n) BY <1>8, <1>12, <1>13 DEF Settled
<1>15. n > 0 => Since(n)' <= Since(n)
  <2>1. n > 0 => n \in 1 .. Len(stack) /\ n \in 1 .. n BY <1>4
  <2>2. n > 0 => Since(n) \in Nat /\ Since(n)' = Since(n) BY <2>1, <1>1, <1>12, SinceFacts
  <2> QED BY <2>2
<1> QED BY <1>2, <1>3, <1>8, <1>14, <1>15, StepAdded

LEMMA LandGotoKeeps ==
  ASSUME StateOK, StepTaken, LandGoto
  PROVE  StateOK'
<1>1. stack # <<>> BY TopTakes DEF LandGoto
<1>2. ControlOK' BY NormalControl DEF LandGoto
<1>3. CASE Top.label.passed BY <1>1, <1>2, <1>3, JumpedBack DEF LandGoto
<1>4. CASE ~Top.label.passed BY <1>1, <1>2, <1>4, LabelIsPassed DEF LandGoto
<1> QED BY <1>3, <1>4

-----------------------------------------------------------------------------
(* Declarations. *)

ScopeWith(b, x) == [b EXCEPT !.lex = LexWith(b.lex, x)]

LEMMA ScopeWithOK ==
  ASSUME NEW b, BlockIn(env, decl, b), NEW x \in Names, Id \in Nat, Id > Len(decl), Len(decl) \in Nat,
         Len(decl') = Id, Len(env') = Len(env)
  PROVE  /\ BlockIn(env', decl', ScopeWith(b, x)) /\ ScopeWith(b, x).kind = b.kind
         /\ ScopeWith(b, x).env = b.env /\ ScopeWith(b, x).start = b.start
         /\ ScopeWith(b, x).label = b.label /\ ScopeWith(b, x).lex = LexWith(b.lex, x)
         /\ LexWith(b.lex, x) \in Lex /\ LexIn(decl', LexWith(b.lex, x))
         /\ \A y \in Names : LexWith(b.lex, x)[y] = IF y = x THEN Id ELSE b.lex[y]
<1>1. b.lex \in Lex /\ LexIn(decl, b.lex) /\ LexIn(decl, b.label.lex) /\ b \in BlockType
  BY DEF BlockIn, BlockType
<1>2. LexWith(b.lex, x) \in Lex /\ \A y \in Names : LexWith(b.lex, x)[y] = IF y = x THEN Id ELSE b.lex[y]
  BY <1>1 DEF LexWith, Lex
<1>3. \A y \in Names : b.lex[y] \in 0 .. Len(decl') /\ b.label.lex[y] \in 0 .. Len(decl')
  BY <1>1 DEF LexIn
<1>4. LexIn(decl', LexWith(b.lex, x)) /\ LexIn(decl', b.label.lex) BY <1>2, <1>3 DEF LexIn
<1>5. /\ ScopeWith(b, x) \in BlockType /\ ScopeWith(b, x).kind = b.kind
      /\ ScopeWith(b, x).env = b.env /\ ScopeWith(b, x).start = b.start
      /\ ScopeWith(b, x).label = b.label /\ ScopeWith(b, x).lex = LexWith(b.lex, x)
  <2> HIDE DEF LexWith
  <2> QED BY <1>1, <1>2 DEF ScopeWith, BlockType
<1>6. b.start \in 1 .. Len(decl') /\ b.label.at \in 1 .. Len(decl') /\ b.env \in 1 .. Len(env')
  BY DEF BlockIn
<1> QED BY <1>2, <1>4, <1>5, <1>6 DEF BlockIn

(* What every declaration does to the blocks and to closures made before.   *)
LEMMA DeclarationKeeps ==
  ASSUME StateOK, StepTaken, stack # <<>>, NEW x \in Names, NEW c \in BOOLEAN, NEW t \in Tables,
         env' = Bind(Top.env, x, c, t), decl' = Append(decl, Declaration(x, c, t, Top.lex)),
         stack' = InScope(x)
  PROVE  /\ EnvsOK' /\ BlocksOK' /\ StackNests' /\ EnvShared'
         /\ \A i \in DOMAIN stack' : BlockGoodIn(env', decl', stack'[i], Since(i)')
         /\ \A f \in closures : ClosureIn(env', decl', f) /\ ClosureGoodIn(env', decl', f)
         /\ GoodIn(env', decl', Top.env, LexWith(Top.lex, x), Forever)
<1> DEFINE b == ScopeWith(Top, x)
<1>1. EnvsOK /\ BlocksOK /\ ClosuresOK /\ StackNests /\ EnvShared BY DEF StateOK
<1>2. PICK n \in Nat : Len(stack) = n + 1 /\ Len(stack) - 1 = n BY <1>1, OneLess
<1>3. /\ Top = stack[n + 1] /\ BlockIn(env, decl, Top) /\ BlockGoodIn(env, decl, Top, Forever)
      /\ Top.env \in 1 .. Len(env) /\ Top.lex \in Lex /\ LexIn(decl, Top.lex)
      /\ Top.lex["_ENV"] \in 1 .. Len(decl) /\ FollowsIn(decl, env[Top.env].env_table, Top.lex)
  BY <1>2, TopFacts
<1>4. /\ EnvsOK' /\ Grown(decl, decl') /\ Rebound(env, env', Top.env, x, Id)
      /\ Len(decl') = Id /\ decl'[Id] = Declaration(x, c, t, Top.lex) /\ Id \in Nat /\ Id > Len(decl)
      /\ \A i \in 1 .. Len(env) : i # Top.env \/ x # "_ENV" => env'[i].env_table = env[i].env_table
      /\ env'[Top.env].env_table = IF x = "_ENV" /\ t # NoTable THEN t ELSE env[Top.env].env_table
      /\ Len(env') = Len(env) /\ Len(decl) \in Nat
  BY <1>1, <1>3, BindOK, EnvFacts
<1>5. World(env, decl) /\ World(env', decl') BY <1>1, <1>4, EnvsAsWorld, EnvsAsWorldNext
<1>6. /\ x = "_ENV" => env'[Top.env].vars["_ENV"] = Id
      /\ x # "_ENV" => env'[Top.env].vars["_ENV"] = env[Top.env].vars["_ENV"]
      /\ \A i \in 1 .. Len(env) : i # Top.env => env'[i].vars = env[i].vars
  BY <1>4, NamesFact DEF Rebound
<1>7. NoEnvLost
  <2>1. \A i \in 1 .. Len(env) : env[i].vars["_ENV"] \in 0 .. Len(decl) BY <1>5, NamesFact DEF World, LexIn
  <2>2. \A i \in 1 .. Len(env) : env'[i].vars["_ENV"] >= env[i].vars["_ENV"]
    <3> SUFFICES ASSUME NEW i \in 1 .. Len(env) PROVE env'[i].vars["_ENV"] >= env[i].vars["_ENV"] OBVIOUS
    <3>1. env[i].vars["_ENV"] \in 0 .. Len(decl) BY <2>1
    <3>2. env'[i].vars["_ENV"] \in {Id, env[i].vars["_ENV"]} BY <1>6
    <3> QED BY <3>1, <3>2, <1>4
  <2>3. Len(env) \in Nat BY <1>1, EnvFacts
  <2> QED BY <1>4, <2>2, <2>3 DEF NoEnvLost
<1>8. stack' = [stack EXCEPT ![Len(stack)] = b]
  <2>1. InScope(x) = [stack EXCEPT ![Len(stack)] =
                        [stack[Len(stack)] EXCEPT !.lex = [stack[Len(stack)].lex EXCEPT ![x] = Id]]]
    BY DEF InScope
  <2> QED BY <2>1, <1>2, <1>3 DEF ScopeWith, LexWith
<1>9. /\ BlockIn(env', decl', b) /\ b.kind = Top.kind /\ b.env = Top.env /\ b.start = Top.start
      /\ b.label = Top.label /\ b.lex = LexWith(Top.lex, x)
      /\ \A y \in Names : LexWith(Top.lex, x)[y] = IF y = x THEN Id ELSE Top.lex[y]
  BY <1>3, <1>4, ScopeWithOK
<1> HIDE DEF b
<1>10. StackKept(n) /\ Len(stack') = n + 1 /\ stack'[n + 1] = b
  <2>1. b \in BlockType BY <1>9 DEF BlockIn
  <2> QED BY <1>1, <1>2, <1>8, <2>1, Replaced
<1>11. Top.label.at \in Nat /\ Top.label.at < Id BY <1>3, <1>4 DEF BlockIn
<1>12. ASSUME NEW l \in Lexes(b)
       PROVE  /\ LabelShared(env', b, l)
              /\ \/ \E m \in Lexes(Top) : l["_ENV"] = m["_ENV"]
                 \/ env'[Top.env].vars["_ENV"] > Len(decl)
  <2>1. CASE x = "_ENV"
    <3>1. env'[Top.env].vars["_ENV"] > Len(decl) /\ env'[Top.env].vars["_ENV"] > Top.label.at
      BY <2>1, <1>4, <1>6, <1>11
    <3> QED BY <3>1, <1>9 DEF LabelShared, SameEnvIn
  <2>2. CASE x # "_ENV"
    <3>1. Top.lex \in Lexes(Top) /\ (Top.label.passed => Top.label.lex \in Lexes(Top)) BY DEF Lexes
    <3>2. PICK m \in Lexes(Top) : l["_ENV"] = m["_ENV"]
      <4>1. LexWith(Top.lex, x)["_ENV"] = Top.lex["_ENV"] BY <2>2, <1>9, NamesFact
      <4>2. l = LexWith(Top.lex, x) \/ (Top.label.passed /\ l = Top.label.lex) BY <1>9 DEF Lexes
      <4> QED BY <3>1, <4>1, <4>2
    <3>3. LabelShared(env, Top, m)
      <4>1. n + 1 \in 1 .. Len(stack) BY <1>2
      <4>2. n + 1 <= n + 1 OBVIOUS
      <4> QED BY <1>1, <1>3, <3>2, <4>1, <4>2, SharedMeans
    <3>4. LabelShared(env', b, l) BY <2>2, <1>6, <1>9, <3>2, <3>3 DEF LabelShared, SameEnvIn
    <3> QED BY <3>2, <3>4
  <2> QED BY <2>1, <2>2
<1>13. Fits(n, b) /\ FitsEnv(n, b) /\ \A i \in 1 .. n : Since(i)' = Since(i)
  BY <1>2, <1>4, <1>7, <1>9, <1>10, <1>12, TopFits
<1>14. BlocksOK' /\ StackNests' BY <1>1, <1>4, <1>7, <1>10, <1>13, NestsAfter
<1>15. EnvShared' BY <1>1, <1>4, <1>7, <1>10, <1>13, <1>14, SharedAfter
<1>16. ASSUME NEW e \in 1 .. Top.env, NEW l, LexIn(decl, l), NEW s \in Nat, e < Top.env \/ s < Id,
              GoodIn(env, decl, e, l, s)
       PROVE  GoodIn(env', decl', e, l, s)
  <2>1. e \in 1 .. Len(env) BY <1>3, <1>5 DEF World, Rooted
  <2>2. env'[e].env_table = env[e].env_table \/ (e = Top.env /\ x = "_ENV") BY <1>4, <2>1
  <2> QED BY <1>4, <1>5, <1>16, <2>2, GoodRebound
<1>17. BlocksGoodTo(n)
  <2> SUFFICES ASSUME NEW i \in 1 .. n PROVE BlockGoodIn(env', decl', stack[i], Since(i)')
    BY DEF BlocksGoodTo
  <2>1. i \in 1 .. Len(stack) /\ i \in DOMAIN stack /\ i < n + 1 /\ n + 1 \in DOMAIN stack
    BY <1>1, <1>2, StackFacts
  <2>2. /\ BlockIn(env, decl, stack[i]) /\ Since(i) \in Nat /\ Since(i)' = Since(i)
        /\ BlockGoodIn(env, decl, stack[i], Since(i))
    BY <1>1, <1>13, <2>1, StackFacts, SinceFacts DEF StateOK
  <2>3. stack[i].env <= Top.env /\ stack[i].env \in 1 .. Len(env)
    BY <1>1, <1>3, <2>1, <2>2 DEF StackNests, BlockIn
  <2>4. stack[i].env \in 1 .. Top.env BY <1>3, <1>5, <2>3 DEF World, Rooted
  <2>5. stack[i].env < Top.env \/ Since(i) < Id
    <3>1. CASE stack[i].env = Top.env
      <4>1. Since(i) \in 1 .. Len(decl) BY <1>2, <3>1, SharedSince
      <4> QED BY <4>1, <1>4
    <3>2. CASE stack[i].env # Top.env BY <3>2, <2>4, <1>3
    <3> QED BY <3>1, <3>2
  <2>6. /\ stack[i].label.at \in Nat /\ stack[i].label.at < Id
        /\ LexIn(decl, stack[i].lex) /\ LexIn(decl, stack[i].label.lex)
    BY <2>2, <1>4 DEF BlockIn
  <2> QED BY <1>16, <2>2, <2>4, <2>5, <2>6 DEF BlockGoodIn
<1>21. GoodIn(env', decl', Top.env, LexWith(Top.lex, x), Forever)
  <2>1. FollowsIn(decl', env'[Top.env].env_table, LexWith(Top.lex, x))
    BY <1>1, <1>3, <1>4, FollowsDeclared
  <2>2. GoodIn(env, decl, Top.env, Top.lex, Forever) BY <1>3 DEF BlockGoodIn
  <2> QED BY <1>3, <1>4, <1>5, <2>1, <2>2, ForeverFact, GoodDeclared DEF LexWith
<1>18. BlockGoodIn(env', decl', b, Forever)
  <2>2. Top.label.passed => GoodIn(env', decl', Top.env, Top.label.lex, Top.label.at)
    <3>1. Top.env \in 1 .. Top.env /\ LexIn(decl, Top.label.lex) BY <1>3 DEF BlockIn
    <3> QED BY <1>3, <1>11, <1>16, <3>1 DEF BlockGoodIn
  <2> QED BY <1>9, <1>21, <2>2 DEF BlockGoodIn
<1>19. \A i \in DOMAIN stack' : BlockGoodIn(env', decl', stack'[i], Since(i)')
  BY <1>1, <1>10, <1>14, <1>17, <1>18, BlocksAfter
<1>20. ASSUME NEW f \in closures PROVE ClosureIn(env', decl', f) /\ ClosureGoodIn(env', decl', f)
  <2>1. ClosureIn(env, decl, f) /\ ClosureGoodIn(env, decl, f) BY <1>1 DEF StateOK, ClosuresOK
  <2>2. ClosureIn(env', decl', f)
    <3>1. Len(env) <= Len(env') BY <1>1, <1>4, EnvFacts
    <3> QED BY <1>1, <1>4, <2>1, <3>1, ClosureStays
  <2>3. f.env \in 1 .. Len(env) /\ LexIn(decl, f.lex) /\ f.born < Id BY <1>4, <2>1 DEF ClosureIn
  <2>4. \A g : g.env \in 1 .. Len(env) /\ LexIn(decl, g.lex) /\ g.born < Id /\ ClosureGoodIn(env, decl, g)
               => ClosureGoodIn(env', decl', g)
    BY <1>4, <1>5, ClosureRebound
  <2> QED BY <2>1, <2>2, <2>3, <2>4
<1> QED BY <1>4, <1>14, <1>15, <1>19, <1>20, <1>21

LEMMA DeclareLocalKeeps ==
  ASSUME StateOK, StepTaken, NEW x \in Names, NEW c \in BOOLEAN, NEW t \in EnvTable \cup {NoTable},
         DeclareLocal(x, c, t)
  PROVE  StateOK'
<1>1. /\ stack # <<>> /\ t \in Tables /\ env' = Bind(Top.env, x, c, t)
      /\ decl' = Append(decl, Declaration(x, c, t, Top.lex)) /\ stack' = InScope(x) /\ closures' = closures
  BY DEF DeclareLocal, Running, Tables
<1>2. ControlOK' BY CalmControl DEF DeclareLocal, Running
<1>3. /\ EnvsOK' /\ BlocksOK' /\ StackNests' /\ EnvShared'
      /\ \A i \in DOMAIN stack' : BlockGoodIn(env', decl', stack'[i], Since(i)')
      /\ \A f \in closures : ClosureIn(env', decl', f) /\ ClosureGoodIn(env', decl', f)
  BY <1>1, DeclarationKeeps
<1> QED BY <1>1, <1>2, <1>3 DEF StateOK, ClosuresOK

(* The function itself sees its own name. *)
LEMMA LocalFunctionKeeps ==
  ASSUME StateOK, StepTaken, NEW x \in Names, LocalFunction(x)
  PROVE  StateOK'
<1> DEFINE m == LexWith(Top.lex, x)
           g == ClosureHere(m, Id)
<1>1. /\ stack # <<>> /\ env' = Bind(Top.env, x, FALSE, NoTable) /\ NoTable \in Tables
      /\ decl' = Append(decl, Declaration(x, FALSE, NoTable, Top.lex)) /\ stack' = InScope(x)
      /\ closures' = closures \cup {g}
  BY DEF LocalFunction, Running, Tables, LexWith
<1>2. ControlOK' BY CalmControl DEF LocalFunction, Running
<1>3. /\ EnvsOK' /\ BlocksOK' /\ StackNests' /\ EnvShared'
      /\ \A i \in DOMAIN stack' : BlockGoodIn(env', decl', stack'[i], Since(i)')
      /\ \A f \in closures : ClosureIn(env', decl', f) /\ ClosureGoodIn(env', decl', f)
      /\ GoodIn(env', decl', Top.env, m, Forever)
  BY <1>1, DeclarationKeeps
<1>4. /\ EnvsOK /\ BlockIn(env, decl, Top) /\ Top.env \in 1 .. Len(env) /\ Env.env_table \in Tables
      /\ FollowsIn(decl, Env.env_table, Top.lex) /\ Top.lex \in Lex /\ LexIn(decl, Top.lex)
      /\ Top.lex["_ENV"] \in 1 .. Len(decl)
  BY <1>1, TopFacts DEF StateOK
<1>5. /\ Grown(decl, decl') /\ Len(decl') = Id /\ decl'[Id] = Declaration(x, FALSE, NoTable, Top.lex)
      /\ Id \in Nat /\ Id > Len(decl) /\ Len(env') = Len(env) /\ Len(decl) \in Nat
  <2>1. DeclsMore /\ Len(decl') = Id /\ decl'[Id] = Declaration(x, FALSE, NoTable, Top.lex)
        /\ Id \in Nat /\ Id > Len(decl)
    BY <1>1, <1>4, DeclAdded
  <2>2. Len(env') = Len(env)
    <3>1. env \in Seq(EnvironmentType) BY <1>4 DEF EnvsOK
    <3>2. DOMAIN env' = DOMAIN env BY <1>1 DEF Bind
    <3>3. env' \in Seq(EnvironmentType) BY <1>3 DEF EnvsOK
    <3> QED BY <3>1, <3>2, <3>3
  <2> QED BY <2>1, <2>2, <1>4, EnvFacts DEF DeclsMore
<1>6. m \in Lex /\ LexIn(decl', m) /\ \A y \in Names : m[y] = IF y = x THEN Id ELSE Top.lex[y]
  BY <1>4, <1>5, ScopeWithOK
<1> HIDE DEF m
<1>7. g = [env |-> Top.env, env_table |-> Env.env_table, lex |-> m, born |-> Id] BY DEF ClosureHere
<1> HIDE DEF g
<1>8. ClosureIn(env', decl', g)
  <2>1. Id \in 1 .. Len(decl') /\ Top.env \in Nat BY <1>4, <1>5, EnvFacts
  <2> QED BY <1>4, <1>5, <1>6, <1>7, <2>1 DEF ClosureIn, ClosureType
<1>9. FollowsIn(decl', Env.env_table, m)
  <2>1. FollowsIn(decl', IF x = "_ENV" /\ NoTable # NoTable THEN NoTable ELSE Env.env_table, LexWith(Top.lex, x))
    BY <1>1, <1>4, FollowsDeclared
  <2> QED BY <2>1 DEF m
<1>10. ClosureGoodIn(env', decl', g) BY <1>3, <1>7, <1>9 DEF ClosureGoodIn, GoodIn
<1> QED BY <1>1, <1>2, <1>3, <1>8, <1>10 DEF StateOK, ClosuresOK

-----------------------------------------------------------------------------
(* _ENV = t. *)

(* In the environment of the _ENV that is assigned to, a scope means that   *)
(* _ENV, or one that was left behind, or one declared since.                *)
LEMMA AssignedHere ==
  ASSUME NEW E, NEW D, NEW C, World(E, D), Grown(D, C), Len(C) \in Nat, NEW e \in 1 .. Len(E),
         E[e].vars["_ENV"] # 0, C[E[e].vars["_ENV"]].assigned,
         NEW l, NEW s, GoodIn(E, D, e, l, s), NEW t
  PROVE  FollowsIn(C, t, l) \/ E[e].vars["_ENV"] > s
<1> DEFINE d == E[e].vars["_ENV"]
<1>1. Rooted(E) /\ "_ENV" \in Names /\ Len(D) \in Nat BY NamesFact DEF World
<1>2. FoundIn(E, e, "_ENV") = d BY <1>1, FoundHere
<1>3. SeesIn(E, D, e, l, s, "_ENV") BY <1>1 DEF GoodIn
<1>4. d \in 1 .. Len(D) /\ D[d].name = "_ENV"
  <2>1. d \in 0 .. Len(D) BY <1>1 DEF World, LexIn
  <2> QED BY <2>1, <1>1 DEF World
<1>5. ~LateIn(E, e, "_ENV")
  <2>0. e \in Nat BY <1>1 DEF Rooted
  <2>1. e \in Ancestors(E, e) /\ Ancestors(E, e) \subseteq 1 .. e /\ e \in Nat
    BY <1>1, <2>0, AncestorsOlder
  <2>2. \A j \in Ancestors(E, e) : j > e => E[j].vars["_ENV"] = 0 BY <2>1
  <2>3. BoundIn(E, e, "_ENV") = e BY <1>1, <2>1, <2>2, BoundUnique
  <2> QED BY <2>1, <2>3 DEF LateIn
<1>6. CASE d = l["_ENV"] BY <1>6 DEF FollowsIn
<1>7. CASE D[d].over
  <2>1. C[d].over /\ C[d].name = "_ENV" /\ d \in 1 .. Len(C) BY <1>1, <1>4, <1>7 DEF Grown
  <2>2. EnvLeftIn(C) BY <2>1 DEF EnvLeftIn
  <2> QED BY <2>2 DEF FollowsIn
<1> QED BY <1>2, <1>3, <1>5, <1>6, <1>7 DEF SeesIn, LeftIn

(* In the environment of the assignment, a scope means the same _ENV as the *)
(* innermost, or one was declared since.                                    *)
LEMMA MeantHere ==
  ASSUME NEW C, NEW E, NEW e, NEW m, C[m["_ENV"]].meant,
         NEW l, NEW s, SameEnvIn(E, e, m, l, s), NEW t
  PROVE  FollowsIn(C, t, l) \/ E[e].vars["_ENV"] > s
BY DEF SameEnvIn, FollowsIn

LEMMA AssignEnvKeeps ==
  ASSUME StateOK, StepTaken, NEW t \in EnvTable \cup {NoTable}, AssignEnv(t)
  PROVE  StateOK'
<1> DEFINE B == Binding(Top.env, "_ENV")
<1>1. /\ stack # <<>> /\ t \in Tables /\ UNCHANGED <<stack, closures>> /\ EnvsOK /\ BlocksOK
      /\ StackNests /\ EnvShared
  BY DEF AssignEnv, Running, Tables, StateOK
<1>2. ControlOK' BY CalmControl DEF AssignEnv, Running
<1>3. PICK n \in Nat : Len(stack) = n + 1 /\ Len(stack) - 1 = n BY <1>1, OneLess
<1>4. /\ Top = stack[n + 1] /\ Top.env \in 1 .. Len(env) /\ Top.lex["_ENV"] \in 1 .. Len(decl)
      /\ n + 1 \in 1 .. Len(stack) /\ Top.lex \in Lexes(Top)
  BY <1>1, <1>3, TopFacts DEF Lexes
<1>5. /\ EnvsOK' /\ Grown(decl, decl') /\ Added(env, env') /\ Len(env') = Len(env)
      /\ \A i \in 1 .. Len(env) : i \notin {B, Top.env} => env'[i].env_table = env[i].env_table
      /\ decl'[FoundIn(env, Top.env, "_ENV")].assigned /\ decl'[Top.lex["_ENV"]].meant
  BY <1>1, <1>4, EnvAssigned
<1>6. /\ World(env, decl) /\ World(env', decl') /\ Rooted(env) /\ Len(decl') \in Nat
      /\ \A e \in 1 .. Len(env) : env'[e].vars = env[e].vars
  BY <1>1, <1>5, EnvsAsWorld, EnvsAsWorldNext DEF World, Added
<1>7. NoEnvLost BY <1>1, <1>5, NoneLost
<1>8. StackKept(n + 1) /\ Len(stack') = n + 1
  <2>1. stack' = stack /\ n + 1 \in 0 .. Len(stack) BY <1>1, <1>3
  <2> QED BY <2>1, <1>1, <1>3 DEF StackKept, BlocksOK
<1>9. Len(stack') # n + 1 + 1 BY <1>8
<1>10. BlocksOK' /\ StackNests' BY <1>1, <1>5, <1>7, <1>8, <1>9, NestsAfter
<1>11. EnvShared' BY <1>1, <1>5, <1>7, <1>8, <1>9, <1>10, SharedAfter
<1>12. ClosuresOK' /\ \A c \in closures' : ClosureGoodIn(env', decl', c)
  BY <1>1, <1>5, ClosuresSame DEF ClosuresOK
<1>13. B # 0 => /\ B \in 1 .. Len(env) /\ env[B].vars["_ENV"] # 0
                /\ decl'[env[B].vars["_ENV"]].assigned
  <2>1. B = BoundIn(env, Top.env, "_ENV") BY LookupIn
  <2>2. /\ BoundIn(env, Top.env, "_ENV") \in 0 .. Top.env
        /\ BoundIn(env, Top.env, "_ENV") # 0 => env[BoundIn(env, Top.env, "_ENV")].vars["_ENV"] # 0
    BY <1>4, <1>6, BoundFacts
  <2>3. B # 0 => B \in 1 .. Len(env) BY <1>4, <1>6, <2>1, <2>2 DEF Rooted
  <2> QED BY <1>5, <2>1, <2>2, <2>3 DEF FoundIn
<1>14. ASSUME NEW e \in 1 .. Len(env), NEW l, LexIn(decl, l), NEW s \in Nat, GoodIn(env, decl, e, l, s),
              e = Top.env => l = Top.lex \/ SameEnvIn(env, e, Top.lex, l, s)
       PROVE  GoodIn(env', decl', e, l, s)
  <2>1. CASE e \notin {B, Top.env} BY <1>5, <1>6, <1>14, <2>1, GoodKept
  <2>2. CASE e \in {B, Top.env}
    <3>1. ASSUME NEW x \in Names PROVE SeesIn(env', decl', e, l, s, x)
      <4>1. SameSearch(env, env', e, x) BY <1>5, <1>6, SearchAdded DEF World
      <4>2. SeesIn(env, decl, e, l, s, x) /\ s <= s BY <1>14 DEF GoodIn
      <4> QED BY <1>5, <1>6, <4>1, <4>2, SeesGrown
    <3>2. ASSUME e = B PROVE FollowsIn(decl', env'[e].env_table, l) \/ env[e].vars["_ENV"] > s
      <4>1. B # 0 BY <3>2
      <4>2. env[e].vars["_ENV"] # 0 /\ decl'[env[e].vars["_ENV"]].assigned BY <1>13, <3>2, <4>1
      <4> QED BY <1>5, <1>6, <1>14, <4>2, AssignedHere
    <3>3. ASSUME e = Top.env PROVE FollowsIn(decl', env'[e].env_table, l) \/ env[e].vars["_ENV"] > s
      <4>1. CASE l = Top.lex BY <1>5, <4>1 DEF FollowsIn
      <4>2. CASE SameEnvIn(env, e, Top.lex, l, s) BY <1>5, <4>2, MeantHere
      <4> QED BY <1>14, <3>3, <4>1, <4>2
    <3> QED BY <1>6, <1>14, <2>2, <3>1, <3>2, <3>3 DEF GoodIn
  <2> QED BY <2>1, <2>2
<1>15. ASSUME NEW i \in 1 .. Len(stack') PROVE BlockGoodIn(env', decl', stack'[i], Since(i)')
  <2>1. /\ stack'[i] = stack[i] /\ i \in 1 .. Len(stack) /\ Since(i)' = Since(i)
    BY <1>1 DEF Since, Forever
  <2>2. /\ BlockIn(env, decl, stack[i]) /\ Since(i) \in Nat /\ i \in DOMAIN stack
        /\ BlockGoodIn(env, decl, stack[i], Since(i))
    BY <1>1, <2>1, StackFacts, SinceFacts DEF StateOK
  <2>3. /\ stack[i].env \in 1 .. Len(env) /\ LexIn(decl, stack[i].lex) /\ LexIn(decl, stack[i].label.lex)
        /\ stack[i].label.at \in Nat
    BY <2>2 DEF BlockIn, BlockType
  <2>4. i \in 1 .. n + 1 BY <2>1, <1>3
  <2>5. stack[i].env = Top.env =>
          /\ stack[i].lex = Top.lex \/ SameEnvIn(env, stack[i].env, Top.lex, stack[i].lex, Since(i))
          /\ stack[i].label.passed =>
               SameEnvIn(env, stack[i].env, Top.lex, stack[i].label.lex, stack[i].label.at)
    <3>1. i <= n + 1 /\ (i = n + 1 \/ i < n + 1) BY <2>4
    <3>2. stack[i].env = stack[n + 1].env =>
            /\ i < n + 1 => SharedIn(env, stack[i], Since(i), Top.lex)
            /\ LabelShared(env, stack[i], Top.lex)
      BY <1>1, <1>4, <2>1, <3>1, SharedMeans
    <3> QED BY <1>4, <3>1, <3>2 DEF SharedIn, LabelShared
  <2>6. GoodIn(env', decl', stack[i].env, stack[i].lex, Since(i))
    BY <1>14, <2>2, <2>3, <2>5 DEF BlockGoodIn
  <2>7. stack[i].label.passed => GoodIn(env', decl', stack[i].env, stack[i].label.lex, stack[i].label.at)
    BY <1>14, <2>2, <2>3, <2>5 DEF BlockGoodIn
  <2> QED BY <2>1, <2>6, <2>7 DEF BlockGoodIn
<1>16. DOMAIN stack' = 1 .. Len(stack') BY <1>10 DEF BlocksOK
<1> QED BY <1>2, <1>5, <1>10, <1>11, <1>12, <1>15, <1>16 DEF StateOK

-----------------------------------------------------------------------------
(* The invariant. *)

LEMMA InitOK == Init => StateOK
<1> SUFFICES ASSUME Init PROVE StateOK OBVIOUS
<1> DEFINE l == [x \in Names |-> IF x = "_ENV" THEN 1 ELSE 0]
           b == [kind |-> "chunk", env |-> 1, lex |-> l, start |-> 1,
                 label |-> [passed |-> FALSE, at |-> 1, lex |-> l]]
           v == [x \in Names |-> 0]
           e == [parent |-> 0, vars |-> v, consts |-> {}, env_table |-> G, born |-> Forever]
           d == [name |-> "_ENV", const |-> FALSE, table |-> G, assigned |-> FALSE, meant |-> FALSE,
                 over |-> FALSE]
<1>1. env = <<e>> /\ decl = <<d>> /\ stack = <<b>> /\ closures = {} /\ flow = "normal" /\ aim = 0 /\ steps = 0
  BY DEF Init
<1>2. l \in Lex /\ v \in Lex /\ G \in Tables /\ "_ENV" \in Names BY NamesFact DEF Lex, Tables
<1>3. Forever \in Nat /\ 1 \in 1 .. Forever /\ MaxSteps \in Nat /\ Forever \in 1 .. Forever
  BY ScopeBounds DEF Forever
<1>4. e \in EnvironmentType BY <1>2, <1>3 DEF EnvironmentType
<1>5. d \in DeclarationType BY <1>2 DEF DeclarationType
<1>6. b \in BlockType BY <1>2, KindFacts DEF BlockType
<1>7. Len(env) = 1 /\ Len(decl) = 1 /\ Len(stack) = 1 /\ env[1] = e /\ decl[1] = d /\ stack[1] = b
  BY <1>1
<1>8. env \in Seq(EnvironmentType) /\ decl \in Seq(DeclarationType) /\ stack \in Seq(BlockType)
  BY <1>1, <1>4, <1>5, <1>6
<1>9. DOMAIN env = {1} /\ DOMAIN decl = {1} /\ DOMAIN stack = {1} BY <1>1
<1>10. \A x \in Names : v[x] = 0 /\ l[x] \in 0 .. 1 OBVIOUS
<1>11. EnvsOK
  <2>1. \A i \in 1 .. Len(env) : env[i].parent < i /\ env[i].born \in 1 .. Forever /\ LexIn(decl, env[i].vars)
    BY <1>3, <1>7, <1>10 DEF LexIn
  <2>2. VariablesKnown /\ ConstNeverWritten
    BY <1>7, <1>9, <1>10 DEF VariablesKnown, ConstNeverWritten
  <2>3. steps \in 0 .. MaxSteps /\ Len(decl) \in 1 .. steps + 1 BY <1>1, <1>3, <1>7
  <2> QED BY <1>8, <2>1, <2>2, <2>3 DEF EnvsOK
<1>12. World(env, decl) BY <1>11, EnvsAsWorld
<1>13. BlockIn(env, decl, b)
  <2>1. LexIn(decl, l) BY <1>7, <1>10 DEF LexIn
  <2> QED BY <1>6, <1>7, <2>1 DEF BlockIn
<1>14. BlocksOK
  <2>1. \A i \in 1 .. Len(stack) : stack[i] = b BY <1>7
  <2> HIDE DEF b
  <2> QED BY <1>8, <1>13, <2>1 DEF BlocksOK
<1>15. ClosuresOK /\ ControlOK BY <1>1 DEF ClosuresOK, ControlOK, Aimed
<1>16. StackNests BY <1>7, <1>9 DEF StackNests
<1>17. EnvShared BY <1>7, <1>9 DEF EnvShared
<1>18. GoodIn(env, decl, 1, l, Forever)
  <2>1. Rooted(env) /\ 1 \in 1 .. Len(env) BY <1>7, <1>12 DEF World
  <2>2. ASSUME NEW x \in Names PROVE FoundIn(env, 1, x) = l[x]
    <3>1. /\ BoundIn(env, 1, x) \in 0 .. 1
          /\ BoundIn(env, 1, x) # 0 => env[BoundIn(env, 1, x)].vars[x] # 0
      BY <2>1, BoundFacts
    <3>2. BoundIn(env, 1, x) = 0 BY <3>1, <1>7, <1>10
    <3> QED BY <3>2 DEF FoundIn
  <2>3. \A x \in Names : SeesIn(env, decl, 1, l, Forever, x) BY <2>2 DEF SeesIn
  <2>4. l["_ENV"] = 1 BY <1>2
  <2>5. FollowsIn(decl, env[1].env_table, l) BY <1>7, <2>4 DEF FollowsIn
  <2> QED BY <2>3, <2>4, <2>5 DEF GoodIn
<1>19. Since(1) = Forever BY <1>7 DEF Since
<1>20. \A i \in DOMAIN stack : BlockGoodIn(env, decl, stack[i], Since(i))
  BY <1>7, <1>9, <1>18, <1>19 DEF BlockGoodIn
<1> QED BY <1>1, <1>11, <1>14, <1>15, <1>16, <1>17, <1>20 DEF StateOK

LEMMA StepKeeps ==
  ASSUME StateOK, StepTaken, Step
  PROVE  StateOK'
<1>1. CASE \E x \in Names, c \in BOOLEAN, t \in EnvTable \cup {NoTable} : DeclareLocal(x, c, t)
  BY <1>1, DeclareLocalKeeps
<1>2. CASE \/ \E x \in Var : AssignLocal(x)
           \/ \E x \in Names : LocalFunction(x) \/ OpenFor(x) \/ ForAgain(x)
  BY <1>2, NamesFact, AssignLocalKeeps, LocalFunctionKeeps, OpenForKeeps, ForAgainKeeps
<1>3. CASE \E t \in EnvTable \cup {NoTable} : AssignEnv(t) BY <1>3, AssignEnvKeeps
<1>4. CASE MakeClosure BY <1>4, MakeClosureKeeps
<1>5. CASE \E c \in closures, p \in Names \cup {NoName} : CallClosure(c, p) BY <1>5, CallClosureKeeps
<1>6. CASE \E k \in {"do", "repeat"} : OpenBlock(k) BY <1>6, OpenBlockKeeps
<1>7. CASE OpenWhile BY <1>7, OpenWhileKeeps
<1>8. CASE CloseBlock BY <1>8, CloseBlockKeeps
<1>9. CASE LoopEnds BY <1>9, LoopEndsKeeps
<1>10. CASE RepeatAgain BY <1>10, RepeatAgainKeeps
<1>11. CASE WhileAgain BY <1>11, WhileAgainKeeps
<1>12. CASE PassLabel BY <1>12, PassLabelKeeps
<1>13. CASE BreakStatement \/ ReturnStatement \/ GotoStatement BY <1>13, SignalKeeps
<1>14. CASE LandGoto BY <1>14, LandGotoKeeps
<1>15. CASE LeaveBlock BY <1>15, LeaveBlockKeeps
<1> QED BY <1>1, <1>2, <1>3, <1>4, <1>5, <1>6, <1>7, <1>8, <1>9, <1>10, <1>11, <1>12, <1>13,
           <1>14, <1>15 DEF Step

LEMMA NextKeeps == StateOK /\ [Next]_vars => StateOK'
<1> SUFFICES ASSUME StateOK, [Next]_vars PROVE StateOK' OBVIOUS
<1>1. CASE Next BY <1>1, StepKeeps DEF Next, StepTaken
<1>2. CASE UNCHANGED vars
  <2>1. UNCHANGED <<env, stack, closures, flow, aim, decl, steps>> BY <1>2 DEF vars
  <2>2. EnvsOK' BY <2>1 DEF StateOK, EnvsOK, VariablesKnown, ConstNeverWritten, Forever
  <2>3. Grown(decl, decl') /\ Added(env, env')
    BY <2>1, EnvFacts DEF StateOK, Grown, Added
  <2>4. ControlOK' BY <2>1 DEF StateOK, ControlOK, Aimed, TakesSignal
  <2> QED BY <2>1, <2>2, <2>3, <2>4, SameStack
<1> QED BY <1>1, <1>2

(* The invariant of the evaluator's scopes: environments and blocks nest,   *)
(* the signal is on its way to its aim, and every block, label and closure  *)
(* that evaluation can go on in sees the names of its text, or what has     *)
(* been declared late or left behind.                                       *)
THEOREM Invariance == Spec => []IInv
<1>1. Init => IInv BY InitOK, InvMeans
<1>2. IInv /\ [Next]_vars => IInv'
  <2>1. IInv' <=> StateOK' BY InvMeans, PTL
  <2> QED BY <2>1, NextKeeps, InvMeans
<1> QED BY <1>1, <1>2, PTL DEF Spec

(* Environments are linked to older ones, and blocks, labels and closures   *)
(* refer to environments and declarations that exist.                       *)
THEOREM TypeCorrect == Spec => []TypeOK
<1>1. IInv => TypeOK BY DEF IInv
<1> QED BY <1>1, Invariance, PTL

(* lookup through the chain of environments finds the declaration that is   *)
(* visible by the text of the program, or one executed after the closure    *)
(* was made, or one that a while body or a jump back has left behind.       *)
THEOREM NamesLexical == Spec => []NamesLexicalButLate
<1>1. IInv => NamesLexicalButLate
  <2> SUFFICES ASSUME IInv, Running, NEW x \in Names
               PROVE  Found(Top.env, x) = Top.lex[x] \/ Late(Top.env, x) \/ LeftBehind(Found(Top.env, x))
    BY DEF NamesLexicalButLate
  <2>1. StateOK /\ stack # <<>> BY InvMeans DEF Running
  <2>2. EnvsOK /\ Top.env \in 1 .. Len(env) /\ BlockGoodIn(env, decl, Top, Forever)
    BY <2>1, TopFacts DEF StateOK
  <2>3. SeesIn(env, decl, Top.env, Top.lex, Forever, x) BY <2>2 DEF BlockGoodIn, GoodIn
  <2>4. ~(env[Top.env].vars[x] > Forever)
    <3>1. env[Top.env].vars[x] \in 0 .. Len(decl) BY <2>2 DEF EnvsOK, LexIn
    <3> QED BY <2>2, <3>1, EnvFacts, ForeverFact
  <2> QED BY <2>3, <2>4, LookupIn DEF SeesIn, LeftIn, LeftBehind
<1> QED BY <1>1, Invariance, PTL

(* No assignment to a local, from whatever block or closure, reaches a      *)
(* variable declared <const>: it is refused by name where it is found.      *)
THEOREM ConstsKept == Spec => []ConstNeverWritten
<1>1. IInv => ConstNeverWritten BY DEF IInv
<1> QED BY <1>1, Invariance, PTL

(* The table of globals copied from environment to environment and into     *)
(* closures is that of the innermost local _ENV visible by the text that    *)
(* was given a table; a parameter, a for variable or a local function       *)
(* called _ENV changes it nowhere.  Until the visible _ENV is assigned to,  *)
(* or an _ENV is left behind.                                               *)
THEOREM GlobalsFollow == Spec => []GlobalsFollowEnv
<1>1. IInv => GlobalsFollowEnv
  <2> SUFFICES ASSUME IInv, Running PROVE Follows(Env.env_table, Top.lex)
    BY DEF GlobalsFollowEnv
  <2>1. StateOK /\ stack # <<>> BY InvMeans DEF Running
  <2>2. EnvsOK /\ FollowsIn(decl, Env.env_table, Top.lex) BY <2>1, TopFacts DEF StateOK
  <2>3. DOMAIN decl = 1 .. Len(decl) BY <2>2, EnvFacts
  <2> QED BY <2>2, <2>3 DEF FollowsIn, Follows, EnvLeftIn, EnvLeftBehind
<1> QED BY <1>1, Invariance, PTL

(* Break, Return and Goto leave blocks until the innermost one that takes   *)
(* them, and evaluation goes on nowhere else.                               *)
THEOREM SignalsStop == Spec => SignalsLand
<1>1. IInv /\ [Next]_vars =>
        [flow # "normal" => /\ aim <= Len(stack)
                            /\ flow' = "normal" => Len(stack) = aim]_vars
  <2> SUFFICES ASSUME StateOK, Next, flow # "normal"
               PROVE  aim <= Len(stack) /\ (flow' = "normal" => Len(stack) = aim)
    BY InvMeans
  <2>1. /\ stack # <<>> /\ Len(stack) \in Nat /\ aim \in 1 .. Len(stack)
        /\ aim = Len(stack) <=> LandInBlock(Top) \/ Takes(Top)
    BY TopTakes
  <2>2. LandGoto \/ LeaveBlock
    <3>1. ~Running BY DEF Running
    <3>2. /\ \A x, c, t : ~DeclareLocal(x, c, t)
          /\ \A x : ~AssignLocal(x) /\ ~LocalFunction(x) /\ ~OpenFor(x) /\ ~ForAgain(x)
          /\ \A t : ~AssignEnv(t) /\ ~OpenBlock(t)
          /\ \A c, p : ~CallClosure(c, p)
      BY <3>1 DEF DeclareLocal, AssignLocal, LocalFunction, OpenFor, ForAgain, AssignEnv, CallClosure, OpenBlock
    <3>3. /\ ~MakeClosure /\ ~OpenWhile /\ ~CloseBlock /\ ~LoopEnds /\ ~RepeatAgain /\ ~WhileAgain
          /\ ~PassLabel /\ ~BreakStatement /\ ~ReturnStatement /\ ~GotoStatement
      BY <3>1 DEF MakeClosure, OpenWhile, CloseBlock, LoopEnds, RepeatAgain, WhileAgain, PassLabel,
                  BreakStatement, ReturnStatement, GotoStatement, Signal
    <3> QED BY <3>2, <3>3 DEF Next, Step
  <2>3. CASE LandGoto BY <2>1, <2>3 DEF LandGoto
  <2>4. CASE LeaveBlock BY <2>1, <2>4 DEF LeaveBlock
  <2> QED BY <2>1, <2>2, <2>3, <2>4
<1> QED BY <1>1, Invariance, PTL DEF Spec, SignalsLand
=============================================================================
