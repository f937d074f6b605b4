---------------------------- MODULE SettingsProofs ----------------------------
(***************************************************************************)
(* Proofs about what the settings tab stands for: the update, and the      *)
(* files of AppState, among them the update channel that is chosen there.  *)
(*                                                                         *)
(* The update (UpdateFlow): what an installer must have gone through       *)
(* before it is started, for any set of releases; and which newer releases *)
(* a check can miss, for version numbers of any length: those the two      *)
(* orders of UpdateService place differently (OrdersDiffer).               *)
(* _compare_versions is shown to be a strict order on all versions, so     *)
(* that no update leads back.                                              *)
(*                                                                         *)
(* The files (ConfigStore), for any profiles and layouts: what a crash, a  *)
(* failed save, a reload or a restart may not lose.  The argument follows  *)
(* the writes that are still to be made, which are always the end of a     *)
(* known sequence of saves (Todo, Late), and what each save so far has     *)
(* made of the promise about its file (Choices, Presets, Deletions,        *)
(* Layout).                                                                *)
(***************************************************************************)
EXTENDS UpdateFlow, ConfigStore, FiniteSetTheorems, SequenceTheorems, TLAPS

(* The update *)

-----------------------------------------------------------------------------
(* The order on versions.  Python compares tuples at their first           *)
(* difference; _compare_versions pads the numbers with zeros as far as the *)
(* longer of the two goes, so that two versions are padded differently     *)
(* with each partner.  Compared place by place (Place), where every        *)
(* version goes on with zeros for ever, the padding no longer depends on   *)
(* the partner, and orders can be chained.                                 *)

\* Python's order on tuples whose elements a relation R orders
TupleBefore(R, s, t) ==
  \E i \in 1..Len(t) :
    /\ \A m \in 1..(i - 1) : m \in 1..Len(s) /\ s[m] = t[m]
    /\ i \notin 1..Len(s) \/ <<s[i], t[i]>> \in R

\* A strict order on T
StrictOrder(R, T) ==
  /\ \A a \in T : <<a, a>> \notin R
  /\ \A a, b, c \in T : <<a, b>> \in R /\ <<b, c>> \in R => <<a, c>> \in R

LEMMA TupleIrreflexive ==
  ASSUME NEW T, NEW R, StrictOrder(R, T), NEW s \in Seq(T)
  PROVE  ~TupleBefore(R, s, s)
<1>1. \A i \in 1..Len(s) : s[i] \in T
  OBVIOUS
<1>2. \A i \in 1..Len(s) : <<s[i], s[i]>> \notin R
  BY <1>1 DEF StrictOrder
<1> QED
  BY <1>2 DEF TupleBefore

LEMMA TupleTransitive ==
  ASSUME NEW T, NEW R, StrictOrder(R, T), NEW s \in Seq(T), NEW t \in Seq(T), NEW u \in Seq(T),
         TupleBefore(R, s, t), TupleBefore(R, t, u)
  PROVE  TupleBefore(R, s, u)
<1>1. PICK i \in 1..Len(t) : /\ \A m \in 1..(i - 1) : m \in 1..Len(s) /\ s[m] = t[m]
                             /\ i \notin 1..Len(s) \/ <<s[i], t[i]>> \in R
  BY DEF TupleBefore
<1>2. PICK j \in 1..Len(u) : /\ \A m \in 1..(j - 1) : m \in 1..Len(t) /\ t[m] = u[m]
                             /\ j \notin 1..Len(t) \/ <<t[j], u[j]>> \in R
  BY DEF TupleBefore
<1>3. Len(s) \in Nat /\ Len(t) \in Nat /\ Len(u) \in Nat
  OBVIOUS
<1>4. \A k \in 1..Len(s) : s[k] \in T
  OBVIOUS
<1>5. \A k \in 1..Len(t) : t[k] \in T
  OBVIOUS
<1>6. \A k \in 1..Len(u) : u[k] \in T
  OBVIOUS
<1>7. CASE i < j
  <2>1. i \in 1..Len(u) /\ i \in 1..(j - 1)
    BY <1>1, <1>2, <1>3, <1>7
  <2>2. t[i] = u[i]
    BY <1>2, <2>1
  <2>3. \A m \in 1..(i - 1) : m \in 1..(j - 1)
    BY <1>1, <1>2, <1>3, <1>7
  <2>4. \A m \in 1..(i - 1) : m \in 1..Len(s) /\ s[m] = u[m]
    BY <1>1, <1>2, <2>3
  <2> QED
    BY <1>1, <2>1, <2>2, <2>4 DEF TupleBefore
<1>8. CASE i = j
  <2>1. <<t[i], u[i]>> \in R
    BY <1>1, <1>2, <1>8
  <2>2. i \notin 1..Len(s) \/ <<s[i], u[i]>> \in R
    BY <1>1, <1>2, <1>4, <1>5, <1>6, <1>8, <2>1 DEF StrictOrder
  <2>3. \A m \in 1..(i - 1) : m \in 1..Len(s) /\ s[m] = u[m]
    BY <1>1, <1>2, <1>8
  <2> QED
    BY <1>2, <1>8, <2>2, <2>3 DEF TupleBefore
<1>9. CASE i > j
  <2>1. j \in 1..(i - 1) /\ j \in 1..Len(t)
    BY <1>1, <1>2, <1>3, <1>9
  <2>2. j \in 1..Len(s) /\ s[j] = t[j] /\ <<t[j], u[j]>> \in R
    BY <1>1, <1>2, <2>1
  <2>3. \A m \in 1..(j - 1) : m \in 1..(i - 1)
    BY <1>1, <1>2, <1>3, <1>9
  <2>4. \A m \in 1..(j - 1) : m \in 1..Len(s) /\ s[m] = u[m]
    BY <1>1, <1>2, <2>3
  <2> QED
    BY <1>2, <2>2, <2>4 DEF TupleBefore
<1> QED
  BY <1>1, <1>2, <1>3, <1>7, <1>8, <1>9

\* The orders of the model are of this kind.
Numbers  == {p \in Nat \X Nat : NumberLess(p[1], p[2])}
PreOrder == {p \in Tokens \X Tokens : TokenLess(p[1], p[2])}

LEMMA NumbersOrder == StrictOrder(Numbers, Nat)
BY DEF StrictOrder, Numbers, NumberLess

LEMMA TokensOrder == StrictOrder(PreOrder, Tokens)
<1>1. \A a \in Tokens : ~TokenLess(a, a)
  BY DEF Tokens, TokenLess
<1>2. ASSUME NEW a \in Tokens, NEW b \in Tokens, NEW c \in Tokens, TokenLess(a, b), TokenLess(b, c)
      PROVE  TokenLess(a, c)
  <2>1. /\ a[1] \in Nat /\ a[2] \in Nat /\ b[1] \in Nat /\ b[2] \in Nat /\ c[1] \in Nat /\ c[2] \in Nat
    BY DEF Tokens
  <2> QED
    BY <1>2, <2>1 DEF TokenLess
<1> QED
  BY <1>1, <1>2 DEF StrictOrder, PreOrder

LEMMA NumberTuples ==
  ASSUME NEW s \in Seq(Nat), NEW t \in Seq(Nat)
  PROVE  TupleLess(s, t, NumberLess) <=> TupleBefore(Numbers, s, t)
<1>1. /\ DOMAIN s = 1..Len(s) /\ DOMAIN t = 1..Len(t)
      /\ \A i \in 1..Len(s) : s[i] \in Nat
      /\ \A i \in 1..Len(t) : t[i] \in Nat
  OBVIOUS
<1> QED
  BY <1>1 DEF TupleLess, TupleBefore, Numbers

LEMMA TokenTuples ==
  ASSUME NEW v \in Versions, NEW w \in Versions
  PROVE  PrereleaseLess(v, w) <=> TupleBefore(PreOrder, v.pre, w.pre)
<1>1. v.pre \in Seq(Tokens) /\ w.pre \in Seq(Tokens)
  BY DEF Versions
<1>2. PICK s, t : s = v.pre /\ t = w.pre
  OBVIOUS
<1>3. /\ DOMAIN s = 1..Len(s) /\ DOMAIN t = 1..Len(t)
      /\ \A i \in 1..Len(s) : s[i] \in Tokens
      /\ \A i \in 1..Len(t) : t[i] \in Tokens
  BY <1>1, <1>2
<1>4. TupleLess(s, t, TokenLess) <=> TupleBefore(PreOrder, s, t)
  BY <1>3 DEF TupleLess, TupleBefore, PreOrder
<1> QED
  BY <1>2, <1>4 DEF PrereleaseLess

\* The numbers of a version, with the zeros _compare_versions pads them with
Place(base, i) == IF i \in 1..Len(base) THEN base[i] ELSE 0

BaseOlder(a, b) ==
  \E i \in Nat \ {0} : /\ \A m \in 1..(i - 1) : Place(a, m) = Place(b, m)
                       /\ Place(a, i) < Place(b, i)

SameBase(a, b) == \A i \in Nat \ {0} : Place(a, i) = Place(b, i)

LEMMA PlaceIs == ASSUME NEW a \in Seq(Nat) PROVE \A i \in Nat : Place(a, i) \in Nat
BY DEF Place

LEMMA PaddedIs ==
  ASSUME NEW a \in Seq(Nat), NEW n \in Nat
  PROVE  /\ Padded(a, n) \in Seq(Nat) /\ Len(Padded(a, n)) = n
         /\ \A i \in 1..n : Padded(a, n)[i] = Place(a, i)
<1>1. DOMAIN a = 1..Len(a)
  OBVIOUS
<1>2. Padded(a, n) = [i \in 1..n |-> Place(a, i)]
  BY <1>1 DEF Padded, Place
<1>3. \A i \in 1..n : Place(a, i) \in Nat
  BY PlaceIs
<1> QED
  BY <1>2, <1>3

LEMMA OlderIs ==
  ASSUME NEW v \in Versions, NEW w \in Versions
  PROVE  Older(v, w) <=> \/ BaseOlder(v.base, w.base)
                         \/ /\ SameBase(v.base, w.base)
                            /\ IF v.stable # w.stable THEN w.stable ELSE PrereleaseLess(v, w)
<1>1. PICK a, c, n : a = v.base /\ c = w.base /\ n = PadLength(v, w)
  OBVIOUS
<1>2. a \in Seq(Nat) /\ c \in Seq(Nat)
  BY <1>1 DEF Versions
<1>3. n \in Nat /\ Len(a) <= n /\ Len(c) <= n /\ Len(a) \in Nat /\ Len(c) \in Nat
  BY <1>1, <1>2 DEF PadLength
<1>4. PICK p, q : p = Padded(a, n) /\ q = Padded(c, n)
  OBVIOUS
<1>5. /\ p \in Seq(Nat) /\ Len(p) = n /\ \A i \in 1..n : p[i] = Place(a, i)
      /\ q \in Seq(Nat) /\ Len(q) = n /\ \A i \in 1..n : q[i] = Place(c, i)
  BY <1>2, <1>3, <1>4, PaddedIs
<1>6. \A i \in Nat \ {0} : i \notin 1..n => Place(a, i) = 0 /\ Place(c, i) = 0
  BY <1>3 DEF Place
<1>7. p = q <=> SameBase(a, c)
  <2>1. ASSUME p = q PROVE SameBase(a, c)
    BY <1>5, <1>6, <2>1 DEF SameBase
  <2>2. ASSUME SameBase(a, c) PROVE p = q
    <3>1. \A i \in 1..n : p[i] = q[i]
      BY <1>3, <1>5, <2>2 DEF SameBase
    <3> QED
      BY <1>5, <3>1, SeqEqual
  <2> QED
    BY <2>1, <2>2
<1>8. TupleBefore(Numbers, p, q) <=> BaseOlder(a, c)
  <2>1. ASSUME TupleBefore(Numbers, p, q) PROVE BaseOlder(a, c)
    <3>1. PICK i \in 1..n : /\ \A m \in 1..(i - 1) : p[m] = q[m]
                            /\ i \notin 1..n \/ <<p[i], q[i]>> \in Numbers
      BY <1>5, <2>1 DEF TupleBefore
    <3>2. p[i] < q[i]
      BY <3>1 DEF Numbers, NumberLess
    <3>3. i \in Nat \ {0} /\ \A m \in 1..(i - 1) : m \in 1..n
      BY <1>3, <3>1
    <3> QED
      BY <1>5, <3>1, <3>2, <3>3 DEF BaseOlder
  <2>2. ASSUME BaseOlder(a, c) PROVE TupleBefore(Numbers, p, q)
    <3>1. PICK i \in Nat \ {0} : /\ \A m \in 1..(i - 1) : Place(a, m) = Place(c, m)
                                 /\ Place(a, i) < Place(c, i)
      BY <2>2 DEF BaseOlder
    <3>2. i \in 1..n
      BY <1>6, <3>1
    <3>3. \A m \in 1..(i - 1) : m \in 1..n
      BY <1>3, <3>1, <3>2
    <3>4. p[i] \in Nat /\ q[i] \in Nat /\ p[i] < q[i]
      BY <1>5, <3>1, <3>2
    <3>5. <<p[i], q[i]>> \in Numbers
      BY <3>4 DEF Numbers, NumberLess
    <3> QED
      BY <1>5, <3>1, <3>2, <3>3, <3>5 DEF TupleBefore
  <2> QED
    BY <2>1, <2>2
<1>9. TupleLess(p, q, NumberLess) <=> TupleBefore(Numbers, p, q)
  BY <1>5, NumberTuples
<1>10. BaseOlder(a, c) => ~SameBase(a, c)
  <2>1. \A i \in Nat \ {0} : Place(a, i) \in Nat /\ Place(c, i) \in Nat
    BY <1>2, PlaceIs
  <2> QED
    BY <2>1 DEF BaseOlder, SameBase
<1>11. Older(v, w) <=> IF p # q THEN TupleLess(p, q, NumberLess)
                       ELSE IF v.stable # w.stable THEN w.stable
                       ELSE PrereleaseLess(v, w)
  BY <1>1, <1>4 DEF Older
<1> QED
  BY <1>1, <1>7, <1>8, <1>9, <1>10, <1>11

\* The bases of versions, compared place by place
LEMMA BasesOrdered ==
  ASSUME NEW a \in Seq(Nat), NEW b \in Seq(Nat), NEW c \in Seq(Nat)
  PROVE  /\ ~BaseOlder(a, a) /\ SameBase(a, a)
         /\ SameBase(a, b) /\ SameBase(b, c) => SameBase(a, c)
         /\ BaseOlder(a, b) /\ BaseOlder(b, c) => BaseOlder(a, c)
         /\ BaseOlder(a, b) /\ SameBase(b, c) => BaseOlder(a, c)
         /\ SameBase(a, b) /\ BaseOlder(b, c) => BaseOlder(a, c)
<1>1. /\ \A i \in Nat : Place(a, i) \in Nat
      /\ \A i \in Nat : Place(b, i) \in Nat
      /\ \A i \in Nat : Place(c, i) \in Nat
  BY PlaceIs
<1>2. ~BaseOlder(a, a) /\ SameBase(a, a)
  BY <1>1 DEF BaseOlder, SameBase
<1>3. SameBase(a, b) /\ SameBase(b, c) => SameBase(a, c)
  BY DEF SameBase
<1>4. ASSUME BaseOlder(a, b), BaseOlder(b, c) PROVE BaseOlder(a, c)
  <2>1. PICK i \in Nat \ {0} : /\ \A m \in 1..(i - 1) : Place(a, m) = Place(b, m)
                               /\ Place(a, i) < Place(b, i)
    BY <1>4 DEF BaseOlder
  <2>2. PICK j \in Nat \ {0} : /\ \A m \in 1..(j - 1) : Place(b, m) = Place(c, m)
                               /\ Place(b, j) < Place(c, j)
    BY <1>4 DEF BaseOlder
  <2>3. CASE i < j
    <3>1. i \in 1..(j - 1) /\ \A m \in 1..(i - 1) : m \in 1..(j - 1)
      BY <2>3
    <3>2. Place(a, i) < Place(c, i) /\ \A m \in 1..(i - 1) : Place(a, m) = Place(c, m)
      BY <2>1, <2>2, <3>1
    <3> QED
      BY <3>2 DEF BaseOlder
  <2>4. CASE i = j
    <3>1. Place(a, i) < Place(c, i)
      BY <1>1, <2>1, <2>2, <2>4
    <3>2. \A m \in 1..(i - 1) : Place(a, m) = Place(c, m)
      BY <2>1, <2>2, <2>4
    <3> QED
      BY <3>1, <3>2 DEF BaseOlder
  <2>5. CASE i > j
    <3>1. j \in 1..(i - 1) /\ \A m \in 1..(j - 1) : m \in 1..(i - 1)
      BY <2>5
    <3>2. Place(a, j) < Place(c, j) /\ \A m \in 1..(j - 1) : Place(a, m) = Place(c, m)
      BY <2>1, <2>2, <3>1
    <3> QED
      BY <3>2 DEF BaseOlder
  <2> QED
    BY <2>3, <2>4, <2>5
<1>5. ASSUME BaseOlder(a, b), SameBase(b, c) PROVE BaseOlder(a, c)
  <2>1. PICK i \in Nat \ {0} : /\ \A m \in 1..(i - 1) : Place(a, m) = Place(b, m)
                               /\ Place(a, i) < Place(b, i)
    BY <1>5 DEF BaseOlder
  <2>2. Place(a, i) < Place(c, i) /\ \A m \in 1..(i - 1) : Place(a, m) = Place(c, m)
    BY <1>5, <2>1 DEF SameBase
  <2> QED
    BY <2>2 DEF BaseOlder
<1>6. ASSUME SameBase(a, b), BaseOlder(b, c) PROVE BaseOlder(a, c)
  <2>1. PICK i \in Nat \ {0} : /\ \A m \in 1..(i - 1) : Place(b, m) = Place(c, m)
                               /\ Place(b, i) < Place(c, i)
    BY <1>6 DEF BaseOlder
  <2>2. Place(a, i) < Place(c, i) /\ \A m \in 1..(i - 1) : Place(a, m) = Place(c, m)
    BY <1>6, <2>1 DEF SameBase
  <2> QED
    BY <2>2 DEF BaseOlder
<1> QED
  BY <1>2, <1>3, <1>4, <1>5, <1>6

\* _compare_versions is a strict order on all versions, of any number of parts and
\* with any prerelease words: no version is newer than itself, and newer than newer
\* is newer.
THEOREM OlderIsAnOrder ==
  /\ \A v \in Versions : ~Older(v, v)
  /\ \A v, w, x \in Versions : Older(v, w) /\ Older(w, x) => Older(v, x)
<1>1. ASSUME NEW v \in Versions PROVE ~Older(v, v)
  <2>1. v.base \in Seq(Nat) /\ v.pre \in Seq(Tokens)
    BY DEF Versions
  <2>2. ~BaseOlder(v.base, v.base) /\ ~TupleBefore(PreOrder, v.pre, v.pre)
    BY <2>1, BasesOrdered, TokensOrder, TupleIrreflexive
  <2> QED
    BY <2>2, OlderIs, TokenTuples
<1>2. ASSUME NEW v \in Versions, NEW w \in Versions, NEW x \in Versions, Older(v, w), Older(w, x)
      PROVE  Older(v, x)
  <2>1. /\ v.base \in Seq(Nat) /\ w.base \in Seq(Nat) /\ x.base \in Seq(Nat)
        /\ v.pre \in Seq(Tokens) /\ w.pre \in Seq(Tokens) /\ x.pre \in Seq(Tokens)
        /\ v.stable \in BOOLEAN /\ w.stable \in BOOLEAN /\ x.stable \in BOOLEAN
    BY DEF Versions
  <2>2. PrereleaseLess(v, w) /\ PrereleaseLess(w, x) => PrereleaseLess(v, x)
    BY <2>1, TokensOrder, TupleTransitive, TokenTuples
  <2>3. \/ BaseOlder(v.base, w.base)
        \/ /\ SameBase(v.base, w.base)
           /\ IF v.stable # w.stable THEN w.stable ELSE PrereleaseLess(v, w)
    BY <1>2, OlderIs
  <2>4. \/ BaseOlder(w.base, x.base)
        \/ /\ SameBase(w.base, x.base)
           /\ IF w.stable # x.stable THEN x.stable ELSE PrereleaseLess(w, x)
    BY <1>2, OlderIs
  <2>5. \/ BaseOlder(v.base, x.base)
        \/ /\ SameBase(v.base, x.base) /\ SameBase(v.base, w.base) /\ SameBase(w.base, x.base)
           /\ IF v.stable # w.stable THEN w.stable ELSE PrereleaseLess(v, w)
           /\ IF w.stable # x.stable THEN x.stable ELSE PrereleaseLess(w, x)
    BY <2>1, <2>3, <2>4, BasesOrdered
  <2>6. /\ IF v.stable # w.stable THEN w.stable ELSE PrereleaseLess(v, w)
        /\ IF w.stable # x.stable THEN x.stable ELSE PrereleaseLess(w, x)
        => IF v.stable # x.stable THEN x.stable ELSE PrereleaseLess(v, x)
    BY <2>1, <2>2
  <2>7. BaseOlder(v.base, x.base)
        \/ (SameBase(v.base, x.base) /\ IF v.stable # x.stable THEN x.stable ELSE PrereleaseLess(v, x))
    BY <2>5, <2>6
  <2> QED
    BY <2>7, OlderIs
<1> QED
  BY <1>1, <1>2

\* A minimal element of a set of natural numbers
LEMMA LeastNumber ==
  ASSUME NEW D \in SUBSET Nat, D # {}
  PROVE  \E i \in D : \A m \in 0..(i - 1) : m \notin D
<1>1. \E i \in D : \A m \in D : ~(<<m, i>> \in OpToRel(<, Nat))
  BY NatLessThanWellFounded, WFMin
<1>2. PICK i \in D : \A m \in D : ~(<<m, i>> \in {p \in Nat \X Nat : p[1] < p[2]})
  BY <1>1 DEF OpToRel
<1>3. ASSUME NEW m \in 0..(i - 1) PROVE m \notin D
  <2>1. i \in Nat /\ m \in Nat /\ m < i
    BY <1>2
  <2> QED
    BY <1>2, <2>1
<1> QED
  BY <1>2, <1>3

\* A total order of the elements makes the order of the tuples total.
LEMMA TupleTotal ==
  ASSUME NEW T, NEW R, \A a, b \in T : a = b \/ <<a, b>> \in R \/ <<b, a>> \in R,
         NEW s \in Seq(T), NEW t \in Seq(T), s # t
  PROVE  TupleBefore(R, s, t) \/ TupleBefore(R, t, s)
<1>1. PICK m, n : m = Len(s) /\ n = Len(t)
  OBVIOUS
<1>2. m \in Nat /\ n \in Nat
  BY <1>1
<1>3. PICK D : D = {i \in Nat \ {0} : /\ i \in 1..m \/ i \in 1..n
                                    /\ ~(i \in 1..m /\ i \in 1..n /\ s[i] = t[i])}
  OBVIOUS
<1>4. D # {}
  <2>1. SUFFICES ASSUME D = {} PROVE FALSE
    OBVIOUS
  <2>2. \A i \in Nat \ {0} : i \in 1..m \/ i \in 1..n => i \in 1..m /\ i \in 1..n /\ s[i] = t[i]
    BY <1>3, <2>1
  <2>3. m = n
    BY <1>2, <2>2
  <2>4. \A i \in 1..m : s[i] = t[i]
    BY <1>2, <2>2
  <2> QED
    BY <1>1, <2>3, <2>4, SeqEqual
<1>5. PICK i \in D : \A k \in 0..(i - 1) : k \notin D
  BY <1>3, <1>4, LeastNumber
<1>6. i \in Nat \ {0} /\ (i \in 1..m \/ i \in 1..n) /\ ~(i \in 1..m /\ i \in 1..n /\ s[i] = t[i])
  BY <1>3, <1>5
<1>7. \A k \in 1..(i - 1) : k \in 1..m /\ k \in 1..n /\ s[k] = t[k]
  <2>1. TAKE k \in 1..(i - 1)
  <2>2. k \in Nat \ {0} /\ k \in 0..(i - 1) /\ (k \in 1..m \/ k \in 1..n)
    BY <1>2, <1>6
  <2> QED
    BY <1>3, <1>5, <2>2
<1>8. CASE i \in 1..m /\ i \in 1..n
  <2>1. s[i] \in T /\ t[i] \in T /\ s[i] # t[i]
    BY <1>1, <1>6, <1>8
  <2>2. <<s[i], t[i]>> \in R \/ <<t[i], s[i]>> \in R
    BY <2>1
  <2> QED
    BY <1>1, <1>7, <1>8, <2>2 DEF TupleBefore
<1>9. CASE i \notin 1..m
  BY <1>1, <1>6, <1>7, <1>9 DEF TupleBefore
<1>10. CASE i \notin 1..n
  BY <1>1, <1>6, <1>7, <1>10 DEF TupleBefore
<1> QED
  BY <1>8, <1>9, <1>10

LEMMA ElementsTotal ==
  /\ \A a, b \in Nat : a = b \/ <<a, b>> \in Numbers \/ <<b, a>> \in Numbers
  /\ \A a, b \in Tokens : a = b \/ <<a, b>> \in PreOrder \/ <<b, a>> \in PreOrder
<1>1. \A a, b \in Nat : a = b \/ <<a, b>> \in Numbers \/ <<b, a>> \in Numbers
  BY DEF Numbers, NumberLess
<1>2. ASSUME NEW a \in Tokens, NEW b \in Tokens PROVE a = b \/ TokenLess(a, b) \/ TokenLess(b, a)
  <2>1. /\ a = <<a[1], a[2]>> /\ b = <<b[1], b[2]>>
        /\ a[1] \in Nat /\ a[2] \in Nat /\ b[1] \in Nat /\ b[2] \in Nat
    BY DEF Tokens
  <2> QED
    BY <2>1 DEF TokenLess
<1> QED
  BY <1>1, <1>2 DEF PreOrder

\* Versions that differ at most in zeros at the end of their numbers
Alike(v, w) == SameBase(v.base, w.base) /\ v.stable = w.stable /\ v.pre = w.pre

LEMMA BasesTotal ==
  ASSUME NEW a \in Seq(Nat), NEW b \in Seq(Nat)
  PROVE  SameBase(a, b) \/ BaseOlder(a, b) \/ BaseOlder(b, a)
<1>1. /\ \A i \in Nat : Place(a, i) \in Nat
      /\ \A i \in Nat : Place(b, i) \in Nat
  BY PlaceIs
<1>2. SUFFICES ASSUME ~SameBase(a, b) PROVE BaseOlder(a, b) \/ BaseOlder(b, a)
  OBVIOUS
<1>3. PICK D : D = {i \in Nat \ {0} : Place(a, i) # Place(b, i)}
  OBVIOUS
<1>4. D # {} /\ D \in SUBSET Nat
  BY <1>2, <1>3 DEF SameBase
<1>5. PICK i \in D : \A k \in 0..(i - 1) : k \notin D
  BY <1>4, LeastNumber
<1>6. i \in Nat \ {0} /\ Place(a, i) # Place(b, i)
  BY <1>3, <1>5
<1>7. \A k \in 1..(i - 1) : Place(a, k) = Place(b, k)
  BY <1>3, <1>5, <1>6
<1>8. Place(a, i) < Place(b, i) \/ Place(b, i) < Place(a, i)
  BY <1>1, <1>6
<1> QED
  BY <1>6, <1>7, <1>8 DEF BaseOlder

\* Two versions of which _compare_versions calls neither the newer are the same up to
\* zeros at the end, so that "no newer release" says that the newest one is running.
THEOREM OlderIsTotal ==
  \A v, w \in Versions : Alike(v, w) \/ Older(v, w) \/ Older(w, v)
<1>1. SUFFICES ASSUME NEW v \in Versions, NEW w \in Versions
               PROVE  Alike(v, w) \/ Older(v, w) \/ Older(w, v)
  OBVIOUS
<1>2. /\ v.base \in Seq(Nat) /\ w.base \in Seq(Nat)
      /\ v.pre \in Seq(Tokens) /\ w.pre \in Seq(Tokens)
      /\ v.stable \in BOOLEAN /\ w.stable \in BOOLEAN
  BY DEF Versions
<1>3. SameBase(v.base, w.base) => SameBase(w.base, v.base)
  BY DEF SameBase
<1>4. SameBase(v.base, w.base) \/ BaseOlder(v.base, w.base) \/ BaseOlder(w.base, v.base)
  BY <1>2, BasesTotal
<1>5. v.pre = w.pre \/ PrereleaseLess(v, w) \/ PrereleaseLess(w, v)
  BY <1>2, ElementsTotal, TupleTotal, TokenTuples
<1>6. Older(v, w) <=> \/ BaseOlder(v.base, w.base)
                      \/ /\ SameBase(v.base, w.base)
                         /\ IF v.stable # w.stable THEN w.stable ELSE PrereleaseLess(v, w)
  BY OlderIs
<1>7. Older(w, v) <=> \/ BaseOlder(w.base, v.base)
                      \/ /\ SameBase(w.base, v.base)
                         /\ IF w.stable # v.stable THEN v.stable ELSE PrereleaseLess(w, v)
  BY OlderIs
<1> QED
  BY <1>2, <1>3, <1>4, <1>5, <1>6, <1>7 DEF Alike

\* _version_sort_key
LEMMA SortsIs ==
  ASSUME NEW v \in Versions, NEW w \in Versions
  PROVE  SortsBefore(v, w) <=>
           IF v.base # w.base THEN TupleBefore(Numbers, v.base, w.base)
           ELSE IF v.stable # w.stable THEN w.stable
           ELSE TupleBefore(PreOrder, v.pre, w.pre)
<1>1. v.base \in Seq(Nat) /\ w.base \in Seq(Nat)
  BY DEF Versions
<1> QED
  BY <1>1, NumberTuples, TokenTuples DEF SortsBefore

\* _version_sort_key is a strict order too, and tells any two versions apart, those that
\* differ only in zeros included.
THEOREM SortingIsTotal ==
  /\ \A v \in Versions : ~SortsBefore(v, v)
  /\ \A v, w, x \in Versions : SortsBefore(v, w) /\ SortsBefore(w, x) => SortsBefore(v, x)
  /\ \A v, w \in Versions : v = w \/ SortsBefore(v, w) \/ SortsBefore(w, v)
<1>1. ASSUME NEW v \in Versions PROVE ~SortsBefore(v, v)
  <2>1. v.pre \in Seq(Tokens)
    BY DEF Versions
  <2>2. ~TupleBefore(PreOrder, v.pre, v.pre)
    BY <2>1, TokensOrder, TupleIrreflexive
  <2> QED
    BY <2>2, SortsIs
<1>2. ASSUME NEW v \in Versions, NEW w \in Versions, NEW x \in Versions,
             SortsBefore(v, w), SortsBefore(w, x)
      PROVE  SortsBefore(v, x)
  <2>1. /\ v.base \in Seq(Nat) /\ w.base \in Seq(Nat) /\ x.base \in Seq(Nat)
        /\ v.pre \in Seq(Tokens) /\ w.pre \in Seq(Tokens) /\ x.pre \in Seq(Tokens)
        /\ v.stable \in BOOLEAN /\ w.stable \in BOOLEAN /\ x.stable \in BOOLEAN
    BY DEF Versions
  <2>2. IF v.base # w.base THEN TupleBefore(Numbers, v.base, w.base)
        ELSE IF v.stable # w.stable THEN w.stable ELSE TupleBefore(PreOrder, v.pre, w.pre)
    BY <1>2, SortsIs
  <2>3. IF w.base # x.base THEN TupleBefore(Numbers, w.base, x.base)
        ELSE IF w.stable # x.stable THEN x.stable ELSE TupleBefore(PreOrder, w.pre, x.pre)
    BY <1>2, SortsIs
  <2>4. TupleBefore(Numbers, v.base, w.base) /\ TupleBefore(Numbers, w.base, x.base)
          => TupleBefore(Numbers, v.base, x.base)
    BY <2>1, NumbersOrder, TupleTransitive
  <2>5. TupleBefore(PreOrder, v.pre, w.pre) /\ TupleBefore(PreOrder, w.pre, x.pre)
          => TupleBefore(PreOrder, v.pre, x.pre)
    BY <2>1, TokensOrder, TupleTransitive
  <2>6. ~TupleBefore(Numbers, v.base, v.base)
    BY <2>1, NumbersOrder, TupleIrreflexive
  <2>7. IF v.base # x.base THEN TupleBefore(Numbers, v.base, x.base)
        ELSE IF v.stable # x.stable THEN x.stable ELSE TupleBefore(PreOrder, v.pre, x.pre)
    <3>1. CASE v.base # w.base \/ w.base # x.base
      <4>1. TupleBefore(Numbers, v.base, x.base)
        BY <2>2, <2>3, <2>4, <3>1
      <4> QED
        BY <2>6, <4>1
    <3>2. CASE v.base = w.base /\ w.base = x.base
      BY <2>1, <2>2, <2>3, <2>5, <3>2
    <3> QED
      BY <3>1, <3>2
  <2> QED
    BY <2>7, SortsIs
<1>3. ASSUME NEW v \in Versions, NEW w \in Versions, v # w
      PROVE  SortsBefore(v, w) \/ SortsBefore(w, v)
  <2>1. /\ v.base \in Seq(Nat) /\ w.base \in Seq(Nat)
        /\ v.pre \in Seq(Tokens) /\ w.pre \in Seq(Tokens)
        /\ v.stable \in BOOLEAN /\ w.stable \in BOOLEAN
    BY DEF Versions
  <2>2. v.base # w.base \/ v.stable # w.stable \/ v.pre # w.pre
    <3>1. /\ v = [base |-> v.base, stable |-> v.stable, pre |-> v.pre]
          /\ w = [base |-> w.base, stable |-> w.stable, pre |-> w.pre]
      BY ZenonT(30) DEF Versions
    <3> QED
      BY <1>3, <3>1, ZenonT(30)
  <2>3. v.base # w.base => TupleBefore(Numbers, v.base, w.base) \/ TupleBefore(Numbers, w.base, v.base)
    BY <2>1, ElementsTotal, TupleTotal
  <2>4. v.pre # w.pre => TupleBefore(PreOrder, v.pre, w.pre) \/ TupleBefore(PreOrder, w.pre, v.pre)
    BY <2>1, ElementsTotal, TupleTotal
  <2>5. /\ SortsBefore(v, w) <=> IF v.base # w.base THEN TupleBefore(Numbers, v.base, w.base)
                                 ELSE IF v.stable # w.stable THEN w.stable
                                 ELSE TupleBefore(PreOrder, v.pre, w.pre)
        /\ SortsBefore(w, v) <=> IF w.base # v.base THEN TupleBefore(Numbers, w.base, v.base)
                                 ELSE IF w.stable # v.stable THEN v.stable
                                 ELSE TupleBefore(PreOrder, w.pre, v.pre)
    BY SortsIs
  <2> QED
    BY <2>1, <2>2, <2>3, <2>4, <2>5
<1> QED
  BY <1>1, <1>2, <1>3

\* If _compare_versions calls w newer and _version_sort_key does not put it first, the
\* numbers of v are those of w and zeros.
LEMMA PassedOver ==
  ASSUME NEW v \in Versions, NEW w \in Versions, Older(v, w), ~SortsBefore(v, w)
  PROVE  WrittenShorter(w, v)
<1>1. PICK a, c : a = v.base /\ c = w.base
  OBVIOUS
<1>2. a \in Seq(Nat) /\ c \in Seq(Nat)
  BY <1>1 DEF Versions
<1>3. BaseOlder(a, c) \/ SameBase(a, c)
  BY <1>1, OlderIs
<1>4. a # c
  <2>1. ~BaseOlder(a, a)
    BY <1>2, BasesOrdered
  <2>2. ASSUME a = c PROVE FALSE
    <3>1. IF v.stable # w.stable THEN w.stable ELSE PrereleaseLess(v, w)
      BY <1>1, <2>1, <2>2, OlderIs
    <3> QED
      BY <1>1, <2>2, <3>1 DEF SortsBefore
  <2> QED
    BY <2>2
<1>5. TupleBefore(Numbers, c, a)
  <2>1. ~TupleBefore(Numbers, a, c)
    BY <1>1, <1>4, SortsIs
  <2> QED
    BY <1>2, <1>4, <2>1, ElementsTotal, TupleTotal
<1>6. PICK i \in 1..Len(a) : /\ \A m \in 1..(i - 1) : m \in 1..Len(c) /\ c[m] = a[m]
                             /\ i \notin 1..Len(c) \/ <<c[i], a[i]>> \in Numbers
  BY <1>5 DEF TupleBefore
<1>7. Len(a) \in Nat /\ Len(c) \in Nat /\ i \in Nat \ {0}
  BY <1>2, <1>6
<1>8. \A m \in 1..(i - 1) : Place(c, m) = Place(a, m)
  <2>1. \A m \in 1..(i - 1) : m \in 1..Len(a) /\ m \in 1..Len(c)
    BY <1>6, <1>7
  <2>2. \A m \in 1..(i - 1) : c[m] = a[m]
    BY <1>6
  <2> QED
    BY <2>1, <2>2 DEF Place
<1>9. i \notin 1..Len(c)
  <2>1. ASSUME i \in 1..Len(c) PROVE FALSE
    <3>1. c[i] < a[i]
      BY <1>6, <2>1 DEF Numbers, NumberLess
    <3>2. Place(c, i) < Place(a, i)
      BY <1>6, <2>1, <3>1 DEF Place
    <3>3. BaseOlder(c, a)
      BY <1>7, <1>8, <3>2 DEF BaseOlder
    <3>4. BaseOlder(c, c)
      <4>1. SameBase(a, c) => SameBase(c, a)
        BY DEF SameBase
      <4> QED
        BY <1>2, <1>3, <3>3, BasesOrdered
    <3> QED
      BY <1>2, <3>4, BasesOrdered
  <2> QED
    BY <2>1
<1>10. Len(c) < Len(a) /\ i = Len(c) + 1
  <2>1. Len(c) < i /\ i <= Len(a)
    BY <1>6, <1>7, <1>9
  <2>2. i - 1 <= Len(c)
    <3>1. ASSUME i # 1 PROVE i - 1 \in 1..(i - 1)
      BY <1>7, <3>1
    <3>2. i # 1 => i - 1 \in 1..Len(c)
      BY <1>6, <3>1
    <3> QED
      BY <1>7, <3>2
  <2> QED
    BY <1>7, <2>1, <2>2
<1>11. SameBase(a, c)
  <2>1. ASSUME BaseOlder(a, c) PROVE FALSE
    <3>1. PICK n \in Nat \ {0} : Place(a, n) < Place(c, n)
      BY <2>1 DEF BaseOlder
    <3>2. Place(a, n) \in Nat /\ Place(c, n) \in Nat
      BY <1>2, <3>1, PlaceIs
    <3>3. n \in 1..Len(c)
      BY <3>1, <3>2 DEF Place
    <3>4. Place(c, n) = Place(a, n)
      BY <1>7, <1>8, <1>10, <3>3
    <3> QED
      BY <3>1, <3>2, <3>4
  <2> QED
    BY <1>3, <2>1
<1>12. Padded(c, Len(a)) = a
  <2>1. PICK p : p = Padded(c, Len(a))
    OBVIOUS
  <2>2. p \in Seq(Nat) /\ Len(p) = Len(a) /\ \A n \in 1..Len(a) : p[n] = Place(c, n)
    BY <1>2, <1>7, <2>1, PaddedIs
  <2>3. \A n \in 1..Len(a) : Place(c, n) = a[n]
    BY <1>7, <1>11 DEF SameBase, Place
  <2> QED
    BY <1>2, <2>1, <2>2, <2>3, SeqEqual
<1> QED
  BY <1>1, <1>10, <1>12 DEF WrittenShorter

\* Where the two orders differ: _version_sort_key misplaces a version that
\* _compare_versions calls newer exactly if its numbers are those of the other one short
\* of zeros at the end, and it is newer by what follows the numbers.
THEOREM OrdersDiffer ==
  \A v, w \in Versions :
    Older(v, w) /\ ~SortsBefore(v, w) <=>
      /\ WrittenShorter(w, v)
      /\ IF v.stable # w.stable THEN w.stable ELSE PrereleaseLess(v, w)
<1> SUFFICES ASSUME NEW v \in Versions, NEW w \in Versions
             PROVE  Older(v, w) /\ ~SortsBefore(v, w) <=>
                      /\ WrittenShorter(w, v)
                      /\ IF v.stable # w.stable THEN w.stable ELSE PrereleaseLess(v, w)
  OBVIOUS
<1>1. PICK a, c, rank : /\ a = v.base /\ c = w.base
                        /\ rank = IF v.stable # w.stable THEN w.stable ELSE PrereleaseLess(v, w)
  OBVIOUS
<1>2. a \in Seq(Nat) /\ c \in Seq(Nat)
  BY <1>1 DEF Versions
<1>3. Older(v, w) <=> BaseOlder(a, c) \/ (SameBase(a, c) /\ rank)
  BY <1>1, OlderIs
<1>4. ASSUME WrittenShorter(w, v) PROVE SameBase(a, c) /\ ~SortsBefore(v, w)
  <2>1. Len(c) < Len(a) /\ Padded(c, Len(a)) = a /\ Len(a) \in Nat /\ Len(c) \in Nat
    BY <1>1, <1>2, <1>4 DEF WrittenShorter
  <2>2. \A i \in 1..Len(a) : a[i] = Place(c, i)
    <3>1. PICK n \in Nat : n = Len(a)
      BY <2>1
    <3>2. \A i \in 1..n : Padded(c, n)[i] = Place(c, i)
      BY <1>2, PaddedIs
    <3> QED
      BY <2>1, <3>1, <3>2
  <2>3. SameBase(a, c)
    BY <2>1, <2>2 DEF SameBase, Place
  <2>4. ~TupleBefore(Numbers, a, c)
    <3>1. SUFFICES ASSUME NEW i \in 1..Len(c), i \notin 1..Len(a) \/ <<a[i], c[i]>> \in Numbers
                   PROVE  FALSE
      BY DEF TupleBefore
    <3>2. i \in 1..Len(a)
      BY <2>1
    <3>3. a[i] = c[i] /\ c[i] \in Nat
      BY <1>2, <2>2, <3>2 DEF Place
    <3>4. a[i] < c[i]
      BY <3>1, <3>2 DEF Numbers, NumberLess
    <3> QED
      BY <3>3, <3>4
  <2>5. a # c
    BY <2>1
  <2> QED
    BY <1>1, <2>3, <2>4, <2>5, SortsIs
<1>5. ASSUME Older(v, w), ~SortsBefore(v, w) PROVE WrittenShorter(w, v) /\ rank
  <2>1. WrittenShorter(w, v)
    BY <1>5, PassedOver
  <2>2. SameBase(a, c)
    BY <1>4, <2>1
  <2>3. ~BaseOlder(a, c)
    <3>1. SameBase(c, a)
      BY <2>2 DEF SameBase
    <3> QED
      BY <1>2, <3>1, BasesOrdered
  <2> QED
    BY <1>3, <1>5, <2>1, <2>3
<1> QED
  BY <1>1, <1>3, <1>4, <1>5

\* Of any candidates _fetch_release picks one, and whatever the order of the list it
\* is of the same version; by well-founded induction on the finite sets of releases.
THEOREM SomethingIsPicked ==
  \A c \in SUBSET Releases : IsFiniteSet(c) /\ c # {} =>
    /\ Newest(c) # {}
    /\ \A r, q \in Newest(c) : r.version = q.version
<1>0. \A r \in Releases : r.version \in Versions
  BY UpdateAssumption
<1>1. ASSUME NEW c \in SUBSET Releases, IsFiniteSet(c), c # {} PROVE Newest(c) # {}
  <2>1. PICK Bad : Bad = {d \in FiniteSubsetsOf(Releases) : d # {} /\ Newest(d) = {}}
    OBVIOUS
  <2>2. SUFFICES ASSUME Bad # {} PROVE FALSE
    BY <1>1, <2>1 DEF FiniteSubsetsOf
  <2>3. PICK d \in Bad : \A e \in Bad : ~(<<e, d>> \in StrictSubsetOrdering(Releases))
    BY <2>1, <2>2, FS_StrictSubsetOrderingWellFounded, WFMin
  <2>4. d \subseteq Releases /\ IsFiniteSet(d) /\ d # {} /\ Newest(d) = {}
    BY <2>1, <2>3 DEF FiniteSubsetsOf
  <2>5. PICK r \in d : TRUE
    BY <2>4
  <2>6. PICK e : e = {q \in d : SortsBefore(r.version, q.version)}
    OBVIOUS
  <2>7. r \in Releases /\ ~SortsBefore(r.version, r.version)
    BY <1>0, <2>4, <2>5, SortingIsTotal
  <2>8. e \subseteq d /\ r \notin e /\ e # {}
    BY <2>4, <2>5, <2>6, <2>7 DEF Newest
  <2>9. IsFiniteSet(e)
    BY <2>4, <2>8, FS_Subset
  <2>10. <<e, d>> \in StrictSubsetOrdering(Releases)
    BY <2>4, <2>5, <2>8 DEF StrictSubsetOrdering
  <2>11. Newest(e) # {}
    BY <2>1, <2>3, <2>4, <2>8, <2>9, <2>10 DEF FiniteSubsetsOf
  <2>12. PICK t \in e : \A q \in e : ~SortsBefore(t.version, q.version)
    BY <2>11 DEF Newest
  <2>13. t \in d /\ t \in Releases /\ SortsBefore(r.version, t.version)
    BY <2>4, <2>6, <2>12
  <2>14. \A q \in d : SortsBefore(t.version, q.version) => q \in e
    <3>1. TAKE q \in d
    <3>2. HAVE SortsBefore(t.version, q.version)
    <3>3. SortsBefore(r.version, q.version)
      BY <1>0, <2>4, <2>7, <2>13, <3>2, SortingIsTotal
    <3> QED
      BY <2>6, <3>3
  <2>15. t \in Newest(d)
    BY <2>12, <2>13, <2>14 DEF Newest
  <2> QED
    BY <2>4, <2>15
<1>2. ASSUME NEW c \in SUBSET Releases, NEW r \in Newest(c), NEW q \in Newest(c) PROVE r.version = q.version
  <2>1. r \in c /\ q \in c /\ ~SortsBefore(r.version, q.version) /\ ~SortsBefore(q.version, r.version)
    BY <1>2 DEF Newest
  <2>2. r.version \in Versions /\ q.version \in Versions
    BY <1>0, <2>1
  <2> QED
    BY <2>1, <2>2, SortingIsTotal
<1> QED
  BY <1>1, <1>2

-----------------------------------------------------------------------------
(* Verification before execution.  OnlyVerifiedUpdatesRun is about the end *)
(* of a chain of jobs and questions; the inductive invariant follows a     *)
(* release along it, from the check that picks it to the installer.        *)

\* What check_for_updates requires of a release it offers
Good(r) == r \in Releases /\ ~r.draft /\ Offered(r)

JobsSound ==
  \A k \in Slots :
    /\ job[k].op = "check" /\ job[k].pc = "result" => job[k].rel \in Releases /\ ~job[k].rel.draft
    /\ job[k].op = "download" /\ job[k].pc # "none" => Good(job[k].rel)
    /\ job[k].op = "download" /\ job[k].pc = "result" => job[k].content = "published"
QuestionsSound ==
  \A i \in DOMAIN prompts :
    Good(prompts[i].rel) /\ (prompts[i].kind = "install" => prompts[i].content = "published")
LaunchedSound == \A l \in launched : Good(l.rel) /\ l.content = "published"

Chain == TypeOK /\ JobsSound /\ QuestionsSound /\ LaunchedSound

\* Opening a question about a sound offer leaves every open question sound.
LEMMA AppendQuestion ==
  ASSUME NEW S, NEW q \in Seq(S), NEW e \in S
  PROVE  /\ Append(q, e) \in Seq(S)
         /\ DOMAIN Append(q, e) = 1..(Len(q) + 1) /\ DOMAIN q = 1..Len(q) /\ Len(q) \in Nat
         /\ \A i \in 1..Len(q) : Append(q, e)[i] = q[i]
         /\ Append(q, e)[Len(q) + 1] = e
OBVIOUS

\* Answering the innermost question leaves the others as they were.
LEMMA DropQuestion ==
  ASSUME NEW S, NEW q \in Seq(S), q # <<>>
  PROVE  /\ SubSeq(q, 1, Len(q) - 1) \in Seq(S)
         /\ Len(q) \in DOMAIN q /\ q[Len(q)] \in S
         /\ \A i \in DOMAIN SubSeq(q, 1, Len(q) - 1) :
              i \in DOMAIN q /\ SubSeq(q, 1, Len(q) - 1)[i] = q[i]
OBVIOUS

JobType ==
  [op : {"check", "download"}, pc : {"none", "run", "result", "error", "done"},
   feed : SUBSET Releases, beta : BOOLEAN, rel : Releases \cup {None}, content : Contents]

\* The chain of trust holds before the first check.
LEMMA ChainInit == Init => Chain
<1> SUFFICES ASSUME Init PROVE Chain
  OBVIOUS
<1>1. TypeOK
  <2>1. NoJob \in JobType
    BY DEF NoJob, JobType, Contents
  <2>2. job \in [Slots -> JobType] /\ \A k \in Slots : job[k].pc # "result"
    BY <2>1 DEF Init, NoJob
  <2>3. {busy, timer, stacked} \subseteq BOOLEAN
    BY DEF Init
  <2> QED
    BY <2>2, <2>3 DEF Init, TypeOK, JobType
<1>2. JobsSound
  BY DEF Init, JobsSound, NoJob
<1>3. QuestionsSound /\ LaunchedSound
  BY DEF Init, QuestionsSound, LaunchedSound
<1> QED
  BY <1>1, <1>2, <1>3 DEF Chain

\* One job changes into one that is sound
LEMMA JobChanges ==
  ASSUME Chain, NEW k \in Slots, NEW new \in JobType, job' = [job EXCEPT ![k] = new],
         new.pc = "result" => new.rel # None,
         new.op = "check" /\ new.pc = "result" => new.rel \in Releases /\ ~new.rel.draft,
         new.op = "download" /\ new.pc # "none" => Good(new.rel),
         new.op = "download" /\ new.pc = "result" => new.content = "published"
  PROVE  /\ job' \in [Slots -> JobType]
         /\ \A l \in Slots : job'[l].pc = "result" => job'[l].rel # None
         /\ JobsSound'
<1>1. job \in [Slots -> JobType]
  BY DEF Chain, TypeOK, JobType
<1>2. job' \in [Slots -> JobType] /\ job'[k] = new /\ \A l \in Slots \ {k} : job'[l] = job[l]
  BY <1>1
<1>3. \A l \in Slots : job'[l].pc = "result" => job'[l].rel # None
  BY <1>2 DEF Chain, TypeOK
<1>4. JobsSound'
  BY <1>2 DEF Chain, JobsSound, Good, Offered, InstallReady, Older
<1> QED
  BY <1>2, <1>3, <1>4

\* Steps that leave questions and installers alone
LEMMA JobsOnly ==
  ASSUME Chain, job' \in [Slots -> JobType],
         \A l \in Slots : job'[l].pc = "result" => job'[l].rel # None,
         JobsSound',
         UNCHANGED <<prompts, launched, app>>, {busy', timer', stacked'} \subseteq BOOLEAN
  PROVE  Chain'
<1>1. TypeOK'
  BY DEF Chain, TypeOK, JobType
<1>2. QuestionsSound' /\ LaunchedSound'
  BY DEF Chain, QuestionsSound, LaunchedSound, Good, Offered, InstallReady, Older
<1> QED
  BY <1>1, <1>2 DEF Chain

\* Submitting a check keeps the chain of trust.
LEMMA SubmitSound ==
  ASSUME Chain, NEW k \in Slots, NEW op \in {"check", "download"}, NEW beta \in BOOLEAN,
         NEW r \in Releases \cup {None}, op = "download" => Good(r), Submit(k, NewJob(op, beta, r))
  PROVE  /\ job' \in [Slots -> JobType]
         /\ \A l \in Slots : job'[l].pc = "result" => job'[l].rel # None
         /\ JobsSound'
<1>1. NewJob(op, beta, r) \in JobType
  BY DEF NewJob, JobType, Contents
<1>2. NewJob(op, beta, r).pc = "run" /\ NewJob(op, beta, r).op = op /\ NewJob(op, beta, r).rel = r
  BY DEF NewJob
<1>3. job' = [job EXCEPT ![k] = NewJob(op, beta, r)]
  BY DEF Submit
<1> HIDE DEF NewJob
<1> QED
  BY <1>1, <1>2, <1>3, JobChanges

\* A job moves on to a phase that promises nothing new, dropping what it likes of its feed
LEMMA JobMoves ==
  ASSUME Chain, NEW k \in Slots, NEW pc \in {"error", "done"}, NEW feed \in SUBSET Releases, job[k].pc # "none",
         job' = [job EXCEPT ![k] = [job[k] EXCEPT !.pc = pc, !.feed = feed]]
  PROVE  /\ job' \in [Slots -> JobType]
         /\ \A l \in Slots : job'[l].pc = "result" => job'[l].rel # None
         /\ JobsSound'
<1> DEFINE new == [job[k] EXCEPT !.pc = pc, !.feed = feed]
<1>1. job[k] \in JobType
  BY DEF Chain, TypeOK, JobType
<1>2. new \in JobType /\ new.pc = pc /\ new.op = job[k].op /\ new.rel = job[k].rel
  BY <1>1 DEF JobType
<1>3. new.op = "download" => Good(new.rel)
  BY <1>2 DEF Chain, JobsSound
<1> HIDE DEF new
<1>4. job' = [job EXCEPT ![k] = new]
  BY DEF new
<1> QED
  BY <1>2, <1>3, <1>4, JobChanges

\* A step of an update job in its worker thread keeps the chain of trust.
LEMMA WorkSound == ASSUME Chain, NEW k \in Slots, Work(k) PROVE Chain'
<1>1. job[k] \in JobType /\ {busy, timer, stacked} \subseteq BOOLEAN
  BY DEF Chain, TypeOK, JobType
<1>2. CASE Fetch(k)
  <2>a. PICK feed \in SUBSET Releases :
          \E r \in Newest(Candidates(feed, job[k].beta)) :
            job' = [job EXCEPT ![k].pc = "result", ![k].feed = feed, ![k].rel = r]
    BY <1>2 DEF Fetch
  <2>b. PICK r \in Newest(Candidates(feed, job[k].beta)) :
          job' = [job EXCEPT ![k].pc = "result", ![k].feed = feed, ![k].rel = r]
    BY <2>a
  <2>1. job' = [job EXCEPT ![k] = [job[k] EXCEPT !.pc = "result", !.feed = feed, !.rel = r]]
    BY <2>b, <1>1 DEF Chain, TypeOK
  <2>2. r \in Releases /\ ~r.draft /\ r # None
    BY UpdateAssumption DEF Newest, Candidates
  <2> DEFINE new == [job[k] EXCEPT !.pc = "result", !.feed = feed, !.rel = r]
  <2>3. new \in JobType /\ new.op = "check" /\ new.rel = r
    BY <1>1, <1>2, <2>2 DEF JobType, Fetch
  <2>4. job' = [job EXCEPT ![k] = new]
    BY <2>1
  <2> HIDE DEF new
  <2>5. /\ job' \in [Slots -> JobType]
        /\ \A l \in Slots : job'[l].pc = "result" => job'[l].rel # None
        /\ JobsSound'
    BY <2>2, <2>3, <2>4, JobChanges
  <2> QED
    BY <1>1, <1>2, <2>5, JobsOnly DEF Fetch
<1>3. CASE Download(k)
  <2>1. PICK content \in {"published", "other"} :
          job' = [job EXCEPT ![k] = [job[k] EXCEPT
                    !.pc = IF Verified(job[k].rel, content) THEN "result" ELSE "error", !.content = content]]
    BY <1>1, <1>3, ZenonT(30) DEF Download, Chain, TypeOK
  <2> DEFINE new == [job[k] EXCEPT
                    !.pc = IF Verified(job[k].rel, content) THEN "result" ELSE "error", !.content = content]
  <2>2. /\ new \in JobType /\ new.op = "download" /\ new.rel = job[k].rel
        /\ new.pc = "result" => new.content = "published"
    BY <1>1, <1>3 DEF JobType, Download, Verified, Contents
  <2>3. Good(new.rel) /\ new.rel # None
    BY <1>3, <2>2, UpdateAssumption DEF Chain, JobsSound, Download, Good
  <2>4. job' = [job EXCEPT ![k] = new]
    BY <2>1
  <2> HIDE DEF new
  <2>5. /\ job' \in [Slots -> JobType]
        /\ \A l \in Slots : job'[l].pc = "result" => job'[l].rel # None
        /\ JobsSound'
    BY <2>2, <2>3, <2>4, JobChanges
  <2> QED
    BY <1>1, <1>3, <2>5, JobsOnly DEF Download
<1>4. CASE Raise(k)
  <2>1. job' = [job EXCEPT ![k] = [job[k] EXCEPT !.pc = "error", !.feed = job[k].feed]]
    BY <1>1, <1>4 DEF Raise, Chain, TypeOK, JobType
  <2>2. job[k].feed \in SUBSET Releases /\ job[k].pc # "none"
    BY <1>1, <1>4 DEF JobType, Raise
  <2>3. /\ job' \in [Slots -> JobType]
        /\ \A l \in Slots : job'[l].pc = "result" => job'[l].rel # None
        /\ JobsSound'
    BY <2>1, <2>2, JobMoves
  <2> QED
    BY <1>1, <1>4, <2>3, JobsOnly DEF Raise
<1> QED
  BY <1>2, <1>3, <1>4 DEF Work

\* A sound question is opened
LEMMA AskSound ==
  ASSUME Chain, NEW q \in Questions, Good(q.rel), q.kind = "install" => q.content = "published", Ask(q)
  PROVE  prompts' \in Seq(Questions) /\ QuestionsSound' /\ stacked' \in BOOLEAN
<1>1. prompts \in Seq(Questions) /\ prompts' = Append(prompts, q) /\ stacked \in BOOLEAN
  BY DEF Chain, TypeOK, Ask
<1>2. /\ prompts' \in Seq(Questions)
      /\ DOMAIN prompts' = 1..(Len(prompts) + 1) /\ DOMAIN prompts = 1..Len(prompts) /\ Len(prompts) \in Nat
      /\ \A i \in 1..Len(prompts) : prompts'[i] = prompts[i]
      /\ prompts'[Len(prompts) + 1] = q
  BY <1>1, AppendQuestion
<1>3. ASSUME NEW i \in DOMAIN prompts'
      PROVE  Good(prompts'[i].rel) /\ (prompts'[i].kind = "install" => prompts'[i].content = "published")
  <2>1. CASE i = Len(prompts) + 1
    BY <1>2, <2>1
  <2>2. CASE i \in DOMAIN prompts
    BY <1>2, <2>2 DEF Chain, QuestionsSound
  <2> QED
    BY <1>2, <2>1, <2>2
<1>4. QuestionsSound'
  BY <1>3 DEF QuestionsSound, Good, Offered, InstallReady, Older
<1> QED
  BY <1>1, <1>2, <1>4 DEF Ask

\* The delivery of the outcome of an update job keeps the chain of trust.
LEMMA CallbackSound == ASSUME Chain, NEW k \in Slots, Callback(k) PROVE Chain'
<1>1. /\ job[k] \in JobType /\ {busy, timer, stacked} \subseteq BOOLEAN
      /\ job \in [Slots -> JobType] /\ prompts \in Seq(Questions)
      /\ launched \subseteq [rel : Releases, content : Contents] /\ app \in {"up", "closing", "gone"}
  BY DEF Chain, TypeOK, JobType
<1>2. ASSUME job[k].pc # "none", NEW feed \in SUBSET Releases,
             job' = [job EXCEPT ![k] = [job[k] EXCEPT !.pc = "done", !.feed = feed]]
      PROVE  /\ job' \in [Slots -> JobType]
             /\ \A l \in Slots : job'[l].pc = "result" => job'[l].rel # None
             /\ JobsSound'
  BY <1>2, JobMoves
<1>3. LaunchedSound' <=> \A l \in launched' : Good(l.rel) /\ l.content = "published"
  BY DEF LaunchedSound, Good, Offered, InstallReady, Older
<1>4. CASE OnChecked(k)
  <2>1. job' = [job EXCEPT ![k] = [job[k] EXCEPT !.pc = "done", !.feed = {}]]
    BY <1>1, <1>4 DEF OnChecked
  <2>2. /\ job' \in [Slots -> JobType]
        /\ \A l \in Slots : job'[l].pc = "result" => job'[l].rel # None
        /\ JobsSound'
    <3>1. job[k].pc # "none" /\ {} \in SUBSET Releases
      BY <1>4 DEF OnChecked
    <3> QED
      BY <1>2, <2>1, <3>1
  <2>3. CASE Offered(job[k].rel)
    <3> DEFINE q == [kind |-> "offer", rel |-> job[k].rel, content |-> "none"]
    <3>1. Ask(q)
      BY <1>4, <2>3 DEF OnChecked
    <3>2. Good(job[k].rel)
      BY <1>4, <2>3 DEF OnChecked, Chain, JobsSound, Good
    <3>3. q \in Questions /\ q.rel = job[k].rel /\ q.kind = "offer"
      BY <3>2 DEF Questions, Contents, Good
    <3> HIDE DEF q
    <3>4. prompts' \in Seq(Questions) /\ QuestionsSound' /\ stacked' \in BOOLEAN
      BY <3>1, <3>2, <3>3, AskSound
    <3>5. TypeOK'
      BY <1>1, <1>4, <2>2, <3>4 DEF TypeOK, OnChecked, JobType
    <3>6. LaunchedSound'
      BY <1>3, <1>4 DEF OnChecked, Chain, LaunchedSound
    <3> QED
      BY <2>2, <3>4, <3>5, <3>6 DEF Chain
  <2>4. CASE ~Offered(job[k].rel)
    BY <1>1, <1>4, <2>2, <2>4, JobsOnly DEF OnChecked
  <2> QED
    BY <2>3, <2>4
<1>5. CASE OnDownloaded(k)
  <2>1. job' = [job EXCEPT ![k] = [job[k] EXCEPT !.pc = "done", !.feed = job[k].feed]]
    BY <1>1, <1>5 DEF OnDownloaded, JobType
  <2>2. /\ job' \in [Slots -> JobType]
        /\ \A l \in Slots : job'[l].pc = "result" => job'[l].rel # None
        /\ JobsSound'
    <3>1. job[k].pc # "none" /\ job[k].feed \in SUBSET Releases
      BY <1>1, <1>5 DEF OnDownloaded, JobType
    <3> QED
      BY <1>2, <2>1, <3>1
  <2> DEFINE q == [kind |-> "install", rel |-> job[k].rel, content |-> job[k].content]
  <2>3. Ask(q) /\ Good(job[k].rel) /\ job[k].content = "published"
    BY <1>5 DEF OnDownloaded, Chain, JobsSound
  <2>4. q \in Questions /\ q.rel = job[k].rel /\ q.content = "published"
    BY <2>3 DEF Questions, Contents, Good
  <2> HIDE DEF q
  <2>5. prompts' \in Seq(Questions) /\ QuestionsSound' /\ stacked' \in BOOLEAN
    BY <2>3, <2>4, AskSound
  <2>6. TypeOK'
    BY <1>1, <1>5, <2>2, <2>5 DEF TypeOK, OnDownloaded, JobType
  <2>7. LaunchedSound'
    BY <1>3, <1>5 DEF OnDownloaded, Chain, LaunchedSound
  <2> QED
    BY <2>2, <2>5, <2>6, <2>7 DEF Chain
<1>6. CASE OnError(k)
  <2>1. job' = [job EXCEPT ![k] = [job[k] EXCEPT !.pc = "done", !.feed = job[k].feed]]
    BY <1>1, <1>6 DEF OnError, JobType
  <2>2. job[k].pc # "none" /\ job[k].feed \in SUBSET Releases
    BY <1>1, <1>6 DEF OnError, JobType
  <2>3. /\ job' \in [Slots -> JobType]
        /\ \A l \in Slots : job'[l].pc = "result" => job'[l].rel # None
        /\ JobsSound'
    BY <1>2, <2>1, <2>2
  <2> QED
    BY <1>1, <1>6, <2>3, JobsOnly DEF OnError
<1>7. CASE OnFinished(k)
  <2>1. NoJob \in JobType /\ NoJob.pc = "none" /\ job' = [job EXCEPT ![k] = NoJob]
    BY <1>7 DEF OnFinished, NoJob, JobType, Contents
  <2> HIDE DEF NoJob
  <2>2. /\ job' \in [Slots -> JobType]
        /\ \A l \in Slots : job'[l].pc = "result" => job'[l].rel # None
        /\ JobsSound'
    BY <2>1, JobChanges
  <2> QED
    BY <1>1, <1>7, <2>2, JobsOnly DEF OnFinished, BusyAfter
<1> QED
  BY <1>4, <1>5, <1>6, <1>7 DEF Callback

\* The innermost question is answered; what it was about is sound
LEMMA AnswerSound ==
  ASSUME Chain, prompts # <<>>, NEW closing \in BOOLEAN, Answered(closing)
  PROVE  /\ prompts' \in Seq(Questions) /\ QuestionsSound' /\ app' \in {"up", "closing", "gone"}
         /\ Top \in Questions /\ Good(Top.rel)
         /\ Top.kind = "install" => Top.content = "published"
<1>1. prompts \in Seq(Questions) /\ app \in {"up", "closing", "gone"}
  BY DEF Chain, TypeOK
<1>2. /\ prompts' \in Seq(Questions) /\ Len(prompts) \in DOMAIN prompts /\ prompts[Len(prompts)] \in Questions
      /\ \A i \in DOMAIN prompts' : i \in DOMAIN prompts /\ prompts'[i] = prompts[i]
  BY <1>1, DropQuestion DEF Answered
<1>3. QuestionsSound'
  <2>1. \A i \in DOMAIN prompts' :
          Good(prompts'[i].rel) /\ (prompts'[i].kind = "install" => prompts'[i].content = "published")
    BY <1>2 DEF Chain, QuestionsSound
  <2> QED
    BY <2>1 DEF QuestionsSound, Good, Offered, InstallReady, Older
<1> QED
  BY <1>1, <1>2, <1>3 DEF Answered, Top, Chain, QuestionsSound

\* Every step keeps the chain of trust.
LEMMA ChainStep == Chain /\ [Next]_vars => Chain'
<1> SUFFICES ASSUME Chain, [Next]_vars PROVE Chain'
  OBVIOUS
<1>1. /\ job \in [Slots -> JobType] /\ {busy, timer, stacked} \subseteq BOOLEAN
      /\ launched \subseteq [rel : Releases, content : Contents]
      /\ \A l \in Slots : job[l].pc = "result" => job[l].rel # None
  BY DEF Chain, TypeOK, JobType
<1>2. ASSUME NEW k \in Slots, StartCheck(k), UNCHANGED <<prompts, launched, app, stacked>>, timer' \in BOOLEAN
      PROVE  Chain'
  <2>1. PICK beta \in BOOLEAN : Submit(k, NewJob("check", beta, None))
    BY <1>2 DEF StartCheck
  <2>2. /\ job' \in [Slots -> JobType]
        /\ \A l \in Slots : job'[l].pc = "result" => job'[l].rel # None
        /\ JobsSound'
    BY <2>1, SubmitSound
  <2>3. busy' \in BOOLEAN
    BY <2>1 DEF Submit
  <2> QED
    BY <1>1, <1>2, <2>2, <2>3, JobsOnly
<1>3. ASSUME UNCHANGED job PROVE JobsSound'
  BY <1>3 DEF Chain, JobsSound, Good, Offered, InstallReady, Older
<1>4. ASSUME UNCHANGED launched PROVE LaunchedSound'
  BY <1>4 DEF Chain, LaunchedSound, Good, Offered, InstallReady, Older
<1>5. ASSUME NEW k \in Slots, ManualCheck(k) PROVE Chain'
  BY <1>1, <1>2, <1>5 DEF ManualCheck
<1>6. CASE StartupTimer
  <2>1. CASE \E k \in Slots : StartCheck(k)
    BY <1>1, <1>2, <1>6, <2>1 DEF StartupTimer
  <2>2. CASE UNCHANGED <<job, busy>>
    BY <1>1, <1>3, <1>6, <2>2, JobsOnly DEF StartupTimer
  <2> QED
    BY <1>6, <2>1, <2>2 DEF StartupTimer
<1>7. CASE AnswerNo
  <2>1. prompts' \in Seq(Questions) /\ QuestionsSound' /\ app' \in {"up", "closing", "gone"}
    BY <1>7, AnswerSound DEF AnswerNo
  <2>2. TypeOK'
    BY <1>1, <1>7, <2>1 DEF AnswerNo, TypeOK, JobType
  <2> QED
    BY <1>3, <1>4, <1>7, <2>1, <2>2 DEF AnswerNo, Chain
<1>8. ASSUME NEW k \in Slots, AcceptOffer(k) PROVE Chain'
  <2>1. /\ prompts' \in Seq(Questions) /\ QuestionsSound' /\ app' \in {"up", "closing", "gone"}
        /\ Top \in Questions /\ Good(Top.rel)
    BY <1>8, AnswerSound DEF AcceptOffer
  <2>2. Top.rel \in Releases \cup {None} /\ Submit(k, NewJob("download", FALSE, Top.rel))
    BY <1>8, <2>1 DEF AcceptOffer, Good
  <2>3. /\ job' \in [Slots -> JobType]
        /\ \A l \in Slots : job'[l].pc = "result" => job'[l].rel # None
        /\ JobsSound'
    BY <2>1, <2>2, SubmitSound
  <2>4. {busy', timer', stacked'} \subseteq BOOLEAN
    BY <1>1, <1>8 DEF AcceptOffer, Submit
  <2>5. TypeOK'
    BY <1>1, <1>8, <2>1, <2>3, <2>4 DEF AcceptOffer, TypeOK, JobType
  <2> QED
    BY <1>4, <1>8, <2>1, <2>3, <2>5 DEF AcceptOffer, Chain
<1>9. CASE AcceptInstall
  <2>1. /\ prompts' \in Seq(Questions) /\ QuestionsSound' /\ app' \in {"up", "closing", "gone"}
        /\ Top \in Questions /\ Good(Top.rel) /\ Top.content = "published"
    BY <1>9, AnswerSound DEF AcceptInstall
  <2>2. launched' = launched \/ launched' = launched \cup {[rel |-> Top.rel, content |-> Top.content]}
    BY <1>9 DEF AcceptInstall
  <2>3. launched' \subseteq [rel : Releases, content : Contents]
    BY <1>1, <2>1, <2>2 DEF Questions
  <2>4. \A l \in launched' : Good(l.rel) /\ l.content = "published"
    BY <2>1, <2>2 DEF Chain, LaunchedSound
  <2>5. LaunchedSound'
    BY <2>4 DEF LaunchedSound, Good, Offered, InstallReady, Older
  <2>6. TypeOK'
    BY <1>1, <1>9, <2>1, <2>3 DEF AcceptInstall, TypeOK, JobType
  <2> QED
    BY <1>3, <1>9, <2>1, <2>5, <2>6 DEF AcceptInstall, Chain
<1>10. CASE UNCHANGED vars
  BY <1>1, <1>3, <1>10, JobsOnly DEF vars
<1> QED
  BY <1>5, <1>6, <1>7, <1>8, <1>9, <1>10, WorkSound, CallbackSound DEF Next

\* The chain of trust holds in every reachable state: Chain, the inductive invariant.
LEMMA ChainHolds == Spec => []Chain
BY ChainInit, ChainStep, PTL DEF Spec

\* Every variable keeps its type: TypeOK of UpdateFlow.
THEOREM TypeCorrect == Spec => []TypeOK
<1>1. Chain => TypeOK
  BY DEF Chain
<1> QED
  BY <1>1, ChainHolds, PTL

\* README.md, "an installer is run only if it passes the SHA-256 check after the
\* download": OnlyVerifiedUpdatesRun, for any releases, jobs and questions.
THEOREM InstallersAreVerified == Spec => []OnlyVerifiedUpdatesRun
<1>1. Chain => OnlyVerifiedUpdatesRun
  BY DEF Chain, LaunchedSound, OnlyVerifiedUpdatesRun, Good, Offered
<1> QED
  BY <1>1, ChainHolds, PTL

\* _compare_versions, asked the other way round by the program that an update has
\* brought, does not find the replaced one to be newer.
NoWayBack == \A l \in launched : ~Older(l.rel.version, Current) /\ l.rel.version # Current

\* Updates cannot go in a circle, whatever the versions look like: NoWayBack.
THEOREM UpdatesGoForward == Spec => []NoWayBack
<1>1. Chain => NoWayBack
  <2>1. SUFFICES ASSUME Chain, NEW l \in launched
                 PROVE  ~Older(l.rel.version, Current) /\ l.rel.version # Current
    BY DEF NoWayBack
  <2>2. l.rel \in Releases /\ Older(Current, l.rel.version)
    BY <2>1 DEF Chain, LaunchedSound, Good, Offered
  <2>3. l.rel.version \in Versions /\ Current \in Versions
    BY <2>2, UpdateAssumption
  <2>4. ~Older(Current, Current)
    BY <2>3, OlderIsAnOrder
  <2>5. ~Older(l.rel.version, Current)
    BY <2>2, <2>3, <2>4, OlderIsAnOrder
  <2> QED
    BY <2>2, <2>4, <2>5
<1> QED
  BY <1>1, ChainHolds, PTL

\* The user is only ever asked about newer, published and verifiable releases:
\* QuestionsAreAboutUpdates.
THEOREM QuestionsAreSound == Spec => []QuestionsAreAboutUpdates
<1>1. Chain => QuestionsAreAboutUpdates
  BY DEF Chain, QuestionsSound, QuestionsAreAboutUpdates, Good, Offered, InstallReady
<1> QED
  BY <1>1, ChainHolds, PTL

-----------------------------------------------------------------------------
(* The newest release.  The release picked is the last by the sort key;    *)
(* OrdersDiffer says what the comparison may still call newer.             *)

PickedFor(r, feed, beta) ==
  r \in Releases /\ \A q \in Candidates(feed, beta) : ~SortsBefore(r.version, q.version)

PickIsNewest ==
  \A k \in Slots :
    job[k].op = "check" /\ job[k].rel # None => PickedFor(job[k].rel, job[k].feed, job[k].beta)

\* Nothing has been picked before the first check.
LEMMA PickInit == Init => PickIsNewest
BY DEF Init, PickIsNewest, NoJob

\* Every step keeps PickIsNewest.
LEMMA PickStep == TypeOK /\ PickIsNewest /\ [Next]_vars => PickIsNewest'
<1> SUFFICES ASSUME TypeOK, PickIsNewest, [Next]_vars PROVE PickIsNewest'
  OBVIOUS
<1>1. job \in [Slots -> JobType]
  BY DEF TypeOK, JobType
<1>2. ASSUME NEW k \in Slots, NEW new, job' = [job EXCEPT ![k] = new],
             new.op = "check" /\ new.rel # None => PickedFor(new.rel, new.feed, new.beta)
      PROVE  PickIsNewest'
  <2>1. job'[k] = new /\ \A l \in Slots \ {k} : job'[l] = job[l]
    BY <1>1, <1>2
  <2>2. \A l \in Slots : job'[l].op = "check" /\ job'[l].rel # None
                          => PickedFor(job'[l].rel, job'[l].feed, job'[l].beta)
    BY <2>1, <1>2 DEF PickIsNewest
  <2> QED
    BY <2>2 DEF PickIsNewest, PickedFor, Candidates, SortsBefore
<1>3. ASSUME NEW k \in Slots, Fetch(k) PROVE PickIsNewest'
  <2>1. PICK feed \in SUBSET Releases :
          \E r \in Newest(Candidates(feed, job[k].beta)) :
            job' = [job EXCEPT ![k].pc = "result", ![k].feed = feed, ![k].rel = r]
    BY <1>3 DEF Fetch
  <2>2. PICK r \in Newest(Candidates(feed, job[k].beta)) :
          job' = [job EXCEPT ![k].pc = "result", ![k].feed = feed, ![k].rel = r]
    BY <2>1
  <2> DEFINE new == [job[k] EXCEPT !.pc = "result", !.feed = feed, !.rel = r]
  <2>3. job' = [job EXCEPT ![k] = new]
    BY <2>2, <1>1
  <2>4. new.rel = r /\ new.feed = feed /\ new.beta = job[k].beta
    BY <1>1 DEF JobType
  <2>5. PickedFor(r, feed, job[k].beta)
    BY DEF PickedFor, Newest, Candidates
  <2> HIDE DEF new
  <2> QED
    BY <2>3, <2>4, <2>5, <1>2
<1>4. ASSUME NEW k \in Slots, Download(k) \/ Raise(k) \/ OnDownloaded(k) \/ OnError(k) PROVE PickIsNewest'
  <2>1. \A l \in Slots : /\ job'[l].op = job[l].op /\ job'[l].rel = job[l].rel
                         /\ job'[l].feed = job[l].feed /\ job'[l].beta = job[l].beta
    BY <1>1, <1>4 DEF Download, Raise, OnDownloaded, OnError, JobType
  <2>2. \A l \in Slots : job'[l].op = "check" /\ job'[l].rel # None
                          => PickedFor(job'[l].rel, job'[l].feed, job'[l].beta)
    BY <2>1 DEF PickIsNewest
  <2> QED
    BY <2>2 DEF PickIsNewest, PickedFor, Candidates, SortsBefore
<1>5. ASSUME NEW k \in Slots, OnChecked(k) PROVE PickIsNewest'
  <2> DEFINE new == [job[k] EXCEPT !.pc = "done", !.feed = {}]
  <2>1. job' = [job EXCEPT ![k] = new]
    BY <1>1, <1>5 DEF OnChecked
  <2>2. new.rel = job[k].rel /\ new.op = job[k].op /\ new.feed = {} /\ new.beta = job[k].beta
    BY <1>1 DEF JobType
  <2>3. new.op = "check" /\ new.rel # None => PickedFor(new.rel, new.feed, new.beta)
    BY <2>2 DEF PickIsNewest, PickedFor, Candidates
  <2> HIDE DEF new
  <2> QED
    BY <2>1, <2>3, <1>2
<1>6. ASSUME NEW k \in Slots, OnFinished(k) PROVE PickIsNewest'
  <2>1. job' = [job EXCEPT ![k] = NoJob] /\ NoJob.rel = None
    BY <1>6 DEF OnFinished, NoJob
  <2> QED
    BY <2>1, <1>2
<1>7. ASSUME NEW k \in Slots, StartCheck(k) \/ AcceptOffer(k) PROVE PickIsNewest'
  <2>1. \E op \in {"check", "download"}, beta \in BOOLEAN, r \in {None, Top.rel} :
          (op = "check" => r = None) /\ Submit(k, NewJob(op, beta, r))
    BY <1>7 DEF StartCheck, AcceptOffer
  <2>2. PICK op \in {"check", "download"}, beta \in BOOLEAN, r \in {None, Top.rel} :
          (op = "check" => r = None) /\ Submit(k, NewJob(op, beta, r))
    BY <2>1
  <2>3. NewJob(op, beta, r).op = op /\ NewJob(op, beta, r).rel = r
    BY DEF NewJob
  <2>4. job' = [job EXCEPT ![k] = NewJob(op, beta, r)]
    BY <2>2 DEF Submit
  <2> HIDE DEF NewJob
  <2> QED
    BY <2>2, <2>3, <2>4, <1>2
<1>8. ASSUME UNCHANGED job PROVE PickIsNewest'
  BY <1>8 DEF PickIsNewest, PickedFor, Candidates, SortsBefore
<1>9. CASE StartupTimer \/ AnswerNo \/ AcceptInstall \/ UNCHANGED vars
  BY <1>7, <1>8, <1>9 DEF StartupTimer, AnswerNo, AcceptInstall, vars
<1>10. ASSUME NEW k \in Slots, ManualCheck(k) PROVE PickIsNewest'
  BY <1>7, <1>10 DEF ManualCheck
<1> QED
  BY <1>3, <1>4, <1>5, <1>6, <1>7, <1>9, <1>10 DEF Next, Work, Callback

\* Whatever releases are listed and however many numbers their tags have, no check passes
\* over a release that _compare_versions calls newer, unless its numbers are those of the
\* release picked without zeros at the end: NothingNewerMissed.
THEOREM NewestIsPicked == Spec => []NothingNewerMissed
<1>1. TypeOK /\ PickIsNewest => NothingNewerMissed
  <2> SUFFICES ASSUME TypeOK, PickIsNewest, NEW k \in Slots, job[k].op = "check", job[k].rel # None,
                      NEW q \in Candidates(job[k].feed, job[k].beta),
                      Older(job[k].rel.version, q.version)
               PROVE  WrittenShorter(q.version, job[k].rel.version)
    BY DEF NothingNewerMissed
  <2>1. job[k].rel \in Releases /\ ~SortsBefore(job[k].rel.version, q.version)
    BY DEF PickIsNewest, PickedFor
  <2>2. q \in Releases
    BY DEF Candidates, TypeOK
  <2>3. job[k].rel.version \in Versions /\ q.version \in Versions
    BY <2>1, <2>2, UpdateAssumption
  <2> QED
    BY <2>1, <2>3, OrdersDiffer
<1>2. Spec => []PickIsNewest
  BY PickInit, PickStep, TypeCorrect, PTL DEF Spec
<1> QED
  BY <1>1, <1>2, TypeCorrect, PTL

-----------------------------------------------------------------------------
(* One job at a time.  The buttons and the timer look at _update_busy,     *)
(* AcceptOffer does not: that it starts the only job is what ~stacked says *)
(* of the questions.                                                       *)

BusyIsTheJob ==
  ~stacked => /\ \A k, l \in Slots : job[k].pc # "none" /\ job[l].pc # "none" => k = l
              /\ busy <=> \E k \in Slots : job[k].pc # "none"

\* A job starts when none is alive, as long as nothing is stacked.
LEMMA SubmitAlone ==
  ASSUME TypeOK, BusyIsTheJob, NEW k \in Slots, NEW fields, fields.pc = "run", Submit(k, fields),
         ~stacked' => ~stacked /\ \A l \in Slots : job[l].pc = "none"
  PROVE  BusyIsTheJob'
<1>1. /\ busy' = TRUE /\ job'[k].pc = "run"
      /\ \A l \in Slots \ {k} : job'[l] = job[l]
  BY DEF Submit, TypeOK
<1> QED
  BY <1>1 DEF BusyIsTheJob

\* Every step keeps BusyIsTheJob.
LEMMA BusyStep == TypeOK /\ BusyIsTheJob /\ [Next]_vars => BusyIsTheJob'
<1> SUFFICES ASSUME TypeOK, BusyIsTheJob, [Next]_vars PROVE BusyIsTheJob'
  OBVIOUS
<1>1. job \in [Slots -> JobType] /\ busy \in BOOLEAN /\ stacked \in BOOLEAN
  BY DEF TypeOK, JobType
<1>2. ASSUME NEW k \in Slots, StartCheck(k), ~busy, UNCHANGED stacked PROVE BusyIsTheJob'
  <2>1. PICK beta \in BOOLEAN : Submit(k, NewJob("check", beta, None))
    BY <1>2 DEF StartCheck
  <2>2. NewJob("check", beta, None).pc = "run"
    BY DEF NewJob
  <2> QED
    BY <1>2, <2>1, <2>2, SubmitAlone DEF BusyIsTheJob
<1>3. ASSUME NEW k \in Slots, AcceptOffer(k) PROVE BusyIsTheJob'
  <2>1. Submit(k, NewJob("download", FALSE, Top.rel))
    BY <1>3 DEF AcceptOffer
  <2>2. NewJob("download", FALSE, Top.rel).pc = "run"
    BY DEF NewJob
  <2>3. ~stacked' => ~stacked /\ \A l \in Slots : job[l].pc = "none"
    BY <1>3 DEF AcceptOffer, Alive
  <2> QED
    BY <2>1, <2>2, <2>3, SubmitAlone
<1>4. ASSUME ~stacked' => ~stacked, UNCHANGED busy,
             \A l \in Slots : job'[l].pc # "none" <=> job[l].pc # "none"
      PROVE  BusyIsTheJob'
  BY <1>4 DEF BusyIsTheJob
<1>5. ASSUME NEW k \in Slots, Work(k) \/ OnError(k) PROVE BusyIsTheJob'
  <2>1. \A l \in Slots : job'[l].pc # "none" <=> job[l].pc # "none"
    <3>1. CASE Download(k)
      <4>1. PICK content \in {"published", "other"} :
              job' = [job EXCEPT ![k].pc = IF Verified(job[k].rel, content) THEN "result" ELSE "error",
                                 ![k].content = content]
        BY <3>1 DEF Download
      <4>2. job'[k].pc \in {"result", "error"} /\ job[k].pc = "run"
        BY <1>1, <3>1, <4>1 DEF Download, JobType
      <4> QED
        BY <1>1, <4>1, <4>2
    <3>2. CASE ~Download(k)
      BY <1>1, <1>5, <3>2, ZenonT(30) DEF Work, Fetch, Raise, OnError, JobType
    <3> QED
      BY <3>1, <3>2
  <2> QED
    BY <1>4, <1>5, <2>1 DEF Work, Fetch, Download, Raise, OnError
<1>6. ASSUME NEW k \in Slots, OnChecked(k) \/ OnDownloaded(k) PROVE BusyIsTheJob'
  <2>1. \A l \in Slots : job'[l].pc # "none" <=> job[l].pc # "none"
    BY <1>1, <1>6 DEF OnChecked, OnDownloaded, JobType
  <2>2. ~stacked' => ~stacked
    BY <1>6 DEF OnChecked, OnDownloaded, Ask
  <2> QED
    BY <1>4, <1>6, <2>1, <2>2 DEF OnChecked, OnDownloaded
<1>7. ASSUME NEW k \in Slots, OnFinished(k) PROVE BusyIsTheJob'
  <2>1. /\ job[k].pc # "none" /\ job'[k].pc = "none" /\ ~busy' /\ UNCHANGED stacked
        /\ \A l \in Slots \ {k} : job'[l] = job[l]
    BY <1>1, <1>7 DEF OnFinished, NoJob, BusyAfter
  <2> QED
    BY <2>1 DEF BusyIsTheJob
<1>8. ASSUME NEW k \in Slots, ManualCheck(k) PROVE BusyIsTheJob'
  BY <1>2, <1>8 DEF ManualCheck
<1>9. CASE StartupTimer
  <2>1. CASE ~AlreadyBusy /\ \E k \in Slots : StartCheck(k)
    BY <1>2, <1>9, <2>1 DEF StartupTimer, AlreadyBusy
  <2>2. CASE UNCHANGED <<job, busy>>
    BY <1>4, <1>9, <2>2 DEF StartupTimer
  <2> QED
    BY <1>9, <2>1, <2>2 DEF StartupTimer
<1>10. CASE AnswerNo \/ AcceptInstall \/ UNCHANGED vars
  <2>1. UNCHANGED <<busy, job, stacked>>
    BY <1>10 DEF AnswerNo, AcceptInstall, vars
  <2> QED
    BY <1>4, <2>1
<1> QED
  BY <1>3, <1>5, <1>6, <1>7, <1>8, <1>9, <1>10 DEF Next, Callback

\* Until questions pile up or an offer is accepted before its check has finished, at most
\* one update job is alive, and _update_busy is set exactly then: OneUpdateAtATime.
THEOREM OneUpdate == Spec => []OneUpdateAtATime
<1>1. Init => BusyIsTheJob
  BY DEF Init, BusyIsTheJob, NoJob
<1>2. Spec => []BusyIsTheJob
  BY <1>1, BusyStep, TypeCorrect, PTL DEF Spec
<1>3. BusyIsTheJob => OneUpdateAtATime
  <2> SUFFICES ASSUME BusyIsTheJob, ~stacked
               PROVE  Cardinality(Alive) <= 1 /\ (busy <=> Alive # {})
    BY DEF OneUpdateAtATime
  <2>1. busy <=> Alive # {}
    BY DEF BusyIsTheJob, Alive
  <2>2. CASE Alive = {}
    BY <2>1, <2>2, FS_EmptySet
  <2>3. ASSUME NEW k \in Alive PROVE Cardinality(Alive) <= 1
    <3>1. Alive = {k}
      BY <2>3 DEF BusyIsTheJob, Alive
    <3> QED
      BY <3>1, FS_Singleton
  <2> QED
    BY <2>1, <2>2, <2>3
<1> QED
  BY <1>2, <1>3, PTL

-----------------------------------------------------------------------------
(* The files of AppState: what they hold and what is still to be written *)

\* What a file may hold, and a write
Damage == {Missing, Torn, Mangled}
Normal == {c \in Config : c.channel \in Channels}
Texts  == {Torn} \cup Config \cup Layouts \cup SUBSET Names
Writes == [file : Files, data : Texts]

\* t is what is left to do of the writes s
Rest(t, s) == Len(t) <= Len(s) /\ \A i \in 1..Len(t) : t[i] = s[Len(s) - Len(t) + i]

\* The saves of closeEvent
Closing(config, forms) == SaveJson("runtime", forms) \o SaveJson("app_config", config)

\* The program has been running, or runs, since it was started
Up == phase \in {"running", "closing"} \/ (phase \in {"config", "lists", "reloaded"} /\ ~first)

\* The files, one by one
DiskShapes ==
  /\ disk = [f \in Files |-> disk[f]]
  /\ disk["app_config"] \notin Damage => disk["app_config"] \in Config
  /\ disk["ip_profiles"] \notin Damage => disk["ip_profiles"] \in SUBSET Names
  /\ disk["vendor_presets"] \notin Damage => disk["vendor_presets"] \in SUBSET Names
  /\ disk["runtime"] \notin Damage => disk["runtime"] \in Layouts

\* The attributes of AppState are normal values, and writes are writes
Shapes ==
  /\ DiskShapes
  /\ app_config \in Normal
  /\ ip_profiles \in SUBSET Names /\ deleted \in SUBSET Names /\ runtime \in Layouts
  /\ screen \in [window : Layouts, forms : Layouts]
  /\ phase \in {"off", "ensure", "config", "lists", "reloaded", "running", "closing"}
  /\ phase = "ensure" => first
  /\ first \in BOOLEAN
  /\ todo \in Seq(Writes) /\ late \in Seq(Writes)

NoneMissing == \A f \in Files : disk[f] # Missing

\* What is still to be written is the end of what the phase saves
Todo ==
  /\ phase \in {"off", "config"} => todo = <<>>
  /\ phase = "ensure" /\ todo # <<>> =>
       \E f \in Files :
         /\ Rest(todo, SaveJson(f, Defaults[f]))
         /\ disk[f] = (IF Len(todo) = 2 THEN Missing ELSE Torn)
  /\ phase = "lists" => Rest(todo, SaveJson("app_config", app_config))
  /\ phase = "reloaded" => Rest(todo, MigrationSaves(ip_profiles))
  /\ phase = "running" => \/ Rest(todo, SaveJson("app_config", app_config))
                          \/ Rest(todo, SaveJson("ip_profiles", ip_profiles))
  /\ phase = "closing" => Rest(todo, UiStateSaves)
  /\ phase \notin {"off", "ensure"} => NoneMissing

\* A program left behind by a restart saves the channel that was promised, and
\* its successor writes nothing before it has ended
Late ==
  /\ late # <<>> => NoneMissing
  /\ late # <<>> => \E config \in Normal, forms \in Layouts :
       Rest(late, Closing(config, forms)) /\ (choice # Nothing => config.channel = choice)
  /\ phase \in {"ensure", "running"} /\ todo # <<>> => late = <<>>

-----------------------------------------------------------------------------
(* Writes and what is left of them *)

LEMMA DefaultIsLayout == Default \in Layouts
BY FilesAssumption DEF Default

LEMMA RestEmpty == ASSUME NEW S, NEW s \in Seq(S) PROVE Rest(<<>>, s)
BY DEF Rest

LEMMA RestWhole == ASSUME NEW S, NEW s \in Seq(S) PROVE Rest(s, s)
BY DEF Rest

LEMMA RestTail ==
  ASSUME NEW S, NEW s \in Seq(S), NEW t \in Seq(S), Rest(t, s), t # <<>>
  PROVE  /\ Rest(Tail(t), s) /\ Tail(t) \in Seq(S)
         /\ Len(t) \in 1..Len(s) /\ Len(Tail(t)) = Len(t) - 1
         /\ Head(t) = s[Len(s) - Len(t) + 1]
<1>1. /\ Tail(t) \in Seq(S) /\ Len(t) \in Nat \ {0} /\ Len(s) \in Nat /\ Len(Tail(t)) = Len(t) - 1
      /\ \A i \in 1..(Len(t) - 1) : Tail(t)[i] = t[i + 1]
      /\ Head(t) = t[1]
  OBVIOUS
<1>2. Len(Tail(t)) <= Len(s)
  BY <1>1 DEF Rest
<1>3. ASSUME NEW i \in 1..Len(Tail(t)) PROVE Tail(t)[i] = s[Len(s) - Len(Tail(t)) + i]
  <2>1. i + 1 \in 1..Len(t) /\ Tail(t)[i] = t[i + 1]
    BY <1>1
  <2>2. t[i + 1] = s[Len(s) - Len(t) + (i + 1)]
    BY <2>1 DEF Rest
  <2>3. Len(s) - Len(t) + (i + 1) = Len(s) - Len(Tail(t)) + i
    BY <1>1
  <2> QED
    BY <2>1, <2>2, <2>3
<1>4. Head(t) = s[Len(s) - Len(t) + 1]
  BY <1>1 DEF Rest
<1> QED
  BY <1>1, <1>2, <1>3, <1>4 DEF Rest

LEMMA OneSave ==
  ASSUME NEW f \in Files, NEW d \in Texts
  PROVE  /\ SaveJson(f, d) \in Seq(Writes) /\ Len(SaveJson(f, d)) = 2
         /\ SaveJson(f, d)[1] = [file |-> f, data |-> Torn]
         /\ SaveJson(f, d)[2] = [file |-> f, data |-> d]
BY DEF SaveJson, Writes, Texts

LEMMA Concatenation ==
  ASSUME NEW S, NEW a \in Seq(S), NEW b \in Seq(S), Len(a) = 2, Len(b) = 2
  PROVE  /\ a \o b \in Seq(S) /\ Len(a \o b) = 4
         /\ (a \o b)[1] = a[1] /\ (a \o b)[2] = a[2] /\ (a \o b)[3] = b[1] /\ (a \o b)[4] = b[2]
<1>1. PICK c : c = a \o b
  OBVIOUS
<1>2. /\ c \in Seq(S) /\ Len(c) = Len(a) + Len(b)
      /\ \A i \in 1..(Len(a) + Len(b)) : c[i] = IF i <= Len(a) THEN a[i] ELSE b[i - Len(a)]
  BY <1>1, ConcatProperties
<1>3. /\ c \in Seq(S) /\ Len(c) = 4
      /\ c[1] = a[1] /\ c[2] = a[2] /\ c[3] = b[1] /\ c[4] = b[2]
  <2> HIDE <1>1
  <2> QED
    BY <1>2
<1> QED
  BY <1>1, <1>3

\* Two saves, one after the other
Both(f, d, g, e) == SaveJson(f, d) \o SaveJson(g, e)

LEMMA TwoSaves ==
  ASSUME NEW f \in Files, NEW d \in Texts,
         NEW g \in Files, NEW e \in Texts
  PROVE  /\ Both(f, d, g, e) \in Seq(Writes) /\ Len(Both(f, d, g, e)) = 4
         /\ Both(f, d, g, e)[1] = [file |-> f, data |-> Torn]
         /\ Both(f, d, g, e)[2] = [file |-> f, data |-> d]
         /\ Both(f, d, g, e)[3] = [file |-> g, data |-> Torn]
         /\ Both(f, d, g, e)[4] = [file |-> g, data |-> e]
<1> DEFINE a == SaveJson(f, d) b == SaveJson(g, e)
<1>1. /\ a \in Seq(Writes) /\ Len(a) = 2
      /\ a[1] = [file |-> f, data |-> Torn] /\ a[2] = [file |-> f, data |-> d]
  BY OneSave
<1>2. /\ b \in Seq(Writes) /\ Len(b) = 2
      /\ b[1] = [file |-> g, data |-> Torn] /\ b[2] = [file |-> g, data |-> e]
  BY OneSave
<1>3. Both(f, d, g, e) = a \o b
  BY DEF Both
<1> HIDE DEF a, b
<1> QED
  BY <1>1, <1>2, <1>3, Concatenation

\* The next of two writes, when n of them are left
Part(file, data, n) == [file |-> file, data |-> IF n = 2 THEN Torn ELSE data]

\* One write of a save that is not over, and what comes behind it
OneLeft(t, f, d) ==
  /\ Len(t) \in {1, 2} /\ Head(t) = Part(f, d, Len(t))
  /\ Tail(t) \in Seq(Writes) /\ Len(Tail(t)) = Len(t) - 1 /\ Rest(Tail(t), SaveJson(f, d))

TwoLeft(t, f, d, g, e) ==
  /\ Len(t) \in {1, 2, 3, 4}
  /\ Len(t) \in {1, 2} => Head(t) = Part(g, e, Len(t))
  /\ Len(t) \in {3, 4} => Head(t) = Part(f, d, Len(t) - 2)
  /\ Tail(t) \in Seq(Writes) /\ Len(Tail(t)) = Len(t) - 1 /\ Rest(Tail(t), Both(f, d, g, e))

LEMMA OneSaveLeft ==
  ASSUME NEW f \in Files, NEW d \in Texts, NEW t \in Seq(Writes), Rest(t, SaveJson(f, d)), t # <<>>
  PROVE  OneLeft(t, f, d)
<1> DEFINE s == SaveJson(f, d)
<1>1. s \in Seq(Writes) /\ Len(s) = 2 /\ s[1] = [file |-> f, data |-> Torn] /\ s[2] = [file |-> f, data |-> d]
  BY OneSave
<1>2. Rest(t, s)
  OBVIOUS
<1> HIDE DEF s
<1>3. /\ Rest(Tail(t), s) /\ Tail(t) \in Seq(Writes) /\ Len(t) \in 1..Len(s) /\ Len(Tail(t)) = Len(t) - 1
      /\ Head(t) = s[Len(s) - Len(t) + 1]
  BY <1>1, <1>2, RestTail, ZenonT(30)
<1>4. PICK n, head : n = Len(t) /\ head = Head(t)
  OBVIOUS
<1>5. n \in 1..2 /\ head = s[2 - n + 1]
  BY <1>1, <1>3, <1>4
<1>6. /\ n \in {1, 2}
      /\ n = 2 => head = [file |-> f, data |-> Torn]
      /\ n = 1 => head = [file |-> f, data |-> d]
  BY <1>1, <1>5
<1>7. head = Part(f, d, n)
  BY <1>6 DEF Part
<1> QED
  BY <1>3, <1>4, <1>6, <1>7 DEF s, OneLeft

LEMMA FourLeft ==
  ASSUME NEW S, NEW s \in Seq(S), Len(s) = 4, NEW t \in Seq(S), Rest(t, s), t # <<>>
  PROVE  /\ Len(t) \in {1, 2, 3, 4}
         /\ Len(t) = 4 => Head(t) = s[1]
         /\ Len(t) = 3 => Head(t) = s[2]
         /\ Len(t) = 2 => Head(t) = s[3]
         /\ Len(t) = 1 => Head(t) = s[4]
         /\ Tail(t) \in Seq(S) /\ Len(Tail(t)) = Len(t) - 1 /\ Rest(Tail(t), s)
<1>1. /\ Rest(Tail(t), s) /\ Tail(t) \in Seq(S)
      /\ Len(t) \in 1..Len(s) /\ Len(Tail(t)) = Len(t) - 1
      /\ Head(t) = s[Len(s) - Len(t) + 1]
  BY RestTail
<1>2. PICK n, head : n = Len(t) /\ head = Head(t)
  OBVIOUS
<1>3. n \in 1..4 /\ head = s[4 - n + 1]
  BY <1>1, <1>2
<1>4. /\ n \in {1, 2, 3, 4}
      /\ n = 4 => head = s[1]
      /\ n = 3 => head = s[2]
      /\ n = 2 => head = s[3]
      /\ n = 1 => head = s[4]
  BY <1>3
<1> QED
  BY <1>1, <1>2, <1>4

LEMMA TwoSavesLeft ==
  ASSUME NEW f \in Files, NEW d \in Texts, NEW g \in Files, NEW e \in Texts,
         NEW t \in Seq(Writes), Rest(t, Both(f, d, g, e)), t # <<>>
  PROVE  TwoLeft(t, f, d, g, e)
<1> DEFINE s == Both(f, d, g, e)
<1>1. /\ s \in Seq(Writes) /\ Len(s) = 4
      /\ s[1] = [file |-> f, data |-> Torn] /\ s[2] = [file |-> f, data |-> d]
      /\ s[3] = [file |-> g, data |-> Torn] /\ s[4] = [file |-> g, data |-> e]
  BY TwoSaves
<1>2. Rest(t, s)
  OBVIOUS
<1> HIDE DEF s
<1>3. /\ Len(t) \in {1, 2, 3, 4}
      /\ Len(t) = 4 => Head(t) = s[1]
      /\ Len(t) = 3 => Head(t) = s[2]
      /\ Len(t) = 2 => Head(t) = s[3]
      /\ Len(t) = 1 => Head(t) = s[4]
      /\ Tail(t) \in Seq(Writes) /\ Len(Tail(t)) = Len(t) - 1 /\ Rest(Tail(t), s)
  BY <1>1, <1>2, FourLeft
<1>4. PICK n, head : n = Len(t) /\ head = Head(t)
  OBVIOUS
<1>5. /\ n \in {1, 2} => head = Part(g, e, n)
      /\ n \in {3, 4} => head = Part(f, d, n - 2)
  <2>1. /\ n = 4 => head = [file |-> f, data |-> Torn]
        /\ n = 3 => head = [file |-> f, data |-> d]
        /\ n = 2 => head = [file |-> g, data |-> Torn]
        /\ n = 1 => head = [file |-> g, data |-> e]
    BY <1>1, <1>3, <1>4
  <2> QED
    BY <2>1 DEF Part
<1> QED
  BY <1>3, <1>4, <1>5 DEF s, TwoLeft

-----------------------------------------------------------------------------
(* The write that comes next, in each phase *)

\* The configuration closeEvent saves
Shut == [app_config EXCEPT !.layout = screen.window]

LEMMA TextsOf ==
  ASSUME Shapes
  PROVE  /\ app_config \in Texts /\ ip_profiles \in Texts /\ screen.forms \in Texts
         /\ {} \in Texts /\ Shut \in Texts /\ Shut \in Normal
         /\ \A f \in Files : Defaults[f] \in Texts
<1>1. /\ app_config \in Normal /\ screen \in [window : Layouts, forms : Layouts] /\ ip_profiles \in SUBSET Names
  BY DEF Shapes
<1>2. Shut \in Normal
  BY <1>1 DEF Shut, Normal, Config
<1>3. DefaultConfig \in Config
  BY DefaultIsLayout DEF DefaultConfig, Config, Channels
<1>4. \A f \in Files : Defaults[f] \in Texts
  <2>1. \A f \in Files : f = "app_config" => Defaults[f] = DefaultConfig
    BY DEF Files, Defaults
  <2>2. \A f \in Files : f = "ip_profiles" => Defaults[f] = Names
    BY DEF Files, Defaults
  <2>3. \A f \in Files : f = "vendor_presets" => Defaults[f] = {}
    BY DEF Files, Defaults
  <2>4. \A f \in Files : f = "runtime" => Defaults[f] = Default
    BY DEF Files, Defaults
  <2>5. DefaultConfig \in Texts /\ Names \in Texts /\ {} \in Texts /\ Default \in Texts
    BY <1>3, DefaultIsLayout DEF Texts
  <2> QED
    BY <2>1, <2>2, <2>3, <2>4, <2>5 DEF Files
<1>5. screen.forms \in Layouts
  BY <1>1
<1>6. \A c \in Normal : c \in Texts
  BY DEF Normal, Texts
<1>7. \A p \in SUBSET Names : p \in Texts
  BY DEF Texts
<1>8. \A l \in Layouts : l \in Texts
  BY DEF Texts
<1> QED
  BY <1>1, <1>2, <1>4, <1>5, <1>6, <1>7, <1>8

LEMMA Ui == ASSUME Shapes PROVE UiStateSaves = Both("runtime", screen.forms, "app_config", Shut)
<1>1. Shut.channel \in Channels
  BY TextsOf DEF Normal
<1> QED
  BY <1>1 DEF UiStateSaves, Both, Normalized, Shut

LEMMA Migration == ASSUME NEW p PROVE MigrationSaves(p) = Both("ip_profiles", p, "vendor_presets", {})
BY DEF MigrationSaves, Both

LEMMA NextEnsure ==
  ASSUME Shapes, Todo, todo # <<>>, phase = "ensure"
  PROVE  \E f \in Files :
           /\ OneLeft(todo, f, Defaults[f])
           /\ disk[f] = (IF Len(todo) = 2 THEN Missing ELSE Torn)
<1>1. todo \in Seq(Writes)
  BY DEF Shapes
<1>2. PICK f \in Files : /\ Rest(todo, SaveJson(f, Defaults[f]))
                         /\ disk[f] = (IF Len(todo) = 2 THEN Missing ELSE Torn)
  BY DEF Todo
<1>3. OneLeft(todo, f, Defaults[f])
  BY <1>1, <1>2, TextsOf, OneSaveLeft
<1> QED
  BY <1>2, <1>3

LEMMA NextLists ==
  ASSUME Shapes, Todo, todo # <<>>, phase = "lists"
  PROVE  OneLeft(todo, "app_config", app_config)
<1>1. todo \in Seq(Writes) /\ Rest(todo, SaveJson("app_config", app_config))
  BY DEF Shapes, Todo
<1> QED
  BY <1>1, TextsOf, OneSaveLeft DEF Files

LEMMA NextReloaded ==
  ASSUME Shapes, Todo, todo # <<>>, phase = "reloaded"
  PROVE  TwoLeft(todo, "ip_profiles", ip_profiles, "vendor_presets", {})
<1>1. todo \in Seq(Writes) /\ Rest(todo, Both("ip_profiles", ip_profiles, "vendor_presets", {}))
  BY Migration DEF Shapes, Todo
<1> QED
  BY <1>1, TextsOf, TwoSavesLeft DEF Files

LEMMA NextRunning ==
  ASSUME Shapes, Todo, todo # <<>>, phase = "running"
  PROVE  \/ Rest(todo, SaveJson("app_config", app_config)) /\ OneLeft(todo, "app_config", app_config)
         \/ Rest(todo, SaveJson("ip_profiles", ip_profiles)) /\ OneLeft(todo, "ip_profiles", ip_profiles)
<1>1. todo \in Seq(Writes)
  BY DEF Shapes
<1>2. \/ Rest(todo, SaveJson("app_config", app_config))
      \/ Rest(todo, SaveJson("ip_profiles", ip_profiles))
  BY DEF Todo
<1> QED
  BY <1>1, <1>2, TextsOf, OneSaveLeft DEF Files

LEMMA NextClosing ==
  ASSUME Shapes, Todo, todo # <<>>, phase = "closing"
  PROVE  TwoLeft(todo, "runtime", screen.forms, "app_config", Shut)
<1>1. todo \in Seq(Writes) /\ Rest(todo, Both("runtime", screen.forms, "app_config", Shut))
  BY Ui DEF Shapes, Todo
<1> QED
  BY <1>1, TextsOf, TwoSavesLeft DEF Files

LEMMA NextLate ==
  ASSUME Shapes, Late, late # <<>>
  PROVE  \E config \in Normal, forms \in Layouts :
           /\ TwoLeft(late, "runtime", forms, "app_config", config)
           /\ choice # Nothing => config.channel = choice
<1>1. late \in Seq(Writes)
  BY DEF Shapes
<1>2. PICK config \in Normal, forms \in Layouts :
        Rest(late, Closing(config, forms)) /\ (choice # Nothing => config.channel = choice)
  BY DEF Late
<1>3. Rest(late, Both("runtime", forms, "app_config", config))
  BY <1>2 DEF Closing, Both
<1>4. forms \in Texts /\ config \in Texts
  BY <1>2 DEF Texts, Normal
<1> QED
  BY <1>1, <1>2, <1>3, <1>4, TwoSavesLeft DEF Files

-----------------------------------------------------------------------------
(* Shapes of the state *)

\* A write that belongs to its file
Fits(w) ==
  /\ w.file \in Files
  /\ w.data # Torn =>
       /\ w.file = "app_config" => w.data \in Normal
       /\ w.file = "ip_profiles" => w.data \in SUBSET Names
       /\ w.file = "vendor_presets" => w.data = {}
       /\ w.file = "runtime" => w.data \in Layouts

LEMMA PartFits ==
  ASSUME NEW f \in Files, NEW d, NEW n,
         f = "app_config" => d \in Normal, f = "ip_profiles" => d \in SUBSET Names,
         f = "vendor_presets" => d = {}, f = "runtime" => d \in Layouts
  PROVE  Fits(Part(f, d, n))
BY DEF Fits, Part

LEMMA DefaultFits ==
  ASSUME NEW f \in Files
  PROVE  /\ f = "app_config" => Defaults[f] \in Normal
         /\ f = "ip_profiles" => Defaults[f] \in SUBSET Names
         /\ f = "vendor_presets" => Defaults[f] = {}
         /\ f = "runtime" => Defaults[f] \in Layouts
<1>1. DefaultConfig \in Normal
  BY DefaultIsLayout DEF DefaultConfig, Normal, Config, Channels
<1>2. f = "app_config" => Defaults[f] = DefaultConfig
  BY DEF Files, Defaults
<1>3. f = "ip_profiles" => Defaults[f] = Names
  BY DEF Files, Defaults
<1>4. f = "vendor_presets" => Defaults[f] = {}
  BY DEF Files, Defaults
<1>5. f = "runtime" => Defaults[f] = Default
  BY DEF Files, Defaults
<1> QED
  BY <1>1, <1>2, <1>3, <1>4, <1>5, DefaultIsLayout

LEMMA NextFits ==
  ASSUME Shapes, Todo, todo # <<>>
  PROVE  /\ Fits(Head(todo)) /\ Tail(todo) \in Seq(Writes) /\ Len(Tail(todo)) = Len(todo) - 1
         /\ Len(todo) \in {1, 2, 3, 4} /\ phase \notin {"off", "config"}
<1>1. phase \notin {"off", "config"}
  BY DEF Todo
<1>2. /\ app_config \in Normal /\ ip_profiles \in SUBSET Names /\ screen.forms \in Layouts
      /\ phase \in {"off", "ensure", "config", "lists", "reloaded", "running", "closing"}
  BY DEF Shapes
<1>3. CASE phase = "ensure"
  <2>1. PICK f \in Files : OneLeft(todo, f, Defaults[f])
    BY <1>3, NextEnsure
  <2>2. Fits(Part(f, Defaults[f], Len(todo)))
    BY DefaultFits, PartFits
  <2> QED
    BY <1>1, <2>1, <2>2 DEF OneLeft
<1>4. CASE phase = "lists"
  <2>1. OneLeft(todo, "app_config", app_config)
    BY <1>4, NextLists
  <2>2. Fits(Part("app_config", app_config, Len(todo)))
    BY <1>2, PartFits DEF Files
  <2> QED
    BY <1>1, <2>1, <2>2 DEF OneLeft
<1>5. CASE phase = "reloaded"
  <2>1. TwoLeft(todo, "ip_profiles", ip_profiles, "vendor_presets", {})
    BY <1>5, NextReloaded
  <2>2. \A n : Fits(Part("ip_profiles", ip_profiles, n)) /\ Fits(Part("vendor_presets", {}, n))
    BY <1>2, PartFits DEF Files
  <2> QED
    BY <1>1, <2>1, <2>2 DEF TwoLeft
<1>6. CASE phase = "running"
  <2>1. \/ OneLeft(todo, "app_config", app_config)
        \/ OneLeft(todo, "ip_profiles", ip_profiles)
    BY <1>6, NextRunning
  <2>2. \A n : Fits(Part("ip_profiles", ip_profiles, n)) /\ Fits(Part("app_config", app_config, n))
    BY <1>2, PartFits DEF Files
  <2> QED
    BY <1>1, <2>1, <2>2 DEF OneLeft
<1>7. CASE phase = "closing"
  <2>1. TwoLeft(todo, "runtime", screen.forms, "app_config", Shut)
    BY <1>7, NextClosing
  <2>2. Shut \in Normal
    BY TextsOf
  <2>3. \A n : Fits(Part("runtime", screen.forms, n)) /\ Fits(Part("app_config", Shut, n))
    BY <1>2, <2>2, PartFits DEF Files
  <2> QED
    BY <1>1, <2>1, <2>3 DEF TwoLeft
<1> QED
  BY <1>1, <1>2, <1>3, <1>4, <1>5, <1>6, <1>7

LEMMA LateFits ==
  ASSUME Shapes, Late, late # <<>>
  PROVE  Fits(Head(late)) /\ Tail(late) \in Seq(Writes) /\ Head(late).file \in {"runtime", "app_config"}
<1>1. PICK config \in Normal, forms \in Layouts : TwoLeft(late, "runtime", forms, "app_config", config)
  BY NextLate
<1>2. \A n : Fits(Part("runtime", forms, n)) /\ Fits(Part("app_config", config, n))
  BY <1>1, PartFits DEF Files
<1>3. \A n : /\ Part("runtime", forms, n).file = "runtime"
             /\ Part("app_config", config, n).file = "app_config"
  BY DEF Part
<1> QED
  BY <1>1, <1>2, <1>3 DEF TwoLeft

LEMMA Stored ==
  ASSUME DiskShapes, NEW f \in Files, NEW d, disk' = [disk EXCEPT ![f] = d],
         d \in Damage \/ Fits([file |-> f, data |-> d])
  PROVE  /\ DiskShapes' /\ disk'[f] = d
         /\ \A g \in Files \ {f} : disk'[g] = disk[g]
<1>1. disk'[f] = d /\ \A g \in Files \ {f} : disk'[g] = disk[g]
  BY DEF DiskShapes
<1>2. disk' = [g \in Files |-> disk'[g]]
  BY DEF DiskShapes
<1>3. d \notin Damage => /\ f = "app_config" => d \in Normal
                         /\ f = "ip_profiles" => d \in SUBSET Names
                         /\ f = "vendor_presets" => d = {}
                         /\ f = "runtime" => d \in Layouts
  BY DEF Fits, Damage
<1>4. d \notin Damage => /\ f = "app_config" => d \in Config
                         /\ f = "ip_profiles" => d \in SUBSET Names
                         /\ f = "vendor_presets" => d \in SUBSET Names
                         /\ f = "runtime" => d \in Layouts
  BY <1>3 DEF Normal
<1> QED
  BY <1>1, <1>2, <1>4 DEF DiskShapes, Files

LEMMA NewSave ==
  ASSUME NEW f \in Files, NEW d \in Texts
  PROVE  /\ SaveJson(f, d) \in Seq(Writes) /\ Len(SaveJson(f, d)) = 2
         /\ Rest(SaveJson(f, d), SaveJson(f, d)) /\ Rest(<<>>, SaveJson(f, d))
<1>1. SaveJson(f, d) \in Seq(Writes) /\ Len(SaveJson(f, d)) = 2
  BY OneSave
<1> QED
  BY <1>1, RestEmpty, RestWhole

LEMMA NewSaves ==
  ASSUME NEW f \in Files, NEW d \in Texts, NEW g \in Files, NEW e \in Texts
  PROVE  /\ Both(f, d, g, e) \in Seq(Writes) /\ Len(Both(f, d, g, e)) = 4
         /\ Rest(Both(f, d, g, e), Both(f, d, g, e)) /\ Rest(<<>>, Both(f, d, g, e))
<1>1. /\ SaveJson(f, d) \in Seq(Writes) /\ Len(SaveJson(f, d)) = 2
      /\ SaveJson(g, e) \in Seq(Writes) /\ Len(SaveJson(g, e)) = 2
  BY OneSave
<1>2. Both(f, d, g, e) \in Seq(Writes) /\ Len(Both(f, d, g, e)) = 4
  BY <1>1, Concatenation DEF Both
<1> QED
  BY <1>2, RestEmpty, RestWhole

LEMMA FileNames == {"app_config", "ip_profiles", "vendor_presets", "runtime"} \subseteq Files
BY DEF Files

\* UiStateSaves as a function of what it saves
Saved(config, shown) ==
  SaveJson("runtime", shown.forms)
    \o SaveJson("app_config", Normalized([config EXCEPT !.layout = shown.window]))

LEMMA SavedIs ==
  ASSUME NEW config \in Normal, NEW shown \in [window : Layouts, forms : Layouts]
  PROVE  /\ Saved(config, shown) \in Seq(Writes) /\ Len(Saved(config, shown)) = 4
         /\ Rest(Saved(config, shown), Saved(config, shown)) /\ Rest(<<>>, Saved(config, shown))
<1> DEFINE shut == [config EXCEPT !.layout = shown.window]
<1>1. shut \in Config /\ shut.channel \in Channels
  BY DEF Normal, Config
<1>2. Normalized(shut) = shut
  BY <1>1 DEF Normalized
<1>3. shut \in Texts /\ shown.forms \in Texts
  BY <1>1 DEF Texts
<1> HIDE DEF shut
<1>4. "runtime" \in Files /\ "app_config" \in Files
  BY FileNames
<1>5. /\ Both("runtime", shown.forms, "app_config", shut) \in Seq(Writes)
      /\ Len(Both("runtime", shown.forms, "app_config", shut)) = 4
      /\ Rest(Both("runtime", shown.forms, "app_config", shut), Both("runtime", shown.forms, "app_config", shut))
      /\ Rest(<<>>, Both("runtime", shown.forms, "app_config", shut))
  BY <1>3, <1>4, NewSaves
<1>6. Saved(config, shown) = Both("runtime", shown.forms, "app_config", shut)
  BY <1>2 DEF Saved, Both, shut
<1> QED
  BY <1>5, <1>6

LEMMA UiSaves ==
  ASSUME Shapes
  PROVE  /\ UiStateSaves \in Seq(Writes) /\ Len(UiStateSaves) = 4
         /\ Rest(UiStateSaves, UiStateSaves) /\ Rest(<<>>, UiStateSaves)
<1>1. app_config \in Normal /\ screen \in [window : Layouts, forms : Layouts]
  BY DEF Shapes
<1>2. UiStateSaves = Saved(app_config, screen)
  BY DEF UiStateSaves, Saved
<1> QED
  BY <1>1, <1>2, SavedIs

LEMMA UiSavesNext ==
  ASSUME Shapes'
  PROVE  /\ UiStateSaves' \in Seq(Writes) /\ Len(UiStateSaves') = 4
         /\ Rest(UiStateSaves', UiStateSaves') /\ Rest(<<>>, UiStateSaves')
<1>1. app_config' \in Normal /\ screen' \in [window : Layouts, forms : Layouts]
  BY DEF Shapes
<1>2. UiStateSaves' = Saved(app_config', screen')
  BY DEF UiStateSaves, Saved
<1> QED
  BY <1>1, <1>2, SavedIs

LEMMA NormalizedIs ==
  ASSUME NEW config \in Config
  PROVE  /\ Normalized(config) \in Normal
         /\ config.channel \in Channels => Normalized(config) = config
         /\ Normalized(config).layout = config.layout
BY DEF Normalized, Normal, Config, Channels

LEMMA Loads ==
  ASSUME Shapes
  PROVE  /\ \A default \in Config : LoadJson("app_config", default) \in Config
         /\ LoadJson("ip_profiles", {}) \in SUBSET Names
         /\ LoadJson("vendor_presets", {}) \in SUBSET Names
         /\ LoadJson("runtime", Default) \in Layouts
BY DefaultIsLayout DEF LoadJson, Whole, Shapes, DiskShapes, Damage

\* The files that ensure_runtime_files looks at are all there are.
LEMMA Ordered ==
  /\ \A i \in DOMAIN Order : Order[i] \in Files
  /\ DOMAIN Order = 1..4 /\ \A f \in Files : \E i \in 1..4 : Order[i] = f
BY DEF Order, Files

LEMMA Ensured == ASSUME FirstMissing = {} PROVE NoneMissing
<1>1. /\ DOMAIN Order = 1..4
      /\ ~\E i \in 1..4 : disk[Order[i]] = Missing /\ \A j \in 1..(i - 1) : disk[Order[j]] # Missing
  BY Ordered DEF FirstMissing
<1>2. disk[Order[1]] # Missing
  BY <1>1
<1>3. disk[Order[2]] # Missing
  BY <1>1, <1>2
<1>4. disk[Order[3]] # Missing
  BY <1>1, <1>2, <1>3
<1>5. disk[Order[4]] # Missing
  BY <1>1, <1>2, <1>3, <1>4
<1>6. \A f \in Files : f \in {Order[1], Order[2], Order[3], Order[4]}
  BY DEF Files, Order
<1> QED
  BY <1>2, <1>3, <1>4, <1>5, <1>6 DEF NoneMissing

LEMMA ShapesStep == Shapes /\ Todo /\ Late /\ [ConfigNext]_configVars => Shapes'
<1> SUFFICES ASSUME Shapes, Todo, Late, [ConfigNext]_configVars PROVE Shapes'
  OBVIOUS
<1> USE DEF program, history
<1>0. <<>> \in Seq(Writes)
  OBVIOUS
<1>1. CASE Start
  BY <1>1 DEF Start, Shapes, DiskShapes
<1>2. CASE Ensure
  <2>1. \A f \in Files : SaveJson(f, Defaults[f]) \in Seq(Writes)
    BY TextsOf, NewSave
  <2>2. todo' \in Seq(Writes)
    <3>1. CASE UNCHANGED todo
      BY <3>1 DEF Shapes
    <3>2. CASE \E i \in FirstMissing : todo' = SaveJson(Order[i], Defaults[Order[i]])
      <4>1. \A i \in FirstMissing : Order[i] \in Files
        BY Ordered DEF FirstMissing
      <4> QED
        BY <2>1, <3>2, <4>1
    <3> QED
      BY <1>2, <3>1, <3>2 DEF Ensure
  <2> QED
    BY <1>2, <2>2 DEF Ensure, Shapes, DiskShapes
<1>3. CASE LoadConfig
  <2>1. app_config' \in Normal
    BY <1>3, Loads, NormalizedIs, DefaultIsLayout DEF LoadConfig, Config
  <2>2. app_config' \in Texts
    BY <2>1 DEF Normal, Texts
  <2>3. todo' \in Seq(Writes)
    BY <1>3, <1>0, <2>2, NewSave, FileNames DEF LoadConfig
  <2> QED
    BY <1>3, <2>1, <2>3 DEF LoadConfig, Shapes, DiskShapes
<1>4. CASE LoadLists
  <2>1. ip_profiles' \in SUBSET Names /\ runtime' \in Layouts
    BY <1>4, Loads DEF LoadLists, Merged
  <2>2. ip_profiles' \in Texts /\ {} \in Texts
    BY <2>1 DEF Texts
  <2>3. MigrationSaves(ip_profiles') \in Seq(Writes)
    BY <2>2, NewSaves, Migration, FileNames
  <2>4. todo' \in Seq(Writes)
    BY <1>4, <1>0, <2>3 DEF LoadLists
  <2> QED
    BY <1>4, <2>1, <2>4 DEF LoadLists, Shapes, DiskShapes
<1>5. CASE LoadRaises
  <2>1. Merged \in SUBSET Names
    BY Loads DEF Merged
  <2>2. ip_profiles' \in SUBSET Names
    BY <1>5, <2>1 DEF LoadRaises, Shapes
  <2> QED
    BY <1>5, <2>2 DEF LoadRaises, Fallen, Shapes, DiskShapes
<1>6. CASE Loaded
  <2>1. screen' \in [window : Layouts, forms : Layouts]
    BY <1>6 DEF Loaded, Shapes, Normal, Config
  <2> QED
    BY <1>6, <2>1 DEF Loaded, Shapes, DiskShapes
<1>7. CASE SaveSettings
  <2>1. app_config' \in Normal
    BY <1>7, NormalizedIs DEF SaveSettings, Shapes, Normal, Config
  <2>2. app_config' \in Texts
    BY <2>1 DEF Normal, Texts
  <2>3. todo' \in Seq(Writes)
    BY <1>7, <2>2, NewSave, FileNames DEF SaveSettings
  <2> QED
    BY <1>7, <2>1, <2>3 DEF SaveSettings, Shapes, DiskShapes
<1>8. ASSUME NEW p \in SUBSET Names, SaveProfiles(p) PROVE Shapes'
  <2>1. p \in Texts
    BY DEF Texts
  <2>2. todo' \in Seq(Writes)
    BY <1>8, <2>1, NewSave, FileNames DEF SaveProfiles
  <2> QED
    BY <1>8, <2>2 DEF SaveProfiles, Shapes, DiskShapes
<1>9. CASE AddProfile
  BY <1>8, <1>9 DEF AddProfile, Shapes
<1>10. CASE DeleteProfile
  BY <1>8, <1>10 DEF DeleteProfile, Shapes
<1>11. CASE Reload
  BY <1>11 DEF Reload, Shapes, DiskShapes
<1>12. CASE Arrange
  BY <1>12 DEF Arrange, Shapes, DiskShapes
<1>13. UiStateSaves \in Seq(Writes)
  BY UiSaves
<1>14. CASE Close
  BY <1>13, <1>14 DEF Close, Shapes, DiskShapes
<1>15. CASE Closed
  BY <1>15 DEF Closed, Shapes, DiskShapes
<1>16. CASE RestartAsAdmin
  BY <1>13, <1>16 DEF RestartAsAdmin, Shapes, DiskShapes
<1>17. CASE Write
  <2>1. Fits(Head(todo)) /\ Tail(todo) \in Seq(Writes) /\ todo # <<>>
    BY <1>17, NextFits DEF Write
  <2>2. DiskShapes'
    BY <1>17, <2>1, Stored DEF Write, Shapes, Fits
  <2>3. deleted' \in SUBSET Names
    BY <1>17 DEF Write, Shapes
  <2> QED
    BY <1>17, <2>1, <2>2, <2>3 DEF Write, Shapes
<1>18. CASE SaveFails
  BY <1>0, <1>18 DEF SaveFails, Fallen, Shapes, DiskShapes
<1>19. CASE Crash
  <2>1. DiskShapes'
    <3>1. CASE todo # <<>> /\ Head(todo).data # Torn
      <4>1. Head(todo).file \in Files
        BY <3>1, NextFits DEF Fits
      <4>2. PICK rest \in {Torn, Mangled} : disk' = [disk EXCEPT ![Head(todo).file] = rest]
        BY <1>19, <3>1 DEF Crash
      <4> QED
        BY <4>1, <4>2, Stored DEF Shapes, Damage
    <3>2. CASE ~(todo # <<>> /\ Head(todo).data # Torn)
      BY <1>19, <3>2 DEF Crash, Shapes, DiskShapes
    <3> QED
      BY <3>1, <3>2
  <2> QED
    BY <1>0, <1>19, <2>1 DEF Crash, Shapes
<1>20. CASE LateWrite
  <2>1. Fits(Head(late)) /\ Tail(late) \in Seq(Writes)
    BY <1>20, LateFits DEF LateWrite
  <2>2. DiskShapes'
    BY <1>20, <2>1, Stored DEF LateWrite, Shapes, Fits
  <2> QED
    BY <1>20, <2>1, <2>2 DEF LateWrite, Shapes
<1>21. CASE LateFails
  BY <1>0, <1>21 DEF LateFails, Shapes, DiskShapes
<1>22. CASE UNCHANGED configVars
  BY <1>22 DEF configVars, Shapes, DiskShapes
<1> QED
  BY <1>1, <1>2, <1>3, <1>4, <1>5, <1>6, <1>7, <1>9, <1>10, <1>11, <1>12, <1>14, <1>15, <1>16,
     <1>17, <1>18, <1>19, <1>20, <1>21, <1>22 DEF ConfigNext, Load, Use

-----------------------------------------------------------------------------
(* What is left to write, in each phase *)

LEMMA FitsIsThere ==
  ASSUME NEW w, Fits(w)
  PROVE  w.data \notin {Missing, Mangled}
<1>1. \A config \in Normal : config \notin {Missing, Mangled}
  BY FilesAssumption DEF Normal
<1>2. {} \in SUBSET Names
  OBVIOUS
<1>3. w.data # Torn => w.data \in Normal \/ w.data \in SUBSET Names \/ w.data \in Layouts
  BY <1>2 DEF Fits, Files
<1> QED
  BY <1>1, <1>3, FilesAssumption

LEMMA StaysThere ==
  ASSUME DiskShapes, NEW f \in Files, NEW d, disk' = [disk EXCEPT ![f] = d], d # Missing, NoneMissing
  PROVE  NoneMissing'
BY DEF DiskShapes, NoneMissing

LEMMA NothingToDo ==
  ASSUME Shapes', todo' = <<>>, phase' \notin {"off", "ensure"} => NoneMissing'
  PROVE  Todo'
<1>1. app_config' \in Texts /\ ip_profiles' \in Texts
  BY DEF Shapes, Texts, Normal
<1>2. {} \in Texts
  BY DEF Texts
<1>3. Rest(<<>>, SaveJson("app_config", app_config')) /\ Rest(<<>>, SaveJson("ip_profiles", ip_profiles'))
  BY <1>1, NewSave, FileNames
<1>4. Rest(<<>>, MigrationSaves(ip_profiles'))
  BY <1>1, <1>2, NewSaves, Migration, FileNames
<1>5. Rest(<<>>, UiStateSaves')
  BY UiSavesNext
<1> QED
  BY <1>3, <1>4, <1>5 DEF Todo

LEMMA TodoStep == Shapes /\ Todo /\ Late /\ Shapes' /\ [ConfigNext]_configVars => Todo'
<1> SUFFICES ASSUME Shapes, Todo, Late, Shapes', [ConfigNext]_configVars PROVE Todo'
  OBVIOUS
<1> USE DEF program, history
<1>0. UNCHANGED disk /\ NoneMissing => NoneMissing'
  BY DEF NoneMissing
<1>1. CASE Start
  BY <1>1, NothingToDo DEF Start
<1>2. CASE Ensure
  <2>1. CASE FirstMissing = {} /\ phase' = "config" /\ UNCHANGED todo
    BY <1>0, <1>2, <2>1, Ensured, NothingToDo DEF Ensure
  <2>2. CASE (\E i \in FirstMissing : todo' = SaveJson(Order[i], Defaults[Order[i]])) /\ UNCHANGED phase
    <3>1. PICK i \in FirstMissing : todo' = SaveJson(Order[i], Defaults[Order[i]])
      BY <2>2
    <3>2. PICK f \in Files : f = Order[i] /\ disk[f] = Missing
      BY <3>1, Ordered DEF FirstMissing
    <3>3. Rest(todo', SaveJson(f, Defaults[f])) /\ Len(todo') = 2 /\ Defaults' = Defaults
      BY <3>1, <3>2, TextsOf, NewSave DEF Defaults
    <3>4. disk'[f] = (IF Len(todo') = 2 THEN Missing ELSE Torn)
      BY <1>2, <3>2, <3>3 DEF Ensure
    <3>5. phase' = "ensure"
      BY <1>2, <2>2 DEF Ensure
    <3> QED
      BY <3>3, <3>4, <3>5 DEF Todo
  <2> QED
    BY <1>2, <2>1, <2>2 DEF Ensure
<1>3. CASE LoadConfig
  <2>1. app_config' \in Texts
    BY DEF Shapes, Texts, Normal
  <2>2. Rest(todo', SaveJson("app_config", app_config'))
    BY <1>3, <2>1, NewSave, FileNames DEF LoadConfig
  <2>3. phase' = "lists" /\ NoneMissing'
    BY <1>0, <1>3 DEF LoadConfig, Todo
  <2> QED
    BY <2>2, <2>3 DEF Todo
<1>4. CASE LoadLists
  <2>1. ip_profiles' \in Texts /\ {} \in Texts
    BY DEF Shapes, Texts
  <2>2. Rest(todo', MigrationSaves(ip_profiles'))
    BY <1>4, <2>1, NewSaves, Migration, FileNames DEF LoadLists
  <2>3. phase' = "reloaded" /\ NoneMissing'
    BY <1>0, <1>4 DEF LoadLists, Todo
  <2> QED
    BY <2>2, <2>3 DEF Todo
<1>5. CASE LoadRaises
  BY <1>0, <1>5, NothingToDo DEF LoadRaises, Fallen, Todo
<1>6. CASE Loaded
  BY <1>0, <1>6, NothingToDo DEF Loaded, Todo
<1>7. CASE SaveSettings
  <2>1. app_config' \in Texts
    BY DEF Shapes, Texts, Normal
  <2>2. Rest(todo', SaveJson("app_config", app_config'))
    BY <1>7, <2>1, NewSave, FileNames DEF SaveSettings
  <2>3. phase' = "running" /\ NoneMissing'
    BY <1>0, <1>7 DEF SaveSettings, Idle, Todo
  <2> QED
    BY <2>2, <2>3 DEF Todo
<1>8. ASSUME NEW p, Idle, SaveProfiles(p) PROVE Todo'
  <2>1. ip_profiles' \in Texts
    BY DEF Shapes, Texts
  <2>2. Rest(todo', SaveJson("ip_profiles", ip_profiles'))
    BY <1>8, <2>1, NewSave, FileNames DEF SaveProfiles
  <2>3. phase' = "running" /\ NoneMissing'
    BY <1>0, <1>8 DEF SaveProfiles, Idle, Todo
  <2> QED
    BY <2>2, <2>3 DEF Todo
<1>9. CASE AddProfile
  BY <1>8, <1>9 DEF AddProfile
<1>10. CASE DeleteProfile
  BY <1>8, <1>10 DEF DeleteProfile
<1>11. CASE Reload
  BY <1>0, <1>11, NothingToDo DEF Reload, Idle, Todo
<1>12. CASE Arrange
  BY <1>0, <1>12, NothingToDo DEF Arrange, Idle, Todo
<1>13. CASE Close
  <2>1. todo' = UiStateSaves'
    BY <1>13 DEF Close, UiStateSaves
  <2>2. Rest(todo', UiStateSaves')
    BY <2>1, UiSavesNext
  <2>3. phase' = "closing" /\ NoneMissing'
    BY <1>0, <1>13 DEF Close, Idle, Todo
  <2> QED
    BY <2>2, <2>3 DEF Todo
<1>14. CASE Closed
  BY <1>14, NothingToDo DEF Closed
<1>15. CASE RestartAsAdmin
  BY <1>15, NothingToDo DEF RestartAsAdmin, Idle
<1>16. CASE Write
  <2>1. /\ todo # <<>> /\ todo' = Tail(todo)
        /\ disk' = [disk EXCEPT ![Head(todo).file] = Head(todo).data]
        /\ UNCHANGED <<phase, ip_profiles, app_config, screen>>
    BY <1>16 DEF Write
  <2>2. Fits(Head(todo)) /\ phase \notin {"off", "config"} /\ Head(todo).data # Missing
    BY <2>1, NextFits, FitsIsThere
  <2>3. phase' \notin {"off", "ensure"} => NoneMissing'
    BY <2>1, <2>2, StaysThere DEF Fits, Shapes, Todo
  <2>4. phase \in {"off", "ensure", "config", "lists", "reloaded", "running", "closing"}
    BY DEF Shapes
  <2>5. CASE phase = "ensure"
    <3>1. PICK f \in Files : OneLeft(todo, f, Defaults[f])
      BY <2>1, <2>5, NextEnsure
    <3>2. Head(todo) = Part(f, Defaults[f], Len(todo)) /\ Len(todo) \in {1, 2} /\ Len(todo') = Len(todo) - 1
      BY <2>1, <3>1 DEF OneLeft
    <3>3. Head(todo).file = f /\ (Len(todo) = 2 => Head(todo).data = Torn)
      BY <3>2 DEF Part
    <3>4. disk'[f] = Head(todo).data
      BY <2>1, <3>3, Stored, <2>2 DEF Shapes, DiskShapes
    <3>5. todo' # <<>> => Len(todo') # 0
      BY DEF Shapes
    <3>6. todo' # <<>> => disk'[f] = (IF Len(todo') = 2 THEN Missing ELSE Torn)
      <4>1. PICK n, m : n = Len(todo) /\ m = Len(todo')
        OBVIOUS
      <4>2. n \in {1, 2} /\ m = n - 1
        BY <3>2, <4>1
      <4>3. todo' # <<>> => n = 2 /\ m = 1
        BY <3>5, <4>1, <4>2
      <4>4. todo' # <<>> => disk'[f] = Torn
        BY <3>3, <3>4, <4>1, <4>3
      <4>5. todo' # <<>> => Len(todo') = 1
        BY <4>1, <4>3
      <4>6. CASE todo' # <<>>
        <5>1. Len(todo') # 2
          BY <4>5, <4>6
        <5> QED
          BY <4>4, <4>6, <5>1
      <4>7. CASE todo' = <<>>
        BY <4>7
      <4> QED
        BY <4>6, <4>7
    <3>7. Rest(todo', SaveJson(f, Defaults[f])) /\ Defaults' = Defaults
      BY <2>1, <3>1 DEF OneLeft, Defaults
    <3> QED
      BY <2>1, <2>5, <3>6, <3>7 DEF Todo
  <2>6. CASE phase = "lists"
    <3>1. Rest(todo', SaveJson("app_config", app_config'))
      BY <2>1, <2>6, NextLists DEF OneLeft
    <3> QED
      BY <2>1, <2>3, <2>6, <3>1 DEF Todo
  <2>7. CASE phase = "reloaded"
    <3>1. Rest(todo', MigrationSaves(ip_profiles'))
      BY <2>1, <2>7, NextReloaded, Migration DEF TwoLeft
    <3> QED
      BY <2>1, <2>3, <2>7, <3>1 DEF Todo
  <2>8. CASE phase = "running"
    <3>1. \/ Rest(todo', SaveJson("app_config", app_config'))
          \/ Rest(todo', SaveJson("ip_profiles", ip_profiles'))
      BY <2>1, <2>8, NextRunning DEF OneLeft
    <3> QED
      BY <2>1, <2>3, <2>8, <3>1 DEF Todo
  <2>9. CASE phase = "closing"
    <3>1. Rest(todo', UiStateSaves) /\ UiStateSaves' = UiStateSaves
      BY <2>1, <2>9, NextClosing, Ui DEF TwoLeft, UiStateSaves
    <3> QED
      BY <2>1, <2>3, <2>9, <3>1 DEF Todo
  <2> QED
    BY <2>2, <2>4, <2>5, <2>6, <2>7, <2>8, <2>9
<1>17. CASE SaveFails
  <2>1. todo # <<>> /\ todo' = <<>> /\ UNCHANGED disk
    BY <1>17 DEF SaveFails
  <2>2. phase \in {"lists", "reloaded", "running", "closing"} => NoneMissing
    BY DEF Todo
  <2>3. phase \in {"ensure", "lists", "reloaded", "running", "closing"} /\ (phase = "ensure" => first)
    BY <2>1 DEF Todo, Shapes
  <2>4. phase' # "off" => phase \in {"lists", "reloaded", "running", "closing"}
    BY <1>17, <2>3 DEF SaveFails, Fallen
  <2> QED
    BY <1>0, <2>1, <2>2, <2>4, NothingToDo
<1>18. CASE Crash
  BY <1>18, NothingToDo DEF Crash
<1>19. CASE LateWrite
  <2>1. /\ late # <<>> /\ UNCHANGED <<phase, todo, ip_profiles, app_config, screen>>
        /\ disk' = [disk EXCEPT ![Head(late).file] = Head(late).data]
    BY <1>19 DEF LateWrite
  <2>2. Fits(Head(late)) /\ Head(late).data # Missing
    BY <2>1, LateFits, FitsIsThere
  <2>3. NoneMissing /\ NoneMissing'
    BY <2>1, <2>2, StaysThere DEF Fits, Shapes, Late
  <2>4. phase = "ensure" => todo = <<>>
    BY <2>1 DEF Late
  <2>5. UiStateSaves' = UiStateSaves
    BY <2>1 DEF UiStateSaves
  <2> QED
    BY <2>1, <2>3, <2>4, <2>5 DEF Todo
<1>20. CASE LateFails
  BY <1>0, <1>20 DEF LateFails, Todo, UiStateSaves, Defaults
<1>21. CASE UNCHANGED configVars
  BY <1>0, <1>21 DEF configVars, Todo, UiStateSaves, Defaults
<1> QED
  BY <1>1, <1>2, <1>3, <1>4, <1>5, <1>6, <1>7, <1>9, <1>10, <1>11, <1>12, <1>13, <1>14, <1>15,
     <1>16, <1>17, <1>18, <1>19, <1>20, <1>21 DEF ConfigNext, Load, Use

-----------------------------------------------------------------------------
(* The update channel *)

\* One of the writes t is about the file
Touches(t, file) == \E i \in 1..Len(t) : t[i].file = file

\* In memory: the promise is kept, or its successor is being saved
ChoiceInMemory ==
  Up \/ phase \in {"lists", "reloaded"} =>
    \/ app_config.channel = choice
    \/ phase = "running" /\ todo # <<>> /\ Rest(todo, SaveJson("app_config", app_config))

\* The promise about the update channel, on disk and in memory
Choices ==
  choice # Nothing =>
    /\ choice \in Channels
    /\ disk["app_config"] # Missing
    /\ Whole("app_config") => disk["app_config"].channel = choice
    /\ ChoiceInMemory
    /\ phase = "ensure" => ~Touches(todo, "app_config")

LEMMA TouchesTail ==
  ASSUME NEW S, NEW t \in Seq(S), t # <<>>, NEW file, ~Touches(t, file)
  PROVE  ~Touches(Tail(t), file) /\ Head(t).file # file
<1>1. /\ Len(t) \in Nat \ {0} /\ Len(Tail(t)) = Len(t) - 1 /\ Head(t) = t[1]
      /\ \A i \in 1..(Len(t) - 1) : Tail(t)[i] = t[i + 1]
  OBVIOUS
<1>2. \A i \in 1..(Len(t) - 1) : i + 1 \in 1..Len(t)
  BY <1>1
<1>3. \A i \in 1..Len(t) : t[i].file # file
  BY DEF Touches
<1>4. \A i \in 1..(Len(t) - 1) : Tail(t)[i].file # file
  BY <1>1, <1>2, <1>3
<1>5. Head(t).file # file
  BY <1>1, <1>3
<1> QED
  BY <1>1, <1>4, <1>5 DEF Touches

LEMMA SaveTouches ==
  ASSUME NEW f \in Files, NEW d \in Texts, NEW file, file # f
  PROVE  ~Touches(SaveJson(f, d), file)
<1>1. /\ Len(SaveJson(f, d)) = 2
      /\ SaveJson(f, d)[1] = [file |-> f, data |-> Torn]
      /\ SaveJson(f, d)[2] = [file |-> f, data |-> d]
  BY OneSave
<1>2. SaveJson(f, d)[1].file # file /\ SaveJson(f, d)[2].file # file
  BY <1>1
<1> QED
  BY <1>1, <1>2 DEF Touches

LEMMA TouchesNothing == ASSUME NEW file PROVE ~Touches(<<>>, file)
BY DEF Touches

\* No save of the running program is one of the configuration and of the profiles.
LEMMA WhichSave ==
  ASSUME Shapes, Todo, todo # <<>>, phase = "running"
  PROVE  /\ Rest(todo, SaveJson("app_config", app_config)) => Head(todo).file = "app_config"
         /\ Rest(todo, SaveJson("ip_profiles", ip_profiles)) => Head(todo).file = "ip_profiles"
<1>1. todo \in Seq(Writes) /\ app_config \in Texts /\ ip_profiles \in Texts
  BY TextsOf DEF Shapes
<1>2. ASSUME Rest(todo, SaveJson("app_config", app_config)) PROVE Head(todo).file = "app_config"
  <2>1. Head(todo) = Part("app_config", app_config, Len(todo))
    BY <1>1, <1>2, OneSaveLeft, FileNames DEF OneLeft
  <2> QED
    BY <2>1 DEF Part
<1>3. ASSUME Rest(todo, SaveJson("ip_profiles", ip_profiles)) PROVE Head(todo).file = "ip_profiles"
  <2>1. Head(todo) = Part("ip_profiles", ip_profiles, Len(todo))
    BY <1>1, <1>3, OneSaveLeft, FileNames DEF OneLeft
  <2> QED
    BY <2>1 DEF Part
<1> QED
  BY <1>2, <1>3

LEMMA PartIs ==
  ASSUME NEW f, NEW d, NEW n
  PROVE  /\ Part(f, d, n).file = f
         /\ n = 2 => Part(f, d, n).data = Torn
         /\ n # 2 => Part(f, d, n).data = d
BY DEF Part

LEMMA NormalIsWhole == \A config \in Normal : config \notin {Missing, Torn, Mangled}
BY FilesAssumption DEF Normal

\* What a write does to the files, whoever writes.
LEMMA WriteStores ==
  ASSUME Shapes, Todo, Write
  PROVE  /\ todo # <<>> /\ todo' = Tail(todo) /\ todo \in Seq(Writes)
         /\ Fits(Head(todo)) /\ Head(todo).data \notin {Missing, Mangled}
         /\ disk'[Head(todo).file] = Head(todo).data
         /\ \A g \in Files \ {Head(todo).file} : disk'[g] = disk[g]
         /\ UNCHANGED <<phase, first, app_config, ip_profiles, runtime, screen, late, left>>
         /\ phase \in {"ensure", "lists", "reloaded", "running", "closing"}
<1>1. /\ todo # <<>> /\ todo' = Tail(todo)
      /\ disk' = [disk EXCEPT ![Head(todo).file] = Head(todo).data]
      /\ UNCHANGED <<phase, first, app_config, ip_profiles, runtime, screen, late, left>>
  BY DEF Write, program
<1>2. Fits(Head(todo)) /\ phase \notin {"off", "config"} /\ Head(todo).data \notin {Missing, Mangled}
  BY <1>1, NextFits, FitsIsThere
<1>3. /\ disk'[Head(todo).file] = Head(todo).data
      /\ \A g \in Files \ {Head(todo).file} : disk'[g] = disk[g]
  <2>1. PICK f, d : f = Head(todo).file /\ d = Head(todo).data
    OBVIOUS
  <2>2. f \in Files /\ Fits([file |-> f, data |-> d]) /\ disk' = [disk EXCEPT ![f] = d]
    BY <1>1, <1>2, <2>1 DEF Fits
  <2>3. DiskShapes
    BY DEF Shapes
  <2> QED
    BY <2>1, <2>2, <2>3, Stored
<1> QED
  BY <1>1, <1>2, <1>3 DEF Shapes

LEMMA ChoicesWrite ==
  ASSUME Shapes, Todo, Choices, Write
  PROVE  Choices'
<1>1. /\ todo # <<>> /\ todo' = Tail(todo)
      /\ UNCHANGED <<phase, first, app_config>>
      /\ choice' = IF phase = "running" /\ Head(todo).data # Torn /\ Head(todo).file = "app_config"
                   THEN Head(todo).data.channel ELSE choice
  BY DEF Write, program
<1>2. Fits(Head(todo)) /\ phase \notin {"off", "config"} /\ Head(todo).data # Missing
  BY WriteStores
<1>3. /\ disk'[Head(todo).file] = Head(todo).data
      /\ \A g \in Files \ {Head(todo).file} : disk'[g] = disk[g]
  BY WriteStores
<1>4. app_config \in Normal /\ todo \in Seq(Writes)
      /\ phase \in {"off", "ensure", "config", "lists", "reloaded", "running", "closing"}
  BY DEF Shapes
<1>5. CASE phase = "ensure" /\ choice # Nothing
  <2>1. ~Touches(todo', "app_config") /\ Head(todo).file # "app_config"
    BY <1>1, <1>4, <1>5, TouchesTail DEF Choices
  <2>2. disk'["app_config"] = disk["app_config"] /\ choice' = choice
    BY <1>1, <1>3, <2>1, FileNames
  <2> QED
    BY <1>1, <1>5, <2>1, <2>2 DEF Choices, ChoiceInMemory, Up, Whole
<1>6. CASE phase = "lists" /\ choice # Nothing
  <2>1. Head(todo).file = "app_config" /\ Head(todo).data \in {Torn, app_config}
    BY <1>1, <1>6, NextLists, PartIs DEF OneLeft
  <2>2. disk'["app_config"] \in {Torn, app_config} /\ choice' = choice /\ app_config.channel = choice
    BY <1>1, <1>3, <1>6, <2>1 DEF Choices, ChoiceInMemory
  <2> QED
    BY <1>1, <1>2, <1>3, <1>6, <2>1, <2>2 DEF Choices, ChoiceInMemory, Up, Whole
<1>7. CASE phase = "reloaded" /\ choice # Nothing
  <2>1. Head(todo).file # "app_config"
    BY <1>1, <1>7, NextReloaded, PartIs DEF TwoLeft
  <2>2. disk'["app_config"] = disk["app_config"] /\ choice' = choice
    BY <1>1, <1>3, <2>1, FileNames
  <2> QED
    BY <1>1, <1>7, <2>2 DEF Choices, ChoiceInMemory, Up, Whole
<1>8. CASE phase = "closing" /\ choice # Nothing
  <2>1. app_config.channel = choice /\ choice' = choice
    BY <1>1, <1>8 DEF Choices, ChoiceInMemory, Up
  <2>2. Shut.channel = choice
    BY <1>4, <2>1 DEF Shut, Normal, Config
  <2>3. Head(todo).file = "app_config" => Head(todo).data \in {Torn, Shut}
    BY <1>1, <1>8, NextClosing, PartIs DEF TwoLeft
  <2>4. CASE Head(todo).file = "app_config"
    <3>1. disk'["app_config"] \in {Torn, Shut} /\ disk'["app_config"] # Missing
      BY <1>2, <1>3, <2>3, <2>4
    <3> QED
      BY <1>1, <1>8, <2>1, <2>2, <3>1 DEF Choices, ChoiceInMemory, Up, Whole
  <2>5. CASE Head(todo).file # "app_config"
    <3>1. disk'["app_config"] = disk["app_config"]
      BY <1>3, <2>5, FileNames
    <3> QED
      BY <1>1, <1>8, <2>1, <3>1 DEF Choices, ChoiceInMemory, Up, Whole
  <2> QED
    BY <2>4, <2>5
<1>9. CASE /\ phase = "running" /\ Rest(todo, SaveJson("app_config", app_config))
           /\ OneLeft(todo, "app_config", app_config)
  <2>1. Head(todo).file = "app_config" /\ Rest(todo', SaveJson("app_config", app_config))
    BY <1>1, <1>9, PartIs DEF OneLeft
  <2>2. PICK n : n = Len(todo) /\ n \in {1, 2} /\ Len(todo') = n - 1 /\ Head(todo) = Part("app_config", app_config, n)
    BY <1>1, <1>9 DEF OneLeft
  <2>3. CASE n = 2
    <3>1. Head(todo).data = Torn
      BY <2>2, <2>3, PartIs
    <3>2. todo' # <<>>
      BY <2>2, <2>3
    <3>3. choice' = choice /\ disk'["app_config"] = Torn
      BY <1>1, <1>3, <2>1, <3>1
    <3> QED
      BY <1>1, <1>2, <1>9, <2>1, <3>1, <3>2, <3>3 DEF Choices, ChoiceInMemory, Whole
  <2>4. CASE n = 1
    <3>1. Head(todo).data = app_config
      BY <2>2, <2>4, PartIs
    <3>2. app_config # Torn /\ app_config # Missing
      BY <1>4, NormalIsWhole
    <3>3. choice' = app_config.channel /\ disk'["app_config"] = app_config
      BY <1>1, <1>3, <1>9, <2>1, <3>1, <3>2
    <3>4. app_config.channel \in Channels
      BY <1>4 DEF Normal
    <3> QED
      <4>1. phase' = "running" /\ app_config' = app_config
        BY <1>1, <1>9
      <4>2. app_config'.channel = choice' /\ ChoiceInMemory'
        BY <3>3, <4>1 DEF ChoiceInMemory
      <4>3. choice' \in Channels /\ disk'["app_config"] # Missing /\ disk'["app_config"].channel = choice'
        BY <3>2, <3>3, <3>4
      <4> QED
        BY <4>1, <4>2, <4>3 DEF Choices
  <2> QED
    BY <2>2, <2>3, <2>4
<1>10. CASE /\ phase = "running" /\ OneLeft(todo, "ip_profiles", ip_profiles) /\ choice # Nothing
  <2>1. Head(todo).file = "ip_profiles"
    BY <1>10, PartIs DEF OneLeft
  <2>2. app_config.channel = choice
    BY <1>1, <1>10, <2>1, WhichSave DEF Choices, ChoiceInMemory, Up
  <2>3. disk'["app_config"] = disk["app_config"] /\ choice' = choice
    BY <1>1, <1>3, <2>1, FileNames
  <2> QED
    BY <1>1, <1>10, <2>2, <2>3 DEF Choices, ChoiceInMemory, Whole
<1>11. CASE choice = Nothing /\ phase # "running"
  BY <1>1, <1>11 DEF Choices
<1>12. CASE phase = "running" /\ OneLeft(todo, "ip_profiles", ip_profiles) /\ choice = Nothing
  <2>1. Head(todo).file = "ip_profiles"
    BY <1>12, PartIs DEF OneLeft
  <2> QED
    BY <1>1, <1>12, <2>1 DEF Choices
<1> QED
  BY <1>1, <1>2, <1>4, <1>5, <1>6, <1>7, <1>8, <1>9, <1>10, <1>11, <1>12, NextRunning

LEMMA ChoicesStep == Shapes /\ Todo /\ Late /\ Choices /\ Shapes' /\ [ConfigNext]_configVars => Choices'
<1> SUFFICES ASSUME Shapes, Todo, Late, Choices, Shapes', [ConfigNext]_configVars PROVE Choices'
  OBVIOUS
<1> USE DEF program, history
<1>1. CASE Start
  BY <1>1, TouchesNothing DEF Start, Choices, ChoiceInMemory, Up, Whole
<1>2. CASE Ensure
  <2>1. CASE FirstMissing = {} /\ phase' = "config" /\ UNCHANGED todo
    BY <1>2, <2>1 DEF Ensure, Choices, ChoiceInMemory, Up, Whole, Shapes
  <2>2. CASE (\E i \in FirstMissing : todo' = SaveJson(Order[i], Defaults[Order[i]])) /\ UNCHANGED phase
    <3>1. PICK i \in FirstMissing : todo' = SaveJson(Order[i], Defaults[Order[i]])
      BY <2>2
    <3>2. PICK f \in Files : f = Order[i] /\ disk[f] = Missing
      BY <3>1, Ordered DEF FirstMissing
    <3>3. choice # Nothing => f # "app_config"
      BY <3>2 DEF Choices
    <3>4. choice # Nothing => ~Touches(todo', "app_config")
      BY <3>1, <3>2, <3>3, TextsOf, SaveTouches
    <3> QED
      BY <1>2, <2>2, <3>4 DEF Ensure, Choices, ChoiceInMemory, Up, Whole
  <2> QED
    BY <1>2, <2>1, <2>2 DEF Ensure
<1>3. CASE LoadConfig
  <2>1. ~Whole("app_config") => choice' = Nothing
    BY <1>3 DEF LoadConfig
  <2>2. CASE Whole("app_config") /\ choice # Nothing
    <3>1. /\ disk["app_config"] \in Config /\ disk["app_config"].channel = choice /\ choice \in Channels
          /\ app_config' = Normalized(disk["app_config"]) /\ choice' = choice
      BY <1>3, <2>2 DEF LoadConfig, LoadJson, Choices, Whole, Shapes, DiskShapes, Damage
    <3>2. app_config'.channel = choice
      BY <3>1, NormalizedIs
    <3> QED
      BY <1>3, <3>1, <3>2 DEF LoadConfig, Choices, ChoiceInMemory, Whole
  <2>3. CASE Whole("app_config") /\ choice = Nothing
    BY <1>3, <2>3 DEF LoadConfig, Choices
  <2> QED
    BY <2>1, <2>2, <2>3 DEF Choices
<1>4. CASE LoadLists
  BY <1>4 DEF LoadLists, Choices, ChoiceInMemory, Up, Whole
<1>5. CASE LoadRaises
  BY <1>5 DEF LoadRaises, Fallen, Choices, ChoiceInMemory, Up, Whole
<1>6. CASE Loaded
  BY <1>6 DEF Loaded, Choices, ChoiceInMemory, Up, Whole
<1>7. CASE SaveSettings
  <2>1. app_config' \in Texts
    BY DEF Shapes, Texts, Normal
  <2>2. Rest(todo', SaveJson("app_config", app_config')) /\ Len(todo') = 2
    BY <1>7, <2>1, NewSave, FileNames DEF SaveSettings
  <2>3. todo' # <<>>
    BY <2>2
  <2> QED
    BY <1>7, <2>2, <2>3 DEF SaveSettings, Idle, Choices, ChoiceInMemory, Whole
<1>8. ASSUME NEW p, Idle, SaveProfiles(p) PROVE Choices'
  BY <1>8 DEF SaveProfiles, Idle, Choices, ChoiceInMemory, Up, Whole
<1>9. CASE AddProfile
  BY <1>8, <1>9 DEF AddProfile
<1>10. CASE DeleteProfile
  BY <1>8, <1>10 DEF DeleteProfile
<1>11. CASE Reload
  BY <1>11 DEF Reload, Idle, Choices, ChoiceInMemory, Up, Whole
<1>12. CASE Arrange
  BY <1>12 DEF Arrange, Idle, Choices, ChoiceInMemory, Up, Whole
<1>13. CASE Close
  BY <1>13 DEF Close, Idle, Choices, ChoiceInMemory, Up, Whole
<1>14. CASE Closed
  BY <1>14 DEF Closed, Choices, ChoiceInMemory, Up, Whole
<1>15. CASE RestartAsAdmin
  BY <1>15, TouchesNothing DEF RestartAsAdmin, Idle, Choices, ChoiceInMemory, Up, Whole
<1>16. CASE Write
  BY <1>16, ChoicesWrite
<1>17. CASE SaveFails
  <2>1. CASE Head(todo).file = "app_config"
    BY <1>17, <2>1 DEF SaveFails, Choices
  <2>2. CASE Head(todo).file # "app_config"
    <3>1. todo # <<>> /\ choice' = choice /\ UNCHANGED <<disk, app_config, first>> /\ todo' = <<>>
      BY <1>17, <2>2 DEF SaveFails
    <3>2. phase # "lists"
      BY <2>2, <3>1, NextLists, PartIs DEF OneLeft
    <3>3. phase \in {"ensure", "reloaded", "running", "closing"} /\ (phase = "ensure" => first)
      BY <3>1, <3>2 DEF Shapes, Todo
    <3>4. choice # Nothing /\ phase # "ensure" => app_config.channel = choice
      BY <2>2, <3>1, <3>3, WhichSave DEF Choices, ChoiceInMemory, Up
    <3>5. phase' # "off" => phase # "ensure"
      BY <1>17, <3>3 DEF SaveFails, Fallen
    <3>6. phase' \in {"off", "running", "closing"}
      BY <1>17 DEF SaveFails, Fallen
    <3> QED
      BY <3>1, <3>4, <3>5, <3>6 DEF Choices, ChoiceInMemory, Up, Whole
  <2> QED
    BY <2>1, <2>2
<1>18. CASE Crash
  <2>1. phase' = "off" /\ choice' = choice
    BY <1>18 DEF Crash
  <2>2. disk'["app_config"] \in {disk["app_config"], Torn, Mangled}
    <3>1. CASE todo # <<>> /\ Head(todo).data # Torn
      <4>1. Head(todo).file \in Files
        BY <3>1, NextFits DEF Fits
      <4>2. PICK rest \in {Torn, Mangled} : disk' = [disk EXCEPT ![Head(todo).file] = rest]
        BY <1>18, <3>1 DEF Crash
      <4> QED
        BY <4>1, <4>2, FileNames DEF Shapes, DiskShapes
    <3>2. CASE ~(todo # <<>> /\ Head(todo).data # Torn)
      BY <1>18, <3>2 DEF Crash
    <3> QED
      BY <3>1, <3>2
  <2> QED
    BY <2>1, <2>2, FilesAssumption DEF Choices, ChoiceInMemory, Up, Whole
<1>19. CASE LateWrite
  <2>1. /\ late # <<>> /\ UNCHANGED <<phase, first, todo, app_config, choice>>
        /\ disk' = [disk EXCEPT ![Head(late).file] = Head(late).data]
    BY <1>19 DEF LateWrite
  <2>2. PICK config \in Normal, forms \in Layouts :
          /\ TwoLeft(late, "runtime", forms, "app_config", config)
          /\ choice # Nothing => config.channel = choice
    BY <2>1, NextLate
  <2>3. Head(late).file = "app_config" => Head(late).data \in {Torn, config}
    BY <2>2, PartIs DEF TwoLeft
  <2>4. disk'["app_config"] \in {disk["app_config"], Torn, config}
    <3>1. Head(late).file \in Files
      BY <2>1, LateFits DEF Fits
    <3> QED
      BY <2>1, <2>3, <3>1, FileNames DEF Shapes, DiskShapes
  <2>5. config \notin {Missing, Torn, Mangled} /\ Torn # Missing
    BY <2>2, NormalIsWhole, FilesAssumption
  <2> QED
    BY <2>1, <2>2, <2>4, <2>5 DEF Choices, ChoiceInMemory, Up, Whole
<1>20. CASE LateFails
  BY <1>20 DEF LateFails, Choices, ChoiceInMemory, Up, Whole
<1>21. CASE UNCHANGED configVars
  BY <1>21 DEF configVars, Choices, ChoiceInMemory, Up, Whole
<1> QED
  BY <1>1, <1>2, <1>3, <1>4, <1>5, <1>6, <1>7, <1>9, <1>10, <1>11, <1>12, <1>13, <1>14, <1>15,
     <1>16, <1>17, <1>18, <1>19, <1>20, <1>21 DEF ConfigNext, Load, Use

LEMMA LateStep == Shapes /\ Todo /\ Late /\ Choices /\ [ConfigNext]_configVars => Late'
<1> SUFFICES ASSUME Shapes, Todo, Late, Choices, [ConfigNext]_configVars PROVE Late'
  OBVIOUS
<1> USE DEF program, history
<1>0. UNCHANGED disk /\ NoneMissing => NoneMissing'
  BY DEF NoneMissing
<1>1. CASE Start
  BY <1>1 DEF Start, Late
<1>2. CASE Ensure
  <2>1. late # <<>> => UNCHANGED todo
    BY <1>2, Ordered DEF Ensure, FirstMissing, NoneMissing, Late
  <2> QED
    BY <1>0, <1>2, <2>1 DEF Ensure, Late
<1>3. CASE LoadConfig
  BY <1>0, <1>3 DEF LoadConfig, Late
<1>4. CASE LoadLists
  BY <1>0, <1>4 DEF LoadLists, Late
<1>5. CASE LoadRaises
  BY <1>0, <1>5 DEF LoadRaises, Late
<1>6. CASE Loaded
  BY <1>0, <1>6 DEF Loaded, Late
<1>7. CASE Idle /\ UNCHANGED late
  BY <1>7 DEF Idle, Late
<1>8. CASE SaveSettings \/ AddProfile \/ DeleteProfile \/ Reload \/ Arrange \/ Close
  BY <1>7, <1>8 DEF SaveSettings, AddProfile, DeleteProfile, SaveProfiles, Reload, Arrange, Close
<1>9. CASE Closed
  BY <1>0, <1>9 DEF Closed, Late
<1>10. CASE RestartAsAdmin
  <2>1. late' = Both("runtime", screen.forms, "app_config", Shut)
    BY <1>10, Ui DEF RestartAsAdmin
  <2>2. late' = Closing(Shut, screen.forms)
    BY <2>1 DEF Both, Closing
  <2>3. Shut \in Normal /\ screen.forms \in Layouts /\ Shut.channel = app_config.channel
    BY TextsOf DEF Shapes, Shut, Normal, Config
  <2>4. Rest(late', Closing(Shut, screen.forms))
    BY <1>10, <2>2, UiSaves DEF RestartAsAdmin
  <2>5. choice # Nothing => app_config.channel = choice
    BY <1>10 DEF RestartAsAdmin, Idle, Choices, ChoiceInMemory, Up
  <2>6. phase' = "ensure" /\ todo' = <<>> /\ choice' = choice /\ NoneMissing'
    BY <1>0, <1>10 DEF RestartAsAdmin, Idle, Todo
  <2> QED
    BY <2>3, <2>4, <2>5, <2>6 DEF Late
<1>11. CASE Write
  <2>1. /\ todo # <<>> /\ todo' = Tail(todo) /\ UNCHANGED <<phase, late>>
        /\ disk' = [disk EXCEPT ![Head(todo).file] = Head(todo).data]
        /\ phase # "running" => choice' = choice
    BY <1>11 DEF Write
  <2>2. Head(todo).file \in Files /\ Head(todo).data # Missing
    BY <2>1, NextFits, FitsIsThere DEF Fits
  <2>3. NoneMissing => NoneMissing'
    BY <2>1, <2>2, StaysThere DEF Shapes
  <2> QED
    BY <2>1, <2>3 DEF Late
<1>12. CASE SaveFails
  <2>1. choice' \in {choice, Nothing} /\ todo' = <<>> /\ UNCHANGED <<disk, late>>
    BY <1>12 DEF SaveFails
  <2> QED
    BY <1>0, <2>1 DEF Late
<1>13. CASE Crash
  <2>1. phase' = "off" /\ UNCHANGED <<late, choice>>
    BY <1>13 DEF Crash
  <2>2. NoneMissing => NoneMissing'
    <3>1. CASE todo # <<>> /\ Head(todo).data # Torn
      <4>1. Head(todo).file \in Files
        BY <3>1, NextFits DEF Fits
      <4>2. PICK rest \in {Torn, Mangled} : disk' = [disk EXCEPT ![Head(todo).file] = rest]
        BY <1>13, <3>1 DEF Crash
      <4> QED
        BY <4>1, <4>2, StaysThere, FilesAssumption DEF Shapes
    <3>2. CASE ~(todo # <<>> /\ Head(todo).data # Torn)
      BY <1>0, <1>13, <3>2 DEF Crash
    <3> QED
      BY <3>1, <3>2
  <2> QED
    BY <2>1, <2>2 DEF Late
<1>14. CASE LateWrite
  <2>1. /\ late # <<>> /\ late' = Tail(late) /\ UNCHANGED <<phase, todo, choice>>
        /\ disk' = [disk EXCEPT ![Head(late).file] = Head(late).data]
    BY <1>14 DEF LateWrite
  <2>2. Fits(Head(late)) /\ Head(late).data # Missing
    BY <2>1, LateFits, FitsIsThere
  <2>3. NoneMissing'
    BY <2>1, <2>2, StaysThere DEF Fits, Shapes, Late
  <2>4. PICK config \in Normal, forms \in Layouts :
          /\ TwoLeft(late, "runtime", forms, "app_config", config)
          /\ choice # Nothing => config.channel = choice
    BY <2>1, NextLate
  <2>5. Rest(late', Closing(config, forms))
    BY <2>1, <2>4 DEF TwoLeft, Both, Closing
  <2>6. phase \in {"ensure", "running"} => todo = <<>>
    BY <2>1 DEF Late
  <2> QED
    BY <2>1, <2>3, <2>4, <2>5, <2>6 DEF Late
<1>15. CASE LateFails
  BY <1>15 DEF LateFails, Late
<1>16. CASE UNCHANGED configVars
  BY <1>0, <1>16 DEF configVars, Late
<1> QED
  BY <1>1, <1>2, <1>3, <1>4, <1>5, <1>6, <1>8, <1>9, <1>10, <1>11, <1>12, <1>13, <1>14, <1>15, <1>16
     DEF ConfigNext, Load, Use

-----------------------------------------------------------------------------
(* The legacy presets *)

\* The legacy list has been merged
Cleared == disk["vendor_presets"] \in {Torn, Mangled, {}}

\* How far the migration is, and what it leaves of the legacy list
Migrating ==
  /\ todo = <<>> => Cleared
  /\ Len(todo) = 1 => disk["vendor_presets"] = Torn
  /\ Len(todo) \in {1, 2} => disk["ip_profiles"] = ip_profiles
  /\ Whole("vendor_presets") => disk["vendor_presets"] \subseteq ip_profiles

Presets == (Up => Cleared) /\ (phase = "reloaded" => Migrating)

\* What a crash does to them.
LEMMA CrashDamages ==
  ASSUME Shapes, Todo, Crash
  PROVE  /\ phase' = "off" /\ todo' = <<>> /\ UNCHANGED <<ip_profiles, app_config, runtime, late, deleted, choice>>
         /\ \A g \in Files : \/ disk'[g] = disk[g]
                             \/ /\ disk'[g] \in {Torn, Mangled} /\ todo # <<>>
                                /\ Head(todo).file = g /\ Head(todo).data # Torn
<1>1. /\ phase' = "off" /\ todo' = <<>>
      /\ UNCHANGED <<ip_profiles, app_config, runtime, late, deleted, choice>>
  BY DEF Crash
<1>2. CASE todo # <<>> /\ Head(todo).data # Torn
  <2>1. Head(todo).file \in Files
    BY <1>2, NextFits DEF Fits
  <2>2. PICK rest \in {Torn, Mangled} : disk' = [disk EXCEPT ![Head(todo).file] = rest]
    BY <1>2 DEF Crash
  <2>3. \A g \in Files : disk'[g] = IF g = Head(todo).file THEN rest ELSE disk[g]
    BY <2>1, <2>2 DEF Shapes, DiskShapes
  <2> QED
    BY <1>1, <1>2, <2>2, <2>3
<1>3. CASE ~(todo # <<>> /\ Head(todo).data # Torn)
  BY <1>1, <1>3 DEF Crash
<1> QED
  BY <1>2, <1>3

\* What a program left behind by a restart does to them.
LEMMA LateStores ==
  ASSUME Shapes, Late, LateWrite
  PROVE  /\ late # <<>> /\ UNCHANGED <<phase, first, todo, app_config, ip_profiles, runtime, screen, choice, left, deleted>>
         /\ disk'["ip_profiles"] = disk["ip_profiles"] /\ disk'["vendor_presets"] = disk["vendor_presets"]
<1>1. /\ late # <<>> /\ UNCHANGED <<phase, first, todo, app_config, ip_profiles, runtime, screen, choice, left, deleted>>
      /\ disk' = [disk EXCEPT ![Head(late).file] = Head(late).data]
  BY DEF LateWrite, program, history
<1>2. Head(late).file \in {"runtime", "app_config"}
  BY <1>1, LateFits
<1> QED
  BY <1>1, <1>2 DEF Shapes, DiskShapes, Files

\* What a write of the migration does to it.
LEMMA MigrationWrite ==
  ASSUME Shapes, Todo, Presets, Write, phase = "reloaded"
  PROVE  /\ Migrating'
         /\ \/ disk'["vendor_presets"] = disk["vendor_presets"]
            \/ ~Whole("vendor_presets")
            \/ disk["ip_profiles"] = ip_profiles /\ disk["vendor_presets"] \subseteq ip_profiles
<1>1. /\ todo # <<>> /\ Fits(Head(todo)) /\ UNCHANGED <<phase, first, ip_profiles>>
      /\ disk'[Head(todo).file] = Head(todo).data
      /\ \A g \in Files \ {Head(todo).file} : disk'[g] = disk[g]
  BY WriteStores
<1>2. PICK n : /\ n = Len(todo) /\ n \in {1, 2, 3, 4} /\ Len(todo') = n - 1
               /\ n \in {1, 2} => Head(todo) = Part("vendor_presets", {}, n)
               /\ n \in {3, 4} => Head(todo) = Part("ip_profiles", ip_profiles, n - 2)
  BY <1>1, WriteStores, NextReloaded DEF TwoLeft
<1>3. Migrating
  BY DEF Presets
<1>4. CASE n = 4
  <2>1. disk'["vendor_presets"] = disk["vendor_presets"] /\ Len(todo') = 3
    BY <1>1, <1>2, <1>4, PartIs, FileNames
  <2>2. todo' # <<>> /\ Len(todo') \notin {1, 2}
    BY <2>1
  <2> QED
    BY <1>1, <1>3, <2>1, <2>2 DEF Migrating, Whole
<1>5. CASE n = 3
  <2>1. Head(todo).file = "ip_profiles" /\ Head(todo).data = ip_profiles /\ Len(todo') = 2
    BY <1>2, <1>5, PartIs
  <2>2. disk'["vendor_presets"] = disk["vendor_presets"] /\ disk'["ip_profiles"] = ip_profiles
    BY <1>1, <2>1, FileNames
  <2>3. todo' # <<>> /\ Len(todo') # 1
    <3>1. Len(todo') = 2
      BY <2>1
    <3> QED
      BY <3>1
  <2> QED
    BY <1>1, <1>3, <2>2, <2>3 DEF Migrating, Whole
<1>6. CASE n = 2
  <2>1. Head(todo).file = "vendor_presets" /\ Head(todo).data = Torn /\ Len(todo') = 1
    BY <1>2, <1>6, PartIs
  <2>2. disk'["vendor_presets"] = Torn /\ disk'["ip_profiles"] = disk["ip_profiles"]
    BY <1>1, <2>1, FileNames
  <2>3. todo' # <<>>
    <3>1. Len(todo') = 1
      BY <2>1
    <3> QED
      BY <3>1
  <2>4. disk["ip_profiles"] = ip_profiles
    BY <1>2, <1>3, <1>6 DEF Migrating
  <2> QED
    BY <1>1, <1>3, <2>2, <2>3, <2>4 DEF Migrating, Whole
<1>7. CASE n = 1
  <2>1. Head(todo).file = "vendor_presets" /\ Head(todo).data = {} /\ Len(todo') = 0
    BY <1>2, <1>7, PartIs
  <2>2. disk'["vendor_presets"] = {}
    BY <1>1, <2>1
  <2>3. Len(todo') \notin {1, 2}
    BY <2>1
  <2>4. disk["vendor_presets"] = Torn
    BY <1>2, <1>3, <1>7 DEF Migrating
  <2> QED
    BY <1>1, <2>2, <2>3, <2>4 DEF Migrating, Cleared, Whole
<1> QED
  BY <1>2, <1>4, <1>5, <1>6, <1>7

LEMMA PresetsStep == Shapes /\ Todo /\ Late /\ Presets /\ [ConfigNext]_configVars => Presets'
<1> SUFFICES ASSUME Shapes, Todo, Late, Presets, [ConfigNext]_configVars PROVE Presets'
  OBVIOUS
<1> USE DEF program, history
<1>1. CASE Start
  BY <1>1 DEF Start, Presets, Up
<1>2. CASE Ensure
  BY <1>2 DEF Ensure, Shapes, Presets, Up
<1>3. CASE LoadConfig
  BY <1>3 DEF LoadConfig, Presets, Migrating, Cleared, Up
<1>4. CASE LoadLists
  <2>1. disk' = disk /\ phase' = "reloaded" /\ first' = first /\ phase = "lists" /\ NoneMissing
    BY <1>4 DEF LoadLists, Todo, Merged
  <2>2. PICK legacy : /\ legacy = LoadJson("vendor_presets", {})
                      /\ ip_profiles' = LoadJson("ip_profiles", {}) \cup legacy
                      /\ todo' = IF legacy = {} THEN <<>> ELSE MigrationSaves(ip_profiles')
    BY <1>4 DEF LoadLists, Merged
  <2>3. ip_profiles' \in Texts /\ {} \in Texts
    BY <2>2, Loads DEF Texts
  <2>4. Len(MigrationSaves(ip_profiles')) = 4
    BY <2>3, NewSaves, Migration, FileNames
  <2>5. (Len(todo') \in {0, 4}) /\ (todo' = <<>> => legacy = {})
    <3> HIDE DEF MigrationSaves
    <3>1. CASE legacy = {}
      BY <2>2, <3>1
    <3>2. CASE legacy # {}
      <4>1. Len(todo') = 4
        BY <2>2, <2>4, <3>2
      <4> QED
        BY <3>2, <4>1
    <3> QED
      BY <3>1, <3>2
  <2>6. legacy = {} => Cleared
    BY <2>1, <2>2, FileNames DEF LoadJson, Whole, Cleared, NoneMissing
  <2>7. Whole("vendor_presets") => disk["vendor_presets"] \subseteq ip_profiles'
    BY <2>2 DEF LoadJson
  <2> QED
    BY <2>1, <2>5, <2>6, <2>7 DEF Presets, Migrating, Up, Cleared, Whole
<1>5. CASE LoadRaises
  BY <1>5 DEF LoadRaises, Fallen, Presets, Migrating, Cleared, Up
<1>6. CASE Loaded
  BY <1>6 DEF Loaded, Presets, Migrating, Cleared, Up
<1>7. CASE Idle /\ UNCHANGED disk /\ phase' # "reloaded"
  BY <1>7 DEF Idle, Presets, Migrating, Cleared, Up
<1>8. CASE SaveSettings \/ AddProfile \/ DeleteProfile \/ Reload \/ Arrange \/ Close \/ RestartAsAdmin
  BY <1>7, <1>8 DEF SaveSettings, AddProfile, DeleteProfile, SaveProfiles, Reload, Arrange, Close, RestartAsAdmin, Idle
<1>9. CASE Closed
  BY <1>9 DEF Closed, Presets, Migrating, Cleared, Up
<1>10. CASE Write
  <2>1. /\ todo # <<>> /\ todo' = Tail(todo) /\ Fits(Head(todo)) /\ UNCHANGED <<phase, first, ip_profiles>>
        /\ disk'[Head(todo).file] = Head(todo).data
        /\ \A g \in Files \ {Head(todo).file} : disk'[g] = disk[g]
        /\ phase \in {"ensure", "lists", "reloaded", "running", "closing"}
    BY <1>10, WriteStores
  <2>2. Cleared => Cleared'
    BY <2>1, FileNames DEF Cleared, Fits
  <2>3. CASE phase # "reloaded"
    BY <2>1, <2>2, <2>3 DEF Presets, Up
  <2>4. CASE phase = "reloaded"
    BY <1>10, <2>1, <2>2, <2>4, MigrationWrite DEF Presets, Up
  <2> QED
    BY <2>3, <2>4
<1>11. CASE SaveFails
  <2>1. phase \in {"ensure", "lists", "reloaded", "running", "closing"} /\ (phase = "ensure" => first)
    BY <1>11 DEF SaveFails, Todo, Shapes
  <2> QED
    BY <1>11, <2>1 DEF SaveFails, Fallen, Presets, Migrating, Cleared, Up
<1>12. CASE Crash
  BY <1>12 DEF Crash, Presets, Up
<1>13. CASE LateWrite
  BY <1>13, LateStores DEF Presets, Migrating, Cleared, Up, Whole
<1>14. CASE LateFails
  BY <1>14 DEF LateFails, Presets, Migrating, Cleared, Up, Whole
<1>15. CASE UNCHANGED configVars
  BY <1>15 DEF configVars, Presets, Migrating, Cleared, Up, Whole
<1> QED
  BY <1>1, <1>2, <1>3, <1>4, <1>5, <1>6, <1>8, <1>9, <1>10, <1>11, <1>12, <1>13, <1>14, <1>15
     DEF ConfigNext, Load, Use

\* Outside the migration, nobody writes over a whole legacy list.
LEMMA PresetsWritten ==
  ASSUME Shapes, Todo, todo # <<>>, Head(todo).file = "vendor_presets", Whole("vendor_presets")
  PROVE  phase = "reloaded"
<1>1. phase \in {"ensure", "lists", "reloaded", "running", "closing"}
  BY NextFits DEF Shapes
<1>2. phase # "ensure"
  <2> SUFFICES ASSUME phase = "ensure" PROVE FALSE
    OBVIOUS
  <2>1. PICK f \in Files : /\ Head(todo) = Part(f, Defaults[f], Len(todo))
                           /\ disk[f] \in {Missing, Torn}
    BY NextEnsure DEF OneLeft
  <2>2. f = "vendor_presets"
    BY <2>1, PartIs
  <2> QED
    BY <2>1, <2>2 DEF Whole
<1>3. phase # "lists"
  BY NextLists, PartIs DEF OneLeft
<1>4. phase # "running"
  BY NextRunning, PartIs DEF OneLeft
<1>5. phase # "closing"
  BY NextClosing, PartIs DEF TwoLeft
<1> QED
  BY <1>1, <1>2, <1>3, <1>4, <1>5

LEMMA ClearedAfterKeptStep ==
  ASSUME Shapes, Todo, Late, Presets, [ConfigNext]_configVars,
         Whole("vendor_presets"), disk'["vendor_presets"] # disk["vendor_presets"]
  PROVE  Whole("ip_profiles") /\ disk["vendor_presets"] \subseteq disk["ip_profiles"]
<1>1. CASE Write
  <2>1. todo # <<>> /\ Head(todo).file = "vendor_presets"
    BY <1>1, WriteStores, FileNames
  <2>2. phase = "reloaded"
    BY <2>1, PresetsWritten
  <2>3. disk["ip_profiles"] = ip_profiles /\ disk["vendor_presets"] \subseteq ip_profiles
    BY <1>1, <2>2, MigrationWrite
  <2>4. ip_profiles \in SUBSET Names
    BY DEF Shapes
  <2> QED
    BY <2>3, <2>4, FilesAssumption DEF Whole
<1>2. CASE Crash
  <2>1. todo # <<>> /\ Head(todo).file = "vendor_presets" /\ Head(todo).data # Torn
    BY <1>2, CrashDamages, FileNames
  <2>2. phase = "reloaded"
    BY <2>1, PresetsWritten
  <2>3. TwoLeft(todo, "ip_profiles", ip_profiles, "vendor_presets", {})
    BY <2>1, <2>2, NextReloaded
  <2>4. Len(todo) = 1
    BY <2>1, <2>3, PartIs DEF TwoLeft
  <2> QED
    BY <2>2, <2>4 DEF Presets, Migrating, Whole
<1>3. CASE LateWrite
  BY <1>3, LateStores
<1>4. CASE Load \/ SaveFails \/ LateFails \/ UNCHANGED configVars
  BY <1>4 DEF Load, Start, Ensure, LoadConfig, LoadLists, LoadRaises, Loaded, SaveFails, LateFails, configVars
<1>5. CASE Use
  BY <1>5 DEF Use, SaveSettings, AddProfile, DeleteProfile, SaveProfiles, Reload, Arrange, Close,
              Closed, RestartAsAdmin
<1> QED
  BY <1>1, <1>2, <1>3, <1>4, <1>5 DEF ConfigNext

-----------------------------------------------------------------------------
(* Deleted profiles *)

\* In memory: the deleted profiles are gone, or their return is being saved
DeletionInMemory ==
  Up \/ phase = "reloaded" =>
    \/ deleted \cap ip_profiles = {}
    \/ phase = "running" /\ todo # <<>> /\ Rest(todo, SaveJson("ip_profiles", ip_profiles))

\* No file a program may read has a profile that is deleted
Deletions ==
  /\ Whole("ip_profiles") => deleted \cap disk["ip_profiles"] = {}
  /\ Whole("vendor_presets") => deleted \cap disk["vendor_presets"] = {}
  /\ DeletionInMemory
  /\ disk["ip_profiles"] = Missing => deleted = {}
  /\ phase = "ensure" /\ Touches(todo, "ip_profiles") => deleted = {}

LEMMA NoneDeleted == deleted' = {} => Deletions'
BY DEF Deletions, DeletionInMemory

LEMMA DeletionsWrite ==
  ASSUME Shapes, Todo, Presets, Deletions, Write
  PROVE  Deletions'
<1>1. /\ todo # <<>> /\ todo' = Tail(todo) /\ todo \in Seq(Writes)
      /\ Fits(Head(todo)) /\ Head(todo).data \notin {Missing, Mangled}
      /\ disk'[Head(todo).file] = Head(todo).data
      /\ \A g \in Files \ {Head(todo).file} : disk'[g] = disk[g]
      /\ UNCHANGED <<phase, first, ip_profiles>>
      /\ phase \in {"ensure", "lists", "reloaded", "running", "closing"}
  BY WriteStores
<1>2. deleted' = IF phase = "running" /\ Head(todo).data # Torn /\ Head(todo).file = "ip_profiles"
                 THEN Names \ Head(todo).data ELSE deleted
  BY DEF Write
<1>3. disk'["vendor_presets"] \in {disk["vendor_presets"], Torn, {}}
  BY <1>1, FileNames DEF Fits
<1>4. ASSUME Head(todo).file # "ip_profiles",
             Up \/ phase = "reloaded" => deleted \cap ip_profiles = {},
             phase = "ensure" /\ Touches(todo', "ip_profiles") => deleted = {}
      PROVE  Deletions'
  <2>1. deleted' = deleted /\ disk'["ip_profiles"] = disk["ip_profiles"]
    BY <1>1, <1>2, <1>4, FileNames
  <2>2. Whole("vendor_presets")' => deleted' \cap disk'["vendor_presets"] = {}
    BY <1>3, <2>1 DEF Deletions, Whole
  <2>3. DeletionInMemory'
    BY <1>1, <1>4, <2>1 DEF DeletionInMemory, Up
  <2> QED
    BY <1>1, <1>4, <2>1, <2>2, <2>3 DEF Deletions, Whole
<1>5. CASE phase = "ensure"
  <2>1. CASE deleted = {}
    BY <1>2, <1>5, <2>1, NoneDeleted
  <2>2. CASE deleted # {}
    <3>1. ~Touches(todo', "ip_profiles") /\ Head(todo).file # "ip_profiles"
      BY <1>1, <1>5, <2>2, TouchesTail DEF Deletions
    <3> QED
      BY <1>4, <1>5, <3>1 DEF Up
  <2> QED
    BY <2>1, <2>2
<1>6. CASE phase = "lists"
  <2>1. Head(todo).file # "ip_profiles"
    BY <1>1, <1>6, NextLists, PartIs DEF OneLeft
  <2> QED
    BY <1>4, <1>6, <2>1 DEF Deletions, DeletionInMemory
<1>7. CASE phase = "closing"
  <2>1. Head(todo).file # "ip_profiles"
    BY <1>1, <1>7, NextClosing, PartIs DEF TwoLeft
  <2> QED
    BY <1>4, <1>7, <2>1 DEF Deletions, DeletionInMemory
<1>8. CASE phase = "reloaded"
  <2>1. deleted \cap ip_profiles = {} /\ deleted' = deleted
    BY <1>2, <1>8 DEF Deletions, DeletionInMemory
  <2>2. CASE Head(todo).file # "ip_profiles"
    BY <1>4, <1>8, <2>1, <2>2
  <2>3. CASE Head(todo).file = "ip_profiles"
    <3>1. Head(todo).data \in {Torn, ip_profiles}
      BY <1>1, <1>8, <2>3, NextReloaded, PartIs DEF TwoLeft
    <3>2. disk'["ip_profiles"] \in {Torn, ip_profiles} /\ disk'["ip_profiles"] # Missing
      BY <1>1, <2>3, <3>1
    <3>3. Whole("vendor_presets")' => deleted' \cap disk'["vendor_presets"] = {}
      BY <1>3, <2>1 DEF Deletions, Whole
    <3>4. DeletionInMemory'
      BY <1>1, <2>1 DEF DeletionInMemory
    <3> QED
      BY <1>1, <1>8, <2>1, <3>2, <3>3, <3>4 DEF Deletions, Whole
  <2> QED
    BY <2>2, <2>3
<1>9. CASE phase = "running" /\ OneLeft(todo, "app_config", app_config)
  <2>1. Head(todo).file = "app_config"
    BY <1>9, PartIs DEF OneLeft
  <2>2. deleted \cap ip_profiles = {}
    BY <1>1, <1>9, <2>1, WhichSave DEF Deletions, DeletionInMemory, Up
  <2> QED
    BY <1>4, <1>9, <2>1, <2>2
<1>10. CASE phase = "running" /\ OneLeft(todo, "ip_profiles", ip_profiles)
  <2>1. PICK n : /\ n = Len(todo) /\ n \in {1, 2} /\ Len(todo') = n - 1
                 /\ Head(todo) = Part("ip_profiles", ip_profiles, n)
                 /\ Rest(todo', SaveJson("ip_profiles", ip_profiles))
    BY <1>1, <1>10 DEF OneLeft
  <2>2. Head(todo).file = "ip_profiles" /\ disk'["ip_profiles"] = Head(todo).data
        /\ disk'["vendor_presets"] = disk["vendor_presets"]
    BY <1>1, <2>1, PartIs, FileNames
  <2>3. Cleared /\ phase' = "running" /\ ip_profiles' = ip_profiles
    BY <1>1, <1>10 DEF Presets, Up
  <2>4. Whole("vendor_presets")' => deleted' \cap disk'["vendor_presets"] = {}
    BY <2>2, <2>3 DEF Cleared, Whole
  <2>5. CASE n = 2
    <3>1. Head(todo).data = Torn /\ todo' # <<>> /\ Torn # Missing
      BY <2>1, <2>5, PartIs, FilesAssumption
    <3>2. DeletionInMemory'
      BY <2>1, <2>3, <3>1 DEF DeletionInMemory
    <3> QED
      BY <2>2, <2>3, <2>4, <3>1, <3>2 DEF Deletions, Whole
  <2>6. CASE n = 1
    <3>1. Head(todo).data = ip_profiles /\ ip_profiles \in SUBSET Names
      BY <2>1, <2>6, PartIs DEF Shapes
    <3>2. ip_profiles # Torn /\ ip_profiles # Missing
      BY <3>1, FilesAssumption
    <3>3. deleted' = Names \ ip_profiles
      BY <1>2, <1>10, <2>2, <3>1, <3>2
    <3>4. DeletionInMemory'
      BY <2>3, <3>3 DEF DeletionInMemory
    <3> QED
      BY <2>2, <2>3, <2>4, <3>1, <3>2, <3>3, <3>4 DEF Deletions, Whole
  <2> QED
    BY <2>1, <2>5, <2>6
<1> QED
  BY <1>1, <1>5, <1>6, <1>7, <1>8, <1>9, <1>10, NextRunning

LEMMA DeletionsStep ==
  Shapes /\ Todo /\ Late /\ Presets /\ Deletions /\ Shapes' /\ [ConfigNext]_configVars => Deletions'
<1> SUFFICES ASSUME Shapes, Todo, Late, Presets, Deletions, Shapes', [ConfigNext]_configVars
             PROVE  Deletions'
  OBVIOUS
<1> USE DEF program, history
<1>1. CASE Start
  BY <1>1, TouchesNothing DEF Start, Deletions, DeletionInMemory, Up, Whole
<1>2. CASE Ensure
  <2>1. CASE FirstMissing = {} /\ phase' = "config" /\ UNCHANGED todo
    BY <1>2, <2>1 DEF Ensure, Deletions, DeletionInMemory, Up, Whole, Shapes
  <2>2. CASE (\E i \in FirstMissing : todo' = SaveJson(Order[i], Defaults[Order[i]])) /\ UNCHANGED phase
    <3>1. PICK i \in FirstMissing : todo' = SaveJson(Order[i], Defaults[Order[i]])
      BY <2>2
    <3>2. PICK f \in Files : f = Order[i] /\ disk[f] = Missing
      BY <3>1, Ordered DEF FirstMissing
    <3>3. deleted # {} => f # "ip_profiles"
      BY <3>2 DEF Deletions
    <3>4. deleted # {} => ~Touches(todo', "ip_profiles")
      BY <3>1, <3>2, <3>3, TextsOf, SaveTouches
    <3> QED
      BY <1>2, <2>2, <3>4 DEF Ensure, Deletions, DeletionInMemory, Up, Whole
  <2> QED
    BY <1>2, <2>1, <2>2 DEF Ensure
<1>3. CASE LoadConfig
  BY <1>3 DEF LoadConfig, Deletions, DeletionInMemory, Up, Whole
<1>0. deleted \cap Merged = {}
  <2>1. deleted \cap LoadJson("ip_profiles", {}) = {} /\ deleted \cap LoadJson("vendor_presets", {}) = {}
    BY DEF Deletions, LoadJson
  <2> QED
    BY <2>1 DEF Merged
<1>4. CASE LoadLists
  <2>1. disk' = disk /\ deleted' = deleted /\ phase' = "reloaded" /\ ip_profiles' = Merged
    BY <1>4 DEF LoadLists
  <2> QED
    BY <1>0, <2>1 DEF Deletions, DeletionInMemory, Whole
<1>5. CASE LoadRaises
  <2>1. /\ UNCHANGED <<disk, deleted, todo, late>> /\ ip_profiles' \in {ip_profiles, Merged}
        /\ phase \in {"config", "lists"} /\ phase' = Fallen
    BY <1>5 DEF LoadRaises
  <2> QED
    BY <1>0, <2>1 DEF Fallen, Deletions, DeletionInMemory, Up, Whole
<1>6. CASE Loaded
  BY <1>6 DEF Loaded, Deletions, DeletionInMemory, Up, Whole
<1>7. CASE SaveSettings
  BY <1>7 DEF SaveSettings, Idle, Deletions, DeletionInMemory, Up, Whole
<1>8. ASSUME NEW p, Idle, SaveProfiles(p) PROVE Deletions'
  <2>1. ip_profiles' \in Texts
    BY DEF Shapes, Texts
  <2>2. Rest(todo', SaveJson("ip_profiles", ip_profiles')) /\ Len(todo') = 2
    BY <1>8, <2>1, NewSave, FileNames DEF SaveProfiles
  <2>3. todo' # <<>>
    BY <2>2
  <2> QED
    BY <1>8, <2>2, <2>3 DEF SaveProfiles, Idle, Deletions, DeletionInMemory, Whole
<1>9. CASE AddProfile
  BY <1>8, <1>9 DEF AddProfile
<1>10. CASE DeleteProfile
  BY <1>8, <1>10 DEF DeleteProfile
<1>11. CASE Reload
  BY <1>11 DEF Reload, Idle, Deletions, DeletionInMemory, Up, Whole
<1>12. CASE Arrange
  BY <1>12 DEF Arrange, Idle, Deletions, DeletionInMemory, Up, Whole
<1>13. CASE Close
  BY <1>13 DEF Close, Idle, Deletions, DeletionInMemory, Up, Whole
<1>14. CASE Closed
  BY <1>14 DEF Closed, Deletions, DeletionInMemory, Up, Whole
<1>15. CASE RestartAsAdmin
  BY <1>15, TouchesNothing DEF RestartAsAdmin, Idle, Deletions, DeletionInMemory, Up, Whole
<1>16. CASE Write
  BY <1>16, DeletionsWrite
<1>17. CASE SaveFails
  <2>1. CASE Head(todo).file = "ip_profiles"
    BY <1>17, <2>1, NoneDeleted DEF SaveFails
  <2>2. CASE Head(todo).file # "ip_profiles"
    <3>1. todo # <<>> /\ deleted' = deleted /\ UNCHANGED <<disk, ip_profiles, first>> /\ todo' = <<>>
      BY <1>17, <2>2 DEF SaveFails
    <3>2. phase \in {"ensure", "lists", "reloaded", "running", "closing"} /\ (phase = "ensure" => first)
      BY <3>1 DEF Shapes, Todo
    <3>3. Up \/ phase = "reloaded" => deleted \cap ip_profiles = {}
      BY <2>2, <3>1, WhichSave DEF Deletions, DeletionInMemory
    <3>4. phase' \in {"off", "running", "closing"} /\ (phase' # "off" => Up \/ phase = "reloaded")
      BY <1>17, <3>2 DEF SaveFails, Fallen, Up
    <3> QED
      BY <3>1, <3>3, <3>4 DEF Deletions, DeletionInMemory, Up, Whole
  <2> QED
    BY <2>1, <2>2
<1>18. CASE Crash
  <2>1. phase' = "off" /\ deleted' = deleted
        /\ disk'["ip_profiles"] \in {disk["ip_profiles"], Torn, Mangled}
        /\ disk'["vendor_presets"] \in {disk["vendor_presets"], Torn, Mangled}
    BY <1>18, CrashDamages, FileNames
  <2> QED
    BY <2>1, FilesAssumption DEF Deletions, DeletionInMemory, Up, Whole
<1>19. CASE LateWrite
  BY <1>19, LateStores DEF Deletions, DeletionInMemory, Up, Whole
<1>20. CASE LateFails
  BY <1>20 DEF LateFails, Deletions, DeletionInMemory, Up, Whole
<1>21. CASE UNCHANGED configVars
  BY <1>21 DEF configVars, Deletions, DeletionInMemory, Up, Whole
<1> QED
  BY <1>1, <1>2, <1>3, <1>4, <1>5, <1>6, <1>7, <1>9, <1>10, <1>11, <1>12, <1>13, <1>14, <1>15,
     <1>16, <1>17, <1>18, <1>19, <1>20, <1>21 DEF ConfigNext, Load, Use

-----------------------------------------------------------------------------
(* The layout of an orderly close *)

\* On disk: as it was left, or being replaced by it
LayoutOnDisk ==
  /\ disk["app_config"] # Missing /\ disk["runtime"] # Missing
  /\ Whole("app_config") => \/ disk["app_config"].layout = left.window
                            \/ phase = "closing" /\ todo # <<>>
  /\ Whole("runtime") => \/ disk["runtime"] = left.forms
                         \/ phase = "closing" /\ Len(todo) \in {3, 4}

\* In memory
LayoutInMemory ==
  /\ phase = "closing" => left = screen
  /\ phase \in {"lists", "reloaded", "running"} \/ (phase = "config" /\ ~first)
       => app_config.layout = left.window
  /\ phase = "reloaded" => runtime = left.forms

\* The promise about the layout
Layout ==
  left # Nothing =>
    /\ left \in [window : Layouts, forms : Layouts] /\ late = <<>>
    /\ LayoutOnDisk /\ LayoutInMemory
    /\ phase = "ensure" => ~Touches(todo, "app_config") /\ ~Touches(todo, "runtime")

LEMMA LayoutWrite ==
  ASSUME Shapes, Todo, Layout, Write, left # Nothing
  PROVE  LayoutOnDisk' /\ (phase' = "ensure" => ~Touches(todo', "app_config") /\ ~Touches(todo', "runtime"))
<1>1. /\ todo # <<>> /\ todo' = Tail(todo) /\ todo \in Seq(Writes)
      /\ Fits(Head(todo)) /\ Head(todo).data \notin {Missing, Mangled}
      /\ disk'[Head(todo).file] = Head(todo).data
      /\ \A g \in Files \ {Head(todo).file} : disk'[g] = disk[g]
      /\ phase' = phase /\ left' = left
      /\ phase \in {"ensure", "lists", "reloaded", "running", "closing"}
  BY WriteStores
<1>2. LayoutOnDisk /\ LayoutInMemory
  BY DEF Layout
<1>3. ASSUME phase # "closing", Head(todo).file \notin {"app_config", "runtime"} PROVE LayoutOnDisk'
  <2>1. disk'["app_config"] = disk["app_config"] /\ disk'["runtime"] = disk["runtime"]
    BY <1>1, <1>3, FileNames
  <2> QED
    BY <1>1, <1>2, <1>3, <2>1 DEF LayoutOnDisk, Whole
<1>4. ASSUME phase \in {"lists", "running"}, Head(todo).file = "app_config", Head(todo).data \in {Torn, app_config}
      PROVE  LayoutOnDisk'
  <2>1. disk'["app_config"] \in {Torn, app_config} /\ disk'["app_config"] # Missing
        /\ disk'["runtime"] = disk["runtime"] /\ app_config.layout = left.window
    BY <1>1, <1>2, <1>4, FileNames DEF LayoutInMemory
  <2> QED
    BY <1>1, <1>2, <1>4, <2>1 DEF LayoutOnDisk, Whole
<1>5. CASE phase = "ensure"
  <2>1. /\ ~Touches(todo', "app_config") /\ Head(todo).file # "app_config"
        /\ ~Touches(todo', "runtime") /\ Head(todo).file # "runtime"
    BY <1>1, <1>5, TouchesTail DEF Layout
  <2> QED
    BY <1>3, <1>5, <2>1
<1>6. CASE phase = "lists"
  <2>1. Head(todo).file = "app_config" /\ Head(todo).data \in {Torn, app_config}
    BY <1>1, <1>6, NextLists, PartIs DEF OneLeft
  <2> QED
    BY <1>1, <1>4, <1>6, <2>1
<1>7. CASE phase = "reloaded"
  <2>1. Head(todo).file \in {"ip_profiles", "vendor_presets"}
    BY <1>1, <1>7, NextReloaded, PartIs DEF TwoLeft
  <2> QED
    BY <1>1, <1>3, <1>7, <2>1
<1>8. CASE phase = "running" /\ OneLeft(todo, "app_config", app_config)
  <2>1. Head(todo).file = "app_config" /\ Head(todo).data \in {Torn, app_config}
    BY <1>8, PartIs DEF OneLeft
  <2> QED
    BY <1>1, <1>4, <1>8, <2>1
<1>9. CASE phase = "running" /\ OneLeft(todo, "ip_profiles", ip_profiles)
  <2>1. Head(todo).file = "ip_profiles"
    BY <1>9, PartIs DEF OneLeft
  <2> QED
    BY <1>1, <1>3, <1>9, <2>1
<1>10. CASE phase = "closing"
  <2>1. left = screen /\ Shut.layout = left.window
    BY <1>2, <1>10 DEF LayoutInMemory, Shut, Shapes, Normal, Config
  <2>2. PICK n : /\ n = Len(todo) /\ n \in {1, 2, 3, 4} /\ Len(todo') = n - 1
                 /\ n \in {1, 2} => Head(todo) = Part("app_config", Shut, n)
                 /\ n \in {3, 4} => Head(todo) = Part("runtime", screen.forms, n - 2)
    BY <1>1, <1>10, NextClosing DEF TwoLeft
  <2>3. /\ disk'[Head(todo).file] = Head(todo).data
        /\ \A g \in Files \ {Head(todo).file} : disk'[g] = disk[g]
        /\ phase' = "closing" /\ left' = left /\ Head(todo).data # Missing
    BY <1>1, <1>10
  <2>4. CASE n = 4
    <3>1. Head(todo).file = "runtime" /\ Head(todo).data = Torn /\ Len(todo') = 3
      BY <2>2, <2>4, PartIs
    <3>2. disk'["runtime"] = Torn /\ disk'["app_config"] = disk["app_config"]
      BY <2>3, <3>1, FileNames
    <3>3. todo' # <<>>
      BY <3>1
    <3> QED
      BY <1>2, <2>3, <3>2, <3>3, FilesAssumption DEF LayoutOnDisk, Whole
  <2>5. CASE n = 3
    <3>1. Head(todo).file = "runtime" /\ Head(todo).data = left.forms /\ Len(todo') = 2
      BY <2>1, <2>2, <2>5, PartIs
    <3>2. /\ disk'["runtime"] = left.forms /\ disk'["app_config"] = disk["app_config"]
          /\ disk'["runtime"] # Missing
      BY <2>3, <3>1, FileNames
    <3>3. Len(todo') = 2
      BY <3>1
    <3>4. todo' # <<>>
      BY <3>3
    <3> QED
      BY <1>2, <2>3, <3>2, <3>4 DEF LayoutOnDisk
  <2>6. ASSUME n \in {1, 2}
        PROVE  (Whole("runtime") => disk["runtime"] = left.forms) /\ disk["runtime"] # Missing
    <3>1. n \notin {3, 4}
      BY <2>6
    <3>2. Len(todo) \notin {3, 4}
      BY <2>2, <3>1
    <3> QED
      BY <1>2, <3>2 DEF LayoutOnDisk
  <2>7. CASE n = 2
    <3>1. Head(todo).file = "app_config" /\ Head(todo).data = Torn /\ Len(todo') = 1
      BY <2>2, <2>7, PartIs
    <3>2. disk'["app_config"] = Torn /\ disk'["runtime"] = disk["runtime"]
      BY <2>3, <3>1, FileNames
    <3>3. todo' # <<>>
      BY <3>1
    <3> QED
      BY <2>3, <2>6, <2>7, <3>2, <3>3, FilesAssumption DEF LayoutOnDisk, Whole
  <2>8. CASE n = 1
    <3>1. Head(todo).file = "app_config" /\ Head(todo).data = Shut
      BY <2>2, <2>8, PartIs
    <3>2. disk'["app_config"] = Shut /\ disk'["runtime"] = disk["runtime"] /\ disk'["app_config"] # Missing
      BY <2>3, <3>1, FileNames
    <3>3. disk'["app_config"].layout = left'.window
      BY <2>1, <2>3, <3>2
    <3> QED
      BY <2>3, <2>6, <2>8, <3>2, <3>3 DEF LayoutOnDisk, Whole
  <2> QED
    BY <2>2, <2>4, <2>5, <2>7, <2>8
<1> QED
  BY <1>1, <1>5, <1>6, <1>7, <1>8, <1>9, <1>10, NextRunning

LEMMA LayoutStep == Shapes /\ Todo /\ Late /\ Layout /\ Shapes' /\ [ConfigNext]_configVars => Layout'
<1> SUFFICES ASSUME Shapes, Todo, Late, Layout, Shapes', [ConfigNext]_configVars, left' # Nothing
             PROVE  /\ left' \in [window : Layouts, forms : Layouts] /\ late' = <<>>
                    /\ LayoutOnDisk' /\ LayoutInMemory'
                    /\ phase' = "ensure" => ~Touches(todo', "app_config") /\ ~Touches(todo', "runtime")
  BY DEF Layout
<1> USE DEF program, history
<1>1. CASE Start
  BY <1>1, TouchesNothing DEF Start, Layout, LayoutOnDisk, LayoutInMemory, Whole
<1>2. CASE Ensure
  <2>1. CASE FirstMissing = {} /\ phase' = "config" /\ UNCHANGED todo
    BY <1>2, <2>1 DEF Ensure, Layout, LayoutOnDisk, LayoutInMemory, Whole, Shapes
  <2>2. CASE (\E i \in FirstMissing : todo' = SaveJson(Order[i], Defaults[Order[i]])) /\ UNCHANGED phase
    <3>1. PICK i \in FirstMissing : todo' = SaveJson(Order[i], Defaults[Order[i]])
      BY <2>2
    <3>2. PICK f \in Files : f = Order[i] /\ disk[f] = Missing
      BY <3>1, Ordered DEF FirstMissing
    <3>3. left' = left /\ f # "app_config" /\ f # "runtime"
      BY <1>2, <3>2 DEF Ensure, Layout, LayoutOnDisk
    <3>4. ~Touches(todo', "app_config") /\ ~Touches(todo', "runtime")
      BY <3>1, <3>2, <3>3, TextsOf, SaveTouches
    <3> QED
      BY <1>2, <2>2, <3>3, <3>4 DEF Ensure, Layout, LayoutOnDisk, LayoutInMemory, Whole
  <2> QED
    BY <1>2, <2>1, <2>2 DEF Ensure
<1>3. CASE LoadConfig
  <2>1. Whole("app_config") /\ left' = left /\ phase = "config" /\ phase' = "lists" /\ UNCHANGED <<disk, late>>
    BY <1>3 DEF LoadConfig
  <2>2. disk["app_config"] \in Config /\ app_config' = Normalized(disk["app_config"])
    BY <1>3, <2>1 DEF LoadConfig, LoadJson, Whole, Shapes, DiskShapes, Damage
  <2>3. app_config'.layout = left.window
    BY <2>1, <2>2, NormalizedIs DEF Layout, LayoutOnDisk
  <2> QED
    BY <2>1, <2>3 DEF Layout, LayoutOnDisk, LayoutInMemory, Whole
<1>4. CASE LoadLists
  <2>1. /\ Whole("runtime") /\ left' = left /\ phase = "lists" /\ phase' = "reloaded"
        /\ UNCHANGED <<disk, late, app_config>> /\ runtime' = disk["runtime"]
    BY <1>4 DEF LoadLists, LoadJson
  <2> QED
    BY <2>1 DEF Layout, LayoutOnDisk, LayoutInMemory, Whole
<1>5. CASE LoadRaises
  BY <1>5 DEF LoadRaises, Fallen, Layout, LayoutOnDisk, LayoutInMemory, Whole
<1>6. CASE Loaded
  BY <1>6 DEF Loaded, Layout, LayoutOnDisk, LayoutInMemory, Whole
<1>7. CASE SaveSettings
  <2>1. PICK channel \in Channels : app_config' = Normalized([app_config EXCEPT !.channel = channel])
    BY <1>7 DEF SaveSettings
  <2>2. [app_config EXCEPT !.channel = channel] \in Config
        /\ [app_config EXCEPT !.channel = channel].layout = app_config.layout
    BY <2>1 DEF Shapes, Normal, Config
  <2>3. app_config'.layout = app_config.layout
    BY <2>1, <2>2, NormalizedIs
  <2> QED
    BY <1>7, <2>3 DEF SaveSettings, Idle, Layout, LayoutOnDisk, LayoutInMemory, Whole
<1>8. ASSUME NEW p, Idle, SaveProfiles(p)
      PROVE  /\ left' \in [window : Layouts, forms : Layouts] /\ late' = <<>>
             /\ LayoutOnDisk' /\ LayoutInMemory' /\ phase' = "running"
  BY <1>8 DEF SaveProfiles, Idle, Layout, LayoutOnDisk, LayoutInMemory, Whole
<1>9. CASE AddProfile
  BY <1>8, <1>9 DEF AddProfile
<1>10. CASE DeleteProfile
  BY <1>8, <1>10 DEF DeleteProfile
<1>11. CASE Reload
  BY <1>11 DEF Reload, Idle, Layout, LayoutOnDisk, LayoutInMemory, Whole
<1>12. CASE Arrange
  BY <1>12 DEF Arrange, Idle, Layout, LayoutOnDisk, LayoutInMemory, Whole
<1>13. CASE Close
  <2>1. /\ phase' = "closing" /\ left' = screen /\ UNCHANGED <<disk, screen, late>> /\ late = <<>>
        /\ phase = "running"
    BY <1>13 DEF Close, Idle
  <2>2. Len(todo') = 4
    BY <1>13, UiSaves DEF Close
  <2>3. todo' # <<>> /\ Len(todo') \in {3, 4}
    BY <2>2
  <2>4. disk["app_config"] # Missing /\ disk["runtime"] # Missing
    BY <2>1, FileNames DEF Todo, NoneMissing
  <2>5. LayoutOnDisk'
    BY <2>1, <2>3, <2>4 DEF LayoutOnDisk
  <2> QED
    BY <2>1, <2>5 DEF LayoutInMemory, Shapes
<1>14. CASE Closed
  BY <1>14 DEF Closed, Layout, LayoutOnDisk, LayoutInMemory, Whole
<1>15. CASE RestartAsAdmin
  BY <1>15 DEF RestartAsAdmin
<1>16. CASE Write
  <2>1. UNCHANGED <<phase, first, app_config, runtime, screen, late, left>>
    BY <1>16, WriteStores
  <2>2. LayoutInMemory'
    BY <2>1 DEF Layout, LayoutInMemory
  <2> QED
    BY <1>16, <2>1, <2>2, LayoutWrite DEF Layout
<1>17. CASE SaveFails
  <2>1. /\ todo # <<>> /\ todo' = <<>> /\ left' = left /\ phase # "closing"
        /\ UNCHANGED <<disk, first, app_config, runtime, screen, late>>
    BY <1>17 DEF SaveFails
  <2>2. phase \in {"ensure", "lists", "reloaded", "running"} /\ (phase = "ensure" => first)
    BY <2>1 DEF Shapes, Todo
  <2>3. phase' \in {"off", "running"} /\ (phase' = "running" => phase # "ensure")
    BY <1>17, <2>2 DEF SaveFails, Fallen
  <2> QED
    BY <2>1, <2>2, <2>3 DEF Layout, LayoutOnDisk, LayoutInMemory, Whole
<1>18. CASE Crash
  <2>1. phase' = "off" /\ left' = left /\ phase # "closing" /\ late' = late
        /\ disk'["app_config"] \in {disk["app_config"], Torn, Mangled}
        /\ disk'["runtime"] \in {disk["runtime"], Torn, Mangled}
    BY <1>18, CrashDamages, FileNames DEF Crash
  <2> QED
    BY <2>1, FilesAssumption DEF Layout, LayoutOnDisk, LayoutInMemory, Whole
<1>19. CASE LateWrite
  BY <1>19 DEF LateWrite, Layout
<1>20. CASE LateFails
  BY <1>20 DEF LateFails, Layout
<1>21. CASE UNCHANGED configVars
  BY <1>21 DEF configVars, Layout, LayoutOnDisk, LayoutInMemory, Whole
<1> QED
  BY <1>1, <1>2, <1>3, <1>4, <1>5, <1>6, <1>7, <1>9, <1>10, <1>11, <1>12, <1>13, <1>14, <1>15,
     <1>16, <1>17, <1>18, <1>19, <1>20, <1>21 DEF ConfigNext, Load, Use

LEMMA LayoutReturnsStep ==
  ASSUME Shapes, Layout, [ConfigNext]_configVars, phase = "reloaded", phase' = "running", first
  PROVE  left \in {Nothing, screen'}
<1>1. CASE Loaded
  <2>1. screen' = [window |-> app_config.layout, forms |-> runtime]
    BY <1>1 DEF Loaded
  <2>2. left # Nothing => left \in [window : Layouts, forms : Layouts]
                          /\ left.window = app_config.layout /\ left.forms = runtime
    BY DEF Layout, LayoutInMemory
  <2> QED
    BY <2>1, <2>2
<1>2. CASE Load /\ ~Loaded
  BY <1>2 DEF Load, Start, Ensure, LoadConfig, LoadLists, LoadRaises
<1>3. CASE Use
  BY <1>3 DEF Use, SaveSettings, AddProfile, DeleteProfile, SaveProfiles, Reload, Arrange, Close,
              Closed, RestartAsAdmin, Idle
<1>4. CASE SaveFails
  BY <1>4 DEF SaveFails, Fallen
<1>5. CASE Crash
  BY <1>5 DEF Crash
<1>6. CASE Write \/ LateWrite \/ LateFails \/ UNCHANGED configVars
  BY <1>6 DEF Write, LateWrite, LateFails, configVars, program
<1> QED
  BY <1>1, <1>2, <1>3, <1>4, <1>5, <1>6 DEF ConfigNext

-----------------------------------------------------------------------------
(* The invariant and what it gives *)

StoreInv ==
  /\ Shapes /\ Todo /\ Late /\ Choices
  /\ Presets /\ Deletions /\ Layout

LEMMA StoreInit == ConfigInit => StoreInv
<1> SUFFICES ASSUME ConfigInit PROVE StoreInv
  OBVIOUS
<1>1. /\ phase = "off" /\ first = TRUE /\ todo = <<>> /\ late = <<>>
      /\ app_config = DefaultConfig /\ ip_profiles = {} /\ runtime = Default
      /\ screen = [window |-> Default, forms |-> Default]
      /\ choice = Nothing /\ left = Nothing /\ deleted = {}
  BY DEF ConfigInit
<1>2. DiskShapes
  <2>1. CASE disk = [file \in Files |-> Missing]
    BY <2>1 DEF DiskShapes, Files, Damage
  <2>2. CASE \E mine, legacy \in SUBSET Names :
               disk = [app_config |-> [channel |-> NoChannel, layout |-> Default],
                       ip_profiles |-> mine, vendor_presets |-> legacy, runtime |-> Missing]
    BY <2>2, DefaultIsLayout DEF DiskShapes, Files, Damage, Config
  <2> QED
    BY <2>1, <2>2 DEF ConfigInit
<1>3. DefaultConfig \in Normal
  BY DefaultIsLayout DEF DefaultConfig, Normal, Config, Channels
<1>4. Shapes
  BY <1>1, <1>2, <1>3, DefaultIsLayout DEF Shapes
<1> QED
  BY <1>1, <1>4 DEF StoreInv, Todo, Late, Choices, Presets, Up, Deletions, DeletionInMemory, Layout

LEMMA StoreStep == StoreInv /\ [ConfigNext]_configVars => StoreInv'
BY ShapesStep, TodoStep, LateStep, ChoicesStep, PresetsStep, DeletionsStep, LayoutStep DEF StoreInv

LEMMA StoreInvariant == ConfigSpec => []StoreInv
BY StoreInit, StoreStep, PTL DEF ConfigSpec

\* AppState never holds anything but normal values, and no file anything but
\* what its loader expects or knows to be damaged (ConfigTypeOK).
THEOREM FilesAreSound == ConfigSpec => []ConfigTypeOK
<1>1. StoreInv => ConfigTypeOK
  <2> SUFFICES ASSUME StoreInv PROVE ConfigTypeOK
    OBVIOUS
  <2>1. app_config \in Config /\ app_config.channel # NoChannel
    BY DEF StoreInv, Shapes, Normal, Channels, NoChannel
  <2> QED
    BY <2>1 DEF StoreInv, Shapes, DiskShapes, Damage, Todo, ConfigTypeOK
<1> QED
  BY <1>1, StoreInvariant, PTL

\* The update channel saved last is the one a running program uses, whatever was
\* restarted, reloaded, killed or started as administrator in between (ChoiceKept).
THEOREM ChannelIsKept == ConfigSpec => []ChoiceKept
<1>1. StoreInv => ChoiceKept
  BY DEF StoreInv, Choices, ChoiceInMemory, Up, ChoiceKept
<1> QED
  BY <1>1, StoreInvariant, PTL

\* A profile whose deletion was saved never returns: neither a restart nor a
\* reload makes the migration of the legacy list again (DeletedStaysDeleted).
THEOREM DeletionsLast == ConfigSpec => []DeletedStaysDeleted
<1>1. StoreInv => DeletedStaysDeleted
  BY DEF StoreInv, Deletions, DeletionInMemory, Up, DeletedStaysDeleted
<1> QED
  BY <1>1, StoreInvariant, PTL

\* The legacy list is written only while the profile file holds all of it: no
\* crash between the two saves of the migration loses a preset (ClearedAfterKept).
THEOREM MigrationKeeps == ConfigSpec => ClearedAfterKept
<1>1. StoreInv /\ [ConfigNext]_configVars =>
        [ Whole("vendor_presets") /\ disk'["vendor_presets"] # disk["vendor_presets"]
            => /\ Whole("ip_profiles")
               /\ disk["vendor_presets"] \subseteq disk["ip_profiles"] ]_configVars
  BY ClearedAfterKeptStep DEF StoreInv
<1> QED
  BY <1>1, StoreInvariant, PTL DEF ConfigSpec, ClearedAfterKept

\* The first window after an orderly close is the one that was closed, unless
\* one of its two files was found damaged (LayoutReturns).
THEOREM LayoutIsRestored == ConfigSpec => LayoutReturns
<1>1. StoreInv /\ [ConfigNext]_configVars =>
        [ phase = "reloaded" /\ phase' = "running" /\ first => left \in {Nothing, screen'} ]_configVars
  BY LayoutReturnsStep DEF StoreInv
<1> QED
  BY <1>1, StoreInvariant, PTL DEF ConfigSpec, LayoutReturns

=============================================================================
