--------------------------- MODULE FiltersProofs ---------------------------
(***************************************************************************)
(* What Keep returns, for every sequence.  The theorems of the library on  *)
(* induction take the formula to prove as a parameter, which no prover     *)
(* here can instantiate; Climb is induction over a set instead, and the    *)
(* formula is put into a set {n \in Nat : ...}.                            *)
(***************************************************************************)
EXTENDS Filters, WellFoundedInduction, TLAPS

\* Every nonempty set of naturals has a least element, and so a set that holds 0
\* and is closed under successor holds every natural: induction, over a set.
LEMMA Least ==
    ASSUME NEW T, T \subseteq Nat, T # {}
    PROVE  \E m \in T : \A n \in T : m <= n
  <1>1. PICK m \in T : \A n \in T : ~(<<n, m>> \in OpToRel(<, Nat))
    BY NatLessThanWellFounded, WFMin
  <1>2. ASSUME NEW n \in T PROVE m <= n
    <2>1. n \in Nat /\ m \in Nat
      OBVIOUS
    <2>2. ~(n < m)
      BY <1>1, <2>1 DEF OpToRel
    <2> QED
      BY <2>1, <2>2
  <1> QED
    BY <1>2

LEMMA Climb ==
    ASSUME NEW S, 0 \in S, \A n \in Nat : n \in S => n + 1 \in S
    PROVE  \A n \in Nat : n \in S
  <1> SUFFICES ASSUME Nat \ S # {} PROVE FALSE
    OBVIOUS
  <1>1. PICK m \in Nat \ S : \A n \in Nat \ S : m <= n
    BY Least
  <1>2. m # 0 /\ m - 1 \in Nat
    BY <1>1
  <1>3. m - 1 \in S
    BY <1>1, <1>2
  <1> QED
    BY <1>1, <1>2, <1>3

\* One step of the loop of Keep.
Turn(before, e, wanted) == IF e \in wanted THEN Append(before, e) ELSE before

\* f is the loop of Keep over the first n entries of s.
Loop(f, s, wanted, n) ==
    f = [i \in 0 .. n |-> IF i = 0 THEN << >> ELSE Turn(f[i - 1], s[i], wanted)]

\* The loop runs, whatever it copies from and however far.
LEMMA LoopExists ==
    ASSUME NEW s, NEW wanted
    PROVE  \A n \in Nat : \E f : Loop(f, s, wanted, n)
  <1> DEFINE S == {n \in Nat : \E f : Loop(f, s, wanted, n)}
  <1>1. 0 \in S
    <2> DEFINE f == [i \in 0 .. 0 |-> << >>]
    <2>1. Loop(f, s, wanted, 0)
      BY DEF Loop
    <2> QED
      BY <2>1
  <1>2. ASSUME NEW n \in Nat, n \in S PROVE n + 1 \in S
    <2>1. PICK f : Loop(f, s, wanted, n)
      BY <1>2
    <2> DEFINE g == [i \in 0 .. n + 1 |-> IF i <= n THEN f[i] ELSE Turn(f[n], s[i], wanted)]
    <2>2. ASSUME NEW i \in 0 .. n + 1
          PROVE  g[i] = IF i = 0 THEN << >> ELSE Turn(g[i - 1], s[i], wanted)
      <3>1. i \in 0 .. n => f[i] = IF i = 0 THEN << >> ELSE Turn(f[i - 1], s[i], wanted)
        BY <2>1 DEF Loop
      <3>2. i # 0 => i - 1 \in 0 .. n
        OBVIOUS
      <3>3. i # 0 => g[i - 1] = f[i - 1]
        BY <3>2
      <3>4. CASE i <= n
        BY <3>1, <3>3, <3>4
      <3>5. CASE i = n + 1
        BY <3>3, <3>5
      <3> QED
        BY <3>4, <3>5
    <2>3. Loop(g, s, wanted, n + 1)
      BY <2>2, Zenon DEF Loop
    <2> QED
      BY <2>3
  <1> HIDE DEF S
  <1>3. \A n \in Nat : n \in S
    BY <1>1, <1>2, Climb
  <1> QED
    BY <1>3 DEF S

\* Keep is where the loop ends.
LEMMA KeepLoop ==
    ASSUME NEW s, NEW wanted, Len(s) \in Nat
    PROVE  \E f : Loop(f, s, wanted, Len(s)) /\ Keep(s, wanted) = f[Len(s)]
  <1> DEFINE f == CHOOSE f : Loop(f, s, wanted, Len(s))
  <1>1. Loop(f, s, wanted, Len(s))
    BY LoopExists
  <1>2. Keep(s, wanted) = f[Len(s)]
    BY DEF Keep, Loop, Turn
  <1> HIDE DEF f
  <1> QED
    BY <1>1, <1>2

\* k is what the first i entries of s leave: of the wanted ones none is missing,
\* and they are in their order.
Copied(k, T, s, wanted, i) ==
    /\ k \in Seq(T)
    /\ \A j \in DOMAIN k : k[j] \in wanted /\ \E a \in 1 .. i : k[j] = s[a]
    /\ \A a \in 1 .. i : s[a] \in wanted => \E j \in DOMAIN k : k[j] = s[a]
    /\ \A j, l \in DOMAIN k : j < l =>
           \E a, b \in 1 .. i : a < b /\ k[j] = s[a] /\ k[l] = s[b]
    /\ Len(k) <= i

\* One turn of the loop extends that to one entry more.
LEMMA TurnCopies ==
    ASSUME NEW T, NEW s \in Seq(T), NEW wanted, NEW i \in 1 .. Len(s),
           NEW k, Copied(k, T, s, wanted, i - 1)
    PROVE  Copied(Turn(k, s[i], wanted), T, s, wanted, i)
  <1>1. CASE s[i] \notin wanted
    <2>1. Turn(k, s[i], wanted) = k
      BY <1>1 DEF Turn
    <2>2. i \in Nat /\ 1 .. i - 1 \subseteq 1 .. i
      OBVIOUS
    <2>3. \A a \in 1 .. i : a \in 1 .. i - 1 \/ a = i
      OBVIOUS
    <2>4. \A a \in 1 .. i : s[a] \in wanted => \E j \in DOMAIN k : k[j] = s[a]
      BY <1>1, <2>3 DEF Copied
    <2>5. Len(k) <= i
      BY DEF Copied
    <2> QED
      BY <2>1, <2>2, <2>4, <2>5 DEF Copied
  <1>2. CASE s[i] \in wanted
    <2> DEFINE new == Append(k, s[i])
    <2>1. k \in Seq(T) /\ s[i] \in T /\ Len(k) \in Nat /\ DOMAIN k = 1 .. Len(k)
      BY DEF Copied
    <2>2. /\ new \in Seq(T)
          /\ Len(new) = Len(k) + 1
          /\ DOMAIN new = 1 .. Len(k) + 1
          /\ \A j \in 1 .. Len(k) : new[j] = k[j]
          /\ new[Len(k) + 1] = s[i]
      BY <2>1
    <2> HIDE DEF new
    <2>3. \A j \in DOMAIN new : j \in DOMAIN k \/ j = Len(k) + 1
      BY <2>1, <2>2
    <2>4. \A a \in 1 .. i : a \in 1 .. i - 1 \/ a = i
      OBVIOUS
    <2>5. \A a \in 1 .. i - 1 : a \in 1 .. i /\ a < i
      OBVIOUS
    <2>6. ASSUME NEW j \in DOMAIN new
          PROVE  new[j] \in wanted /\ \E a \in 1 .. i : new[j] = s[a]
      <3>1. CASE j \in DOMAIN k
        <4>1. k[j] \in wanted /\ \E a \in 1 .. i - 1 : k[j] = s[a]
          BY <3>1 DEF Copied
        <4> QED
          BY <4>1, <3>1, <2>1, <2>2, <2>5
      <3>2. CASE j = Len(k) + 1
        BY <3>2, <1>2, <2>2
      <3> QED
        BY <3>1, <3>2, <2>3
    <2>7. ASSUME NEW a \in 1 .. i, s[a] \in wanted
          PROVE  \E j \in DOMAIN new : new[j] = s[a]
      <3>1. CASE a = i
        BY <3>1, <2>1, <2>2
      <3>2. CASE a \in 1 .. i - 1
        <4>1. PICK j \in DOMAIN k : k[j] = s[a]
          BY <3>2, <2>7 DEF Copied
        <4> QED
          BY <4>1, <2>1, <2>2
      <3> QED
        BY <3>1, <3>2, <2>4
    <2>8. ASSUME NEW j \in DOMAIN new, NEW l \in DOMAIN new, j < l
          PROVE  \E a, b \in 1 .. i : a < b /\ new[j] = s[a] /\ new[l] = s[b]
      <3>1. j \in DOMAIN k /\ new[j] = k[j]
        BY <2>1, <2>2, <2>8
      <3>2. CASE l \in DOMAIN k
        <4>1. PICK a \in 1 .. i - 1, b \in 1 .. i - 1 : a < b /\ k[j] = s[a] /\ k[l] = s[b]
          BY <3>1, <3>2, <2>8 DEF Copied
        <4>2. a \in 1 .. i /\ b \in 1 .. i /\ new[l] = k[l]
          BY <3>2, <2>1, <2>2
        <4> QED
          BY <3>1, <4>1, <4>2
      <3>3. CASE l = Len(k) + 1
        <4>1. PICK a \in 1 .. i - 1 : k[j] = s[a]
          BY <3>1 DEF Copied
        <4>2. i \in 1 .. i /\ a \in 1 .. i /\ a < i
          BY <4>1
        <4> QED
          BY <3>1, <3>3, <2>2, <4>1, <4>2
      <3> QED
        BY <3>2, <3>3, <2>3
    <2>9. Turn(k, s[i], wanted) = new
      BY <1>2 DEF Turn, new
    <2>10. Len(new) <= i
      BY <2>1, <2>2 DEF Copied
    <2> QED
      BY <2>2, <2>6, <2>7, <2>8, <2>9, <2>10 DEF Copied
  <1> QED
    BY <1>1, <1>2

\* The copy has every wanted entry, no other, and in their order.
LEMMA KeepIs ==
    ASSUME NEW T, NEW s \in Seq(T), NEW wanted
    PROVE  Copied(Keep(s, wanted), T, s, wanted, Len(s))
  <1> DEFINE n == Len(s)
  <1>1. PICK f : Loop(f, s, wanted, n) /\ Keep(s, wanted) = f[n]
    BY KeepLoop
  <1> DEFINE S == {i \in Nat : i <= n => Copied(f[i], T, s, wanted, i)}
  <1>2. n \in Nat
    OBVIOUS
  <1>3. 0 \in S
    <2>1. f[0] = << >>
      BY <1>1 DEF Loop
    <2>2. Copied(<< >>, T, s, wanted, 0)
      BY DEF Copied
    <2>3. Copied(f[0], T, s, wanted, 0)
      BY <2>1, <2>2
    <2> QED
      BY <2>3, Zenon
  <1>4. ASSUME NEW i \in Nat, i \in S PROVE i + 1 \in S
    <2> SUFFICES ASSUME i + 1 <= n PROVE Copied(f[i + 1], T, s, wanted, i + 1)
      OBVIOUS
    <2>1. i + 1 \in 1 .. Len(s) /\ i + 1 \in 0 .. n /\ i + 1 # 0 /\ (i + 1) - 1 = i
      OBVIOUS
    <2>2. Copied(f[i], T, s, wanted, i)
      BY <1>4, <2>1
    <2>3. f[i + 1] = Turn(f[i], s[i + 1], wanted)
      BY <1>1, <2>1 DEF Loop
    <2> HIDE DEF n, S
    <2> DEFINE m == i + 1
    <2>4. m \in 1 .. Len(s) /\ m - 1 = i
      BY <2>1
    <2> HIDE DEF m
    <2>5. Copied(f[i], T, s, wanted, m - 1)
      BY <2>2, <2>4
    <2>6. Copied(Turn(f[i], s[m], wanted), T, s, wanted, m)
      BY <2>4, <2>5, TurnCopies
    <2> QED
      BY <2>3, <2>6 DEF m
  <1> HIDE DEF S
  <1>5. \A i \in Nat : i \in S
    BY <1>3, <1>4, Climb
  <1>6. Copied(f[n], T, s, wanted, n)
    BY <1>2, <1>5 DEF S
  <1> QED
    BY <1>1, <1>6

\* Loops over the same entries, with the same of them wanted, leave the same.
LEMMA LoopsAgree ==
    ASSUME NEW f, NEW g, NEW s, NEW t, NEW v, NEW w, NEW m \in Nat, NEW n \in Nat, m <= n,
           Loop(f, s, v, m), Loop(g, t, w, n),
           \A i \in 1 .. m : s[i] = t[i] /\ (s[i] \in v <=> t[i] \in w)
    PROVE  f[m] = g[m]
  <1> DEFINE S == {i \in Nat : i <= m => f[i] = g[i]}
  <1>1. 0 \in S
    BY DEF Loop
  <1>2. ASSUME NEW i \in Nat, i \in S PROVE i + 1 \in S
    <2> SUFFICES ASSUME i + 1 <= m PROVE f[i + 1] = g[i + 1]
      OBVIOUS
    <2>1. /\ i + 1 \in 0 .. m /\ i + 1 \in 0 .. n /\ i + 1 # 0 /\ (i + 1) - 1 = i
          /\ i + 1 \in 1 .. m /\ i <= m
      OBVIOUS
    <2>2. f[i + 1] = Turn(f[i], s[i + 1], v)
      BY <2>1 DEF Loop
    <2>3. g[i + 1] = Turn(g[i], t[i + 1], w)
      BY <2>1 DEF Loop
    <2>4. f[i] = g[i]
      BY <1>2, <2>1
    <2>5. s[i + 1] = t[i + 1] /\ (s[i + 1] \in v <=> t[i + 1] \in w)
      BY <2>1
    <2> QED
      BY <2>2, <2>3, <2>4, <2>5 DEF Turn
  <1> HIDE DEF S
  <1>3. m \in S
    BY <1>1, <1>2, Climb
  <1> QED
    BY <1>3 DEF S

LEMMA KeepEmpty ==
    ASSUME NEW wanted
    PROVE  Keep(<< >>, wanted) = << >>
  <1>1. PICK f : Loop(f, << >>, wanted, 0) /\ Keep(<< >>, wanted) = f[0]
    BY KeepLoop
  <1> QED
    BY <1>1 DEF Loop

LEMMA KeepSame ==
    ASSUME NEW s, NEW v, NEW w, Len(s) \in Nat, \A i \in 1 .. Len(s) : s[i] \in v <=> s[i] \in w
    PROVE  Keep(s, v) = Keep(s, w)
  <1>1. PICK f : Loop(f, s, v, Len(s)) /\ Keep(s, v) = f[Len(s)]
    BY KeepLoop
  <1>2. PICK g : Loop(g, s, w, Len(s)) /\ Keep(s, w) = g[Len(s)]
    BY KeepLoop
  <1>3. f[Len(s)] = g[Len(s)]
    BY <1>1, <1>2, LoopsAgree
  <1> QED
    BY <1>1, <1>2, <1>3

\* One entry more is one turn more.
LEMMA KeepAppend ==
    ASSUME NEW T, NEW s \in Seq(T), NEW e \in T, NEW wanted
    PROVE  Keep(Append(s, e), wanted) = Turn(Keep(s, wanted), e, wanted)
  <1> DEFINE more == Append(s, e)
             n == Len(s)
  <1>1. /\ n \in Nat /\ Len(more) = n + 1 /\ more[n + 1] = e
        /\ \A i \in 1 .. n : s[i] = more[i]
    OBVIOUS
  <1> HIDE DEF more
  <1>2. PICK f : Loop(f, s, wanted, n) /\ Keep(s, wanted) = f[n]
    BY <1>1, KeepLoop
  <1>3. PICK g : Loop(g, more, wanted, n + 1) /\ Keep(more, wanted) = g[n + 1]
    BY <1>1, KeepLoop
  <1> HIDE DEF n
  <1>4. g[n + 1] = Turn(g[n], e, wanted)
    <2>1. n + 1 \in 0 .. n + 1 /\ n + 1 # 0 /\ (n + 1) - 1 = n
      BY <1>1
    <2> QED
      BY <1>1, <1>3, <2>1 DEF Loop
  <1>5. \A i \in 1 .. n : s[i] \in wanted <=> more[i] \in wanted
    BY <1>1
  <1>6. f[n] = g[n]
    BY <1>1, <1>2, <1>3, <1>5, LoopsAgree
  <1> QED
    BY <1>2, <1>3, <1>4, <1>6 DEF more

=============================================================================
