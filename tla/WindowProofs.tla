---------------------------- MODULE WindowProofs ----------------------------
(* The arithmetic of windows, labels and names (Rotation), for every window  *)
(* and every point in time.                                                  *)
EXTENDS Rotation, TLAPS

LEMMA Quotient ==
    ASSUME NEW t \in Nat, NEW w \in Nat \ {0}
    PROVE  t \div w \in Nat /\ (t \div w) * w <= t /\ t < (t \div w) * w + w
OBVIOUS

LEMMA TimesIsMonotone ==
    ASSUME NEW a \in Nat, NEW b \in Nat, NEW w \in Nat \ {0}, a <= b
    PROVE  a * w <= b * w
OBVIOUS

(* A later point in time never falls into an earlier window.                 *)
LEMMA FloorIsMonotone ==
    ASSUME NEW t \in Nat, NEW u \in Nat, NEW w \in Nat \ {0}, t <= u
    PROVE  FloorToWindowMs(t, w) <= FloorToWindowMs(u, w)
<1>. DEFINE q == t \div w
            r == u \div w
<1>1. q \in Nat /\ q * w <= t /\ t < q * w + w
  BY Quotient
<1>2. r \in Nat /\ r * w <= u /\ u < r * w + w
  BY Quotient
<1>. HIDE DEF q, r
<1>3. q <= r
  <2>. SUFFICES ASSUME r + 1 <= q PROVE FALSE
    BY <1>1, <1>2
  <2>1. (r + 1) * w <= q * w
    BY <1>1, <1>2, TimesIsMonotone
  <2>2. (r + 1) * w = r * w + w /\ r * w \in Nat /\ q * w \in Nat
    BY <1>1, <1>2
  <2>. QED BY <1>1, <1>2, <2>1, <2>2
<1>4. q * w <= r * w
  BY <1>1, <1>2, <1>3, TimesIsMonotone
<1>. QED BY <1>4 DEF FloorToWindowMs, q, r

LEMMA FloorIsBelow ==
    ASSUME NEW t \in Nat, NEW w \in Nat \ {0}
    PROVE  FloorToWindowMs(t, w) \in Nat /\ FloorToWindowMs(t, w) <= t
<1>. DEFINE q == t \div w
<1>1. q \in Nat /\ q * w <= t
  BY Quotient
<1>. HIDE DEF q
<1>2. q * w \in Nat
  BY <1>1
<1>. QED BY <1>1, <1>2 DEF FloorToWindowMs, q

LEMMA FloorOfMultiple ==
    ASSUME NEW y \in Nat, NEW w \in Nat \ {0}
    PROVE  FloorToWindowMs(y * w, w) = y * w
<1>. DEFINE x == y * w
            q == x \div w
<1>0. x \in Nat
  OBVIOUS
<1>1. q \in Nat /\ q * w <= x /\ x < q * w + w
  BY <1>0, Quotient
<1>. HIDE DEF q
<1>2. q * w = y * w
  <2>1. CASE q <= y /\ y <= q
    BY <1>1, <2>1
  <2>2. CASE q + 1 <= y
    <3>1. (q + 1) * w <= y * w
      BY <1>1, <2>2, TimesIsMonotone
    <3>2. (q + 1) * w = q * w + w /\ q * w \in Nat
      BY <1>1
    <3>. QED BY <1>1, <3>1, <3>2
  <2>3. CASE y + 1 <= q
    <3>1. (y + 1) * w <= q * w
      BY <1>1, <2>3, TimesIsMonotone
    <3>2. (y + 1) * w = y * w + w /\ y * w \in Nat
      BY <1>1
    <3>. QED BY <1>1, <3>1, <3>2
  <2>. QED BY <1>1, <2>1, <2>2, <2>3
<1>. QED BY <1>2 DEF FloorToWindowMs, q

LEMMA FloorInFirstWindow ==
    ASSUME NEW t \in Nat, NEW w \in Nat \ {0}, t < w
    PROVE  FloorToWindowMs(t, w) = 0
<1>. DEFINE q == t \div w
<1>1. q \in Nat /\ q * w <= t
  BY Quotient
<1>. HIDE DEF q
<1>2. q = 0
  <2>. SUFFICES ASSUME 1 <= q PROVE FALSE
    BY <1>1
  <2>1. 1 * w <= q * w
    BY <1>1, TimesIsMonotone
  <2>. QED BY <1>1, <2>1
<1>. QED BY <1>2 DEF FloorToWindowMs, q

LEMMA UnitIsPositive ==
    ASSUME NEW w \in Nat \ {0}
    PROVE  LabelUnit(w) \in Nat \ {0}
BY RotationAssumption DEF LabelUnit

(* A window of whole minutes, hours or days, as its label_for counts, has    *)
(* labels that say when it starts.                                           *)
LEMMA LabelIsExact ==
    ASSUME NEW w \in Nat \ {0}, w % LabelUnit(w) = 0, NEW t \in Nat
    PROVE  LabelFor(FloorToWindowMs(t, w), w) = FloorToWindowMs(t, w)
<1>. DEFINE q == t \div w
            u == LabelUnit(w)
            k == w \div u
<1>0. u \in Nat \ {0}
  BY UnitIsPositive
<1>1. q \in Nat
  BY Quotient
<1>2. k \in Nat /\ w = k * u
  <2>. HIDE DEF u
  <2>. QED BY <1>0 DEF u
<1>. HIDE DEF q, k, u
<1>3. q * w = (q * k) * u /\ q * k \in Nat
  BY <1>0, <1>1, <1>2
<1>4. FloorToWindowMs((q * k) * u, u) = (q * k) * u
  BY <1>0, <1>3, FloorOfMultiple
<1>. QED BY <1>3, <1>4 DEF LabelFor, FloorToWindowMs, q, u

=============================================================================
