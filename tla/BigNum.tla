------------------------------- MODULE BigNum -------------------------------
(***************************************************************************)
(* Arithmetic on arrays of limbs modulo a modulus of any size, as          *)
(* ingots/precompiles/src/bignum.fe does it: schoolbook products, and      *)
(* long division that estimates a digit of the quotient at a time.  An     *)
(* array is a function from 0; the carries of a row are those of a number  *)
(* put back into its limbs.                                                *)
(***************************************************************************)
EXTENDS Integers, Sequences

CONSTANT LIMB_BITS
ASSUME LimbAssumption == LIMB_BITS \in Nat /\ LIMB_BITS > 0
LIMB_BASE == 2 ^ LIMB_BITS

Zeroed(len) == [k \in 0 .. len - 1 |-> 0]
\* The number in count limbs from low, and an array with such a number there.
Value(limbs, low, count) ==
  LET sum[k \in 0 .. count] == IF k = 0 THEN 0 ELSE sum[k - 1] + limbs[low + k - 1] * LIMB_BASE ^ (k - 1)
  IN sum[count]
With(limbs, low, count, value) ==
  [k \in DOMAIN limbs |-> IF k \in low .. low + count - 1
                          THEN (value \div LIMB_BASE ^ (k - low)) % LIMB_BASE ELSE limbs[k]]
head(limbs, count) == [k \in 0 .. count - 1 |-> limbs[k]]

leading_zeros(limb) == CHOOSE count \in 0 .. LIMB_BITS :
  limb * 2 ^ count < LIMB_BASE /\ (count = LIMB_BITS \/ limb * 2 ^ (count + 1) >= LIMB_BASE)
\* Shifted left until the top limb's high bit is set.
try_new(value, len) ==
  LET shift == leading_zeros(value[len - 1])
  IN [limbs |-> With(Zeroed(len), 0, len, Value(value, 0, len) * 2 ^ shift), len |-> len, shift |-> shift]

\* A dividend of len limbs, shifted as the modulus is into a limb more.
Normalized(m, work, len) == With(work, 0, len + 1, Value(work, 0, len) * 2 ^ m.shift)

\* An estimate the third limb does not correct.
estimate_uncorrected(m, work, j) ==
  LET qhat == (work[j + m.len] * LIMB_BASE + work[j + m.len - 1]) \div m.limbs[m.len - 1]
  IN IF qhat >= LIMB_BASE THEN LIMB_BASE - 1 ELSE qhat
\* The digit of the quotient at limb j, from the top two limbs and corrected by the third.
estimate(m, work, j) ==
  LET n == m.len
      top == m.limbs[n - 1]
      dividend == work[j + n] * LIMB_BASE + work[j + n - 1]
      qhat(d) == dividend \div top - d
      rhat(d) == (dividend % top) + d * top
      too_large(d) ==
        \/ qhat(d) >= LIMB_BASE
        \/ n > 1 /\ qhat(d) * m.limbs[n - 2] > rhat(d) * LIMB_BASE + work[j + n - 2]
      stops(d) == ~too_large(d) \/ (d > 0 /\ rhat(d) >= LIMB_BASE)
  IN qhat(CHOOSE d \in 0 .. LIMB_BASE : stops(d) /\ \A e \in 0 .. d - 1 : ~stops(e))

window(m, work, j) == Value(work, j, m.len + 1)
\* The digit times the modulus is subtracted; the modulus is added back once where that was too much.
Subtracted(m, work, j) ==
  LET rest == window(m, work, j) - estimate(m, work, j) * Value(m.limbs, 0, m.len)
  IN With(work, j, m.len + 1, IF rest < 0 THEN rest + Value(m.limbs, 0, m.len) ELSE rest)

\* The remainder shifted back, without the limbs of the quotient.
Denormalized(m, work, len) ==
  With(With(work, 0, m.len, Value(work, 0, m.len + 1) \div 2 ^ m.shift), m.len, len + 1 - m.len, 0)

\* Rows of a product: each is added from its limb on, its carry into the limb above.
product(m, a, b, work) ==
  LET n == m.len
      rows[i \in 0 .. n] ==
        IF i = 0 THEN With(work, 0, 2 * n, 0)
        ELSE With(rows[i - 1], i - 1, n + 1, Value(rows[i - 1], i - 1, n) + a[i - 1] * Value(b, 0, n))
  IN rows[n]
=============================================================================
