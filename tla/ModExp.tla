------------------------------- MODULE ModExp -------------------------------
(***************************************************************************)
(* The MODEXP precompile, ingots/precompiles/src/modexp.fe: base to the    *)
(* exponent modulo modulus, of lengths the call declares and bytes it may  *)
(* end before.  The divisions of bignum.fe go a digit at a time.  A byte   *)
(* has BYTE_BITS bits and a limb LIMB_BYTES bytes; gas is a choice.        *)
(***************************************************************************)
EXTENDS BigNum

CONSTANTS BYTE_BITS, LIMB_BYTES,
          MAX_LENGTH,
          Inputs     \* calls: base, exponent and modulus as bytes, and how many of them are not given

ASSUME ModExpAssumption ==
  /\ LIMB_BITS = BYTE_BITS * LIMB_BYTES
  /\ \A i \in Inputs : {i.base, i.exponent, i.modulus} \subseteq Seq(0 .. 2 ^ BYTE_BITS - 1) /\ i.absent \in Nat

VARIABLES input, step, modulus, base, result, work,
          limb,      \* limbs of the base to come
          bit,       \* bits of the exponent done
          started,   \* one of them was set
          division,  \* the one under way: its dividend's limbs, its digits to come, what takes the remainder
          outcome
vars == <<input, step, modulus, base, result, work, limb, bit, started, division, outcome>>

\* Bytes past the end of the input read as zero.
Given == input.base \o input.exponent \o input.modulus
input_byte(index) == IF index < Len(Given) - input.absent THEN Given[index + 1] ELSE 0
exponent_start == Len(input.base)
modulus_start == exponent_start + Len(input.exponent)

\* A limb of a big-endian number of len bytes at offset.
input_limb(offset, len, k) ==
  LET byte(b) == IF k * LIMB_BYTES + b < len THEN input_byte(offset + len - 1 - (k * LIMB_BYTES + b)) ELSE 0
      value[b \in 0 .. LIMB_BYTES] == IF b = 0 THEN 0 ELSE value[b - 1] + byte(b - 1) * 2 ^ (BYTE_BITS * (b - 1))
  IN value[LIMB_BYTES]
limbs(bytes) == (bytes + LIMB_BYTES - 1) \div LIMB_BYTES

modulus_len == Len(input.modulus)
significant == CHOOSE s \in 0 .. modulus_len :
  /\ s = 0 \/ input_byte(modulus_start + modulus_len - s) # 0
  /\ \A k \in s + 1 .. modulus_len : input_byte(modulus_start + modulus_len - k) = 0
n == limbs(significant)

bits == BYTE_BITS * Len(input.exponent)
\* The bits of a byte from its lowest.
exponent_bit_low(k) == (input_byte(exponent_start + k \div BYTE_BITS) \div 2 ^ (k % BYTE_BITS)) % 2
exponent_bit(k) == (input_byte(exponent_start + k \div BYTE_BITS) \div 2 ^ (BYTE_BITS - 1 - (k % BYTE_BITS))) % 2

Ends(status, output) == step' = "done" /\ outcome' = [status |-> status, output |-> output]
Unstarted == UNCHANGED <<modulus, base, result, work, limb, bit, started, division>>
bounded == \A part \in {input.base, input.exponent, input.modulus} : Len(part) <= MAX_LENGTH

\* Too long a part or too little gas; a modulus of no bytes, or of zeros; memory to work in, or none.
Refuse == step = "start" /\ Ends("failure", <<>>) /\ Unstarted /\ UNCHANGED input
Trivial ==
  /\ step = "start" /\ bounded /\ significant = 0
  /\ \/ Ends("success", [k \in 1 .. modulus_len |-> 0])
     \/ (input.base # <<>> \/ modulus_len # 0) /\ Ends("host", <<>>)
  /\ Unstarted /\ UNCHANGED input
Begin ==
  /\ step = "start" /\ bounded /\ significant # 0
  /\ \/ Ends("host", <<>>) /\ Unstarted
     \/ /\ modulus' = try_new([k \in 0 .. n - 1 |-> input_limb(modulus_start, modulus_len, k)], n)
        /\ work' = Zeroed(2 * n + 1) /\ base' = Zeroed(n) /\ result' = Zeroed(n)
        /\ limb' = limbs(Len(input.base)) /\ step' = "base" /\ UNCHANGED <<bit, started, division, outcome>>
  /\ UNCHANGED input

\* A dividend shorter than the modulus is its own remainder.
reduce(dividend, len, then) ==
  IF len < modulus.len
  THEN /\ work' = With(dividend, len, modulus.len + 1 - len, 0)
       /\ division' = [len |-> len, digits |-> 0, then |-> then] /\ step' = "reduced"
  ELSE /\ work' = Normalized(modulus, dividend, len)
       /\ division' = [len |-> len, digits |-> len + 1 - modulus.len, then |-> then] /\ step' = "digit"
mul_mod(a, b, then) == reduce(product(modulus, a, b, work), 2 * modulus.len, then)

Digit ==
  /\ step = "digit" /\ division.digits > 0
  /\ division' = [division EXCEPT !.digits = @ - 1]
  /\ work' = Subtracted(modulus, work, division.digits - 1)
  /\ UNCHANGED <<input, step, modulus, base, result, limb, bit, started, outcome>>
Denormalize ==
  /\ step = "digit" /\ division.digits = 0
  /\ work' = Denormalized(modulus, work, division.len) /\ step' = "reduced"
  /\ UNCHANGED <<input, modulus, base, result, limb, bit, started, division, outcome>>

\* The base is reduced limb by limb, the most significant first; then the result begins as one.
ReduceBase ==
  /\ step = "base" /\ UNCHANGED <<input, modulus, base, result, bit, started, outcome>>
  /\ \/ /\ limb > 0 /\ limb' = limb - 1
        /\ reduce([k \in DOMAIN work |-> IF k = 0 THEN input_limb(0, Len(input.base), limb - 1)
                                         ELSE IF k <= modulus.len THEN base[k - 1] ELSE work[k]],
                  modulus.len + 1, "base")
     \/ limb = 0 /\ UNCHANGED limb /\ reduce([work EXCEPT ![0] = 1], 1, "bits")

\* Square and multiply; the first bit set takes the base as it is.
Bit ==
  /\ step = "bits" /\ bit < bits /\ UNCHANGED <<input, modulus, base, limb, outcome>>
  /\ \/ started /\ mul_mod(result, result, "times") /\ UNCHANGED <<result, bit, started>>
     \/ /\ ~started /\ bit' = bit + 1 /\ started' = (exponent_bit(bit) = 1)
        /\ result' = (IF exponent_bit(bit) = 1 THEN base ELSE result)
        /\ UNCHANGED <<step, work, division>>
Times ==
  /\ step = "times" /\ UNCHANGED <<input, modulus, base, result, limb, started, outcome>>
  /\ IF exponent_bit(bit) = 1 THEN mul_mod(result, base, "bit") /\ UNCHANGED bit
     ELSE step' = "bits" /\ bit' = bit + 1 /\ UNCHANGED <<work, division>>

\* What a division was for takes the remainder.
Take ==
  /\ step = "reduced" /\ UNCHANGED <<input, modulus, work, limb, started, division, outcome>>
  /\ IF division.then = "base" THEN base' = head(work, modulus.len) /\ UNCHANGED result
     ELSE result' = head(work, modulus.len) /\ UNCHANGED base
  /\ IF division.then = "bit" THEN step' = "bits" /\ bit' = bit + 1
     ELSE step' = division.then /\ UNCHANGED bit

Finish ==
  /\ step = "bits" /\ bit = bits
  /\ Ends("success", [k \in 1 .. modulus_len |->
       LET position == modulus_len - k
       IN IF position \div LIMB_BYTES < modulus.len
          THEN (result[position \div LIMB_BYTES] \div 2 ^ (BYTE_BITS * (position % LIMB_BYTES))) % 2 ^ BYTE_BITS
          ELSE 0])
  /\ Unstarted /\ UNCHANGED input

Init ==
  /\ input \in Inputs /\ step = "start" /\ modulus = [limbs |-> <<>>, len |-> 0, shift |-> 0]
  /\ base = <<>> /\ result = <<>> /\ work = <<>> /\ limb = 0 /\ bit = 0 /\ started = FALSE
  /\ division = [len |-> 0, digits |-> 0, then |-> "base"] /\ outcome = [status |-> "none", output |-> <<>>]
Next == Refuse \/ Trivial \/ Begin \/ Digit \/ Denormalize \/ ReduceBase \/ Bit \/ Times \/ Take \/ Finish
Spec == Init /\ [][Next]_vars

\* The number some bytes of the input make, those not given being zero.
Number(offset, len) ==
  LET sum[k \in 0 .. len] == IF k = 0 THEN 0 ELSE sum[k - 1] * 2 ^ BYTE_BITS + input_byte(offset + k - 1)
  IN sum[len]

\* bignum.fe:96: the estimate of a digit is a digit, and the digit or one too large, so that adding the
\* modulus back once is always enough, whatever the limbs of the dividend left by the digits before.
EstimateNearDigit ==
  step = "digit" /\ division.digits > 0 =>
    LET j == division.digits - 1
        digit == window(modulus, work, j) \div Value(modulus.limbs, 0, modulus.len)
    IN estimate(modulus, work, j) \in {digit, digit + 1} /\ estimate(modulus, work, j) < LIMB_BASE

\* EIP-198: a call that succeeds returns base ^ exponent % modulus in just the bytes of the modulus,
\* zeros for a modulus of zero, through every division, and for bytes the call did not give.
Powers ==
  LET m == Number(modulus_start, modulus_len)
      power[k \in 0 .. Number(exponent_start, Len(input.exponent))] ==
        IF k = 0 THEN 1 % m ELSE (power[k - 1] * (Number(0, Len(input.base)) % m)) % m
      returned[k \in 0 .. Len(outcome.output)] ==
        IF k = 0 THEN 0 ELSE returned[k - 1] * 2 ^ BYTE_BITS + outcome.output[k]
  IN outcome.status = "success" =>
       /\ Len(outcome.output) = modulus_len
       /\ returned[modulus_len] = IF m = 0 THEN 0 ELSE power[Number(exponent_start, Len(input.exponent))]
=============================================================================
