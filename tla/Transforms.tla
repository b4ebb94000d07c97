----------------------------- MODULE Transforms -----------------------------
(***************************************************************************)
(* The Fourier transforms of UbiG, pass by pass: of 320 points for Stage A *)
(* (stage_a_fft320_sp11.c, and stage_a_fft320.c kept for comparison), of   *)
(* 64, 16, 8 and 4 for Stage B (stage_b_rt.c).  Each is cut differently,   *)
(* and leaves its points in another order between its passes.              *)
(*                                                                         *)
(* They are computed exactly: real numbers are residues modulo a prime in  *)
(* which there is a 320th root of unity, its cosines and sines too.  Every *)
(* transform is linear, so what it makes of one sample says it all.        *)
(* Complex numbers are pairs, whatever way the code packs them.            *)
(***************************************************************************)
EXTENDS Integers, Sequences, SequencesExt

CONSTANTS
  Prime,   \* 641
  Root,    \* of order 320
  Stride   \* of the long transforms each Stride-th sample is tried

Power == FoldLeft(LAMBDA s, k : Append(s, (s[k] * Root) % Prime), <<1>>,
                  [k \in 1 .. 319 |-> k])
Reciprocal(n) == CHOOSE m \in 1 .. (Prime - 1) : (m * n) % Prime = 1

TransformsAssumption ==
  /\ Prime \in Nat /\ Root \in 2 .. Prime /\ Stride \in Nat \ {0}
  /\ (Power[320] * Root) % Prime = 1 /\ Power[161] = Prime - 1

(* Euler's formulas; Power[81] is the imaginary unit among the residues.   *)
Cosines == [k \in 1 .. 320 |->
  ((Power[k] + Power[((320 - (k - 1)) % 320) + 1]) * Reciprocal(2)) % Prime]
Cos(k) == Cosines[(k % 320) + 1]
Sin(k) == Cos(k - 80)

VARIABLES
  kind,    \* which transform
  scaled,  \* whether the last pass of the long one divides by 320
  at,      \* the sample that is not zero
  part,    \* whether it is real or imaginary
  pass,
  data

transformVars == <<kind, scaled, at, part, pass, data>>

-----------------------------------------------------------------------------
Zero == <<0, 0>>
Add(x, y) == <<(x[1] + y[1]) % Prime, (x[2] + y[2]) % Prime>>
Sub(x, y) == <<(x[1] - y[1]) % Prime, (x[2] - y[2]) % Prime>>
Mul(x, y) == <<(x[1] * y[1] - x[2] * y[2]) % Prime, (x[1] * y[2] + x[2] * y[1]) % Prime>>
Scale(r, x) == <<(r * x[1]) % Prime, (r * x[2]) % Prime>>
Turn(x) == <<x[2], (-x[1]) % Prime>>
Conj(x) == <<x[1], (-x[2]) % Prime>>

(* The k-th power of the n-th root of unity the tables hold.               *)
W(k, n) == LET a == k * (320 \div n) IN <<Cos(a), (-Sin(a)) % Prime>>

(* radix4_entry, dft4, stage_b_rt_fft4.                                    *)
Dft4(a, b, c, d) ==
  LET ac == Add(a, c) bd == Add(b, d) a_c == Sub(a, c) b_d == Turn(Sub(b, d))
  IN  <<Add(ac, bd), Add(a_c, b_d), Sub(ac, bd), Sub(a_c, b_d)>>

(* dft8: the odd ones are turned by an eighth, two and three.              *)
Dft8(x) ==
  LET e == Dft4(x[1], x[3], x[5], x[7])
      o == Dft4(x[2], x[4], x[6], x[8])
      u == Scale(Cos(40), o[2]) v == Scale(Cos(40), o[4])
      turned == <<o[1], <<(u[1] + u[2]) % Prime, (u[2] - u[1]) % Prime>>, Turn(o[3]),
                  <<(v[2] - v[1]) % Prime, (-(v[1] + v[2])) % Prime>>>>
  IN  [i \in 1 .. 4 |-> Add(e[i], turned[i])] \o [i \in 1 .. 4 |-> Sub(e[i], turned[i])]

(* dft5, by the sums and the differences of the second and the fifth, the  *)
(* third and the fourth.                                                   *)
Dft5(x) ==
  LET mix(r, y, s, z) == Add(Scale(r, y), Scale(s, z))
      bm == Sub(x[2], x[5]) bp == Add(x[2], x[5])
      cm == Sub(x[3], x[4]) cp == Add(x[3], x[4])
      p1 == Add(x[1], mix(Cos(64), bp, Cos(128), cp))
      p2 == Add(x[1], mix(Cos(128), bp, Cos(64), cp))
      y == Turn(mix(Sin(64), bm, Sin(128), cm))
      z == Turn(Sub(Scale(Sin(128), bm), Scale(Sin(64), cm)))
  IN  <<Add(x[1], Add(bp, cp)), Add(p1, y), Add(p2, z), Sub(p2, z), Sub(p1, y)>>

-----------------------------------------------------------------------------
(* entry8, mid5, final8 and final8_unscaled of stage_a_fft320_sp11.c.      *)
Entry8(x) ==
  LET y == [k \in 0 .. 39 |-> Dft8([m \in 1 .. 8 |-> x[k + 40 * (m - 1)]])]
  IN  [i \in 0 .. 319 |-> y[i \div 8][(i % 8) + 1]]

(* Mutant: the middle pass leaves a packet where it found it.              *)
Mid5Of_Kept(i) == <<(i \div 8) % 8, i % 8, i \div 64>>

(* Which of the transforms of five, and which of its results, goes there.  *)
Mid5Of(i) == <<i \div 40, i % 8, (i % 40) \div 8>>

Mid5(x) ==
  [i \in 0 .. 319 |->
     LET j == Mid5Of(i)[1] r == Mid5Of(i)[2]
     IN  Dft5([t \in 1 .. 5 |-> Mul(x[(j + 8 * (t - 1)) * 8 + r], W((t - 1) * r, 40))])
           [Mid5Of(i)[3] + 1]]

Final8(x) ==
  LET scale == IF scaled THEN Reciprocal(320) ELSE 1
      y == [q \in 0 .. 39 |->
              Dft8([j \in 1 .. 8 |-> Mul(Scale(scale, x[(j - 1) * 40 + q]), W((j - 1) * q, 320))])]
  IN  [k \in 0 .. 319 |-> y[k % 40][(k \div 40) + 1]]

(* radix4_entry, radix4_stage and the two radix5 of stage_a_fft320.c.      *)
Radix4Entry(x) ==
  [i \in 0 .. 319 |-> LET k == i \div 4 IN Dft4(x[k], x[k + 80], x[k + 160], x[k + 240])[(i % 4) + 1]]

Radix4Stage(step, x) ==
  [o \in 0 .. 319 |->
     LET i == o % step
         s == (o \div (4 * step)) * step + i
     IN  Dft4(x[s], Mul(x[80 + s], W(i, 4 * step)), Mul(x[160 + s], W(2 * i, 4 * step)),
              Mul(x[240 + s], W(3 * i, 4 * step)))[((o \div step) % 4) + 1]]

Radix5(x) ==
  LET scale == IF scaled THEN Reciprocal(320) ELSE 1
  IN  [o \in 0 .. 319 |->
         LET b == o % 64
         IN  Dft5([t \in 1 .. 5 |-> Mul(Scale(scale, x[b + 64 * (t - 1)]), W((t - 1) * b, 320))])
               [(o \div 64) + 1]]

-----------------------------------------------------------------------------
(* ubig_stage_b_rt_fft64, by eight and eight.                              *)
Columns8(x) ==
  [i \in 0 .. 63 |-> Dft8([n2 \in 1 .. 8 |-> x[(i \div 8) + 8 * (n2 - 1)]])[(i % 8) + 1]]
Rows8(x) ==
  [k \in 0 .. 63 |->
     Dft8([n1 \in 1 .. 8 |-> Mul(x[8 * (n1 - 1) + (k % 8)], W((n1 - 1) * (k % 8), 64))])
       [(k \div 8) + 1]]

(* ubig_stage_b_rt_fft64_normalized, by four three times: quarters are in  *)
(* the order first, third, second, fourth, whatever they are quarters of.  *)
Quarter == <<0, 2, 1, 3>>
NormRadix4(x) ==
  LET y(c) == [n \in 0 .. 3 |-> Scale(Reciprocal(64), x[c + 16 * n])]
  IN  [i \in 0 .. 63 |->
         LET q == y(i % 16) IN Dft4(q[0], q[1], q[2], q[3])[Quarter[(i \div 16) + 1] + 1]]

(* Mutant: a packet's twiddles are those of its place, not of its order.   *)
NormGroup_InPlace(g) == g

NormGroup(g) == Quarter[g + 1]

NormRadix16(x) ==
  [i \in 0 .. 63 |->
     LET g == i \div 16 m == i % 4
         q == [p \in 0 .. 3 |-> Mul(x[16 * g + 4 * p + m], W(p * NormGroup(g), 16))]
     IN  Dft4(q[0], q[1], q[2], q[3])[Quarter[((i % 16) \div 4) + 1] + 1]]

NormReorder(x) ==
  [k \in 0 .. 63 |->
     LET r == k % 4 s == (k \div 4) % 4
         from == 16 * Quarter[r + 1] + 4 * Quarter[s + 1]
         q == [m \in 0 .. 3 |-> Mul(x[from + m], W(m * (r + 4 * s), 64))]
     IN  Dft4(q[0], q[1], q[2], q[3])[(k \div 16) + 1]]

-----------------------------------------------------------------------------
(* stage_b_rt_fft16.                                                       *)
Columns4(x) ==
  [i \in 0 .. 15 |-> LET n == i \div 4 IN Dft4(x[n], x[n + 4], x[n + 8], x[n + 12])[(i % 4) + 1]]
Rows4(x) ==
  [k \in 0 .. 15 |->
     LET r == k % 4 q == [n \in 0 .. 3 |-> Mul(x[4 * n + r], W(n * r, 16))]
     IN  Dft4(q[0], q[1], q[2], q[3])[(k \div 4) + 1]]

(* stage_b_rt_real_post16: of 32 samples transformed as 16 pairs; the last *)
(* bin is real and kept in the imaginary part of the first.                *)
RealPost16(x) ==
  LET half == Reciprocal(2)
      pair(k) ==
        LET a == x[k] b == x[16 - k]
            sum == <<((a[1] + b[1]) * half) % Prime, ((a[2] + b[2]) * half) % Prime>>
            diff == <<((b[1] - a[1]) * half) % Prime, ((a[2] - b[2]) * half) % Prime>>
            cos == Cos(10 * k) sin == Sin(10 * k)
            rot == <<(cos * sum[2] + sin * diff[1]) % Prime, (cos * diff[1] - sin * sum[2]) % Prime>>
        IN  << <<(sum[1] + rot[1]) % Prime, (diff[2] + rot[2]) % Prime>>,
               <<(sum[1] - rot[1]) % Prime, (rot[2] - diff[2]) % Prime>> >>
  IN  [k \in 0 .. 15 |->
         CASE k = 0 -> <<(x[0][1] + x[0][2]) % Prime, (x[0][1] - x[0][2]) % Prime>>
           [] k = 8 -> Conj(x[8])
           [] k \in 1 .. 7 -> pair(k)[1]
           [] OTHER -> pair(16 - k)[2]]

(* stage_b_rt_fft8.                                                        *)
Fft8(x) == [k \in 0 .. 7 |-> Dft8([i \in 1 .. 8 |-> x[i - 1]])[k + 1]]

-----------------------------------------------------------------------------
Kinds == {"sp11", "fft320", "fft64", "normalized", "spectrum32", "fft8"}
Length(k) ==
  CASE k \in {"sp11", "fft320"} -> 320 [] k = "fft8" -> 8 [] k = "spectrum32" -> 16 [] OTHER -> 64
Samples(k) == IF Length(k) = 320 THEN {n \in 0 .. 319 : n % Stride = 0} ELSE 0 .. (Length(k) - 1)
Passes(k) ==
  CASE k = "fft320" -> 4 [] k \in {"sp11", "normalized", "spectrum32"} -> 3
    [] k = "fft64" -> 2 [] k = "fft8" -> 1

Impulse == IF part = "real" THEN <<1, 0>> ELSE <<0, 1>>

TransformInit ==
  /\ kind \in Kinds /\ scaled \in (IF Length(kind) = 320 THEN BOOLEAN ELSE {FALSE})
  /\ at \in Samples(kind) /\ part \in {"real", "imaginary"}
  /\ pass = 0 /\ data = [n \in 0 .. (Length(kind) - 1) |-> IF n = at THEN Impulse ELSE Zero]

Step(k, n, x) ==
  CASE k = "sp11" -> (CASE n = 0 -> Entry8(x) [] n = 1 -> Mid5(x) [] n = 2 -> Final8(x))
    [] k = "fft320" -> (CASE n = 0 -> Radix4Entry(x) [] n = 1 -> Radix4Stage(4, x)
                          [] n = 2 -> Radix4Stage(16, x) [] n = 3 -> Radix5(x))
    [] k = "fft64" -> (IF n = 0 THEN Columns8(x) ELSE Rows8(x))
    [] k = "normalized" -> (CASE n = 0 -> NormRadix4(x) [] n = 1 -> NormRadix16(x)
                              [] n = 2 -> NormReorder(x))
    [] k = "spectrum32" -> (CASE n = 0 -> Columns4(x) [] n = 1 -> Rows4(x) [] n = 2 -> RealPost16(x))
    [] k = "fft8" -> Fft8(x)

Pass ==
  /\ pass < Passes(kind) /\ pass' = pass + 1
  /\ data' = Step(kind, pass, data)
  /\ UNCHANGED <<kind, scaled, at, part>>

Done == pass = Passes(kind) /\ UNCHANGED transformVars

TransformNext == Pass \/ Done

TransformSpec == TransformInit /\ [][TransformNext]_transformVars

-----------------------------------------------------------------------------
(* The sum that defines a bin, of the one sample that is not zero; and of  *)
(* the 32 real samples.                                                    *)
Bin(k) ==
  LET n == Length(kind)
      size == CASE kind = "normalized" -> Reciprocal(64) [] scaled -> Reciprocal(320) [] OTHER -> 1
  IN  Scale(size, Mul(Impulse, W((at * k) % n, n)))
RealAt == 2 * at + (IF part = "real" THEN 0 ELSE 1)
RealBin(k) == W((RealAt * k) % 32, 32)

(* However a transform is cut into passes, packed between them and turned, *)
(* its bins are those of the discrete Fourier transform, each in its place *)
(* and with the scale its caller expects.                                  *)
TransformsAreDft ==
  pass = Passes(kind) =>
    IF kind = "spectrum32"
    THEN /\ data[0] = <<RealBin(0)[1], RealBin(16)[1]>>
         /\ \A k \in 1 .. 15 : data[k] = RealBin(k)
    ELSE \A k \in DOMAIN data : data[k] = Bin(k)
=============================================================================
