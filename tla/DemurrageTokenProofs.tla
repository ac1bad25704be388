------------------------ MODULE DemurrageTokenProofs ------------------------
(***************************************************************************)
(* Invariants of the contract, for every set of addresses, every width of  *)
(* the integers and every sequence of messages and blocks.  First, what    *)
(* the demurrage arithmetic returns, for every value of the resolution     *)
(* constants, every amount, every tax level and every number of periods.   *)
(***************************************************************************)
EXTENDS DemurrageToken, FunctionLemmas

\* Checked operations on u128 values and panics yield u128 values or panic.
LEMMA CheckedType ==
    ASSUME NEW x \in Result, NEW y \in Result
    PROVE  /\ x \oplus y \in Result
           /\ x \ominus y \in Result
           /\ x \otimes y \in Result
           /\ x \oslash y \in Result
<1>1. MAX_U128 \in Nat /\ Panic \in Result
  BY ResolutionAssumption DEF Result
<1>2. \A z \in Int : Checked(z) \in Result
  BY DEF Checked, Result
<1>3. x \in Int /\ y \in Int
  BY <1>1 DEF Result, Panic, U128
<1>4. x \oplus y \in Result /\ x \ominus y \in Result /\ x \otimes y \in Result
  BY <1>1, <1>2, <1>3 DEF \oplus, \ominus, \otimes
<1>5. x \oslash y \in Result
  <2>1. CASE x = Panic \/ y = Panic \/ y = 0
    BY <1>1, <2>1 DEF \oslash
  <2>2. CASE ~(x = Panic \/ y = Panic \/ y = 0)
    <3>1. x \in 0..MAX_U128 /\ y \in Nat \ {0}
      BY <2>2, <1>1 DEF Result, U128
    <3>2. x \div y \in 0..x
      BY <3>1, <1>1
    <3>3. QED
      BY <3>1, <3>2, <2>2, <1>1 DEF \oslash, Result, U128
  <2>3. QED
    BY <2>1, <2>2
<1>6. QED
  BY <1>4, <1>5

\* Dividing a product by one of its factors' upper bounds leaves at most the other.
LEMMA QuotientBelow ==
    ASSUME NEW a \in Nat, NEW b \in Nat, NEW g \in Nat \ {0}, a <= g
    PROVE  (a * b) \div g \in 0..b
<1>1. a * b \in Nat /\ a * b <= g * b
  OBVIOUS
<1> DEFINE q == (a * b) \div g
<1>2. q \in Nat /\ q * g <= a * b
  BY <1>1
<1>3. q * g <= b * g
  BY <1>1, <1>2
<1>4. q <= b
  BY <1>2, <1>3
<1>5. QED
  BY <1>2, <1>4

\* Dividing a product by at most one of its factors leaves at least the other.
LEMMA QuotientAbove ==
    ASSUME NEW a \in Nat, NEW b \in Nat, NEW g \in Nat \ {0}, g <= a
    PROVE  (a * b) \div g >= b
<1>1. a * b \in Nat /\ b * g <= a * b
  OBVIOUS
<1> DEFINE q == (a * b) \div g
<1>2. q \in Nat /\ a * b < (q + 1) * g
  BY <1>1
<1>3. b * g < (q + 1) * g
  BY <1>1, <1>2
<1>4. b < q + 1
  BY <1>2, <1>3
<1>5. QED
  BY <1>2, <1>4

-----------------------------------------------------------------------------
(* The loops.                                                              *)

\* The loops start in the range of u128 and a pass stays in it or panics.
LEMMA PassType ==
    ASSUME NEW t \in Result
    PROVE  /\ GROWTH_RESOLUTION_FACTOR \in Result
           /\ DecayPass(t) \in [Result -> Result]
           /\ GrowthPass(t) \in [Result -> Result]
<1>1. GROWTH_RESOLUTION_FACTOR \in Result
  BY ResolutionAssumption DEF Result, U128, RESOLUTION_FACTOR
<1>2. QED
  BY <1>1, CheckedType DEF DecayPass, GrowthPass

\* decay_by's loop computes the iterates of its pass.
LEMMA DecayFactorIterates ==
    ASSUME NEW t \in Result
    PROVE  /\ DecayFactor(t) \in [Nat -> Result]
           /\ DecayFactor(t)[0] = GROWTH_RESOLUTION_FACTOR
           /\ \A n \in Nat : DecayFactor(t)[n+1] = DecayPass(t)[DecayFactor(t)[n]]
<1> DEFINE g == DecayPass(t)
           c == GROWTH_RESOLUTION_FACTOR
<1>1. c \in Result /\ g \in [Result -> Result]
  BY PassType
<1>2. DecayFactor(t) = CHOOSE f : f = [n \in Nat |-> IF n = 0 THEN c ELSE g[f[n-1]]]
  BY DEF DecayFactor
<1> HIDE DEF g, c
<1>3. DecayFactor(t) = [n \in Nat |-> IF n = 0 THEN c ELSE g[DecayFactor(t)[n-1]]]
  BY <1>1, <1>2, RecursionSolved
<1>4. DecayFactor(t) \in [Nat -> Result] /\ DecayFactor(t)[0] = c
      /\ \A n \in Nat : DecayFactor(t)[n+1] = g[DecayFactor(t)[n]]
  BY <1>1, <1>3, SolutionIterates
<1>5. QED
  BY <1>4 DEF g, c

\* grow_by's loop computes the iterates of its pass.
LEMMA GrowthFactorIterates ==
    ASSUME NEW t \in Result
    PROVE  /\ GrowthFactor(t) \in [Nat -> Result]
           /\ GrowthFactor(t)[0] = GROWTH_RESOLUTION_FACTOR
           /\ \A n \in Nat : GrowthFactor(t)[n+1] = GrowthPass(t)[GrowthFactor(t)[n]]
<1> DEFINE g == GrowthPass(t)
           c == GROWTH_RESOLUTION_FACTOR
<1>1. c \in Result /\ g \in [Result -> Result]
  BY PassType
<1>2. GrowthFactor(t) = CHOOSE f : f = [n \in Nat |-> IF n = 0 THEN c ELSE g[f[n-1]]]
  BY DEF GrowthFactor
<1> HIDE DEF g, c
<1>3. GrowthFactor(t) = [n \in Nat |-> IF n = 0 THEN c ELSE g[GrowthFactor(t)[n-1]]]
  BY <1>1, <1>2, RecursionSolved
<1>4. GrowthFactor(t) \in [Nat -> Result] /\ GrowthFactor(t)[0] = c
      /\ \A n \in Nat : GrowthFactor(t)[n+1] = g[GrowthFactor(t)[n]]
  BY <1>1, <1>3, SolutionIterates
<1>5. QED
  BY <1>4 DEF g, c

\* A pass of decay_by's loop never raises the value factor.
LEMMA DecayPassLowers ==
    ASSUME NEW t \in Result, NEW factor \in U128
    PROVE  DecayPass(t)[factor] \in 0..factor \cup {Panic}
<1> DEFINE loss == (factor \otimes t) \oslash GROWTH_RESOLUTION_FACTOR
<1>1. factor \in Result /\ factor \in Nat /\ factor # Panic
  BY ResolutionAssumption DEF Result, U128, Panic
<1>2. loss \in Result
  BY <1>1, CheckedType, PassType
<1>3. DecayPass(t)[factor] = factor \ominus loss
  BY <1>1 DEF DecayPass
<1> HIDE DEF loss
<1>4. factor \ominus loss \in 0..factor \cup {Panic}
  <2>1. CASE loss = Panic
    BY <2>1 DEF \ominus
  <2>2. CASE loss # Panic
    <3>1. loss \in Nat
      BY <1>2, <2>2, ResolutionAssumption DEF Result, U128
    <3>2. factor - loss \in Int /\ factor - loss <= factor
      BY <3>1, <1>1
    <3>3. factor \ominus loss = Checked(factor - loss)
      BY <1>1, <2>2 DEF \ominus
    <3>4. QED
      BY <3>2, <3>3, <1>1, ResolutionAssumption DEF Checked, U128
  <2>3. QED
    BY <2>1, <2>2
<1>5. QED
  BY <1>3, <1>4

\* After any number of passes the value factor is at most one, or panicked.
LEMMA DecayFactorAtMostOne ==
    ASSUME NEW t \in Result
    PROVE  \A n \in Nat : DecayFactor(t)[n] \in 0..GROWTH_RESOLUTION_FACTOR \cup {Panic}
<1> DEFINE G == GROWTH_RESOLUTION_FACTOR
           T == {n \in Nat : DecayFactor(t)[n] \in 0..G \cup {Panic}}
<1>1. G \in U128 /\ G \in Nat
  BY ResolutionAssumption, PassType DEF Result, Panic
<1>2. 0 \in T
  <2>1. DecayFactor(t)[0] = G
    BY DecayFactorIterates
  <2>2. QED
    BY <1>1, <2>1
<1>3. ASSUME NEW n \in Nat, n \in T
      PROVE  n + 1 \in T
  <2>1. DecayFactor(t)[n+1] = DecayPass(t)[DecayFactor(t)[n]]
    BY DecayFactorIterates
  <2>2. CASE DecayFactor(t)[n] = Panic
    <3>1. DecayPass(t)[Panic] = Panic
      BY DEF DecayPass, Result, \ominus
    <3>2. QED
      BY <2>1, <2>2, <3>1
  <2>3. CASE DecayFactor(t)[n] \in 0..G
    <3>1. DecayFactor(t)[n] \in U128
      BY <2>3, <1>1, ResolutionAssumption DEF U128
    <3>2. DecayPass(t)[DecayFactor(t)[n]] \in 0..(DecayFactor(t)[n]) \cup {Panic}
      BY <3>1, DecayPassLowers
    <3>3. QED
      BY <2>1, <2>3, <3>2, <1>1
  <2>4. QED
    BY <1>3, <2>2, <2>3
<1> HIDE DEF T
<1>4. \A n \in Nat : n \in T
  BY <1>2, <1>3, SetInduction
<1>5. QED
  BY <1>4 DEF T

\* A decay loop that has panicked has panicked for good; one that has not after its
\* first pass has a tax level at which no pass panics, as no factor exceeds the first.
LEMMA LaterPassesRun ==
    ASSUME NEW t \in Result, NEW n \in Nat \ {0}, DecayFactor(t)[n] # Panic
    PROVE  \A factor \in 0..GROWTH_RESOLUTION_FACTOR :
             DecayPass(t)[factor] \in 0..factor
<1> DEFINE G == GROWTH_RESOLUTION_FACTOR
           T == {m \in Nat : DecayFactor(t)[m+1] # Panic => DecayFactor(t)[0+1] # Panic}
<1>1. DecayFactor(t)[1] # Panic
  <2>1. 0 \in T
    OBVIOUS
  <2>2. ASSUME NEW m \in Nat, m \in T
        PROVE  m + 1 \in T
    <3>1. DecayFactor(t)[(m+1)+1] = DecayPass(t)[DecayFactor(t)[m+1]]
      <4>1. m + 1 \in Nat
        OBVIOUS
      <4>2. QED
        BY <4>1, DecayFactorIterates
    <3>2. DecayPass(t)[Panic] = Panic
      BY DEF DecayPass, Result, \ominus
    <3>3. QED
      BY <2>2, <3>1, <3>2
  <2> HIDE DEF T
  <2>3. \A m \in Nat : m \in T
    BY <2>1, <2>2, SetInduction
  <2>4. n - 1 \in T /\ (n - 1) + 1 = n
    BY <2>3
  <2>5. QED
    BY <2>4 DEF T
<1>2. G \in Nat \ {0} /\ G \in Result /\ G # Panic /\ MAX_U128 \in Nat /\ G <= MAX_U128
  BY ResolutionAssumption, PassType DEF Panic, U128, Result
<1>3. DecayPass(t)[G] # Panic
  <2>1. DecayFactor(t)[0+1] = DecayPass(t)[DecayFactor(t)[0]] /\ DecayFactor(t)[0] = G
    BY DecayFactorIterates
  <2>2. QED
    BY <1>1, <2>1
<1> HIDE DEF G
<1>4. G \ominus ((G \otimes t) \oslash G) # Panic
  BY <1>2, <1>3 DEF DecayPass, G
<1>5. t # Panic /\ G \otimes t # Panic
  BY <1>4 DEF \ominus, \oslash, \otimes
<1>6. t \in Nat
  BY <1>2, <1>5 DEF Result, U128
<1>7. G \otimes t = G * t /\ G * t <= MAX_U128
  BY <1>2, <1>5, <1>6 DEF \otimes, Checked, U128
<1>8. t <= G
  <2>1. (G \otimes t) \oslash G = (G * t) \div G
    BY <1>2, <1>5, <1>7 DEF \oslash
  <2>2. (G * t) \div G = t
    BY <1>2, <1>6, QuotientBelow, QuotientAbove
  <2>3. G - t \in U128
    BY <1>2, <1>4, <1>5, <2>1, <2>2 DEF \ominus, Checked
  <2>4. QED
    BY <1>2, <1>6, <2>3 DEF U128
<1>9. ASSUME NEW factor \in 0..G
      PROVE  DecayPass(t)[factor] \in 0..factor
  <2> DEFINE loss == (t * factor) \div G
  <2>1. factor \in Nat /\ factor <= G /\ factor # Panic /\ factor \in Result
    BY <1>2 DEF Panic, Result, U128
  <2>2. loss \in 0..factor
    BY <1>2, <1>6, <1>8, <2>1, QuotientBelow
  <2>3. factor \otimes t = t * factor
    <3>1. factor * t <= G * t /\ factor * t \in Nat /\ factor * t = t * factor
      BY <1>2, <1>6, <2>1
    <3>2. factor * t \in U128
      BY <1>2, <1>6, <1>7, <3>1 DEF U128
    <3>3. QED
      BY <1>5, <2>1, <3>1, <3>2 DEF \otimes, Checked
  <2>4. (factor \otimes t) \oslash G = loss
    <3>1. t * factor # Panic
      BY <1>6, <2>1 DEF Panic
    <3>2. QED
      BY <1>2, <2>3, <3>1 DEF \oslash
  <2>5. DecayPass(t)[factor] = factor \ominus loss
    BY <2>1, <2>4 DEF DecayPass, G
  <2> HIDE DEF loss
  <2>6. loss # Panic /\ factor - loss \in 0..factor /\ factor - loss \in U128
    BY <1>2, <2>1, <2>2 DEF Panic, U128
  <2>7. factor \ominus loss = factor - loss
    BY <2>1, <2>6 DEF \ominus, Checked
  <2>8. QED
    BY <2>5, <2>6, <2>7
<1>10. QED
  BY <1>9 DEF G

\* From the first pass on the factor only falls.
LEMMA FactorsFall ==
    ASSUME NEW t \in Result, NEW n \in Nat \ {0}, DecayFactor(t)[n] # Panic
    PROVE  \A k \in Nat : DecayFactor(t)[n+k] \in 0..DecayFactor(t)[n]
<1> DEFINE T == {k \in Nat : DecayFactor(t)[n+k] \in 0..DecayFactor(t)[n]}
           G == GROWTH_RESOLUTION_FACTOR
<1>1. DecayFactor(t)[n] \in 0..G /\ G \in Nat
  BY DecayFactorAtMostOne, ResolutionAssumption
<1>2. 0 \in T
  BY <1>1
<1>3. ASSUME NEW k \in Nat, k \in T
      PROVE  k + 1 \in T
  <2>1. DecayFactor(t)[(n+k)+1] = DecayPass(t)[DecayFactor(t)[n+k]] /\ (n+k)+1 = n+(k+1)
    BY DecayFactorIterates
  <2>2. DecayFactor(t)[n+k] \in 0..DecayFactor(t)[n] /\ DecayFactor(t)[n+k] \in 0..G
    BY <1>1, <1>3
  <2>3. DecayPass(t)[DecayFactor(t)[n+k]] \in 0..(DecayFactor(t)[n+k])
    BY <2>2, LaterPassesRun
  <2>4. QED
    BY <1>1, <2>1, <2>2, <2>3
<1> HIDE DEF T
<1>4. \A k \in Nat : k \in T
  BY <1>2, <1>3, SetInduction
<1>5. QED
  BY <1>4 DEF T

\* A growth loop that has panicked has panicked for good: a pass hands Panic on.
LEMMA GrowthStaysPanicked ==
    ASSUME NEW t \in Result, NEW n \in Nat, NEW m \in Nat, n <= m,
           GrowthFactor(t)[n] = Panic
    PROVE  GrowthFactor(t)[m] = Panic
<1> DEFINE T == {k \in Nat : GrowthFactor(t)[n+k] = Panic}
<1>1. 0 \in T
  OBVIOUS
<1>2. ASSUME NEW k \in Nat, k \in T
      PROVE  k + 1 \in T
  <2>1. n + k \in Nat /\ (n+k)+1 = n+(k+1)
    OBVIOUS
  <2>2. GrowthFactor(t)[(n+k)+1] = GrowthPass(t)[GrowthFactor(t)[n+k]]
    BY <2>1, GrowthFactorIterates
  <2>3. GrowthPass(t)[Panic] = Panic
    BY DEF GrowthPass, Result, \oplus
  <2>4. QED
    BY <1>2, <2>1, <2>2, <2>3
<1> HIDE DEF T
<1>3. \A k \in Nat : k \in T
  BY <1>1, <1>2, SetInduction
<1>4. m - n \in T /\ n + (m - n) = m
  BY <1>3
<1>5. QED
  BY <1>4 DEF T

-----------------------------------------------------------------------------
(* The conversions.                                                        *)

\* Truncating a tax level leaves a u128.
LEMMA TaxLevelType ==
    ASSUME NEW tax_level \in U128
    PROVE  TruncatedTaxLevel(tax_level) \in Result
<1>1. tax_level \in Nat /\ NANO_DIVDER \in Nat \ {0} /\ MAX_U128 \in Nat
  BY ResolutionAssumption DEF U128
<1>2. tax_level \div NANO_DIVDER \in 0..tax_level
  BY <1>1
<1>3. QED
  BY <1>1, <1>2 DEF TruncatedTaxLevel, Result, U128

\* Decay never raises a demurrage amount, at any tax level, for any time.
THEOREM DecayLowers ==
    ASSUME NEW value \in U128, NEW tax_level \in U128, NEW period \in Nat
    PROVE  decay_by(value, tax_level, period) \in 0..value \cup {Panic}
<1> DEFINE factor == DecayFactor(TruncatedTaxLevel(tax_level))[LoopPasses(period)]
           G == GROWTH_RESOLUTION_FACTOR
           product == factor \otimes value
<1>1. LoopPasses(period) \in Nat
  BY DEF LoopPasses
<1>2. factor \in 0..G \cup {Panic}
  BY <1>1, TaxLevelType, DecayFactorAtMostOne
<1>3. decay_by(value, tax_level, period) = product \oslash G
  BY DEF decay_by
<1>4. G \in Nat \ {0} /\ value \in Nat /\ value # Panic /\ G # Panic /\ MAX_U128 \in Nat
  BY ResolutionAssumption DEF U128, Panic
<1> HIDE DEF factor, G
<1>5. CASE factor = Panic
  <2>1. product = Panic
    BY <1>5 DEF \otimes
  <2>2. QED
    BY <1>3, <2>1 DEF \oslash
<1>6. CASE factor \in 0..G
  <2>1. factor \in Nat /\ factor <= G /\ factor # Panic
    BY <1>4, <1>6 DEF Panic
  <2>2. product = Checked(factor * value)
    BY <1>4, <2>1 DEF \otimes
  <2>3. (factor * value) \div G \in 0..value
    BY <1>4, <2>1, QuotientBelow
  <2>4. product \in {factor * value, Panic}
    BY <2>2 DEF Checked
  <2>5. product \oslash G \in {(factor * value) \div G, Panic}
    BY <2>4, <1>4 DEF \oslash
  <2>6. QED
    BY <1>3, <2>3, <2>5
<1>7. QED
  BY <1>2, <1>5, <1>6

\* What has decayed to nothing stays so at the same tax level, however long one waits:
\* later passes neither panic nor yield more.
THEOREM DecayStaysZero ==
    ASSUME NEW value \in U128 \ {0}, NEW tax_level \in U128,
           NEW period \in Nat, NEW later \in Nat, period <= later,
           decay_by(value, tax_level, period) = 0
    PROVE  later # 0 /\ decay_by(value, tax_level, later) = 0
<1> DEFINE t == TruncatedTaxLevel(tax_level)
           n == LoopPasses(period)
           m == LoopPasses(later)
           G == GROWTH_RESOLUTION_FACTOR
           f == DecayFactor(t)[n]
           g == DecayFactor(t)[m]
<1>1. /\ G \in Nat \ {0} /\ G # Panic /\ MAX_U128 \in Nat
      /\ value \in Nat \ {0} /\ value # Panic /\ t \in Result
  BY ResolutionAssumption, TaxLevelType DEF U128, Panic
<1>2. n \in Nat /\ m \in Nat /\ n <= m
  BY DEF LoopPasses
<1>3. decay_by(value, tax_level, period) = (f \otimes value) \oslash G
      /\ decay_by(value, tax_level, later) = (g \otimes value) \oslash G
  BY DEF decay_by
<1>4. f \in 0..G \cup {Panic} /\ DecayFactor(t)[0] = G
  BY <1>1, <1>2, DecayFactorAtMostOne, DecayFactorIterates
<1>5. ASSUME f # Panic, n # 0
      PROVE  g \in 0..f
  <2>1. n + (m - n) = m /\ m - n \in Nat /\ n \in Nat \ {0}
    BY <1>2, <1>5
  <2> HIDE DEF n, m, t
  <2>2. QED
    BY <1>1, <1>5, <2>1, FactorsFall
<1>6. n = 0 => f = G
  BY <1>4
<1> HIDE DEF f, g, G, n, m
<1>7. f \otimes value # Panic
  BY <1>1, <1>3 DEF \oslash, Panic
<1>8. f # Panic /\ f \otimes value = f * value /\ f * value \in U128
  BY <1>1, <1>7 DEF \otimes, Checked
<1>9. f \in Nat
  BY <1>1, <1>4, <1>8
<1>10. (f * value) \div G = 0
  BY <1>1, <1>3, <1>7, <1>8 DEF \oslash
<1>11. f * value < G
  <2>1. f * value \in Nat
    BY <1>1, <1>9
  <2>2. QED
    BY <1>1, <1>10, <2>1
<1>12. f < G
  <2>1. f <= f * value
    BY <1>1, <1>9
  <2>2. QED
    BY <1>1, <1>9, <1>11, <2>1
<1>13. n # 0 /\ g \in 0..f
  BY <1>1, <1>5, <1>6, <1>8, <1>9, <1>12
<1>14. g * value < G /\ g * value \in Nat /\ g \in Nat /\ g * value <= MAX_U128
  <2>1. g * value <= f * value /\ g * value \in Nat /\ g \in Nat
    BY <1>1, <1>9, <1>13
  <2>2. f * value <= MAX_U128
    BY <1>8 DEF U128
  <2>3. QED
    BY <1>1, <1>9, <1>11, <2>1, <2>2
<1>15. g \otimes value = g * value /\ g * value # Panic
  BY <1>1, <1>14 DEF \otimes, Checked, U128, Panic
<1>16. (g \otimes value) \oslash G = 0
  <2>1. (g * value) \div G = 0
    BY <1>1, <1>14
  <2>2. QED
    BY <1>1, <1>15, <2>1 DEF \oslash
<1>17. later # 0
  <2>1. m # 0
    BY <1>2, <1>13
  <2>2. QED
    BY <2>1 DEF m, LoopPasses
<1>18. QED
  BY <1>3, <1>16, <1>17

\* grow_by yields a u128 or panics.
LEMMA GrowthType ==
    ASSUME NEW value \in Result, NEW tax_level \in U128, NEW period \in Nat
    PROVE  grow_by(value, tax_level, period) \in Result
<1>1. LoopPasses(period) \in Nat
  BY DEF LoopPasses
<1>2. GrowthFactor(TruncatedTaxLevel(tax_level))[LoopPasses(period)] \in Result
  BY <1>1, TaxLevelType, GrowthFactorIterates
<1>3. QED
  BY <1>2, PassType, CheckedType DEF grow_by

\* A recipient is credited at least the amount paid, whatever decay has left of
\* the demurrage amount; with none left the conversion panics.
THEOREM BaseAmountCoversValue ==
    ASSUME NEW value \in U128, NEW d \in 0..INITIAL_DEMURRAGE
    PROVE  /\ to_base_amount(value, d) \in Result
           /\ to_base_amount(value, d) # Panic =>
                d > 0 /\ to_base_amount(value, d) >= value
<1> DEFINE R == RESOLUTION_FACTOR
           weight == d * DEMURRAGE_SCALE
<1>1. /\ value \in Nat /\ d \in Nat /\ d # Panic /\ value # Panic /\ MAX_U128 \in Nat
      /\ DEMURRAGE_SCALE \in Nat \ {0} /\ DEMURRAGE_SCALE # Panic
      /\ R \in Nat \ {0} /\ R # Panic /\ R <= MAX_U128
  BY ResolutionAssumption DEF U128, Panic, RESOLUTION_FACTOR
<1>2. weight \in Nat /\ weight <= R
  <2>1. d * DEMURRAGE_SCALE <= INITIAL_DEMURRAGE * DEMURRAGE_SCALE
    BY ResolutionAssumption
  <2>2. QED
    BY <1>1, <2>1, ResolutionAssumption
<1>3. d \otimes DEMURRAGE_SCALE = weight
  BY <1>1, <1>2 DEF \otimes, Checked, U128
<1>4. to_base_amount(value, d) = (value \otimes R) \oslash weight
  BY <1>3 DEF to_base_amount
<1>5. R \in Result /\ value \in Result /\ weight \in Result
  BY <1>1, <1>2 DEF Result, U128
<1>6. (value \otimes R) \oslash weight \in Result
  BY <1>5, CheckedType
<1>7. ASSUME (value \otimes R) \oslash weight # Panic
      PROVE  weight # 0 /\ (value \otimes R) \oslash weight = (value * R) \div weight
  <2>1. value \otimes R # Panic /\ weight # 0
    BY <1>7 DEF \oslash
  <2>2. value \otimes R = value * R
    BY <1>1, <2>1 DEF \otimes, Checked
  <2>3. weight # Panic
    BY <1>2 DEF Panic
  <2>4. QED
    BY <2>1, <2>2, <2>3 DEF \oslash
<1>8. ASSUME weight # 0
      PROVE  d > 0 /\ (value * R) \div weight >= value
  <2>1. d # 0
    BY <1>1, <1>8
  <2>2. value * R = R * value
    BY <1>1
  <2> HIDE DEF R, weight
  <2>3. (R * value) \div weight >= value
    BY <1>1, <1>2, <1>8, QuotientAbove
  <2>4. QED
    BY <1>1, <2>1, <2>2, <2>3
<1>9. QED
  BY <1>4, <1>6, <1>7, <1>8

\* One change of period distributes at most the whole supply.
THEOREM DistributionWithinSupply ==
    ASSUME NEW total_supply \in U128, NEW d \in 0..INITIAL_DEMURRAGE
    PROVE  get_distribution(total_supply, d) \in 0..total_supply \cup {Panic}
<1> DEFINE R == RESOLUTION_FACTOR
           weight == d * DEMURRAGE_SCALE
           product == total_supply \otimes (R - weight)
<1>1. /\ total_supply \in Nat /\ d \in Nat /\ d # Panic /\ total_supply # Panic
      /\ MAX_U128 \in Nat
      /\ DEMURRAGE_SCALE \in Nat \ {0} /\ DEMURRAGE_SCALE # Panic
      /\ R \in Nat \ {0} /\ R # Panic /\ R <= MAX_U128
  BY ResolutionAssumption DEF U128, Panic, RESOLUTION_FACTOR
<1>2. weight \in Nat /\ weight <= R
  <2>1. d * DEMURRAGE_SCALE <= INITIAL_DEMURRAGE * DEMURRAGE_SCALE
    BY ResolutionAssumption
  <2>2. QED
    BY <1>1, <2>1, ResolutionAssumption
<1>3. d \otimes DEMURRAGE_SCALE = weight
  BY <1>1, <1>2 DEF \otimes, Checked, U128
<1>4. R \ominus weight = R - weight /\ R - weight \in Nat /\ R - weight <= R
  BY <1>1, <1>2 DEF \ominus, Checked, U128, Panic
<1>5. get_distribution(total_supply, d) = product \oslash R
  BY <1>3, <1>4 DEF get_distribution
<1>6. product \in {total_supply * (R - weight), Panic}
  <2>1. R - weight # Panic
    BY <1>4 DEF Panic
  <2>2. QED
    BY <1>1, <2>1 DEF \otimes, Checked
<1>7. ((R - weight) * total_supply) \div R \in 0..total_supply
  <2> DEFINE w == R - weight
  <2>1. w \in Nat /\ w <= R
    BY <1>4
  <2> HIDE DEF w, R
  <2>2. (w * total_supply) \div R \in 0..total_supply
    BY <1>1, <2>1, QuotientBelow
  <2>3. QED
    BY <2>2 DEF w
<1>8. total_supply * (R - weight) = (R - weight) * total_supply
  BY <1>1, <1>4
<1> HIDE DEF R, weight
<1>9. product \oslash R \in {((R - weight) * total_supply) \div R, Panic}
  BY <1>1, <1>6, <1>8 DEF \oslash
<1>10. QED
  BY <1>5, <1>7, <1>9

-----------------------------------------------------------------------------
(* The invariant.                                                          *)

\* No time stored in the state is later than the executing block's.
ClockIsPast ==
    /\ state.start_timestamp <= block.time
    /\ state.demurrage_timestamp <= block.time

\* The inductive invariant.  The typing of the balances needs the demurrage
\* amount to stay within its initial value, and counting the minutes since a
\* stored time needs that time to be past.
Inv ==
    /\ TypeOK
    /\ SupplyWithinCap
    /\ DemurrageAmountPositive
    /\ CountedPeriodsHaveBegun
    /\ ClockIsPast

-----------------------------------------------------------------------------
(* The demurrage bookkeeping.                                              *)

\* The minutes since a past time are a natural number.
LEMMA MinutesType ==
    ASSUME NEW now \in Nat, NEW last \in Nat, last <= now
    PROVE  (now - last) \div 60 \in Nat
  OBVIOUS

\* Applying the demurrage replaces the demurrage amount by one no larger.
LEMMA DemurrageAmountType ==
    ASSUME TypeOK, ClockIsPast
    PROVE  /\ DemurrageAmount \in 0..state.demurrage_amount \cup {Panic}
           /\ apply_demurrage = [state EXCEPT !.demurrage_amount = DemurrageAmount]
<1> DEFINE minutes == get_minutes_delta(block.time, state.demurrage_timestamp)
           d == state.demurrage_amount
           decayed == IF minutes = 0 THEN d ELSE decay_by(d, state.tax_level, minutes)
<1>1. minutes \in Nat
  BY MinutesType DEF TypeOK, State, ClockIsPast, get_minutes_delta
<1>2. d \in U128 /\ state.tax_level \in U128 /\ d \in 0..d
  BY ResolutionAssumption DEF TypeOK, State, TokenInfo, U128
<1>3. decayed \in 0..d \cup {Panic}
  BY <1>1, <1>2, DecayLowers
<1>4. apply_demurrage = [state EXCEPT !.demurrage_amount = decayed]
  BY DEF apply_demurrage
<1>5. DemurrageAmount = decayed
  BY <1>4 DEF DemurrageAmount, TypeOK, State, TokenInfo
<1> HIDE DEF decayed
<1>6. QED
  BY <1>3, <1>4, <1>5

\* A distribution that does not overflow the sink leaves proper balances.
LEMMA RedistributedType ==
    ASSUME TypeOK, NEW supply, Panic \notin Range(Redistributed(supply)),
           get_distribution(supply, DemurrageAmount) \in Result
    PROVE  /\ Redistributed(supply) \in [Addr -> U128]
           /\ \A a \in Addr : Redistributed(supply)[a] >= BALANCES[a]
<1> DEFINE dist == get_distribution(supply, DemurrageAmount)
           sink == state.sink_address
           balances == Redistributed(supply)
<1>1. CASE sink \notin Addr
  <2>1. balances = BALANCES
    BY <1>1 DEF Redistributed, apply_default_redistribution
  <2>2. QED
    BY <2>1, ResolutionAssumption DEF TypeOK, State, TokenInfo, U128
<1>2. CASE sink \in Addr
  <2>1. balances = [BALANCES EXCEPT ![sink] = BALANCES[sink] \oplus dist]
    BY <1>2 DEF Redistributed, apply_default_redistribution
  <2>2. BALANCES[sink] \in U128
    BY <1>2 DEF TypeOK, State, TokenInfo
  <2>3. BALANCES[sink] \oplus dist \in Result
    BY <2>2, CheckedType DEF Result
  <2>4. DOMAIN balances = Addr /\ balances[sink] = BALANCES[sink] \oplus dist
    BY <1>2, <2>1 DEF TypeOK, State, TokenInfo
  <2>5. BALANCES[sink] \oplus dist # Panic
    BY <1>2, <2>4 DEF Range
  <2>6. BALANCES[sink] \oplus dist \in U128
    BY <2>3, <2>5 DEF Result
  <2>7. BALANCES[sink] \oplus dist >= BALANCES[sink]
    <3>1. dist # Panic /\ BALANCES[sink] \oplus dist = BALANCES[sink] + dist
      BY <2>5 DEF \oplus, Checked
    <3>2. dist \in Nat
      BY <3>1, ResolutionAssumption DEF Result, U128
    <3>3. QED
      BY <2>2, <3>1, <3>2, ResolutionAssumption DEF U128
  <2>8. QED
    BY <1>2, <2>1, <2>6, <2>7, ResolutionAssumption DEF TypeOK, State, TokenInfo, U128
<1>3. QED
  BY <1>1, <1>2

\* What a change of period does when it does not panic.
LEMMA ChangePeriodEffect ==
    ASSUME Inv, NEW supply \in U128, change_period(supply)
    PROVE  /\ DemurrageAmount \in 0..state.demurrage_amount
           /\ state' = [state EXCEPT !.demurrage_amount = DemurrageAmount,
                                     !.current_period = state.current_period + 1]
           /\ get_period_time_delta <= block.time
           /\ Redistributed(supply) \in [Addr -> U128]
           /\ \A a \in Addr : Redistributed(supply)[a] >= BALANCES[a]
<1>1. DemurrageAmount \in 0..state.demurrage_amount
  BY DemurrageAmountType DEF Inv, change_period
<1>2. state' = [state EXCEPT !.demurrage_amount = DemurrageAmount,
                             !.current_period = state.current_period + 1]
  BY DemurrageAmountType DEF Inv, TypeOK, State, change_period, PeriodState
<1>3. DemurrageAmount \in 0..INITIAL_DEMURRAGE
  BY <1>1, ResolutionAssumption DEF Inv, DemurrageAmountPositive
<1>4. get_distribution(supply, DemurrageAmount) \in Result
  <2>1. get_distribution(supply, DemurrageAmount) \in 0..supply \cup {Panic}
    BY <1>3, DistributionWithinSupply
  <2>2. QED
    BY <2>1, ResolutionAssumption DEF Result, U128
<1>5. QED
  BY <1>1, <1>2, <1>4, RedistributedType DEF change_period, PeriodHasBegun, Inv

\* A message that changes the period and converts an amount leaves a typed state
\* whose demurrage amount is positive and whose counted periods have begun.
LEMMA PaymentState ==
    ASSUME Inv, NEW supply \in U128, change_period(supply),
           NEW amount \in U128, BaseValue(amount) # Panic, UNCHANGED block
    PROVE  /\ state' \in State
           /\ DemurrageAmountPositive'
           /\ CountedPeriodsHaveBegun'
           /\ ClockIsPast'
           /\ BaseValue(amount) \in U128
<1> DEFINE d == DemurrageAmount
           n == state.current_period
<1>1. /\ d \in 0..state.demurrage_amount
      /\ state' = [state EXCEPT !.demurrage_amount = d, !.current_period = n + 1]
      /\ get_period_time_delta <= block.time
  BY ChangePeriodEffect
<1>2. d \in 0..INITIAL_DEMURRAGE
  BY <1>1, ResolutionAssumption DEF Inv, DemurrageAmountPositive
<1>3. BaseValue(amount) \in Result /\ d > 0
  BY <1>2, BaseAmountCoversValue DEF BaseValue
<1> HIDE DEF d
<1>4. d \in U128
  BY <1>1, ResolutionAssumption DEF Inv, TypeOK, State, TokenInfo, U128
<1>5. state' \in State
  <2>1. state \in State /\ n + 1 \in Nat
    BY DEF Inv, TypeOK, State
  <2>2. QED
    BY <1>1, <1>4, <2>1 DEF State
<1>6. DemurrageAmountPositive'
  <2>1. state'.demurrage_amount = d
    BY <1>1 DEF Inv, TypeOK, State, TokenInfo
  <2>2. d \in 1..INITIAL_DEMURRAGE
    BY <1>2, <1>3, ResolutionAssumption
  <2>3. QED
    BY <2>1, <2>2 DEF DemurrageAmountPositive
<1>7. CountedPeriodsHaveBegun'
  <2>1. /\ state'.start_timestamp = state.start_timestamp
        /\ state'.period_minute = state.period_minute
        /\ state'.current_period - 1 = n
    BY <1>1 DEF Inv, TypeOK, State, TokenInfo
  <2>2. block' = block
    OBVIOUS
  <2>3. QED
    BY <1>1, <2>1, <2>2 DEF CountedPeriodsHaveBegun, get_period_time_delta
<1>8. ClockIsPast'
  BY <1>1 DEF Inv, TypeOK, State, ClockIsPast
<1>9. QED
  BY <1>3, <1>5, <1>6, <1>7, <1>8 DEF Result

\* Moving an amount between proper balances leaves proper balances.
LEMMA MoveType ==
    ASSUME NEW balances \in [Addr -> U128], NEW owner \in Addr, NEW rcpt \in Addr,
           NEW paid \in U128, NEW received \in Result,
           Move(balances, owner, rcpt, paid, received)
    PROVE  BALANCES' \in [Addr -> U128]
<1> DEFINE debited == Debit(balances, owner, paid)
<1>1. debited \in [Addr -> U128]
  <2>1. balances[owner] \in Nat /\ paid \in Nat /\ balances[owner] - paid \in U128
    BY ResolutionAssumption DEF Move, U128
  <2>2. QED
    BY <2>1 DEF Debit
<1>2. BALANCES' = [debited EXCEPT ![rcpt] = debited[rcpt] \oplus received]
  BY DEF Move, Credit
<1> HIDE DEF debited
<1>3. debited[rcpt] \oplus received \in Result
  BY <1>1, CheckedType DEF Result
<1>4. debited[rcpt] \oplus received # Panic
  BY <1>1, <1>2 DEF Move
<1>5. QED
  BY <1>1, <1>2, <1>3, <1>4 DEF Result

\* So does destroying an amount, and the supply shrinks with it.
LEMMA DestroyType ==
    ASSUME TypeOK, NEW owner \in Addr, NEW amount \in U128, Destroy(owner, amount)
    PROVE  /\ BALANCES' \in [Addr -> U128]
           /\ TOKEN_INFO' \in TokenInfo
           /\ TOKEN_INFO'.total_supply <= TOKEN_INFO.total_supply
           /\ TOKEN_INFO'.mint = TOKEN_INFO.mint
<1>1. amount \in Nat /\ BALANCES[owner] - amount \in U128
      /\ TOKEN_INFO.total_supply - amount \in U128
      /\ TOKEN_INFO.total_supply - amount <= TOKEN_INFO.total_supply
  BY ResolutionAssumption DEF TypeOK, TokenInfo, Destroy, U128
<1>2. QED
  BY <1>1 DEF TypeOK, TokenInfo, Destroy, Debit

\* Deducting from an allowance leaves proper allowances.
LEMMA DeductType ==
    ASSUME TypeOK, NEW owner \in Addr, NEW spender \in Addr, NEW amount \in U128,
           deduct_allowance(owner, spender, amount)
    PROVE  ALLOWANCES' \in [Addr -> [Addr -> AllowanceResponse \cup {None}]]
<1> DEFINE grant == ALLOWANCES[owner][spender]
<1>1. grant \in AllowanceResponse /\ grant.allowance >= amount
  BY DEF TypeOK, deduct_allowance
<1>2. grant.allowance - amount \in U128
  BY <1>1, ResolutionAssumption DEF AllowanceResponse, U128
<1>3. [grant EXCEPT !.allowance = grant.allowance - amount] \in AllowanceResponse
  BY <1>1, <1>2 DEF AllowanceResponse
<1>4. ALLOWANCES' = [ALLOWANCES EXCEPT ![owner][spender] =
                       [grant EXCEPT !.allowance = grant.allowance - amount]]
  BY DEF TypeOK, deduct_allowance
<1> HIDE DEF grant
<1>5. QED
  BY <1>3, <1>4 DEF TypeOK, State, TokenInfo

-----------------------------------------------------------------------------
(* The invariant holds initially and is kept by every message and block.   *)

\* What instantiate stores satisfies the invariant.
LEMMA InitInv == Init => Inv
<1>1. SUFFICES ASSUME NEW msg \in InstantiateMsgs, instantiate(msg)
               PROVE  Inv
  BY DEF Init
<1> DEFINE rows == msg.initial_balances
<1>2. msg \in InstantiateMsg
  BY ContractAssumption
<1>3. rows \in Seq(Cw20Coin)
  BY <1>2 DEF InstantiateMsg
<1>4. TOKEN_INFO \in TokenInfo /\ SupplyWithinCap
  <2>1. TOKEN_INFO.total_supply \in U128 /\ TOKEN_INFO.mint = msg.mint
        /\ TOKEN_INFO = [total_supply |-> TOKEN_INFO.total_supply, mint |-> msg.mint]
    BY <1>1 DEF instantiate
  <2>2. CASE msg.mint = None
    BY <2>1, <2>2 DEF TokenInfo, SupplyWithinCap
  <2>3. CASE msg.mint # None
    <3>1. msg.mint \in [minter : Names, cap : U128 \cup {None}]
      BY <1>2, <2>3 DEF InstantiateMsg
    <3>2. msg.mint.minter \in Addr
          /\ (msg.mint.cap # None => TOKEN_INFO.total_supply <= msg.mint.cap)
      BY <1>1, <2>3, <2>1 DEF instantiate
    <3>3. msg.mint \in MinterData
      BY <3>1, <3>2 DEF MinterData
    <3>4. QED
      BY <2>1, <3>2, <3>3 DEF TokenInfo, SupplyWithinCap
  <2>4. QED
    BY <2>2, <2>3
<1>5. BALANCES \in [Addr -> U128]
  <2>1. \A i \in DOMAIN rows : rows[i].amount \in U128
    <3>1. DOMAIN rows = 1..Len(rows)
      BY <1>3
    <3>2. \A i \in 1..Len(rows) : rows[i] \in Cw20Coin
      BY <1>3
    <3>3. QED
      BY <3>1, <3>2 DEF Cw20Coin
  <2>2. ASSUME NEW a \in Addr, \E i \in DOMAIN rows : rows[i].address = a
        PROVE  rows[CHOOSE i \in DOMAIN rows : rows[i].address = a].amount \in U128
    BY <2>1, <2>2
  <2> HIDE DEF rows
  <2>3. 0 \in U128
    BY ResolutionAssumption DEF U128
  <2>4. create_accounts(rows) \in [Addr -> U128]
    BY <2>2, <2>3 DEF create_accounts
  <2>5. QED
    BY <1>1, <2>4 DEF instantiate, rows
<1>6. ALLOWANCES \in [Addr -> [Addr -> AllowanceResponse \cup {None}]]
  BY <1>1 DEF instantiate
<1>7. block \in [height : Nat, time : Nat]
  BY <1>1 DEF instantiate
<1>8. state \in State
  <2>1. msg.sink_address \in Names /\ msg.tax_level_minute \in U128
        /\ msg.period_minutes * 60 \in Nat
    BY <1>2 DEF InstantiateMsg
  <2>2. INITIAL_DEMURRAGE \in U128
    BY ResolutionAssumption DEF U128
  <2>3. QED
    BY <1>1, <2>1, <2>2 DEF instantiate, State
<1>9. DemurrageAmountPositive /\ CountedPeriodsHaveBegun /\ ClockIsPast
  BY <1>1, ResolutionAssumption
     DEF instantiate, DemurrageAmountPositive, CountedPeriodsHaveBegun, ClockIsPast
<1>10. QED
  BY <1>4, <1>5, <1>6, <1>7, <1>8, <1>9 DEF Inv, TypeOK

\* A transfer keeps the invariant.
LEMMA TransferInv ==
    ASSUME Inv, NEW sender \in Addr, NEW recipient \in Names, NEW amount \in U128,
           Transfer(sender, recipient, amount)
    PROVE  Inv'
<1> DEFINE supply == TOKEN_INFO.total_supply
           base == BaseValue(amount)
<1>1. /\ change_period(supply) /\ recipient \in Addr
      /\ Move(Redistributed(supply), sender, recipient, amount, base)
      /\ TOKEN_INFO' = TOKEN_INFO /\ ALLOWANCES' = ALLOWANCES /\ block' = block
      /\ supply \in U128 /\ base # Panic
  BY DEF Transfer, Move, Inv, TypeOK, TokenInfo
<1> HIDE DEF supply, base
<1>2. /\ state' \in State /\ base \in U128
      /\ DemurrageAmountPositive' /\ CountedPeriodsHaveBegun' /\ ClockIsPast'
  BY <1>1, PaymentState DEF base
<1>3. Redistributed(supply) \in [Addr -> U128]
  BY <1>1, ChangePeriodEffect
<1>4. BALANCES' \in [Addr -> U128]
  BY <1>1, <1>2, <1>3, MoveType DEF Result
<1>5. QED
  BY <1>1, <1>2, <1>4 DEF Inv, TypeOK, SupplyWithinCap

\* A transfer on an allowance keeps the invariant.
LEMMA TransferFromInv ==
    ASSUME Inv, NEW sender \in Addr, NEW owner \in Names, NEW recipient \in Names,
           NEW amount \in U128, TransferFrom(sender, owner, recipient, amount)
    PROVE  Inv'
<1> DEFINE supply == TOKEN_INFO.total_supply
           base == BaseValue(amount)
<1>1. /\ change_period(supply) /\ owner \in Addr /\ recipient \in Addr
      /\ deduct_allowance(owner, sender, amount)
      /\ Move(Redistributed(supply), owner, recipient, amount, base)
      /\ TOKEN_INFO' = TOKEN_INFO /\ block' = block
      /\ supply \in U128 /\ base # Panic
  BY DEF TransferFrom, Move, Inv, TypeOK, TokenInfo
<1> HIDE DEF supply, base
<1>2. /\ state' \in State /\ base \in U128
      /\ DemurrageAmountPositive' /\ CountedPeriodsHaveBegun' /\ ClockIsPast'
  BY <1>1, PaymentState DEF base
<1>3. Redistributed(supply) \in [Addr -> U128]
  BY <1>1, ChangePeriodEffect
<1>4. BALANCES' \in [Addr -> U128]
  BY <1>1, <1>2, <1>3, MoveType DEF Result
<1>5. ALLOWANCES' \in [Addr -> [Addr -> AllowanceResponse \cup {None}]]
  BY <1>1, DeductType DEF Inv
<1>6. QED
  BY <1>1, <1>2, <1>4, <1>5 DEF Inv, TypeOK, SupplyWithinCap

\* A mint keeps the invariant: the new supply is within the cap.
LEMMA MintInv ==
    ASSUME Inv, NEW sender \in Addr, NEW recipient \in Names, NEW amount \in U128,
           Mint(sender, recipient, amount)
    PROVE  Inv'
<1> DEFINE supply == TOKEN_INFO.total_supply \oplus amount
           base == BaseValue(amount)
           balances == Redistributed(supply)
<1>1. /\ change_period(supply) /\ recipient \in Addr /\ supply # Panic /\ base # Panic
      /\ TOKEN_INFO.mint.cap # None => supply <= TOKEN_INFO.mint.cap
      /\ TOKEN_INFO' = [TOKEN_INFO EXCEPT !.total_supply = supply]
      /\ BALANCES' = Credit(balances, recipient, base)
      /\ BALANCES'[recipient] # Panic
      /\ ALLOWANCES' = ALLOWANCES /\ block' = block
  BY DEF Mint, WithinLimit
<1>2. supply \in U128
  <2>1. supply \in Result
    BY CheckedType DEF Inv, TypeOK, TokenInfo, Result
  <2>2. QED
    BY <1>1, <2>1 DEF Result
<1> HIDE DEF supply, base, balances
<1>3. /\ state' \in State /\ base \in U128
      /\ DemurrageAmountPositive' /\ CountedPeriodsHaveBegun' /\ ClockIsPast'
  BY <1>1, <1>2, PaymentState DEF base
<1>4. balances \in [Addr -> U128]
  BY <1>1, <1>2, ChangePeriodEffect DEF balances
<1>5. BALANCES' \in [Addr -> U128]
  <2>1. BALANCES' = [balances EXCEPT ![recipient] = balances[recipient] \oplus base]
    BY <1>1 DEF Credit
  <2>2. balances[recipient] \oplus base \in Result
    BY <1>1, <1>3, <1>4, CheckedType DEF Result
  <2>3. balances[recipient] \oplus base # Panic
    BY <1>1, <1>4, <2>1
  <2>4. QED
    BY <1>4, <2>1, <2>2, <2>3 DEF Result
<1>6. TOKEN_INFO' \in TokenInfo /\ SupplyWithinCap'
  BY <1>1, <1>2 DEF Inv, TypeOK, TokenInfo, SupplyWithinCap
<1>7. QED
  BY <1>1, <1>3, <1>5, <1>6 DEF Inv, TypeOK

\* Sending, on an allowance or not, keeps the invariant.
LEMMA SendInv ==
    ASSUME Inv, NEW sender \in Addr, NEW contract \in Names, NEW amount \in U128,
           Send(sender, contract, amount)
    PROVE  Inv'
<1>1. BALANCES' \in [Addr -> U128]
  BY MoveType DEF Send, Inv, TypeOK, Result
<1>2. QED
  BY <1>1 DEF Send, Inv, TypeOK, SupplyWithinCap, DemurrageAmountPositive,
              CountedPeriodsHaveBegun, ClockIsPast

\* So does sending on an allowance.
LEMMA SendFromInv ==
    ASSUME Inv, NEW sender \in Addr, NEW owner \in Names, NEW contract \in Names,
           NEW amount \in U128, SendFrom(sender, owner, contract, amount)
    PROVE  Inv'
<1>1. BALANCES' \in [Addr -> U128]
  BY MoveType DEF SendFrom, Inv, TypeOK, Result
<1>2. ALLOWANCES' \in [Addr -> [Addr -> AllowanceResponse \cup {None}]]
  BY DeductType DEF SendFrom, Inv
<1>3. QED
  BY <1>1, <1>2 DEF SendFrom, Inv, TypeOK, SupplyWithinCap, DemurrageAmountPositive,
                    CountedPeriodsHaveBegun, ClockIsPast

\* Burning, on an allowance or not, keeps the invariant: the supply shrinks.
LEMMA DestroyKeepsCap ==
    ASSUME TypeOK, SupplyWithinCap, NEW owner \in Addr, NEW amount \in U128,
           Destroy(owner, amount)
    PROVE  SupplyWithinCap'
<1>1. /\ TOKEN_INFO' \in TokenInfo
      /\ TOKEN_INFO'.total_supply <= TOKEN_INFO.total_supply
      /\ TOKEN_INFO'.mint = TOKEN_INFO.mint
  BY DestroyType
<1>2. TOKEN_INFO.total_supply \in Nat /\ TOKEN_INFO'.total_supply \in Nat
  BY <1>1, ResolutionAssumption DEF TypeOK, TokenInfo, U128
<1>3. ASSUME TOKEN_INFO.mint # None, TOKEN_INFO.mint.cap # None
      PROVE  TOKEN_INFO.mint.cap \in Nat
  BY <1>3, ResolutionAssumption DEF TypeOK, TokenInfo, MinterData, U128
<1>4. QED
  BY <1>1, <1>2, <1>3 DEF SupplyWithinCap

\* So a burn keeps the invariant.
LEMMA BurnInv ==
    ASSUME Inv, NEW sender \in Addr, NEW amount \in U128, Burn(sender, amount)
    PROVE  Inv'
<1>1. BALANCES' \in [Addr -> U128] /\ TOKEN_INFO' \in TokenInfo /\ SupplyWithinCap'
  BY DestroyType, DestroyKeepsCap DEF Burn, Inv
<1>2. QED
  BY <1>1 DEF Burn, Inv, TypeOK, DemurrageAmountPositive, CountedPeriodsHaveBegun,
              ClockIsPast

\* And so does a burn on an allowance.
LEMMA BurnFromInv ==
    ASSUME Inv, NEW sender \in Addr, NEW owner \in Names, NEW amount \in U128,
           BurnFrom(sender, owner, amount)
    PROVE  Inv'
<1>1. BALANCES' \in [Addr -> U128] /\ TOKEN_INFO' \in TokenInfo /\ SupplyWithinCap'
  BY DestroyType, DestroyKeepsCap DEF BurnFrom, Inv
<1>2. ALLOWANCES' \in [Addr -> [Addr -> AllowanceResponse \cup {None}]]
  BY DeductType DEF BurnFrom, Inv
<1>3. QED
  BY <1>1, <1>2 DEF BurnFrom, Inv, TypeOK, DemurrageAmountPositive,
                    CountedPeriodsHaveBegun, ClockIsPast

\* The mint rights change hands with their cap.
LEMMA UpdateMinterInv ==
    ASSUME Inv, NEW sender \in Addr, NEW new_minter \in Names,
           UpdateMinter(sender, new_minter)
    PROVE  Inv'
<1>1. TOKEN_INFO.mint \in MinterData /\ new_minter \in Addr
  BY DEF UpdateMinter, IsMinter, Inv, TypeOK, TokenInfo
<1>2. TOKEN_INFO' = [TOKEN_INFO EXCEPT
                       !.mint = [TOKEN_INFO.mint EXCEPT !.minter = new_minter]]
  BY DEF UpdateMinter, Inv, TypeOK, TokenInfo
<1>3. /\ [TOKEN_INFO.mint EXCEPT !.minter = new_minter] \in MinterData
      /\ [TOKEN_INFO.mint EXCEPT !.minter = new_minter].cap = TOKEN_INFO.mint.cap
  BY <1>1 DEF MinterData
<1>4. TOKEN_INFO' \in TokenInfo /\ SupplyWithinCap'
  <2>1. TOKEN_INFO.mint # None
    BY <1>1, ContractAssumption
  <2>2. QED
    BY <1>2, <1>3, <2>1 DEF Inv, TypeOK, TokenInfo, SupplyWithinCap
<1>5. QED
  BY <1>4 DEF UpdateMinter, Inv, TypeOK, DemurrageAmountPositive,
              CountedPeriodsHaveBegun, ClockIsPast

\* Setting a member of an allowance keeps it an allowance.
LEMMA GrantType ==
    ASSUME NEW grant \in AllowanceResponse, NEW amount \in U128,
           NEW expires \in Expirations \cup {None}
    PROVE  [WithExpires(grant, expires) EXCEPT !.allowance = amount] \in AllowanceResponse
BY DEF WithExpires, AllowanceResponse

\* Raising an allowance keeps the invariant: a sum that overflows is refused.
LEMMA IncreaseAllowanceInv ==
    ASSUME Inv, NEW sender \in Addr, NEW spender \in Names, NEW amount \in U128,
           NEW expires \in Expirations \cup {None},
           IncreaseAllowance(sender, spender, amount, expires)
    PROVE  Inv'
<1> DEFINE base == to_base_amount(amount, state.demurrage_amount)
           grant == GrantOf(sender, spender)
           raised == grant.allowance \oplus (amount \oplus base)
<1>1. /\ spender \in Addr /\ raised # Panic
      /\ ALLOWANCES' = [ALLOWANCES EXCEPT ![sender][spender] =
           [WithExpires(grant, expires) EXCEPT !.allowance = raised]]
  BY DEF IncreaseAllowance
<1>2. grant \in AllowanceResponse
  <2>1. 0 \in U128 /\ Never \in Expirations
    BY ResolutionAssumption DEF U128, Never, Expirations
  <2>2. QED
    BY <1>1, <2>1 DEF GrantOf, Inv, TypeOK, AllowanceResponse
<1>3. base \in Result
  <2>1. state.demurrage_amount \in 0..INITIAL_DEMURRAGE
    BY ResolutionAssumption DEF Inv, DemurrageAmountPositive
  <2>2. QED
    BY <2>1, BaseAmountCoversValue
<1> HIDE DEF base, grant
<1>4. raised \in U128
  <2>1. amount \oplus base \in Result
    BY <1>3, CheckedType DEF Result
  <2>2. grant.allowance \in Result
    BY <1>2 DEF AllowanceResponse, Result
  <2>3. raised \in Result
    BY <2>1, <2>2, CheckedType
  <2>4. QED
    BY <1>1, <2>3 DEF Result
<1> HIDE DEF raised
<1>5. [WithExpires(grant, expires) EXCEPT !.allowance = raised] \in AllowanceResponse
  BY <1>2, <1>4, GrantType
<1>6. ALLOWANCES' \in [Addr -> [Addr -> AllowanceResponse \cup {None}]]
  BY <1>1, <1>5 DEF Inv, TypeOK
<1>7. QED
  BY <1>6 DEF IncreaseAllowance, Inv, TypeOK, SupplyWithinCap,
              DemurrageAmountPositive, CountedPeriodsHaveBegun, ClockIsPast

\* Lowering an allowance keeps it: what would fall below one is removed.
LEMMA DecreaseAllowanceInv ==
    ASSUME Inv, NEW sender \in Addr, NEW spender \in Names, NEW amount \in U128,
           NEW expires \in Expirations \cup {None},
           DecreaseAllowance(sender, spender, amount, expires)
    PROVE  Inv'
<1> DEFINE grant == ALLOWANCES[sender][spender]
           left == IF amount < grant.allowance
                   THEN [WithExpires(grant, expires) EXCEPT
                           !.allowance = grant.allowance - amount]
                   ELSE None
<1>1. spender \in Addr /\ ALLOWANCES' = [ALLOWANCES EXCEPT ![sender][spender] = left]
  BY DEF DecreaseAllowance
<1>2. grant \in AllowanceResponse
  BY <1>1 DEF DecreaseAllowance, Inv, TypeOK
<1> HIDE DEF grant
<1>3. left \in AllowanceResponse \cup {None}
  <2>1. CASE amount < grant.allowance
    <3>1. grant.allowance - amount \in U128
      BY <1>2, <2>1, ResolutionAssumption DEF AllowanceResponse, U128
    <3>2. QED
      BY <1>2, <2>1, <3>1, GrantType
  <2>2. QED
    BY <2>1
<1> HIDE DEF left
<1>4. ALLOWANCES' \in [Addr -> [Addr -> AllowanceResponse \cup {None}]]
  BY <1>1, <1>3 DEF Inv, TypeOK
<1>5. QED
  BY <1>4 DEF DecreaseAllowance, Inv, TypeOK, SupplyWithinCap,
              DemurrageAmountPositive, CountedPeriodsHaveBegun, ClockIsPast

\* Setting the demurrage parameters and going on to the next block keep it.
LEMMA ParametersInv ==
    ASSUME Inv,
           \/ \E level \in TaxLevels : ChangeTaxLevel(level)
           \/ \E name \in SinkNames : ChangeSinkAddress(name)
    PROVE  Inv'
<1>1. state' \in State
  BY ContractAssumption DEF Inv, TypeOK, State, ChangeTaxLevel, ChangeSinkAddress
<1>2. /\ state'.demurrage_amount = state.demurrage_amount
      /\ state'.demurrage_timestamp = state.demurrage_timestamp
      /\ state'.start_timestamp = state.start_timestamp
      /\ state'.current_period = state.current_period
      /\ state'.period_minute = state.period_minute
  BY DEF Inv, TypeOK, State, ChangeTaxLevel, ChangeSinkAddress
<1>3. UNCHANGED <<TOKEN_INFO, BALANCES, ALLOWANCES, block>>
  BY DEF ChangeTaxLevel, ChangeSinkAddress
<1>4. QED
  BY <1>1, <1>2, <1>3 DEF Inv, TypeOK, SupplyWithinCap, DemurrageAmountPositive,
                          CountedPeriodsHaveBegun, ClockIsPast

\* The clock only goes forward, so times of the past stay in the past.
LEMMA NextBlockInv == ASSUME Inv, NextBlock PROVE Inv'
<1>1. PICK seconds \in TimeSteps :
        block' = [height |-> block.height + 1, time |-> block.time + seconds]
  BY DEF NextBlock
<1>2. /\ block' \in [height : Nat, time : Nat]
      /\ block'.time >= block.time /\ block.time \in Nat /\ block'.time \in Nat
  BY <1>1, ContractAssumption DEF Inv, TypeOK
<1>3. UNCHANGED <<TOKEN_INFO, BALANCES, ALLOWANCES, state>>
  BY DEF NextBlock
<1>4. ClockIsPast'
  BY <1>2, <1>3 DEF Inv, TypeOK, State, ClockIsPast
<1>5. CountedPeriodsHaveBegun'
  <2> DEFINE last == state.start_timestamp + (state.current_period - 1) * state.period_minute
  <2>1. state.current_period > 0 => last <= block.time
    BY DEF Inv, CountedPeriodsHaveBegun
  <2>2. last \in Int
    <3>1. state.current_period - 1 \in Int /\ state.period_minute \in Int
          /\ state.start_timestamp \in Int
      BY DEF Inv, TypeOK, State
    <3>2. QED
      BY <3>1
  <2> HIDE DEF last
  <2>3. state.current_period > 0 => last <= block'.time
    BY <1>2, <2>1, <2>2
  <2>4. QED
    BY <1>3, <2>3 DEF CountedPeriodsHaveBegun, last
<1>6. QED
  BY <1>2, <1>3, <1>4, <1>5 DEF Inv, TypeOK, SupplyWithinCap, DemurrageAmountPositive

\* Every message keeps the invariant.
LEMMA ExecuteInv == ASSUME Inv, NEW sender \in Addr, Execute(sender) PROVE Inv'
<1>1. CASE \E amount \in Amounts :
             \/ Burn(sender, amount)
             \/ \E name \in Names :
                  \/ Transfer(sender, name, amount)
                  \/ Send(sender, name, amount)
                  \/ Mint(sender, name, amount)
                  \/ BurnFrom(sender, name, amount)
                  \/ \E expires \in ExpiresOptions :
                       \/ IncreaseAllowance(sender, name, amount, expires)
                       \/ DecreaseAllowance(sender, name, amount, expires)
                  \/ \E other \in Names :
                       \/ TransferFrom(sender, name, other, amount)
                       \/ SendFrom(sender, name, other, amount)
  <2>1. Amounts \subseteq U128 /\ ExpiresOptions \subseteq Expirations \cup {None}
    BY ContractAssumption
  <2>2. QED
    BY <1>1, <2>1, BurnInv, TransferInv, SendInv, MintInv, BurnFromInv,
       IncreaseAllowanceInv, DecreaseAllowanceInv, TransferFromInv, SendFromInv
<1>2. CASE \E name \in Names : UpdateMinter(sender, name)
  BY <1>2, UpdateMinterInv
<1>3. CASE \/ \E level \in TaxLevels : ChangeTaxLevel(level)
           \/ \E name \in SinkNames : ChangeSinkAddress(name)
  BY <1>3, ParametersInv
<1>4. QED
  BY <1>1, <1>2, <1>3 DEF Execute

\* Every step of the specification keeps the invariant.
LEMMA StepInv == Inv /\ [Next]_vars => Inv'
<1>1. ASSUME Inv, UNCHANGED vars
      PROVE  Inv'
  BY <1>1 DEF vars, Inv, TypeOK, SupplyWithinCap, DemurrageAmountPositive,
              CountedPeriodsHaveBegun, ClockIsPast
<1>2. QED
  BY <1>1, NextBlockInv, ExecuteInv DEF Next

\* Every reachable state of the contract satisfies the inductive invariant.
THEOREM Invariance == Spec => []Inv
  BY InitInv, StepInv, PTL DEF Spec

-----------------------------------------------------------------------------
(* The state invariants.                                                   *)

\* The storage stays typed: no message leaves an item out of its range, however
\* narrow the integers are.
THEOREM TypeCorrect == Spec => []TypeOK
<1>1. Inv => TypeOK
  BY DEF Inv
<1>2. QED
  BY <1>1, Invariance, PTL

\* Minting, burning and handing over the rights never take the supply over the cap.
THEOREM CapHolds == Spec => []SupplyWithinCap
<1>1. Inv => SupplyWithinCap
  BY DEF Inv
<1>2. QED
  BY <1>1, Invariance, PTL

\* No payment stores a demurrage amount of zero or one above the initial value.
THEOREM DemurrageStaysPositive == Spec => []DemurrageAmountPositive
<1>1. Inv => DemurrageAmountPositive
  BY DEF Inv
<1>2. QED
  BY <1>1, Invariance, PTL

\* The count of periods stays behind the clock, however many payments a block has.
THEOREM PeriodsHaveBegun == Spec => []CountedPeriodsHaveBegun
<1>1. Inv => CountedPeriodsHaveBegun
  BY DEF Inv
<1>2. QED
  BY <1>1, Invariance, PTL

-----------------------------------------------------------------------------
(* What a step may never do.                                               *)

\* A message of the contract either does not touch the demurrage amount or
\* replaces it by the one a change of period computes.
LEMMA DemurrageAmountStep ==
    ASSUME Inv, [Next]_vars
    PROVE  state'.demurrage_amount <= state.demurrage_amount
<1>1. state.demurrage_amount \in Nat
  BY ResolutionAssumption DEF Inv, DemurrageAmountPositive
<1>2. ASSUME NEW supply \in U128, change_period(supply)
      PROVE  state'.demurrage_amount <= state.demurrage_amount
  <2>1. /\ DemurrageAmount \in 0..state.demurrage_amount
        /\ state' = [state EXCEPT !.demurrage_amount = DemurrageAmount,
                                  !.current_period = state.current_period + 1]
    BY <1>2, ChangePeriodEffect
  <2>2. state'.demurrage_amount = DemurrageAmount
    BY <2>1 DEF Inv, TypeOK, State
  <2>3. QED
    BY <1>1, <2>1, <2>2
<1>3. CASE state'.demurrage_amount = state.demurrage_amount
  BY <1>1, <1>3
<1>4. CASE \E supply \in U128 : change_period(supply)
  BY <1>2, <1>4
<1>5. \/ state'.demurrage_amount = state.demurrage_amount
      \/ \E supply \in U128 : change_period(supply)
  <2>1. TOKEN_INFO.total_supply \in U128
    BY DEF Inv, TypeOK, TokenInfo
  <2>2. ASSUME NEW sender \in Addr, NEW name \in Names, NEW amount \in Amounts,
               Mint(sender, name, amount)
        PROVE  \E supply \in U128 : change_period(supply)
    <3>1. TOKEN_INFO.total_supply \oplus amount \in U128
      BY <2>1, <2>2, CheckedType, ContractAssumption DEF Mint, Result
    <3>2. QED
      BY <2>2, <3>1 DEF Mint
  <2>3. ASSUME NEW sender \in Addr, Execute(sender)
        PROVE  \/ state'.demurrage_amount = state.demurrage_amount
               \/ \E supply \in U128 : change_period(supply)
    BY <2>1, <2>2, <2>3
       DEF Execute, Burn, Transfer, Send, BurnFrom, IncreaseAllowance,
           DecreaseAllowance, TransferFrom, SendFrom, UpdateMinter,
           ChangeTaxLevel, ChangeSinkAddress, Inv, TypeOK, State
  <2>4. QED
    BY <2>3 DEF Next, NextBlock, vars
<1>6. QED
  BY <1>3, <1>4, <1>5

\* The demurrage amount never rises, whatever tax levels are set in between.
THEOREM DemurrageOnlyDecays == Spec => DemurrageNeverRises
<1>1. Inv /\ [Next]_vars => [state'.demurrage_amount <= state.demurrage_amount]_vars
  BY DemurrageAmountStep
<1>2. QED
  BY <1>1, Invariance, PTL DEF Spec, DemurrageNeverRises

\* A message that is not its minter's leaves the mint rights and issues nothing.
LEMMA IssueStep ==
    ASSUME Inv, NEW sender \in Addr, Execute(sender), ~IsMinter(sender)
    PROVE  /\ TOKEN_INFO'.mint = TOKEN_INFO.mint
           /\ ~(TOKEN_INFO'.total_supply > TOKEN_INFO.total_supply)
<1>1. TOKEN_INFO.total_supply \in Nat
  BY ResolutionAssumption DEF Inv, TypeOK, TokenInfo, U128
<1>2. CASE TOKEN_INFO' = TOKEN_INFO
  BY <1>1, <1>2
<1>3. ASSUME NEW owner \in Addr, NEW amount \in U128, Destroy(owner, amount)
      PROVE  /\ TOKEN_INFO'.mint = TOKEN_INFO.mint
             /\ ~(TOKEN_INFO'.total_supply > TOKEN_INFO.total_supply)
  <2>1. /\ TOKEN_INFO' \in TokenInfo
        /\ TOKEN_INFO'.total_supply <= TOKEN_INFO.total_supply
        /\ TOKEN_INFO'.mint = TOKEN_INFO.mint
    BY <1>3, DestroyType DEF Inv
  <2>2. TOKEN_INFO'.total_supply \in Nat
    BY <2>1, ResolutionAssumption DEF TokenInfo, U128
  <2>3. QED
    BY <1>1, <2>1, <2>2
<1>4. \/ TOKEN_INFO' = TOKEN_INFO
      \/ \E owner \in Addr, amount \in U128 : Destroy(owner, amount)
  BY ContractAssumption
     DEF Execute, Burn, Transfer, Send, BurnFrom, IncreaseAllowance,
         DecreaseAllowance, TransferFrom, SendFrom, UpdateMinter, Mint,
         ChangeTaxLevel, ChangeSinkAddress
<1>5. QED
  BY <1>2, <1>3, <1>4

\* No sequence of messages issues tokens, or takes the mint rights, but the minter's.
THEOREM OnlyTheMinterIssues == Spec => OnlyMinterIssues
<1> DEFINE Authorised ==
      \/ TOKEN_INFO'.mint # TOKEN_INFO.mint
      \/ TOKEN_INFO'.total_supply > TOKEN_INFO.total_supply
      => \A sender \in Addr : Execute(sender) => IsMinter(sender)
<1>1. Inv /\ [Next]_vars => [Authorised]_vars
  BY IssueStep
<1>2. QED
  BY <1>1, Invariance, PTL DEF Spec, OnlyMinterIssues

-----------------------------------------------------------------------------
(* Allowances.                                                             *)

\* A move lowers nobody's balance but the owner's, and the owner's by no more
\* than what is paid.
LEMMA MoveGain ==
    ASSUME NEW balances \in [Addr -> U128], NEW owner \in Addr, NEW rcpt \in Addr,
           NEW paid \in U128, NEW received \in Result,
           Move(balances, owner, rcpt, paid, received), NEW a \in Addr
    PROVE  /\ BALANCES'[a] \in Nat
           /\ a # owner => BALANCES'[a] >= balances[a]
           /\ balances[a] - BALANCES'[a] <= paid
<1> DEFINE debited == Debit(balances, owner, paid)
<1>1. /\ debited \in [Addr -> U128]
      /\ a # owner => debited[a] = balances[a]
      /\ balances[a] - debited[a] <= paid
  <2>1. balances[owner] \in Nat /\ paid \in Nat /\ balances[owner] - paid \in U128
    BY ResolutionAssumption DEF Move, U128
  <2>2. balances[a] \in Nat
    BY ResolutionAssumption DEF U128
  <2>3. QED
    BY <2>1, <2>2 DEF Debit
<1>2. /\ BALANCES' = [debited EXCEPT ![rcpt] = debited[rcpt] \oplus received]
      /\ BALANCES'[rcpt] # Panic
  BY DEF Move, Credit
<1> HIDE DEF debited
<1>3. BALANCES'[a] >= debited[a] /\ BALANCES'[a] \in Nat
  <2>1. CASE a # rcpt
    BY <1>1, <1>2, <2>1, ResolutionAssumption DEF U128
  <2>2. CASE a = rcpt
    <3>1. debited[rcpt] \oplus received # Panic
      BY <1>1, <1>2
    <3>2. received # Panic /\ debited[rcpt] \oplus received = debited[rcpt] + received
      BY <3>1 DEF \oplus, Checked
    <3>3. received \in Nat /\ debited[rcpt] \in Nat
      BY <1>1, <3>2, ResolutionAssumption DEF Result, U128
    <3>4. BALANCES'[a] = debited[a] + received
      BY <1>1, <1>2, <2>2, <3>2
    <3>5. QED
      BY <2>2, <3>3, <3>4
  <2>3. QED
    BY <2>1, <2>2
<1>4. balances[a] \in Nat /\ debited[a] \in Nat /\ paid \in Nat
  BY <1>1, ResolutionAssumption DEF U128
<1>5. QED
  BY <1>1, <1>3, <1>4

\* So does a move out of balances no lower than the stored ones.
LEMMA MoveLoss ==
    ASSUME TypeOK, NEW balances \in [Addr -> U128],
           \A a \in Addr : balances[a] >= BALANCES[a],
           NEW owner \in Addr, NEW rcpt \in Addr, NEW paid \in U128, NEW received \in Result,
           Move(balances, owner, rcpt, paid, received), NEW a \in Addr
    PROVE  /\ a # owner => BALANCES'[a] >= BALANCES[a]
           /\ a = owner => BALANCES[a] - BALANCES'[a] <= paid
<1>1. /\ BALANCES'[a] \in Nat
      /\ a # owner => BALANCES'[a] >= balances[a]
      /\ balances[a] - BALANCES'[a] <= paid
  BY MoveGain
<1>2. BALANCES[a] \in Nat /\ balances[a] \in Nat /\ balances[a] >= BALANCES[a] /\ paid \in Nat
  BY ResolutionAssumption DEF TypeOK, U128
<1>3. QED
  BY <1>1, <1>2

\* Destroying lowers nobody's balance but the owner's, by the amount.
LEMMA DestroyLoss ==
    ASSUME TypeOK, NEW owner \in Addr, NEW amount \in U128, Destroy(owner, amount),
           NEW a \in Addr
    PROVE  /\ a # owner => BALANCES'[a] >= BALANCES[a]
           /\ a = owner => BALANCES[a] - BALANCES'[a] <= amount
<1>1. BALANCES[a] \in Nat /\ amount \in Nat
  BY ResolutionAssumption DEF TypeOK, U128
<1>2. BALANCES' = [BALANCES EXCEPT ![owner] = BALANCES[owner] - amount]
  BY DEF Destroy, Debit
<1>3. QED
  BY <1>1, <1>2 DEF TypeOK

\* A deduction lowers the allowance of the spender by the amount and leaves every
\* other allowance as it was.
LEMMA DeductEffect ==
    ASSUME TypeOK, NEW owner \in Addr, NEW spender \in Addr, NEW amount \in U128,
           deduct_allowance(owner, spender, amount)
    PROVE  /\ ALLOWANCES[owner][spender] \in AllowanceResponse
           /\ ALLOWANCES'[owner][spender] \in AllowanceResponse
           /\ ~is_expired(ALLOWANCES[owner][spender].expires, block)
           /\ ALLOWANCES'[owner][spender].expires = ALLOWANCES[owner][spender].expires
           /\ ALLOWANCES'[owner][spender].allowance
                = ALLOWANCES[owner][spender].allowance - amount
           /\ \A o, s \in Addr : o # owner \/ s # spender =>
                ALLOWANCES'[o][s] = ALLOWANCES[o][s]
<1> DEFINE grant == ALLOWANCES[owner][spender]
           left == [grant EXCEPT !.allowance = grant.allowance - amount]
<1>1. /\ grant \in AllowanceResponse /\ ~is_expired(grant.expires, block)
      /\ ALLOWANCES' = [ALLOWANCES EXCEPT ![owner][spender] = left]
  BY DEF TypeOK, deduct_allowance
<1>2. /\ left.expires = grant.expires
      /\ left.allowance = grant.allowance - amount
  BY <1>1 DEF AllowanceResponse
<1> HIDE DEF left
<1>3. ALLOWANCES'[owner][spender] = left
  BY <1>1 DEF TypeOK
<1>4. ALLOWANCES'[owner][spender] \in AllowanceResponse
  <2>1. ALLOWANCES'[owner][spender] \in AllowanceResponse \cup {None}
    BY DeductType
  <2>2. left # None
    <3>1. grant.allowance - amount \in U128
      BY <1>1, ResolutionAssumption DEF AllowanceResponse, U128, deduct_allowance
    <3>2. left \in AllowanceResponse
      BY <1>1, <3>1 DEF left, AllowanceResponse
    <3>3. QED
      BY <3>2, ContractAssumption
  <2>3. QED
    BY <1>3, <2>1, <2>2
<1>5. \A o, s \in Addr : o # owner \/ s # spender =>
        ALLOWANCES'[o][s] = ALLOWANCES[o][s]
  BY <1>1 DEF TypeOK
<1>6. QED
  BY <1>1, <1>2, <1>3, <1>4, <1>5

\* What a message does to an address other than its sender: it leaves its grants
\* and takes nothing from it, or it deducts what it takes from a grant to the sender.
LEMMA OtherMessage ==
    ASSUME Inv, NEW sender \in Addr, NEW owner \in Addr, owner # sender, Execute(sender)
    PROVE  \/ /\ \A spender \in Addr : ALLOWANCES'[owner][spender] = ALLOWANCES[owner][spender]
              /\ BALANCES'[owner] >= BALANCES[owner]
           \/ \E amount \in U128 :
                /\ deduct_allowance(owner, sender, amount)
                /\ BALANCES[owner] - BALANCES'[owner] <= amount
<1> DEFINE Untouched ==
             /\ \A spender \in Addr :
                  ALLOWANCES'[owner][spender] = ALLOWANCES[owner][spender]
             /\ BALANCES'[owner] >= BALANCES[owner]
           Deducted == \E amount \in U128 :
             /\ deduct_allowance(owner, sender, amount)
             /\ BALANCES[owner] - BALANCES'[owner] <= amount
<1> SUFFICES Untouched \/ Deducted
  OBVIOUS
<1>1. BALANCES[owner] \in Nat /\ BALANCES[owner] >= BALANCES[owner]
  BY ResolutionAssumption DEF Inv, TypeOK, U128
<1>2. BALANCES \in [Addr -> U128] /\ \A a \in Addr : BALANCES[a] >= BALANCES[a]
  BY ResolutionAssumption DEF Inv, TypeOK, U128
<1>3. TypeOK /\ Amounts \subseteq U128 /\ Amounts \subseteq Result
  BY ContractAssumption DEF Inv, Result
\* A deduction from the grant of o, with a loss of o alone.
<1>4. ASSUME NEW o \in Addr, NEW amount \in U128, deduct_allowance(o, sender, amount),
             /\ owner # o => BALANCES'[owner] >= BALANCES[owner]
             /\ owner = o => BALANCES[owner] - BALANCES'[owner] <= amount
      PROVE  Untouched \/ Deducted
  <2>1. CASE owner = o
    BY <1>4, <2>1
  <2>2. CASE owner # o
    BY <1>3, <1>4, <2>2, DeductEffect
  <2>3. QED
    BY <2>1, <2>2
<1>5. ASSUME NEW supply \in U128, change_period(supply), NEW o \in Addr, NEW rcpt \in Addr,
             NEW amount \in U128, UNCHANGED block,
             Move(Redistributed(supply), o, rcpt, amount, BaseValue(amount))
      PROVE  /\ owner # o => BALANCES'[owner] >= BALANCES[owner]
             /\ owner = o => BALANCES[owner] - BALANCES'[owner] <= amount
  <2>1. BaseValue(amount) \in Result
    BY <1>5, PaymentState DEF Move, Result
  <2>2. /\ Redistributed(supply) \in [Addr -> U128]
        /\ \A a \in Addr : Redistributed(supply)[a] >= BALANCES[a]
    BY <1>5, ChangePeriodEffect
  <2>3. QED
    BY <1>3, <1>5, <2>1, <2>2, MoveLoss
<1>6. TOKEN_INFO.total_supply \in U128
  BY DEF Inv, TypeOK, TokenInfo
<1>7. ASSUME NEW name \in Names, NEW amount \in Amounts, Transfer(sender, name, amount)
      PROVE  Untouched
  BY <1>3, <1>5, <1>6, <1>7 DEF Transfer
<1>8. ASSUME NEW name \in Names, NEW amount \in Amounts, Send(sender, name, amount)
      PROVE  Untouched
  BY <1>2, <1>3, <1>8, MoveLoss DEF Send
<1>9. ASSUME NEW amount \in Amounts, Burn(sender, amount)
      PROVE  Untouched
  BY <1>3, <1>9, DestroyLoss DEF Burn
<1>10. ASSUME NEW name \in Names, NEW amount \in Amounts, Mint(sender, name, amount)
       PROVE  Untouched
  <2> DEFINE supply == TOKEN_INFO.total_supply \oplus amount
             balances == Redistributed(supply)
             base == BaseValue(amount)
  <2>1. /\ change_period(supply) /\ supply # Panic /\ base # Panic /\ name \in Addr
        /\ BALANCES' = [balances EXCEPT ![name] = balances[name] \oplus base]
        /\ BALANCES'[name] # Panic /\ ALLOWANCES' = ALLOWANCES
    BY <1>10 DEF Mint, Credit
  <2>2. supply \in U128
    BY <1>3, <1>6, <2>1, CheckedType DEF Result
  <2> HIDE DEF supply, balances, base
  <2>3. balances \in [Addr -> U128] /\ \A a \in Addr : balances[a] >= BALANCES[a]
    BY <2>1, <2>2, ChangePeriodEffect DEF balances
  <2>4. base \in U128
    BY <1>3, <1>10, <2>1, <2>2, PaymentState DEF base, Mint
  <2>5. CASE owner = name
    <3>1. balances[name] \oplus base # Panic
      BY <2>1, <2>3
    <3>2. BALANCES'[name] = balances[name] + base
      BY <2>1, <2>3, <3>1 DEF \oplus, Checked
    <3>3. base \in Nat /\ balances[name] \in Nat
      BY <2>1, <2>3, <2>4, ResolutionAssumption DEF U128
    <3>4. balances[name] >= BALANCES[name]
      BY <2>1, <2>3
    <3>5. QED
      BY <1>1, <2>1, <2>5, <3>2, <3>3, <3>4
  <2>6. CASE owner # name
    BY <2>1, <2>3, <2>6
  <2>7. QED
    BY <2>5, <2>6
<1>11. ASSUME NEW name \in Names, NEW amount \in Amounts, BurnFrom(sender, name, amount)
       PROVE  Untouched \/ Deducted
  <2>1. name \in Addr /\ Destroy(name, amount) /\ deduct_allowance(name, sender, amount)
    BY <1>11 DEF BurnFrom
  <2>2. /\ owner # name => BALANCES'[owner] >= BALANCES[owner]
        /\ owner = name => BALANCES[owner] - BALANCES'[owner] <= amount
    BY <1>3, <2>1, DestroyLoss
  <2>3. QED
    BY <1>3, <1>4, <2>1, <2>2
<1>12. ASSUME NEW name \in Names, NEW other \in Names, NEW amount \in Amounts,
              TransferFrom(sender, name, other, amount)
       PROVE  Untouched \/ Deducted
  <2>1. /\ name \in Addr /\ other \in Addr /\ deduct_allowance(name, sender, amount)
        /\ change_period(TOKEN_INFO.total_supply) /\ UNCHANGED block
        /\ Move(Redistributed(TOKEN_INFO.total_supply), name, other, amount, BaseValue(amount))
    BY <1>12 DEF TransferFrom
  <2>2. /\ owner # name => BALANCES'[owner] >= BALANCES[owner]
        /\ owner = name => BALANCES[owner] - BALANCES'[owner] <= amount
    BY <1>3, <1>5, <1>6, <2>1
  <2>3. QED
    BY <1>3, <1>4, <2>1, <2>2
<1>13. ASSUME NEW name \in Names, NEW other \in Names, NEW amount \in Amounts,
              SendFrom(sender, name, other, amount)
       PROVE  Untouched \/ Deducted
  <2>1. /\ name \in Addr /\ other \in Addr /\ deduct_allowance(name, sender, amount)
        /\ Move(BALANCES, name, other, amount, amount)
    BY <1>13 DEF SendFrom
  <2>2. /\ owner # name => BALANCES'[owner] >= BALANCES[owner]
        /\ owner = name => BALANCES[owner] - BALANCES'[owner] <= amount
    BY <1>2, <1>3, <2>1, MoveLoss
  <2>3. QED
    BY <1>3, <1>4, <2>1, <2>2
<1>14. ASSUME NEW name \in Names, NEW amount \in Amounts, NEW expires \in ExpiresOptions,
              \/ IncreaseAllowance(sender, name, amount, expires)
              \/ DecreaseAllowance(sender, name, amount, expires)
       PROVE  Untouched
  <2>1. /\ BALANCES' = BALANCES
        /\ \E grant : ALLOWANCES' = [ALLOWANCES EXCEPT ![sender][name] = grant]
    BY <1>14 DEF IncreaseAllowance, DecreaseAllowance
  <2>2. QED
    BY <1>1, <1>3, <2>1 DEF TypeOK
<1>15. ASSUME UNCHANGED <<BALANCES, ALLOWANCES>>
       PROVE  Untouched
  BY <1>1, <1>15
<1>16. QED
  BY <1>7, <1>8, <1>9, <1>10, <1>11, <1>12, <1>13, <1>14, <1>15
     DEF Execute, UpdateMinter, ChangeTaxLevel, ChangeSinkAddress

\* A message that lowers another's balance spends an unexpired allowance for it.
THEOREM SpendingIsAllowed == Spec => SpendingNeedsAllowance
<1> DEFINE Allowed ==
      \A owner \in Addr :
        BALANCES'[owner] < BALANCES[owner] =>
          \A sender \in Addr \ {owner} :
            Execute(sender) =>
              SpentFromAllowance(owner, sender, BALANCES[owner] - BALANCES'[owner])
<1>1. ASSUME Inv, Next, NEW owner \in Addr, BALANCES'[owner] < BALANCES[owner],
             NEW sender \in Addr \ {owner}, Execute(sender)
      PROVE  SpentFromAllowance(owner, sender, BALANCES[owner] - BALANCES'[owner])
  <2>1. BALANCES[owner] \in Nat /\ BALANCES'[owner] \in Nat
    <3>1. Inv'
      BY <1>1, ExecuteInv
    <3>2. QED
      BY <1>1, <3>1, ResolutionAssumption DEF Inv, TypeOK, U128
  <2>2. PICK amount \in U128 : /\ deduct_allowance(owner, sender, amount)
                               /\ BALANCES[owner] - BALANCES'[owner] <= amount
    BY <1>1, <2>1, OtherMessage
  <2>3. /\ ALLOWANCES[owner][sender] \in AllowanceResponse
        /\ ALLOWANCES'[owner][sender] \in AllowanceResponse
        /\ ~is_expired(ALLOWANCES[owner][sender].expires, block)
        /\ ALLOWANCES'[owner][sender].allowance
             = ALLOWANCES[owner][sender].allowance - amount
    BY <1>1, <2>2, DeductEffect DEF Inv
  <2>4. ALLOWANCES[owner][sender].allowance \in Nat /\ amount \in Nat
    BY <2>3, ResolutionAssumption DEF AllowanceResponse, U128
  <2>5. QED
    BY <2>1, <2>2, <2>3, <2>4, ContractAssumption DEF SpentFromAllowance
<1>2. Inv /\ [Next]_vars => [Allowed]_vars
  BY <1>1
<1>3. QED
  BY <1>2, Invariance, PTL DEF Spec, SpendingNeedsAllowance

\* Nobody but its owner extends an allowance.
THEOREM OwnerGrantsAllowances == Spec => AllowanceGrantedByOwner
<1> DEFINE Granted ==
      \A owner, spender \in Addr :
        Extended(ALLOWANCES[owner][spender], ALLOWANCES'[owner][spender]) =>
          \A sender \in Addr \ {owner} : ~Execute(sender)
<1>1. ASSUME Inv, NEW owner \in Addr, NEW spender \in Addr,
             NEW sender \in Addr \ {owner}, Execute(sender)
      PROVE  ~Extended(ALLOWANCES[owner][spender], ALLOWANCES'[owner][spender])
  <2>1. ALLOWANCES[owner][spender] # None =>
          ALLOWANCES[owner][spender].allowance \in Nat
    BY <1>1, ResolutionAssumption DEF Inv, TypeOK, AllowanceResponse, U128
  <2>2. CASE ALLOWANCES'[owner][spender] = ALLOWANCES[owner][spender]
    BY <2>1, <2>2 DEF Extended
  <2>3. ASSUME NEW amount \in U128, deduct_allowance(owner, sender, amount)
        PROVE  ~Extended(ALLOWANCES[owner][spender], ALLOWANCES'[owner][spender])
    <3>1. CASE spender # sender
      BY <1>1, <2>2, <2>3, <3>1, DeductEffect DEF Inv
    <3>2. CASE spender = sender
      <4>1. /\ ALLOWANCES[owner][sender] \in AllowanceResponse
            /\ ALLOWANCES'[owner][sender].expires = ALLOWANCES[owner][sender].expires
            /\ ALLOWANCES'[owner][sender].allowance
                 = ALLOWANCES[owner][sender].allowance - amount
        BY <1>1, <2>3, DeductEffect DEF Inv
      <4>2. ALLOWANCES[owner][sender].allowance \in Nat /\ amount \in Nat
        BY <4>1, ResolutionAssumption DEF AllowanceResponse, U128
      <4>3. QED
        BY <3>2, <4>1, <4>2, ContractAssumption DEF Extended
    <3>3. QED
      BY <3>1, <3>2
  <2>4. QED
    BY <1>1, <2>2, <2>3, OtherMessage
<1>2. Inv /\ [Next]_vars => [Granted]_vars
  BY <1>1
<1>3. QED
  BY <1>2, Invariance, PTL DEF Spec, AllowanceGrantedByOwner

-----------------------------------------------------------------------------
(* The balances and the total supply: what every message does to the sum   *)
(* of all balances, and that the contract implements SupplyControl.        *)

Total(balances) == SumFunction(balances)

-----------------------------------------------------------------------------
(* Sums of balances.                                                       *)

\* There are finitely many accounts to add up.
LEMMA FiniteAddresses == IsFiniteSet(Addr)
  BY ContractAssumption

\* Proper balances add up to an integer.
LEMMA TotalType ==
    ASSUME NEW balances \in [Addr -> U128]
    PROVE  Total(balances) \in Int /\ balances \in [Addr -> Int]
<1>1. balances \in [Addr -> Int]
  BY ResolutionAssumption DEF U128
<1>2. SumFunctionOnSet(balances, Addr) \in Int
  BY <1>1, SumType, FiniteAddresses
<1>3. QED
  BY <1>1, <1>2 DEF Total, SumFunction

\* The initial balances add up to the initial supply: each row is one account.
LEMMA InitialTotal ==
    ASSUME NEW rows \in Seq(Cw20Coin), IsInjective(AddressesOf(rows)),
           Range(AddressesOf(rows)) \subseteq Addr
    PROVE  Total(create_accounts(rows)) = SupplyOf(rows)
<1> DEFINE I == DOMAIN rows
           f == AmountsOf(rows)
           e == AddressesOf(rows)
           g == create_accounts(rows)
<1>1. I = 1..Len(rows) /\ Len(rows) \in Nat /\ IsFiniteSet(I)
  BY FS_Interval
<1>2. \A i \in I : rows[i].amount \in Nat
  <2>1. \A i \in 1..Len(rows) : rows[i] \in Cw20Coin
    OBVIOUS
  <2>2. QED
    BY <1>1, <2>1, ResolutionAssumption DEF Cw20Coin, U128
<1>3. f \in [I -> Int] /\ \A i \in I : f[i] = rows[i].amount
  BY <1>2 DEF AmountsOf
<1>4. DOMAIN e = I /\ \A i \in I : e[i] = rows[i].address
  BY DEF AddressesOf
<1>5. \A i, j \in I : e[i] = e[j] => i = j
  BY <1>4 DEF IsInjective
<1>6. e \in [I -> Addr]
  BY <1>4 DEF Range, AddressesOf
<1>7. \A i \in I : g[e[i]] = f[i]
  <2>1. ASSUME NEW i \in I
        PROVE  g[e[i]] = f[i]
    <3>1. rows[i].address \in Addr
      BY <1>4, <1>6
    <3>2. (CHOOSE j \in DOMAIN rows : rows[j].address = rows[i].address) = i
      BY <1>4, <1>5
    <3>3. g[rows[i].address] = rows[i].amount
      BY <3>1, <3>2 DEF create_accounts
    <3>4. QED
      BY <1>3, <1>4, <3>3
  <2>2. QED
    BY <2>1
<1>8. \A a \in Addr : (\A i \in I : e[i] # a) => g[a] = 0
  BY <1>4 DEF create_accounts
<1>9. g \in [Addr -> Int]
  <2>1. ASSUME NEW a \in Addr
        PROVE  g[a] \in Int
    <3>1. CASE \A i \in I : e[i] # a
      BY <1>8, <3>1
    <3>2. ASSUME NEW i \in I, e[i] = a
          PROVE  g[a] \in Int
      BY <1>3, <1>7, <3>2
    <3>3. QED
      BY <3>1, <3>2
  <2>2. DOMAIN g = Addr /\ g = [a \in DOMAIN g |-> g[a]]
    BY DEF create_accounts
  <2> HIDE DEF g
  <2>3. QED
    BY <2>1, <2>2
<1> HIDE DEF I, f, e, g
<1>10. SumFunction(f) = SumFunction(g)
  <2>1. IsFiniteSet(I) /\ IsFiniteSet(Addr)
    BY <1>1, FiniteAddresses
  <2>2. f \in [I -> Int]
    BY <1>3
  <2>3. QED
    BY <1>5, <1>6, <1>7, <1>8, <1>9, <2>1, <2>2, SumReindex, SMTT(60)
<1>11. QED
  BY <1>10 DEF Total, SupplyOf, f, g

\* A credit that does not overflow adds its amount.
LEMMA CreditTotal ==
    ASSUME NEW balances \in [Addr -> U128], NEW a \in Addr, NEW amount \in Result,
           Credit(balances, a, amount)[a] # Panic
    PROVE  /\ Total(Credit(balances, a, amount)) = Total(balances) + amount
           /\ amount \in Nat
<1>1. Credit(balances, a, amount) = [balances EXCEPT ![a] = balances[a] \oplus amount]
  BY DEF Credit
<1>2. balances[a] \oplus amount # Panic
  BY <1>1
<1>3. amount # Panic /\ balances[a] \oplus amount = balances[a] + amount
  BY <1>2 DEF \oplus, Checked
<1>4. amount \in Nat /\ balances[a] \in Nat
  BY <1>3, ResolutionAssumption DEF Result, U128
<1>5. SumFunction([balances EXCEPT ![a] = balances[a] + amount])
        = SumFunction(balances) - balances[a] + (balances[a] + amount)
  <2>1. balances[a] + amount \in Int
    BY <1>4
  <2>2. balances \in [Addr -> Int]
    BY TotalType
  <2>3. QED
    BY <2>1, <2>2, SumExcept, FiniteAddresses
<1>6. Total(balances) \in Int
  BY TotalType
<1>7. QED
  BY <1>1, <1>3, <1>4, <1>5, <1>6 DEF Total

\* A debit takes its amount.
LEMMA DebitTotal ==
    ASSUME NEW balances \in [Addr -> U128], NEW a \in Addr, NEW amount \in U128,
           balances[a] >= amount
    PROVE  /\ Debit(balances, a, amount) \in [Addr -> U128]
           /\ Total(Debit(balances, a, amount)) = Total(balances) - amount
<1>1. balances[a] \in Nat /\ amount \in Nat /\ balances[a] - amount \in U128
  BY ResolutionAssumption DEF U128
<1>2. SumFunction([balances EXCEPT ![a] = balances[a] - amount])
        = SumFunction(balances) - balances[a] + (balances[a] - amount)
  <2>1. balances[a] - amount \in Int
    BY <1>1
  <2>2. balances \in [Addr -> Int]
    BY TotalType
  <2>3. QED
    BY <2>1, <2>2, SumExcept, FiniteAddresses
<1>3. Total(balances) \in Int
  BY TotalType
<1>4. QED
  BY <1>1, <1>2, <1>3 DEF Total, Debit

\* A move takes what is paid and adds what is received.
LEMMA MoveTotal ==
    ASSUME NEW balances \in [Addr -> U128], NEW owner \in Addr, NEW rcpt \in Addr,
           NEW paid \in U128, NEW received \in Result,
           Move(balances, owner, rcpt, paid, received)
    PROVE  Holdings' = Total(balances) - paid + received
<1> DEFINE debited == Debit(balances, owner, paid)
<1>1. debited \in [Addr -> U128] /\ Total(debited) = Total(balances) - paid
  BY DebitTotal DEF Move
<1>2. BALANCES' = Credit(debited, rcpt, received) /\ BALANCES'[rcpt] # Panic
  BY DEF Move
<1> HIDE DEF debited
<1>3. Total(BALANCES') = Total(debited) + received
  BY <1>1, <1>2, CreditTotal
<1>4. QED
  BY <1>1, <1>3 DEF Total, Holdings

\* Destroying takes the same from the supply and from the balances.
LEMMA DestroyTotal ==
    ASSUME TypeOK, NEW owner \in Addr, NEW amount \in U128, Destroy(owner, amount)
    PROVE  /\ Holdings' = Holdings - amount
           /\ TOKEN_INFO'.total_supply = TOKEN_INFO.total_supply - amount
<1>1. BALANCES' = Debit(BALANCES, owner, amount) /\ BALANCES[owner] >= amount
  BY DEF Destroy
<1>2. Total(BALANCES') = Total(BALANCES) - amount
  BY <1>1, DebitTotal DEF TypeOK
<1>3. TOKEN_INFO'.total_supply = TOKEN_INFO.total_supply - amount
  BY DEF Destroy, TypeOK, TokenInfo
<1>4. QED
  BY <1>2, <1>3 DEF Total, Holdings

\* The redistribution adds the distribution if the sink is an address.
LEMMA RedistributedTotal ==
    ASSUME Inv, NEW supply \in U128, change_period(supply)
    PROVE  LET dist == get_distribution(supply, DemurrageAmount)
           IN  /\ dist \in Nat
               /\ Total(Redistributed(supply))
                    = Holdings + (IF state.sink_address \in Addr THEN dist ELSE 0)
<1> DEFINE dist == get_distribution(supply, DemurrageAmount)
           sink == state.sink_address
           d == DemurrageAmount
<1>1. dist \in Nat /\ dist \in Result
  <2>1. d \in 0..INITIAL_DEMURRAGE
    <3>1. d \in 0..state.demurrage_amount
      BY ChangePeriodEffect
    <3>2. QED
      BY <3>1, ResolutionAssumption DEF Inv, DemurrageAmountPositive
  <2>2. dist \in 0..supply \cup {Panic} /\ dist # Panic
    BY <2>1, DistributionWithinSupply DEF change_period
  <2>3. supply \in Nat
    BY ResolutionAssumption DEF U128
  <2>4. QED
    BY <2>2, <2>3, ResolutionAssumption DEF Result, U128
<1> HIDE DEF dist
<1>2. Holdings = Total(BALANCES) /\ Total(BALANCES) \in Int /\ BALANCES \in [Addr -> U128]
  BY TotalType DEF Total, Holdings, Inv, TypeOK
<1>3. CASE sink \in Addr
  <2>1. Redistributed(supply) = Credit(BALANCES, sink, dist)
    BY <1>3 DEF Redistributed, apply_default_redistribution, Credit, dist
  <2>2. Redistributed(supply)[sink] # Panic
    BY <1>3, ChangePeriodEffect, ResolutionAssumption DEF U128, Panic
  <2>3. Total(Redistributed(supply)) = Total(BALANCES) + dist
    BY <1>1, <1>2, <1>3, <2>1, <2>2, CreditTotal
  <2>4. QED
    BY <1>1, <1>2, <1>3, <2>3 DEF dist
<1>4. CASE sink \notin Addr
  <2>1. Redistributed(supply) = BALANCES
    BY <1>4 DEF Redistributed, apply_default_redistribution
  <2>2. QED
    BY <1>1, <1>2, <1>4, <2>1 DEF dist
<1>5. QED
  BY <1>3, <1>4

-----------------------------------------------------------------------------
(* What a message does to the balances together.                           *)

\* A transfer leaves the holders no less than the redistribution gave them: the
\* recipient gains at least what the owner pays.
LEMMA PaymentTotal ==
    ASSUME Inv, NEW supply \in U128, change_period(supply), UNCHANGED block,
           NEW owner \in Addr, NEW rcpt \in Addr, NEW amount \in U128,
           Move(Redistributed(supply), owner, rcpt, amount, BaseValue(amount))
    PROVE  Holdings' >= Total(Redistributed(supply)) /\ Holdings' \in Int
<1> DEFINE balances == Redistributed(supply)
           base == BaseValue(amount)
<1>1. base \in U128 /\ base >= amount
  <2>1. DemurrageAmount \in 0..INITIAL_DEMURRAGE
    <3>1. DemurrageAmount \in 0..state.demurrage_amount
      BY ChangePeriodEffect
    <3>2. QED
      BY <3>1, ResolutionAssumption DEF Inv, DemurrageAmountPositive
  <2>2. base \in Result /\ base # Panic
    BY <2>1, BaseAmountCoversValue DEF BaseValue, Move
  <2>3. QED
    BY <2>1, <2>2, BaseAmountCoversValue DEF BaseValue, Result
<1>2. balances \in [Addr -> U128]
  BY ChangePeriodEffect
<1>3. Total(balances) \in Int
  BY <1>2, TotalType
<1> HIDE DEF balances, base
<1>4. Holdings' = Total(balances) - amount + base
  BY <1>1, <1>2, MoveTotal DEF balances, base, Result
<1>5. amount \in Nat /\ base \in Nat
  BY <1>1, ResolutionAssumption DEF U128
<1>6. Holdings' >= Total(balances) /\ Holdings' \in Int
  BY <1>1, <1>3, <1>4, <1>5
<1>7. QED
  BY <1>6 DEF balances

\* A mint leaves them at least the minted amount more than that.
LEMMA MintTotal ==
    ASSUME Inv, NEW sender \in Addr, NEW recipient \in Names, NEW amount \in U128,
           Mint(sender, recipient, amount)
    PROVE  LET supply == TOKEN_INFO.total_supply + amount
           IN  /\ supply \in U128
               /\ change_period(supply)
               /\ TOKEN_INFO' = [TOKEN_INFO EXCEPT !.total_supply = supply]
               /\ Holdings' >= Total(Redistributed(supply)) + amount
               /\ Holdings' \in Int
<1> DEFINE supply == TOKEN_INFO.total_supply + amount
           base == BaseValue(amount)
<1>1. TOKEN_INFO.total_supply \oplus amount = supply /\ supply \in U128
  <2>1. TOKEN_INFO.total_supply \oplus amount # Panic
    BY DEF Mint
  <2>2. QED
    BY <2>1 DEF \oplus, Checked
<1> HIDE DEF supply
<1>2. /\ change_period(supply) /\ base # Panic /\ recipient \in Addr
      /\ TOKEN_INFO' = [TOKEN_INFO EXCEPT !.total_supply = supply]
      /\ BALANCES' = Credit(Redistributed(supply), recipient, base)
      /\ BALANCES'[recipient] # Panic /\ UNCHANGED block
  BY <1>1 DEF Mint
<1>3. base \in U128 /\ base >= amount
  <2>1. DemurrageAmount \in 0..INITIAL_DEMURRAGE
    <3>1. DemurrageAmount \in 0..state.demurrage_amount
      BY <1>1, <1>2, ChangePeriodEffect
    <3>2. QED
      BY <3>1, ResolutionAssumption DEF Inv, DemurrageAmountPositive
  <2>2. QED
    BY <1>2, <2>1, BaseAmountCoversValue DEF BaseValue, Result
<1>4. Redistributed(supply) \in [Addr -> U128] /\ Total(Redistributed(supply)) \in Int
  BY <1>1, <1>2, ChangePeriodEffect, TotalType
<1> HIDE DEF base
<1>5. Holdings' = Total(Redistributed(supply)) + base
  <2>1. Total(BALANCES') = Total(Redistributed(supply)) + base
    BY <1>2, <1>3, <1>4, CreditTotal DEF Result
  <2>2. QED
    BY <2>1 DEF Total, Holdings
<1>6. amount \in Nat /\ base \in Nat
  BY <1>3, ResolutionAssumption DEF U128
<1>7. Holdings' >= Total(Redistributed(supply)) + amount /\ Holdings' \in Int
  BY <1>3, <1>4, <1>5, <1>6
<1>8. QED
  BY <1>1, <1>2, <1>7 DEF supply

\* A redistribution never takes from the holders together.
LEMMA RedistributedGains ==
    ASSUME Inv, NEW supply \in U128, change_period(supply)
    PROVE  /\ Total(Redistributed(supply)) >= Holdings
           /\ Total(Redistributed(supply)) \in Int
           /\ Holdings \in Int
<1>1. Holdings \in Int
  BY TotalType DEF Total, Holdings, Inv, TypeOK
<1> DEFINE dist == get_distribution(supply, DemurrageAmount)
<1>2. /\ dist \in Nat
      /\ Total(Redistributed(supply))
           = Holdings + (IF state.sink_address \in Addr THEN dist ELSE 0)
  BY RedistributedTotal
<1> HIDE DEF dist
<1>3. QED
  BY <1>1, <1>2

-----------------------------------------------------------------------------
(* The contract implements SupplyControl.                                  *)

\* The instantiation gives the holders exactly the supply, within the cap.
LEMMA InitRefines == Init => Supply!Init /\ SupplyIsBacked
<1>1. SUFFICES ASSUME NEW msg \in InstantiateMsgs, instantiate(msg)
               PROVE  Supply!Init /\ SupplyIsBacked
  BY DEF Init
<1> DEFINE rows == msg.initial_balances
<1>2. msg \in InstantiateMsg
  BY ContractAssumption
<1>3. rows \in Seq(Cw20Coin)
  BY <1>2 DEF InstantiateMsg
<1>4. BALANCES = create_accounts(rows) /\ TOKEN_INFO.total_supply = SupplyOf(rows)
      /\ TOKEN_INFO.mint = msg.mint /\ SupplyOf(rows) \in U128
  BY <1>1 DEF instantiate
<1>5. Holdings = TOKEN_INFO.total_supply
  BY <1>1, <1>3, <1>4, InitialTotal DEF instantiate, Total, Holdings
<1>6. TOKEN_INFO.total_supply \in Nat
  BY <1>4, ResolutionAssumption DEF U128
<1>7. TOKEN_INFO.mint = None \/
        (TOKEN_INFO.mint.minter \in Addr /\ Supply!Allows(TOKEN_INFO.mint, TOKEN_INFO.total_supply))
  BY <1>1, <1>4 DEF instantiate, Supply!Allows
<1>8. QED
  BY <1>5, <1>6, <1>7 DEF Supply!Init, SupplyIsBacked

\* A message that leaves the supply and the rights, and the holders no less.
LEMMA Pays ==
    ASSUME TOKEN_INFO' = TOKEN_INFO, Holdings' >= Holdings, Holdings' \in Int, Inv,
           SupplyIsBacked
    PROVE  Supply!Next
<1>1. TOKEN_INFO.total_supply \in Nat /\ Holdings \in Int
  BY ResolutionAssumption, TotalType DEF Total, Holdings, Inv, TypeOK, TokenInfo, U128
<1>2. Holdings' \in Nat
  BY <1>1 DEF SupplyIsBacked
<1>3. QED
  BY <1>2 DEF Supply!Next, Supply!Pay

\* A message that burns destroys supply and holdings alike.
LEMMA Destroys ==
    ASSUME Inv, NEW owner \in Addr, NEW amount \in U128, Destroy(owner, amount)
    PROVE  [Supply!Next]_(Supply!controlled)
<1>1. /\ Holdings' = Holdings - amount
      /\ TOKEN_INFO'.total_supply = TOKEN_INFO.total_supply - amount
      /\ TOKEN_INFO' \in TokenInfo /\ TOKEN_INFO'.mint = TOKEN_INFO.mint
  BY DestroyTotal, DestroyType DEF Inv
<1>2. /\ TOKEN_INFO'.total_supply \in Nat /\ TOKEN_INFO.total_supply \in Nat
      /\ amount \in Nat /\ Holdings \in Int
  BY <1>1, ResolutionAssumption, TotalType
     DEF Total, Holdings, Inv, TypeOK, TokenInfo, U128
<1>3. CASE amount = 0
  BY <1>1, <1>2, <1>3 DEF Supply!controlled
<1>4. CASE amount # 0
  BY <1>1, <1>2, <1>4 DEF Supply!Next, Supply!Destroy
<1>5. QED
  BY <1>3, <1>4

\* A mint issues: the supply grows within the cap, and the holdings at least as much.
LEMMA MintIssues ==
    ASSUME Inv, SupplyIsBacked, NEW sender \in Addr, NEW recipient \in Names,
           NEW amount \in U128, Mint(sender, recipient, amount)
    PROVE  Supply!Next
<1> DEFINE supply == TOKEN_INFO.total_supply + amount
<1>1. /\ supply \in U128 /\ change_period(supply)
      /\ TOKEN_INFO' = [TOKEN_INFO EXCEPT !.total_supply = supply]
      /\ Holdings' >= Total(Redistributed(supply)) + amount /\ Holdings' \in Int
  BY MintTotal
<1>2. /\ Total(Redistributed(supply)) >= Holdings
      /\ Total(Redistributed(supply)) \in Int /\ Holdings \in Int
  BY <1>1, RedistributedGains
<1>3. /\ TOKEN_INFO.mint # None /\ amount # 0
      /\ TOKEN_INFO.mint.cap # None =>
           TOKEN_INFO.total_supply \oplus amount <= TOKEN_INFO.mint.cap
      /\ TOKEN_INFO.total_supply \oplus amount # Panic
  BY DEF Mint, IsMinter, WithinLimit
<1>4. TOKEN_INFO.total_supply \oplus amount = supply
  BY <1>3 DEF \oplus, Checked
<1>5. /\ TOKEN_INFO'.total_supply = supply /\ TOKEN_INFO'.mint = TOKEN_INFO.mint
      /\ TOKEN_INFO.total_supply \in Nat /\ amount \in Nat
  BY <1>1, ResolutionAssumption DEF Inv, TypeOK, TokenInfo, U128
<1>6. supply \in Nat /\ supply > TOKEN_INFO.total_supply
      /\ supply - TOKEN_INFO.total_supply = amount
  BY <1>3, <1>5
<1> HIDE DEF supply
<1>7. Holdings' \in Nat /\ Holdings' - Holdings >= supply - TOKEN_INFO.total_supply
  BY <1>1, <1>2, <1>5, <1>6 DEF SupplyIsBacked
<1>8. Supply!Allows(TOKEN_INFO.mint, supply)
  BY <1>3, <1>4 DEF Supply!Allows
<1>9. QED
  BY <1>3, <1>5, <1>6, <1>7, <1>8 DEF Supply!Next, Supply!Issue

\* Every step of the contract is a step of SupplyControl or leaves what it sees.
LEMMA StepRefines ==
    ASSUME Inv, SupplyIsBacked, [Next]_vars
    PROVE  [Supply!Next]_(Supply!controlled)
<1>1. TypeOK /\ Amounts \subseteq U128 /\ Amounts \subseteq Result
      /\ TOKEN_INFO.total_supply \in U128 /\ BALANCES \in [Addr -> U128]
  BY ContractAssumption DEF Inv, TypeOK, TokenInfo, Result
<1>2. Holdings = Total(BALANCES) /\ Holdings \in Int
  BY <1>1, TotalType DEF Total, Holdings
<1>3. CASE UNCHANGED <<TOKEN_INFO, BALANCES>>
  BY <1>3 DEF Supply!controlled, Holdings
<1>4. ASSUME NEW owner \in Addr, NEW rcpt \in Addr, NEW amount \in Amounts,
             Move(BALANCES, owner, rcpt, amount, amount), TOKEN_INFO' = TOKEN_INFO
      PROVE  Supply!Next
  <2>1. Holdings' = Holdings - amount + amount
    BY <1>1, <1>2, <1>4, MoveTotal
  <2>2. amount \in Int
    BY <1>1, ResolutionAssumption DEF U128
  <2>3. QED
    BY <1>2, <1>4, <2>1, <2>2, Pays
<1>5. ASSUME NEW owner \in Addr, NEW rcpt \in Addr, NEW amount \in Amounts,
             change_period(TOKEN_INFO.total_supply), UNCHANGED <<block, TOKEN_INFO>>,
             Move(Redistributed(TOKEN_INFO.total_supply), owner, rcpt, amount,
                  BaseValue(amount))
      PROVE  Supply!Next
  <2> DEFINE given == Total(Redistributed(TOKEN_INFO.total_supply))
  <2>1. Holdings' >= given /\ Holdings' \in Int
    BY <1>1, <1>5, PaymentTotal
  <2>2. given >= Holdings /\ given \in Int
    BY <1>1, <1>5, RedistributedGains
  <2> HIDE DEF given
  <2>3. Holdings' >= Holdings
    BY <1>2, <2>1, <2>2
  <2>4. QED
    BY <1>5, <2>1, <2>3, Pays
<1>6. ASSUME NEW sender \in Addr, NEW name \in Names, UpdateMinter(sender, name)
      PROVE  Supply!Next
  <2>1. /\ TOKEN_INFO.mint # None /\ name \in Addr /\ BALANCES' = BALANCES
        /\ TOKEN_INFO'.mint = [TOKEN_INFO.mint EXCEPT !.minter = name]
        /\ TOKEN_INFO'.total_supply = TOKEN_INFO.total_supply
    BY <1>1, <1>6 DEF UpdateMinter, IsMinter, TypeOK, TokenInfo
  <2>2. Holdings' = Holdings
    BY <2>1 DEF Holdings
  <2>3. QED
    BY <2>1, <2>2 DEF Supply!Next, Supply!HandOver
<1>7. ASSUME NEW sender \in Addr, Execute(sender)
      PROVE  [Supply!Next]_(Supply!controlled)
  <2>1. ASSUME NEW amount \in Amounts, Burn(sender, amount)
        PROVE  [Supply!Next]_(Supply!controlled)
    BY <1>1, <2>1, Destroys DEF Burn
  <2>2. ASSUME NEW name \in Names, NEW amount \in Amounts, BurnFrom(sender, name, amount)
        PROVE  [Supply!Next]_(Supply!controlled)
    BY <1>1, <2>2, Destroys DEF BurnFrom
  <2>3. ASSUME NEW name \in Names, NEW amount \in Amounts,
               \/ Transfer(sender, name, amount)
               \/ Send(sender, name, amount)
               \/ Mint(sender, name, amount)
        PROVE  Supply!Next
    BY <1>1, <1>4, <1>5, <2>3, MintIssues DEF Transfer, Send
  <2>4. ASSUME NEW name \in Names, NEW other \in Names, NEW amount \in Amounts,
               \/ TransferFrom(sender, name, other, amount)
               \/ SendFrom(sender, name, other, amount)
        PROVE  Supply!Next
    BY <1>4, <1>5, <2>4 DEF TransferFrom, SendFrom
  <2>5. QED
    BY <1>3, <1>6, <1>7, <2>1, <2>2, <2>3, <2>4
       DEF Execute, IncreaseAllowance, DecreaseAllowance, ChangeTaxLevel, ChangeSinkAddress
<1>8. QED
  BY <1>3, <1>7 DEF Next, NextBlock, vars

\* A step of SupplyControl keeps the supply backed.
LEMMA BackingStep ==
    ASSUME Inv, Inv', SupplyIsBacked, [Supply!Next]_(Supply!controlled)
    PROVE  SupplyIsBacked'
<1>1. /\ TOKEN_INFO.total_supply \in Nat /\ TOKEN_INFO'.total_supply \in Nat
      /\ Holdings \in Int
  BY ResolutionAssumption, TotalType
     DEF Total, Holdings, Inv, TypeOK, TokenInfo, U128
<1>2. Holdings' \in Int
  <2>1. BALANCES' \in [Addr -> U128]
    BY DEF Inv, TypeOK
  <2>2. Total(BALANCES') \in Int
    BY <2>1, TotalType
  <2>3. QED
    BY <2>2 DEF Total, Holdings
<1>3. QED
  BY <1>1, <1>2 DEF SupplyIsBacked, Supply!Next, Supply!controlled, Supply!Issue,
                    Supply!Destroy, Supply!Pay, Supply!HandOver

\* No sequence of payments, mints and burns leaves the holders together with less
\* than the total supply.
THEOREM SupplyStaysBacked == Spec => []SupplyIsBacked
<1>1. Init => Inv /\ SupplyIsBacked
  BY InitInv, InitRefines
<1>2. Inv /\ SupplyIsBacked /\ [Next]_vars => (Inv /\ SupplyIsBacked)'
  BY StepInv, StepRefines, BackingStep
<1>3. QED
  BY <1>1, <1>2, PTL DEF Spec

\* The contract implements SupplyControl, whatever amounts and conversions it
\* computes: what it does to the supply, to the mint rights and to the balances
\* together is what a mintable token may do.
THEOREM Refinement == Spec => ImplementsSupplyControl
<1>1. Init => Supply!Init
  BY InitRefines
<1>2. Inv /\ SupplyIsBacked /\ [Next]_vars => [Supply!Next]_(Supply!controlled)
  BY StepRefines
<1>3. QED
  BY <1>1, <1>2, Invariance, SupplyStaysBacked, PTL
     DEF Spec, ImplementsSupplyControl, Supply!Spec

-----------------------------------------------------------------------------
(* The tax.                                                                *)

\* After a redistribution the sink has the distribution more.
LEMMA RedistributedSink ==
    ASSUME Inv, NEW supply \in U128, change_period(supply), state.sink_address \in Addr
    PROVE  LET dist == get_distribution(supply, DemurrageAmount)
               sink == state.sink_address
           IN  /\ Redistributed(supply) \in [Addr -> U128]
               /\ dist \in Nat
               /\ Redistributed(supply)[sink] = BALANCES[sink] + dist
               /\ state'.demurrage_amount = DemurrageAmount
<1> DEFINE dist == get_distribution(supply, DemurrageAmount)
           sink == state.sink_address
<1>1. Redistributed(supply) \in [Addr -> U128]
      /\ state' = [state EXCEPT !.demurrage_amount = DemurrageAmount,
                                !.current_period = state.current_period + 1]
  BY ChangePeriodEffect
<1>2. dist \in Nat
  BY RedistributedTotal
<1>3. state'.demurrage_amount = DemurrageAmount
  BY <1>1 DEF Inv, TypeOK, State
<1> HIDE DEF dist
<1>4. Redistributed(supply)[sink] = BALANCES[sink] \oplus dist
  BY DEF Redistributed, apply_default_redistribution, dist, Inv, TypeOK
<1>5. Redistributed(supply)[sink] # Panic
  BY <1>1, ResolutionAssumption DEF U128, Panic
<1>6. Redistributed(supply)[sink] = BALANCES[sink] + dist
  BY <1>4, <1>5 DEF \oplus, Checked
<1>7. QED
  BY <1>1, <1>2, <1>3, <1>6 DEF dist

\* What is paid to the sink is computed from what is stored after the payment.
LEMMA TaxStep ==
    ASSUME Inv, [Next]_vars, state'.current_period # state.current_period,
           state.sink_address \in Addr, PaysNothing(state.sink_address)
    PROVE  BALANCES'[state.sink_address] - BALANCES[state.sink_address]
             >= get_distribution(TOKEN_INFO'.total_supply, state'.demurrage_amount)
<1> DEFINE sink == state.sink_address
           Paid == BALANCES'[sink] - BALANCES[sink]
                     >= get_distribution(TOKEN_INFO'.total_supply, state'.demurrage_amount)
<1> SUFFICES Paid
  OBVIOUS
<1>1. TypeOK /\ Amounts \subseteq U128 /\ TOKEN_INFO.total_supply \in U128
  BY ContractAssumption DEF Inv, TypeOK, TokenInfo
<1>2. BALANCES[sink] \in Nat
  BY <1>1, ResolutionAssumption DEF TypeOK, U128
<1>3. ASSUME NEW supply \in U128, change_period(supply), TOKEN_INFO'.total_supply = supply,
             BALANCES'[sink] \in Nat, BALANCES'[sink] >= Redistributed(supply)[sink]
      PROVE  Paid
  <2> DEFINE dist == get_distribution(supply, DemurrageAmount)
             given == Redistributed(supply)[sink]
  <2>1. /\ dist \in Nat /\ given = BALANCES[sink] + dist
        /\ state'.demurrage_amount = DemurrageAmount
    BY <1>3, RedistributedSink
  <2>2. BALANCES'[sink] >= given
    BY <1>3
  <2> HIDE DEF dist, given
  <2>3. BALANCES'[sink] - BALANCES[sink] >= dist
    BY <1>2, <1>3, <2>1, <2>2
  <2>4. QED
    BY <1>3, <2>1, <2>3 DEF dist
<1>4. ASSUME NEW owner \in Addr, NEW rcpt \in Addr, NEW amount \in Amounts,
             change_period(TOKEN_INFO.total_supply), UNCHANGED <<block, TOKEN_INFO>>,
             Move(Redistributed(TOKEN_INFO.total_supply), owner, rcpt, amount,
                  BaseValue(amount)),
             owner = sink => amount = 0
      PROVE  Paid
  <2> DEFINE balances == Redistributed(TOKEN_INFO.total_supply)
  <2>1. BaseValue(amount) \in Result
    BY <1>1, <1>4, PaymentState DEF Move, Result
  <2>2. balances \in [Addr -> U128]
    BY <1>1, <1>4, ChangePeriodEffect
  <2>3. /\ BALANCES'[sink] \in Nat
        /\ sink # owner => BALANCES'[sink] >= balances[sink]
        /\ balances[sink] - BALANCES'[sink] <= amount
    BY <1>1, <1>4, <2>1, <2>2, MoveGain
  <2>4. balances[sink] \in Nat
    BY <2>2, ResolutionAssumption DEF U128
  <2> HIDE DEF balances
  <2>5. BALANCES'[sink] >= balances[sink]
    BY <1>4, <2>3, <2>4
  <2>6. QED
    BY <1>1, <1>3, <1>4, <2>3, <2>5 DEF balances
<1>5. ASSUME NEW sender \in Addr, NEW name \in Names, NEW amount \in Amounts,
             Mint(sender, name, amount)
      PROVE  Paid
  <2> DEFINE supply == TOKEN_INFO.total_supply + amount
             balances == Redistributed(supply)
             base == BaseValue(amount)
  <2>1. /\ supply \in U128 /\ change_period(supply)
        /\ TOKEN_INFO' = [TOKEN_INFO EXCEPT !.total_supply = supply]
    BY <1>1, <1>5, MintTotal
  <2>2. TOKEN_INFO.total_supply \oplus amount = supply
    <3>1. TOKEN_INFO.total_supply \oplus amount # Panic
      BY <1>5 DEF Mint
    <3>2. QED
      BY <3>1 DEF \oplus, Checked
  <2>3. TOKEN_INFO'.total_supply = supply
    BY <1>1, <2>1 DEF TypeOK, TokenInfo
  <2> HIDE DEF supply
  <2>4. /\ BALANCES' = [balances EXCEPT ![name] = balances[name] \oplus base]
        /\ BALANCES'[name] # Panic /\ name \in Addr /\ base # Panic /\ UNCHANGED block
    BY <1>5, <2>2 DEF Mint, Credit
  <2>5. base \in U128
    BY <1>1, <1>5, <2>1, <2>4, PaymentState
  <2>6. balances \in [Addr -> U128]
    BY <2>1, ChangePeriodEffect
  <2> HIDE DEF balances, base
  <2>7. BALANCES'[sink] \in Nat /\ BALANCES'[sink] >= balances[sink]
    <3>1. balances[sink] \in Nat /\ base \in Nat
      BY <2>5, <2>6, ResolutionAssumption DEF U128
    <3>2. CASE sink # name
      BY <2>4, <2>6, <3>1, <3>2
    <3>3. CASE sink = name
      <4>1. BALANCES'[sink] = balances[sink] \oplus base
        BY <2>4, <2>6, <3>3
      <4>2. BALANCES'[sink] = balances[sink] + base
        BY <2>4, <3>3, <4>1 DEF \oplus, Checked
      <4>3. QED
        BY <3>1, <4>2
    <3>4. QED
      BY <3>2, <3>3
  <2>8. QED
    BY <1>3, <2>1, <2>3, <2>7 DEF balances
<1>6. ASSUME NEW sender \in Addr, NEW name \in Names, NEW amount \in Amounts,
             Transfer(sender, name, amount)
      PROVE  Paid
  <2>1. sender # sink
    BY <1>6 DEF PaysNothing
  <2>2. QED
    BY <1>4, <1>6, <2>1 DEF Transfer
<1>7. ASSUME NEW sender \in Addr, NEW name \in Names, NEW other \in Names,
             NEW amount \in Amounts, TransferFrom(sender, name, other, amount)
      PROVE  Paid
  <2>1. /\ name \in Addr /\ other \in Addr /\ deduct_allowance(name, sender, amount)
        /\ change_period(TOKEN_INFO.total_supply) /\ UNCHANGED <<block, TOKEN_INFO>>
        /\ Move(Redistributed(TOKEN_INFO.total_supply), name, other, amount, BaseValue(amount))
    BY <1>7 DEF TransferFrom
  <2>2. ASSUME name = sink
        PROVE  amount = 0
    <3>1. /\ ALLOWANCES[name][sender] \in AllowanceResponse
          /\ ALLOWANCES'[name][sender].allowance = ALLOWANCES[name][sender].allowance - amount
      BY <1>1, <2>1, DeductEffect
    <3>2. ALLOWANCES'[name][sender] = ALLOWANCES[name][sender]
      BY <2>2 DEF PaysNothing
    <3>3. ALLOWANCES[name][sender].allowance \in Nat /\ amount \in Nat
      BY <1>1, <3>1, ResolutionAssumption DEF AllowanceResponse, U128
    <3>4. QED
      BY <3>1, <3>2, <3>3
  <2>3. QED
    BY <1>4, <2>1, <2>2
<1>8. ASSUME NEW sender \in Addr, Execute(sender)
      PROVE  \E name \in Names, amount \in Amounts :
               \/ Mint(sender, name, amount)
               \/ Transfer(sender, name, amount)
               \/ \E other \in Names : TransferFrom(sender, name, other, amount)
  BY <1>1, <1>8
     DEF Execute, Burn, Send, BurnFrom, IncreaseAllowance, DecreaseAllowance,
         SendFrom, UpdateMinter, ChangeTaxLevel, ChangeSinkAddress, TypeOK, State
<1>9. QED
  <2> HIDE DEF Paid
  <2>1. ASSUME NEW sender \in Addr, Execute(sender)
        PROVE  Paid
    BY <1>5, <1>6, <1>7, <1>8, <2>1
  <2>2. QED
    BY <2>1 DEF Next, NextBlock, vars

\* Every change of period pays the sink the whole tax of the supply it leaves.
THEOREM TaxIsPaid == Spec => PeriodChangePaysTax
<1> DEFINE Paid ==
      LET sink == state.sink_address
      IN  /\ state'.current_period # state.current_period
          /\ sink \in Addr
          /\ PaysNothing(sink)
          => BALANCES'[sink] - BALANCES[sink]
               >= get_distribution(TOKEN_INFO'.total_supply, state'.demurrage_amount)
<1>1. Inv /\ [Next]_vars => [Paid]_vars
  BY TaxStep
<1>2. QED
  BY <1>1, Invariance, PTL DEF Spec, PeriodChangePaysTax

-----------------------------------------------------------------------------
(* Nothing is paid once the demurrage amount has run down or the next one  *)
(* overflows.                                                              *)

\* The amount that applies is zero exactly if the stored one decays to zero.
LEMMA DecayedToZero ==
    ASSUME Inv
    PROVE  LET minutes == get_minutes_delta(block.time, state.demurrage_timestamp)
           IN  DemurrageAmount = 0 <=>
                 /\ minutes # 0
                 /\ decay_by(state.demurrage_amount, state.tax_level, minutes) = 0
<1> DEFINE minutes == get_minutes_delta(block.time, state.demurrage_timestamp)
           d == state.demurrage_amount
<1>1. DemurrageAmount = IF minutes = 0 THEN d ELSE decay_by(d, state.tax_level, minutes)
  BY DEF DemurrageAmount, apply_demurrage, Inv, TypeOK, State
<1>2. d # 0
  BY ResolutionAssumption DEF Inv, DemurrageAmountPositive
<1>3. QED
  BY <1>1, <1>2

\* As blocks follow each other the minutes only grow, so that what has decayed to zero
\* still has.
LEMMA StillZero ==
    ASSUME Inv, Inv', DemurrageAmount = 0, block'.time >= block.time,
           state'.demurrage_amount = state.demurrage_amount,
           state'.demurrage_timestamp = state.demurrage_timestamp,
           state'.tax_level = state.tax_level
    PROVE  DemurrageAmount' = 0
<1> DEFINE since == state.demurrage_timestamp
           minutes == get_minutes_delta(block.time, since)
           later == get_minutes_delta(block'.time, since)
           d == state.demurrage_amount
<1>1. minutes \in Nat /\ later \in Nat /\ minutes <= later
  <2>1. /\ block.time \in Nat /\ block'.time \in Nat /\ since \in Nat
        /\ since <= block.time /\ since <= block'.time
    BY DEF Inv, TypeOK, State, ClockIsPast
  <2>2. (block.time - since) \div 60 <= (block'.time - since) \div 60
    BY <2>1
  <2>3. QED
    BY <2>1, <2>2, MinutesType DEF get_minutes_delta
<1>2. d \in U128 \ {0} /\ state.tax_level \in U128
  BY ResolutionAssumption DEF Inv, DemurrageAmountPositive, TypeOK, State
<1>3. decay_by(d, state.tax_level, minutes) = 0
  BY DecayedToZero
<1>4. later # 0 /\ decay_by(d, state.tax_level, later) = 0
  <2> HIDE DEF minutes, later, d
  <2>1. QED
    BY <1>1, <1>2, <1>3, DecayStaysZero
<1>5. DemurrageAmount' =
        LET now == get_minutes_delta(block'.time, state'.demurrage_timestamp)
        IN  IF now = 0 THEN state'.demurrage_amount
            ELSE decay_by(state'.demurrage_amount, state'.tax_level, now)
  BY DEF DemurrageAmount, apply_demurrage, Inv, TypeOK, State, get_minutes_delta
<1>6. QED
  BY <1>4, <1>5

\* The cycles since the period to leave only grow as well, and with them the passes of
\* grow_by's loop, so that one which has overflowed still does.
LEMMA StillOverflows ==
    ASSUME Inv, Inv', GrowthOverflows, block'.time >= block.time,
           state'.start_timestamp = state.start_timestamp,
           state'.current_period = state.current_period,
           state'.period_minute = state.period_minute,
           state'.tax_level = state.tax_level
    PROVE  GrowthOverflows'
<1> DEFINE target == get_period_time_delta
           cycles == demurrage_cycles(block.time, target)
           later == demurrage_cycles(block'.time, target)
           t == TruncatedTaxLevel(state.tax_level)
<1>1. /\ block.time \in Nat /\ block'.time \in Nat /\ target \in Nat
      /\ state.tax_level \in U128
  <2>1. /\ block.time \in Nat /\ block'.time \in Nat /\ state.start_timestamp \in Nat
        /\ state.current_period \in Nat /\ state.period_minute \in Nat
        /\ state.tax_level \in U128
    BY DEF Inv, TypeOK, State
  <2>2. state.current_period * state.period_minute \in Nat
    BY <2>1
  <2>3. QED
    BY <2>1, <2>2 DEF get_period_time_delta
<1>2. cycles > 0 /\ GrowthFactor(t)[LoopPasses(cycles)] = Panic
  BY DEF GrowthOverflows
<1>3. cycles \in Int /\ later \in Int /\ cycles <= later
  <2> HIDE DEF target
  <2>1. (block.time - target) \div 60 <= (block'.time - target) \div 60
    BY <1>1
  <2>2. QED
    BY <1>1, <2>1 DEF demurrage_cycles
<1>4. get_period_time_delta' = target
  BY DEF get_period_time_delta
<1> HIDE DEF cycles, later
<1>5. /\ LoopPasses(cycles) \in Nat /\ LoopPasses(later) \in Nat
      /\ LoopPasses(cycles) <= LoopPasses(later) /\ later > 0
  BY <1>2, <1>3 DEF LoopPasses
<1>6. GrowthFactor(t)[LoopPasses(later)] = Panic
  <2>1. t \in Result
    BY <1>1, TaxLevelType
  <2> HIDE DEF t
  <2>2. QED
    BY <1>2, <1>5, <2>1, GrowthStaysPanicked
<1>7. GrowthOverflows' <=>
        LET now == demurrage_cycles(block'.time, get_period_time_delta')
        IN  /\ now > 0
            /\ GrowthFactor(TruncatedTaxLevel(state'.tax_level))[LoopPasses(now)] = Panic
  BY DEF GrowthOverflows
<1>8. QED
  BY <1>4, <1>5, <1>6, <1>7 DEF later

\* With a demurrage amount of zero the base value of any amount divides by zero, and when
\* the growth overflows so does change_period: messages which change the period are
\* refused and the others leave what decays and what is counted.
LEMMA FrozenStep ==
    ASSUME Inv, [Next]_vars, Frozen, state'.tax_level = state.tax_level
    PROVE  /\ Frozen'
           /\ state'.current_period = state.current_period
           /\ Holdings' <= Holdings
<1>1. /\ TypeOK /\ Amounts \subseteq U128 /\ Amounts \subseteq Result
      /\ BALANCES \in [Addr -> U128] /\ state \in State /\ block.time \in Nat
  BY ContractAssumption DEF Inv, TypeOK, Result
<1>2. Holdings = Total(BALANCES) /\ Holdings \in Int
  BY <1>1, TotalType DEF Total, Holdings
<1>3. /\ \A amount \in Amounts : amount \in Nat
      /\ \/ \A amount \in Amounts : BaseValue(amount) = Panic
         \/ \A supply : ~change_period(supply)
  <2>1. \A amount \in Amounts : amount \in Nat
    BY <1>1, ResolutionAssumption DEF U128
  <2>2. ASSUME DemurrageAmount = 0, NEW amount \in Amounts
        PROVE  BaseValue(amount) = Panic
    <3>1. amount \in U128 /\ 0 \in 0..INITIAL_DEMURRAGE
      BY <1>1, ResolutionAssumption
    <3>2. to_base_amount(amount, 0) = Panic
      BY <3>1, BaseAmountCoversValue
    <3>3. QED
      BY <2>2, <3>2 DEF BaseValue
  <2>3. ASSUME GrowthOverflows, NEW supply
        PROVE  ~change_period(supply)
    <3>1. NextDemurrageAmount = Panic
      BY <2>3 DEF GrowthOverflows, NextDemurrageAmount, grow_by, \otimes, \oslash
    <3>2. QED
      BY <3>1 DEF change_period
  <2>4. QED
    BY <2>1, <2>2, <2>3 DEF Frozen
<1> DEFINE Kept ==
             /\ \/ UNCHANGED state
                \/ \E name : state' = [state EXCEPT !.sink_address = name]
             /\ block'.time >= block.time
             /\ Holdings' <= Holdings
<1>4. ASSUME NEW owner \in Addr, NEW amount \in Amounts, Destroy(owner, amount)
      PROVE  Holdings' <= Holdings
  <2>1. Holdings' = Holdings - amount
    BY <1>1, <1>4, DestroyTotal
  <2>2. QED
    BY <1>2, <1>3, <2>1
<1>5. ASSUME NEW owner \in Addr, NEW rcpt \in Addr, NEW amount \in Amounts,
             Move(BALANCES, owner, rcpt, amount, amount)
      PROVE  Holdings' <= Holdings
  <2>1. Holdings' = Total(BALANCES) - amount + amount
    BY <1>1, <1>5, MoveTotal
  <2>2. QED
    BY <1>2, <1>3, <2>1
<1>6. BALANCES' = BALANCES => Holdings' <= Holdings
  BY <1>2 DEF Holdings
<1>7. ASSUME UNCHANGED vars
      PROVE  Kept
  BY <1>1, <1>6, <1>7 DEF vars
<1>8. ASSUME NextBlock
      PROVE  Kept
  <2>1. block'.time >= block.time
    BY <1>1, <1>8, ContractAssumption DEF NextBlock
  <2>2. QED
    BY <1>6, <1>8, <2>1 DEF NextBlock
<1>9. ASSUME NEW sender \in Addr, Execute(sender)
      PROVE  Kept
  <2>1. ASSUME NEW name \in Names, NEW amount \in Amounts
        PROVE  /\ ~Transfer(sender, name, amount)
               /\ ~Mint(sender, name, amount)
               /\ \A other \in Names : ~TransferFrom(sender, name, other, amount)
    BY <1>3, <2>1 DEF Transfer, Mint, TransferFrom, Move
  <2>2. ASSUME NEW name \in Names, NEW amount \in Amounts,
               \/ Burn(sender, amount)
               \/ BurnFrom(sender, name, amount)
        PROVE  Kept
    BY <1>1, <1>4, <2>2 DEF Burn, BurnFrom
  <2>3. ASSUME NEW name \in Names, NEW other \in Names, NEW amount \in Amounts,
               \/ Send(sender, name, amount)
               \/ SendFrom(sender, name, other, amount)
        PROVE  Kept
    BY <1>1, <1>5, <2>3 DEF Send, SendFrom
  <2>4. ASSUME NEW level, ChangeTaxLevel(level)
        PROVE  Kept
    <3>1. state' = [state EXCEPT !.tax_level = state.tax_level]
      BY <1>1, <2>4 DEF ChangeTaxLevel, State
    <3>2. state' = state
      BY <1>1, <3>1 DEF State
    <3>3. QED
      BY <1>1, <1>6, <2>4, <3>2 DEF ChangeTaxLevel
  <2>5. ASSUME NEW name, NEW amount, NEW expires,
               \/ UpdateMinter(sender, name)
               \/ IncreaseAllowance(sender, name, amount, expires)
               \/ DecreaseAllowance(sender, name, amount, expires)
               \/ ChangeSinkAddress(name)
        PROVE  Kept
    BY <1>1, <1>6, <2>5
       DEF UpdateMinter, IncreaseAllowance, DecreaseAllowance, ChangeSinkAddress
  <2>6. Names # {}
    BY <1>1 DEF State
  <2> HIDE DEF Kept
  <2>7. QED
    BY <1>9, <2>1, <2>2, <2>3, <2>4, <2>5, <2>6 DEF Execute
<1>10. Kept
  <2> HIDE DEF Kept
  <2>1. QED
    BY <1>7, <1>8, <1>9 DEF Next
<1>11. /\ state'.demurrage_amount = state.demurrage_amount
       /\ state'.demurrage_timestamp = state.demurrage_timestamp
       /\ state'.start_timestamp = state.start_timestamp
       /\ state'.period_minute = state.period_minute
       /\ state'.current_period = state.current_period
  BY <1>1, <1>10 DEF State
<1>12. Frozen'
  <2>1. Inv' /\ block'.time >= block.time
    BY <1>10, StepInv
  <2>2. CASE DemurrageAmount = 0
    BY <1>11, <2>1, <2>2, StillZero DEF Frozen
  <2>3. CASE GrowthOverflows
    BY <1>11, <2>1, <2>3, StillOverflows DEF Frozen
  <2>4. QED
    BY <2>2, <2>3 DEF Frozen
<1>13. QED
  BY <1>10, <1>11, <1>12

\* Once the demurrage amount to apply has run down to zero, or the growth of the next one
\* overflows, payments and mints are refused for good, at whatever time, unless the tax
\* level changes (to_base_amount, change_period).
THEOREM PaymentsStayFrozen == Spec => FrozenUntilTaxLevelChanges
<1> DEFINE StaysFrozen ==
      Frozen /\ state'.tax_level = state.tax_level =>
        /\ Frozen'
        /\ state'.current_period = state.current_period
        /\ Holdings' <= Holdings
<1>1. Inv /\ [Next]_vars => [StaysFrozen]_vars
  BY FrozenStep
<1>2. QED
  BY <1>1, Invariance, PTL DEF Spec, FrozenUntilTaxLevelChanges

=============================================================================
